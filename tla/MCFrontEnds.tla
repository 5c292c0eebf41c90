----------------------------- MODULE MCFrontEnds ----------------------------
EXTENDS FrontEnds
AllPages == {"capture-clock", "capture-recording", "capture-score", "detail",
             "events", "streaming", "cameras", "overlays", "setup", "settings",
             "exports", "dashboard", "health", "deck",
             "readiness", "toasts", "mockups", "mocks", "client"} \cup Scripts
TheMockups == {"a", "b", "_c"}
TheHidden == {"_c"}
TwoKeys == 1..2
TheMatches == <<"m1", "m2", "m3", "m4", "m5", "m6">>
TheCameras == <<"c1", "c2", "c3", "c4", "c5", "c6">>
TheDestinations == <<"d1", "d2", "d3", "d4", "d5", "d6">>
TheEvents == <<"e1", "e2", "e3", "e4", "e5", "e6">>
=============================================================================
