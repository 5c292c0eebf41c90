------------------------------ MODULE MockApi ------------------------------
(***************************************************************************)
(* The development API server (artifacts/api-server): an Express           *)
(* application whose routes keep everything in memory.  A handler runs to  *)
(* its end in one turn, so it is an operator from the state of the server  *)
(* d, the time t and the request's parts to an answer, with the state it   *)
(* leaves behind.  Respond is the router.                                  *)
(***************************************************************************)
EXTENDS Endpoints, Integers, Sequences

CONSTANTS
  MatchIds,        \* identifiers, in the order in which they are given out:
  CameraIds,       \* the first of each is the seed's.  Their lengths bound
  DestinationIds,  \* how many are created
  EventIds         \* the same for events; the seed's are SeedEvents

\* A match identifier is a path element chosen by the caller: one that
\* no match ever has.
UnknownMatch == "current"

NoTime == -1

-----------------------------------------------------------------------------
(* What the requests' schemas admit: the fields the handlers tell apart.   *)

Sports == {"hurling", "gaelic-football"}
Statuses == {"setup", "ready", "active", "complete"}

CreateMatchBody(b)       == b \in {<<s>> : s \in Sports}
UpdateMatchBody(b)       == b \in {<<s>> : s \in Statuses}
UpdateMatchScoreBody(b)  == b \in {"home", "away"} \X {"goal", "point", "two-point"}
\* A number travels as a numeral.
Numerals == [n \in {"0", "3"} |-> IF n = "0" THEN 0 ELSE 3]
CorrectMatchClockBody(b) == b \in {<<n>> : n \in DOMAIN Numerals}
CreateMatchEventBody(b)  == b \in {<<"goal">>, <<"card">>}
UpdateMatchEventBody(b)  == b \in {<<"unreviewed">>, <<"flagged">>}
CreateCameraBody(b)      == b \in {<<"axis">>, <<"onvif">>}
UpdateCameraBody(b)      == b \in {<<"axis">>, <<"onvif">>}
SendPtzCommandBody(b)    == b \in {<<"pan-left">>, <<"stop">>}
SaveCameraPresetBody(b)  == b \in {<<"wide">>}
StartRecordingBody(b)    == Len(b) = 1
StartStreamingBody(b)    == Len(b) = 1
CreateDestinationBody(b) == b \in {<<"youtube">>, <<"srt-custom">>}
ExportMatchBody(b)       == \A i \in 1..Len(b) : b[i] \in {"json", "csv", "manifest"}

-----------------------------------------------------------------------------
(* The state.  A Map of the code is a function of the keys it has.         *)

ScoreState == [goal : Nat, point : Nat, twoPoint : Nat]
Match      == [sport : Sports, status : Statuses]
ClockState == [secs : Nat, rec : Nat, running : BOOLEAN,
               since : Nat \cup {NoTime}, base : Nat, baseRec : Nat]
Score      == [sport : Sports, home : ScoreState, away : ScoreState]
MatchEvent == [n : 1..Len(EventIds), type : {"goal", "card"},
               review : {"unreviewed", "flagged"}]
Camera     == [maker : {"axis", "onvif"},
               state : {"connected", "disconnected"}]
Destination == [platform : {"youtube", "srt-custom"}, isDefault : BOOLEAN]

Ids(s) == {s[i] : i \in 1..Len(s)}

MapType(f, keys, values) ==
  /\ DOMAIN f \subseteq keys
  /\ \A k \in DOMAIN f : f[k] \in values

MockApiTypeOK(d) ==
  LET asked == Ids(MatchIds) \cup {UnknownMatch} IN
  /\ MapType(d.matches, Ids(MatchIds), Match)
  /\ MapType(d.clocks, asked, ClockState)
  /\ MapType(d.scores, Ids(MatchIds), Score)
  /\ DOMAIN d.events \subseteq asked
  /\ \A m \in DOMAIN d.events : \A i \in 1..Len(d.events[m]) :
       d.events[m][i] \in MatchEvent
  /\ MapType(d.recordings, asked, BOOLEAN)
  /\ d.active \in asked \cup {"none"}
  /\ d.stream \in Ids(DestinationIds) \cup {"off"}
  /\ MapType(d.destinations, Ids(DestinationIds), Destination)
  /\ MapType(d.cameras, Ids(CameraIds), Camera)
  /\ MapType(d.presets, Ids(CameraIds), Nat)
  /\ d.matchCounter \in 1..Len(MatchIds)
  /\ d.cameraCounter \in 1..Len(CameraIds)
  /\ d.destinationCounter \in 1..Len(DestinationIds)
  /\ d.eventCounter \in 0..Len(EventIds)
  /\ d.profiles \in Nat

Set(f, k, v) == [x \in DOMAIN f \cup {k} |-> IF x = k THEN v ELSE f[x]]
Only(k, v) == [x \in {k} |-> v]
Without(f, k) == [x \in DOMAIN f \ {k} |-> f[x]]

NoClock == [secs |-> 0, rec |-> 0, running |-> FALSE, since |-> NoTime,
            base |-> 0, baseRec |-> 0]
NoPoints == [goal |-> 0, point |-> 0, twoPoint |-> 0]
InitialScore(sport) == [sport |-> sport, home |-> NoPoints, away |-> NoPoints]

\* The seeds of the modules.  One event stands for the seed's five.
Seed ==
  [matches |-> Only(MatchIds[1], [sport |-> "hurling", status |-> "complete"]),
   clocks |-> <<>>, scores |-> <<>>,
   events |-> Only(MatchIds[1],
     <<[n |-> 1, type |-> "card", review |-> "unreviewed"]>>),
   recordings |-> <<>>, active |-> "none",
   stream |-> "off",
   destinations |-> Only(DestinationIds[1],
     [platform |-> "youtube", isDefault |-> TRUE]),
   cameras |-> Only(CameraIds[1], [maker |-> "axis", state |-> "disconnected"]),
   presets |-> Only(CameraIds[1], 1),
   matchCounter |-> 1, cameraCounter |-> 1, destinationCounter |-> 1,
   eventCounter |-> 1, profiles |-> 2]

Answer(d, status, body) == [db |-> d, status |-> status, body |-> body]
Ok(d, body)      == Answer(d, 200, body)
Created(d, body) == Answer(d, 201, body)
Refused(d, status) == Answer(d, status, <<>>)

-----------------------------------------------------------------------------
(* Matches.                                                                 *)

ListMatches(d) == Ok(d, d.matches)

\* POST /matches.
AddMatch(d, body) ==
  LET m == MatchIds[d.matchCounter + 1]
      match == [sport |-> body[1], status |-> "setup"]
  IN IF ~CreateMatchBody(body) THEN Refused(d, 400)
     ELSE Created([d EXCEPT !.matchCounter = @ + 1,
                            !.matches = Set(@, m, match),
                            !.clocks = Set(@, m, NoClock),
                            !.scores = Set(@, m, InitialScore(body[1]))],
                  m)

ReadMatch(d, m) ==
  IF m \in DOMAIN d.matches THEN Ok(d, d.matches[m]) ELSE Refused(d, 404)

ChangeMatch(d, m, body) ==
  IF m \notin DOMAIN d.matches THEN Refused(d, 404)
  ELSE IF ~UpdateMatchBody(body) THEN Refused(d, 400)
  ELSE LET updated == [d EXCEPT !.matches[m].status = body[1]]
       IN Ok(updated, updated.matches[m])

\* POST /matches/:matchId/start: from any status.
BeginMatch(d, m) ==
  IF m \notin DOMAIN d.matches THEN Refused(d, 404)
  ELSE Ok([d EXCEPT !.matches[m].status = "active"], "Match started")

EndMatch(d, m) ==
  IF m \notin DOMAIN d.matches THEN Refused(d, 404)
  ELSE Ok([d EXCEPT !.matches[m].status = "complete"], "Match complete")

-----------------------------------------------------------------------------
(* The clock.  m need not be a match's.                                     *)

ClockOf(d, m) == IF m \in DOMAIN d.clocks THEN d.clocks[m] ELSE NoClock

ClockAnswer(c) == [secs |-> c.secs, rec |-> c.rec, running |-> c.running]

\* The seconds of a running clock come up to date when it is read.
Refreshed(c, t) ==
  IF c.running /\ c.since # NoTime
  THEN [c EXCEPT !.secs = c.base + (t - c.since),
                 !.rec = c.baseRec + (t - c.since)]
  ELSE c

\* It counts on from the seconds it has now.
Running(c, t) ==
  [c EXCEPT !.running = TRUE, !.since = t, !.base = c.secs, !.baseRec = c.rec]

WithClock(d, m, c) == Ok([d EXCEPT !.clocks = Set(@, m, c)], ClockAnswer(c))

ReadClock(d, t, m) == WithClock(d, m, Refreshed(ClockOf(d, m), t))

\* Mutant: the clock starts from its last base.
RunClockAgain(d, t, m) ==
  WithClock(d, m, [Running(ClockOf(d, m), t) EXCEPT
                     !.secs = ClockOf(d, m).base])

\* POST clock/start: a running clock starts again from the seconds that were
\* last read; those since are lost.
RunClock(d, t, m) == WithClock(d, m, Running(ClockOf(d, m), t))

PauseClock(d, t, m) ==
  LET c == ClockOf(d, m) IN
  IF c.running /\ c.since # NoTime
  THEN WithClock(d, m, [Refreshed(c, t) EXCEPT !.running = FALSE,
                                               !.since = NoTime])
  ELSE Ok(d, [ClockAnswer(c) EXCEPT !.running = FALSE])

ResumeClock(d, t, m) ==
  LET c == ClockOf(d, m) IN
  IF m \in DOMAIN d.clocks /\ ~c.running
  THEN WithClock(d, m, Running(c, t))
  ELSE Ok(d, [ClockAnswer(c) EXCEPT !.running = TRUE])

\* The recording's seconds since the last reading are dropped with since.
CorrectClock(d, t, m, body) ==
  LET c == ClockOf(d, m)
      secs == Numerals[body[1]]
  IN IF ~CorrectMatchClockBody(body) THEN Refused(d, 400)
     ELSE WithClock(d, m, [c EXCEPT !.secs = secs, !.base = secs,
                               !.since = IF @ = NoTime THEN @ ELSE t])

-----------------------------------------------------------------------------
(* Score and events.                                                        *)

ReadScore(d, m) ==
  IF m \in DOMAIN d.scores THEN Ok(d, d.scores[m])
  ELSE IF m \notin DOMAIN d.matches THEN Refused(d, 404)
  ELSE LET score == InitialScore(d.matches[m].sport)
       IN Ok([d EXCEPT !.scores = Set(@, m, score)], score)

Scored(score, team, type) ==
  LET more == [score[team] EXCEPT !.goal = @ + (IF type = "goal" THEN 1 ELSE 0),
                !.point = @ + (IF type = "point" THEN 1 ELSE 0),
                !.twoPoint = @ + (IF type = "two-point" THEN 1 ELSE 0)]
  IN [score EXCEPT ![team] = more]

\* PUT /matches/:matchId/score: a score refused is not even created.
AddScore(d, m, body) ==
  LET read == ReadScore(d, m)
      score == Scored(read.body, body[1], body[2])
  IN IF ~UpdateMatchScoreBody(body) THEN Refused(d, 400)
     ELSE IF read.status # 200 THEN Refused(d, 404)
     ELSE IF body[2] = "two-point" /\ read.body.sport # "gaelic-football"
     THEN Refused(d, 400)
     ELSE Ok([d EXCEPT !.scores = Set(@, m, score)], score)

EventsOf(d, m) == IF m \in DOMAIN d.events THEN d.events[m] ELSE <<>>
WithEvents(d, m, events) == [d EXCEPT !.events = Set(@, m, events)]

\* findIndex; 0 when there is none.
IndexOf(events, e) ==
  LET at == {i \in 1..Len(events) : EventIds[events[i].n] = e}
  IN IF at = {} THEN 0 ELSE CHOOSE i \in at : \A j \in at : i <= j

ListEvents(d, m) == Ok(d, EventsOf(d, m))

\* Mutant: the identifier counts the match's events.
AddEventByLength(d, m, body) ==
  LET event == [n |-> Len(EventsOf(d, m)) + 1, type |-> body[1],
                review |-> "unreviewed"]
  IN IF ~CreateMatchEventBody(body) THEN Refused(d, 400)
     ELSE Created([WithEvents(d, m, Append(EventsOf(d, m), event))
                     EXCEPT !.eventCounter = @ + 1],
                  event)

\* POST events: one counter numbers the events of all matches.
AddEvent(d, m, body) ==
  LET event == [n |-> d.eventCounter + 1, type |-> body[1],
                review |-> "unreviewed"]
  IN IF ~CreateMatchEventBody(body) THEN Refused(d, 400)
     ELSE Created([WithEvents(d, m, Append(EventsOf(d, m), event))
                     EXCEPT !.eventCounter = @ + 1],
                  event)

ChangeEvent(d, m, e, body) ==
  LET i == IndexOf(EventsOf(d, m), e)
      events == [EventsOf(d, m) EXCEPT ![i].review = body[1]]
  IN IF ~UpdateMatchEventBody(body) THEN Refused(d, 400)
     ELSE IF i = 0 THEN Refused(d, 404)
     ELSE Ok(WithEvents(d, m, events), events[i])

\* sendStatus(204).
RemoveEvent(d, m, e) ==
  LET events == EventsOf(d, m)
      i == IndexOf(events, e)
  IN IF i = 0 THEN Refused(d, 404)
     ELSE Answer(WithEvents(d, m, SubSeq(events, 1, i - 1)
                                  \o SubSeq(events, i + 1, Len(events))),
                 204, <<>>)

\* POST events/undo: whatever event is the last.
Undo(d, m) ==
  LET events == EventsOf(d, m) IN
  IF events = <<>> THEN Ok(d, "No events to undo")
  ELSE Ok(WithEvents(d, m, SubSeq(events, 1, Len(events) - 1)), "undone")

-----------------------------------------------------------------------------
(* Recording and streaming.  Elapsed seconds are left out.                  *)

IsRecording(d, m) == m \in DOMAIN d.recordings /\ d.recordings[m]

RecordingStatus(d, m) == IF IsRecording(d, m) THEN "recording" ELSE "idle"

\* POST /recording/start.
BeginRecording(d, body) ==
  LET m == body[1] IN
  IF ~StartRecordingBody(body) THEN Refused(d, 400)
  ELSE IF d.active # m /\ IsRecording(d, d.active) THEN Refused(d, 409)
  ELSE Ok([d EXCEPT !.recordings = Set(@, m, TRUE), !.active = m],
          "recording")

EndRecording(d) ==
  IF d.active \in DOMAIN d.recordings
  THEN Ok([d EXCEPT !.recordings[d.active] = FALSE], "idle")
  ELSE Ok(d, "idle")

ReadRecording(d) == Ok(d, RecordingStatus(d, d.active))

BeginStream(d, body) ==
  IF ~StartStreamingBody(body) THEN Refused(d, 400)
  ELSE IF body[1] \notin DOMAIN d.destinations THEN Refused(d, 400)
  ELSE Ok([d EXCEPT !.stream = body[1]], body[1])

EndStream(d) == Ok([d EXCEPT !.stream = "off"], "off")

ReadStream(d) == Ok(d, d.stream)

ListDestinations(d) == Ok(d, d.destinations)

\* The identifier is drawn at random and taken to be a new one.
AddDestination(d, body) ==
  LET id == DestinationIds[d.destinationCounter + 1] IN
  IF ~CreateDestinationBody(body) THEN Refused(d, 400)
  ELSE Created([d EXCEPT !.destinationCounter = @ + 1,
                         !.destinations = Set(@, id,
                            [platform |-> body[1], isDefault |-> FALSE])],
               id)

-----------------------------------------------------------------------------
(* Cameras.                                                                 *)

ListCameras(d) == Ok(d, d.cameras)

AddCamera(d, body) ==
  LET c == CameraIds[d.cameraCounter + 1] IN
  IF ~CreateCameraBody(body) THEN Refused(d, 400)
  ELSE Created([d EXCEPT !.cameraCounter = @ + 1,
                         !.cameras = Set(@, c, [maker |-> body[1],
                                                state |-> "disconnected"]),
                         !.presets = Set(@, c, 0)],
               c)

ReadCamera(d, c) ==
  IF c \in DOMAIN d.cameras THEN Ok(d, d.cameras[c]) ELSE Refused(d, 404)

ChangeCamera(d, c, body) ==
  IF c \notin DOMAIN d.cameras THEN Refused(d, 404)
  ELSE IF ~UpdateCameraBody(body) THEN Refused(d, 400)
  ELSE LET updated == [d EXCEPT !.cameras[c].maker = body[1]]
       IN Ok(updated, updated.cameras[c])

RemoveCamera(d, c) ==
  IF c \notin DOMAIN d.cameras THEN Refused(d, 404)
  ELSE Answer([d EXCEPT !.cameras = Without(@, c), !.presets = Without(@, c)],
              204, <<>>)

ConnectTo(d, c) ==
  IF c \notin DOMAIN d.cameras THEN Refused(d, 404)
  ELSE Ok([d EXCEPT !.cameras[c].state = "connected"], "connected")

DisconnectFrom(d, c) ==
  IF c \notin DOMAIN d.cameras THEN Refused(d, 404)
  ELSE Ok([d EXCEPT !.cameras[c].state = "disconnected"], "disconnected")

ProbeCamera(d, c) ==
  IF c \notin DOMAIN d.cameras THEN Refused(d, 404) ELSE Ok(d, "success")

\* The camera is not looked up.
MovePtz(d, body) ==
  IF ~SendPtzCommandBody(body) THEN Refused(d, 400) ELSE Ok(d, body[1])

ListPresets(d, c) ==
  Ok(d, IF c \in DOMAIN d.presets THEN d.presets[c] ELSE 0)

\* Nor here: the presets of a camera removed come back.  A list of presets is
\* its length.
AddPreset(d, c, body) ==
  LET n == ListPresets(d, c).body IN
  IF ~SaveCameraPresetBody(body) THEN Refused(d, 400)
  ELSE Created([d EXCEPT !.presets = Set(@, c, n + 1)], body[1])

-----------------------------------------------------------------------------
(* The rest keeps nothing, but for the profiles: a list is its length.      *)

Export(d, body) ==
  IF ExportMatchBody(body) THEN Ok(d, Len(body)) ELSE Refused(d, 400)

ListProfiles(d) == Ok(d, d.profiles)
AddProfile(d) == Created([d EXCEPT !.profiles = @ + 1], d.profiles + 1)

Constant(d, what) == Ok(d, what)

-----------------------------------------------------------------------------
(* The router: the answer to request r at time t.                           *)

Wild == "*"

Matching(path, pattern) ==
  /\ Len(path) = Len(pattern)
  /\ \A i \in 1..Len(path) : pattern[i] \in {Wild, path[i]}

RespondMatches(d, t, r) ==
  LET m == r.path[2]
      b == r.body
      At(method, rest) == /\ r.method = method
                          /\ Matching(r.path, OfMatch(Wild, rest))
  IN CASE At("GET", <<>>)                  -> ReadMatch(d, m)
       [] At("PUT", <<>>)                  -> ChangeMatch(d, m, b)
       [] At("POST", <<"start">>)          -> BeginMatch(d, m)
       [] At("POST", <<"stop">>)           -> EndMatch(d, m)
       [] At("GET", <<"clock">>)           -> ReadClock(d, t, m)
       [] At("POST", <<"clock", "start">>) -> RunClock(d, t, m)
       [] At("POST", <<"clock", "pause">>) -> PauseClock(d, t, m)
       [] At("POST", <<"clock", "resume">>)  -> ResumeClock(d, t, m)
       [] At("POST", <<"clock", "correct">>) -> CorrectClock(d, t, m, b)
       [] At("GET", <<"score">>)           -> ReadScore(d, m)
       [] At("PUT", <<"score">>)           -> AddScore(d, m, b)
       [] At("GET", <<"events">>)          -> ListEvents(d, m)
       [] At("POST", <<"events">>)         -> AddEvent(d, m, b)
       [] At("POST", <<"events", "undo">>) -> Undo(d, m)
       [] At("PUT", <<"events", Wild>>)     -> ChangeEvent(d, m, r.path[4], b)
       [] At("DELETE", <<"events", Wild>>)  -> RemoveEvent(d, m, r.path[4])
       [] At("POST", <<"export">>)         -> Export(d, b)
       [] OTHER                            -> Refused(d, 404)

RespondCameras(d, r) ==
  LET c == r.path[2]
      b == r.body
      At(method, rest) == /\ r.method = method
                          /\ Matching(r.path, <<"cameras", Wild>> \o rest)
  IN CASE At("GET", <<>>)              -> ReadCamera(d, c)
       [] At("PUT", <<>>)              -> ChangeCamera(d, c, b)
       [] At("DELETE", <<>>)           -> RemoveCamera(d, c)
       [] At("POST", <<"connect">>)    -> ConnectTo(d, c)
       [] At("POST", <<"disconnect">>) -> DisconnectFrom(d, c)
       [] At("POST", <<"test">>)       -> ProbeCamera(d, c)
       [] At("POST", <<"ptz">>)        -> MovePtz(d, b)
       [] At("GET", <<"presets">>)     -> ListPresets(d, c)
       [] At("POST", <<"presets">>)    -> AddPreset(d, c, b)
       [] OTHER                        -> Refused(d, 404)

RespondElse(d, r) ==
  LET Is(method, path) == r.method = method /\ r.path = path IN
  CASE Is("GET", <<"matches">>)    -> ListMatches(d)
    [] Is("POST", <<"matches">>)   -> AddMatch(d, r.body)
    [] Is("GET", <<"cameras">>)    -> ListCameras(d)
    [] Is("POST", <<"cameras">>)   -> AddCamera(d, r.body)
    [] Is("POST", <<"recording", "start">>) -> BeginRecording(d, r.body)
    [] Is("POST", <<"recording", "stop">>)  -> EndRecording(d)
    [] Is("GET", <<"recording", "status">>) -> ReadRecording(d)
    [] Is("POST", <<"streaming", "start">>) -> BeginStream(d, r.body)
    [] Is("POST", <<"streaming", "stop">>)  -> EndStream(d)
    [] Is("GET", <<"streaming", "status">>) -> ReadStream(d)
    [] Is("GET", <<"streaming", "destinations">>)  -> ListDestinations(d)
    [] Is("POST", <<"streaming", "destinations">>) -> AddDestination(d, r.body)
    [] Is("GET", <<"stream-deck", "profiles">>)    -> ListProfiles(d)
    [] Is("POST", <<"stream-deck", "profiles">>)   -> AddProfile(d)
    [] r.method = "GET" /\ r.path \in
         {<<"healthz">>, <<"system", "status">>, <<"storage", "status">>,
          <<"overlays", "templates">>, <<"overlays", "state">>, <<"devices">>,
          <<"devices", "stream-deck">>, <<"devices", "joystick">>}
       -> Constant(d, r.path)
    [] OTHER -> Refused(d, 404)

Respond(d, t, r) ==
  IF Len(r.path) > 1 /\ r.path[1] = "matches" THEN RespondMatches(d, t, r)
  ELSE IF Len(r.path) > 1 /\ r.path[1] = "cameras" THEN RespondCameras(d, r)
  ELSE RespondElse(d, r)

=============================================================================
