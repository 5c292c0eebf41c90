----------------------------- MODULE Endpoints -----------------------------
(***************************************************************************)
(* The requests of the generated client (lib/api-client-react): one        *)
(* operator for each operation, which stands for its URL function, its     *)
(* fetch function and its query or mutation hook.  What they differ in is  *)
(* the method, the path and whether they carry a body; the path loses its  *)
(* common prefix "api", a body is a tuple of the fields that matter, and   *)
(* the empty tuple is no body.                                             *)
(***************************************************************************)
LOCAL INSTANCE Sequences

Request(method, path, body) ==
  [method |-> method, path |-> path, body |-> body]

Get(path)        == Request("GET", path, <<>>)
Post(path)       == Request("POST", path, <<>>)
Send(path, body) == Request("POST", path, body)
Put(path, body)  == Request("PUT", path, body)
Delete(path)     == Request("DELETE", path, <<>>)

\* The path of something that belongs to a match.
OfMatch(m, rest) == <<"matches", m>> \o rest


-----------------------------------------------------------------------------
(* System.                                                                 *)

HealthCheck == Get(<<"healthz">>)
GetSystemStatus == Get(<<"system", "status">>)

-----------------------------------------------------------------------------
(* Cameras.  c: cameraId.                                                  *)

GetCameras == Get(<<"cameras">>)
CreateCamera(body) == Send(<<"cameras">>, body)
GetCamera(c) == Get(<<"cameras", c>>)
UpdateCamera(c, body) == Put(<<"cameras", c>>, body)
DeleteCamera(c) == Delete(<<"cameras", c>>)
ConnectCamera(c) == Post(<<"cameras", c, "connect">>)
DisconnectCamera(c) == Post(<<"cameras", c, "disconnect">>)
TestCamera(c) == Post(<<"cameras", c, "test">>)
SendPtzCommand(c, body) == Send(<<"cameras", c, "ptz">>, body)
GetCameraPresets(c) == Get(<<"cameras", c, "presets">>)
SaveCameraPreset(c, body) == Send(<<"cameras", c, "presets">>, body)
GetActiveCameraPreview == Get(<<"cameras", "active", "preview">>)
DiscoverCameras(body) == Send(<<"cameras", "discover">>, body)

-----------------------------------------------------------------------------
(* Matches.  m: matchId.                                                   *)

GetMatches == Get(<<"matches">>)
CreateMatch(body) == Send(<<"matches">>, body)
GetMatch(m) == Get(<<"matches", m>>)
UpdateMatch(m, body) == Put(<<"matches", m>>, body)
DeleteMatch(m) == Delete(<<"matches", m>>)
MarkMatchReady(m) == Post(OfMatch(m, <<"ready">>))
StartMatch(m) == Post(OfMatch(m, <<"start">>))
StopMatch(m) == Post(OfMatch(m, <<"stop">>))
AbandonMatch(m) == Post(OfMatch(m, <<"abandon">>))

-----------------------------------------------------------------------------
(* The match clock.                                                        *)

GetClockSnapshot(m) == Get(OfMatch(m, <<"clock", "snapshot">>))
StartMatchClock(m) == Post(OfMatch(m, <<"clock", "start">>))
PauseMatchClock(m) == Post(OfMatch(m, <<"clock", "pause">>))
ResumeMatchClock(m) == Post(OfMatch(m, <<"clock", "resume">>))
StartHalfTime(m) == Post(OfMatch(m, <<"clock", "half-time", "start">>))
EndHalfTime(m) == Post(OfMatch(m, <<"clock", "half-time", "end">>))
EnterExtraTime(m) == Post(OfMatch(m, <<"clock", "extra-time", "enter">>))
StartExtraTime(m) == Post(OfMatch(m, <<"clock", "extra-time", "start">>))
StartExtraTimeHalfTime(m) ==
  Post(OfMatch(m, <<"clock", "extra-time", "half-time", "start">>))
EndExtraTimeHalfTime(m) ==
  Post(OfMatch(m, <<"clock", "extra-time", "half-time", "end">>))
CorrectMatchClock(m, body) == Send(OfMatch(m, <<"clock", "correct">>), body)
GetMatchClock(m) == Get(OfMatch(m, <<"clock">>))

-----------------------------------------------------------------------------
(* Readiness and presentation.                                             *)

GetLiveReadiness(m) == Get(OfMatch(m, <<"readiness">>))
GetMatchBroadcastPresentation(m) == Get(OfMatch(m, <<"broadcast">>))

-----------------------------------------------------------------------------
(* Score and events.  e: eventId.                                          *)

GetMatchScore(m) == Get(OfMatch(m, <<"score">>))
UpdateMatchScore(m, body) == Send(OfMatch(m, <<"score">>), body)
GetMatchEvents(m) == Get(OfMatch(m, <<"events">>))
CreateMatchEvent(m, body) == Send(OfMatch(m, <<"events">>), body)
UpdateMatchEvent(m, e, body) == Put(OfMatch(m, <<"events", e>>), body)
DeleteMatchEvent(m, e) == Delete(OfMatch(m, <<"events", e>>))
UndoLastEvent(m) == Post(OfMatch(m, <<"events", "undo">>))

-----------------------------------------------------------------------------
(* Recording.                                                              *)

StartRecording(body) == Send(<<"recording", "start">>, body)
StopRecording == Post(<<"recording", "stop">>)
GetRecordingStatus == Get(<<"recording", "status">>)

-----------------------------------------------------------------------------
(* Streaming.                                                              *)

StartStreaming(body) == Send(<<"streaming", "start">>, body)
StopStreaming == Post(<<"streaming", "stop">>)
GetStreamingStatus == Get(<<"streaming", "status">>)

-----------------------------------------------------------------------------
(* Export and storage.                                                     *)

ExportMatch(m, body) == Send(OfMatch(m, <<"export">>), body)
GetStorageStatus == Get(<<"storage", "status">>)

-----------------------------------------------------------------------------
(* Devices.  p: profileId.                                                 *)

GetStreamDeckStatus == Get(<<"devices", "stream-deck">>)
GetJoystickStatus == Get(<<"devices", "joystick">>)
GetStreamDeckProfiles == Get(<<"devices", "stream-deck", "profiles">>)
CreateStreamDeckProfile(body) ==
  Send(<<"devices", "stream-deck", "profiles">>, body)
GetStreamDeckProfile(p) == Get(<<"devices", "stream-deck", "profiles", p>>)
UpdateStreamDeckProfile(p, body) ==
  Put(<<"devices", "stream-deck", "profiles", p>>, body)
ActivateStreamDeckProfile(p) ==
  Post(<<"devices", "stream-deck", "profiles", p, "activate">>)

-----------------------------------------------------------------------------
(* Settings.                                                               *)

GetJoystickSettings == Get(<<"settings", "joystick">>)
UpdateJoystickSettings(body) == Put(<<"settings", "joystick">>, body)

-----------------------------------------------------------------------------
(* Destinations and overlays.  d: destinationId.                           *)

DeleteStreamingDestination(d) == Delete(<<"streaming", "destinations", d>>)
GetOverlayTemplates == Get(<<"overlays", "templates">>)
GetOverlayState == Get(<<"overlays", "state">>)
ShowOverlays == Post(<<"overlays", "show">>)
HideOverlays == Post(<<"overlays", "hide">>)
SetOverlayMode(body) == Send(<<"overlays", "mode">>, body)
GetStreamingDestinations == Get(<<"streaming", "destinations">>)
CreateStreamingDestination(body) ==
  Send(<<"streaming", "destinations">>, body)

=============================================================================
