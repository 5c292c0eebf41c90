------------------------------ MODULE Console ------------------------------
(***************************************************************************)
(* The operator's pages (artifacts/operator-ui) over the generated client: *)
(* queries that are polled or loaded once, mutations with callbacks, and   *)
(* the clicks that the page offers on what it shows.  One page is open in  *)
(* a behaviour; the server it speaks to is the development server or, for  *)
(* the pages that one does not serve, the agent.                           *)
(*                                                                         *)
(* TanStack Query is modelled by what the pages rely on: a query has one   *)
(* fetch at a time, a failed one is sent again; refetch() abandons a fetch *)
(* once there is data and joins it before; the callbacks passed to mutate  *)
(* run only for the hook's latest mutation, which isPending is about too.  *)
(* Lists that a page loads and nothing on it refetches are taken as loaded *)
(* (the active match, its camera), and elapsed times are left out.         *)
(***************************************************************************)
EXTENDS MockApi, ClientFetch

Agent == INSTANCE AgentApi

CONSTANTS
  Pages,      \* the pages, and the areas of the scripts, of the instance
  MaxCalls,   \* bound: mutations of one behaviour, one fewer if it is not calm
  MaxScript,  \* bound: requests of a script
  MaxNow,     \* bound: seconds that pass
  MaxLost     \* bound: requests or answers lost

\* The bounds are numbers, and there are identifiers enough for what a page,
\* over the history that it starts from, or a script creates.
ASSUME ConsoleAssumption ==
  /\ MaxCalls \in Nat /\ MaxScript \in Nat /\ MaxNow \in Nat /\ MaxLost \in Nat
  /\ \A ids \in {MatchIds, CameraIds, DestinationIds, EventIds} :
       Len(ids) \in Nat /\ MaxCalls + 2 <= Len(ids) /\ MaxScript + 2 <= Len(ids)

VARIABLES
  page,   \* the page that is open
  calm,   \* the operator waits for what is under way, and nothing is lost
  db,     \* the development server
  agent,  \* the agent
  now,    \* seconds
  fetch,  \* fetch[q]: "idle", "sent", "answered"
  reply,  \* reply[q]: the answer of an answered fetch
  data,   \* data[q]: what the page shows of the query
  calls,  \* the mutations, in the order in which they were made
  form,   \* the page's useState
  lost,   \* requests and answers lost
  issued  \* requests of the script

vars == <<page, calm, db, agent, now, fetch, reply, data, calls, form, lost,
          issued>>

M == MatchIds[1]

Scripts == {"clocks", "events-api", "recordings", "cameras-api", "other"}
AgentPages == {"overlays", "setup", "settings"}

-----------------------------------------------------------------------------
(* What a caller makes of an answer to method: both servers send JSON.      *)

Methods     == {"GET", "POST", "PUT", "DELETE"}
StatusCodes == {200, 201, 204, 400, 404, 409}

Undefined == [ok |-> FALSE, body |-> <<>>]

JsonResponse(status) ==
  [status |-> status, media |-> "json", length |-> "other",
   text |-> [kind |-> "object", bom |-> FALSE], blob |-> TRUE]

\* A constant, for TLC to evaluate once.
JsonResults ==
  [method \in Methods |->
     [status \in StatusCodes |->
        CustomFetch([method |-> method, body |-> FALSE, type |-> "json"],
                    JsonResponse(status))]]

Fetched(method, answer) ==
  LET result == JsonResults[method][answer.status] IN
  IF result.outcome # "value" THEN Undefined
  ELSE [ok |-> TRUE, body |-> IF result.data = "null" THEN <<>> ELSE answer.body]

Asked(r) == IF page \in AgentPages THEN Agent!AgentRespond(agent, r)
                                   ELSE Respond(db, now, r)

\* The server answers r.
Served(r) ==
  IF page \in AgentPages THEN agent' = Asked(r).db /\ UNCHANGED db
                         ELSE db' = Asked(r).db /\ UNCHANGED agent

-----------------------------------------------------------------------------
(* The pages' queries.  "live" is polled, "list" loaded once.               *)

DashboardQueries == [live |-> GetMatchClock(M), list |-> GetMatches]
HealthQueries    == [live |-> GetSystemStatus, list |-> GetStorageStatus]
ExportsQueries   == [list |-> GetMatches]
DetailQueries    == [live |-> GetMatchClock(M), list |-> GetMatch(M)]
EventQueries     == [live |-> GetMatchEvents(M)]
StreamingQueries == [live |-> GetStreamingStatus,
                     list |-> GetStreamingDestinations]
CamerasQueries   == [list |-> GetCameras]
OverlayQueries   == [list |-> GetOverlayState]

\* Of LiveCapture's, one at a time; none depends on another.
CaptureQueries(p) ==
  [live |-> CASE p = "capture-clock"     -> GetMatchClock(M)
              [] p = "capture-recording" -> GetRecordingStatus
              [] p = "capture-score"     -> GetMatchScore(M)]

QueryOf(p) ==
  CASE p \in {"capture-clock", "capture-recording", "capture-score"}
                       -> CaptureQueries(p)
    [] p = "dashboard" -> DashboardQueries
    [] p = "health"    -> HealthQueries
    [] p = "exports"   -> ExportsQueries
    [] p = "detail"    -> DetailQueries
    [] p = "events"    -> EventQueries
    [] p = "streaming" -> StreamingQueries
    [] p = "cameras"   -> CamerasQueries
    [] p = "overlays"  -> OverlayQueries
    [] OTHER           -> <<>>

Query == QueryOf(page)
Slots == DOMAIN Query
Shown(q) == data[q].body

-----------------------------------------------------------------------------
(* What the pages offer: clicks that call a hook's mutate with a request,   *)
(* and refetch the queries of then when it succeeds.                        *)

Click(hook, req, then) == [hook |-> hook, req |-> req, then |-> then]

UnderWay(i) == calls[i].at \in {"sent", "answered"}
IsLatest(i) == \A j \in i + 1..Len(calls) : calls[j].hook # calls[i].hook

\* isPending of the hook's useMutation.
Pending(hook) ==
  \E i \in 1..Len(calls) : calls[i].hook = hook /\ IsLatest(i) /\ UnderWay(i)

Unless(hook, clicks) == IF Pending(hook) THEN {} ELSE clicks

\* The clock's button, of LiveCapture and of MatchDetail.
ClockClicks ==
  IF data["live"].ok /\ Shown("live").running
  THEN {Click("pauseClock", PauseMatchClock(M), {})}
  ELSE {Click("startClock", StartMatchClock(M), {})}

ShowsRecording == data["live"].ok /\ Shown("live") = "recording"

\* Only an armed stop button stops (handleStopRecording).
RecordingClicks ==
  IF ~ShowsRecording
  THEN Unless("startRec", {Click("startRec", StartRecording(<<M>>), {})})
  ELSE IF form.armed THEN Unless("stopRec", {Click("stopRec", StopRecording, {})})
  ELSE {}

\* handleScore: the client POSTs what the development server takes by PUT.
ScoreClicks ==
  {Click("updateScore", UpdateMatchScore(M, <<team, type>>), {}) :
     team \in {"home", "away"},
     type \in {"goal", "point"}
               \cup IF data["live"].ok /\ Shown("live").sport = "gaelic-football"
                    THEN {"two-point"} ELSE {}}

\* markReady: of what its onSuccess refetches, the match.
MarkReadyClick == Click("markReady", MarkMatchReady(M), {"list"})

ReadyClicks ==
  IF data["list"].ok /\ Shown("list").status = "setup"
  THEN Unless("markReady", {MarkReadyClick})
  ELSE {}

FlagClick(event) ==
  Click("updateEvent",
        UpdateMatchEvent(M, EventIds[event.n],
                         <<IF event.review = "flagged" THEN "unreviewed"
                                                       ELSE "flagged">>),
        {"live"})

DeleteClick(event) ==
  Click("deleteEvent", DeleteMatchEvent(M, EventIds[event.n]), {"live"})

UndoClick == Click("undoEvent", UndoLastEvent(M), {"live"})

EventClicks ==
  LET shown == {Shown("live")[i] : i \in 1..Len(Shown("live"))} IN
  (IF shown = {} THEN {} ELSE Unless("undoEvent", {UndoClick}))
  \cup {FlagClick(e) : e \in shown} \cup {DeleteClick(e) : e \in shown}

\* handleAdd.
AddDestinationClick ==
  Click("createDest", CreateStreamingDestination(<<"srt-custom">>), {"list"})

\* handleToggleStream, with the destination selected or the default one.
ToggleClicks ==
  IF data["live"].ok /\ Shown("live") # "off"
  THEN {Click("stopStream", StopStreaming, {})}
  ELSE {Click("startStream", StartStreaming(<<id>>), {}) :
          id \in DOMAIN Shown("list")}

StreamingClicks ==
  (IF Pending("startStream") \/ Pending("stopStream") THEN {} ELSE ToggleClicks)
  \cup Unless("createDest", {AddDestinationClick})

\* handleExport.
ExportClick(m, formats) == Click("exportMatch", ExportMatch(m, formats), {})

\* Of a match selected and one or more formats.
ExportClicks ==
  IF ~data["list"].ok THEN {}
  ELSE Unless("exportMatch",
              {ExportClick(m, formats) :
                 m \in DOMAIN Shown("list"),
                 formats \in {<<"json">>, <<"json", "csv", "manifest">>}})

\* Mutant: no refetch after a deletion.
CameraClicksForgetful(c, state) ==
  {Click("deleteCam", DeleteCamera(c), {})}
  \cup IF state = "connected"
       THEN Unless("disconnectCam",
                   {Click("disconnectCam", DisconnectCamera(c), {"list"})})
       ELSE Unless("connectCam", {Click("connectCam", ConnectCamera(c), {"list"})})

\* The buttons of one camera's card.
CameraClicks(c, state) ==
  {Click("deleteCam", DeleteCamera(c), {"list"})}
  \cup (IF state = "connected"
        THEN Unless("disconnectCam",
                    {Click("disconnectCam", DisconnectCamera(c), {"list"})})
        ELSE Unless("connectCam",
                    {Click("connectCam", ConnectCamera(c), {"list"})}))
  \cup Unless("testCam", {Click("testCam", TestCamera(c), {})})

\* handleAdd.
AddCameraClick == Click("createCam", CreateCamera(<<"onvif">>), {"list"})

CamerasClicks ==
  Unless("createCam", {AddCameraClick})
  \cup UNION {CameraClicks(c, Shown("list")[c].state) :
                c \in DOMAIN Shown("list")}

\* setMode; "overlay-only" is as these.
ModeClicks ==
  {Click("overlay", SetOverlayMode(<<mode>>), {"list"}) :
     mode \in {"clean", "programme"}}

\* mutateOverlay does nothing while it mutates, its refetch included.
OverlayClicks ==
  IF form.mutating THEN {}
  ELSE ModeClicks
       \cup {IF data["list"].ok /\ Shown("list").visible
             THEN Click("overlay", HideOverlays, {"list"})
             ELSE Click("overlay", ShowOverlays, {"list"})}

\* onSubmit.
CreateClick(sport) == Click("createMatch", CreateMatch(<<sport>>), {})

\* The form; a success leaves the page.
SetupClicks ==
  IF form.left THEN {}
  ELSE Unless("createMatch", {CreateClick(sport) : sport \in Sports})

SettingsClicks ==
  IF form.loading THEN {}
  ELSE Unless("save", {Click("save", UpdateJoystickSettings(form.config), {})})

Clicks ==
  CASE page = "capture-clock"     -> ClockClicks
    [] page = "capture-recording" -> RecordingClicks
    [] page = "capture-score"     -> ScoreClicks
    [] page = "exports"   -> ExportClicks
    [] page = "detail"    -> ClockClicks \cup ReadyClicks
    [] page = "events"    -> EventClicks
    [] page = "streaming" -> StreamingClicks
    [] page = "cameras"   -> CamerasClicks
    [] page = "overlays"  -> OverlayClicks
    [] page = "setup"     -> SetupClicks
    [] page = "settings"  -> SettingsClicks
    [] OTHER              -> {}

-----------------------------------------------------------------------------
(* The pages' state.                                                        *)

\* A history that the pages start from: the match is live, or set up, and it
\* has two events; there are two cameras.
Prepared(p) ==
  LET status == IF p = "detail" THEN "setup" ELSE "active"
      match  == ChangeMatch(Seed, M, <<status>>).db
      event  == AddEvent(match, M, <<"goal">>).db
  IN IF p \in Scripts THEN Seed
     ELSE IF p = "events" THEN event
     ELSE IF p = "cameras" THEN AddCamera(match, <<"onvif">>).db
     ELSE match

Call(click) ==
  [hook |-> click.hook, req |-> click.req, then |-> click.then,
   at |-> "sent", got |-> Undefined]

\* Settings asks for what is stored as it mounts.
SettingsLoad == Call(Click("load", Agent!GetJoystickSettings, {}))

ConsoleInit ==
  /\ page \in Pages /\ calm \in BOOLEAN
  /\ db = Prepared(page) /\ agent = Agent!AgentSeed
  /\ now = 0 /\ lost = 0 /\ issued = 0
  /\ fetch = [q \in Slots |-> "sent"]
  /\ reply = [q \in Slots |-> Undefined]
  /\ data = [q \in Slots |-> Undefined]
  /\ calls = IF page = "settings" THEN <<SettingsLoad>> ELSE <<>>
  /\ form = [armed |-> FALSE, timers |-> 0, mutating |-> FALSE,
             left |-> FALSE, loading |-> page = "settings",
             config |-> <<"default", "default">>]

ConsoleTypeOK ==
  /\ page \in Pages /\ calm \in BOOLEAN
  /\ MockApiTypeOK(db) /\ Agent!AgentTypeOK(agent)
  /\ now \in 0..MaxNow /\ lost \in 0..MaxLost /\ issued \in 0..MaxScript
  /\ DOMAIN fetch = Slots /\ DOMAIN reply = Slots /\ DOMAIN data = Slots
  /\ \A q \in Slots : fetch[q] \in {"idle", "sent", "answered"}
  /\ \A i \in 1..Len(calls) :
       calls[i].at \in {"sent", "answered", "orphan", "over"}
  /\ form.timers \in 0..MaxCalls

unserved == <<page, calm, now, lost, issued>>

-----------------------------------------------------------------------------
(* Queries.                                                                 *)

\* The interval of a polled query, or the window's focus.
Poll(q) ==
  /\ q \in Slots /\ fetch[q] = "idle"
  /\ fetch' = [fetch EXCEPT ![q] = "sent"]
  /\ UNCHANGED <<unserved, db, agent, reply, data, calls, form>>

ServeFetch(q) ==
  /\ q \in Slots /\ fetch[q] = "sent"
  /\ Served(Query[q])
  /\ reply' = [reply EXCEPT ![q] = Fetched("GET", Asked(Query[q]))]
  /\ fetch' = [fetch EXCEPT ![q] = "answered"]
  /\ UNCHANGED <<unserved, data, calls, form>>

\* An overlay page's mutation is over when the refetch it awaits is.
TakeFetch(q) ==
  /\ q \in Slots /\ fetch[q] = "answered"
  /\ fetch' = [fetch EXCEPT ![q] = "idle"]
  /\ reply' = [reply EXCEPT ![q] = Undefined]
  /\ data' = [data EXCEPT ![q] = IF reply[q].ok THEN reply[q] ELSE @]
  /\ form' = [form EXCEPT !.mutating =
                @ /\ \E i \in 1..Len(calls) : UnderWay(i)]
  /\ UNCHANGED <<unserved, db, agent, calls>>

\* The query is sent again.
LoseFetch(q) ==
  /\ q \in Slots /\ fetch[q] = "answered"
  /\ ~calm /\ lost < MaxLost
  /\ lost' = lost + 1
  /\ fetch' = [fetch EXCEPT ![q] = "sent"]
  /\ reply' = [reply EXCEPT ![q] = Undefined]
  /\ UNCHANGED <<page, calm, now, issued, db, agent, data, calls, form>>

-----------------------------------------------------------------------------
(* Mutations.                                                               *)

\* A calm operator waits for mutations and for the lists they refetch.
AtEase ==
  calm => /\ \A i \in 1..Len(calls) : ~UnderWay(i)
          /\ "list" \in Slots => fetch["list"] = "idle"

Press ==
  /\ Len(calls) < (IF calm THEN MaxCalls ELSE MaxCalls - 1) /\ AtEase
  /\ \E click \in Clicks : calls' = Append(calls, Call(click))
  /\ form' = [form EXCEPT !.mutating = page = "overlays"]
  /\ UNCHANGED <<unserved, db, agent, fetch, reply, data>>

\* The first click on the stop button, and its timer of three seconds.
Arm ==
  /\ page = "capture-recording" /\ ShowsRecording /\ AtEase
  /\ ~form.armed /\ ~Pending("stopRec") /\ form.timers < MaxCalls
  /\ form' = [form EXCEPT !.armed = TRUE, !.timers = @ + 1]
  /\ UNCHANGED <<unserved, db, agent, fetch, reply, data, calls>>

TimerFires ==
  /\ form.timers > 0
  /\ form' = [form EXCEPT !.armed = FALSE, !.timers = @ - 1]
  /\ UNCHANGED <<unserved, db, agent, fetch, reply, data, calls>>

\* updateJoystickField.
EditedField(field) == [form EXCEPT !.config[field] = "edited"]

\* The fields, which are there once the settings are loaded.
Edit ==
  /\ page = "settings" /\ ~form.loading /\ AtEase
  /\ \E field \in DOMAIN form.config : form' = EditedField(field)
  /\ UNCHANGED <<unserved, db, agent, fetch, reply, data, calls>>

\* The server handles it, though its sender may have given it up.
ServeCall(i) ==
  /\ calls[i].at \in {"sent", "orphan"}
  /\ Served(calls[i].req)
  /\ calls' = [calls EXCEPT
       ![i].at = IF @ = "sent" THEN "answered" ELSE "over",
       ![i].got = IF calls[i].at = "sent"
                  THEN Fetched(calls[i].req.method, Asked(calls[i].req))
                  ELSE Undefined]
  /\ UNCHANGED <<unserved, fetch, reply, data, form>>

\* What the callbacks of call i, or the code after its await, do to the form.
Settled(i, got) ==
  LET hook == calls[i].hook IN
  [form EXCEPT
     !.armed    = @ /\ hook # "stopRec",
     !.mutating = @ /\ got.ok,
     !.left     = @ \/ (hook = "createMatch" /\ got.ok),
     !.loading  = @ /\ hook # "load",
     !.config   = IF hook \in {"load", "save"} /\ got.ok THEN got.body ELSE @]

\* refetch: there is data, and a new fetch replaces the one that is out; or
\* there is none, and the one that is out will do.
Refetched(then) ==
  [q \in Slots |->
     IF q \in then /\ (fetch[q] = "idle" \/ data[q].ok) THEN "sent" ELSE fetch[q]]

TakeCall(i) ==
  LET c == calls[i] IN
  /\ c.at = "answered"
  /\ calls' = [calls EXCEPT ![i].at = "over", ![i].got = Undefined]
  /\ IF IsLatest(i)
     THEN /\ form' = Settled(i, c.got)
          /\ fetch' = IF c.got.ok THEN Refetched(c.then) ELSE fetch
     ELSE UNCHANGED <<form, fetch>>
  /\ UNCHANGED <<unserved, db, agent, reply, data>>

\* The connection breaks, before or after the server has handled it.
LoseCall(i) ==
  /\ UnderWay(i)
  /\ ~calm /\ lost < MaxLost
  /\ lost' = lost + 1
  /\ calls' = [calls EXCEPT ![i].at = IF @ = "sent" THEN "orphan" ELSE "over",
                            ![i].got = Undefined]
  /\ form' = IF IsLatest(i) THEN Settled(i, Undefined) ELSE form
  /\ UNCHANGED <<page, calm, now, issued, db, agent, fetch, reply, data>>

\* Bound: detail, with the same clock and buttons, has no time.
Tick ==
  /\ now < MaxNow
  /\ page \in {"capture-clock", "dashboard", "clocks"}
  /\ now' = now + 1
  /\ UNCHANGED <<page, calm, lost, issued, db, agent, fetch, reply, data, calls,
                 form>>

-----------------------------------------------------------------------------
(* Scripts: a program built on the generated client sends one request after *)
(* another.  Every operation of the client is in one area or another; those *)
(* for which the development server has no route are refused with 404.      *)

Asking == {M, MatchIds[2]}
Recent == {EventIds[1], EventIds[2]}

\* PUT /matches/:matchId/score: the route there is; the client POSTs.
PutMatchScore(m, body) == Put(OfMatch(m, <<"score">>), body)

ClockRequests ==
  UNION {{GetMatchClock(m), StartMatchClock(m), PauseMatchClock(m),
          ResumeMatchClock(m), CorrectMatchClock(m, <<"3">>),
          CorrectMatchClock(m, <<"soon">>), StartHalfTime(m), EndHalfTime(m),
          EnterExtraTime(m), StartExtraTime(m), StartExtraTimeHalfTime(m),
          EndExtraTimeHalfTime(m), GetClockSnapshot(m), GetLiveReadiness(m),
          GetMatchBroadcastPresentation(m)} : m \in {M}}

EventRequests ==
  (UNION {{GetMatchEvents(m), CreateMatchEvent(m, <<"goal">>),
           UndoLastEvent(m)} : m \in Asking})
  \cup {DeleteMatchEvent(M, e) : e \in Recent}
  \cup {UpdateMatchEvent(M, e, <<"flagged">>) : e \in Recent}
  \cup {GetMatchScore(M), UpdateMatchScore(M, <<"home", "goal">>),
        PutMatchScore(M, <<"home", "goal">>),
        PutMatchScore(M, <<"away", "two-point">>)}

RecordingRequests ==
  {StartRecording(<<m>>) : m \in Asking}
  \cup {StopRecording, GetRecordingStatus}
  \cup {StartStreaming(<<d>>) : d \in {DestinationIds[1], DestinationIds[2]}}
  \cup {StopStreaming, GetStreamingStatus, GetStreamingDestinations,
        CreateStreamingDestination(<<"srt-custom">>),
        DeleteStreamingDestination(DestinationIds[1])}

CameraRequests ==
  (UNION {{GetCamera(c), UpdateCamera(c, <<"onvif">>), DeleteCamera(c),
           ConnectCamera(c), DisconnectCamera(c), TestCamera(c),
           SendPtzCommand(c, <<"stop">>), GetCameraPresets(c),
           SaveCameraPreset(c, <<"wide">>)} :
            c \in {CameraIds[1], CameraIds[2]}})
  \cup {GetCameras, CreateCamera(<<"axis">>), GetActiveCameraPreview,
        DiscoverCameras(<<"subnet">>)}

OtherRequests ==
  (UNION {{GetMatch(m), UpdateMatch(m, <<"ready">>), DeleteMatch(m),
           MarkMatchReady(m), StartMatch(m), StopMatch(m), AbandonMatch(m),
           ExportMatch(m, <<"json", "csv">>)} : m \in Asking})
  \cup {GetMatches, CreateMatch(<<"hurling">>), HealthCheck, GetSystemStatus,
        GetStorageStatus, GetStreamDeckStatus, GetJoystickStatus,
        GetStreamDeckProfiles, CreateStreamDeckProfile(<<"GF">>),
        GetStreamDeckProfile("GF"), UpdateStreamDeckProfile("GF", <<"GF">>),
        ActivateStreamDeckProfile("GF"), GetJoystickSettings,
        UpdateJoystickSettings(<<"stored", "edited">>), GetOverlayTemplates,
        GetOverlayState, ShowOverlays, HideOverlays, SetOverlayMode(<<"clean">>),
        Get(<<"devices">>), Get(<<"stream-deck", "profiles">>),
        Send(<<"stream-deck", "profiles">>, <<"GF">>)}

ScriptRequests ==
  CASE page = "clocks"      -> ClockRequests
    [] page = "events-api"  -> EventRequests
    [] page = "recordings"  -> RecordingRequests
    [] page = "cameras-api" -> CameraRequests
    [] page = "other"       -> OtherRequests
    [] OTHER                -> {}

Issue(r) ==
  /\ r \in ScriptRequests /\ issued < MaxScript
  /\ issued' = issued + 1
  /\ Served(r)
  /\ UNCHANGED <<page, calm, now, lost, fetch, reply, data, calls, form>>

-----------------------------------------------------------------------------

Next ==
  \/ \E q \in {"live", "list"} :
       Poll(q) \/ ServeFetch(q) \/ TakeFetch(q) \/ LoseFetch(q)
  \/ \E i \in 1..Len(calls) : ServeCall(i) \/ TakeCall(i) \/ LoseCall(i)
  \/ Press \/ Arm \/ TimerFires \/ Edit \/ Tick
  \/ \E r \in ScriptRequests : Issue(r)

-----------------------------------------------------------------------------
(* Properties.                                                              *)

\* At most one match is recorded at a time, and it is the one that a stop
\* will stop: whatever starts, stops and conflicts came before (recording.ts).
OneRecording == \A m \in DOMAIN db.recordings : db.recordings[m] => m = db.active

\* The events of a match stay in the order in which they were made and no
\* identifier is given twice, whatever was deleted, flagged or undone in
\* between: what undo pops is the newest one there is (events.ts).
EventsInOrder ==
  \A m, n \in DOMAIN db.events :
    \A i \in 1..Len(db.events[m]), j \in 1..Len(db.events[n]) :
      /\ m = n /\ i < j => db.events[m][i].n < db.events[n][j].n
      /\ m # n => db.events[m][i].n # db.events[n][j].n

\* No sequence of starts, pauses, resumes and readings, a start of a running
\* clock included, turns back the seconds that the clock has shown; only a
\* correction does (matches.ts).
ClockNeverBack ==
  [][\/ \A m \in DOMAIN db.clocks : db'.clocks[m].secs >= db.clocks[m].secs
     \/ \E n \in DOMAIN Numerals : Issue(CorrectMatchClock(M, <<n>>))]_vars

\* The stop button disarms by itself: an armed one has a timer running, so
\* that a second click long after the first does not stop a recording
\* (LiveCapture.tsx).
ArmedExpires == form.armed => form.timers > 0

\* A creation that a page is told of, after whatever failures and retries
\* under its one key, is of what that request asked for; and there is one
\* match (MatchSetup.tsx, W1ProspectiveCreationRepository.cs).
CreationFaithful ==
  /\ Len(agent.matches) <= 1
  /\ page = "setup" =>
       \A i \in 1..Len(calls) :
         calls[i].at = "answered" /\ calls[i].got.ok
           => calls[i].got.body = calls[i].req.body[1]

\* What is stored is what the operator entered or what was stored before: no
\* save of the settings page stores one of its built-in defaults (AgentSettings:
\* "Persisted user configuration").  A load that fails breaks it: its finally
\* shows the defaults, with a save button (Settings.tsx).
NoDefaultsStored == \A i \in 1..2 : agent.joystick[i] # "default"

\* As long as no request is lost that is so: there is nothing to save until
\* the load is answered (Settings.tsx).
NoDefaultsSaved == lost = 0 => NoDefaultsStored

\* What the server would answer to the page's query q now.
UpToDate(q) == data[q].ok /\ data[q].body = Asked(Query[q]).body

\* The page shows what the server has: in a polled query, and in a list that
\* is loaded once when the operator waits for each click's answer.
PageShowsServer == \A q \in Slots : (q = "live" \/ calm) => UpToDate(q)

=============================================================================
