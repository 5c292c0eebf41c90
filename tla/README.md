# A TLA+ model of the AMHARC match-capture agent

AMHARC Match Capture records, streams, times and tags Gaelic games at the ground.
The program that does it is the Windows agent under `src/agent-windows` (C#).  Around
it are TypeScript applications: an operator console, a broadcast renderer, a development
server that stands in for the agent, a mockup sandbox, and generated API clients.  This
directory holds TLA+ modules that model the concurrent, crash-prone and stateful parts of
both, TLC configurations that check them, and proofs that TLAPS checks.

## 1. The system

### 1.1 Components

| Component | State it keeps | Operations | Talks to |
|---|---|---|---|
| Canonical stream receiver (`Media/FfmpegStreamReceiver.cs`) | lifecycle state, current FFmpeg process, its pump/exit tasks, bootstrap buffer, registered consumers and their channels | `StartAsync`, `StopAsync`, `RecoverAsync`, `AcquireAsync`, lease disposal; background: media pump, exit observer | camera adapter; recording, preview and streaming hold leases |
| Recording (`Recording/FfmpegRecordingService.cs`, `SegmentManager.cs`) | recording state, FFmpeg process, lease, pump, current session; the persisted session row; segment files | `StartRecordingAsync`, `StopRecordingAsync`, `RemuxToMp4Async`, `RecoverAsync`; callback: `HandleFfmpegExitedAsync` | receiver, session store, file system, startup code in `Program.cs` |
| Streaming (`Streaming/RtmpStreamingService.cs`) | streaming state, lifecycle gate, session token, process, lease, pump, reconnect counter | `StartAsync`, `StopAsync`; background: exit observer, retry task | receiver, audio resolver |
| Preview (`Preview/FfmpegMjpegPreviewService.cs`) | one session gate | `StreamMjpegAsync` | receiver |
| Match clock (`Clock/MatchClockService.cs`, `MatchClockStateStore.cs`) | match and recording stopwatches, offset, period, bound subject; checkpoint row | start/pause/resume/reset/correct/period operations, save and recover | dispatcher, `Program.cs` |
| Command dispatcher (`Commands/AmharcCommandDispatcher.cs`) and match controllers | match rows (status, period, score) | clock, score, event, recording commands | clock, repositories, recording, publication |
| W1 governed clock (`W1SubjectBoundRuntime.cs`, `W1SqliteClockJournal.cs`, `W1SqliteMatchSetupLedger.cs`) | bound subject, grants, revision; journal of immutable records | adopt grant, tick, transition, material operations, restore | SQLite |
| Publication (`AmharcAgent.Api/Publication/*HostedService.cs`) | request channel, pending set | request, coalesce, resolve the active match, compose, publish | repositories, clock, overlay, SignalR hub |
| Event tagging and scoring (`Events`, `Scoring`) | events and score in the match row | create, update, delete, undo | repositories, publication |
| Field network remediation (`Network/*`) | none (plan, dry run, execute) | observe, plan, verify, mutate, re-observe | Windows |
| Readiness (`Readiness/LiveReadinessService.cs`), health, storage | snapshots | evaluate | everything above, read only |
| Stream Deck and joystick (`StreamDeck/*`, `Joystick/*`) | device, profile, ownership state; latest axes | connect loop, dispatch, PTZ loop | dispatcher, PTZ |
| Camera and audio adapters (`Camera/*`, `Audio/*`) | connection state, probe results | VAPIX calls, RTSP probe | devices |
| Overlay, export, settings, credential store, discovery | files | request/response | - |
| Broadcast renderer (`src/artifacts/broadcast-renderer`) | the presentation shown, its status, a queue during recovery, the SignalR connection | load, join, receive, recover, reconnect, unmount; render | agent's HTTP and SignalR |
| Operator console (`src/artifacts/operator-ui`) | per page: cached queries, mutations under way, form state; the Stream Deck page's profiles, selection and draft; toasts | polls, clicks, callbacks, timers | agent or development server, through the generated client |
| Development server (`src/artifacts/api-server`) | matches, clocks, scores, events, cameras, profiles, recording and stream, in memory | every route of the API | the console |
| Generated client (`src/lib/api-client-react`, schemas in `src/lib/api-zod`) | none | one function per operation; `customFetch` decodes answers | every page |
| Mockup sandbox (`src/artifacts/mockup-sandbox`) | the generated list of mockups, the watcher's and scanner's flags; the page's loaded component | scan, watch, regenerate; import and render one | Vite, file system |
| Domain model mocks (`src/packages/domain-model`) | mock clock with its interval timer and audit log, mock camera, presets | commands in any order | - |

Code paths below are relative to `src/agent-windows/src/AmharcAgent.Infrastructure/`
unless they start with `src/`.

### 1.2 Interactions

- **Leases.** Recording, preview and streaming call `AcquireAsync` on the receiver and
  read a stream; the receiver starts FFmpeg for the first of them.  Disposing a lease
  detaches that consumer.  The recording's lease is loss-intolerant: the pump waits for it.
- **Commands.** HTTP controllers and the Stream Deck bridge call
  `AmharcCommandDispatcher.DispatchAsync`, which changes the match clock (in memory), the
  `Matches` row and the clock's checkpoint row, one after the other, under the clock's
  command gate; recording commands go on to the recording service.
- **Callbacks.** FFmpeg's exit runs an observer (receiver, streaming) or a handler
  (recording) beside whatever call is under way.  A clock change raises `StateChanged`,
  which queues publications.
- **Snapshots and messages.** The renderer loads the presentation over REST and follows
  it over SignalR; what is published between the REST answer and the join into the match's
  group is fetched by a second load, during which messages are held back.
- **Queries and mutations.** A console page polls some queries and refetches others from
  the callbacks of its mutations; several requests of one page are under way at once, and
  the server serves them in any order.
- **Persistence.** SQLite rows of matches, clock checkpoints, recording sessions and the
  W1 journal; MKV segments on disk.  `Program.cs` recovers clock and recording at start-up
  from what they say.

### 1.3 What is hard, and what makes each part correct

| Part | Hard | Correct when |
|---|---|---|
| Receiver | one gate across connecting, delays and teardown; exits, cancellations and detaches at any time; the source's lifetime hangs on a caller's token | one process reads the camera; a stop leaves no process and no lease; every call returns |
| Media distribution | join, leave and teardown during a dispatch that waits for the slowest reader | a recording has no gap inside a launch and nothing twice; a detach does not end the pump; a dispatch ends |
| Recording | start, stop and exit handler share every field with no lock; saves fail; the agent crashes with FFmpeg running | one FFmpeg records; what is over holds nothing; the row says what is so; no segment is lost |
| Match lifecycle | entities read before the gate; two saves per command; crash between them; a failing save | one live match; clock, row and checkpoint agree; a match that is over stays over |
| Event tagging | read-modify-write of the match row outside the gate; undo from a snapshot | the score is that of the timeline; an undo reverts one event; a tag changes no status |
| Streaming | reconnection under the gate over delays and acquisitions, exit observers and retry tasks of earlier sessions, stop in between | one FFmpeg streams; a stop is final; whoever holds the gate gives it back; a stream that is said to run is watched |
| W1 clock | restore, retried operations, two incarnations over one journal | an append-only ledger with one head, each operation once |
| Publication and renderer | coalescing queues; failures that are only logged; snapshot against messages; a connection that is lost in the middle of a start, a join or a load | no saved change is lost without a trace; a page that says live is current (not so when the connection is lost during a load: finding 1); faults leave the output up; an unmounted page is disconnected |
| Console pages | polls, mutations and their callbacks overlap; lost answers are sent again; the armed stop button | a page comes to show its server's state; a form saves what was asked for (not so the settings, after a failed load: finding 6); an armed button disarms |
| Stream Deck page | a profile is written as a whole from the page's copy, while loads, polls, activations and the agent's two-step handlers overlap | no edit is lost and the device shows the stored profile (of an operator who waits for each request; of one who does not, neither: finding 7); a draft belongs to the selected key, whatever overlaps |
| Readiness panel | the evaluation reads its parts at two moments; the panel keeps its last answer | "enter capture" is offered for a ready evaluation only; the panel settles |
| Development server | clock re-basing, repeated and misplaced commands, several matches | one recording; a clock never goes back; events stay in order |
| Client, toasts, sandbox, mocks | malformed bodies; timers per dismissed toast; a rescan asked for during a scan; one overwritten timer handle | errors stay errors; closed toasts go; the list is current; one timer or none |
| Field network | the machine changes between observation and mutation; partial mutation | success is only reported for a verified state |

`PROJECT.json` lists every hazard at its line, with the properties that cover it.

## 2. The modules

| Module | Models | EXTENDS / INSTANCE |
|---|---|---|
| `StreamReceiver` | lifecycle of the canonical receiver | |
| `MediaFeed` | abstract: what a consumer of the receiver may receive | |
| `MediaDispatch` | bootstrap buffer, pump, channels and leases inside the receiver | INSTANCE `MediaFeed` |
| `Streaming` | the RTMP streaming service, a consumer of the receiver | |
| `Recording` | recording service, session rows, segments, start-up recovery | |
| `MatchControl` | command dispatcher, match clock, match rows, checkpoint, start-up recovery | |
| `ScoreEvents` | tags, undos and deletions of events beside the commands, on one match row | EXTENDS `MatchControl` |
| `Publication` | coalescing publication of the presentation: what the agent promises a page | |
| `BroadcastRenderer` | the renderer's page, composed with the publisher | EXTENDS `Publication` |
| `Endpoints` | the generated client's operations as requests | |
| `MockApi` | the development server's routes as operators | EXTENDS `Endpoints` |
| `AgentApi` | the agent's handlers behind the pages the development server does not serve | EXTENDS `Endpoints` |
| `ClientFetch` | `customFetch`: what a caller is given for a response | |
| `Console` | the console's pages over either server | EXTENDS `MockApi`, `ClientFetch`; INSTANCE `AgentApi` |
| `DeckPage` | the Stream Deck page, its editor, and the agent's profile handlers | EXTENDS `Console` |
| `ReadinessPanel` | the readiness panel and the agent's evaluation | EXTENDS `Console` |
| `Toasts` | the notifications' reducer and timers | |
| `MockupPreview` | the sandbox's plugin and page | |
| `DomainMocks` | the domain model's mocks with state | |
| `FrontEnds` | one browser application per behaviour, its fairness and properties | EXTENDS the five above |
| `MC*` | small instances, scopes, state constraints, symmetry | the module they name; `MCMediaDispatch` EXTENDS `MediaDispatch` and `Streaming`, `MCMatchControl` EXTENDS `ScoreEvents` |
| `*_proofs` | theorems | the module they name, `TLAPS`; `MediaDispatch_proofs` EXTENDS `MCMediaDispatch` and `Streaming_proofs` |

The agent's modules are separate because the code couples them loosely: `StreamReceiver`
abstracts a chunk of media to "the launch delivered" and "a bootstrap exists",
`MediaDispatch` abstracts the lifecycle to launches, exits and teardowns, and `Recording`
and `Streaming` abstract the receiver to a lease that is granted, refused, or ends.

### 2.1 StreamReceiver (`Media/FfmpegStreamReceiver.cs`)

A launch of FFmpeg is a number.  `process`, `lifetime` and `tasks` are the fields
`_process`, `_lifetimeCts` and `_mediaTask`/`_exitTask`, each a launch or 0; `alive`,
`cancelled` and `pumping` are launches whose process runs, whose token is cancelled, whose
pump has not returned.  Callers go through `pc`: `Acquire`/`RequestStop`/`RequestRecovery`
queue for `_lifecycleGate`, `EnterStart`/`EnterStop`/`EnterRecover` are the code under the
gate up to the first await, `Launch` and `Establish` are `StartCoreAsync`, `StartFails` its
catch, and `Kill`, `Join`, `ResetBootstrap`, `EndTeardown` the four stages of
`StopProcessCoreAsync`.  `RegisterPrimed`, `RegisterLive`, `BecomeLive`, `JoinTimeout`,
`Abort` and `Detach` are the rest of `AcquireAsync` and the lease; `Chunk`, `PumpEnds`,
`ProcessExits`, `ObserveExit`, `Interrupt`, `CompleteInterrupted` the background tasks.
Nobody in the agent calls `RecoverAsync`; it is modelled with a set of `Supervisors`.

### 2.2 MediaDispatch and MediaFeed (the same file, lines 97-215, 464-600, 903-1489)

A packet is its number in the log and its kind.  `Chunk` is the locked part of a read of
FFmpeg's output; `DispatchWaiting`, `DispatchDropping` and `Align` serve one consumer of
the dispatch snapshot; `Join` primes and registers under the same lock; `Leave`/`Complete`
followed by `Close` are `TryRemove` followed by `TryComplete`.  `ProcessExits`,
`EndOfStream`, `Teardown` and `Launch` are what the lifecycle does to the pump: a teardown
may drop the rest of a chunk, and only while a loss-intolerant write is ahead, the one
await in the loop.  A buffer keeps what it recognised each packet as: a PMT counts only
after a PAT, a key frame only after a PMT.  Byte alignment is abstracted: the packet torn
by the end of a launch is one more packet of any kind.  The snapshot of an own bootstrap
needs three aligned packets; a PAT, a PMT and a key frame are three.

`MediaFeed` knows a log, launches and what each consumer has read.  A consumer reads
forward and nothing twice; a loss-intolerant one starts at a PAT, has a PMT before a key
frame, and jumps only to the first packet of a launch.  `MediaDispatch` implements it with
`received <- taken`.

### 2.3 Recording (`Recording/FfmpegRecordingService.cs`)

An attempt is one start or one recovery; its number names its lease, process, pump and
session.  A step ends at an await; `SaveAsync` is one step because Microsoft.Data.Sqlite
runs synchronously.  `EnterStart`..`StartedSave` and `AttemptFails`/`AttemptError` are
`StartRecordingAsync`, shared with `RecoverAsync` after `EnterRecover`/`RecoverSave`;
`EnterStop`..`CompleteSave` and `StopAbort` are `StopRecordingAsync`; `SeeExit`,
`ReleaseAfterExit`, `ReportExit`, `ErrorSave` are `HandleFfmpegExitedAsync`.  `mem` is the
session object's state, `row` the saved one, `older` their order by `UpdatedAt`, by which
recovery picks.
`OpenSegment` is FFmpeg's muxer.  `Crash` keeps FFmpeg processes that outlive the agent
and may write on; `Faults` chooses what may fail.

### 2.4 MatchControl (`Commands/AmharcCommandDispatcher.cs`, `Clock/MatchClockService.cs`, controllers)

`AskClock`, `AskMatch` and `Press` are the three ways a command comes; the last two read
a row before the gate, and the request's DbContext keeps that copy (`early`, `copy`).
`Decide` is the command up to its first save (the clock changes in memory), `SaveRow`
`UpdateAsync` of the whole tracked row, `SaveClock` `SaveRuntimeStateAsync`; `Refuse` and
`SaveThrows` the error paths; `Correct` saves the clock only; `ReadForReady` and
`MarkReady` are the one endpoint that writes the row without the gate.  `Crash` clears
clock, gate and requests; `Boot` recovers the live match.  The clock's seconds are left
out: it runs or not, in a period.

`ScoreEvents` adds tagging to it (`Events/EventTaggingService.cs`).  A request `t` is in
`tag[t]`; `tracked[t]` are the columns of the row its DbContext holds beside the score.
`ReadMatch`, `Apply` and `CreateEvent` are `CreateEventAsync` split at its awaits;
`FindLast` and `FindMatch`, or `ResolveMatch` and `FindResolved` for a key of the Stream
Deck, then `Restore` and `DeleteLast` are `UndoLastEventAsync`; `DeleteEvent` the deletion.
`UpdateMatch` writes the whole row, and the commands of `MatchControl` save the score too:
`entity[o]` is the score in the copy request `o` holds.  The six score columns are one
number, the scores of one kind by one team.  `disturbed` and `deleted` are history: the
matches on which two requests overlapped or a request was cut between its two saves, and
those a scoring event of which was deleted.

### 2.5 Streaming (`Streaming/RtmpStreamingService.cs`)

A launch of FFmpeg is its session with the reconnect count it had; its process, lease, pump
and exit observer go by that name, as the code sets and clears their fields together.
`holder` and `step` say which call holds `_lifecycleGate` and where it awaits: `acquire`
and `build` are `StartFfmpegAsync` up to its lease and to FFmpeg's start, `delay` the five
seconds before a reconnection, `kill`, `detach` and `join` the stages of `CleanupRuntimeAsync`.
`Ask`, `GiveUpWaiting`, `HangUp` and `Answer` are the controller's side of `StartAsync` and
`StopAsync`, whose token is linked into the session's.  `BeginStart`/`RefuseStart` and
`BeginStop`/`StopNothing` are the calls once they hold the gate; `StartThrows`,
`ReconnectFails`, `RetryFails` and `ReconnectCancelled` the catch blocks of the three callers
of `StartFfmpegAsync`; `ObserveExit`, `IgnoreExit`, `HandleExit` the observer of FFmpeg's exit,
`DropRetry` and `BeginRetry` the task of `RetryAfterFailedStartAsync`; `SessionOver` and
`Reconnect` what a clean-up ends in.  `MaxReconnects` is the constant of the source.

### 2.6 Publication and BroadcastRenderer

`Publication` is `BroadcastPresentationPublicationHostedService` and its callers.  A
presentation is two versions, as it is read at two moments: the match row and the clock
with the overlay.  `SaveScore` then `RequestPublication` is a tagging request, `ChangeLive`
then `OnLiveStateChanged`/`OnStateChanged` a clock or overlay change; `QueueKey` is
`TryAdd` to `_pending` and, a step later (`TryWrite`), the write to the channel.
`TakeRequest` and `ForgetKey` are the worker's read and `TryRemove` (in this order: a request made after it
is queued again), `ResolveActiveMatch`, `ReadRow` and `Publish` the composition, and
`PublishFails` the catch that only logs.  `sent` and `missed` are history.

`BroadcastRenderer` adds the page.  `pc[f]` is where the asynchronous function `f` awaits:
the first load, the recovery after the first join, and one recovery per reconnection.
`AnswerRow`/`AnswerLoad` compose the REST answer on the agent; `BootstrapLoaded`,
`RecoveryLoaded` and `LoadFails` are the page's continuations, `Receive` the message handler
that queues while `recovering`, `EndRecovery` the `finally`.  `Connected`, `JoinMatch`,
`ReplyJoin`, `Deliver`, `Drop`, `Reconnected`, `GiveUp`, `Unmount` and `Stopped` are the
connection, whose messages are in order while it lasts and lost with it.  `Diagnostic`,
`ResolveTemplate` and `RenderStandardScoreboard` are what the page draws.

### 2.7 Endpoints, MockApi, AgentApi, ClientFetch

`Endpoints` has one operator per operation of the generated client: its URL function, fetch
function and hook as a record of method, path and body.  In `MockApi` a handler is an
operator from the server's state, the time and the parts of a request to an answer with
the state after it (Express runs a handler in one turn); the body predicates are the
schemas of `lib/api-zod`; `Respond` is the router, first match first.  `AgentApi` has the
same form for overlays, the creation of a match under an `Idempotency-Key`, and joystick
settings.  `ClientFetch` classifies response texts by what `customFetch` tells apart.

### 2.8 Console, DeckPage, ReadinessPanel, FrontEnds

`Console` models TanStack Query by what the pages rely on: one fetch at a time per query
(`Poll`, `ServeFetch`, `TakeFetch`, `LoseFetch`), `refetch()` abandoning a fetch once there
is data (`Refetched`), mutations (`Press`, `ServeCall`, `TakeCall`, `LoseCall`) whose
callbacks run only for the latest one of a hook.  Each page is the set of clicks it offers
on what it shows (`ClockClicks`, `RecordingClicks`, `ScoreClicks`, ...); `Arm` and
`TimerFires` are the two-step stop button, `Edit` a form field.  The script pages
(`Issue`) send any sequence of requests to the development server, as other programs may.
A behaviour is `calm` (the operator waits for what is under way, nothing is lost) or not.

`DeckPage`'s `out` are the page's own requests; `Rendered` runs the effects that follow a
change of the profiles, the selection or the key, in their order.  `ReadProfiles`,
`StoreProfile`, `FinishUpdate`, `FindProfile` and `LoadProfile` are `DevicesController`'s
handlers, split where they await.  `ReadinessPanel`'s `SeeCamera` and `SeeOthers` are the
two reads of `LiveReadinessService`, `Create` the status it derives, `CaptureButton`,
`Badge` and `Sentence` what the panel draws.  `FrontEnds` joins the applications: each
behaviour has one page open, and its properties are conjunctions of what each application
promises, so that one run checks all of them.

### 2.9 Toasts, MockupPreview, DomainMocks

`Toasts` is the reducer of `use-toast.ts` with its map of timers.  `MockupPreview` is the
Vite plugin (`Scanning`, `Rescan`, `EndScan`, `FailScan`, `Report` of the watcher) with the
page's import of one component (`Replace`, `LoadedOne`); a file that comes or goes during a
scan may be seen or not.  `DomainMocks` is the mock clock over one interval timer
(`intervals` counts those that run), the mock camera whose connect waits, and the presets.

## 3. The runs

All runs use at most two workers and end within five minutes.  `CHECK_DEADLOCK` is off in
all of them: callers may stop calling, and bounded launches, crashes or streams run out.

| Run | Instance | Shows |
|---|---|---|
| `broadcast` | a tagging request (two scores), one clock or overlay change, the publisher, a page that reconnects once and may be unmounted, every fault | `RendererTypeOK`, `NoScoreLost`, `NoLiveLost`, `LiveMeansCurrent` (liveness), `MessagesWaitForSnapshot`, `OutputSurvivesFaults`, `UnmountDisconnects` |
| `broadcast_gate` | the same without faults, a connection lost at any time | **violation** of `MessagesWaitForSnapshot` |
| `match` | two matches over start, pause, resume and abandon with failing saves, or one match over all twelve commands, or one match over start, pause and abandon with a tagger (three tags) and failing saves; two requests, a crash | `AtMostOneLive`, `CopiesAgree`, `ScoreTypeOK` (which has `TypeOK`), `ScoreIsItsEvents` |
| `match_terminal` | one match, two requests, one tag, no fault | **violation** of `TerminalIsForever` |
| `match_halftime` | one request, one crash | **violation** of `HalfTimePausesClock` |
| `media_feed` | scope "feed": a recording and a publisher, channels of one interval, bootstrap of 4 packets, 2 launches, two streams of 5 packets; scope "streaming": two clients, 2 sessions, 3 reconnections | `TypesOK`, `PumpNeverFaults`, `FeedOrderAndContinuity` (refinement), `OneStreamer`, `StopIsFinal`, `ActiveIsWatched`, `WaitsEnd` (liveness) |
| `receiver_safety` | a recording and a streaming consumer, 2 launches, no `RecoverAsync`, `FairSpec` | `AtMostOneSource`, `StopLeavesNoSource`, `CallsReturn` (liveness) |
| `receiver_recovery` | a caller of `RecoverAsync`, 2 attempts, 2 launches | `NoLeaseAfterStop` |
| `receiver_detach` | 1 launch, streaming started it | **violation** of `DetachIsPrivate` |
| `recording` | one operator, 3 attempts, 2 segments; one crash and dependable saves, or every fault and no crash | `TypeOK`, `OneRecorder`, `NothingHeldWhenOver`, `PersistedStateAgrees`, `CompleteMeansStopped`, `RecoveryKeepsSegments` |
| `recording_restart` | no fault, 2 starts | **violation** of `SegmentsAreKept` |
| `front_ends` | 19 pages and applications and five scripts, one per behaviour, calm or not | `UiTypeOK`, `ServerKeeps`, `FormsFaithful`, `TimersRun`, `DraftFollowsSelection`, `DeckKeeps`, `OfferMeansReady`, `MockupsCurrent`, `DecodingFaithful`, `MocksAgree`, `ClockNeverBack`, `PagesSettle` (liveness) |

Parts that do not interact share a run: a behaviour then has a *scope* (or an open page)
chosen in its first state, and only that part moves.

Four more configurations are kept beside the runs.  Each drops a restriction under which a
property of a run holds, and TLC then finds the part without it violated (findings 1, 6
and 7); `PROJECT.json` names them at the hazards they show, not as runs.

| Configuration | Instance | Shows |
|---|---|---|
| `broadcast_stale`, `MCBroadcastRenderer` | one score, no fault, a connection lost at any time, `FairSpec` | **violation** of `LiveMeansCurrent` |
| `settings_lost`, `MCFrontEnds` | the settings page, one request lost | **violation** of `NoDefaultsStored` |
| `deck_edits`, `MCFrontEnds` | the Stream Deck page, nothing lost, three acts of an operator who does not wait | **violation** of `EditsStored` |
| `deck_device`, `MCFrontEnds` | the same | **violation** of `DeviceSynchronised` |

### 3.1 Bounds

- `receiver_*`: two launches are enough for a teardown or an exit to meet a newer source;
  two recovery attempts for the leftovers of the last one.
- `recording`: three attempts allow a start, its recovery and another start.
- `match`: two requests give every overlap of one stale reader and one writer; two matches
  are what "at most one live" is about, and are left to four commands of a first half
  because the commands of a period differ in the row they write, not in their steps.
  The third scope has one match, as the score is a matter of one: three tags let undos meet
  scoring and other events in any order, and its three commands save the row from copies read
  before the gate (start, abandon) and under it (pause).  `OneCommand` leaves the overlap of
  two commands to the other scopes.  `InOrder`: a behaviour ends with its first disturbance
  or deleted score, after which the property says nothing about that match; the theorem has
  none of these bounds.  So this scope does not ask whether one match is live: tags break
  that (finding 4).
- `media_feed`: with channels of one interval every chunk after the first meets a full
  channel, and the streams are long enough to put a key frame out of the bootstrap.  Two
  sessions let leftovers of the first meet the second; `MaxReconnects` is the source's 3.
- `broadcast`: two scores, so that the second can be saved while the first is published;
  one reconnection, so that a recovery can meet messages and a failure.  `DropsWait`: a
  connection is only lost while no load is outstanding.  Without it two recoveries
  overlap, which is what `broadcast_gate` and `broadcast_stale` show; `LiveMeansCurrent`
  and `MessagesWaitForSnapshot` hold in `broadcast` for that reason only.  The other
  properties need no such restriction: the theorems about them have none.
- `front_ends`: `MaxCalls` = 3 (two more requests can overlap a mutation; 2 when the
  operator does not wait), `MaxScript` = 4 requests (create, start, disturb, read),
  `MaxNow` = 2 seconds, `MaxLost` = 1 lost request or answer, two keys, `MaxActs` = 4 acts
  on the Stream Deck page (1 when the operator does not wait, at any moment of the loads,
  saves and polls; `EditsStay` and `DeviceCurrent`, the parts of `DeckKeeps`, are about an
  operator who waits, and `deck_edits` and `deck_device` about one who does not, with three
  acts: `MaxActs` = 6), `MaxToasts` = 3 of a limit of one, `MaxChanges`
  = 3 files that come or go, `MaxFailures` = 1 failed scan, `MaxTurns` = 2 changes of the
  readiness parts, `MaxCommands` = 4 and `MaxSeconds` = 2 for the mocks.
  The lists of identifiers are as long as the calls of a behaviour can use up
  (`ConsoleAssumption`): the code makes a new one whenever it needs one.

Other named bounds are `MaxLaunches`, `MaxRecoveryAttempts`, `MaxAttempts`, `MaxSegments`,
`MaxCrashes`, `MaxTags`, `MaxChunk`, `MaxPackets`, `MaxSessions`, `MaxRow`, `MaxLive`, `Streams`,
`InUse`, `Faults` and `FaultRegimes`.

Some runs are bounded beyond that. `InScope'` in `MCSpec` (`match`) keeps each scope to
its commands and matches, as above; `match_terminal` and `match_halftime` go without
(`AnyOrder`). `Bounds` (`recording`): in the dependable regime, `HandlersArePrompt`: an
exit handler past its check is done before the next attempt; in the other, no crash and no
segment files, with handlers as late as they like. `EarlierLaunchesDrained`
(`receiver_recovery`): the tasks of an interrupted launch end before the next launch.
Nothing in the code enforces the last two; in the program the handler takes milliseconds
and the next attempt seconds. Without them the hazards at `FfmpegRecordingService.cs:951`
and `FfmpegStreamReceiver.cs:384` show.

### 3.2 Fairness

Safety-only runs assume none.

- `StreamReceiver.FairSpec`: a `SemaphoreSlim` serves its waiters in order (strong fairness
  of entering), awaited work ends by itself or by its timeout, and cancelled or exited
  tasks end.  No caller has to call, no process to exit, no camera to deliver.
- `MediaDispatch.Fairness`: the pump runs while it can, a detach that began ends, and a
  joined *loss-intolerant* reader goes on reading.  The last is an assumption about the
  recording's FFmpeg, not about the agent: without it one reader that stops holds the pump
  and everybody else, which is what the code does.
- `StreamingFairness`: what is awaited under the gate ends, by itself or with an exception,
  and a pump ends once its lease has.  Nobody has to call, and no FFmpeg has to exit.
- `BroadcastRenderer.Fairness`: the agent's tasks run, what was published is sent, a REST
  request is answered, and the connection delivers and is established or given up.  No
  score, drop or fault has to happen.
- `UiFairness`: the browser polls, requests arrive and are answered, timers fire.  Nobody
  has to click, and the window need not get the focus.

## 4. Findings

1. `broadcast_gate`: each recovery clears `recovering` in its `finally`
   (`useBroadcastPresentation.ts:209`), so of two overlapping recoveries the first to end
   opens the gate for the second, whose older snapshot then replaces a newer message.
   With `broadcast_stale.cfg` the snapshots themselves are applied in the wrong order (line
   193).  The trace: the first recovery's snapshot is composed, a point is saved, the
   connection is lost before the answer is handled and comes back, the second recovery
   shows the point, and the first one's answer replaces it.  Nothing happens any more, and
   the page is live on the old score, where "Automatically update overlay on score change"
   is required (`docs/requirements/PRODUCT_REQUIREMENTS.md:152`).  Likewise an answer that
   comes after the connection was given up leaves the page live with no connection.
2. `receiver_detach`: the source's lifetime token is linked to the token of the consumer
   that happened to start it (`FfmpegStreamReceiver.cs:384`).  When streaming or preview
   did and goes away, pump and exit observer end silently; the state stays `Available` and
   the recording receives nothing more.
3. `recording_restart`: a recording started again on the same day numbers its segments
   from 0 in the same directory and replaces the earlier ones
   (`FfmpegRecordingService.cs:138`), while the runbook tells the operator to restart.
4. `match_terminal`: rows are written back whole from copies read before the command gate.
   A scoring tag, or an undo, knows no gate (`EventTaggingService.cs:53`, `:140`): a match
   completed or abandoned since its read is live again, which is the run's trace.  Once
   another match was started two are, and every Stream Deck command and the agent's start-up
   throw: `OneLive` is proved of the commands alone, and tagging is what breaks it.  `/stop`
   and `/abandon` read the row before the gate (`MatchesController.cs:298`): of two that
   overlap the second gives the match another terminal state (the trace with
   `Taggers = {}`).
5. `match_halftime`: a crash between the two saves of a half-time brings the agent back
   with a running clock in a `HalfTime` match.
6. `settings_lost.cfg`: the `finally` of the settings' load shows the form after a failed load
   too (`Settings.tsx:57`), with the page's built-in defaults in it; saving it replaces the
   stored joystick settings by values that nobody entered, though these are "Persisted user
   configuration" (`AgentSettings.cs:4`).  `NoDefaultsSaved`, the second
   half of `FormsFaithful`, is the rest: with nothing lost there is no saving before the
   load is answered.
7. `deck_edits.cfg`: a load of the profiles that was answered before a key was saved, and is
   taken after it, puts the old copy back; the next save of another key writes the profile
   as a whole (`StreamDeck.tsx:301`) and takes the first edit back.  `deck_device.cfg`:
   an activation that read the profile before an update stored it loads the old buttons after
   the update has loaded the new ones (`DevicesController.cs:120`).  In both traces no
   request is lost and every one is reported as done.  An operator who waits for each save,
   load and activation is safe: `DeckKeeps`.

`PROJECT.json` quotes the lines that the findings of the runs contradict.

## 5. The proofs

TLAPS checks them for every value of the constants that the named assumptions admit
(`PublicationAssumption`, `StreamingAssumption` and the like: bounds are naturals, names
are distinct, not every mockup is hidden).  Where an argument needs that a finite run of
numbers has a least member with some property (a buffer that is filled packet by packet, an
audit log that is summed entry by entry), it takes the least counterexample
(`LeastOf`, from `WFMin`): that is the induction which can be had.

- `StreamReceiver_proofs`: `TypeCorrect` (the types are not checked by a run as well);
  `OneSource` and `StopIsClean` for `Supervisors = {}`.  The inductive invariant
  `ReceiverInv` is the types (`TypeOK`), that whoever is inside a start or a teardown holds
  the gate (`GateInv`), and that a running process is the one `process` names, of the
  latest launch, and that in `Idle`, `Error` and `Interrupted` nothing runs and no exit is
  still to be observed (`SourceInv`).
  Neither property is inductive alone: a launch needs to know that nothing runs, which
  only the gate and the state say.  `StopEndsLeases` holds with callers of `RecoverAsync`
  too, in the behaviours that satisfy `EarlierLaunchesDrained`: `LeaseInv` says that whoever
  is inside a start, a recovery or a teardown holds the gate and finds the receiver not
  idle (`InsideInv`), that only the remembered launch feeds and after the reset of a
  teardown there is no bootstrap (`FeedInv`), and that an idle receiver has nothing to
  prime a channel with, no lease in use and nobody about to be handed one (`IdleInv`).
- `Recording_proofs`: `TypeCorrect` for every instance and both regimes;
  `CompleteIsStopped` for one operator (`OneOperator`), until the first crash.  It needs
  none of the bounds of the run: handlers may be as late as they like.  `RecordingInv`
  says that before a crash nobody is in a start-up (`NoRecovery`), that attempts not yet
  made have left nothing (`Fresh`), that from the launch to the end of the stop the process
  field and the current session are one attempt's (`Launching`, `OneAttempt`), and that
  what is marked or saved as complete has exited (`Ended`).  The attempt is what the
  fields do not record; a late handler marks a session as failed, never as complete.
  And in the regime in which saves and kills succeed, with crashes:
  `RowAgrees` (`PersistedStateAgrees`) for any operators: every step that changes the
  service's state marks the current session with it and leads to a save (`Agreement`), and
  the session a recovery works on is the current one (`Roles`).  `OnlyOne`, `NothingHeld`
  and `SegmentsStay` (`OneRecorder`, `NothingHeldWhenOver`, `RecoveryKeepsSegments`) for
  one operator, in the behaviours that satisfy `HandlersArePrompt`: an attempt that begins
  is the latest, nobody else's and not launched (`Numbered`, `Latest`); a watched FFmpeg is
  the latest attempt's and in the field, and the service is recording or somebody is about
  to say so or to stop it (`Attended`); a lease held and a pump copying are the fields',
  and somebody is going to end them (`Held`); and no file has a number that a recovery has
  still to write (`OnlyNew`).  The handler is why the hypothesis is needed: it acts on the
  fields, and only a prompt one finds its own attempt there.
- `MediaDispatch_proofs`: `PumpSurvives`.  `LeaseInv` says that a consumer is registered,
  being closed or closed, never two of them, and registered only once; so a completed
  channel is never that of a registered consumer, which is what the pump takes for a fault.
  `FeedRefined`: the receiver implements `MediaFeed`.  `Pipe` says that what a consumer has
  taken and what waits for it, in this order, goes forward, and for a loss-intolerant one
  without a gap from where a decoder can begin; `ReaderOK` that all of this and the
  consumer's own buffer come before the chunk that it is still to be served, that a
  loss-intolerant one has everything before that chunk and, once served, everything up to
  the end of the log; `BootstrapInv` that the receiver's buffer ends with the log, which is
  why such a consumer joins without a gap; `StoppedInv` that a stopped pump has nothing to
  join at and completes whoever is registered.  The proof shows more than `MediaFeed` asks:
  not even at a launch does a loss-intolerant consumer that goes on reading miss a packet,
  because a teardown that drops the rest of a chunk also completes it.  The invariant holds
  of the buffers whatever the chunk's length: `AppendAllOK` is about any number of packets,
  `SnapshotOK` about the latest PAT, PMT and key frame.  `DispatchTypeCorrect` and
  `BothTypesCorrect` are the types, channels within their capacity among them.
- `Streaming_proofs`: `TypeCorrect`, `StreamsOne`, `StopsAreFinal`, `ActivesAreWatched`.
  `GateInv` says who may await what under the gate, `StateInv` which state goes with which
  holder, `RunInv` that the fields and the clean-up's locals name every process, lease and
  pump, and `TaskInv` that an observer or a retry whose token is not cancelled is of the
  current session.  The last is why a leftover task cannot start FFmpeg after a stop: the
  token is cancelled before the gate is given back, and a task looks again when it enters.
- `MatchControl_proofs`: `TypeCorrect`, `OneLive`, `CopiesCorrect`.  `ControlInv` names:
  a request past its first step names a match (`Named`), only the gate's holder is between
  its steps (`Held`), nothing is under way when the agent is down (`Quiet`), and every live
  row is that of the match the clock is bound to (`BoundIsLive`) - the reason why a stale
  whole-row write cannot make a second match live.  `CopiesInv` adds what the row and the
  checkpoint are between the two saves (`Decided`, `Unfinished`) and at rest
  (`StoreAgrees`).
- `ScoreEvents_proofs`: `ScoreTypeCorrect` and `ScoresCorrect`.  `ScoreInv` says of a match
  that is neither disturbed nor deleted from that each event's snapshot counts the scoring
  events before it (`Chained`), that the score counts all of them unless a tag or undo is
  between its two saves (`Settled`), and that what a tag has read and what a command is
  about to save is still so (`TagKnows`, `OperatorKnows`).  The chain of snapshots is why
  an undo is right after any earlier tags and undos; the score alone does not say it.
  `TimelineInv` numbers the events of a match, `Crowded \subseteq disturbed` makes a
  request on an undisturbed match the only one there.
- `BroadcastRenderer_proofs`: `RendererRefinesPublication` (every step of the composition
  is a step of the publisher or leaves it alone), and from it and `PublicationInvariant`
  the theorems `ScoresPublished` and `LivePublished` of the composed system.  `PendingHeld`
  says that a pending key is held by a caller about to queue it, by the channel or by the
  worker before its reads, which makes dropping a request safe; `Ordered` that publications
  carry what was there and never go back.  `RendererTypeCorrect` and `OutputSurvives` are
  about the page: `Carried` says that no answer and no message tells it that there is
  nothing, so every step leaves what is shown or puts something there (`ShownStays`).
  `SnapshotFirst` holds when connections are lost only with no load outstanding
  (`DropsWait`, as in `broadcast`; without it `broadcast_gate` refutes the property): then
  one load or join is under way at a time (`OneAtATime`), a completion on the wire is that
  of the function which waits for it (`OneReply`), and a page that loads holds messages
  back (`Gated`).
- `FrontEnds_proofs`, one theorem per safety property of the browser applications, for any
  bounds and any lists of identifiers that suffice for them (`ConsoleAssumption`):
  - `EditsKept`, of an operator who waits for each save, load and activation before the
    next, while the page polls:
    `EditsHeld` says that an edit reported as saved is in the page's profiles, in what an
    answer is about to put there and in what a save is about to store, its own key
    excepted; `DeviceFollows` that the device has the active profile's buttons but for a
    save that is between its two steps.  They need that only the poll is under way beside
    another request (`OneAtATime`) and what the fields hold (`DeckShape`).
  - `DraftsFollow`: the effects that run after a render restore what a step disturbs
    (`RenderedFollows`), wherever the disturbance came from.
  - `ServerOrderly`: `DbGood` is kept by every handler of `MockApi` for any request
    (`RespondKeeps`), that is, without any assumption on who sends what.
  - `FormsSaveWhatWasAsked`: a page sends only the calls its clicks make (`CallsAllowed`),
    a creation that was told is the one asked for under its key (`CreationTold`), and
    as long as nothing is lost neither the agent nor, once loaded, the page's form has a
    default (`SettingsHeld`).
  - `ClocksOnlyForward`: every handler but the correction leaves or advances a clock's
    seconds (`RespondMovesClocks`), and only the correction's page and the script send one.
  - `MockClockTells`: one timer while the clock runs (`MockShape`); that the log accounts for
    the seconds is proved of the partial sums, which exist and end in the recorded time
    (`AuditSummed`).
  - `SandboxCurrent`: what the list has wrong is going to be put right by a report, a queued scan
    or one that saw it (`GoingToBeListed`), and a shown component is of the list in force or its
    reload is under way (`ShowsListed`).
  - `TimersAlwaysRun`: one toast is kept (`OneToast`), and `Armed` counts the timers of the stop
    button, none of which is ever cleared.
  - `OfferIsReady`, `ClientDecodes`: what the panel holds is what an evaluation derives from
    some states of the parts (`VerdictsAgree`), what a caller was given is what `customFetch`
    makes of some response (`Exchanged`); the rest is about those operators.
  - `ApplicationsTypeCorrect`: the types, of the development server's collections above all.
    Each handler answers a typed state with a typed one and takes at most one identifier
    (`RespondTyped`), if what it does not look up was asked for by a name that it may have
    (`WellSent`, which holds of every request that a page or a script sends); and no more
    were taken than calls were handled (`CallsCounted`, `ServerHeld`).  The other
    applications need what their own invariants say beside it: a toast's number was given
    out (`ToastsGiven`), a request is remembered during a scan only (`MockupsTyped`), an
    identifier names one preset (`MocksSafe`), what a save, a load and an activation carry is
    a profile's (`RequestsTyped`), what the settings page sends and is told is a joystick's
    configuration (`AgentTyped`).

Only model-checked: all liveness (`LiveMeansCurrent`, `UnmountDisconnects`, `WaitsEnd`,
`CallsReturn`, `PagesSettle`, the recovery of the receiver), as fairness and ENABLED are out
of the prover's reach.  Every safety invariant of a run is also proved, for the scope and
the hypotheses named above.

## 6. Not modelled, and why

Of the agent:

- Event tagging: the change of an event's note and review status and the exports, which
  touch no score; a tag of a match that does not exist.  `CreatedAt`, by which the last
  event is found, is the wall clock, taken to go forward.  A creation that throws after the
  score was saved leaves a score without an event: `ScoreIsItsEvents` excludes it
  (`disturbed`), as nothing in the repository says what should happen.  It excludes a match
  of which a scoring event was deleted too (`deleted`): `DeleteEventAsync`
  (`EventTaggingService.cs:121`) leaves the score, though the match-day runbook
  (`MATCH_DAY_RUNBOOK.md:133`) says that it can be corrected in the event timeline.
- The W1 clock and journal, match setup and contract validation; field network
  remediation (the machine may change between the observation and the mutation); clock
  snapshot publication, a bounded queue of one beside the broadcast's.
- Camera, audio, joystick, discovery, export: requests to devices and files.  The overlay's
  five-second graphic timer has no caller with a duration.
- Streaming: destinations and credentials.  A client that hangs up just as its start is
  answered cancels the linked session token, so the stream runs on unobserved
  (`RtmpStreamingService.cs:112-114`); `ActiveIsWatched` excludes cancelled sessions, and
  `media_feed` reaches this.  The pump's own end is not watched by anybody, and the
  reconnect count is reset by a start only.
- Recording: FFmpeg exits between its launch and `SetState(Recording)`; a lost source
  leaves the state `Recording`.  `RemuxToMp4Async` has no caller; checksums are file I/O.
- Receiver: FFmpeg exits between its first chunk and the resumption of its start.
- `PUT` and `DELETE` of a match: the first tracks the row twice, which EF refuses; the
  second is an administrator's.  A request cancelled in the queue leaves as it came; one
  cancelled in a save is the fault "save".  Matches of structure `ExtraTime` are not created
  by the API; the dispatcher has the commands, and `match` checks them.
- The stopwatch's arithmetic, durations of timeouts (any order of a timeout and what it
  waits for is allowed), health texts, FFmpeg arguments.

Of the applications:

- Layout, wording, elapsed times; lists a page loads and never refetches are taken as
  loaded; headers and URL encoding; `components/ui`, a generated library.
- One page is open per behaviour: pages share no state but the query cache.
- Known differences of the console and the development server, visible in the model but no
  promise of either: the console POSTs a score where the server has PUT
  (`routes/matches.ts:349`), a clock correction drops the recording's seconds
  (`routes/matches.ts:320`), and `/events/current` is matched by `/events/:matchId`
  (`App.tsx:31-32`).
- The mock camera's connect may finish after a disconnect and leaves it connected.
- `SeeOthers` reads at once what the evaluation reads before and after it awaits the storage
  (`LiveReadinessService.cs:392`), so that of the parts after the camera no mixture is
  shown; no property tells such a mixture from one with the camera.  `UpdateToast` leaves
  `open` as it is, though an update may carry it; no caller's does.
- A failed activation leaves the Stream Deck page on a profile that is not the active one
  until another is chosen: `SelectedIsActive`, a part of `PagesSettle`, is asked only when
  no request is lost.

## 7. Plan

1. `W1Clock` refining an abstract `Journal` (append-only, one head, each operation once):
   grants, material operations, restore, two incarnations, crash before the commit.
2. `FieldNetwork`: success only for a verified state; a failed run can be finished by the
   next.
3. `MatchDay`: the recording and the match lifecycle composed through start-up recovery;
   `Streaming` over `StreamReceiver`'s leases.
4. Proofs: the refinement of the W1 journal, with the module of item 1.
