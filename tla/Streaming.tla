------------------------------ MODULE Streaming ------------------------------
(***************************************************************************)
(* RtmpStreamingService: one FFmpeg at a time publishes the canonical      *)
(* video to an RTMP destination, over a lease of the stream receiver.      *)
(* Calls of StartAsync and StopAsync, the observers of FFmpeg's exits and  *)
(* the task that retries a failed reconnection all queue for one lifecycle *)
(* gate; a session's cancellation token keeps the leftovers of an earlier  *)
(* session out of a later one.                                             *)
(*                                                                         *)
(* A launch of FFmpeg is its session with the value that _reconnectCount   *)
(* had; its lease, its pump and its exit observer go by the same name, as  *)
(* the fields for them are set and cleared together.  DisposeAsync is a    *)
(* stop.                                                                   *)
(***************************************************************************)
EXTENDS Naturals, FiniteSets

CONSTANTS
  Clients,        \* calls of the API that may be in flight
  MaxReconnects,  \* MaxReconnects
  MaxSessions     \* bound: calls of StartAsync

ASSUME StreamingAssumption == MaxReconnects \in Nat /\ MaxSessions \in Nat

Sessions    == 1..MaxSessions
FfmpegRuns  == Sessions \X (0..MaxReconnects)
NoRun       == <<0, 0>>
SessionOf(g) == g[1]

VARIABLES
  state,       \* _state
  holder,      \* what holds _lifecycleGate: "none", or the kind of its call
  step,        \* where that call awaits
  request,     \* request[r]: where the API call r is
  opened,      \* opened[r]: the session whose token is linked to r's, or 0
  starts,      \* sessions so far
  session,     \* _sessionCts: a session, or 0 for null
  cancelled,   \* the sessions whose token is cancelled
  reconnects,  \* _reconnectCount
  runtime,     \* _ffmpegProcess, _mediaLease and the tasks: a run, or NoRun
  cleaning,    \* the same in the locals of CleanupRuntimeAsync
  alive,       \* the runs whose process runs
  leases,      \* the runs whose lease is open
  pumping,     \* the runs whose media pump has not returned
  observer,    \* observer[g]: g's ObserveFfmpegExitAsync
  retry        \* retry[s]: s's RetryAfterFailedStartAsync

gateVars    == <<holder, step, request, opened>>
sessionVars == <<starts, session, cancelled, reconnects>>
runVars     == <<runtime, cleaning, alive, leases, pumping>>
taskVars    == <<observer, retry>>
streamingVars == <<state, gateVars, sessionVars, runVars, taskVars>>

Active == {"Connecting", "Streaming", "Reconnecting"}
Over   == {"Stopping", "Idle"}

StreamingInit ==
  /\ state = "Idle"
  /\ holder = "none" /\ step = "none"
  /\ request = [r \in Clients |-> "idle"]
  /\ opened = [r \in Clients |-> 0]
  /\ starts = 0 /\ session = 0 /\ cancelled = {} /\ reconnects = 0
  /\ runtime = NoRun /\ cleaning = NoRun
  /\ alive = {} /\ leases = {} /\ pumping = {}
  /\ observer = [g \in FfmpegRuns |-> "none"]
  /\ retry = [s \in Sessions |-> "none"]

StreamingTypeOK ==
  /\ state \in Active \cup Over \cup {"Error"}
  /\ holder \in {"none", "start", "stop", "exit", "retry"}
  /\ step \in {"none", "delay", "acquire", "build", "kill", "detach", "join"}
  /\ request \in [Clients -> {"idle", "start", "stop", "inside", "answering"}]
  /\ opened \in [Clients -> 0..MaxSessions]
  /\ starts \in 0..MaxSessions /\ session \in 0..MaxSessions
  /\ cancelled \subseteq Sessions
  /\ reconnects \in 0..MaxReconnects
  /\ {runtime, cleaning} \subseteq FfmpegRuns \cup {NoRun}
  /\ alive \subseteq FfmpegRuns /\ leases \subseteq FfmpegRuns
  /\ pumping \subseteq FfmpegRuns
  /\ observer \in [FfmpegRuns -> {"none", "waiting", "seen", "handling", "done"}]
  /\ retry \in [Sessions -> {"none", "queued", "running"}]

\* The run being launched: StartFfmpegAsync is for the current session.
Launching == <<session, reconnects>>

-----------------------------------------------------------------------------
(* The API's calls.                                                         *)

Ask(r, call) ==
  /\ request[r] = "idle"
  /\ request' = [request EXCEPT ![r] = call]
  /\ UNCHANGED <<state, holder, step, opened, sessionVars, runVars, taskVars>>

\* Its client hangs up while it waits for the gate.
GiveUpWaiting(r) ==
  /\ request[r] \in {"start", "stop"}
  /\ request' = [request EXCEPT ![r] = "idle"]
  /\ UNCHANGED <<state, holder, step, opened, sessionVars, runVars, taskVars>>

\* The client of a start hangs up later: the session's token is linked to
\* the request's, as long as that is under way.
HangUp(r) ==
  /\ opened[r] # 0
  /\ cancelled' = cancelled \cup {opened[r]}
  /\ UNCHANGED <<state, gateVars, starts, session, reconnects, runVars, taskVars>>

Answer(r) ==
  /\ request[r] = "answering"
  /\ request' = [request EXCEPT ![r] = "idle"]
  /\ opened' = [opened EXCEPT ![r] = 0]
  /\ UNCHANGED <<state, holder, step, sessionVars, runVars, taskVars>>

-----------------------------------------------------------------------------
(* Ends and parts of the calls under the gate.                              *)

\* The call releases the gate: it is a request's, or that of a task.
Release ==
  /\ holder' = "none" /\ step' = "none"
  /\ request' = [r \in Clients |->
                   IF request[r] = "inside" THEN "answering" ELSE request[r]]
  /\ UNCHANGED opened

\* The tasks when the call ends: queued are the sessions with a new retry.
TasksEnd(queued, launched) ==
  /\ observer' = [g \in FfmpegRuns |->
                    IF g \in launched THEN "waiting"
                    ELSE IF observer[g] = "handling" THEN "done"
                    ELSE observer[g]]
  /\ retry' = [s \in Sessions |->
                 IF s \in queued THEN "queued"
                 ELSE IF retry[s] = "running" THEN "none" ELSE retry[s]]

EndWith(newState) == state' = newState /\ Release /\ TasksEnd({}, {})

\* CleanupRuntimeAsync takes over the fields; then come KillFfmpeg,
\* DetachLease and one of the ends of the cleanup.
BeginCleanup ==
  /\ cleaning' = runtime /\ runtime' = NoRun
  /\ step' = "kill"
  /\ UNCHANGED <<alive, leases, pumping>>

\* The next reconnection, or none is left.
NextAttempt ==
  /\ UNCHANGED <<starts, session, cancelled>>
  /\ IF reconnects < MaxReconnects
     THEN /\ reconnects' = reconnects + 1
          /\ state' = "Reconnecting" /\ step' = "delay"
          /\ UNCHANGED <<holder, request, opened, taskVars>>
     ELSE EndWith("Error") /\ UNCHANGED reconnects

-----------------------------------------------------------------------------
(* StartAsync.                                                              *)

Enters(r, call) ==
  /\ request[r] = call /\ holder = "none"
  /\ holder' = call
  /\ request' = [request EXCEPT ![r] = "inside"]

\* _sessionCts?.Cancel()
CancelSession == cancelled' = cancelled \cup ({session} \ {0})

\* "Streaming is already active": the exception's handler cleans up the
\* session that is.
RefuseStart(r) ==
  /\ Enters(r, "start") /\ state \in Active
  /\ CancelSession /\ BeginCleanup
  /\ UNCHANGED <<state, opened, starts, session, reconnects, taskVars>>

\* Mutant: an active stream does not refuse the start.
BeginStartAnyway(r) ==
  /\ Enters(r, "start")
  /\ starts < MaxSessions
  /\ starts' = starts + 1 /\ session' = starts + 1
  /\ opened' = [opened EXCEPT ![r] = starts + 1]
  /\ reconnects' = 0
  /\ state' = "Connecting" /\ step' = "acquire"
  /\ UNCHANGED <<cancelled, runVars, taskVars>>

BeginStart(r) ==
  /\ Enters(r, "start") /\ state \notin Active
  /\ starts < MaxSessions
  /\ starts' = starts + 1 /\ session' = starts + 1
  /\ opened' = [opened EXCEPT ![r] = starts + 1]
  /\ reconnects' = 0
  /\ state' = "Connecting" /\ step' = "acquire"
  /\ UNCHANGED <<cancelled, runVars, taskVars>>

-----------------------------------------------------------------------------
(* StartFfmpegAsync, for the current session: no task of another passes the *)
(* gate (StopIsFinal).                                                      *)

AcquireLease ==
  /\ step = "acquire"
  /\ leases' = leases \cup {Launching}
  /\ step' = "build"
  /\ UNCHANGED <<state, holder, request, opened, sessionVars, runtime, cleaning,
                 alive, pumping, taskVars>>

\* The audio source is found, FFmpeg starts, its pump and observer with it.
StartFfmpeg ==
  /\ step = "build"
  /\ runtime' = Launching
  /\ alive' = alive \cup {Launching}
  /\ pumping' = pumping \cup {Launching}
  /\ state' = "Streaming"
  /\ Release /\ TasksEnd({}, {Launching})
  /\ UNCHANGED <<sessionVars, cleaning, leases>>

\* No lease, no audio or no FFmpeg: the lease is disposed of.
Throws ==
  \/ step = "acquire" /\ UNCHANGED leases
  \/ step = "build" /\ leases' = leases \ {Launching}

\* CleanupSessionAsync.
StartThrows ==
  /\ holder = "start" /\ Throws
  /\ CancelSession
  /\ cleaning' = runtime /\ runtime' = NoRun
  /\ step' = "kill"
  /\ UNCHANGED <<state, holder, request, opened, starts, session, reconnects,
                 alive, pumping, taskVars>>

\* A reconnection's delay or launch is cancelled: no state is set.
ReconnectCancelled ==
  /\ holder \in {"exit", "retry"} /\ session \in cancelled
  /\ Throws \/ (step = "delay" /\ UNCHANGED leases)
  /\ Release /\ TasksEnd({}, {})
  /\ UNCHANGED <<state, sessionVars, runtime, cleaning, alive, pumping>>

\* Mutant: an attempt that failed is the last.
ReconnectFailsSilently ==
  /\ holder = "exit" /\ Throws
  /\ UNCHANGED state /\ Release /\ TasksEnd({}, {})
  /\ UNCHANGED <<sessionVars, runtime, cleaning, alive, pumping>>

\* The observer's one attempt failed: a task retries, if attempts are left.
ReconnectFails ==
  /\ holder = "exit" /\ Throws
  /\ IF reconnects < MaxReconnects
     THEN UNCHANGED state /\ Release /\ TasksEnd({session}, {})
     ELSE EndWith("Error")
  /\ UNCHANGED <<sessionVars, runtime, cleaning, alive, pumping>>

\* The task's attempt failed.  CleanupRuntimeAsync finds nothing: the fields
\* are set at the end of a launch only.
RetryFails ==
  /\ holder = "retry" /\ Throws
  /\ NextAttempt
  /\ UNCHANGED <<runtime, cleaning, alive, pumping>>

DelayEnds ==
  /\ step = "delay"
  /\ step' = "acquire"
  /\ UNCHANGED <<state, holder, request, opened, sessionVars, runVars, taskVars>>

-----------------------------------------------------------------------------
(* CleanupRuntimeAsync and what follows it.                                 *)

KillFfmpeg ==
  /\ step = "kill"
  /\ alive' = alive \ {cleaning}
  /\ step' = "detach"
  /\ UNCHANGED <<state, holder, request, opened, sessionVars, runtime, cleaning,
                 leases, pumping, taskVars>>

DetachLease ==
  /\ step = "detach"
  /\ leases' = leases \ {cleaning}
  /\ step' = "join"
  /\ UNCHANGED <<state, holder, request, opened, sessionVars, runtime, cleaning,
                 alive, pumping, taskVars>>

Joined ==
  /\ step = "join" /\ cleaning \notin pumping
  /\ cleaning' = NoRun
  /\ UNCHANGED <<runtime, alive, leases, pumping>>

\* Mutant: a stop does not cancel the session.
SessionOverUncancelled ==
  /\ holder \in {"start", "stop"} /\ Joined
  /\ session' = 0
  /\ EndWith("Idle")
  /\ UNCHANGED <<starts, cancelled, reconnects>>

\* The end of StopAsync and of CleanupSessionAsync.
SessionOver ==
  /\ holder \in {"start", "stop"} /\ Joined
  /\ CancelSession /\ session' = 0
  /\ EndWith("Idle")
  /\ UNCHANGED <<starts, reconnects>>

\* The runtime of a process that exited is cleaned up.
Reconnect ==
  /\ holder = "exit" /\ Joined
  /\ IF session \notin cancelled THEN NextAttempt
     ELSE EndWith("Error") /\ UNCHANGED sessionVars

-----------------------------------------------------------------------------
(* StopAsync, and the tasks' entries.                                       *)

StopNothing(r) ==
  /\ request[r] = "stop" /\ holder = "none"
  /\ state = "Idle" /\ runtime = NoRun
  /\ request' = [request EXCEPT ![r] = "answering"]
  /\ UNCHANGED <<state, holder, step, opened, sessionVars, runVars, taskVars>>

BeginStop(r) ==
  /\ Enters(r, "stop")
  /\ ~(state = "Idle" /\ runtime = NoRun)
  /\ state' = "Stopping"
  /\ BeginCleanup
  /\ UNCHANGED <<opened, sessionVars, taskVars>>

\* The session is over, or about to be.
Obsolete(s) == s \in cancelled \/ state \in Over

\* FFmpeg's exit, or the cancellation, ends the wait of its observer.
ObserveExit(g) ==
  /\ observer[g] = "waiting"
  /\ g \notin alive \/ SessionOf(g) \in cancelled
  /\ observer' = [observer EXCEPT ![g] =
                    IF Obsolete(SessionOf(g)) THEN "done" ELSE "seen"]
  /\ UNCHANGED <<state, gateVars, sessionVars, runVars, retry>>

IgnoreExit(g) ==
  /\ observer[g] = "seen" /\ holder = "none"
  /\ Obsolete(SessionOf(g))
  /\ observer' = [observer EXCEPT ![g] = "done"]
  /\ UNCHANGED <<state, gateVars, sessionVars, runVars, retry>>

HandleExit(g) ==
  /\ observer[g] = "seen" /\ holder = "none"
  /\ ~Obsolete(SessionOf(g))
  /\ observer' = [observer EXCEPT ![g] = "handling"]
  /\ holder' = "exit"
  /\ BeginCleanup
  /\ UNCHANGED <<state, request, opened, sessionVars, retry>>

DropRetry(s) ==
  /\ retry[s] = "queued"
  /\ s \in cancelled \/ (holder = "none" /\ Obsolete(s))
  /\ retry' = [retry EXCEPT ![s] = "none"]
  /\ UNCHANGED <<state, gateVars, sessionVars, runVars, observer>>

BeginRetry(s) ==
  /\ retry[s] = "queued" /\ holder = "none"
  /\ ~Obsolete(s)
  /\ retry' = [retry EXCEPT ![s] = "running"]
  /\ holder' = "retry"
  /\ reconnects < MaxReconnects
  /\ reconnects' = reconnects + 1
  /\ state' = "Reconnecting" /\ step' = "delay"
  /\ UNCHANGED <<request, opened, starts, session, cancelled, runVars, observer>>

-----------------------------------------------------------------------------
(* The environment.                                                         *)

FfmpegExits(g) ==
  /\ g \in alive
  /\ alive' = alive \ {g}
  /\ UNCHANGED <<state, gateVars, sessionVars, runtime, cleaning, leases, pumping,
                 taskVars>>

\* The lease, the process or the session ended, or the stream did: nobody
\* but CleanupRuntimeAsync asks.
PumpEnds(g) ==
  /\ g \in pumping
  /\ pumping' = pumping \ {g}
  /\ UNCHANGED <<state, gateVars, sessionVars, runtime, cleaning, alive, leases,
                 taskVars>>

-----------------------------------------------------------------------------

RequestStep(r) ==
  \/ Ask(r, "start") \/ Ask(r, "stop") \/ GiveUpWaiting(r) \/ HangUp(r)
  \/ Answer(r) \/ RefuseStart(r) \/ BeginStart(r) \/ StopNothing(r)
  \/ BeginStop(r)

GateStep ==
  \/ AcquireLease \/ StartFfmpeg \/ StartThrows
  \/ ReconnectCancelled \/ ReconnectFails \/ RetryFails \/ DelayEnds
  \/ KillFfmpeg \/ DetachLease \/ SessionOver \/ Reconnect

RunStep(g) ==
  \/ ObserveExit(g) \/ IgnoreExit(g) \/ HandleExit(g)
  \/ FfmpegExits(g) \/ PumpEnds(g)

StreamingNext ==
  \/ \E r \in Clients : RequestStep(r)
  \/ GateStep
  \/ \E g \in FfmpegRuns : RunStep(g)
  \/ \E s \in Sessions : DropRetry(s) \/ BeginRetry(s)

\* What is awaited under the gate ends by itself or with an exception, and a
\* pump ends once its lease has.  No client has to call, no process to exit.
StreamingFairness ==
  /\ WF_streamingVars(GateStep)
  /\ WF_streamingVars(\E g \in FfmpegRuns \ leases : PumpEnds(g))

StreamingSpec == StreamingInit /\ [][StreamingNext]_streamingVars

-----------------------------------------------------------------------------
(* Properties.                                                              *)

\* Two FFmpeg processes never publish at once, nor does the service hold two
\* leases, however starts, stops, exits and retries interleave.
OneStreamer == Cardinality(alive) <= 1 /\ Cardinality(leases) <= 1

\* A stop, or a start that failed, is final, and so is an error: no process,
\* lease or pump is left, and of the tasks that are still to run none will
\* start FFmpeg again.
StopIsFinal ==
  holder = "none" /\ state \in {"Idle", "Error"} =>
    /\ alive = {} /\ leases = {} /\ pumping = {}
    /\ \A g \in FfmpegRuns :
         observer[g] \in {"waiting", "seen"} => SessionOf(g) \in cancelled
    /\ \A s \in Sessions : retry[s] = "queued" => s \in cancelled

\* A service that says it streams has somebody who will see FFmpeg exit, and
\* one that says it reconnects has a task that does; unless the client that
\* started it hung up before it was answered.
ActiveIsWatched ==
  holder = "none" /\ state \in Active /\ session \notin cancelled =>
    \/ /\ state = "Streaming"
       /\ runtime # NoRun /\ observer[runtime] \in {"waiting", "seen"}
    \/ /\ state = "Reconnecting"
       /\ retry[session] = "queued"

=============================================================================
