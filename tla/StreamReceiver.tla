--------------------------- MODULE StreamReceiver ---------------------------
(***************************************************************************)
(* Lifecycle of the canonical video ingress (FfmpegStreamReceiver): who    *)
(* may launch the camera-reading FFmpeg process, when the receiver says    *)
(* "Available", what ends a media lease, and what StopAsync leaves behind. *)
(*                                                                         *)
(* One launch of FFmpeg is a number; each launch has a media pump and an   *)
(* exit observer running beside the callers.  Media content is in          *)
(* MediaDispatch; here a chunk only establishes the launch and may         *)
(* complete the late-join bootstrap.                                       *)
(***************************************************************************)
EXTENDS Naturals, FiniteSets

CONSTANTS
  Consumers,      \* callers of AcquireAsync (recording, preview, streaming)
  LiveAligned,    \* consumers that acquire with StartMode LiveAligned
  Abortable,      \* callers whose token may be cancelled before the call returns
  SessionScoped,  \* consumers whose token lives on with the lease and is
                  \* cancelled when they go away (preview, streaming)
  Supervisors,    \* callers of RecoverAsync
  Host,           \* the caller of StopAsync
  NoOne,          \* nobody holds the lifecycle gate
  MaxLaunches,    \* bound on FFmpeg launches in a behaviour
  MaxRecoveryAttempts

Callers  == Consumers \cup Supervisors \cup {Host}
Launches == 1..MaxLaunches

ASSUME ConstantsAssumption ==
  /\ LiveAligned \subseteq Consumers
  /\ SessionScoped \subseteq Consumers
  /\ Abortable \subseteq Callers
  /\ Host \notin Consumers \cup Supervisors
  /\ Consumers \cap Supervisors = {}
  /\ NoOne \notin Callers
  /\ MaxLaunches \in Nat
  /\ MaxRecoveryAttempts \in Nat \ {0}

VARIABLES
  state,       \* _state
  gate,        \* the holder of _lifecycleGate, or NoOne
  pc,          \* pc[a]: where caller a is in its call
  teardown,    \* progress of StopProcessCoreAsync, run by the gate holder
  attempt,     \* RecoverAsync's attempt counter
  launched,    \* launches so far
  process,     \* _process: a launch, or 0 for null
  lifetime,    \* the launch whose token _lifetimeCts is, or 0
  tasks,       \* the launch whose _mediaTask and _exitTask are kept, or 0
  owner,       \* owner[g]: the caller whose token g's lifetime is linked to
  alive,       \* launches whose FFmpeg process runs
  cancelled,   \* launches whose lifetime token is cancelled
  pumping,     \* launches whose PumpMediaAsync has not returned
  observer,    \* observer[g]: progress of g's ObserveExitAsync
  firstMedia,  \* firstMedia[g]: g's TaskCompletionSource
  bootstrap,   \* _bootstrap.Snapshot() is not empty
  registered,  \* _consumers; a consumer's channel is open iff it is in here
  ready        \* consumers whose LiveReady is set

callerVars  == <<gate, pc, teardown, attempt>>
launchVars  == <<launched, process, lifetime, tasks, owner>>
sourceVars  == <<alive, cancelled, pumping, observer, firstMedia>>
mediaVars   == <<bootstrap, registered, ready>>
vars == <<state, callerVars, launchVars, sourceVars, mediaVars>>

StreamReceiverState ==
  {"Idle", "Starting", "Available", "Interrupted", "Recovering", "Stopping",
   "Error"}

Init ==
  /\ state = "Idle"
  /\ gate = NoOne
  /\ pc = [a \in Callers |-> "idle"]
  /\ teardown = "none"
  /\ attempt = 0
  /\ launched = 0
  /\ process = 0
  /\ lifetime = 0
  /\ tasks = 0
  /\ owner = [g \in Launches |-> NoOne]
  /\ alive = {}
  /\ cancelled = {}
  /\ pumping = {}
  /\ observer = [g \in Launches |-> "none"]
  /\ firstMedia = [g \in Launches |-> "pending"]
  /\ bootstrap = FALSE
  /\ registered = {}
  /\ ready = {}

Goto(a, label) == pc' = [pc EXCEPT ![a] = label]

TokenOf(a) == {g \in Launches : owner[g] = a}

-----------------------------------------------------------------------------
(* The callers' entries: AcquireAsync begins with StartAsync. *)

\* AcquireAsync is called; a fresh token owns no earlier launch.
Acquire(c) ==
  /\ pc[c] = "idle"
  /\ Goto(c, "wantStart")
  /\ owner' = [g \in Launches |-> IF owner[g] = c THEN NoOne ELSE owner[g]]
  /\ UNCHANGED <<state, gate, teardown, attempt, launched, process, lifetime,
                 tasks, sourceVars, mediaVars>>

RequestStop ==
  /\ pc[Host] = "idle"
  /\ Goto(Host, "wantStop")
  /\ UNCHANGED <<state, gate, teardown, attempt, launchVars, sourceVars,
                 mediaVars>>

RequestRecovery(s) ==
  /\ pc[s] = "idle"
  /\ Goto(s, "wantRecover")
  /\ owner' = [g \in Launches |-> IF owner[g] = s THEN NoOne ELSE owner[g]]
  /\ UNCHANGED <<state, gate, teardown, attempt, launched, process, lifetime,
                 tasks, sourceVars, mediaVars>>

\* Mutant: the early return is taken without releasing the gate.
EnterStartKeepsGate(c) ==
  /\ pc[c] = "wantStart"
  /\ gate = NoOne
  /\ gate' = c
  /\ IF state \in {"Available", "Starting"}
       THEN Goto(c, "admitted") /\ UNCHANGED state
       ELSE Goto(c, "connecting") /\ state' = "Starting"
  /\ UNCHANGED <<teardown, attempt, launchVars, sourceVars, mediaVars>>

\* StartAsync past the gate: nothing to do, or the caller starts the source.
EnterStart(c) ==
  /\ pc[c] = "wantStart"
  /\ gate = NoOne
  /\ IF state \in {"Available", "Starting"}
       THEN Goto(c, "admitted") /\ UNCHANGED <<state, gate>>
       ELSE Goto(c, "connecting") /\ state' = "Starting" /\ gate' = c
  /\ UNCHANGED <<teardown, attempt, launchVars, sourceVars, mediaVars>>

EnterStop ==
  /\ pc[Host] = "wantStop"
  /\ gate = NoOne
  /\ IF state = "Idle" /\ process = 0
       THEN /\ Goto(Host, "idle")
            /\ registered' = {}
            /\ UNCHANGED <<state, gate, teardown>>
       ELSE /\ Goto(Host, "stopping")
            /\ state' = "Stopping"
            /\ gate' = Host
            /\ teardown' = "kill"
            /\ UNCHANGED registered
  /\ UNCHANGED <<attempt, launchVars, sourceVars, bootstrap, ready>>

EnterRecover(s) ==
  /\ pc[s] = "wantRecover"
  /\ gate = NoOne
  /\ IF state = "Available"
       THEN Goto(s, "idle") /\ UNCHANGED <<state, gate, teardown, attempt>>
       ELSE /\ Goto(s, "recovering")
            /\ state' = "Recovering"
            /\ gate' = s
            /\ attempt' = 1
            /\ teardown' = "kill"
  /\ UNCHANGED <<launchVars, sourceVars, mediaVars>>

-----------------------------------------------------------------------------
(* StartCoreAsync, run by the gate holder. *)

Launch(a) ==
  /\ pc[a] = "connecting"
  /\ launched < MaxLaunches
  /\ LET g == launched + 1 IN
       /\ launched' = g
       /\ process' = g
       /\ lifetime' = g
       /\ tasks' = g
       /\ owner' = [owner EXCEPT ![g] = a]
       /\ alive' = alive \cup {g}
       /\ pumping' = pumping \cup {g}
       /\ observer' = [observer EXCEPT ![g] = "waiting"]
  /\ Goto(a, "awaiting")
  /\ UNCHANGED <<state, gate, teardown, attempt, cancelled, firstMedia,
                 mediaVars>>

\* The first chunk arrived: Available, whatever happened to the process since.
Establish(a) ==
  /\ pc[a] = "awaiting"
  /\ firstMedia[process] = "media"
  /\ state' = "Available"
  /\ gate' = NoOne
  /\ Goto(a, IF a \in Consumers THEN "admitted" ELSE "idle")
  /\ UNCHANGED <<teardown, attempt, launchVars, sourceVars, mediaVars>>

\* The process could not be started: _process is cleared, _lifetimeCts is a
\* fresh token of no launch, the earlier launch's tasks are still remembered.
NoProcess ==
  /\ process' = 0
  /\ lifetime' = 0
  /\ UNCHANGED <<launched, tasks, owner>>

\* How StartCoreAsync can throw: camera refused or cancelled, FFmpeg not
\* started, or no first media (exit seen, timeout, caller's token cancelled).
StartCoreThrows(a) ==
  \/ pc[a] = "connecting" /\ UNCHANGED launchVars
  \/ pc[a] = "connecting" /\ NoProcess
  \/ pc[a] = "awaiting" /\ firstMedia[process] # "media" /\ UNCHANGED launchVars

\* Mutant: a failed start reports Error without stopping what it launched.
StartFailsWithoutTeardown(c) ==
  /\ c \in Consumers
  /\ StartCoreThrows(c)
  /\ Goto(c, "idle")
  /\ state' = "Error"
  /\ gate' = NoOne
  /\ UNCHANGED <<teardown, attempt, sourceVars, mediaVars>>

StartFails(c) ==
  /\ c \in Consumers
  /\ StartCoreThrows(c)
  /\ Goto(c, "startFailed")
  /\ teardown' = "kill"
  /\ UNCHANGED <<state, gate, attempt, sourceVars, mediaVars>>

\* A recovery attempt failed: the next one tears down first, the last one
\* leaves Error and whatever it had launched.
RecoveryAttemptFails(s) ==
  /\ s \in Supervisors
  /\ StartCoreThrows(s)
  /\ IF attempt < MaxRecoveryAttempts
       THEN /\ attempt' = attempt + 1
            /\ teardown' = "kill"
            /\ Goto(s, "recovering")
            /\ UNCHANGED <<state, gate>>
       ELSE /\ state' = "Error"
            /\ gate' = NoOne
            /\ Goto(s, "idle")
            /\ UNCHANGED <<attempt, teardown>>
  /\ UNCHANGED <<sourceVars, mediaVars>>

\* The supervisor's token is cancelled: no state change, no teardown.
RecoveryCancelled(s) ==
  /\ s \in Supervisors \cap Abortable
  /\ pc[s] \in {"connecting", "awaiting"}
  /\ cancelled' = cancelled \cup TokenOf(s)
  /\ gate' = NoOne
  /\ Goto(s, "idle")
  /\ UNCHANGED <<state, teardown, attempt, launchVars, alive, pumping,
                 observer, firstMedia, mediaVars>>

-----------------------------------------------------------------------------
(* StopProcessCoreAsync, run by the gate holder in four steps.             *)

\* Mutant: the tasks are cancelled but the process is left running.
KillTasksOnly ==
  /\ teardown = "kill"
  /\ cancelled' = IF lifetime = 0 THEN cancelled ELSE cancelled \cup {lifetime}
  /\ process' = 0
  /\ lifetime' = 0
  /\ teardown' = "join"
  /\ UNCHANGED <<state, gate, pc, attempt, launched, tasks, owner, alive,
                 pumping, observer, firstMedia, mediaVars>>

Kill ==
  /\ teardown = "kill"
  /\ cancelled' = IF lifetime = 0 THEN cancelled ELSE cancelled \cup {lifetime}
  /\ alive' = alive \ {process}
  /\ process' = 0
  /\ lifetime' = 0
  /\ teardown' = "join"
  /\ UNCHANGED <<state, gate, pc, attempt, launched, tasks, owner, pumping,
                 observer, firstMedia, mediaVars>>

TasksEnded == tasks # 0 => tasks \notin pumping /\ observer[tasks] = "done"

Join ==
  /\ teardown = "join"
  /\ TasksEnded
  /\ tasks' = 0
  /\ teardown' = "reset"
  /\ UNCHANGED <<state, gate, pc, attempt, launched, process, lifetime, owner,
                 sourceVars, mediaVars>>

\* Mutant: the bootstrap outlives the source it was built from.
KeepBootstrap ==
  /\ teardown = "reset"
  /\ teardown' = "complete"
  /\ UNCHANGED <<state, gate, pc, attempt, launchVars, sourceVars, mediaVars>>

ResetBootstrap ==
  /\ teardown = "reset"
  /\ bootstrap' = FALSE
  /\ teardown' = "complete"
  /\ UNCHANGED <<state, gate, pc, attempt, launchVars, sourceVars, registered,
                 ready>>

\* The end of the teardown and what its caller does next.  A failed start
\* keeps its consumers; Stop and Recover complete every channel.
EndTeardown(a) ==
  /\ teardown = "complete"
  /\ gate = a
  /\ teardown' = "none"
  /\ \/ /\ pc[a] = "startFailed"
        /\ state' = "Error" /\ gate' = NoOne /\ Goto(a, "idle")
        /\ UNCHANGED registered
     \/ /\ pc[a] = "stopping"
        /\ state' = "Idle" /\ gate' = NoOne /\ Goto(a, "idle")
        /\ registered' = {}
     \/ /\ pc[a] = "recovering"
        /\ UNCHANGED <<state, gate>> /\ Goto(a, "connecting")
        /\ registered' = {}
  /\ UNCHANGED <<attempt, launchVars, sourceVars, bootstrap, ready>>

-----------------------------------------------------------------------------
(* AcquireAsync after StartAsync returned, and the life of a lease. *)

\* Under _mediaDispatchLock: a usable bootstrap primes and registers.
RegisterPrimed(c) ==
  /\ pc[c] = "admitted"
  /\ c \notin LiveAligned
  /\ bootstrap
  /\ registered' = registered \cup {c}
  /\ Goto(c, "leased")
  /\ UNCHANGED <<state, gate, teardown, attempt, launchVars, sourceVars,
                 bootstrap, ready>>

RegisterLive(c) ==
  /\ pc[c] = "admitted"
  /\ c \in LiveAligned
  /\ registered' = registered \cup {c}
  /\ ready' = ready \ {c}
  /\ Goto(c, "waitLive")
  /\ UNCHANGED <<state, gate, teardown, attempt, launchVars, sourceVars,
                 bootstrap>>

BecomeLive(c) ==
  /\ pc[c] = "waitLive"
  /\ c \in ready
  /\ Goto(c, "leased")
  /\ UNCHANGED <<state, gate, teardown, attempt, launchVars, sourceVars,
                 mediaVars>>

\* Five seconds without a safe joining point: RemoveConsumer and throw.
JoinTimeout(c) ==
  /\ \/ pc[c] = "admitted" /\ c \notin LiveAligned
     \/ pc[c] = "waitLive"
  /\ registered' = registered \ {c}
  /\ Goto(c, "idle")
  /\ UNCHANGED <<state, gate, teardown, attempt, launchVars, sourceVars,
                 bootstrap, ready>>

\* The caller's token is cancelled while it queues for the gate or waits for
\* a joining point; a lifetime linked to that token is cancelled with it.
Abort(c) ==
  /\ c \in Abortable
  /\ pc[c] \in {"wantStart", "admitted", "waitLive"}
  /\ cancelled' = cancelled \cup TokenOf(c)
  /\ registered' = registered \ {c}
  /\ Goto(c, "idle")
  /\ UNCHANGED <<state, gate, teardown, attempt, launchVars, alive, pumping,
                 observer, firstMedia, bootstrap, ready>>

\* The consumer disposes its lease.  Preview and streaming also cancel the
\* token they acquired with (previewCts, _sessionCts).
Detach(c) ==
  /\ pc[c] = "leased"
  /\ cancelled' = IF c \in SessionScoped THEN cancelled \cup TokenOf(c)
                                         ELSE cancelled
  /\ registered' = registered \ {c}
  /\ Goto(c, "idle")
  /\ UNCHANGED <<state, gate, teardown, attempt, launchVars, alive, pumping,
                 observer, firstMedia, bootstrap, ready>>

-----------------------------------------------------------------------------
(* The tasks of a launch. *)

\* PumpMediaAsync reads a chunk: it establishes the launch, may complete the
\* bootstrap and may give live-aligned consumers their joining point.
Chunk(g) ==
  /\ g \in pumping \ cancelled
  /\ firstMedia' = [firstMedia EXCEPT ![g] = IF @ = "pending" THEN "media" ELSE @]
  /\ bootstrap' \in {bootstrap, TRUE}
  /\ \E joined \in SUBSET {c \in registered : pc[c] = "waitLive"} :
       ready' = ready \cup joined
  /\ UNCHANGED <<state, callerVars, launchVars, alive, cancelled, pumping,
                 observer, registered>>

PumpEnds(g) ==
  /\ g \in pumping
  /\ g \in cancelled \/ g \notin alive
  /\ pumping' = pumping \ {g}
  /\ UNCHANGED <<state, callerVars, launchVars, alive, cancelled, observer,
                 firstMedia, mediaVars>>

\* FFmpeg exits on its own: camera lost, network lost, crash.
ProcessExits(g) ==
  /\ g \in alive
  /\ alive' = alive \ {g}
  /\ UNCHANGED <<state, callerVars, launchVars, cancelled, pumping, observer,
                 firstMedia, mediaVars>>

\* ObserveExitAsync up to the test of _state.
ObserveExit(g) ==
  /\ observer[g] = "waiting"
  /\ IF g \in cancelled
       THEN observer' = [observer EXCEPT ![g] = "done"] /\ UNCHANGED firstMedia
       ELSE /\ g \notin alive
            /\ observer' = [observer EXCEPT ![g] = "exited"]
            /\ firstMedia' =
                 [firstMedia EXCEPT ![g] = IF @ = "pending" THEN "failed" ELSE @]
  /\ UNCHANGED <<state, callerVars, launchVars, alive, cancelled, pumping,
                 mediaVars>>

Interrupt(g) ==
  /\ observer[g] = "exited"
  /\ IF state \in {"Starting", "Available"}
       THEN /\ state' = "Interrupted"
            /\ observer' = [observer EXCEPT ![g] = "completing"]
       ELSE observer' = [observer EXCEPT ![g] = "done"] /\ UNCHANGED state
  /\ UNCHANGED <<callerVars, launchVars, alive, cancelled, pumping, firstMedia,
                 mediaVars>>

CompleteInterrupted(g) ==
  /\ observer[g] = "completing"
  /\ registered' = {}
  /\ observer' = [observer EXCEPT ![g] = "done"]
  /\ UNCHANGED <<state, callerVars, launchVars, alive, cancelled, pumping,
                 firstMedia, bootstrap, ready>>

-----------------------------------------------------------------------------
ConsumerStep(c) ==
  \/ Acquire(c) \/ EnterStart(c) \/ Launch(c) \/ Establish(c) \/ StartFails(c)
  \/ RegisterPrimed(c) \/ RegisterLive(c) \/ BecomeLive(c) \/ JoinTimeout(c)
  \/ Abort(c) \/ Detach(c) \/ EndTeardown(c)

SupervisorStep(s) ==
  \/ RequestRecovery(s) \/ EnterRecover(s) \/ Launch(s) \/ Establish(s)
  \/ RecoveryAttemptFails(s) \/ RecoveryCancelled(s) \/ EndTeardown(s)

HostStep == RequestStop \/ EnterStop \/ EndTeardown(Host)

TeardownStep == Kill \/ Join \/ ResetBootstrap

LaunchStep(g) ==
  \/ Chunk(g) \/ PumpEnds(g) \/ ProcessExits(g) \/ ObserveExit(g)
  \/ Interrupt(g) \/ CompleteInterrupted(g)

Next ==
  \/ \E c \in Consumers : ConsumerStep(c)
  \/ \E s \in Supervisors : SupervisorStep(s)
  \/ HostStep
  \/ TeardownStep
  \/ \E g \in Launches : LaunchStep(g)

Spec == Init /\ [][Next]_vars

(* Waiters of a SemaphoreSlim are released in the order they queued: strong *)
(* fairness of the entries.  Awaited work ends by itself or by its timeout  *)
(* (10 s for first media, 5 s for a joining point); a cancelled or exited   *)
(* launch's tasks end.  Nothing obliges a caller to call, a process to exit *)
(* or the camera to deliver.                                                *)
Fairness ==
  /\ \A c \in Consumers :
       /\ SF_vars(EnterStart(c))
       /\ WF_vars(Launch(c) \/ Establish(c) \/ StartFails(c))
       /\ WF_vars(RegisterPrimed(c) \/ RegisterLive(c) \/ BecomeLive(c)
                    \/ JoinTimeout(c))
  /\ \A s \in Supervisors :
       /\ SF_vars(EnterRecover(s))
       /\ WF_vars(Launch(s) \/ Establish(s) \/ RecoveryAttemptFails(s))
  /\ SF_vars(EnterStop)
  /\ WF_vars(TeardownStep)
  /\ \A a \in Callers : WF_vars(EndTeardown(a))
  /\ \A g \in Launches :
       /\ WF_vars(PumpEnds(g))
       /\ WF_vars(ObserveExit(g))
       /\ WF_vars(Interrupt(g) \/ CompleteInterrupted(g))

FairSpec == Spec /\ Fairness

-----------------------------------------------------------------------------
(* Properties *)

TypeOK ==
  /\ state \in StreamReceiverState
  /\ gate \in Callers \cup {NoOne}
  /\ pc \in [Callers -> {"idle", "wantStart", "wantStop", "wantRecover",
                         "connecting", "awaiting", "startFailed", "stopping",
                         "recovering", "admitted", "waitLive", "leased"}]
  /\ teardown \in {"none", "kill", "join", "reset", "complete"}
  /\ attempt \in 0..MaxRecoveryAttempts
  /\ launched \in 0..MaxLaunches
  /\ process \in 0..MaxLaunches
  /\ lifetime \in 0..MaxLaunches
  /\ tasks \in 0..MaxLaunches
  /\ owner \in [Launches -> Callers \cup {NoOne}]
  /\ alive \subseteq Launches
  /\ cancelled \subseteq Launches
  /\ pumping \subseteq Launches
  /\ observer \in [Launches -> {"none", "waiting", "exited", "completing", "done"}]
  /\ firstMedia \in [Launches -> {"pending", "media", "failed"}]
  /\ bootstrap \in BOOLEAN
  /\ registered \subseteq Consumers
  /\ ready \subseteq Consumers

\* The receiver is the sole owner of the camera source: whatever callers,
\* exits and teardowns interleave, two FFmpeg processes never read the camera
\* at once.  Holds where nobody calls RecoverAsync (the agent as wired).
AtMostOneSource == Cardinality(alive) <= 1

\* StopAsync leaves no FFmpeg process behind (the host counts on it at
\* shutdown).  Holds where nobody calls RecoverAsync, fails where somebody
\* does: its last failed attempt is not torn down.
StopLeavesNoSource == state = "Idle" => alive = {}

\* Where a property speaks of one session of the receiver: the tasks of an
\* interrupted launch have ended before the next launch is made.  (Nothing in
\* StartAsync waits for them; in the program they end within microseconds and
\* the next launch takes seconds.)
EarlierLaunchesDrained ==
  \A g \in Launches :
    g < tasks => g \notin pumping /\ observer[g] \in {"none", "done"}

\* Stopping the receiver ends every lease, including one being handed out by a
\* caller that passed StartAsync before the stop: the bootstrap is reset
\* before the channels are completed.  Holds while earlier launches are drained.
NoLeaseAfterStop ==
  state = "Idle" => \A c \in registered : pc[c] # "leased"

\* A consumer that goes away detaches only itself: whoever still holds a
\* lease on a running source keeps a source whose lifetime is not cancelled.
DetachIsPrivate ==
  \A c \in registered \ SessionScoped :
    pc[c] = "leased" /\ state = "Available" /\ tasks \in alive
      => tasks \notin cancelled

\* Every call returns: StartAsync and AcquireAsync within their timeouts,
\* StopAsync once the tasks it cancelled have ended, although all of them
\* queue for one gate that is held across connecting and teardown.
CallsReturn ==
  \A a \in Callers :
    pc[a] \notin {"idle", "leased"} ~> pc[a] \in {"idle", "leased"}

=============================================================================
