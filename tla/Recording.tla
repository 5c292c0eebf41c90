----------------------------- MODULE Recording -----------------------------
(***************************************************************************)
(* The recording service (FfmpegRecordingService), its session rows and    *)
(* the MKV segments on disk: start, stop, the FFmpeg exit handler, and the *)
(* recovery at agent start-up, with FFmpeg exits, source losses, failing   *)
(* calls and crashes of the agent between any two steps.                   *)
(*                                                                         *)
(* An attempt is one run of StartRecordingAsync or RecoverAsync; its       *)
(* number names the media lease it acquires, the FFmpeg process and media  *)
(* pump it launches, and - for a start - the RecordingSession it creates.  *)
(* A step ends at an await.  SaveAsync is one step: Microsoft.Data.Sqlite  *)
(* runs its asynchronous methods synchronously.  One match, one recording  *)
(* directory (RecordingDirectory/<match>/<day>).                           *)
(***************************************************************************)
EXTENDS Naturals, FiniteSets

CONSTANTS
  Operators,    \* callers of the recording commands
  Startup,      \* the thread of Program.cs that recovers
  MaxAttempts,  \* bound on attempts in a behaviour
  MaxSegments,  \* bound on segment files: numbers 0..MaxSegments-1
  MaxCrashes,   \* bound on crashes of the agent
  FaultRegimes  \* sets of what may fail in a behaviour, each a subset of
                \* {"start", "save", "hang", "kill", "source"}

Attempts == 1..MaxAttempts
Numbers  == 0..(MaxSegments - 1)
Callers  == Operators \cup {Startup}
Actors   == Callers \cup Attempts    \* an attempt acts as its exit handler

ASSUME ConstantsAssumption ==
  /\ Startup \notin Operators
  /\ Callers \cap Attempts = {}
  /\ MaxAttempts \in Nat /\ MaxSegments \in Nat /\ MaxCrashes \in Nat
  /\ \A F \in FaultRegimes : F \subseteq {"start", "save", "hang", "kill", "source"}

VARIABLES
  state,     \* _state
  process,   \* _ffmpegProcess, as the attempt that launched it, or 0
  lease,     \* _mediaLease
  pump,      \* _mediaPumpTask
  current,   \* _currentSession
  agent,     \* "down", "booting" or "up"
  crashes,   \* crashes so far
  pc,        \* pc[a]: where actor a is
  mine,      \* mine[a]: the attempt a runs, or the process it stops
  subject,   \* subject[a]: the session a is about to save
  started,   \* attempts so far
  session,   \* session[g]: the session attempt g records for
  alive,     \* attempts whose FFmpeg process runs
  leases,    \* attempts whose media lease is not disposed
  pumping,   \* attempts whose media pump feeds FFmpeg
  mem,       \* mem[s]: State of the session object in memory, or "none"
  row,       \* row[s]: State in the RecordingSessions row, or "none"
  older,     \* older[s]: sessions whose rows have an earlier UpdatedAt
  next,      \* next[g]: number of the next segment g's FFmpeg opens
  file,      \* file[n]: the attempt that wrote segment n, or 0
  faults     \* what may fail in this behaviour

service == <<state, process, lease, pump, current>>
actors  == <<agent, crashes, pc, mine, subject>>
outside == <<started, session, alive, leases, pumping>>
store   == <<mem, row, older>>
disk    == <<next, file>>
vars    == <<service, actors, outside, store, disk, faults>>

RecordingState ==
  {"Idle", "Starting", "Recording", "Stopping", "Complete", "Recovering",
   "Error"}

\* Where an actor is: the await it is at.
Labels ==
  {"idle", "startSave", "acquire", "launch", "ready", "startedSave", "failing",
   "errorSave", "stopSave", "stopExit", "complete", "completeSave", "abort",
   "watching", "exited", "release", "stderr", "done", "recoverSave", "exitHost"}

Init ==
  /\ state = "Idle"
  /\ process = 0 /\ lease = 0 /\ pump = 0 /\ current = 0
  /\ agent = "up"
  /\ crashes = 0
  /\ pc = [a \in Actors |-> "idle"]
  /\ mine = [a \in Actors |-> 0]
  /\ subject = [a \in Actors |-> 0]
  /\ started = 0
  /\ session = [g \in Attempts |-> 0]
  /\ alive = {} /\ leases = {} /\ pumping = {}
  /\ mem = [s \in Attempts |-> "none"]
  /\ row = [s \in Attempts |-> "none"]
  /\ older = [s \in Attempts |-> {}]
  /\ next = [g \in Attempts |-> 0]
  /\ file = [n \in Numbers |-> 0]
  /\ faults \in FaultRegimes

Goto(a, label) == pc' = [pc EXCEPT ![a] = label]

\* _currentSession.State = st, and a SaveAsync of it comes next.
Mark(a, s, st) ==
  /\ mem' = [mem EXCEPT ![s] = st]
  /\ subject' = [subject EXCEPT ![a] = s]

\* SaveAsync(subject[a]) succeeds: the row gets the object's present state.
Saved(a) ==
  /\ row' = [row EXCEPT ![subject[a]] = mem[subject[a]]]
  /\ older' = [s \in Attempts |->
                 IF s = subject[a] THEN {t \in Attempts \ {s} : row[t] # "none"}
                                   ELSE older[s] \ {subject[a]}]

SaveThrows == "save" \in faults /\ UNCHANGED <<row, older>>

RecoverableStates == {"Starting", "Recording", "Recovering", "Error"}

\* GetActiveForMatchAsync finds s: the latest row in a recoverable state.
IsActiveSession(s) ==
  /\ row[s] \in RecoverableStates
  /\ \A t \in Attempts \ {s} : row[t] \in RecoverableStates => t \in older[s]

\* Mutant: recovery reopens the highest segment on disk.
IsLastSegmentNumber(n) ==
  /\ \A m \in Numbers : m > n => file[m] = 0
  /\ n > 0 => n \in Numbers /\ file[n] # 0

\* GetNextSegmentNumber returns n: one past the highest number on disk.
IsNextSegmentNumber(n) ==
  /\ \A m \in Numbers : m >= n => file[m] = 0
  /\ n > 0 => file[n - 1] # 0

\* StopMediaPumpAsync up to its await: whatever pump the field holds.
StopMediaPump ==
  /\ pump' = 0
  /\ pumping' = pumping \ {pump}

\* ReleaseMediaLeaseAsync: whatever lease the field holds.
ReleaseMediaLease ==
  /\ lease' = 0
  /\ leases' = leases \ {lease}

-----------------------------------------------------------------------------
(* StartRecordingAsync *)

\* Mutant: a start is not refused while Recording.
EnterStartUnrefused(c) ==
  /\ agent = "up"
  /\ pc[c] = "idle"
  /\ started < MaxAttempts
  /\ LET g == started + 1 IN
       /\ started' = g
       /\ session' = [session EXCEPT ![g] = g]
       /\ mine' = [mine EXCEPT ![c] = g]
       /\ current' = g
       /\ Mark(c, g, "Starting")
  /\ state' = "Starting"
  /\ Goto(c, "startSave")
  /\ UNCHANGED <<process, lease, pump, agent, crashes, alive, leases, pumping,
                 row, older, disk>>

EnterStart(c) ==
  /\ agent = "up"
  /\ pc[c] = "idle"
  /\ state # "Recording"
  /\ started < MaxAttempts
  /\ LET g == started + 1 IN
       /\ started' = g
       /\ session' = [session EXCEPT ![g] = g]
       /\ mine' = [mine EXCEPT ![c] = g]
       /\ current' = g
       /\ Mark(c, g, "Starting")
  /\ state' = "Starting"
  /\ Goto(c, "startSave")
  /\ UNCHANGED <<process, lease, pump, agent, crashes, alive, leases, pumping,
                 row, older, disk>>

\* The first save is outside the try: a failure leaves the service Starting.
StartSave(c) ==
  /\ pc[c] = "startSave"
  /\ \/ Saved(c) /\ Goto(c, "acquire")
     \/ SaveThrows /\ Goto(c, "idle")
  /\ UNCHANGED <<service, agent, crashes, mine, subject, outside, mem, disk>>

\* AcquireAsync(lossIntolerant), then the audio source is resolved.
AcquireLease(a) ==
  /\ pc[a] = "acquire"
  /\ lease' = mine[a]
  /\ leases' = leases \cup {mine[a]}
  /\ Goto(a, "launch")
  /\ UNCHANGED <<state, process, pump, current, agent, crashes, mine, subject,
                 started, session, alive, pumping, store, disk>>

\* Process started, handler attached, pump started on the lease in the field.
Launch(a) ==
  /\ pc[a] = "launch"
  /\ lease # 0
  /\ LET g == mine[a] IN
       /\ process' = g
       /\ alive' = alive \cup {g}
       /\ pump' = g
       /\ pumping' = pumping \cup {g}
       /\ pc' = [pc EXCEPT ![a] = "ready", ![g] = "watching"]
  /\ UNCHANGED <<state, lease, current, agent, crashes, mine, subject, started,
                 session, leases, store, disk>>

\* The session a recovery works on is its own; a start uses the field.
SessionOf(a) == IF a = Startup THEN session[mine[a]] ELSE current

\* The process may have exited since; its handler saw Starting and returned.
BecomeRecording(a) ==
  /\ pc[a] = "ready"
  /\ state' = "Recording"
  /\ Mark(a, SessionOf(a), "Recording")
  /\ Goto(a, "startedSave")
  /\ UNCHANGED <<process, lease, pump, current, agent, crashes, mine, outside,
                 row, older, disk>>

\* RecoverAsync's return ends the start-up phase of Program.cs.
StartedSave(a) ==
  /\ pc[a] = "startedSave"
  /\ Saved(a)
  /\ Goto(a, "idle")
  /\ agent' = "up"
  /\ UNCHANGED <<service, crashes, mine, subject, outside, mem, disk>>

\* The try block throws; the catch begins by stopping the pump in the field.
\* A failure after the launch - the save, or a lease somebody else released -
\* leaves the process running.
AttemptFails(a) ==
  /\ \/ /\ pc[a] \in {"acquire", "launch"}
        /\ "start" \in faults
        /\ Goto(a, "failing")
        /\ UNCHANGED <<process, alive>>
     \/ /\ pc[a] \in {"startedSave", "recoverSave"}
        /\ "save" \in faults
        /\ Goto(a, "failing")
        /\ UNCHANGED <<process, alive>>
     \/ /\ pc[a] = "launch"
        /\ lease = 0
        /\ process' = mine[a]
        /\ alive' = alive \cup {mine[a]}
        /\ pc' = [pc EXCEPT ![a] = "failing", ![mine[a]] = "watching"]
  /\ StopMediaPump
  /\ UNCHANGED <<state, lease, current, agent, crashes, mine, subject, started,
                 session, leases, store, disk>>

\* The rest of the catch, up to its save.
AttemptError(a) ==
  /\ pc[a] = "failing"
  /\ ReleaseMediaLease
  /\ state' = "Error"
  /\ Mark(a, SessionOf(a), "Error")
  /\ Goto(a, "errorSave")
  /\ UNCHANGED <<process, pump, current, agent, crashes, mine, started,
                 session, alive, pumping, row, older, disk>>

\* The exception is rethrown after the save; thrown out of RecoverAsync it
\* ends the agent (ExitHost).  The exit handler swallows a failing save.
ErrorSave(a) ==
  /\ pc[a] = "errorSave"
  /\ Saved(a) \/ SaveThrows
  /\ Goto(a, IF a \in Attempts THEN "done"
             ELSE IF a = Startup THEN "exitHost" ELSE "idle")
  /\ UNCHANGED <<service, agent, crashes, mine, subject, outside, mem, disk>>

-----------------------------------------------------------------------------
(* StopRecordingAsync *)

EnterStop(c) ==
  /\ agent = "up"
  /\ pc[c] = "idle"
  /\ process # 0
  /\ state = "Recording"
  /\ state' = "Stopping"
  /\ Mark(c, current, "Stopping")
  /\ Goto(c, "stopSave")
  /\ UNCHANGED <<process, lease, pump, current, agent, crashes, mine, outside,
                 row, older, disk>>

\* A failing save leaves the service Stopping; else the process is read and
\* the pump is stopped.  There is no process if another caller's stop took it.
StopSave(c) ==
  /\ pc[c] = "stopSave"
  /\ \/ /\ Saved(c)
        /\ StopMediaPump
        /\ Goto(c, IF process = 0 THEN "abort" ELSE "stopExit")
     \/ SaveThrows /\ Goto(c, "idle") /\ UNCHANGED <<pump, pumping>>
  /\ mine' = [mine EXCEPT ![c] = process]
  /\ UNCHANGED <<state, process, lease, current, agent, crashes, subject,
                 started, session, alive, leases, mem, disk>>

\* Mutant: a stop does not wait for the exit it asked for.
StopExitUnconfirmed(c) ==
  /\ pc[c] = "stopExit"
  /\ Goto(c, "complete")
  /\ UNCHANGED <<service, agent, crashes, mine, subject, outside, store, disk>>

\* CTRL_BREAK, five seconds, then a kill.  Waiting for the exit raises Exited
\* on this thread: the handler sees the state and returns.
StopExit(c) ==
  /\ pc[c] = "stopExit"
  /\ \E label \in {"complete", "abort"} :
       /\ \/ alive' = alive \ {mine[c]} /\ pumping' = pumping \ {mine[c]}
          \/ label = "abort" /\ "kill" \in faults /\ UNCHANGED <<alive, pumping>>
       /\ label = "abort" => "hang" \in faults /\ mine[c] \in alive
       /\ pc' = [pc EXCEPT ![c] = label,
                   ![mine[c]] = IF mine[c] \notin alive' /\ state # "Recording"
                                     /\ pc[mine[c]] \in {"watching", "exited"}
                                  THEN "done" ELSE @]
  /\ UNCHANGED <<service, agent, crashes, mine, subject, started, session,
                 leases, store, disk>>

\* FFmpeg's termination is confirmed.
StopComplete(c) ==
  /\ pc[c] = "complete"
  /\ ReleaseMediaLease
  /\ process' = 0
  /\ state' = "Complete"
  /\ Mark(c, current, "Complete")
  /\ Goto(c, "completeSave")
  /\ UNCHANGED <<pump, current, agent, crashes, mine, started, session, alive,
                 pumping, row, older, disk>>

\* A failing save throws again in the catch, on the disposed process.
CompleteSave(c) ==
  /\ pc[c] = "completeSave"
  /\ Saved(c) \/ SaveThrows
  /\ Goto(c, "idle")
  /\ UNCHANGED <<service, agent, crashes, mine, subject, outside, mem, disk>>

\* Mutant: only a clean stop returns the lease.
StopAbortKeepsLease(c) ==
  /\ pc[c] = "abort"
  /\ process' = IF mine[c] \in alive THEN process ELSE 0
  /\ state' = "Error"
  /\ Mark(c, current, "Error")
  /\ Goto(c, "errorSave")
  /\ UNCHANGED <<lease, leases, pump, current, agent, crashes, mine, started,
                 session, alive, pumping, row, older, disk>>

\* FFmpeg had to be killed, or could not be.  Without a process the catch
\* throws as soon as it asks whether it exited.
StopAbort(c) ==
  /\ pc[c] = "abort"
  /\ ReleaseMediaLease
  /\ IF mine[c] = 0
       THEN Goto(c, "idle") /\ UNCHANGED <<state, process, mem, subject>>
       ELSE /\ process' = IF mine[c] \in alive THEN process ELSE 0
            /\ state' = "Error"
            /\ Mark(c, current, "Error")
            /\ Goto(c, "errorSave")
  /\ UNCHANGED <<pump, current, agent, crashes, mine, started, session, alive,
                 pumping, row, older, disk>>

-----------------------------------------------------------------------------
(* HandleFfmpegExitedAsync of attempt g's process.  It acts on the fields,  *)
(* not on the process that exited.                                          *)

SeeExit(g) ==
  /\ pc[g] = "exited"
  /\ IF state = "Recording"
       THEN StopMediaPump /\ Goto(g, "release")
       ELSE Goto(g, "done") /\ UNCHANGED <<pump, pumping>>
  /\ UNCHANGED <<state, process, lease, current, agent, crashes, mine, subject,
                 started, session, alive, leases, store, disk>>

ReleaseAfterExit(g) ==
  /\ pc[g] = "release"
  /\ ReleaseMediaLease
  /\ mine' = [mine EXCEPT ![g] = process]
  /\ Goto(g, "stderr")
  /\ UNCHANGED <<state, process, pump, current, agent, crashes, subject,
                 started, session, alive, pumping, store, disk>>

\* Mutant: the exit is not recorded in the session.
ReportExitUnmarked(g) ==
  /\ pc[g] = "stderr"
  /\ mine[g] \notin alive
  /\ state' = "Error"
  /\ subject' = [subject EXCEPT ![g] = current]
  /\ Goto(g, "errorSave")
  /\ UNCHANGED <<process, lease, pump, current, agent, crashes, mine, outside,
                 store, disk>>

\* Standard error is read to its end, so this waits for the process read.
ReportExit(g) ==
  /\ pc[g] = "stderr"
  /\ mine[g] \notin alive
  /\ state' = "Error"
  /\ Mark(g, current, "Error")
  /\ Goto(g, "errorSave")
  /\ UNCHANGED <<process, lease, pump, current, agent, crashes, mine, outside,
                 row, older, disk>>

-----------------------------------------------------------------------------
(* The agent's process, FFmpeg and the media source. *)

\* Everything in memory is lost; an FFmpeg of its own process group lives on
\* without input, and nobody watches it.
AgentGone ==
  /\ agent' = "down"
  /\ state' = "Idle"
  /\ process' = 0 /\ lease' = 0 /\ pump' = 0 /\ current' = 0
  /\ leases' = {} /\ pumping' = {}
  /\ pc' = [a \in Actors |->
              IF a \in Callers \/ pc[a] = "idle" THEN "idle" ELSE "done"]
  /\ mem' = [s \in Attempts |-> "none"]
  /\ mine' = [a \in Actors |-> 0]
  /\ subject' = [a \in Actors |-> 0]
  /\ UNCHANGED <<started, session, alive, row, older, disk>>

Crash ==
  /\ agent # "down"
  /\ crashes < MaxCrashes
  /\ crashes' = crashes + 1
  /\ AgentGone

\* Program.cs rethrows a failed recovery.
ExitHost ==
  /\ pc[Startup] = "exitHost"
  /\ AgentGone
  /\ UNCHANGED crashes

\* Start-up with no live match, or none with a recoverable session.
BootWithoutRecovery ==
  /\ agent = "down"
  /\ agent' = "up"
  /\ UNCHANGED <<service, crashes, pc, mine, subject, outside, store, disk>>

\* Start-up for a live match: RecoverAsync on the session found for it.
EnterRecover ==
  /\ agent = "down"
  /\ started < MaxAttempts
  /\ \E s \in Attempts :
       /\ IsActiveSession(s)
       /\ LET g == started + 1 IN
            /\ started' = g
            /\ session' = [session EXCEPT ![g] = s]
            /\ mine' = [mine EXCEPT ![Startup] = g]
       /\ current' = s
       /\ Mark(Startup, s, "Recovering")
  /\ agent' = "booting"
  /\ state' = "Recovering"
  /\ Goto(Startup, "recoverSave")
  /\ UNCHANGED <<process, lease, pump, crashes, alive, leases, pumping, row,
                 older, disk>>

\* Mutant: the first number is the one after the next.
RecoverSaveSkips ==
  /\ pc[Startup] = "recoverSave"
  /\ Saved(Startup)
  /\ \E n \in 0..MaxSegments :
       /\ IsNextSegmentNumber(n)
       /\ next' = [next EXCEPT ![mine[Startup]] = n + 1]
  /\ Goto(Startup, "acquire")
  /\ UNCHANGED <<service, agent, crashes, mine, subject, outside, mem, file>>

\* The first segment number is computed before the source is acquired.
RecoverSave ==
  /\ pc[Startup] = "recoverSave"
  /\ Saved(Startup)
  /\ \E n \in 0..MaxSegments :
       /\ IsNextSegmentNumber(n)
       /\ next' = [next EXCEPT ![mine[Startup]] = n]
  /\ Goto(Startup, "acquire")
  /\ UNCHANGED <<service, agent, crashes, mine, subject, outside, mem, file>>

\* FFmpeg exits by itself.
ProcessExits(g) ==
  /\ g \in alive
  /\ alive' = alive \ {g}
  /\ pumping' = pumping \ {g}
  /\ pc' = [pc EXCEPT ![g] = IF @ = "watching" THEN "exited" ELSE @]
  /\ UNCHANGED <<service, agent, crashes, mine, subject, started, session,
                 leases, store, disk>>

\* The lease's stream ends: the pump closes FFmpeg's input and returns.
SourceEnds(g) ==
  /\ "source" \in faults
  /\ g \in pumping
  /\ pumping' = pumping \ {g}
  /\ UNCHANGED <<service, actors, started, session, alive, leases, store, disk>>

\* The segment muxer opens its next file, replacing one of that name.
OpenSegment(g) ==
  /\ g \in alive \cap pumping
  /\ next[g] \in Numbers
  /\ file' = [file EXCEPT ![next[g]] = g]
  /\ next' = [next EXCEPT ![g] = @ + 1]
  /\ UNCHANGED <<service, actors, outside, store>>

-----------------------------------------------------------------------------
AttemptStep(a) ==
  \/ AcquireLease(a) \/ Launch(a) \/ BecomeRecording(a) \/ StartedSave(a)
  \/ AttemptFails(a) \/ AttemptError(a) \/ ErrorSave(a)

OperatorStep(c) ==
  \/ EnterStart(c) \/ StartSave(c) \/ AttemptStep(c)
  \/ EnterStop(c) \/ StopSave(c) \/ StopExit(c) \/ StopComplete(c)
  \/ CompleteSave(c) \/ StopAbort(c)

StartupStep ==
  BootWithoutRecovery \/ EnterRecover \/ RecoverSave \/ AttemptStep(Startup)
    \/ ExitHost

HandlerStep(g) == SeeExit(g) \/ ReleaseAfterExit(g) \/ ReportExit(g) \/ ErrorSave(g)

FfmpegStep(g) == ProcessExits(g) \/ SourceEnds(g) \/ OpenSegment(g)

Next ==
  /\ \/ \E c \in Operators : OperatorStep(c)
     \/ StartupStep
     \/ \E g \in Attempts : HandlerStep(g) \/ FfmpegStep(g)
     \/ Crash
  /\ UNCHANGED faults

Spec == Init /\ [][Next]_vars

-----------------------------------------------------------------------------
(* Properties *)

TypeOK ==
  /\ state \in RecordingState
  /\ process \in 0..MaxAttempts
  /\ lease \in 0..MaxAttempts
  /\ pump \in 0..MaxAttempts
  /\ current \in 0..MaxAttempts
  /\ agent \in {"down", "booting", "up"}
  /\ crashes \in 0..MaxCrashes
  /\ pc \in [Actors -> Labels]
  /\ mine \in [Actors -> 0..MaxAttempts]
  /\ subject \in [Actors -> 0..MaxAttempts]
  /\ started \in 0..MaxAttempts
  /\ session \in [Attempts -> 0..MaxAttempts]
  /\ alive \subseteq Attempts
  /\ leases \subseteq Attempts
  /\ pumping \subseteq Attempts
  /\ mem \in [Attempts -> RecordingState \cup {"none"}]
  /\ row \in [Attempts -> RecordingState \cup {"none"}]
  /\ older \in [Attempts -> SUBSET Attempts]
  /\ next \in [Attempts -> 0..MaxSegments]
  /\ file \in [Numbers -> 0..MaxAttempts]
  /\ faults \in FaultRegimes

\* No command, recovery or exit handler is under way.
Settled ==
  /\ agent = "up"
  /\ \A c \in Callers : pc[c] = "idle"
  /\ \A g \in Attempts : pc[g] \in {"idle", "watching", "done"}

\* Where a property speaks of one recording after another: the exit handler
\* of one is done before another attempt begins.  (Past its check it cancels a
\* copy and releases a lease: milliseconds; the next start has a camera to ask
\* and an operator to wait for.  Nothing in the code enforces it, and the
\* handler acts on whatever the fields hold.)
HandlersArePrompt ==
  \A g \in Attempts :
    pc[g] \in {"release", "stderr", "errorSave"} => started = g

\* Every save succeeds and every kill kills.
Dependable == faults \cap {"save", "kill"} = {}

\* At most one FFmpeg of this agent records (two write the same files).
\* Holds with one operator and no failing save or kill, fails with two
\* operators: a start is refused only while Recording.
OneRecorder == Dependable => Cardinality({g \in alive : pc[g] # "done"}) <= 1

\* When a recording is over - stopped, failed or crashed - its media lease is
\* returned and its pump has ended, whoever's turn it was to do so.
NothingHeldWhenOver ==
  Dependable /\ Settled /\ state \in {"Idle", "Complete", "Error"}
    => leases = {} /\ pumping = {}

\* The row a restart would read says what the service says, although the
\* start, the stop and the exit handler each save it, in any order.
PersistedStateAgrees == Dependable /\ Settled /\ current # 0 => row[current] = state

\* A session is saved as Complete only when the FFmpeg that recorded it has
\* ended: a stop that killed it, or could not, or whose saves failed, never
\* says so.  (After a crash an FFmpeg nobody watches may outlive its session.)
CompleteMeansStopped ==
  crashes = 0 => \A g \in Attempts : session[g] # 0 /\ row[session[g]] = "Complete" => g \notin alive

\* A recovered recording never replaces a segment file that was on disk.
RecoveryKeepsSegments ==
  [][\A n \in Numbers : \A g \in Attempts :
       file[n] # 0 /\ file'[n] = g /\ file[n] # g => session[g] = g]_vars

\* No segment file is ever replaced by another recording's.
SegmentsAreKept ==
  [][\A n \in Numbers : file[n] # 0 => file'[n] = file[n]]_vars

=============================================================================
