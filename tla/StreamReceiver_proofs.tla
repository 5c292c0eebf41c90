----------------------- MODULE StreamReceiver_proofs ------------------------
(***************************************************************************)
(* Theorems about StreamReceiver, for every set of callers and any number  *)
(* of launches.                                                            *)
(***************************************************************************)
EXTENDS StreamReceiver, FiniteSetTheorems, TLAPS

USE ConstantsAssumption DEF Callers, Launches

(* TypeOK, preserved by every step: the receiver's variables keep their    *)
(* types whatever the callers, exits and teardowns do.                     *)
LEMMA TypeStep == TypeOK /\ [Next]_vars => TypeOK'
<1> SUFFICES ASSUME TypeOK, [Next]_vars PROVE TypeOK'
  OBVIOUS
<1> USE DEF TypeOK, StreamReceiverState, Goto
<1> USE DEF callerVars, launchVars, sourceVars, mediaVars
<1>1. ASSUME NEW c \in Consumers, ConsumerStep(c) PROVE TypeOK'
  <2>1. CASE Acquire(c) BY <2>1 DEF Acquire
  <2>2. CASE EnterStart(c) BY <2>2 DEF EnterStart
  <2>3. CASE Launch(c) BY <2>3 DEF Launch
  <2>4. CASE Establish(c) BY <2>4 DEF Establish
  <2>5. CASE StartFails(c) BY <2>5 DEF StartFails, StartCoreThrows, NoProcess
  <2>6. CASE RegisterPrimed(c) BY <2>6 DEF RegisterPrimed
  <2>7. CASE RegisterLive(c) BY <2>7 DEF RegisterLive
  <2>8. CASE BecomeLive(c) BY <2>8 DEF BecomeLive
  <2>9. CASE JoinTimeout(c) BY <2>9 DEF JoinTimeout
  <2>10. CASE Abort(c) BY <2>10 DEF Abort, TokenOf
  <2>11. CASE Detach(c) BY <2>11 DEF Detach, TokenOf
  <2>12. CASE EndTeardown(c) BY <2>12 DEF EndTeardown
  <2> QED
    BY <1>1, <2>1, <2>2, <2>3, <2>4, <2>5, <2>6, <2>7, <2>8, <2>9, <2>10,
       <2>11, <2>12 DEF ConsumerStep
<1>2. ASSUME NEW s \in Supervisors, SupervisorStep(s) PROVE TypeOK'
  <2>1. CASE RequestRecovery(s) BY <2>1 DEF RequestRecovery
  <2>2. CASE EnterRecover(s) BY <2>2 DEF EnterRecover
  <2>3. CASE Launch(s) BY <2>3 DEF Launch
  <2>4. CASE Establish(s) BY <2>4 DEF Establish
  <2>5. CASE RecoveryAttemptFails(s)
    BY <2>5 DEF RecoveryAttemptFails, StartCoreThrows, NoProcess
  <2>6. CASE RecoveryCancelled(s) BY <2>6 DEF RecoveryCancelled, TokenOf
  <2>7. CASE EndTeardown(s) BY <2>7 DEF EndTeardown
  <2> QED
    BY <1>2, <2>1, <2>2, <2>3, <2>4, <2>5, <2>6, <2>7 DEF SupervisorStep
<1>3. CASE HostStep
  <2>1. CASE RequestStop BY <2>1 DEF RequestStop
  <2>2. CASE EnterStop BY <2>2 DEF EnterStop
  <2>3. CASE EndTeardown(Host) BY <2>3 DEF EndTeardown
  <2> QED BY <1>3, <2>1, <2>2, <2>3 DEF HostStep
<1>4. CASE TeardownStep
  <2>1. CASE Kill BY <2>1 DEF Kill
  <2>2. CASE Join BY <2>2 DEF Join
  <2>3. CASE ResetBootstrap BY <2>3 DEF ResetBootstrap
  <2> QED BY <1>4, <2>1, <2>2, <2>3 DEF TeardownStep
<1>5. ASSUME NEW g \in Launches, LaunchStep(g) PROVE TypeOK'
  <2>1. CASE Chunk(g) BY <2>1 DEF Chunk
  <2>2. CASE PumpEnds(g) BY <2>2 DEF PumpEnds
  <2>3. CASE ProcessExits(g) BY <2>3 DEF ProcessExits
  <2>4. CASE ObserveExit(g) BY <2>4 DEF ObserveExit
  <2>5. CASE Interrupt(g) BY <2>5 DEF Interrupt
  <2>6. CASE CompleteInterrupted(g) BY <2>6 DEF CompleteInterrupted
  <2> QED BY <1>5, <2>1, <2>2, <2>3, <2>4, <2>5, <2>6 DEF LaunchStep
<1>6. CASE UNCHANGED vars
  BY <1>6 DEF vars
<1> QED
  BY <1>1, <1>2, <1>3, <1>4, <1>5, <1>6 DEF Next

(* The initial state is well typed. *)
LEMMA TypeInit == Init => TypeOK
<1> SUFFICES ASSUME Init PROVE TypeOK
  OBVIOUS
<1>1. 0 \in 0..MaxLaunches /\ 0 \in 0..MaxRecoveryAttempts
  OBVIOUS
<1>2. bootstrap \in BOOLEAN
  BY Zenon DEF Init
<1> QED
  BY <1>1, <1>2 DEF Init, TypeOK, StreamReceiverState

(* Type correctness of the receiver. *)
THEOREM TypeCorrect == Spec => []TypeOK
  BY TypeInit, TypeStep, PTL DEF Spec

-----------------------------------------------------------------------------
(* Mutual exclusion of sources.  Without RecoverAsync, the only process     *)
(* that can be alive is the one the receiver remembers: whoever launches    *)
(* holds the gate and comes from a state in which the previous process is   *)
(* known to be dead.                                                        *)

Unobserved(g) == observer[g] \in {"waiting", "exited"}

\* The source is known dead and nobody will report its death any more.
Quiet == alive = {} /\ \A g \in Launches : ~Unobserved(g)

\* A caller inside the gate is the gate's holder, and only the holder of a
\* teardown or of a stop is inside one.
GateInv ==
  /\ \A a \in Callers :
       pc[a] \in {"connecting", "awaiting", "startFailed", "stopping",
                  "recovering"} => gate = a
  /\ \A a \in Callers : pc[a] \in {"connecting", "awaiting"} => teardown = "none"
  /\ \A a \in Callers : pc[a] \notin {"recovering", "wantRecover"}
  /\ state # "Recovering"
  /\ state = "Stopping" => gate = Host /\ pc[Host] = "stopping"
  /\ teardown # "none" => gate # NoOne /\ pc[gate] \in {"startFailed", "stopping"}

SourceInv ==
  /\ alive \subseteq {process}
  /\ process # 0 => process = tasks
  /\ \A g \in Launches : Unobserved(g) => g = tasks
  /\ \A g \in Launches : observer[g] \in {"exited", "completing"} => g \notin alive
  /\ teardown \in {"join", "reset", "complete"} => process = 0
  /\ teardown \in {"reset", "complete"} => tasks = 0
  /\ state \in {"Idle", "Error", "Interrupted"} => Quiet
  /\ \A a \in Callers : pc[a] = "connecting" => state = "Starting" /\ Quiet

ReceiverInv == TypeOK /\ GateInv /\ SourceInv


LEMMA InvStep ==
  ASSUME Supervisors = {}, ReceiverInv, [Next]_vars
  PROVE  GateInv' /\ SourceInv'
<1> USE DEF ReceiverInv, TypeOK, StreamReceiverState, Goto, GateInv, SourceInv,
            Quiet, Unobserved
<1> USE DEF callerVars, launchVars, sourceVars, mediaVars
<1>1. ASSUME NEW c \in Consumers, ConsumerStep(c) PROVE GateInv' /\ SourceInv'
  <2>1. CASE Acquire(c)
    <3>1. GateInv' BY <2>1 DEF Acquire
    <3>2. SourceInv' BY <2>1 DEF Acquire
    <3> QED BY <3>1, <3>2
  <2>2. CASE EnterStart(c)
    <3>1. GateInv' BY <2>2 DEF EnterStart
    <3>2. SourceInv' BY <2>2 DEF EnterStart
    <3> QED BY <3>1, <3>2
  <2>3. CASE Launch(c)
    <3>1. GateInv' BY <2>3 DEF Launch
    <3>2. SourceInv' BY <2>3 DEF Launch
    <3> QED BY <3>1, <3>2
  <2>4. CASE Establish(c)
    <3>1. GateInv' BY <2>4 DEF Establish
    <3>2. SourceInv' BY <2>4 DEF Establish
    <3> QED BY <3>1, <3>2
  <2>5. CASE StartFails(c)
    <3>1. GateInv' BY <2>5 DEF StartFails, StartCoreThrows, NoProcess
    <3>2. SourceInv' BY <2>5 DEF StartFails, StartCoreThrows, NoProcess
    <3> QED BY <3>1, <3>2
  <2>6. CASE RegisterPrimed(c)
    <3>1. GateInv' BY <2>6 DEF RegisterPrimed
    <3>2. SourceInv' BY <2>6 DEF RegisterPrimed
    <3> QED BY <3>1, <3>2
  <2>7. CASE RegisterLive(c)
    <3>1. GateInv' BY <2>7 DEF RegisterLive
    <3>2. SourceInv' BY <2>7 DEF RegisterLive
    <3> QED BY <3>1, <3>2
  <2>8. CASE BecomeLive(c)
    <3>1. GateInv' BY <2>8 DEF BecomeLive
    <3>2. SourceInv' BY <2>8 DEF BecomeLive
    <3> QED BY <3>1, <3>2
  <2>9. CASE JoinTimeout(c)
    <3>1. GateInv' BY <2>9 DEF JoinTimeout
    <3>2. SourceInv' BY <2>9 DEF JoinTimeout
    <3> QED BY <3>1, <3>2
  <2>10. CASE Abort(c)
    <3>1. GateInv' BY <2>10 DEF Abort
    <3>2. SourceInv' BY <2>10 DEF Abort
    <3> QED BY <3>1, <3>2
  <2>11. CASE Detach(c)
    <3>1. GateInv' BY <2>11 DEF Detach
    <3>2. SourceInv' BY <2>11 DEF Detach
    <3> QED BY <3>1, <3>2
  <2>12. CASE EndTeardown(c)
    <3>1. GateInv' BY <2>12 DEF EndTeardown
    <3>2. SourceInv' BY <2>12 DEF EndTeardown
    <3> QED BY <3>1, <3>2
  <2> QED
    BY <1>1, <2>1, <2>2, <2>3, <2>4, <2>5, <2>6, <2>7, <2>8, <2>9, <2>10,
       <2>11, <2>12 DEF ConsumerStep
<1>2. CASE HostStep
  <2>1. CASE RequestStop
    <3>1. GateInv' BY <2>1 DEF RequestStop
    <3>2. SourceInv' BY <2>1 DEF RequestStop
    <3> QED BY <3>1, <3>2
  <2>2. CASE EnterStop
    <3>1. GateInv' BY <2>2 DEF EnterStop
    <3>2. SourceInv' BY <2>2 DEF EnterStop
    <3> QED BY <3>1, <3>2
  <2>3. CASE EndTeardown(Host)
    <3>1. GateInv' BY <2>3 DEF EndTeardown
    <3>2. SourceInv' BY <2>3 DEF EndTeardown
    <3> QED BY <3>1, <3>2
  <2> QED
    BY <1>2, <2>1, <2>2, <2>3 DEF HostStep
<1>3. CASE TeardownStep
  <2>1. CASE Kill
    <3>1. GateInv' BY <2>1 DEF Kill
    <3>2. SourceInv' BY <2>1 DEF Kill
    <3> QED BY <3>1, <3>2
  <2>2. CASE Join
    <3>1. GateInv' BY <2>2 DEF Join, TasksEnded
    <3>2. SourceInv' BY <2>2 DEF Join, TasksEnded
    <3> QED BY <3>1, <3>2
  <2>3. CASE ResetBootstrap
    <3>1. GateInv' BY <2>3 DEF ResetBootstrap
    <3>2. SourceInv' BY <2>3 DEF ResetBootstrap
    <3> QED BY <3>1, <3>2
  <2> QED
    BY <1>3, <2>1, <2>2, <2>3 DEF TeardownStep
<1>4. ASSUME NEW g \in Launches, LaunchStep(g) PROVE GateInv' /\ SourceInv'
  <2>1. CASE Chunk(g)
    <3>1. GateInv' BY <2>1 DEF Chunk
    <3>2. SourceInv' BY <2>1 DEF Chunk
    <3> QED BY <3>1, <3>2
  <2>2. CASE PumpEnds(g)
    <3>1. GateInv' BY <2>2 DEF PumpEnds
    <3>2. SourceInv' BY <2>2 DEF PumpEnds
    <3> QED BY <3>1, <3>2
  <2>3. CASE ProcessExits(g)
    <3>1. GateInv' BY <2>3 DEF ProcessExits
    <3>2. SourceInv' BY <2>3 DEF ProcessExits
    <3> QED BY <3>1, <3>2
  <2>4. CASE ObserveExit(g)
    <3>1. GateInv' BY <2>4 DEF ObserveExit
    <3>2. SourceInv' BY <2>4 DEF ObserveExit
    <3> QED BY <3>1, <3>2
  <2>5. CASE Interrupt(g)
    <3>1. GateInv' BY <2>5 DEF Interrupt
    <3>2. SourceInv' BY <2>5 DEF Interrupt
    <3> QED BY <3>1, <3>2
  <2>6. CASE CompleteInterrupted(g)
    <3>1. GateInv' BY <2>6 DEF CompleteInterrupted
    <3>2. SourceInv' BY <2>6 DEF CompleteInterrupted
    <3> QED BY <3>1, <3>2
  <2> QED
    BY <1>4, <2>1, <2>2, <2>3, <2>4, <2>5, <2>6 DEF LaunchStep
<1>5. CASE UNCHANGED vars
  BY <1>5 DEF vars
<1> QED
  BY <1>1, <1>2, <1>3, <1>4, <1>5 DEF Next

THEOREM InvCorrect == ASSUME Supervisors = {} PROVE Spec => []ReceiverInv
<1>1. Init => ReceiverInv
  BY TypeInit DEF Init, ReceiverInv, GateInv, SourceInv, Quiet, Unobserved
<1>2. ReceiverInv /\ [Next]_vars => ReceiverInv'
  BY TypeStep, InvStep DEF ReceiverInv
<1> QED
  BY <1>1, <1>2, PTL DEF Spec

(* At most one FFmpeg process reads the camera, for any number of consumers *)
(* acquiring, aborting and detaching, whatever exits and stops interleave.  *)
THEOREM OneSource == ASSUME Supervisors = {} PROVE Spec => []AtMostOneSource
<1>1. ReceiverInv => AtMostOneSource
  <2> SUFFICES ASSUME ReceiverInv PROVE Cardinality(alive) <= 1
    BY DEF AtMostOneSource
  <2>1. alive = {} \/ alive = {process}
    BY DEF ReceiverInv, SourceInv
  <2>2. Cardinality({}) = 0
    BY FS_EmptySet
  <2>3. Cardinality({process}) = 1
    BY FS_Singleton
  <2> QED
    BY <2>1, <2>2, <2>3
<1> QED
  BY <1>1, InvCorrect, PTL

(* StopAsync leaves no FFmpeg process behind. *)
THEOREM StopIsClean == ASSUME Supervisors = {} PROVE Spec => []StopLeavesNoSource
<1>1. ReceiverInv => StopLeavesNoSource
  BY DEF ReceiverInv, SourceInv, Quiet, StopLeavesNoSource
<1> QED
  BY <1>1, InvCorrect, PTL

-----------------------------------------------------------------------------
(* Leases.  A stop ends them all: nothing feeds the bootstrap once its task *)
(* has ended, and what nobody feeds hands out no lease.                     *)

\* Whoever is inside the gate holds it, and the receiver is not idle.
Inside == {"connecting", "awaiting", "startFailed", "stopping", "recovering"}

InsideInv ==
  /\ \A a \in Callers : pc[a] \in Inside => gate = a /\ state # "Idle"
  /\ \A a \in Callers : pc[a] \in {"connecting", "awaiting"} => teardown = "none"
  /\ teardown # "none" => gate # NoOne

\* Only the remembered launch feeds, none does after the join, and after the
\* reset there is no bootstrap.
FeedInv ==
  /\ tasks <= launched
  /\ pumping \subseteq {tasks}
  /\ teardown \in {"reset", "complete"} => pumping = {}
  /\ teardown = "complete" => ~bootstrap

\* An idle receiver has no bootstrap to prime with and nobody to join.
IdleInv ==
  state = "Idle" =>
    /\ pumping = {} /\ ~bootstrap
    /\ \A c \in registered :
         pc[c] # "leased" /\ (pc[c] = "waitLive" => c \notin ready)

LeaseInv == TypeOK /\ InsideInv /\ FeedInv /\ IdleInv

\* Every step keeps the three, if it leaves earlier launches drained.
LEMMA LeaseStep ==
  ASSUME LeaseInv, [Next]_vars, EarlierLaunchesDrained'
  PROVE  InsideInv' /\ FeedInv' /\ IdleInv'
<1> USE DEF LeaseInv, TypeOK, Goto, InsideInv, Inside, FeedInv, IdleInv
<1> USE DEF callerVars, launchVars, sourceVars, mediaVars
<1>1. ASSUME NEW c \in Consumers, ConsumerStep(c)
      PROVE  InsideInv' /\ FeedInv' /\ IdleInv'
  <2>1. CASE Acquire(c) BY <2>1 DEF Acquire
  <2>2. CASE EnterStart(c) BY <2>2 DEF EnterStart
  <2>3. CASE Launch(c)
    BY <2>3 DEF Launch, EarlierLaunchesDrained
  <2>4. CASE Establish(c) BY <2>4 DEF Establish
  <2>5. CASE StartFails(c) BY <2>5 DEF StartFails, StartCoreThrows, NoProcess
  <2>6. CASE RegisterPrimed(c) BY <2>6 DEF RegisterPrimed
  <2>7. CASE RegisterLive(c) BY <2>7 DEF RegisterLive
  <2>8. CASE BecomeLive(c) BY <2>8 DEF BecomeLive
  <2>9. CASE JoinTimeout(c) BY <2>9 DEF JoinTimeout
  <2>10. CASE Abort(c) BY <2>10 DEF Abort
  <2>11. CASE Detach(c) BY <2>11 DEF Detach
  <2>12. CASE EndTeardown(c) BY <2>12 DEF EndTeardown
  <2> QED
    BY <1>1, <2>1, <2>2, <2>3, <2>4, <2>5, <2>6, <2>7, <2>8, <2>9, <2>10,
       <2>11, <2>12 DEF ConsumerStep
<1>2. ASSUME NEW s \in Supervisors, SupervisorStep(s)
      PROVE  InsideInv' /\ FeedInv' /\ IdleInv'
  <2>1. CASE RequestRecovery(s) BY <2>1 DEF RequestRecovery
  <2>2. CASE EnterRecover(s) BY <2>2 DEF EnterRecover
  <2>3. CASE Launch(s)
    BY <2>3 DEF Launch, EarlierLaunchesDrained
  <2>4. CASE Establish(s) BY <2>4 DEF Establish
  <2>5. CASE RecoveryAttemptFails(s)
    BY <2>5 DEF RecoveryAttemptFails, StartCoreThrows, NoProcess
  <2>6. CASE RecoveryCancelled(s) BY <2>6 DEF RecoveryCancelled
  <2>7. CASE EndTeardown(s) BY <2>7 DEF EndTeardown
  <2> QED
    BY <1>2, <2>1, <2>2, <2>3, <2>4, <2>5, <2>6, <2>7 DEF SupervisorStep
<1>3. ASSUME HostStep
      PROVE  InsideInv' /\ FeedInv' /\ IdleInv'
  <2>1. CASE RequestStop BY <2>1 DEF RequestStop
  <2>2. CASE EnterStop BY <2>2 DEF EnterStop
  <2>3. CASE EndTeardown(Host) BY <2>3 DEF EndTeardown
  <2> QED BY <1>3, <2>1, <2>2, <2>3 DEF HostStep
<1>4. ASSUME TeardownStep
      PROVE  InsideInv' /\ FeedInv' /\ IdleInv'
  <2>1. CASE Kill BY <2>1 DEF Kill
  <2>2. CASE Join BY <2>2 DEF Join, TasksEnded
  <2>3. CASE ResetBootstrap BY <2>3 DEF ResetBootstrap
  <2> QED BY <1>4, <2>1, <2>2, <2>3 DEF TeardownStep
<1>5. ASSUME NEW g \in Launches, LaunchStep(g)
      PROVE  InsideInv' /\ FeedInv' /\ IdleInv'
  <2>1. CASE Chunk(g) BY <2>1 DEF Chunk
  <2>2. CASE PumpEnds(g) BY <2>2 DEF PumpEnds
  <2>3. CASE ProcessExits(g) BY <2>3 DEF ProcessExits
  <2>4. CASE ObserveExit(g) BY <2>4 DEF ObserveExit
  <2>5. CASE Interrupt(g) BY <2>5 DEF Interrupt
  <2>6. CASE CompleteInterrupted(g) BY <2>6 DEF CompleteInterrupted
  <2> QED BY <1>5, <2>1, <2>2, <2>3, <2>4, <2>5, <2>6 DEF LaunchStep
<1>6. CASE UNCHANGED vars
  BY <1>6 DEF vars
<1> QED
  BY <1>1, <1>2, <1>3, <1>4, <1>5, <1>6 DEF Next

(* Stopping the receiver ends every lease, for any number of consumers and  *)
(* callers of RecoverAsync, in the behaviours in which the tasks of an      *)
(* interrupted launch end before the next launch.                           *)
THEOREM StopEndsLeases ==
  Spec /\ []EarlierLaunchesDrained => []NoLeaseAfterStop
<1>1. Init => LeaseInv
  BY TypeInit DEF Init, LeaseInv, InsideInv, Inside, FeedInv, IdleInv
<1>2. LeaseInv /\ [Next]_vars /\ EarlierLaunchesDrained' => LeaseInv'
  BY TypeStep, LeaseStep DEF LeaseInv
<1>3. LeaseInv => NoLeaseAfterStop
  BY DEF LeaseInv, IdleInv, NoLeaseAfterStop
<1> QED
  BY <1>1, <1>2, <1>3, PTL DEF Spec

=============================================================================
