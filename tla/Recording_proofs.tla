-------------------------- MODULE Recording_proofs --------------------------
(***************************************************************************)
(* The recording service, for any number of operators and attempts, any    *)
(* number of segments and crashes.                                         *)
(*                                                                         *)
(* In every regime of faults: types.  And for one operator at a time, who  *)
(* calls after the answer to the last call: a session is saved as Complete *)
(* only when its FFmpeg has ended, whatever saves and kills fail and       *)
(* however late the exit handlers are.  From the launch of an FFmpeg to    *)
(* the end of the stop that completes the session, the process field and   *)
(* the current session are the ones of one attempt.  A stop that starts    *)
(* while the service is Recording therefore waits for the FFmpeg of the    *)
(* session that it marks.                                                  *)
(*                                                                         *)
(* Where every save succeeds and every kill kills, with crashes and        *)
(* restarts of the agent, failing starts, FFmpeg exits and source losses   *)
(* at any step: the persisted row, as every step that changes the          *)
(* service's state marks the current session with it, and whoever marks    *)
(* saves; one recorder, nothing held, segments kept, as with one operator, *)
(* an attempt that begins finds nothing running, held or copied, and its   *)
(* number is the latest; until it is over, what runs, is held or is copied *)
(* is its own.                                                             *)
(***************************************************************************)
EXTENDS Recording, FiniteSetTheorems, TLAPS

\* An attempt has its number.
Named ==
  \A c \in Callers :
    pc[c] \in {"startSave", "recoverSave", "acquire", "launch", "ready",
              "startedSave", "failing"}
      => mine[c] \in Attempts

\* Before the first crash nothing recovers, and a session is that of the
\* attempt that started it.
NoRecovery ==
  /\ agent = "up" /\ pc[Startup] = "idle"
  /\ \A g \in Attempts : session[g] \in {0, g}

\* The session of an attempt to come is not complete.
Fresh ==
  /\ current <= started
  /\ \A g \in Attempts :
       g > started => mem[g] # "Complete" /\ row[g] # "Complete"

\* Nor is that of the one which is started.
Launching ==
  \A c \in Operators :
    pc[c] \in {"startSave", "acquire", "launch", "ready"} =>
      /\ state # "Recording"
      /\ mine[c] = current
      /\ pc[c] # "ready" => mem[current] # "Complete" /\ row[current] # "Complete"

\* The process is that of the current session, from launch to stop.
OneAttempt ==
  /\ state = "Recording" => process = current
  /\ \A c \in Operators :
       /\ pc[c] \in {"ready", "stopSave"} => process = current
       /\ pc[c] \in {"stopExit", "complete"} =>
            mine[c] = process /\ process = current
       /\ pc[c] = "complete" => current \notin alive

\* An FFmpeg whose session is marked or saved as Complete has ended.
Ended ==
  \A g \in Attempts :
    mem[g] = "Complete" \/ row[g] = "Complete" => g \notin alive

\* What holds before the first crash.
Calm == NoRecovery /\ Fresh /\ Launching /\ OneAttempt /\ Ended

\* The inductive invariant.
RecordingInv == TypeOK /\ Named /\ (crashes = 0 => Calm)

\* One caller at a time.
OneOperator == \A c, d \in Operators : c = d

-----------------------------------------------------------------------------
(* Types.                                                                   *)

\* Who acts, and what an attempt's number is.
LEMMA ActorFacts ==
  /\ Operators \subseteq Callers /\ Startup \in Callers /\ Startup \notin Operators
  /\ Callers \subseteq Actors /\ Attempts \subseteq Actors
  /\ \A a \in Actors : a \in Callers <=> a \notin Attempts
  /\ Attempts \subseteq 0..MaxAttempts /\ 0 \notin Attempts
  /\ \A n \in 0..MaxAttempts : n # 0 => n \in Attempts
  /\ \A n \in 0..MaxAttempts : n < MaxAttempts => n + 1 \in Attempts
  /\ MaxAttempts \in Nat
BY ConstantsAssumption DEF Callers, Actors, Attempts

\* The members of the two enumerations.
LEMMA Names ==
  /\ {"idle", "acquire", "launch", "ready", "startedSave", "failing",
      "errorSave", "stopSave", "stopExit", "complete", "completeSave"} \subseteq Labels
  /\ {"startSave", "abort", "watching", "exited", "release", "stderr", "done",
      "recoverSave", "exitHost"} \subseteq Labels
  /\ {"Idle", "Starting", "Recording", "Stopping", "Complete", "Recovering",
      "Error"} \subseteq RecordingState
BY DEF Labels, RecordingState

\* No step takes a variable out of its type.
LEMMA TypeStep ==
  ASSUME TypeOK, Named, [Next]_vars
  PROVE  TypeOK'
<1> USE ActorFacts, Names DEF TypeOK, service, actors, outside, store, disk
<1>1. CASE UNCHANGED vars
  BY <1>1 DEF vars
<1>2. ASSUME NEW a \in Actors, Saved(a) \/ SaveThrows
      PROVE  /\ row' \in [Attempts -> RecordingState \cup {"none"}]
             /\ older' \in [Attempts -> SUBSET Attempts]
  BY <1>2 DEF Saved, SaveThrows
<1>g. ASSUME NEW a \in Actors, NEW l \in Labels, Goto(a, l)
      PROVE  pc' \in [Actors -> Labels]
  BY <1>g DEF Goto
<1>m. ASSUME NEW a \in Actors, NEW s \in 0..MaxAttempts, NEW st \in RecordingState,
             Mark(a, s, st)
      PROVE  /\ mem' \in [Attempts -> RecordingState \cup {"none"}]
             /\ subject' \in [Actors -> 0..MaxAttempts]
  BY <1>m DEF Mark
<1>p. StopMediaPump => pump' \in 0..MaxAttempts /\ pumping' \subseteq Attempts
  BY DEF StopMediaPump
<1>l. ReleaseMediaLease => lease' \in 0..MaxAttempts /\ leases' \subseteq Attempts
  BY DEF ReleaseMediaLease
<1>3. ASSUME NEW c \in Callers, AttemptStep(c), UNCHANGED faults
      PROVE  TypeOK'
  <2>s. pc[c] \in {"ready", "failing"} => SessionOf(c) \in 0..MaxAttempts
    BY DEF SessionOf, Named
  <2>1. CASE AcquireLease(c)
    BY <1>3, <1>g, <2>1 DEF AcquireLease, Named
  <2>2. CASE Launch(c)
    BY <1>3, <2>2 DEF Launch, Named
  <2>3. CASE BecomeRecording(c)
    BY <1>3, <1>g, <1>m, <2>s, <2>3 DEF BecomeRecording
  <2>4. CASE StartedSave(c)
    BY <1>2, <1>g, <1>3, <2>4 DEF StartedSave
  <2>5. CASE AttemptFails(c)
    <3>1. pc' \in [Actors -> Labels]
      BY <1>g, <2>5 DEF AttemptFails
    <3>n. pc[c] = "launch" => mine[c] \in Attempts
      BY DEF Named
    <3>2. \/ UNCHANGED <<process, alive>>
          \/ /\ pc[c] = "launch"
             /\ process' = mine[c] /\ alive' = alive \cup {mine[c]}
      BY <2>5 DEF AttemptFails
    <3>3. process' \in 0..MaxAttempts /\ alive' \subseteq Attempts
      BY <3>2, <3>n
    <3> QED
      BY <1>3, <1>p, <2>5, <3>1, <3>3 DEF AttemptFails
  <2>6. CASE AttemptError(c)
    BY <1>3, <1>g, <1>m, <1>l, <2>s, <2>6 DEF AttemptError
  <2>7. CASE ErrorSave(c)
    BY <1>2, <1>g, <1>3, <2>7 DEF ErrorSave
  <2> QED
    BY <1>3, <2>1, <2>2, <2>3, <2>4, <2>5, <2>6, <2>7 DEF AttemptStep
<1>4. ASSUME NEW c \in Operators, OperatorStep(c), UNCHANGED faults
      PROVE  TypeOK'
  <2>1. CASE EnterStart(c)
    BY <1>4, <1>g, <1>m, <2>1 DEF EnterStart
  <2>2. CASE StartSave(c)
    BY <1>2, <1>g, <1>4, <2>2 DEF StartSave
  <2>3. CASE EnterStop(c)
    BY <1>4, <1>g, <1>m, <2>3 DEF EnterStop
  <2>4. CASE StopSave(c)
    <3>1. pc' \in [Actors -> Labels]
      BY <1>g, <2>4 DEF StopSave
    <3>2. pump' \in 0..MaxAttempts /\ pumping' \subseteq Attempts
      BY <1>p, <2>4 DEF StopSave
    <3> QED
      BY <1>2, <1>4, <2>4, <3>1, <3>2 DEF StopSave
  <2>5. CASE StopExit(c)
    <3>1. pc' \in [Actors -> Labels]
      <4>1. \E label \in {"complete", "abort"} :
              \/ pc' = [pc EXCEPT ![c] = label, ![mine[c]] = "done"]
              \/ pc' = [pc EXCEPT ![c] = label, ![mine[c]] = @]
        BY <2>5 DEF StopExit
      <4> QED
        BY <4>1
    <3>2. alive' \subseteq Attempts /\ pumping' \subseteq Attempts
      BY <2>5 DEF StopExit
    <3> QED
      BY <1>4, <2>5, <3>1, <3>2 DEF StopExit
  <2>6. CASE StopComplete(c)
    BY <1>4, <1>g, <1>m, <1>l, <2>6 DEF StopComplete
  <2>7. CASE CompleteSave(c)
    BY <1>2, <1>g, <1>4, <2>7 DEF CompleteSave
  <2>8. CASE StopAbort(c)
    <3>1. /\ pc' \in [Actors -> Labels]
          /\ mem' \in [Attempts -> RecordingState \cup {"none"}]
          /\ subject' \in [Actors -> 0..MaxAttempts]
      BY <1>g, <1>m, <2>8 DEF StopAbort
    <3> QED
      BY <1>4, <1>l, <2>8, <3>1 DEF StopAbort
  <2> QED
    BY <1>3, <1>4, <2>1, <2>2, <2>3, <2>4, <2>5, <2>6, <2>7, <2>8
       DEF OperatorStep
<1>5. ASSUME StartupStep, UNCHANGED faults
      PROVE  TypeOK'
  <2>1. CASE BootWithoutRecovery
    BY <1>5, <2>1 DEF BootWithoutRecovery
  <2>2. CASE EnterRecover
    BY <1>5, <1>g, <1>m, <2>2 DEF EnterRecover
  <2>3. CASE RecoverSave
    <3>1. next' \in [Attempts -> 0..MaxSegments]
      BY <2>3 DEF RecoverSave
    <3> QED
      BY <1>2, <1>g, <1>5, <2>3, <3>1 DEF RecoverSave
  <2>4. CASE ExitHost
    BY <1>5, <2>4 DEF ExitHost, AgentGone
  <2> QED
    BY <1>3, <1>5, <2>1, <2>2, <2>3, <2>4 DEF StartupStep
<1>6. ASSUME NEW g \in Attempts, HandlerStep(g), UNCHANGED faults
      PROVE  TypeOK'
  <2>1. CASE SeeExit(g)
    <3>1. pc' \in [Actors -> Labels]
      BY <1>g, <2>1 DEF SeeExit
    <3>2. pump' \in 0..MaxAttempts /\ pumping' \subseteq Attempts
      BY <1>p, <2>1 DEF SeeExit
    <3> QED
      BY <1>6, <2>1, <3>1, <3>2 DEF SeeExit
  <2>2. CASE ReleaseAfterExit(g)
    BY <1>6, <1>g, <1>l, <2>2 DEF ReleaseAfterExit
  <2>3. CASE ReportExit(g)
    BY <1>6, <1>g, <1>m, <2>3 DEF ReportExit
  <2>4. CASE ErrorSave(g)
    BY <1>2, <1>g, <1>6, <2>4 DEF ErrorSave
  <2> QED
    BY <1>6, <2>1, <2>2, <2>3, <2>4 DEF HandlerStep
<1>7. ASSUME NEW g \in Attempts, FfmpegStep(g), UNCHANGED faults
      PROVE  TypeOK'
  <2>1. CASE ProcessExits(g)
    BY <1>7, <2>1 DEF ProcessExits
  <2>2. CASE SourceEnds(g)
    BY <1>7, <2>2 DEF SourceEnds
  <2>3. CASE OpenSegment(g)
    <3>1. /\ next' \in [Attempts -> 0..MaxSegments]
          /\ file' \in [Numbers -> 0..MaxAttempts]
      BY <2>3, ConstantsAssumption DEF OpenSegment, Numbers
    <3> QED
      BY <1>7, <2>3, <3>1 DEF OpenSegment
  <2> QED
    BY <1>7, <2>1, <2>2, <2>3 DEF FfmpegStep
<1>8. CASE Crash /\ UNCHANGED faults
  BY <1>8, ConstantsAssumption DEF Crash, AgentGone
<1> QED
  BY <1>1, <1>4, <1>5, <1>6, <1>7, <1>8 DEF Next

-----------------------------------------------------------------------------
(* An attempt has its number.                                               *)

LEMMA NamedStep ==
  ASSUME TypeOK, Named, [Next]_vars
  PROVE  Named'
<1> USE ActorFacts DEF TypeOK, Goto, service, actors, outside, store, disk
<1> SUFFICES ASSUME NEW d \in Callers,
                    pc'[d] \in {"startSave", "recoverSave", "acquire", "launch",
                               "ready", "startedSave", "failing"}
             PROVE  mine'[d] \in Attempts
  BY DEF Named
<1>1. ASSUME UNCHANGED mine,
             pc[d] \in {"startSave", "recoverSave", "acquire", "launch",
                       "ready", "startedSave", "failing"}
      PROVE  mine'[d] \in Attempts
  BY <1>1 DEF Named
<1>2. CASE UNCHANGED vars
  BY <1>1, <1>2 DEF vars
<1>3. ASSUME NEW c \in Callers, AttemptStep(c)
      PROVE  mine'[d] \in Attempts
  <2>1. CASE AcquireLease(c)
    BY <1>1, <2>1 DEF AcquireLease
  <2>2. CASE Launch(c)
    BY <1>1, <2>2 DEF Launch, Named
  <2>3. CASE BecomeRecording(c)
    BY <1>1, <2>3 DEF BecomeRecording
  <2>4. CASE StartedSave(c)
    BY <1>1, <2>4 DEF StartedSave
  <2>5. CASE AttemptFails(c)
    BY <1>1, <2>5 DEF AttemptFails, Named
  <2>6. CASE AttemptError(c)
    BY <1>1, <2>6 DEF AttemptError
  <2>7. CASE ErrorSave(c)
    BY <1>1, <2>7 DEF ErrorSave
  <2> QED
    BY <1>3, <2>1, <2>2, <2>3, <2>4, <2>5, <2>6, <2>7 DEF AttemptStep
<1>4. ASSUME NEW c \in Operators, OperatorStep(c)
      PROVE  mine'[d] \in Attempts
  <2>1. CASE EnterStart(c)
    BY <2>1 DEF EnterStart, Named
  <2>2. CASE StartSave(c)
    BY <1>1, <2>2 DEF StartSave
  <2>3. CASE EnterStop(c)
    BY <1>1, <2>3 DEF EnterStop
  <2>4. CASE StopSave(c)
    BY <2>4 DEF StopSave, Named
  <2>5. CASE StopExit(c)
    <3>1. \/ pc'[d] \in {"complete", "abort", "done"} \/ pc'[d] = pc[d]
      BY <2>5 DEF StopExit
    <3> QED
      BY <1>1, <2>5, <3>1 DEF StopExit
  <2>6. CASE StopComplete(c)
    BY <1>1, <2>6 DEF StopComplete
  <2>7. CASE CompleteSave(c)
    BY <1>1, <2>7 DEF CompleteSave
  <2>8. CASE StopAbort(c)
    BY <1>1, <2>8 DEF StopAbort
  <2> QED
    BY <1>3, <1>4, <2>1, <2>2, <2>3, <2>4, <2>5, <2>6, <2>7, <2>8
       DEF OperatorStep
<1>5. ASSUME StartupStep
      PROVE  mine'[d] \in Attempts
  <2>1. CASE BootWithoutRecovery
    BY <1>1, <2>1 DEF BootWithoutRecovery
  <2>2. CASE EnterRecover
    BY <2>2 DEF EnterRecover, Named
  <2>3. CASE RecoverSave
    BY <1>1, <2>3 DEF RecoverSave
  <2>4. CASE ExitHost
    BY <2>4 DEF ExitHost, AgentGone
  <2> QED
    BY <1>3, <1>5, <2>1, <2>2, <2>3, <2>4 DEF StartupStep
<1>6. ASSUME NEW g \in Attempts, HandlerStep(g)
      PROVE  mine'[d] \in Attempts
  <2>1. d # g
    BY DEF Callers
  <2>2. pc'[d] = pc[d] /\ mine'[d] = mine[d]
    BY <1>6, <2>1 DEF HandlerStep, SeeExit, ReleaseAfterExit, ReportExit, ErrorSave
  <2> QED
    BY <2>2 DEF Named
<1>7. ASSUME NEW g \in Attempts, FfmpegStep(g)
      PROVE  mine'[d] \in Attempts
  <2>1. d # g
    BY DEF Callers
  <2>2. pc'[d] = pc[d] /\ mine'[d] = mine[d]
    BY <1>7, <2>1 DEF FfmpegStep, ProcessExits, SourceEnds, OpenSegment
  <2> QED
    BY <2>2 DEF Named
<1>8. CASE Crash
  BY <1>8 DEF Crash, AgentGone
<1> QED
  BY <1>2, <1>4, <1>5, <1>6, <1>7, <1>8 DEF Next

-----------------------------------------------------------------------------
(* Before the first crash, with one operator.                               *)

\* A save only writes what the session objects say.
LEMMA SaveKeeps ==
  ASSUME TypeOK, NEW a \in Actors, Saved(a) \/ SaveThrows, NEW g \in Attempts
  PROVE  row'[g] \in {row[g], mem[g]}
BY DEF TypeOK, Saved, SaveThrows

\* A step of the operator.
LEMMA OperatorCalm ==
  ASSUME TypeOK, Named, Calm, OneOperator,
         NEW c \in Operators, OperatorStep(c)
  PROVE  Calm'
<1> USE ActorFacts
    DEF TypeOK, Goto, Calm, NoRecovery, Fresh, Launching, OneAttempt, Ended,
        OneOperator, service, actors, outside, store, disk
<1>n. pc[c] \in {"startSave", "acquire", "launch", "ready", "startedSave", "failing"}
        => mine[c] \in Attempts
  BY DEF Named
<1>s. SessionOf(c) = current
  BY DEF SessionOf
<1>1. CASE AcquireLease(c)
  BY <1>1, <1>n DEF AcquireLease
<1>2. CASE Launch(c)
  BY <1>2, <1>n DEF Launch
<1>3. CASE BecomeRecording(c)
  BY <1>3, <1>n, <1>s DEF BecomeRecording, Mark
<1>4. CASE StartedSave(c)
  BY <1>4, SaveKeeps DEF StartedSave
<1>5. CASE AttemptFails(c)
  BY <1>5, <1>n DEF AttemptFails, StopMediaPump
<1>6. CASE AttemptError(c)
  BY <1>6, <1>s DEF AttemptError, Mark
<1>7. CASE ErrorSave(c)
  BY <1>7, SaveKeeps DEF ErrorSave
<1>8. CASE EnterStart(c)
  BY <1>8 DEF EnterStart, Mark
<1>9. CASE StartSave(c)
  BY <1>9, <1>n, SaveKeeps DEF StartSave
<1>10. CASE EnterStop(c)
  BY <1>10 DEF EnterStop, Mark
<1>11. CASE StopSave(c)
  BY <1>11, SaveKeeps DEF StopSave, StopMediaPump
<1>12. CASE StopExit(c)
  BY <1>12 DEF StopExit
<1>13. CASE StopComplete(c)
  BY <1>13 DEF StopComplete, Mark
<1>14. CASE CompleteSave(c)
  BY <1>14, SaveKeeps DEF CompleteSave
<1>15. CASE StopAbort(c)
  BY <1>15 DEF StopAbort, Mark
<1> QED
  BY <1>1, <1>2, <1>3, <1>4, <1>5, <1>6, <1>7, <1>8, <1>9, <1>10, <1>11, <1>12,
     <1>13, <1>14, <1>15 DEF OperatorStep, AttemptStep

\* A step of an exit handler or of an FFmpeg.
LEMMA OutsideCalm ==
  ASSUME TypeOK, Named, Calm, NEW g \in Attempts, HandlerStep(g) \/ FfmpegStep(g)
  PROVE  Calm'
<1> USE ActorFacts
    DEF TypeOK, Goto, Calm, NoRecovery, Fresh, Launching, OneAttempt, Ended,
        service, actors, outside, store, disk
<1>1. \A d \in Callers : d # g
  OBVIOUS
<1>n. \A d \in Operators :
        pc[d] \in {"startSave", "acquire", "launch"} => current \in Attempts
  BY DEF Named
<1>2. CASE SeeExit(g)
  BY <1>1, <1>2 DEF SeeExit
<1>3. CASE ReleaseAfterExit(g)
  BY <1>1, <1>3 DEF ReleaseAfterExit
<1>4. CASE ReportExit(g)
  BY <1>1, <1>4 DEF ReportExit, Mark
<1>5. CASE ErrorSave(g)
  BY <1>1, <1>n, <1>5, SaveKeeps DEF ErrorSave
<1>6. CASE ProcessExits(g)
  BY <1>1, <1>6 DEF ProcessExits
<1>7. CASE SourceEnds(g)
  BY <1>1, <1>7 DEF SourceEnds
<1>8. CASE OpenSegment(g)
  BY <1>1, <1>8 DEF OpenSegment
<1> QED
  BY <1>2, <1>3, <1>4, <1>5, <1>6, <1>7, <1>8 DEF HandlerStep, FfmpegStep

\* Only a crash counts as one, and only after one is there a start-up.
LEMMA NoCrash ==
  ASSUME Next, ~Crash
  PROVE  /\ crashes' = crashes
         /\ NoRecovery => ~StartupStep
<1> USE DEF AttemptStep, AcquireLease, Launch, BecomeRecording, StartedSave,
        AttemptFails, AttemptError, ErrorSave
<1>1. ASSUME NEW c \in Operators, OperatorStep(c)
      PROVE  crashes' = crashes
  BY <1>1 DEF OperatorStep, EnterStart, StartSave, EnterStop, StopSave, StopExit,
     StopComplete, CompleteSave, StopAbort
<1>2. StartupStep => crashes' = crashes
  BY DEF StartupStep, BootWithoutRecovery, EnterRecover, RecoverSave, ExitHost
<1>3. ASSUME NEW g \in Attempts, HandlerStep(g) \/ FfmpegStep(g)
      PROVE  crashes' = crashes
  BY <1>3 DEF HandlerStep, SeeExit, ReleaseAfterExit, ReportExit, FfmpegStep,
     ProcessExits, SourceEnds, OpenSegment, actors
<1>4. NoRecovery => ~StartupStep
  BY DEF NoRecovery, StartupStep, BootWithoutRecovery, EnterRecover, RecoverSave,
     ExitHost
<1> QED
  BY <1>1, <1>2, <1>3, <1>4 DEF Next

LEMMA InvInit == Init => RecordingInv
BY ConstantsAssumption, ActorFacts, Names
   DEF Init, RecordingInv, TypeOK, Named, Calm, NoRecovery, Fresh, Launching,
       OneAttempt, Ended, Numbers

LEMMA InvStep ==
  ASSUME OneOperator, RecordingInv, [Next]_vars
  PROVE  RecordingInv'
<1>1. TypeOK' /\ Named'
  BY TypeStep, NamedStep DEF RecordingInv
<1>2. ASSUME crashes' = 0, crashes = 0 => Calm
      PROVE  Calm'
  <2>1. ~Crash
    BY <1>2 DEF Crash, RecordingInv, TypeOK
  <2>2. CASE UNCHANGED vars
    BY <1>2, <2>2 DEF vars, service, actors, outside, store, disk, Calm,
       NoRecovery, Fresh, Launching, OneAttempt, Ended
  <2>3. CASE Next
    <3>1. crashes = 0 /\ ~StartupStep
      BY <1>2, <2>1, <2>3, NoCrash DEF Calm
    <3> QED
      BY <1>2, <2>1, <2>3, <3>1, OperatorCalm, OutsideCalm
         DEF Next, RecordingInv
  <2> QED
    BY <2>2, <2>3
<1> QED
  BY <1>1, <1>2 DEF RecordingInv

-----------------------------------------------------------------------------
(* The theorems.                                                            *)

\* The recording service: every variable keeps its type, for any number of
\* operators, attempts, segments and crashes, whatever fails.
THEOREM TypeCorrect == Spec => []TypeOK
<1>1. Init => TypeOK /\ Named
  BY InvInit DEF RecordingInv
<1>2. TypeOK /\ Named /\ [Next]_vars => TypeOK' /\ Named'
  BY TypeStep, NamedStep
<1> QED
  BY <1>1, <1>2, PTL DEF Spec

\* With one operator at a time, and until the agent crashes, a session is saved
\* as Complete only when the FFmpeg that recorded it has ended: whatever saves
\* and kills fail, however late exit handlers are, and however often it is
\* tried again.
THEOREM CompleteIsStopped ==
  ASSUME OneOperator
  PROVE  Spec => []CompleteMeansStopped
<1>1. RecordingInv => CompleteMeansStopped
  BY ActorFacts DEF RecordingInv, Calm, NoRecovery, Ended, CompleteMeansStopped,
     TypeOK
<1>2. RecordingInv /\ [Next]_vars => RecordingInv'
  BY InvStep
<1> QED
  BY <1>1, <1>2, InvInit, PTL DEF Spec


-----------------------------------------------------------------------------
(* Who may be where.                                                        *)

\* Operators and the start-up take turns, and the session that is recovered
\* is the current one.
Roles ==
  /\ agent # "up" => \A c \in Operators : pc[c] = "idle"
  /\ agent # "booting" => pc[Startup] = "idle"
  /\ pc[Startup] \in {"recoverSave", "acquire", "launch", "ready", "startedSave",
                   "failing"} =>
       session[mine[Startup]] = current

LEMMA RolesStep ==
  ASSUME TypeOK, Named, Roles, [Next]_vars
  PROVE  Roles'
<1> USE ActorFacts DEF TypeOK, Goto, Roles, service, actors, outside, store, disk
<1>n. /\ Startup \in Callers /\ Startup \in Actors /\ Startup \notin Attempts
      /\ pc[Startup] = "launch" => mine[Startup] \in Attempts
      /\ \A c \in Operators : c # Startup /\ c \in Actors /\ c \notin Attempts
  BY ConstantsAssumption DEF Callers, Actors, Named
<1>1. CASE UNCHANGED vars
  BY <1>1 DEF vars
<1>2. ASSUME NEW c \in Callers, AttemptStep(c)
      PROVE  Roles'
  <2>n. pc[c] = "launch" => mine[c] \in Attempts
    BY DEF Named
  <2>1. CASE AcquireLease(c)
    BY <1>n, <2>1 DEF AcquireLease
  <2>2. CASE Launch(c)
    BY <1>n, <2>n, <2>2 DEF Launch
  <2>3. CASE BecomeRecording(c)
    BY <1>n, <2>3 DEF BecomeRecording
  <2>4. CASE StartedSave(c)
    BY <1>n, <2>4 DEF StartedSave, Callers
  <2>5. CASE AttemptFails(c)
    <3>1. /\ pc'[c] = "failing" /\ pc[c] # "idle"
          /\ \A b \in Callers \ {c} : pc'[b] = pc[b]
          /\ pc[c] \in {"recoverSave", "acquire", "launch", "startedSave"}
      BY <2>n, <2>5 DEF AttemptFails
    <3>2. UNCHANGED <<agent, mine, session, current>>
      BY <2>5 DEF AttemptFails
    <3>3. pc[Startup] = "startedSave" => session[mine[Startup]] = current
      OBVIOUS
    <3> QED
      BY <1>n, <3>1, <3>2, <3>3 DEF Callers
  <2>6. CASE AttemptError(c)
    BY <1>n, <2>6 DEF AttemptError
  <2>7. CASE ErrorSave(c)
    BY <1>n, <2>7 DEF ErrorSave
  <2> QED
    BY <1>2, <2>1, <2>2, <2>3, <2>4, <2>5, <2>6, <2>7 DEF AttemptStep
<1>3. ASSUME NEW c \in Operators, OperatorStep(c)
      PROVE  Roles'
  <2>1. CASE EnterStart(c)
    BY <1>n, <2>1 DEF EnterStart
  <2>2. CASE StartSave(c)
    BY <1>n, <2>2 DEF StartSave
  <2>3. CASE EnterStop(c)
    BY <1>n, <2>3 DEF EnterStop
  <2>4. CASE StopSave(c)
    BY <1>n, <2>4 DEF StopSave
  <2>5. CASE StopExit(c)
    BY <1>n, <2>5 DEF StopExit
  <2>6. CASE StopComplete(c)
    BY <1>n, <2>6 DEF StopComplete
  <2>7. CASE CompleteSave(c)
    BY <1>n, <2>7 DEF CompleteSave
  <2>8. CASE StopAbort(c)
    BY <1>n, <2>8 DEF StopAbort
  <2> QED
    BY <1>2, <1>3, <2>1, <2>2, <2>3, <2>4, <2>5, <2>6, <2>7, <2>8
       DEF OperatorStep, Callers
<1>4. ASSUME StartupStep
      PROVE  Roles'
  <2>1. CASE BootWithoutRecovery
    BY <1>n, <2>1 DEF BootWithoutRecovery
  <2>2. CASE EnterRecover
    BY <1>n, <2>2 DEF EnterRecover
  <2>3. CASE RecoverSave
    BY <1>n, <2>3 DEF RecoverSave
  <2>4. CASE ExitHost
    BY <1>n, <2>4 DEF ExitHost, AgentGone
  <2> QED
    BY <1>2, <1>n, <1>4, <2>1, <2>2, <2>3, <2>4 DEF StartupStep
<1>5. ASSUME NEW g \in Attempts, HandlerStep(g)
      PROVE  Roles'
  BY <1>n, <1>5 DEF HandlerStep, SeeExit, ReleaseAfterExit, ReportExit, ErrorSave
<1>6. ASSUME NEW g \in Attempts, FfmpegStep(g)
      PROVE  Roles'
  BY <1>n, <1>6 DEF FfmpegStep, ProcessExits, SourceEnds, OpenSegment
<1>7. CASE Crash
  BY <1>n, <1>7 DEF Crash, AgentGone
<1> QED
  BY <1>1, <1>3, <1>4, <1>5, <1>6, <1>7 DEF Next

-----------------------------------------------------------------------------
(* The numbers of attempts.                                                 *)

\* Who is at one of these has an attempt that is not launched.
Beginning == {"startSave", "recoverSave", "acquire", "launch"}

\* An attempt that begins is nobody else's, and nothing happened in it yet.
Numbered ==
  /\ \A c \in Callers : pc[c] \in Beginning =>
       /\ mine[c] <= started /\ pc[mine[c]] = "idle"
       /\ \A d \in Callers \ {c} : pc[d] \in Beginning => mine[d] # mine[c]
  /\ \A g \in Attempts : g > started => pc[g] = "idle"

LEMMA NumberedStep ==
  ASSUME TypeOK, Named, Numbered, [Next]_vars
  PROVE  Numbered'
<1> USE ActorFacts
    DEF TypeOK, Goto, Numbered, Beginning, service, actors, outside, store, disk
<1>n. \A c \in Callers : pc[c] \in Beginning => mine[c] \in Attempts
  BY DEF Named
<1>1. CASE UNCHANGED vars
  BY <1>1 DEF vars
<1>2. ASSUME NEW c \in Callers, AttemptStep(c)
      PROVE  Numbered'
  <2>1. CASE AcquireLease(c)
    BY <1>n, <2>1 DEF AcquireLease
  <2>2. CASE Launch(c)
    BY <1>n, <2>2 DEF Launch
  <2>3. CASE BecomeRecording(c)
    BY <1>n, <2>3 DEF BecomeRecording
  <2>4. CASE StartedSave(c)
    BY <1>n, <2>4 DEF StartedSave
  <2>5. CASE AttemptFails(c)
    BY <1>n, <2>5 DEF AttemptFails
  <2>6. CASE AttemptError(c)
    BY <1>n, <2>6 DEF AttemptError
  <2>7. CASE ErrorSave(c)
    BY <1>n, <2>7 DEF ErrorSave
  <2> QED
    BY <1>2, <2>1, <2>2, <2>3, <2>4, <2>5, <2>6, <2>7 DEF AttemptStep
<1>3. ASSUME NEW c \in Operators, OperatorStep(c)
      PROVE  Numbered'
  <2>1. CASE EnterStart(c)
    BY <1>n, <2>1 DEF EnterStart
  <2>2. CASE StartSave(c)
    BY <1>n, <2>2 DEF StartSave
  <2>3. CASE EnterStop(c)
    BY <1>n, <2>3 DEF EnterStop
  <2>4. CASE StopSave(c)
    BY <1>n, <2>4 DEF StopSave
  <2>5. CASE StopExit(c)
    BY <1>n, <2>5 DEF StopExit
  <2>6. CASE StopComplete(c)
    BY <1>n, <2>6 DEF StopComplete
  <2>7. CASE CompleteSave(c)
    BY <1>n, <2>7 DEF CompleteSave
  <2>8. CASE StopAbort(c)
    BY <1>n, <2>8 DEF StopAbort
  <2> QED
    BY <1>2, <1>3, <2>1, <2>2, <2>3, <2>4, <2>5, <2>6, <2>7, <2>8
       DEF OperatorStep, Callers
<1>4. ASSUME StartupStep
      PROVE  Numbered'
  <2>1. CASE BootWithoutRecovery
    BY <1>n, <2>1 DEF BootWithoutRecovery
  <2>2. CASE EnterRecover
    <3>1. /\ started' = started + 1 /\ started + 1 \in Attempts
          /\ mine' = [mine EXCEPT ![Startup] = started + 1]
          /\ pc' = [pc EXCEPT ![Startup] = "recoverSave"]
          /\ Startup \in Callers /\ Startup \in Actors
      BY <2>2 DEF EnterRecover, Callers
    <3> QED
      BY <1>n, <3>1
  <2>3. CASE RecoverSave
    BY <1>n, <2>3 DEF RecoverSave
  <2>4. CASE ExitHost
    BY <1>n, <2>4 DEF ExitHost, AgentGone
  <2> QED
    BY <1>2, <1>4, <2>1, <2>2, <2>3, <2>4 DEF StartupStep, Callers
<1>5. ASSUME NEW g \in Attempts, HandlerStep(g) \/ FfmpegStep(g)
      PROVE  Numbered'
  BY <1>n, <1>5 DEF HandlerStep, SeeExit, ReleaseAfterExit, ReportExit, ErrorSave,
     FfmpegStep, ProcessExits, SourceEnds, OpenSegment
<1>6. CASE Crash
  BY <1>n, <1>6 DEF Crash, AgentGone
<1> QED
  BY <1>1, <1>3, <1>4, <1>5, <1>6 DEF Next

-----------------------------------------------------------------------------
(* The persisted row.                                                       *)

\* Who is at one of these is about to save.
Saving == {"startSave", "recoverSave", "startedSave", "stopSave",
           "completeSave", "errorSave"}

\* Actor a is about to save the current session.
SavePending(a) ==
  /\ pc[a] \in Saving
  /\ subject[a] = current

\* The current session says what the service says, and its row does or will.
Agreement ==
  current # 0 =>
    /\ mem[current] = state
    /\ row[current] = state \/ \E a \in Actors : SavePending(a)

\* A step that marks the current session leads to a save.
LEMMA MarkAgrees ==
  ASSUME TypeOK, NEW a \in Actors, current' \in 0..MaxAttempts,
         Mark(a, current', state'),
         pc'[a] \in Saving
  PROVE  Agreement'
BY ActorFacts DEF TypeOK, Agreement, SavePending, Saving, Mark

\* A save writes the session of its actor, whose turn is over.
LEMMA SaveAgrees ==
  ASSUME TypeOK, Agreement, NEW a \in Actors, Saved(a),
         UNCHANGED <<state, current, mem, subject>>,
         \A b \in Actors \ {a} : pc'[b] = pc[b]
  PROVE  Agreement'
<1>1. CASE current # 0 /\ subject[a] = current
  BY <1>1, ActorFacts DEF TypeOK, Agreement, Saved
<1>2. CASE current # 0 /\ subject[a] # current
  <2>1. row'[current] = row[current]
    BY <1>2, ActorFacts DEF TypeOK, Saved
  <2>2. ASSUME NEW b \in Actors, SavePending(b)
        PROVE  SavePending(b)'
    BY <1>2, <2>2 DEF SavePending
  <2> QED
    BY <1>2, <2>1, <2>2 DEF Agreement
<1> QED
  BY <1>1, <1>2 DEF Agreement

\* Any other step leaves what is pending.
LEMMA RestAgrees ==
  ASSUME Agreement, UNCHANGED <<state, current, mem, row, subject>>,
         \A b \in Actors :
           pc[b] \in Saving => pc'[b] = pc[b]
  PROVE  Agreement'
<1>1. ASSUME NEW b \in Actors, SavePending(b)
      PROVE  SavePending(b)'
  BY <1>1 DEF SavePending
<1> QED
  BY <1>1 DEF Agreement

\* The step of an attempt.
LEMMA AttemptAgrees ==
  ASSUME TypeOK, Named, Roles, Numbered, Agreement, Dependable,
         NEW c \in Callers, AttemptStep(c)
  PROVE  Agreement'
<1> USE ActorFacts DEF TypeOK, Goto, service, actors, outside, store, disk
<1>n. pc[c] = "launch" => mine[c] \in Attempts /\ pc[mine[c]] = "idle"
  BY DEF Named, Numbered, Beginning
<1>s. pc[c] \in {"ready", "failing"} => SessionOf(c) = current
  BY DEF SessionOf, Roles
<1>f. ~("save" \in faults)
  BY DEF Dependable
<1>1. CASE AcquireLease(c)
  BY <1>1, RestAgrees DEF AcquireLease, Saving
<1>2. CASE Launch(c)
  BY <1>n, <1>2, RestAgrees DEF Launch, Saving
<1>3. CASE BecomeRecording(c)
  BY <1>3, <1>s, MarkAgrees DEF BecomeRecording, Saving
<1>4. CASE StartedSave(c)
  BY <1>4, SaveAgrees DEF StartedSave
<1>5. CASE AttemptFails(c)
  <2>1. pc[c] \in {"acquire", "launch"} /\ UNCHANGED <<state, current, mem, row, subject>>
    BY <1>5, <1>f DEF AttemptFails
  <2>2. \A b \in Actors : pc[b] \in Saving => pc'[b] = pc[b]
    BY <1>5, <1>n, <2>1 DEF AttemptFails, Saving
  <2> QED
    BY <2>1, <2>2, RestAgrees
<1>6. CASE AttemptError(c)
  BY <1>6, <1>s, MarkAgrees DEF AttemptError, Saving
<1>7. CASE ErrorSave(c)
  BY <1>7, <1>f, SaveAgrees DEF ErrorSave, SaveThrows
<1> QED
  BY <1>1, <1>2, <1>3, <1>4, <1>5, <1>6, <1>7 DEF AttemptStep

LEMMA AgreementStep ==
  ASSUME TypeOK, Named, Roles, Numbered, Agreement, Dependable, [Next]_vars
  PROVE  Agreement'
<1> USE ActorFacts DEF TypeOK, Goto, service, actors, outside, store, disk
<1>f. ~("save" \in faults)
  BY DEF Dependable
<1>1. CASE UNCHANGED vars
  BY <1>1, RestAgrees DEF vars
<1>2. ASSUME NEW c \in Operators, OperatorStep(c)
      PROVE  Agreement'
  <2>1. CASE EnterStart(c)
    BY <2>1, MarkAgrees DEF EnterStart, Saving
  <2>2. CASE StartSave(c)
    BY <2>2, <1>f, SaveAgrees DEF StartSave, SaveThrows
  <2>3. CASE EnterStop(c)
    BY <2>3, MarkAgrees DEF EnterStop, Saving
  <2>4. CASE StopSave(c)
    BY <2>4, <1>f, SaveAgrees DEF StopSave, SaveThrows
  <2>5. CASE StopExit(c)
    BY <2>5, RestAgrees DEF StopExit, Saving
  <2>6. CASE StopComplete(c)
    BY <2>6, MarkAgrees DEF StopComplete, Saving
  <2>7. CASE CompleteSave(c)
    BY <2>7, <1>f, SaveAgrees DEF CompleteSave, SaveThrows
  <2>8. CASE StopAbort(c) /\ mine[c] = 0
    BY <2>8, RestAgrees DEF StopAbort, Saving
  <2>9. CASE StopAbort(c) /\ mine[c] # 0
    BY <2>9, MarkAgrees DEF StopAbort, Saving
  <2> QED
    BY <1>2, <2>1, <2>2, <2>3, <2>4, <2>5, <2>6, <2>7, <2>8, <2>9, AttemptAgrees
       DEF OperatorStep, Callers
<1>3. ASSUME StartupStep
      PROVE  Agreement'
  <2>1. CASE BootWithoutRecovery
    BY <2>1, RestAgrees DEF BootWithoutRecovery
  <2>2. CASE EnterRecover
    BY <2>2, MarkAgrees DEF EnterRecover, Saving
  <2>3. CASE RecoverSave
    BY <2>3, SaveAgrees DEF RecoverSave
  <2>4. CASE ExitHost
    BY <2>4 DEF ExitHost, AgentGone, Agreement
  <2> QED
    BY <1>3, <2>1, <2>2, <2>3, <2>4, AttemptAgrees DEF StartupStep, Callers
<1>4. ASSUME NEW g \in Attempts, HandlerStep(g)
      PROVE  Agreement'
  <2>1. CASE SeeExit(g)
    BY <2>1, RestAgrees DEF SeeExit, Saving
  <2>2. CASE ReleaseAfterExit(g)
    BY <2>2, RestAgrees DEF ReleaseAfterExit, Saving
  <2>3. CASE ReportExit(g)
    BY <2>3, MarkAgrees DEF ReportExit, Saving
  <2>4. CASE ErrorSave(g)
    BY <2>4, <1>f, SaveAgrees DEF ErrorSave, SaveThrows
  <2> QED
    BY <1>4, <2>1, <2>2, <2>3, <2>4 DEF HandlerStep
<1>5. ASSUME NEW g \in Attempts, FfmpegStep(g)
      PROVE  Agreement'
  <2>1. CASE ProcessExits(g)
    BY <2>1, RestAgrees DEF ProcessExits, Saving
  <2>2. CASE SourceEnds(g) \/ OpenSegment(g)
    BY <2>2, RestAgrees DEF SourceEnds, OpenSegment
  <2> QED
    BY <1>5, <2>1, <2>2 DEF FfmpegStep
<1>6. CASE Crash
  BY <1>6 DEF Crash, AgentGone, Agreement
<1> QED
  BY <1>1, <1>2, <1>3, <1>4, <1>5, <1>6 DEF Next

-----------------------------------------------------------------------------
(* One operator: at most one attempt runs, holds and copies.                *)

\* The FFmpeg processes somebody watches: those an earlier life of the agent
\* left behind are not among them.
Watched == {g \in alive : pc[g] # "done"}

\* Who is at one of these finds that the service is not recording.
Busy == Beginning \cup {"ready", "failing", "stopSave", "stopExit", "complete", "abort"}

\* An attempt that begins is the latest, and its lease is in the field.
Latest ==
  /\ agent = "down" => state # "Recording"
  /\ \A c \in Callers :
       /\ pc[c] \in Busy => state # "Recording"
       /\ pc[c] \in Beginning => mine[c] = started
       /\ pc[c] = "startSave" => session[started] = started
       /\ pc[c] = "launch" => lease = started
       /\ pc[c] = "stopExit" => mine[c] = process

\* A watched FFmpeg is the latest attempt's, it is in the field, and the
\* service is recording or about to, or a stop is about to end it.
Attended ==
  \A g \in Watched :
    /\ pc[g] = "watching" /\ g = started /\ process = g
    /\ \/ state = "Recording"
       \/ \E c \in Callers : pc[c] \in {"ready", "stopSave", "stopExit"}

\* A lease that is held and a pump that copies are in the fields, and
\* somebody is going to end them.
Held ==
  /\ \A g \in leases :
       /\ g = lease
       /\ \/ state = "Recording"
          \/ \E c \in Callers : pc[c] \in Busy \ {"startSave", "recoverSave", "acquire"}
  /\ \A g \in pumping :
       /\ g = pump /\ g = started
       /\ \/ state = "Recording"
          \/ \E c \in Callers : pc[c] \in {"ready", "stopSave"}
  /\ \A g \in Attempts :
       /\ pc[g] \in {"release", "stderr"} => pumping = {}
       /\ pc[g] = "stderr" => leases = {}

\* A recovery has no segment of its numbers before it.
OnlyNew ==
  \A g \in Attempts :
    /\ session[g] # g
    /\ \/ g \in pumping
       \/ \E c \in Callers : pc[c] \in {"acquire", "launch"} /\ mine[c] = g
    => \A n \in Numbers : n >= next[g] => file[n] = 0

OneAtATime == Latest /\ Attended /\ Held /\ OnlyNew

\* Two callers are not active at once.
LEMMA OneActive ==
  ASSUME OneOperator, Roles,
         NEW c \in Callers, NEW d \in Callers, pc[c] # "idle", d # c
  PROVE  pc[d] = "idle"
BY DEF Roles, OneOperator, Callers

LEMMA AttemptOne ==
  ASSUME OneOperator, TypeOK, Named, Roles, Numbered, OneAtATime, Dependable,
         HandlersArePrompt, NEW c \in Callers, AttemptStep(c)
  PROVE  OneAtATime'
<1> USE ActorFacts
    DEF TypeOK, Goto, OneAtATime, Latest, Attended, Held, OnlyNew, Watched,
        Busy, Beginning, service, actors, outside, store, disk
<1>n. pc[c] \in Beginning => mine[c] \in Attempts /\ pc[mine[c]] = "idle"
  BY DEF Named, Numbered
<1>a. \A d \in Callers \ {c} : pc[c] # "idle" => pc[d] = "idle"
  BY OneActive
<1>h. \A g \in Attempts :
        pc[g] \in {"release", "stderr"} => started = g
  BY DEF HandlersArePrompt
<1>f. ~("save" \in faults)
  BY DEF Dependable
<1>e. pc[c] # "idle" => agent # "down"
  BY DEF Roles, Callers
<1>1. CASE AcquireLease(c)
  BY <1>1, <1>n, <1>a, <1>h DEF AcquireLease
<1>2. CASE Launch(c)
  <2>1. Latest'
    BY <1>2, <1>n, <1>a, <1>h DEF Launch
  <2>2. Attended'
    BY <1>2, <1>n, <1>a, <1>h DEF Launch
  <2>3. Held'
    BY <1>2, <1>n, <1>a, <1>h DEF Launch
  <2>4. OnlyNew'
    BY <1>2, <1>n, <1>a, <1>h DEF Launch
  <2> QED
    BY <2>1, <2>2, <2>3, <2>4
<1>3. CASE BecomeRecording(c)
  <2>1. Latest'
    BY <1>3, <1>n, <1>a, <1>e DEF BecomeRecording
  <2>2. Attended'
    BY <1>3, <1>n, <1>a, <1>e DEF BecomeRecording
  <2>3. Held'
    BY <1>3, <1>n, <1>a, <1>e DEF BecomeRecording
  <2>4. OnlyNew'
    BY <1>3, <1>n, <1>a, <1>e DEF BecomeRecording
  <2> QED
    BY <2>1, <2>2, <2>3, <2>4
<1>4. CASE StartedSave(c)
  BY <1>4, <1>n, <1>a DEF StartedSave
<1>5. CASE AttemptFails(c)
  <2>1. Latest'
    BY <1>5, <1>n, <1>a, <1>f DEF AttemptFails, StopMediaPump
  <2>2. Attended'
    <3>1. pc[c] \in {"acquire", "launch"} /\ UNCHANGED alive
      BY <1>5, <1>n, <1>f DEF AttemptFails
    <3>2. Watched = {}
      BY <3>1, <1>a
    <3> QED
      BY <1>5, <1>n, <3>1, <3>2 DEF AttemptFails
  <2>3. Held'
    BY <1>5, <1>n, <1>a, <1>f DEF AttemptFails, StopMediaPump
  <2>4. OnlyNew'
    BY <1>5, <1>n, <1>a, <1>f DEF AttemptFails, StopMediaPump
  <2> QED
    BY <2>1, <2>2, <2>3, <2>4
<1>6. CASE AttemptError(c)
  <2>1. Latest'
    BY <1>6, <1>n, <1>a DEF AttemptError, ReleaseMediaLease
  <2>2. Attended'
    BY <1>6, <1>n, <1>a DEF AttemptError, ReleaseMediaLease
  <2>3. Held'
    BY <1>6, <1>n, <1>a DEF AttemptError, ReleaseMediaLease
  <2>4. OnlyNew'
    BY <1>6, <1>n, <1>a DEF AttemptError, ReleaseMediaLease
  <2> QED
    BY <2>1, <2>2, <2>3, <2>4
<1>7. CASE ErrorSave(c)
  BY <1>7, <1>n, <1>a DEF ErrorSave
<1> QED
  BY <1>1, <1>2, <1>3, <1>4, <1>5, <1>6, <1>7 DEF AttemptStep

LEMMA OperatorOne ==
  ASSUME OneOperator, TypeOK, Named, Roles, Numbered, OneAtATime, Dependable,
         HandlersArePrompt, NEW c \in Operators, OperatorStep(c)
  PROVE  OneAtATime'
<1> USE ActorFacts
    DEF TypeOK, Goto, OneAtATime, Latest, Attended, Held, OnlyNew, Watched,
        Busy, Beginning, service, actors, outside, store, disk
<1>n. c \in Callers /\ (pc[c] \in Beginning => mine[c] \in Attempts)
  BY DEF Named, Callers
<1>a. \A d \in Callers \ {c} : pc[c] # "idle" => pc[d] = "idle"
  BY <1>n, OneActive
<1>u. agent = "up" => \A d \in Callers \ {c} : pc[d] = "idle"
  BY DEF Roles, Callers, OneOperator
<1>f. ~("save" \in faults) /\ ~("kill" \in faults)
  BY DEF Dependable
<1>1. CASE EnterStart(c)
  BY <1>1, <1>n, <1>u DEF EnterStart
<1>2. CASE StartSave(c)
  <2>1. Latest'
    BY <1>2, <1>n, <1>a, <1>f DEF StartSave, SaveThrows
  <2>2. Attended'
    BY <1>2, <1>n, <1>a, <1>f DEF StartSave, SaveThrows
  <2>3. Held'
    BY <1>2, <1>n, <1>a, <1>f DEF StartSave, SaveThrows
  <2>4. OnlyNew'
    BY <1>2, <1>n, <1>a, <1>f DEF StartSave, SaveThrows
  <2> QED
    BY <2>1, <2>2, <2>3, <2>4
<1>3. CASE EnterStop(c)
  BY <1>3, <1>n, <1>u DEF EnterStop
<1>4. CASE StopSave(c)
  <2>1. Latest'
    BY <1>4, <1>n, <1>a, <1>f DEF StopSave, SaveThrows, StopMediaPump
  <2>2. Attended'
    BY <1>4, <1>n, <1>a, <1>f DEF StopSave, SaveThrows, StopMediaPump
  <2>3. Held'
    <3>p. \A g \in pumping : g = pump
      OBVIOUS
    <3>m. pumping' = pumping \ {pump} /\ pc'[c] \in {"abort", "stopExit"}
      BY <1>4, <1>n, <1>f DEF StopSave, SaveThrows, StopMediaPump
    <3>1. pumping' = {} /\ pc'[c] \in {"abort", "stopExit"}
      BY <3>p, <3>m
    <3>2. \A b \in Actors \ {c} : pc'[b] = pc[b]
      BY <1>4, <1>n DEF StopSave
    <3>3. UNCHANGED <<state, lease, leases>>
      BY <1>4 DEF StopSave
    <3> QED
      BY <1>n, <3>1, <3>2, <3>3
  <2>4. OnlyNew'
    BY <1>4, <1>n, <1>a, <1>f DEF StopSave, SaveThrows, StopMediaPump
  <2> QED
    BY <2>1, <2>2, <2>3, <2>4
<1>5. CASE StopExit(c)
  <2>1. /\ pc[c] = "stopExit" /\ pc'[c] \in {"complete", "abort"}
        /\ \A d \in Callers \ {c} : pc'[d] = pc[d]
        /\ \A g \in Attempts : pc'[g] \in {pc[g], "done"}
    <3>1. \E label \in {"complete", "abort"} :
            \/ /\ pc[mine[c]] \in {"watching", "exited"}
               /\ pc' = [pc EXCEPT ![c] = label, ![mine[c]] = "done"]
            \/ \A b \in Actors : pc'[b] = IF b = c THEN label ELSE pc[b]
      <4>1. PICK label \in {"complete", "abort"} :
              pc' = [pc EXCEPT ![c] = label,
                       ![mine[c]] = IF mine[c] \notin alive' /\ state # "Recording"
                                         /\ pc[mine[c]] \in {"watching", "exited"}
                                      THEN "done" ELSE @]
        BY <1>5 DEF StopExit
      <4>2. CASE mine[c] \notin alive' /\ state # "Recording"
                   /\ pc[mine[c]] \in {"watching", "exited"}
        BY <4>1, <4>2
      <4>3. CASE ~(mine[c] \notin alive' /\ state # "Recording"
                     /\ pc[mine[c]] \in {"watching", "exited"})
        <5>1. pc' = [pc EXCEPT ![c] = label, ![mine[c]] = @]
          BY <4>1, <4>3
        <5> QED
          BY <1>n, <5>1
      <4> QED
        BY <4>2, <4>3
    <3>2. pc[c] = "stopExit" /\ \A d \in Callers \ {c} : pc[d] = "idle"
      BY <1>5, <1>a DEF StopExit
    <3> QED
      BY <1>n, <3>1, <3>2
  <2>2. alive' = alive \ {mine[c]} /\ pumping' = pumping \ {mine[c]}
    BY <1>5, <1>f DEF StopExit
  <2>3. UNCHANGED <<service, agent, mine, started, session, leases, disk>>
    BY <1>5 DEF StopExit
  <2>4. Watched' = {} /\ pumping = {}
    <3>1. \A g \in alive' : pc'[g] # "done" => g \in Watched /\ g # process
      BY <1>n, <2>1, <2>2
    <3>2. state # "Recording" /\ \A d \in Callers : pc[d] \notin {"ready", "stopSave"}
      BY <1>n, <1>a, <2>1
    <3>3. Watched' = {}
      BY <3>1, <2>2
    <3>4. \A g \in pumping : FALSE
      BY <3>2
    <3> QED
      BY <3>3, <3>4
  <2> QED
    BY <1>n, <2>1, <2>2, <2>3, <2>4
<1>6. CASE StopComplete(c)
  <2>1. Latest'
    BY <1>6, <1>n, <1>a DEF StopComplete, ReleaseMediaLease
  <2>2. Attended'
    BY <1>6, <1>n, <1>a DEF StopComplete, ReleaseMediaLease
  <2>3. Held'
    BY <1>6, <1>n, <1>a DEF StopComplete, ReleaseMediaLease
  <2>4. OnlyNew'
    BY <1>6, <1>n, <1>a DEF StopComplete, ReleaseMediaLease
  <2> QED
    BY <2>1, <2>2, <2>3, <2>4
<1>7. CASE CompleteSave(c)
  BY <1>7, <1>n, <1>a DEF CompleteSave
<1>8. CASE StopAbort(c)
  <2>1. Latest'
    BY <1>8, <1>n, <1>a DEF StopAbort, ReleaseMediaLease
  <2>2. Attended'
    BY <1>8, <1>n, <1>a DEF StopAbort, ReleaseMediaLease
  <2>3. Held'
    BY <1>8, <1>n, <1>a DEF StopAbort, ReleaseMediaLease
  <2>4. OnlyNew'
    BY <1>8, <1>n, <1>a DEF StopAbort, ReleaseMediaLease
  <2> QED
    BY <2>1, <2>2, <2>3, <2>4
<1> QED
  BY <1>n, <1>1, <1>2, <1>3, <1>4, <1>5, <1>6, <1>7, <1>8, AttemptOne DEF OperatorStep

LEMMA StartupOne ==
  ASSUME OneOperator, TypeOK, Named, Roles, Numbered, OneAtATime, Dependable,
         HandlersArePrompt, StartupStep
  PROVE  OneAtATime'
<1> USE ActorFacts
    DEF TypeOK, Goto, OneAtATime, Latest, Attended, Held, OnlyNew, Watched,
        Busy, Beginning, service, actors, outside, store, disk
<1>n. Startup \in Callers /\ (pc[Startup] \in Beginning => mine[Startup] \in Attempts)
  BY DEF Named, Callers
<1>a. \A d \in Callers \ {Startup} : pc[Startup] # "idle" => pc[d] = "idle"
  BY <1>n, OneActive
<1>d. agent = "down" => \A d \in Callers : pc[d] = "idle"
  BY DEF Roles, Callers
<1>1. CASE BootWithoutRecovery
  BY <1>1, <1>n, <1>d DEF BootWithoutRecovery
<1>2. CASE EnterRecover
  BY <1>2, <1>n, <1>d DEF EnterRecover
<1>3. CASE RecoverSave
  BY <1>3, <1>n, <1>a DEF RecoverSave, IsNextSegmentNumber
<1>4. CASE ExitHost
  <2>1. Latest'
    BY <1>4, <1>n DEF ExitHost, AgentGone
  <2>2. Attended'
    BY <1>4, <1>n DEF ExitHost, AgentGone
  <2>3. Held'
    BY <1>4, <1>n DEF ExitHost, AgentGone
  <2>4. OnlyNew'
    BY <1>4, <1>n DEF ExitHost, AgentGone
  <2> QED
    BY <2>1, <2>2, <2>3, <2>4
<1> QED
  BY <1>n, <1>1, <1>2, <1>3, <1>4, AttemptOne DEF StartupStep

LEMMA OutsideOne ==
  ASSUME OneOperator, TypeOK, Named, Roles, Numbered, OneAtATime, Dependable,
         HandlersArePrompt, NEW g \in Attempts, HandlerStep(g) \/ FfmpegStep(g)
  PROVE  OneAtATime'
<1> USE ActorFacts
    DEF TypeOK, Goto, OneAtATime, Latest, Attended, Held, OnlyNew, Watched,
        Busy, Beginning, service, actors, outside, store, disk
<1>n. \A c \in Callers : c # g /\ (pc[c] \in Beginning => pc[mine[c]] = "idle")
  BY DEF Numbered
<1>a. \A c \in Callers, d \in Callers :
        pc[c] # "idle" /\ d # c => pc[d] = "idle"
  BY OneActive
<1>h. \A h \in Attempts :
        pc[h] \in {"release", "stderr"} => started = h
  BY DEF HandlersArePrompt
<1>1. CASE SeeExit(g)
  <2>1. Latest'
    BY <1>1, <1>n DEF SeeExit, StopMediaPump
  <2>2. Attended'
    BY <1>1, <1>n DEF SeeExit, StopMediaPump
  <2>3. Held'
    <3>1. CASE state = "Recording"
      <4>p. \A h \in pumping : h = pump
        OBVIOUS
      <4>m. pumping' = pumping \ {pump} /\ pc' = [pc EXCEPT ![g] = "release"]
        BY <1>1, <3>1 DEF SeeExit, StopMediaPump
      <4>1. pumping' = {} /\ pc' = [pc EXCEPT ![g] = "release"]
        BY <4>p, <4>m
      <4> QED
        BY <1>1, <1>n, <3>1, <4>1 DEF SeeExit
    <3>2. CASE state # "Recording"
      <4>1. pc' = [pc EXCEPT ![g] = "done"]
        BY <1>1, <3>2 DEF SeeExit
      <4>2. UNCHANGED <<state, lease, leases, pump, pumping, started>>
        BY <1>1, <3>2 DEF SeeExit
      <4> QED
        BY <1>n, <4>1, <4>2
    <3> QED
      BY <3>1, <3>2
  <2>4. OnlyNew'
    BY <1>1, <1>n DEF SeeExit, StopMediaPump
  <2> QED
    BY <2>1, <2>2, <2>3, <2>4
<1>2. CASE ReleaseAfterExit(g)
  BY <1>2, <1>n, <1>h DEF ReleaseAfterExit, ReleaseMediaLease
<1>3. CASE ReportExit(g)
  <2>1. Latest'
    BY <1>3, <1>n, <1>h DEF ReportExit
  <2>2. Attended'
    BY <1>3, <1>n, <1>h DEF ReportExit
  <2>3. Held'
    BY <1>3, <1>n, <1>h DEF ReportExit
  <2>4. OnlyNew'
    BY <1>3, <1>n, <1>h DEF ReportExit
  <2> QED
    BY <2>1, <2>2, <2>3, <2>4
<1>4. CASE ErrorSave(g)
  BY <1>4, <1>n DEF ErrorSave
<1>5. CASE ProcessExits(g)
  BY <1>5, <1>n DEF ProcessExits
<1>6. CASE SourceEnds(g)
  BY <1>6, <1>n DEF SourceEnds
<1>7. CASE OpenSegment(g)
  <2>1. UNCHANGED <<service, actors, outside>>
    BY <1>7 DEF OpenSegment
  <2>2. Latest' /\ Attended' /\ Held'
    BY <2>1
  <2>3. OnlyNew'
    <3>1. /\ g \in pumping
          /\ next[g] \in Numbers
          /\ file' = [file EXCEPT ![next[g]] = g]
          /\ next' = [next EXCEPT ![g] = @ + 1]
      BY <1>7 DEF OpenSegment
    <3>2. ASSUME NEW h \in Attempts, h # g
          PROVE  /\ h \notin pumping
                 /\ ~\E c \in Callers : pc[c] \in {"acquire", "launch"} /\ mine[c] = h
      BY <3>1, <3>2, <1>a
    <3>3. \A n \in Numbers : n >= next[g] + 1 => n >= next[g] /\ n # next[g]
      BY <3>1, ConstantsAssumption DEF Numbers
    <3> QED
      BY <2>1, <3>1, <3>2, <3>3
  <2> QED
    BY <2>2, <2>3
<1> QED
  BY <1>1, <1>2, <1>3, <1>4, <1>5, <1>6, <1>7 DEF HandlerStep, FfmpegStep

LEMMA OneInit == Init => Roles /\ Numbered /\ Agreement /\ OneAtATime
BY ConstantsAssumption, ActorFacts
   DEF Init, Roles, Numbered, Beginning, Agreement, OneAtATime, Latest,
       Attended, Held, OnlyNew, Watched, Busy, Callers

LEMMA OneStep ==
  ASSUME OneOperator, TypeOK, Named, Roles, Numbered, OneAtATime, Dependable,
         HandlersArePrompt, [Next]_vars
  PROVE  OneAtATime'
<1>1. CASE UNCHANGED vars
  BY <1>1 DEF vars, service, actors, outside, store, disk, OneAtATime, Latest,
     Attended, Held, OnlyNew, Watched, Busy, Beginning
<1>2. ASSUME Crash
      PROVE  OneAtATime'
  BY <1>2, ActorFacts
     DEF Crash, AgentGone, TypeOK, OneAtATime, Latest, Attended, Held, OnlyNew,
         Watched, Busy, Beginning, disk
<1> QED
  BY <1>1, <1>2, OperatorOne, StartupOne, OutsideOne DEF Next

\* What may fail is settled when the behaviour begins.
LEMMA FaultsStay == [Next]_vars => (Dependable' <=> Dependable)
BY DEF Next, vars, Dependable

\* The inductive invariants: for any operators, and for one.
AgreementInv ==
  TypeOK /\ Named /\ Roles /\ Numbered /\ (Dependable => Agreement)

OneInv ==
  TypeOK /\ Named /\ Roles /\ Numbered /\ (Dependable => OneAtATime)

LEMMA AgreementInvHolds == Spec => []AgreementInv
<1>1. Init => AgreementInv
  BY InvInit, OneInit DEF RecordingInv, AgreementInv
<1>2. AgreementInv /\ [Next]_vars => AgreementInv'
  BY TypeStep, NamedStep, RolesStep, NumberedStep, AgreementStep, FaultsStay
     DEF AgreementInv
<1> QED
  BY <1>1, <1>2, PTL DEF Spec

LEMMA OneInvHolds ==
  ASSUME OneOperator
  PROVE  Spec /\ []HandlersArePrompt => []OneInv
<1>1. Init => OneInv
  BY InvInit, OneInit DEF RecordingInv, OneInv
<1>2. OneInv /\ [Next]_vars /\ HandlersArePrompt => OneInv'
  BY TypeStep, NamedStep, RolesStep, NumberedStep, OneStep, FaultsStay
     DEF OneInv
<1> QED
  BY <1>1, <1>2, PTL DEF Spec

-----------------------------------------------------------------------------
(* The theorems.                                                            *)

\* The row of the current session says what the service says whenever no
\* command, recovery or exit handler is under way, where no save fails: for any
\* number of operators and crashes, in whatever order the saves land.
THEOREM RowAgrees == Spec => []PersistedStateAgrees
<1>1. AgreementInv => PersistedStateAgrees
  BY DEF AgreementInv, Agreement, SavePending, Saving, PersistedStateAgrees,
     Settled, Actors
<1> QED
  BY <1>1, AgreementInvHolds, PTL

\* One FFmpeg at a time is watched by the agent, through any number of starts,
\* stops, exits, crashes and recoveries: with one operator, where saves and
\* kills succeed and an exit handler is done before the next attempt.
THEOREM OnlyOne ==
  ASSUME OneOperator
  PROVE  Spec /\ []HandlersArePrompt => []OneRecorder
<1>1. OneInv => OneRecorder
  <2> SUFFICES ASSUME OneInv, Dependable
               PROVE  Cardinality(Watched) <= 1
    BY DEF OneRecorder, Watched
  <2>1. \A g \in Watched : g = started
    BY DEF OneInv, OneAtATime, Attended
  <2>2. Watched = {} \/ Watched = {started}
    BY <2>1
  <2>3. Cardinality({}) = 0 /\ Cardinality({started}) = 1
    BY FS_EmptySet, FS_Singleton
  <2> QED
    BY <2>2, <2>3
<1> QED
  BY <1>1, OneInvHolds, PTL

\* A recording that is over holds no lease and copies nothing, whether it was
\* stopped, failed to start, or its FFmpeg or the agent ended: with one operator,
\* where saves and kills succeed and exit handlers are prompt.
THEOREM NothingHeld ==
  ASSUME OneOperator
  PROVE  Spec /\ []HandlersArePrompt => []NothingHeldWhenOver
<1>1. OneInv => NothingHeldWhenOver
  <2> SUFFICES ASSUME OneInv, Dependable, Settled, state # "Recording"
               PROVE  leases = {} /\ pumping = {}
    BY DEF NothingHeldWhenOver
  <2>1. \A c \in Callers : pc[c] \notin Busy
    BY DEF Settled, Busy, Beginning
  <2>2. (\A g \in leases : FALSE) /\ (\A g \in pumping : FALSE)
    BY <2>1 DEF OneInv, OneAtATime, Held, Busy
  <2> QED
    BY <2>2
<1> QED
  BY <1>1, OneInvHolds, PTL

\* A recovery never writes over a segment that was on disk: with one operator,
\* where saves and kills succeed and exit handlers are prompt.
THEOREM SegmentsStay ==
  ASSUME OneOperator
  PROVE  Spec /\ []HandlersArePrompt /\ []Dependable => RecoveryKeepsSegments
<1> DEFINE Keeps ==
      \A n \in Numbers : \A g \in Attempts :
        file[n] # 0 /\ file'[n] = g /\ file[n] # g => session[g] = g
<1>1. ASSUME OneInv, Dependable, [Next]_vars
      PROVE  [Keeps]_vars
  <2>1. ASSUME NEW g \in Attempts, OpenSegment(g)
        PROVE  Keeps
    <3>1. /\ g \in pumping
          /\ next[g] \in Numbers
          /\ file' = [file EXCEPT ![next[g]] = g]
      BY <2>1 DEF OpenSegment
    <3>2. session[g] # g => file[next[g]] = 0
      <4>1. \A n \in Numbers : n >= n
        BY ConstantsAssumption DEF Numbers
      <4> QED
        BY <1>1, <3>1, <4>1 DEF OneInv, OneAtATime, OnlyNew
    <3> QED
      BY <1>1, <3>1, <3>2 DEF OneInv, TypeOK
  <2>2. UNCHANGED file \/ \E g \in Attempts : OpenSegment(g)
    BY <1>1 DEF vars, disk, service, actors, outside, store, Next, OperatorStep,
       StartupStep, AttemptStep, HandlerStep, FfmpegStep, EnterStart, StartSave,
       AcquireLease, Launch, BecomeRecording, StartedSave, AttemptFails,
       AttemptError, ErrorSave, EnterStop, StopSave, StopExit, StopComplete,
       CompleteSave, StopAbort, SeeExit, ReleaseAfterExit, ReportExit, Crash,
       ExitHost, AgentGone, BootWithoutRecovery, EnterRecover, RecoverSave,
       ProcessExits, SourceEnds
  <2> QED
    BY <2>1, <2>2
<1>2. OneInv /\ Dependable /\ [Next]_vars => [Keeps]_vars
  BY <1>1
<1> QED
  BY <1>2, OneInvHolds, PTL DEF Spec, RecoveryKeepsSegments

=============================================================================
