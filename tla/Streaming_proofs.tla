--------------------------- MODULE Streaming_proofs ---------------------------
(***************************************************************************)
(* The streaming service, for any number of clients, sessions and          *)
(* reconnections: one stream at a time, final stops, watched processes.    *)
(*                                                                         *)
(* The argument: the fields name a run only while nobody holds the gate,   *)
(* and the locals of a clean-up only while somebody does, so that what is  *)
(* alive, leased or fed is one run.  An observer or a retry whose session  *)
(* is not cancelled is of the current session, and of the run that the     *)
(* fields name or of none.                                                 *)
(***************************************************************************)
EXTENDS Streaming, FiniteSetTheorems, TLAPS

\* Who awaits what under the gate.
GateInv ==
  /\ holder = "none" <=> step = "none"
  /\ step \in {"acquire", "build"} => holder \in {"start", "exit", "retry"}
  /\ step = "delay" => holder \in {"exit", "retry"}
  /\ step \in {"kill", "detach", "join"} => holder \in {"start", "stop", "exit"}

\* The state that the service says it is in, and by whom.
StateInv ==
  /\ holder = "none" => state \in {"Idle", "Error", "Streaming", "Reconnecting"}
  /\ holder = "start" => state \in Active
  /\ holder = "stop" => state = "Stopping"
  /\ holder = "retry" => state = "Reconnecting"
  /\ holder = "exit" =>
       state = IF step \in {"kill", "detach", "join"} THEN "Streaming"
               ELSE "Reconnecting"
  /\ state \in Active => session # 0
  /\ holder = "start" /\ step \in {"kill", "detach", "join"}
       => session \in cancelled

\* What the fields and the locals name is all there is.
RunInv ==
  /\ alive \cup pumping \subseteq {runtime, cleaning}
  /\ leases \subseteq {runtime, cleaning}
                        \cup IF step = "build" THEN {Launching} ELSE {}
  /\ runtime # NoRun =>
       holder = "none" /\ state = "Streaming" /\ SessionOf(runtime) = session
  /\ cleaning # NoRun =>
       step \in {"kill", "detach", "join"} /\ SessionOf(cleaning) = session
  /\ step = "detach" => cleaning \notin alive
  /\ step = "join" => cleaning \notin alive \cup leases

\* A task that is not cancelled is of the current session.
TaskInv ==
  /\ \A g \in FfmpegRuns :
       observer[g] \in {"waiting", "seen"} /\ SessionOf(g) \notin cancelled =>
         runtime = g \/ (holder = "stop" /\ cleaning = g)
  /\ \A s \in Sessions :
       retry[s] = "queued" /\ s \notin cancelled =>
         /\ s = session /\ runtime = NoRun
         /\ holder = "stop" \/ (holder = "none" /\ state = "Reconnecting")

IInv == StreamingTypeOK /\ GateInv /\ StateInv /\ RunInv /\ TaskInv
          /\ ActiveIsWatched

-----------------------------------------------------------------------------
(* Proofs.                                                                  *)

\* No run is NoRun, and each has a session.
LEMMA RunFacts ==
  /\ NoRun \notin FfmpegRuns /\ 0 \notin Sessions
  /\ \A g \in FfmpegRuns : SessionOf(g) \in Sessions
BY DEF NoRun, FfmpegRuns, Sessions, SessionOf

\* The name of a launch is one of a run of the current session.
LEMMA LaunchingFacts ==
  ASSUME StreamingTypeOK
  PROVE  /\ SessionOf(Launching) = session
         /\ session # 0 => Launching \in FfmpegRuns
BY StreamingAssumption
   DEF StreamingTypeOK, Launching, FfmpegRuns, Sessions, SessionOf

\* No step takes a variable out of its type.
LEMMA TypeStep ==
  ASSUME StreamingTypeOK, GateInv, StateInv, [StreamingNext]_streamingVars
  PROVE  StreamingTypeOK'
<1> USE DEF StreamingTypeOK, GateInv, StateInv, Active, Over, Sessions,
           gateVars, sessionVars, runVars, taskVars
<1>1. ASSUME NEW r \in Clients, Ask(r, "start") PROVE StreamingTypeOK'
  BY <1>1 DEF Ask
<1>2. ASSUME NEW r \in Clients, Ask(r, "stop") PROVE StreamingTypeOK'
  BY <1>2 DEF Ask
<1>3. ASSUME NEW r \in Clients, GiveUpWaiting(r) PROVE StreamingTypeOK'
  BY <1>3 DEF GiveUpWaiting
<1>4. ASSUME NEW r \in Clients, HangUp(r) PROVE StreamingTypeOK'
  <2>1. opened[r] \in 1..MaxSessions
    BY StreamingAssumption, <1>4 DEF HangUp
  <2>2. cancelled' \subseteq 1..MaxSessions
    BY <2>1, <1>4 DEF HangUp
  <2>3. QED
    BY <2>2, <1>4 DEF HangUp
<1>5. ASSUME NEW r \in Clients, Answer(r) PROVE StreamingTypeOK'
  BY StreamingAssumption, <1>5 DEF Answer
<1>6. ASSUME NEW r \in Clients, RefuseStart(r) PROVE StreamingTypeOK'
  BY <1>6 DEF RefuseStart, Enters, CancelSession, BeginCleanup
<1>7. ASSUME NEW r \in Clients, BeginStart(r) PROVE StreamingTypeOK'
  BY StreamingAssumption, <1>7 DEF BeginStart, Enters
<1>8. ASSUME NEW r \in Clients, StopNothing(r) PROVE StreamingTypeOK'
  BY <1>8 DEF StopNothing
<1>9. ASSUME NEW r \in Clients, BeginStop(r) PROVE StreamingTypeOK'
  BY <1>9 DEF BeginStop, Enters, BeginCleanup
<1>10. CASE AcquireLease
  BY LaunchingFacts, <1>10 DEF AcquireLease
<1>11. CASE StartFfmpeg
  BY LaunchingFacts, <1>11 DEF StartFfmpeg, Release, TasksEnd
<1>12. CASE StartThrows
  BY <1>12 DEF StartThrows, Throws, CancelSession
<1>13. CASE ReconnectCancelled
  BY <1>13 DEF ReconnectCancelled, Throws, Release, TasksEnd
<1>14. CASE ReconnectFails
  BY <1>14 DEF ReconnectFails, Throws, Release, TasksEnd, EndWith
<1>15. CASE RetryFails
  BY StreamingAssumption, <1>15
     DEF RetryFails, Throws, NextAttempt, EndWith, Release, TasksEnd
<1>16. CASE DelayEnds
  BY <1>16 DEF DelayEnds
<1>17. CASE KillFfmpeg
  BY <1>17 DEF KillFfmpeg
<1>18. CASE DetachLease
  BY <1>18 DEF DetachLease
<1>19. CASE SessionOver
  BY StreamingAssumption, <1>19
     DEF SessionOver, Joined, CancelSession, EndWith, Release, TasksEnd
<1>20. CASE Reconnect
  <2>1. CASE EndWith("Error")
    BY <1>20, <2>1
       DEF Reconnect, Joined, NextAttempt, EndWith, Release, TasksEnd
  <2>2. CASE ~EndWith("Error")
    <3>1. /\ reconnects < MaxReconnects /\ reconnects' = reconnects + 1
          /\ state' = "Reconnecting" /\ step' = "delay"
      BY <1>20, <2>2 DEF Reconnect, NextAttempt
    <3>2. UNCHANGED <<holder, request, opened, taskVars>>
      BY <1>20, <2>2 DEF Reconnect, NextAttempt
    <3>3. UNCHANGED <<starts, session, cancelled, runtime, alive, leases,
                      pumping>>
      BY <1>20, <2>2 DEF Reconnect, Joined, NextAttempt
    <3>4. cleaning' = NoRun
      BY <1>20 DEF Reconnect, Joined
    <3>5. QED
      BY StreamingAssumption, <3>1, <3>2, <3>3, <3>4
  <2>3. QED
    BY <2>1, <2>2
<1>21. ASSUME NEW g \in FfmpegRuns, ObserveExit(g) PROVE StreamingTypeOK'
  BY <1>21 DEF ObserveExit, Obsolete
<1>22. ASSUME NEW g \in FfmpegRuns, IgnoreExit(g) PROVE StreamingTypeOK'
  BY <1>22 DEF IgnoreExit, Obsolete
<1>23. ASSUME NEW g \in FfmpegRuns, HandleExit(g) PROVE StreamingTypeOK'
  BY <1>23 DEF HandleExit, BeginCleanup, Obsolete
<1>24. ASSUME NEW g \in FfmpegRuns, FfmpegExits(g) PROVE StreamingTypeOK'
  BY <1>24 DEF FfmpegExits
<1>25. ASSUME NEW g \in FfmpegRuns, PumpEnds(g) PROVE StreamingTypeOK'
  BY <1>25 DEF PumpEnds
<1>26. ASSUME NEW s \in Sessions, DropRetry(s) PROVE StreamingTypeOK'
  BY <1>26 DEF DropRetry, Obsolete
<1>27. ASSUME NEW s \in Sessions, BeginRetry(s) PROVE StreamingTypeOK'
  BY StreamingAssumption, <1>27 DEF BeginRetry, Obsolete
<1>28. CASE UNCHANGED streamingVars
  BY <1>28 DEF streamingVars
<1> QED
  BY <1>1, <1>2, <1>3, <1>4, <1>5, <1>6, <1>7, <1>8, <1>9, <1>10, <1>11,
     <1>12, <1>13, <1>14, <1>15, <1>16, <1>17, <1>18, <1>19, <1>20, <1>21,
     <1>22, <1>23, <1>24, <1>25, <1>26, <1>27, <1>28
     DEF StreamingNext, RequestStep, GateStep, RunStep

\* Whoever takes the gate, holds it or releases it leaves the state that goes
\* with it, and a session where one is active.
LEMMA GateAndStateStep ==
  ASSUME IInv, [StreamingNext]_streamingVars
  PROVE  GateInv' /\ StateInv'
<1> USE DEF IInv, StreamingTypeOK, GateInv, StateInv, TaskInv, RunInv, Active,
           Over, gateVars, sessionVars, runVars, taskVars
<1>1. ASSUME NEW r \in Clients, Ask(r, "start") PROVE GateInv' /\ StateInv'
  BY <1>1 DEF Ask
<1>2. ASSUME NEW r \in Clients, Ask(r, "stop") PROVE GateInv' /\ StateInv'
  BY <1>2 DEF Ask
<1>3. ASSUME NEW r \in Clients, GiveUpWaiting(r) PROVE GateInv' /\ StateInv'
  BY <1>3 DEF GiveUpWaiting
<1>4. ASSUME NEW r \in Clients, HangUp(r) PROVE GateInv' /\ StateInv'
  BY <1>4 DEF HangUp
<1>5. ASSUME NEW r \in Clients, Answer(r) PROVE GateInv' /\ StateInv'
  BY <1>5 DEF Answer
<1>6. ASSUME NEW r \in Clients, RefuseStart(r) PROVE GateInv' /\ StateInv'
  BY <1>6 DEF RefuseStart, Enters, CancelSession, BeginCleanup
<1>7. ASSUME NEW r \in Clients, BeginStart(r) PROVE GateInv' /\ StateInv'
  BY <1>7 DEF BeginStart, Enters
<1>8. ASSUME NEW r \in Clients, StopNothing(r) PROVE GateInv' /\ StateInv'
  BY <1>8 DEF StopNothing
<1>9. ASSUME NEW r \in Clients, BeginStop(r) PROVE GateInv' /\ StateInv'
  BY <1>9 DEF BeginStop, Enters, BeginCleanup
<1>10. CASE AcquireLease
  BY <1>10 DEF AcquireLease
<1>11. CASE StartFfmpeg
  BY <1>11 DEF StartFfmpeg, Release, TasksEnd
<1>12. CASE StartThrows
  BY <1>12 DEF StartThrows, Throws, CancelSession
<1>13. CASE ReconnectCancelled
  BY <1>13 DEF ReconnectCancelled, Throws, Release, TasksEnd
<1>14. CASE ReconnectFails
  BY <1>14 DEF ReconnectFails, Throws, Release, TasksEnd, EndWith
<1>15. CASE RetryFails
  BY <1>15 DEF RetryFails, Throws, NextAttempt, EndWith, Release, TasksEnd
<1>16. CASE DelayEnds
  BY <1>16 DEF DelayEnds
<1>17. CASE KillFfmpeg
  BY <1>17 DEF KillFfmpeg
<1>18. CASE DetachLease
  BY <1>18 DEF DetachLease
<1>19. CASE SessionOver
  BY <1>19 DEF SessionOver, Joined, CancelSession, EndWith, Release, TasksEnd
<1>20. CASE Reconnect
  BY <1>20 DEF Reconnect, Joined, NextAttempt, EndWith, Release, TasksEnd
<1>21. ASSUME NEW g \in FfmpegRuns, ObserveExit(g) PROVE GateInv' /\ StateInv'
  BY <1>21 DEF ObserveExit, Obsolete
<1>22. ASSUME NEW g \in FfmpegRuns, IgnoreExit(g) PROVE GateInv' /\ StateInv'
  BY <1>22 DEF IgnoreExit, Obsolete
<1>23. ASSUME NEW g \in FfmpegRuns, HandleExit(g) PROVE GateInv' /\ StateInv'
  BY RunFacts, <1>23 DEF HandleExit, BeginCleanup, Obsolete
<1>24. ASSUME NEW g \in FfmpegRuns, FfmpegExits(g) PROVE GateInv' /\ StateInv'
  BY <1>24 DEF FfmpegExits
<1>25. ASSUME NEW g \in FfmpegRuns, PumpEnds(g) PROVE GateInv' /\ StateInv'
  BY <1>25 DEF PumpEnds
<1>26. ASSUME NEW s \in Sessions, DropRetry(s) PROVE GateInv' /\ StateInv'
  BY <1>26 DEF DropRetry, Obsolete
<1>27. ASSUME NEW s \in Sessions, BeginRetry(s) PROVE GateInv' /\ StateInv'
  BY <1>27 DEF BeginRetry, Obsolete
<1>28. CASE UNCHANGED streamingVars
  BY <1>28 DEF streamingVars
<1> QED
  BY <1>1, <1>2, <1>3, <1>4, <1>5, <1>6, <1>7, <1>8, <1>9, <1>10, <1>11,
     <1>12, <1>13, <1>14, <1>15, <1>16, <1>17, <1>18, <1>19, <1>20, <1>21,
     <1>22, <1>23, <1>24, <1>25, <1>26, <1>27, <1>28
     DEF StreamingNext, RequestStep, GateStep, RunStep

\* No step lets go of a process, a lease or a pump, nor makes a second one.
LEMMA RunInvStep ==
  ASSUME IInv, [StreamingNext]_streamingVars
  PROVE  RunInv'
<1> USE DEF IInv, StreamingTypeOK, GateInv, StateInv, TaskInv, RunInv, Active,
           Over, Launching, gateVars, sessionVars, runVars, taskVars
<1>1. ASSUME NEW r \in Clients, Ask(r, "start") PROVE RunInv'
  BY <1>1 DEF Ask
<1>2. ASSUME NEW r \in Clients, Ask(r, "stop") PROVE RunInv'
  BY <1>2 DEF Ask
<1>3. ASSUME NEW r \in Clients, GiveUpWaiting(r) PROVE RunInv'
  BY <1>3 DEF GiveUpWaiting
<1>4. ASSUME NEW r \in Clients, HangUp(r) PROVE RunInv'
  BY <1>4 DEF HangUp
<1>5. ASSUME NEW r \in Clients, Answer(r) PROVE RunInv'
  BY <1>5 DEF Answer
<1>6. ASSUME NEW r \in Clients, RefuseStart(r) PROVE RunInv'
  BY <1>6 DEF RefuseStart, Enters, CancelSession, BeginCleanup
<1>7. ASSUME NEW r \in Clients, BeginStart(r) PROVE RunInv'
  BY <1>7 DEF BeginStart, Enters
<1>8. ASSUME NEW r \in Clients, StopNothing(r) PROVE RunInv'
  BY <1>8 DEF StopNothing
<1>9. ASSUME NEW r \in Clients, BeginStop(r) PROVE RunInv'
  BY <1>9 DEF BeginStop, Enters, BeginCleanup
<1>10. CASE AcquireLease
  BY <1>10 DEF AcquireLease
<1>11. CASE StartFfmpeg
  BY LaunchingFacts, <1>11 DEF StartFfmpeg, Release, TasksEnd
<1>12. CASE StartThrows
  BY <1>12 DEF StartThrows, Throws, CancelSession
<1>13. CASE ReconnectCancelled
  BY <1>13 DEF ReconnectCancelled, Throws, Release, TasksEnd
<1>14. CASE ReconnectFails
  BY <1>14 DEF ReconnectFails, Throws, Release, TasksEnd, EndWith
<1>15. CASE RetryFails
  BY <1>15 DEF RetryFails, Throws, NextAttempt, EndWith, Release, TasksEnd
<1>16. CASE DelayEnds
  BY <1>16 DEF DelayEnds
<1>17. CASE KillFfmpeg
  BY <1>17 DEF KillFfmpeg
<1>18. CASE DetachLease
  BY <1>18 DEF DetachLease
<1>19. CASE SessionOver
  BY <1>19 DEF SessionOver, Joined, CancelSession, EndWith, Release, TasksEnd
<1>20. CASE Reconnect
  BY <1>20 DEF Reconnect, Joined, NextAttempt, EndWith, Release, TasksEnd
<1>21. ASSUME NEW g \in FfmpegRuns, ObserveExit(g) PROVE RunInv'
  BY <1>21 DEF ObserveExit, Obsolete
<1>22. ASSUME NEW g \in FfmpegRuns, IgnoreExit(g) PROVE RunInv'
  BY <1>22 DEF IgnoreExit, Obsolete
<1>23. ASSUME NEW g \in FfmpegRuns, HandleExit(g) PROVE RunInv'
  BY <1>23 DEF HandleExit, BeginCleanup, Obsolete
<1>24. ASSUME NEW g \in FfmpegRuns, FfmpegExits(g) PROVE RunInv'
  BY <1>24 DEF FfmpegExits
<1>25. ASSUME NEW g \in FfmpegRuns, PumpEnds(g) PROVE RunInv'
  BY <1>25 DEF PumpEnds
<1>26. ASSUME NEW s \in Sessions, DropRetry(s) PROVE RunInv'
  BY <1>26 DEF DropRetry, Obsolete
<1>27. ASSUME NEW s \in Sessions, BeginRetry(s) PROVE RunInv'
  BY <1>27 DEF BeginRetry, Obsolete
<1>28. CASE UNCHANGED streamingVars
  BY <1>28 DEF streamingVars
<1> QED
  BY <1>1, <1>2, <1>3, <1>4, <1>5, <1>6, <1>7, <1>8, <1>9, <1>10, <1>11,
     <1>12, <1>13, <1>14, <1>15, <1>16, <1>17, <1>18, <1>19, <1>20, <1>21,
     <1>22, <1>23, <1>24, <1>25, <1>26, <1>27, <1>28
     DEF StreamingNext, RequestStep, GateStep, RunStep

\* No step leaves a task of another session, or of an earlier run, that is not
\* cancelled: a session is replaced when it has none.
LEMMA TaskInvStep ==
  ASSUME IInv, [StreamingNext]_streamingVars
  PROVE  TaskInv'
<1> USE DEF IInv, StreamingTypeOK, GateInv, StateInv, TaskInv, RunInv, Active,
           Over, gateVars, sessionVars, runVars, taskVars
<1>1. ASSUME NEW r \in Clients, Ask(r, "start") PROVE TaskInv'
  BY <1>1 DEF Ask
<1>2. ASSUME NEW r \in Clients, Ask(r, "stop") PROVE TaskInv'
  BY <1>2 DEF Ask
<1>3. ASSUME NEW r \in Clients, GiveUpWaiting(r) PROVE TaskInv'
  BY <1>3 DEF GiveUpWaiting
<1>4. ASSUME NEW r \in Clients, HangUp(r) PROVE TaskInv'
  BY <1>4 DEF HangUp
<1>5. ASSUME NEW r \in Clients, Answer(r) PROVE TaskInv'
  BY <1>5 DEF Answer
<1>6. ASSUME NEW r \in Clients, RefuseStart(r) PROVE TaskInv'
  BY <1>6 DEF RefuseStart, Enters, CancelSession, BeginCleanup
<1>7. ASSUME NEW r \in Clients, BeginStart(r) PROVE TaskInv'
  BY <1>7 DEF BeginStart, Enters
<1>8. ASSUME NEW r \in Clients, StopNothing(r) PROVE TaskInv'
  BY <1>8 DEF StopNothing
<1>9. ASSUME NEW r \in Clients, BeginStop(r) PROVE TaskInv'
  BY <1>9 DEF BeginStop, Enters, BeginCleanup
<1>10. CASE AcquireLease
  BY <1>10 DEF AcquireLease
<1>11. CASE StartFfmpeg
  BY RunFacts, <1>11 DEF StartFfmpeg, Release, TasksEnd
<1>12. CASE StartThrows
  BY <1>12 DEF StartThrows, Throws, CancelSession
<1>13. CASE ReconnectCancelled
  BY <1>13 DEF ReconnectCancelled, Throws, Release, TasksEnd
<1>14. CASE ReconnectFails
  BY <1>14 DEF ReconnectFails, Throws, Release, TasksEnd, EndWith
<1>15. CASE RetryFails
  BY <1>15 DEF RetryFails, Throws, NextAttempt, EndWith, Release, TasksEnd
<1>16. CASE DelayEnds
  BY <1>16 DEF DelayEnds
<1>17. CASE KillFfmpeg
  BY <1>17 DEF KillFfmpeg
<1>18. CASE DetachLease
  BY <1>18 DEF DetachLease
<1>19. CASE SessionOver
  BY RunFacts, <1>19
     DEF SessionOver, Joined, CancelSession, EndWith, Release, TasksEnd
<1>20. CASE Reconnect
  BY <1>20 DEF Reconnect, Joined, NextAttempt, EndWith, Release, TasksEnd
<1>21. ASSUME NEW g \in FfmpegRuns, ObserveExit(g) PROVE TaskInv'
  BY <1>21 DEF ObserveExit, Obsolete
<1>22. ASSUME NEW g \in FfmpegRuns, IgnoreExit(g) PROVE TaskInv'
  BY <1>22 DEF IgnoreExit, Obsolete
<1>23. ASSUME NEW g \in FfmpegRuns, HandleExit(g) PROVE TaskInv'
  BY RunFacts, <1>23 DEF HandleExit, BeginCleanup, Obsolete
<1>24. ASSUME NEW g \in FfmpegRuns, FfmpegExits(g) PROVE TaskInv'
  BY <1>24 DEF FfmpegExits
<1>25. ASSUME NEW g \in FfmpegRuns, PumpEnds(g) PROVE TaskInv'
  BY <1>25 DEF PumpEnds
<1>26. ASSUME NEW s \in Sessions, DropRetry(s) PROVE TaskInv'
  BY <1>26 DEF DropRetry, Obsolete
<1>27. ASSUME NEW s \in Sessions, BeginRetry(s) PROVE TaskInv'
  BY <1>27 DEF BeginRetry, Obsolete
<1>28. CASE UNCHANGED streamingVars
  BY <1>28 DEF streamingVars
<1> QED
  BY <1>1, <1>2, <1>3, <1>4, <1>5, <1>6, <1>7, <1>8, <1>9, <1>10, <1>11,
     <1>12, <1>13, <1>14, <1>15, <1>16, <1>17, <1>18, <1>19, <1>20, <1>21,
     <1>22, <1>23, <1>24, <1>25, <1>26, <1>27, <1>28
     DEF StreamingNext, RequestStep, GateStep, RunStep

\* Whoever releases the gate of an active service leaves an observer or a
\* retry, and neither ends but for a cancelled session.
LEMMA WatchStep ==
  ASSUME IInv, [StreamingNext]_streamingVars
  PROVE  ActiveIsWatched'
<1> USE DEF IInv, StreamingTypeOK, GateInv, StateInv, TaskInv, RunInv,
           ActiveIsWatched, Active, Over, gateVars, sessionVars, runVars,
           taskVars
<1>1. ASSUME NEW r \in Clients, Ask(r, "start") PROVE ActiveIsWatched'
  BY <1>1 DEF Ask
<1>2. ASSUME NEW r \in Clients, Ask(r, "stop") PROVE ActiveIsWatched'
  BY <1>2 DEF Ask
<1>3. ASSUME NEW r \in Clients, GiveUpWaiting(r) PROVE ActiveIsWatched'
  BY <1>3 DEF GiveUpWaiting
<1>4. ASSUME NEW r \in Clients, HangUp(r) PROVE ActiveIsWatched'
  BY <1>4 DEF HangUp
<1>5. ASSUME NEW r \in Clients, Answer(r) PROVE ActiveIsWatched'
  BY <1>5 DEF Answer
<1>6. ASSUME NEW r \in Clients, RefuseStart(r) PROVE ActiveIsWatched'
  BY <1>6 DEF RefuseStart, Enters, CancelSession, BeginCleanup
<1>7. ASSUME NEW r \in Clients, BeginStart(r) PROVE ActiveIsWatched'
  BY <1>7 DEF BeginStart, Enters
<1>8. ASSUME NEW r \in Clients, StopNothing(r) PROVE ActiveIsWatched'
  BY <1>8 DEF StopNothing
<1>9. ASSUME NEW r \in Clients, BeginStop(r) PROVE ActiveIsWatched'
  BY <1>9 DEF BeginStop, Enters, BeginCleanup
<1>10. CASE AcquireLease
  BY <1>10 DEF AcquireLease
<1>11. CASE StartFfmpeg
  BY RunFacts, LaunchingFacts, <1>11 DEF StartFfmpeg, Release, TasksEnd
<1>12. CASE StartThrows
  BY <1>12 DEF StartThrows, Throws, CancelSession
<1>13. CASE ReconnectCancelled
  BY <1>13 DEF ReconnectCancelled, Throws, Release, TasksEnd
<1>14. CASE ReconnectFails
  BY RunFacts, LaunchingFacts, <1>14
     DEF ReconnectFails, Throws, Release, TasksEnd, EndWith
<1>15. CASE RetryFails
  BY <1>15 DEF RetryFails, Throws, NextAttempt, EndWith, Release, TasksEnd
<1>16. CASE DelayEnds
  BY <1>16 DEF DelayEnds
<1>17. CASE KillFfmpeg
  BY <1>17 DEF KillFfmpeg
<1>18. CASE DetachLease
  BY <1>18 DEF DetachLease
<1>19. CASE SessionOver
  BY <1>19 DEF SessionOver, Joined, CancelSession, EndWith, Release, TasksEnd
<1>20. CASE Reconnect
  BY <1>20 DEF Reconnect, Joined, NextAttempt, EndWith, Release, TasksEnd
<1>21. ASSUME NEW g \in FfmpegRuns, ObserveExit(g) PROVE ActiveIsWatched'
  BY <1>21 DEF ObserveExit, Obsolete
<1>22. ASSUME NEW g \in FfmpegRuns, IgnoreExit(g) PROVE ActiveIsWatched'
  BY <1>22 DEF IgnoreExit, Obsolete
<1>23. ASSUME NEW g \in FfmpegRuns, HandleExit(g) PROVE ActiveIsWatched'
  BY <1>23 DEF HandleExit, BeginCleanup, Obsolete
<1>24. ASSUME NEW g \in FfmpegRuns, FfmpegExits(g) PROVE ActiveIsWatched'
  BY <1>24 DEF FfmpegExits
<1>25. ASSUME NEW g \in FfmpegRuns, PumpEnds(g) PROVE ActiveIsWatched'
  BY <1>25 DEF PumpEnds
<1>26. ASSUME NEW s \in Sessions, DropRetry(s) PROVE ActiveIsWatched'
  BY <1>26 DEF DropRetry, Obsolete
<1>27. ASSUME NEW s \in Sessions, BeginRetry(s) PROVE ActiveIsWatched'
  BY <1>27 DEF BeginRetry, Obsolete
<1>28. CASE UNCHANGED streamingVars
  BY <1>28 DEF streamingVars
<1> QED
  BY <1>1, <1>2, <1>3, <1>4, <1>5, <1>6, <1>7, <1>8, <1>9, <1>10, <1>11,
     <1>12, <1>13, <1>14, <1>15, <1>16, <1>17, <1>18, <1>19, <1>20, <1>21,
     <1>22, <1>23, <1>24, <1>25, <1>26, <1>27, <1>28
     DEF StreamingNext, RequestStep, GateStep, RunStep

\* The service starts idle, with nothing to watch.
LEMMA Initially == StreamingInit => IInv
BY StreamingAssumption
   DEF StreamingInit, IInv, StreamingTypeOK, GateInv, StateInv, RunInv, TaskInv,
       ActiveIsWatched, Active, Over, Sessions, NoRun

\* The parts of the invariant hold each other up.
LEMMA Inductive == IInv /\ [StreamingNext]_streamingVars => IInv'
<1> SUFFICES ASSUME IInv, [StreamingNext]_streamingVars PROVE IInv'
  OBVIOUS
<1>1. StreamingTypeOK'
  BY TypeStep DEF IInv
<1>2. QED
  BY <1>1, GateAndStateStep, RunInvStep, TaskInvStep, WatchStep DEF IInv

\* The invariant that the properties follow from.
THEOREM Invariance == StreamingSpec => []IInv
BY Initially, Inductive, PTL DEF StreamingSpec

\* A set with at most one value has at most one element.
LEMMA AtMostOne ==
  ASSUME NEW S, NEW x, S \subseteq {x} PROVE Cardinality(S) <= 1
<1>1. S = {} \/ S = {x}
  OBVIOUS
<1>2. Cardinality({}) = 0 /\ Cardinality({x}) = 1
  BY FS_EmptySet, FS_Singleton
<1>3. QED
  BY <1>1, <1>2

\* Every variable always holds a value of its kind.
THEOREM TypeCorrect == StreamingSpec => []StreamingTypeOK
<1>1. IInv => StreamingTypeOK
  BY DEF IInv
<1>2. QED
  BY Invariance, <1>1, PTL

\* However many clients start and stop, and whatever exits and retries in
\* between, one FFmpeg process publishes and one lease is held.
THEOREM StreamsOne == StreamingSpec => []OneStreamer
<1>1. ASSUME IInv PROVE OneStreamer
  <2>1. runtime = NoRun \/ (cleaning = NoRun /\ step # "build")
    BY <1>1 DEF IInv, GateInv, RunInv
  <2>2. step = "build" => cleaning = NoRun /\ runtime = NoRun
    BY <1>1 DEF IInv, GateInv, RunInv
  <2>3. alive \subseteq FfmpegRuns /\ leases \subseteq FfmpegRuns
    BY <1>1 DEF IInv, StreamingTypeOK
  <2>4. PICK x : alive \subseteq {x}
    BY <1>1, <2>1, <2>3, RunFacts DEF IInv, RunInv
  <2>5. PICK y : leases \subseteq {y}
    BY <1>1, <2>1, <2>2, <2>3, RunFacts DEF IInv, RunInv
  <2>6. QED
    BY <2>4, <2>5, AtMostOne DEF OneStreamer
<1>2. QED
  BY Invariance, <1>1, PTL

\* After a stop, a failed start or an error, nothing runs and nothing that is
\* still to run will start FFmpeg again.
THEOREM StopsAreFinal == StreamingSpec => []StopIsFinal
<1>1. ASSUME IInv PROVE StopIsFinal
  <2> SUFFICES ASSUME holder = "none", state \in {"Idle", "Error"}
               PROVE  /\ alive = {} /\ leases = {} /\ pumping = {}
                      /\ \A g \in FfmpegRuns :
                           observer[g] \in {"waiting", "seen"}
                             => SessionOf(g) \in cancelled
                      /\ \A s \in Sessions :
                           retry[s] = "queued" => s \in cancelled
    BY DEF StopIsFinal
  <2>1. runtime = NoRun /\ cleaning = NoRun /\ step = "none"
    BY <1>1 DEF IInv, GateInv, RunInv
  <2>2. alive = {} /\ leases = {} /\ pumping = {}
    BY <1>1, <2>1, RunFacts DEF IInv, RunInv, StreamingTypeOK
  <2>3. QED
    BY <1>1, <2>1, <2>2, RunFacts DEF IInv, TaskInv
<1>2. QED
  BY Invariance, <1>1, PTL

\* A service that says it streams or reconnects, in a session that nobody
\* cancelled, is always watched.
THEOREM ActivesAreWatched == StreamingSpec => []ActiveIsWatched
<1>1. IInv => ActiveIsWatched
  BY DEF IInv
<1>2. QED
  BY Invariance, <1>1, PTL

=============================================================================
