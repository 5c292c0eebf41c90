------------------------ MODULE MatchControl_proofs -------------------------
(***************************************************************************)
(* Theorems about MatchControl, for every set of matches and of requests,  *)
(* any number of crashes and any failing save.                             *)
(***************************************************************************)
EXTENDS MatchControl, TLAPS

USE ConstantsAssumption, InUseAssumption

(* The row a command writes is a row again.                                *)
LEMMA RowAfterType ==
  ASSUME NEW c, NEW r \in Rows
  PROVE  RowAfter(c, r) \in Rows
<1> USE DEF Rows, Periods
<1>1. NewStatus(c) \in Status
  BY DEF NewStatus, Status, LiveStatus, Terminal
<1>2. Opens(c, r.period) \in Periods
  BY DEF Opens
<1> QED
  BY <1>1, <1>2 DEF RowAfter

(* A request past its first step names a match.                            *)
Named == \A o \in Operators : pc[o] # "idle" => subject[o] \in Matches

(* TypeOK, preserved by every step that starts with named requests.        *)
LEMMA TypeStep == TypeOK /\ Named /\ [Next]_vars => TypeOK'
<1> SUFFICES ASSUME TypeOK, Named, [Next]_vars PROVE TypeOK'
  OBVIOUS
<1> USE DEF TypeOK, Goto
<1>0. NewMatch \in Rows
  BY DEF NewMatch, Rows, Status, Periods
<1>1. ASSUME NEW o \in Operators, NEW c \in InUse, NEW m \in Matches,
             AskClock(o, c, m) \/ AskMatch(o, c, m) \/ Press(o, c, m)
      PROVE  TypeOK'
  <2>1. CASE AskClock(o, c, m)
    BY <2>1 DEF AskClock, store, clock, host
  <2>2. CASE AskMatch(o, c, m)
    BY <2>2 DEF AskMatch, store, clock, host
  <2>3. CASE Press(o, c, m)
    BY <2>3 DEF Press, store, clock, host
  <2> QED BY <1>1, <2>1, <2>2, <2>3
<1>2. ASSUME NEW o \in Operators, NEW m \in Matches, ReadForReady(o, m)
      PROVE  TypeOK'
  BY <1>2 DEF ReadForReady, store, clock, host
<1>3. ASSUME NEW o \in Operators, MarkReady(o) PROVE TypeOK'
  <2>1. copy[o] \in Rows
    OBVIOUS
  <2>2. [copy[o] EXCEPT !.status = "Ready"] \in Rows
    BY <2>1 DEF Rows, Status
  <2> QED BY <1>0, <1>3, <2>2 DEF MarkReady, Answered, clock, host
<1>4. ASSUME NEW o \in Operators, NEW m \in Matches, Decide(o, m)
      PROVE  TypeOK'
  <2>1. Seen(o, m) \in Rows
    BY DEF Seen
  <2>2. RowAfter(cmd[o], Seen(o, m)) \in Rows
    BY <2>1, RowAfterType
  <2>3. period' \in Periods
    BY <1>4 DEF Decide, ClockCalls, Opens, Periods
  <2> QED BY <1>4, <2>2, <2>3 DEF Decide, ClockCalls, store, host
<1>5. ASSUME NEW o \in Operators, Correct(o) PROVE TypeOK'
  BY <1>5 DEF Correct, store, clock, host
<1>6. ASSUME NEW o \in Operators, Refuse(o) PROVE TypeOK'
  BY <1>0, <1>6 DEF Refuse, Answered, store, clock, host
<1>7. ASSUME NEW o \in Operators, SaveRow(o) PROVE TypeOK'
  BY <1>7 DEF SaveRow, clock, host
<1>8. ASSUME NEW o \in Operators, SaveClock(o) PROVE TypeOK'
  <2>1. [running |-> running, period |-> period] \in Clocks
    BY Zenon DEF Clocks
  <2>2. torn' \in BOOLEAN
    BY <1>8, Zenon DEF SaveClock
  <2>3. UNCHANGED <<row, clock, host>> /\ gate' = NoOne /\ Answered(o)
    BY <1>8 DEF SaveClock
  <2>4. checkpoint' \in [Matches -> Clocks] /\ saved' \in SUBSET Matches
    <3>1. subject[o] \in Matches
      BY <1>8 DEF SaveClock, Named
    <3> QED BY <1>8, <2>1, <3>1 DEF SaveClock
  <2> QED BY <1>0, <2>2, <2>3, <2>4 DEF Answered, clock, host
<1>9. ASSUME NEW o \in Operators, SaveThrows(o) PROVE TypeOK'
  BY <1>0, <1>9 DEF SaveThrows, Answered, store, clock, host
<1>10. CASE Crash
  <2>1. torn' \in BOOLEAN /\ ended' \in BOOLEAN /\ running' \in BOOLEAN
    BY <1>10, Zenon DEF Crash
  <2>2. period' \in Periods
    BY <1>10 DEF Crash, Periods
  <2> QED BY <1>0, <1>10, <2>1, <2>2 DEF Crash, store
<1>11. CASE Boot
  BY <1>11 DEF Boot, Recover, Clocks, store, clock, requests
<1>12. CASE UNCHANGED vars
  BY <1>12 DEF vars, store, clock, host, requests
<1> QED
  BY <1>1, <1>2, <1>3, <1>4, <1>5, <1>6, <1>7, <1>8, <1>9, <1>10, <1>11,
     <1>12 DEF Next, RequestStep, CommandStep

(* The locals of the requests: a command in its save steps holds the gate, *)
(* and what it is about to write is for the clock's match.                 *)
Held ==
  \A o \in Operators : pc[o] \in {"saveRow", "saveClock"} =>
                          gate = o /\ bound = subject[o]

(* An agent that is down serves nobody and has no clock.                   *)
Quiet ==
  agent = "down" => bound = NoMatch /\ \A o \in Operators : pc[o] = "idle"

(* The inductive invariant of AtMostOneLive: a bound clock is bound to the *)
(* only match that may be live.                                            *)
BoundIsLive ==
  /\ bound # NoMatch => Live \subseteq {bound}
  /\ bound = NoMatch => AtMostOneLive

ControlInv == TypeOK /\ Named /\ Held /\ Quiet /\ BoundIsLive

(* ControlInv is preserved by every step.                                 *)
LEMMA InvStep == ControlInv /\ [Next]_vars => ControlInv'
<1> SUFFICES ASSUME ControlInv, [Next]_vars PROVE ControlInv'
  OBVIOUS
<1>0. TypeOK'
  BY TypeStep DEF ControlInv
<1> USE DEF ControlInv, TypeOK, Goto
<1>1. ASSUME NEW o \in Operators, NEW c \in InUse, NEW m \in Matches,
             AskClock(o, c, m) \/ AskMatch(o, c, m) \/ Press(o, c, m)
      PROVE  Named' /\ Held' /\ Quiet' /\ BoundIsLive'
  <2>1. pc[o] = "idle" /\ pc' = [pc EXCEPT ![o] = "queued"]
    BY <1>1 DEF AskClock, AskMatch, Press
  <2>2. subject' = [subject EXCEPT ![o] = m]
    BY <1>1 DEF AskClock, AskMatch, Press
  <2>3. UNCHANGED <<row, bound, gate>>
    BY <1>1 DEF AskClock, AskMatch, Press, store, clock
  <2>4. Named'
    BY <2>1, <2>2 DEF Named
  <2>5. Held'
    BY <2>1, <2>2, <2>3 DEF Held
  <2>6. agent = "up" /\ agent' = agent
    BY <1>1 DEF AskClock, AskMatch, Press, host
  <2>7. Quiet'
    BY <2>6 DEF Quiet
  <2> QED BY <2>3, <2>4, <2>5, <2>7 DEF BoundIsLive, AtMostOneLive, Live
<1>2. ASSUME NEW o \in Operators, NEW m \in Matches, ReadForReady(o, m)
      PROVE  Named' /\ Held' /\ Quiet' /\ BoundIsLive'
  <2> USE <1>2 DEF ReadForReady, store, clock, host
  <2>1. Named' BY DEF Named
  <2>2. Held' BY DEF Held
  <2>3. Quiet' BY DEF Quiet
  <2> QED BY <2>1, <2>2, <2>3 DEF BoundIsLive, AtMostOneLive, Live
<1>3. ASSUME NEW o \in Operators, MarkReady(o)
      PROVE  Named' /\ Held' /\ Quiet' /\ BoundIsLive'
  <2> USE <1>3 DEF MarkReady, Answered, clock, host
  <2>1. Named' BY DEF Named
  <2>2. Held' BY DEF Held
  <2>3. Live' \subseteq Live
    BY DEF Live, LiveStatus, Rows
  <2>4. BoundIsLive'
    BY <2>3 DEF BoundIsLive, AtMostOneLive
  <2>5. Quiet' BY DEF Quiet
  <2> QED BY <2>1, <2>2, <2>4, <2>5
<1>4. ASSUME NEW o \in Operators, NEW m \in Matches, Decide(o, m)
      PROVE  Named' /\ Held' /\ Quiet' /\ BoundIsLive'
  <2>1. /\ gate = NoOne /\ gate' = o /\ pc[o] = "queued"
        /\ pc' = [pc EXCEPT ![o] = "saveRow"]
        /\ subject' = [subject EXCEPT ![o] = m]
        /\ row' = row
    BY <1>4 DEF Decide, Enters, store
  <2>2. bound' = m /\ Live \subseteq {m}
    <3>1. CASE cmd[o] = "start"
      BY <1>4, <3>1 DEF Decide, Admitted, Alone, ClockCalls
    <3>2. CASE cmd[o] # "start"
      <4>1. bound = subject[o] /\ bound \in Matches /\ bound' = bound
        BY <1>4, <2>1, <3>2 DEF Decide, Enters, ClockCalls, Named
      <4>2. Live \subseteq {bound}
        BY <4>1 DEF BoundIsLive
      <4>3. m = bound
        BY <1>4, <4>1, <4>2 DEF Decide, Resolves
      <4> QED BY <4>1, <4>2, <4>3
    <3> QED BY <3>1, <3>2
  <2>3. Named'
    BY <2>1 DEF Named
  <2>4. Held'
    BY <2>1, <2>2 DEF Held
  <2>5. BoundIsLive'
    BY <2>1, <2>2 DEF BoundIsLive, Live
  <2>6. agent' = agent
    BY <1>4 DEF Decide, host
  <2>7. Quiet'
    BY <2>1, <2>6 DEF Quiet
  <2> QED BY <2>3, <2>4, <2>5, <2>7
<1>5. ASSUME NEW o \in Operators, Correct(o)
      PROVE  Named' /\ Held' /\ Quiet' /\ BoundIsLive'
  <2> USE <1>5 DEF Correct, Enters, store, clock, host
  <2>1. Named' BY DEF Named
  <2>2. Held' BY DEF Held
  <2>3. Quiet' BY DEF Quiet
  <2> QED BY <2>1, <2>2, <2>3 DEF BoundIsLive, AtMostOneLive, Live
<1>6. ASSUME NEW o \in Operators, Refuse(o)
      PROVE  Named' /\ Held' /\ Quiet' /\ BoundIsLive'
  <2> USE <1>6 DEF Refuse, Answered, store, clock, host
  <2>1. Named' BY DEF Named
  <2>2. Held' BY DEF Held
  <2>3. Quiet' BY DEF Quiet
  <2> QED BY <2>1, <2>2, <2>3 DEF BoundIsLive, AtMostOneLive, Live
<1>7. ASSUME NEW o \in Operators, SaveRow(o)
      PROVE  Named' /\ Held' /\ Quiet' /\ BoundIsLive'
  <2> USE <1>7 DEF SaveRow, clock, host
  <2>1. Named' BY DEF Named
  <2>2. Held' BY DEF Held
  <2>3. bound = subject[o] /\ bound \in Matches /\ bound' = bound
    BY DEF Held, Named
  <2>4. Live' \subseteq {bound}
    BY <2>3 DEF BoundIsLive, Live
  <2>5. BoundIsLive'
    BY <2>3, <2>4 DEF BoundIsLive
  <2>6. Quiet' BY DEF Quiet
  <2> QED BY <2>1, <2>2, <2>5, <2>6
<1>8. ASSUME NEW o \in Operators, SaveClock(o) \/ SaveThrows(o)
      PROVE  Named' /\ Held' /\ Quiet' /\ BoundIsLive'
  <2>1. /\ pc[o] \in {"saveRow", "saveClock"}
        /\ Answered(o)
        /\ UNCHANGED <<row, bound, agent>>
    BY <1>8 DEF SaveClock, SaveThrows, store, clock, host
  <2>2. Named' BY <2>1 DEF Named, Answered
  <2>3. \A q \in Operators : pc'[q] \notin {"saveRow", "saveClock"}
    BY <2>1 DEF Held, Answered
  <2>4. Held' BY <2>3 DEF Held
  <2>5. Quiet' BY <2>1 DEF Quiet
  <2> QED BY <2>1, <2>2, <2>4, <2>5 DEF BoundIsLive, AtMostOneLive, Live
<1>9. CASE Crash
  <2> USE <1>9 DEF Crash, store
  <2>1. Named' /\ Held' /\ Quiet' BY DEF Named, Held, Quiet
  <2>2. AtMostOneLive
    BY DEF BoundIsLive, AtMostOneLive
  <2>3. BoundIsLive'
    BY <2>2 DEF BoundIsLive, AtMostOneLive, Live
  <2> QED BY <1>0, <2>1, <2>3
<1>10. CASE Boot
  <2>1. UNCHANGED <<row, gate, pc, subject>>
    BY <1>10 DEF Boot, store, requests
  <2>2. agent' = "up" /\ \A o \in Operators : pc[o] = "idle"
    BY <1>10 DEF Boot, Quiet
  <2>3. Named' /\ Held' /\ Quiet'
    BY <2>1, <2>2 DEF Named, Held, Quiet
  <2>4. Live' = Live
    BY <2>1 DEF Live
  <2>5. ASSUME \E m \in Matches : Live = {m} /\ Recover(m)
        PROVE  BoundIsLive'
    <3>1. PICK m \in Matches : Live = {m} /\ bound' = m
      BY <2>5 DEF Recover
    <3> QED BY <2>4, <3>1 DEF BoundIsLive
  <2>6. ASSUME UNCHANGED clock PROVE BoundIsLive'
    <3>1. bound' = bound
      BY <2>6 DEF clock
    <3>2. AtMostOneLive' <=> AtMostOneLive
      BY <2>4 DEF AtMostOneLive
    <3> QED BY <2>4, <3>1, <3>2 DEF BoundIsLive
  <2> QED BY <1>0, <1>10, <2>3, <2>5, <2>6 DEF Boot
<1>11. CASE UNCHANGED vars
  BY <1>11 DEF vars, store, clock, host, requests, Named, Held, Quiet,
     BoundIsLive, AtMostOneLive, Live
<1> QED
  BY <1>0, <1>1, <1>2, <1>3, <1>4, <1>5, <1>6, <1>7, <1>8, <1>9, <1>10,
     <1>11 DEF Next, RequestStep, CommandStep

(* TypeOK holds initially.                                                *)
LEMMA TypeInit == Init => TypeOK
<1> SUFFICES ASSUME Init PROVE TypeOK
  OBVIOUS
<1>1. ended \in BOOLEAN /\ running \in BOOLEAN /\ torn \in BOOLEAN
  BY Zenon DEF Init
<1>2. NewMatch \in Rows /\ period \in Periods
  BY DEF Init, NewMatch, Rows, Status, Periods
<1>3. [running |-> FALSE, period |-> 0] \in Clocks
  <2>1. FALSE \in BOOLEAN /\ 0 \in Periods
    BY DEF Periods
  <2> QED BY <2>1, Zenon DEF Clocks
<1> QED
  BY <1>1, <1>2, <1>3 DEF Init, TypeOK

(* ControlInv holds initially.                                            *)
LEMMA InvInit == Init => ControlInv
<1> SUFFICES ASSUME Init PROVE ControlInv
  OBVIOUS
<1>1. TypeOK
  BY TypeInit
<1>2. Live = {}
  BY DEF Init, Live, NewMatch, LiveStatus
<1> QED
  BY <1>1, <1>2 DEF Init, ControlInv, Named, Held, Quiet, BoundIsLive,
     AtMostOneLive

(* ControlInv in every reachable state.                                   *)
THEOREM InvCorrect == Spec => []ControlInv
  BY InvInit, InvStep, PTL DEF Spec

(* Type correctness: TypeOK in every reachable state.                      *)
THEOREM TypeCorrect == Spec => []TypeOK
<1>1. ControlInv => TypeOK
  BY DEF ControlInv
<1> QED BY <1>1, InvCorrect, PTL

(* At most one match is operationally live, for any number of matches and  *)
(* requests, whatever stale rows they write, saves fail or crashes come.   *)
THEOREM OneLive == Spec => []AtMostOneLive
<1>1. ControlInv => AtMostOneLive
  BY DEF ControlInv, BoundIsLive, AtMostOneLive
<1> QED BY <1>1, InvCorrect, PTL

-----------------------------------------------------------------------------
(* CopiesAgree: what the clock, the row and the checkpoint say in between. *)

RowAgrees(m) ==
  row[m].status = "Ready" \/ (running <=> row[m].status = "Active")

CheckpointAgrees(m) == checkpoint[m].running <=> row[m].status = "Active"

\* Request o has written its row, and not yet the checkpoint.
Written(o) == pc[o] = "saveClock" /\ cmd[o] # "correct"

\* A decided command is about to write a row that agrees with the clock.
Decided ==
  \A o \in Operators : pc[o] = "saveRow" =>
    cmd[o] # "correct" /\ (running <=> copy[o].status = "Active")

\* A command about to write its checkpoint finds the row agreeing.
Unfinished ==
  \A o \in Operators :
    pc[o] = "saveClock" /\ (cmd[o] = "correct" => ~torn) => RowAgrees(bound)

\* What a crash would leave: the checkpoint of a live match agrees.
StoreAgrees ==
  ~torn /\ (\A o \in Operators : ~Written(o)) =>
    \A m \in Live \cap saved : CheckpointAgrees(m)

CopiesInv == Decided /\ Unfinished /\ StoreAgrees /\ CopiesAgree

(* A row written by a command agrees with the clock it has left.           *)
LEMMA RowAfterAgrees ==
  ASSUME NEW c, NEW r, NEW m, ClockCalls(c, m), c # "correct"
  PROVE  running' <=> RowAfter(c, r).status = "Active"
<1>1. RowAfter(c, r).status = NewStatus(c)
  BY DEF RowAfter
<1>2. NewStatus(c) = "Active" <=> c \in Runs
  BY DEF NewStatus
<1>3. running' <=> c \in Runs
  BY Zenon DEF ClockCalls
<1> QED BY <1>1, <1>2, <1>3, Zenon

(* CopiesInv is preserved by every step from a state of ControlInv.        *)
LEMMA CopiesStep == ControlInv /\ CopiesInv /\ [Next]_vars => CopiesInv'
<1> SUFFICES ASSUME ControlInv, CopiesInv, [Next]_vars PROVE CopiesInv'
  OBVIOUS
<1>0. TypeOK /\ Named /\ Held /\ Quiet /\ BoundIsLive
  BY DEF ControlInv
<1> USE <1>0 DEF Goto
<1>1. ASSUME NEW o \in Operators, NEW m \in Matches,
             \/ \E c \in InUse : \/ AskClock(o, c, m)
                               \/ AskMatch(o, c, m)
                               \/ Press(o, c, m)
             \/ ReadForReady(o, m)
      PROVE  CopiesInv'
  <2>1. /\ pc[o] = "idle"
        /\ \A q \in Operators : pc'[q] \in {"saveRow", "saveClock"} =>
             pc'[q] = pc[q] /\ cmd'[q] = cmd[q] /\ copy'[q] = copy[q]
        /\ \A q \in Operators : pc[q] = "saveClock" => pc'[q] = pc[q] /\ cmd'[q] = cmd[q]
    BY <1>1 DEF AskClock, AskMatch, Press, ReadForReady, TypeOK
  <2>2. UNCHANGED <<row, saved, checkpoint, bound, running, period, gate, agent, torn>>
    BY <1>1 DEF AskClock, AskMatch, Press, ReadForReady, store, clock, host
  <2>3. Decided' /\ Unfinished'
    BY <2>1, <2>2 DEF CopiesInv, Decided, Unfinished, RowAgrees
  <2>4. StoreAgrees'
    BY <2>1, <2>2 DEF CopiesInv, StoreAgrees, Written, Live, CheckpointAgrees
  <2>5. CopiesAgree'
    BY <2>2 DEF CopiesInv, CopiesAgree
  <2> QED BY <2>3, <2>4, <2>5 DEF CopiesInv
<1>2. ASSUME NEW o \in Operators, MarkReady(o) PROVE CopiesInv'
  <2>1. /\ \A q \in Operators : pc'[q] \in {"saveRow", "saveClock"} =>
             pc'[q] = pc[q] /\ cmd'[q] = cmd[q] /\ copy'[q] = copy[q]
        /\ \A q \in Operators : pc[q] = "saveClock" => pc'[q] = pc[q] /\ cmd'[q] = cmd[q]
    BY <1>2 DEF MarkReady, Answered, TypeOK
  <2>2. UNCHANGED <<saved, checkpoint, bound, running, period, gate, agent, torn>>
    BY <1>2 DEF MarkReady, clock, host
  <2>3. \A m \in Matches : row'[m] = row[m] \/ row'[m].status = "Ready"
    BY <1>2 DEF MarkReady, TypeOK, Rows
  <2>4. Live' \subseteq Live /\ \A m \in Live' : row'[m] = row[m]
    BY <2>3 DEF Live, LiveStatus
  <2>5. Decided'
    BY <2>1, <2>2 DEF CopiesInv, Decided
  <2>6. Unfinished'
    BY <2>1, <2>2, <2>3 DEF CopiesInv, Unfinished, RowAgrees, Held, Named
  <2>7. StoreAgrees'
    BY <2>1, <2>2, <2>4 DEF CopiesInv, StoreAgrees, Written, CheckpointAgrees
  <2>8. CopiesAgree'
    BY <2>2, <2>3 DEF CopiesInv, CopiesAgree, TypeOK
  <2> QED BY <2>5, <2>6, <2>7, <2>8 DEF CopiesInv
<1>3. ASSUME NEW o \in Operators, NEW m \in Matches, Decide(o, m)
      PROVE  CopiesInv'
  <2>1. /\ gate = NoOne /\ gate' = o /\ cmd' = cmd /\ cmd[o] # "correct"
        /\ pc' = [pc EXCEPT ![o] = "saveRow"]
        /\ copy' = [copy EXCEPT ![o] = RowAfter(cmd[o], Seen(o, m))]
        /\ UNCHANGED <<row, saved, checkpoint, torn>>
    BY <1>3 DEF Decide, Enters, store
  <2>2. running' <=> RowAfter(cmd[o], Seen(o, m)).status = "Active"
    BY <1>3, RowAfterAgrees DEF Decide
  <2>3. \A q \in Operators : pc[q] \notin {"saveRow", "saveClock"}
    BY <2>1 DEF Held
  <2>4. Decided' /\ Unfinished'
    BY <2>1, <2>2, <2>3 DEF Decided, Unfinished, TypeOK
  <2>5. StoreAgrees'
    BY <2>1, <2>3 DEF CopiesInv, StoreAgrees, Written, Live, CheckpointAgrees, TypeOK
  <2>6. CopiesAgree'
    BY <2>1 DEF CopiesAgree
  <2> QED BY <2>4, <2>5, <2>6 DEF CopiesInv
<1>4. ASSUME NEW o \in Operators, Correct(o) PROVE CopiesInv'
  <2>1. /\ gate = NoOne /\ gate' = o /\ bound = subject[o] /\ bound \in Matches
        /\ pc[o] = "queued" /\ cmd[o] = "correct"
        /\ pc' = [pc EXCEPT ![o] = "saveClock"]
        /\ UNCHANGED <<row, saved, checkpoint, bound, running, period, agent, torn, cmd, copy>>
    BY <1>4 DEF Correct, Enters, store, clock, host, Named
  <2>2. agent = "up"
    BY <2>1 DEF Quiet, TypeOK
  <2>3. \A q \in Operators : pc[q] \notin {"saveRow", "saveClock"}
    BY <2>1 DEF Held
  <2>4. ~torn => RowAgrees(bound)
    BY <2>1, <2>2 DEF CopiesInv, CopiesAgree, RowAgrees
  <2>5. Decided' /\ Unfinished'
    BY <2>1, <2>3, <2>4 DEF Decided, Unfinished, RowAgrees, TypeOK
  <2>6. StoreAgrees'
    BY <2>1, <2>3 DEF CopiesInv, StoreAgrees, Written, Live, CheckpointAgrees, TypeOK
  <2>7. CopiesAgree'
    BY <2>1 DEF CopiesAgree
  <2> QED BY <2>5, <2>6, <2>7 DEF CopiesInv
<1>5. ASSUME NEW o \in Operators, Refuse(o) PROVE CopiesInv'
  <2>1. /\ \A q \in Operators : pc'[q] \in {"saveRow", "saveClock"} =>
             pc'[q] = pc[q] /\ cmd'[q] = cmd[q] /\ copy'[q] = copy[q]
        /\ \A q \in Operators : pc[q] = "saveClock" => pc'[q] = pc[q] /\ cmd'[q] = cmd[q]
    BY <1>5 DEF Refuse, Answered, TypeOK
  <2>2. UNCHANGED <<row, saved, checkpoint, bound, running, period, gate, agent, torn>>
    BY <1>5 DEF Refuse, store, clock, host
  <2>3. Decided' /\ Unfinished'
    BY <2>1, <2>2 DEF CopiesInv, Decided, Unfinished, RowAgrees
  <2>4. StoreAgrees'
    BY <2>1, <2>2 DEF CopiesInv, StoreAgrees, Written, Live, CheckpointAgrees
  <2>5. CopiesAgree'
    BY <2>2 DEF CopiesInv, CopiesAgree
  <2> QED BY <2>3, <2>4, <2>5 DEF CopiesInv
<1>6. ASSUME NEW o \in Operators, SaveRow(o) PROVE CopiesInv'
  <2>1. /\ bound = subject[o] /\ bound \in Matches /\ gate = o /\ pc[o] = "saveRow"
        /\ pc' = [pc EXCEPT ![o] = "saveClock"]
        /\ row' = [row EXCEPT ![bound] = copy[o]]
        /\ UNCHANGED <<saved, checkpoint, bound, running, period, gate, agent, torn, cmd, copy>>
    BY <1>6 DEF SaveRow, clock, host, Held, Named
  <2>2. \A q \in Operators : pc[q] \in {"saveRow", "saveClock"} => q = o
    BY <2>1 DEF Held
  <2>3. cmd[o] # "correct" /\ (running <=> copy[o].status = "Active")
    BY <2>1 DEF CopiesInv, Decided
  <2>4. Decided'
    BY <2>1, <2>2 DEF Decided, TypeOK
  <2>5. Unfinished'
    BY <2>1, <2>2, <2>3 DEF Unfinished, RowAgrees, TypeOK
  <2>6. StoreAgrees'
    BY <2>1, <2>3 DEF StoreAgrees, Written, TypeOK
  <2>7. CopiesAgree'
    BY <2>1 DEF CopiesAgree
  <2> QED BY <2>4, <2>5, <2>6, <2>7 DEF CopiesInv
<1>7. ASSUME NEW o \in Operators, SaveClock(o) PROVE CopiesInv'
  <2>1. /\ bound = subject[o] /\ bound \in Matches /\ gate = o /\ pc[o] = "saveClock"
        /\ saved' = saved \cup {bound}
        /\ checkpoint' = [checkpoint EXCEPT ![bound] =
                            [running |-> running, period |-> period]]
        /\ Answered(o)
        /\ UNCHANGED <<row, bound, running, period, agent>>
    BY <1>7 DEF SaveClock, clock, host, Held, Named
  <2>2. \A q \in Operators : pc'[q] \notin {"saveRow", "saveClock"}
    BY <2>1 DEF Held, Answered, TypeOK
  <2>3. torn' => torn /\ cmd[o] = "correct"
    BY <1>7, Zenon DEF SaveClock
  <2>4. ~torn' => RowAgrees(bound)
    <3>1. SUFFICES ASSUME ~torn' PROVE cmd[o] = "correct" => ~torn
      BY <2>1 DEF CopiesInv, Unfinished
    <3> QED BY <1>7, <3>1, Zenon DEF SaveClock
  <2>5. Decided' /\ Unfinished'
    BY <2>2 DEF Decided, Unfinished
  <2>6. StoreAgrees'
    <3>1. SUFFICES ASSUME ~torn', NEW m \in Live', m \in saved' PROVE CheckpointAgrees(m)'
      BY DEF StoreAgrees
    <3>2. m = bound /\ row'[m] = row[m]
      BY <2>1 DEF BoundIsLive, Live
    <3>3. row[m].status # "Ready"
      BY <2>1, <3>1 DEF Live, LiveStatus
    <3>4. running <=> row[m].status = "Active"
      BY <2>4, <3>1, <3>2, <3>3 DEF RowAgrees
    <3>5. checkpoint'[m].running = running
      BY <2>1, <3>2 DEF TypeOK
    <3> QED BY <3>2, <3>4, <3>5 DEF CheckpointAgrees
  <2>7. CopiesAgree'
    <3>1. SUFFICES ASSUME ~torn' PROVE CopiesAgree'
      BY DEF CopiesAgree
    <3>2. checkpoint'[bound] = [running |-> running, period |-> period]
      BY <2>1 DEF TypeOK
    <3> QED BY <2>1, <2>4, <3>1, <3>2 DEF CopiesAgree, RowAgrees
  <2> QED BY <2>5, <2>6, <2>7 DEF CopiesInv
<1>8. ASSUME NEW o \in Operators, SaveThrows(o) PROVE CopiesInv'
  <2>1. torn' /\ pc[o] \in {"saveRow", "saveClock"} /\ Answered(o)
    BY <1>8 DEF SaveThrows
  <2>2. \A q \in Operators : pc'[q] \notin {"saveRow", "saveClock"}
    BY <2>1 DEF Held, Answered, TypeOK
  <2>3. Decided' /\ Unfinished'
    BY <2>2 DEF Decided, Unfinished
  <2> QED BY <2>1, <2>3 DEF CopiesInv, StoreAgrees, CopiesAgree
<1>9. CASE Crash
  <2>1. \A q \in Operators : pc'[q] = "idle"
    BY <1>9 DEF Crash
  <2>2. Decided' /\ Unfinished'
    BY <2>1 DEF Decided, Unfinished
  <2>3. ~torn' => ~torn /\ \A o \in Operators : ~Written(o)
    BY <1>9, Zenon DEF Crash, Written
  <2>4. UNCHANGED store
    BY <1>9 DEF Crash
  <2>5. StoreAgrees'
    BY <2>3, <2>4 DEF CopiesInv, StoreAgrees, Live, CheckpointAgrees, store
  <2>6. CopiesAgree'
    BY <1>9 DEF Crash, CopiesAgree
  <2> QED BY <2>2, <2>5, <2>6 DEF CopiesInv
<1>10. CASE Boot
  <2>1. /\ agent = "down" /\ UNCHANGED <<row, saved, checkpoint, gate, torn, pc, cmd, copy>>
        /\ (\E m \in Matches : Live = {m} /\ Recover(m)) \/ UNCHANGED clock
    BY <1>10 DEF Boot, store, requests
  <2>2. \A q \in Operators : pc[q] = "idle"
    BY <2>1 DEF Quiet
  <2>3. Decided' /\ Unfinished'
    BY <2>1, <2>2 DEF Decided, Unfinished
  <2>4. StoreAgrees'
    BY <2>1 DEF CopiesInv, StoreAgrees, Written, Live, CheckpointAgrees
  <2>5. ASSUME NEW m \in Matches, Live = {m}, Recover(m) PROVE CopiesAgree'
    <3>1. bound' = m /\ m \in saved
      BY <2>5 DEF Recover
    <3>2. checkpoint'[m] = [running |-> running', period |-> period']
      BY <2>1, <2>5 DEF Recover, TypeOK, Clocks
    <3>3. ~torn => CheckpointAgrees(m)
      BY <2>2, <2>5, <3>1 DEF CopiesInv, StoreAgrees, Written
    <3>4. running' = checkpoint[m].running
      BY <2>5 DEF Recover
    <3>5. ~torn => (running' <=> row'[m].status = "Active")
      BY <2>1, <3>3, <3>4 DEF CheckpointAgrees
    <3> QED BY <2>1, <3>1, <3>2, <3>5 DEF CopiesAgree
  <2>6. ASSUME UNCHANGED clock PROVE CopiesAgree'
    BY <2>1, <2>6 DEF Quiet, CopiesAgree, clock
  <2> QED BY <2>1, <2>3, <2>4, <2>5, <2>6 DEF CopiesInv
<1>11. CASE UNCHANGED vars
  <2>1. UNCHANGED <<row, saved, checkpoint, bound, running, period, gate, agent, torn, pc, cmd, copy>>
    BY <1>11 DEF vars, store, clock, host, requests
  <2>2. Decided' /\ Unfinished'
    BY <2>1 DEF CopiesInv, Decided, Unfinished, RowAgrees
  <2>3. StoreAgrees'
    BY <2>1 DEF CopiesInv, StoreAgrees, Written, Live, CheckpointAgrees
  <2>4. CopiesAgree'
    BY <2>1 DEF CopiesInv, CopiesAgree
  <2> QED BY <2>2, <2>3, <2>4 DEF CopiesInv
<1> QED
  BY <1>1, <1>2, <1>3, <1>4, <1>5, <1>6, <1>7, <1>8, <1>9, <1>10, <1>11
     DEF Next, RequestStep, CommandStep

(* CopiesInv holds initially: no clock is bound, nothing is live.          *)
LEMMA CopiesInit == Init => CopiesInv
<1> SUFFICES ASSUME Init PROVE CopiesInv
  OBVIOUS
<1>1. Live = {} /\ \A o \in Operators : pc[o] = "idle"
  BY DEF Init, Live, NewMatch, LiveStatus
<1>2. bound = NoMatch
  BY DEF Init
<1> QED
  BY <1>1, <1>2 DEF CopiesInv, Decided, Unfinished, StoreAgrees, CopiesAgree

(* The clock, the row and the checkpoint agree after every command that    *)
(* was not cut short, for every match, request, fault and crash.           *)
THEOREM CopiesCorrect == Spec => []CopiesAgree
<1>1. CopiesInv => CopiesAgree
  BY DEF CopiesInv
<1> QED
  BY <1>1, CopiesInit, CopiesStep, InvCorrect, PTL DEF Spec

=============================================================================
