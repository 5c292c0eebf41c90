---------------------------- MODULE MatchControl ----------------------------
(***************************************************************************)
(* The match lifecycle: the commands of AmharcCommandDispatcher on the     *)
(* Matches rows and on the one match clock (MatchClockService), its        *)
(* checkpoint rows (MatchClockStateStore), and the recovery of the live    *)
(* match at agent start-up.                                                *)
(*                                                                         *)
(* A command comes by an HTTP endpoint that names its match, or from the   *)
(* Stream Deck, for whichever match is live.  It runs under the clock's    *)
(* command gate - but the deck's resolution of the match, and the read of  *)
(* /start, /stop and /abandon, come before the gate, and the request's     *)
(* DbContext keeps the row it has read: the dispatcher's own read, under   *)
(* the gate, returns that copy, and UpdateAsync writes all of it back.     *)
(* Seconds are left out: a clock runs or not, in a period.                 *)
(***************************************************************************)
EXTENDS Naturals, FiniteSets

CONSTANTS
  Matches,            \* ids of the rows of Matches
  HalfTimeMatches,    \* those of PeriodStructure TwoPeriods or ExtraTime
  ExtraTimeMatches,   \* those of PeriodStructure ExtraTime
  Operators,          \* requests in flight: HTTP callers and button presses
  InUse,              \* bound on the commands they send
  NoMatch, NoOne,     \* null
  Faults,             \* subset of {"save"}: SaveChangesAsync throws (a busy
                      \* database file, a caller who hung up)
  MaxCrashes          \* bound on crashes of the agent

ASSUME ConstantsAssumption ==
  /\ NoMatch \notin Matches /\ NoOne \notin Operators
  /\ ExtraTimeMatches \subseteq HalfTimeMatches
  /\ HalfTimeMatches \subseteq Matches
  /\ Faults \subseteq {"save"}
  /\ MaxCrashes \in Nat

VARIABLES
  row,         \* row[m]: Status and CurrentPeriod of the Matches row
  saved,       \* matches with a MatchClockRuntimeStates row
  checkpoint,  \* checkpoint[m]: IsRunning and CurrentPeriod in that row
  bound,       \* _boundLocalMatchId
  ended,       \* _contextEnded
  running,     \* _isRunning
  period,      \* _currentPeriod
  gate,        \* who holds _commandGate
  agent,       \* "up" or "down"
  crashes,     \* crashes so far
  pc,          \* pc[o]: where request o is
  cmd,         \* cmd[o]: its command
  subject,     \* subject[o]: its match
  copy,        \* copy[o]: the Match entity its DbContext tracks
  early,       \* requests whose entity was read before the gate
  deck,        \* requests of the Stream Deck (command.MatchId is null)
  torn         \* history: the last command was cut between its steps

store    == <<row, saved, checkpoint>>
clock    == <<bound, ended, running, period>>
host     == <<agent, crashes>>
requests == <<pc, cmd, subject, copy, early, deck>>
vars     == <<store, clock, gate, host, requests, torn>>

Periods    == 0..4
LiveStatus == {"Active", "Paused", "HalfTime", "ExtraTimeInterval"}
Terminal   == {"Complete", "Abandoned"}
Status     == {"Setup", "Ready"} \cup LiveStatus \cup Terminal
Rows       == [status : Status, period : Periods]
Clocks     == [running : BOOLEAN, period : Periods]
NewMatch   == [status |-> "Setup", period |-> 0]

\* MatchRepository.GetActiveMatchAsync, which throws for more than one.
Live == {m \in Matches : row[m].status \in LiveStatus}

Init ==
  /\ row = [m \in Matches |-> NewMatch]
  /\ saved = {}
  /\ checkpoint = [m \in Matches |-> [running |-> FALSE, period |-> 0]]
  /\ bound = NoMatch /\ ended = FALSE
  /\ running = FALSE /\ period = 0
  /\ gate = NoOne
  /\ agent = "up" /\ crashes = 0
  /\ pc = [o \in Operators |-> "idle"]
  /\ cmd = [o \in Operators |-> "none"]
  /\ subject = [o \in Operators |-> NoMatch]
  /\ copy = [o \in Operators |-> NewMatch]
  /\ early = {} /\ deck = {}
  /\ torn = FALSE

Goto(o, label) == pc' = [pc EXCEPT ![o] = label]

\* The request is answered, its locals are gone.
Answered(o) ==
  /\ Goto(o, "idle")
  /\ cmd' = [cmd EXCEPT ![o] = "none"]
  /\ subject' = [subject EXCEPT ![o] = NoMatch]
  /\ copy' = [copy EXCEPT ![o] = NewMatch]
  /\ early' = early \ {o}
  /\ deck' = deck \ {o}

-----------------------------------------------------------------------------
(* What a command does: its clock calls and the row it writes *)

Runs  == {"start", "resume", "halfTimeEnd", "extraTimeStart",
          "extraTimeHalfTimeEnd"}
Stops == {"pause", "halfTimeStart", "extraTimeEnter",
          "extraTimeHalfTimeStart", "abandon", "fullTime"}
Commands == Runs \cup Stops \cup {"correct"}

ASSUME InUseAssumption == InUse \subseteq Commands

ClockEndpoints == Commands \ {"abandon", "fullTime"}
ReadFirst      == {"start", "abandon", "fullTime"}

\* Mutant: a start does not look for another live match.
AloneToResume(c, m) == c = "resume" => Live \subseteq {m}

\* GetActiveMatchAsync finds no other match live (nor throws).
Alone(c, m) == c \in {"start", "resume"} => Live \subseteq {m}

\* The checks of the command's case, on match m with the entity r.
Admits(c, m, r) ==
  \/ c \in {"start", "pause", "resume"} /\ r.status \notin Terminal
  \/ c = "abandon" /\ r.status \notin Terminal \cup {"Setup"}
  \/ c = "fullTime" /\ r.status \in LiveStatus
  \/ /\ c = "halfTimeStart" /\ m \in HalfTimeMatches
     /\ r.status = "Active" /\ r.period = 1
  \/ /\ c = "halfTimeEnd" /\ m \in HalfTimeMatches
     /\ r.status = "HalfTime" /\ r.period = 1
  \/ /\ c = "extraTimeEnter" /\ m \in ExtraTimeMatches
     /\ r.status = "Active" /\ r.period = 2
  \/ /\ c = "extraTimeStart" /\ m \in ExtraTimeMatches
     /\ r.status = "ExtraTimeInterval" /\ r.period = 2
  \/ /\ c = "extraTimeHalfTimeStart" /\ m \in ExtraTimeMatches
     /\ r.status = "Active" /\ r.period = 3
  \/ /\ c = "extraTimeHalfTimeEnd" /\ m \in ExtraTimeMatches
     /\ r.status = "ExtraTimeInterval" /\ r.period = 3

NewStatus(c) ==
  IF c \in Runs THEN "Active"
  ELSE IF c = "pause" THEN "Paused"
  ELSE IF c = "halfTimeStart" THEN "HalfTime"
  ELSE IF c \in {"extraTimeEnter", "extraTimeHalfTimeStart"}
         THEN "ExtraTimeInterval"
  ELSE IF c = "abandon" THEN "Abandoned" ELSE "Complete"

\* The period a command opens, or old.
Opens(c, old) ==
  IF c = "halfTimeEnd" THEN 2
  ELSE IF c = "extraTimeStart" THEN 3
  ELSE IF c = "extraTimeHalfTimeEnd" THEN 4 ELSE old

\* Mutant: the period after the interval is counted on from its row.
RowCountedOn(c, r) ==
  [status |-> NewStatus(c),
   period |-> IF c = "extraTimeHalfTimeEnd" THEN r.period + 2
              ELSE IF c = "start" /\ r.period = 0 THEN 1
              ELSE Opens(c, r.period)]

RowAfter(c, r) ==
  [status |-> NewStatus(c),
   period |-> IF c = "start" /\ r.period = 0 THEN 1 ELSE Opens(c, r.period)]

-----------------------------------------------------------------------------
(* Requests *)

\* /matches/{m}/clock/...: the match is named, nothing is read yet.
AskClock(o, c, m) ==
  /\ agent = "up" /\ pc[o] = "idle"
  /\ c \in ClockEndpoints
  /\ cmd' = [cmd EXCEPT ![o] = c]
  /\ subject' = [subject EXCEPT ![o] = m]
  /\ Goto(o, "queued")
  /\ UNCHANGED <<store, clock, gate, host, copy, early, deck, torn>>

\* /matches/{m}/start, /stop, /abandon: the entity is read, then the command
\* dispatched; a match not Ready is not started.
AskMatch(o, c, m) ==
  /\ agent = "up" /\ pc[o] = "idle"
  /\ c \in ReadFirst
  /\ c = "start" => row[m].status = "Ready"
  /\ cmd' = [cmd EXCEPT ![o] = c]
  /\ subject' = [subject EXCEPT ![o] = m]
  /\ copy' = [copy EXCEPT ![o] = row[m]]
  /\ early' = early \cup {o}
  /\ Goto(o, "queued")
  /\ UNCHANGED <<store, clock, gate, host, deck, torn>>

\* A button: ResolveMatchIdAsync loads the one live match.  (A correction
\* needs parameters, which no button sends.)
Press(o, c, m) ==
  /\ agent = "up" /\ pc[o] = "idle"
  /\ c # "correct"
  /\ Live = {m}
  /\ cmd' = [cmd EXCEPT ![o] = c]
  /\ subject' = [subject EXCEPT ![o] = m]
  /\ copy' = [copy EXCEPT ![o] = row[m]]
  /\ early' = early \cup {o}
  /\ deck' = deck \cup {o}
  /\ Goto(o, "queued")
  /\ UNCHANGED <<store, clock, gate, host, torn>>

\* MarkReady reads, checks, and writes the whole row; no gate.
ReadForReady(o, m) ==
  /\ agent = "up" /\ pc[o] = "idle"
  /\ row[m].status = "Setup"
  /\ subject' = [subject EXCEPT ![o] = m]
  /\ copy' = [copy EXCEPT ![o] = row[m]]
  /\ Goto(o, "markReady")
  /\ UNCHANGED <<store, clock, gate, host, cmd, early, deck, torn>>

MarkReady(o) ==
  /\ pc[o] = "markReady"
  /\ row' = [row EXCEPT ![subject[o]] = [copy[o] EXCEPT !.status = "Ready"]]
  /\ Answered(o)
  /\ UNCHANGED <<saved, checkpoint, clock, gate, host, torn>>

-----------------------------------------------------------------------------
(* A command under the gate *)

\* EnterCommandAsync: the gate is free; a start may change the clock's match.
Enters(o) ==
  /\ pc[o] = "queued"
  /\ gate = NoOne
  /\ cmd[o] # "start" => bound = subject[o]

\* The match of the command: a button's is resolved again.
Resolves(o, m) == IF o \in deck THEN Live = {m} ELSE m = subject[o]

\* RequireMatchAsync: the tracked entity if the request has read that row.
Seen(o, m) == IF o \in early /\ m = subject[o] THEN copy[o] ELSE row[m]

\* StartFor refuses while the clock's match has not ended.
Startable(c) == c = "start" => bound = NoMatch \/ ended

Admitted(o, m) ==
  Admits(cmd[o], m, Seen(o, m)) /\ Alone(cmd[o], m) /\ Startable(cmd[o])

\* Mutant: StartHalfTime leaves the clock running.
ClockCallsUnpaused(c, m) ==
  /\ running' = (c \in Runs \/ (c = "halfTimeStart" /\ running))
  /\ period' = IF c = "start" THEN 1 ELSE Opens(c, period)
  /\ bound' = IF c = "start" THEN m ELSE bound
  /\ ended' = (c # "start" /\ (ended \/ c \in {"abandon", "fullTime"}))

\* The clock calls of command c on match m.
ClockCalls(c, m) ==
  /\ running' = (c \in Runs)
  /\ period' = IF c = "start" THEN 1 ELSE Opens(c, period)
  /\ bound' = IF c = "start" THEN m ELSE bound
  /\ ended' = (c # "start" /\ (ended \/ c \in {"abandon", "fullTime"}))

\* The checks pass: the clock and the entity in memory are changed.
Decide(o, m) ==
  /\ Enters(o)
  /\ cmd[o] # "correct"
  /\ Resolves(o, m)
  /\ Admitted(o, m)
  /\ gate' = o
  /\ ClockCalls(cmd[o], m)
  /\ subject' = [subject EXCEPT ![o] = m]
  /\ copy' = [copy EXCEPT ![o] = RowAfter(cmd[o], Seen(o, m))]
  /\ Goto(o, "saveRow")
  /\ UNCHANGED <<store, host, cmd, early, deck, torn>>

\* A correction changes seconds only, and writes no Matches row.
Correct(o) ==
  /\ Enters(o)
  /\ cmd[o] = "correct"
  /\ gate' = o
  /\ Goto(o, "saveClock")
  /\ UNCHANGED <<store, clock, host, cmd, subject, copy, early, deck, torn>>

\* A refusal, at the gate or in the command's case.
Refuse(o) ==
  /\ pc[o] = "queued" /\ gate = NoOne
  /\ \/ ~Enters(o)
     \/ /\ cmd[o] # "correct"
        /\ \A m \in Matches :
             Resolves(o, m) => ~Admitted(o, m)
  /\ Answered(o)
  /\ UNCHANGED <<store, clock, gate, host, torn>>

\* Mutant: UpdateAsync is forgotten.
SaveNoRow(o) ==
  /\ pc[o] = "saveRow"
  /\ Goto(o, "saveClock")
  /\ UNCHANGED <<store, clock, gate, host>>
  /\ UNCHANGED <<cmd, subject, copy, early, deck, torn>>

\* UpdateAsync(match): every column of the row.
SaveRow(o) ==
  /\ pc[o] = "saveRow"
  /\ row' = [row EXCEPT ![subject[o]] = copy[o]]
  /\ Goto(o, "saveClock")
  /\ UNCHANGED <<saved, checkpoint, clock, gate, host>>
  /\ UNCHANGED <<cmd, subject, copy, early, deck, torn>>

\* SaveRuntimeStateAsync, and the end of the command.  (RequireSubject holds:
\* the clock's match changes under the gate only.)
SaveClock(o) ==
  /\ pc[o] = "saveClock"
  /\ saved' = saved \cup {subject[o]}
  /\ checkpoint' = [checkpoint EXCEPT ![subject[o]] =
                      [running |-> running, period |-> period]]
  /\ gate' = NoOne
  /\ torn' = (torn /\ cmd[o] = "correct")
  /\ Answered(o)
  /\ UNCHANGED <<row, clock, host>>

\* Either save throws: the command ends there, what it did stays done.
SaveThrows(o) ==
  /\ "save" \in Faults
  /\ pc[o] \in {"saveRow", "saveClock"}
  /\ gate' = NoOne
  /\ torn' = TRUE
  /\ Answered(o)
  /\ UNCHANGED <<store, clock, host>>

-----------------------------------------------------------------------------
(* Crash and start-up *)

\* The process ends: rows are kept, memory and requests are gone.
Crash ==
  /\ agent = "up" /\ crashes < MaxCrashes
  /\ agent' = "down" /\ crashes' = crashes + 1
  /\ bound' = NoMatch /\ ended' = FALSE /\ running' = FALSE /\ period' = 0
  /\ gate' = NoOne
  /\ pc' = [o \in Operators |-> "idle"]
  /\ cmd' = [o \in Operators |-> "none"]
  /\ subject' = [o \in Operators |-> NoMatch]
  /\ copy' = [o \in Operators |-> NewMatch]
  /\ early' = {} /\ deck' = {}
  /\ torn' = (torn \/ \E o \in Operators : pc[o] = "saveClock" /\ cmd[o] # "correct")
  /\ UNCHANGED store

\* RecoverRuntimeStateAsync of the live match m, if it has a checkpoint.
Recover(m) ==
  /\ m \in saved
  /\ bound' = m
  /\ running' = checkpoint[m].running
  /\ period' = checkpoint[m].period
  /\ UNCHANGED ended

\* Program.cs: two live matches and the agent does not start.
Boot ==
  /\ agent = "down"
  /\ agent' = "up"
  /\ \/ \E m \in Matches : Live = {m} /\ Recover(m)
     \/ Live \cap saved = {} /\ UNCHANGED clock
  /\ UNCHANGED <<store, gate, crashes, requests, torn>>

RequestStep(o) ==
  \/ \E c \in InUse, m \in Matches :
       \/ AskClock(o, c, m)
       \/ AskMatch(o, c, m)
       \/ Press(o, c, m)
  \/ \E m \in Matches : ReadForReady(o, m)
  \/ MarkReady(o)

CommandStep(o) ==
  \/ \E m \in Matches : Decide(o, m)
  \/ Correct(o)
  \/ Refuse(o)
  \/ SaveRow(o)
  \/ SaveClock(o)
  \/ SaveThrows(o)

Next ==
  \/ \E o \in Operators : RequestStep(o) \/ CommandStep(o)
  \/ Crash
  \/ Boot

Spec == Init /\ [][Next]_vars

-----------------------------------------------------------------------------
(* Properties *)

\* Every variable holds a value of its kind.
TypeOK ==
  /\ row \in [Matches -> Rows]
  /\ saved \in SUBSET Matches
  /\ checkpoint \in [Matches -> Clocks]
  /\ bound \in Matches \cup {NoMatch}
  /\ ended \in BOOLEAN
  /\ running \in BOOLEAN
  /\ period \in Periods
  /\ gate \in Operators \cup {NoOne}
  /\ agent \in {"up", "down"}
  /\ crashes \in 0..MaxCrashes
  /\ pc \in [Operators -> {"idle", "queued", "markReady", "saveRow", "saveClock"}]
  /\ cmd \in [Operators -> Commands \cup {"none"}]
  /\ subject \in [Operators -> Matches \cup {NoMatch}]
  /\ copy \in [Operators -> Rows]
  /\ early \in SUBSET Operators
  /\ deck \in SUBSET Operators
  /\ torn \in BOOLEAN

\* MatchRepository: "Expected at most one match in Active, Paused or HalfTime
\* state" - whatever stale rows are written back, whatever is cut short by a
\* failing save or a crash; the agent could not start with two.
AtMostOneLive == \A m, n \in Live : m = n

\* After a command that was not cut short, the three copies of the match's
\* state agree: the clock runs exactly when the row says Active, and the
\* checkpoint is the clock.  (MarkReady, which knows no gate, may since have
\* put the row back to Ready.)
CopiesAgree ==
  (~torn /\ gate = NoOne /\ agent = "up" /\ bound # NoMatch) =>
    /\ bound \in saved
    /\ checkpoint[bound] = [running |-> running, period |-> period]
    /\ row[bound].status = "Ready" \/ (running <=> row[bound].status = "Active")

\* MatchClockService: "Match clock: pauses during half-time".
HalfTimePausesClock ==
  (gate = NoOne /\ bound # NoMatch /\ row[bound].status = "HalfTime") => ~running

\* MatchLifecycleConflictException: a match "cannot be started from terminal
\* state", "cannot be abandoned from state Complete", "cannot reach full-time
\* from state Abandoned": nothing that the agent does gives a match that is
\* over another state.  (MarkReady, which readies a match again, apart.)
TerminalIsForever ==
  [][\A m \in Matches :
       row[m].status \in Terminal =>
         row'[m].status \in {row[m].status, "Ready"}]_vars

=============================================================================
