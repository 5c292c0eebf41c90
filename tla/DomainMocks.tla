------------------------------ MODULE DomainMocks ------------------------------
(***************************************************************************)
(* The domain model's mocks with state (packages/domain-model): the match  *)
(* clock over an interval timer, the camera adapter whose connect waits,   *)
(* and the presets of the PTZ controller.  Any of their methods may be     *)
(* called at any time.  The mocks that return constants are left out.      *)
(***************************************************************************)
EXTENDS Integers, Sequences

CONSTANTS
  MaxCommands,   \* bound: commands
  MaxSeconds     \* bound: seconds of the mock clock

ASSUME MocksAssumption == MaxCommands \in Nat /\ MaxSeconds \in Nat

VARIABLES
  mockClock,    \* the clock's fields; intervals: the timers that run
  heard,        \* the state that a handler of the clock was last called with
  resetAt,      \* history: the length of the audit log at the last reset
  mockCamera,   \* connectionState, and the connects that wait
  presets,      \* _presets: identifiers and whether home
  commands

mockVars == <<mockClock, heard, resetAt, mockCamera, presets, commands>>

MocksInit ==
  /\ mockClock = [seconds |-> 0, elapsed |-> 0, running |-> FALSE, period |-> 1,
                  intervals |-> 0, audit |-> <<>>]
  /\ heard = [seconds |-> 0, elapsed |-> 0]
  /\ resetAt = 0
  /\ mockCamera = [state |-> "disconnected", waiting |-> 0]
  /\ presets = <<[id |-> "P1", home |-> FALSE], [id |-> "P2", home |-> TRUE]>>
  /\ commands = 0

MocksTypeOK ==
  /\ mockClock.seconds \in 0..MaxSeconds /\ mockClock.elapsed \in 0..MaxSeconds
  /\ mockClock.running \in BOOLEAN /\ mockClock.period \in 1..2
  /\ mockClock.intervals \in Nat /\ commands \in 0..MaxCommands
  /\ mockCamera.state \in {"disconnected", "connecting", "connected", "error"}
  /\ mockCamera.state = "connecting" => mockCamera.waiting > 0
  /\ \A i, j \in 1..Len(presets) : presets[i].id = presets[j].id => i = j

Commanded == commands < MaxCommands /\ commands' = commands + 1

-----------------------------------------------------------------------------
(* MockMatchClockService.  A command of clock c returns the clock after it. *)

Told(c) == heard' = [seconds |-> c.seconds, elapsed |-> c.elapsed]

\* Mutant: start() of a running clock starts another timer.
StartAgain(c) == [c EXCEPT !.running = TRUE, !.intervals = @ + 1]

Start(c) == IF c.running THEN c
            ELSE [c EXCEPT !.running = TRUE, !.intervals = @ + 1]

\* It clears the timer that was started last.
Pause(c) == IF ~c.running THEN c
            ELSE [c EXCEPT !.running = FALSE, !.intervals = @ - 1]

StartPeriod(c, p) == Start([c EXCEPT !.period = p])

HalfTimeEnded(c) == [c EXCEPT !.period = 2]

\* start and resume; pause, endPeriod, startHalfTime and markFullTime.  None
\* of these calls the handlers.
Untold ==
  /\ Commanded
  /\ mockClock' \in {Start(mockClock), Pause(mockClock), HalfTimeEnded(mockClock)}
                    \cup {StartPeriod(mockClock, p) : p \in 1..2}
  /\ UNCHANGED <<heard, resetAt, mockCamera, presets>>

Reset ==
  /\ Commanded
  /\ mockClock' = [Pause(mockClock) EXCEPT !.seconds = 0, !.elapsed = 0]
  /\ Told(mockClock')
  /\ resetAt' = Len(mockClock.audit)
  /\ UNCHANGED <<mockCamera, presets>>

Corrected(c, seconds) ==
  [c EXCEPT !.seconds = seconds,
            !.audit = Append(@, [previous |-> c.seconds, new |-> seconds])]

Correct(seconds) ==
  /\ Commanded
  /\ mockClock' = Corrected(mockClock, seconds)
  /\ Told(mockClock')
  /\ UNCHANGED <<resetAt, mockCamera, presets>>

\* A timer fires.
Interval ==
  /\ mockClock.intervals > 0
  /\ mockClock.seconds < MaxSeconds /\ mockClock.elapsed < MaxSeconds
  /\ mockClock' = [mockClock EXCEPT !.seconds = @ + 1, !.elapsed = @ + 1]
  /\ Told(mockClock')
  /\ UNCHANGED <<resetAt, mockCamera, presets, commands>>

-----------------------------------------------------------------------------
(* MockCameraAdapter and MockPtzController.                                 *)

\* connect and reconnect, as far as the delay.
Connect ==
  /\ Commanded
  /\ mockCamera' = [state |-> "connecting", waiting |-> mockCamera.waiting + 1]
  /\ UNCHANGED <<mockClock, heard, resetAt, presets>>

\* ... and after it, whatever has been called meanwhile.
FinishConnect ==
  /\ mockCamera.waiting > 0
  /\ mockCamera' = [state |-> "connected", waiting |-> mockCamera.waiting - 1]
  /\ UNCHANGED <<mockClock, heard, resetAt, presets, commands>>

\* disconnect, or simulateDisconnect.
Disconnect(state) ==
  /\ Commanded
  /\ mockCamera' = [mockCamera EXCEPT !.state = state]
  /\ UNCHANGED <<mockClock, heard, resetAt, presets>>

\* Mutant: a preset is always a new one.
PresetsAppended(id) == Append(presets, [id |-> id, home |-> FALSE])

\* The presets with that of id replaced, which is not home any more, or added.
PresetsWith(id) ==
  LET known == {i \in 1..Len(presets) : presets[i].id = id}
      saved == [id |-> id, home |-> FALSE]
  IN IF known = {} THEN Append(presets, saved)
     ELSE [i \in 1..Len(presets) |-> IF i \in known THEN saved ELSE presets[i]]

SavePreset(id) ==
  /\ Commanded
  /\ presets' = PresetsWith(id)
  /\ UNCHANGED <<mockClock, heard, resetAt, mockCamera>>

MocksNext ==
  \/ Untold \/ Reset \/ Interval \/ Connect \/ FinishConnect
  \/ \E seconds \in 0..MaxSeconds : Correct(seconds)
  \/ \E state \in {"disconnected", "error"} : Disconnect(state)
  \/ \E id \in {"P1", "P2", "P9"} : SavePreset(id)

-----------------------------------------------------------------------------

\* Whatever order the clock's commands come in, one timer counts while it
\* runs, and none when it does not (MockMatchClockService).
OneInterval == mockClock.intervals = IF mockClock.running THEN 1 ELSE 0

\* The seconds that a handler was last told of are the clock's, though the
\* commands that change only its period or whether it runs tell nobody
\* (onStateChanged).
SecondsTold ==
  heard = [seconds |-> mockClock.seconds, elapsed |-> mockClock.elapsed]

\* The match clock differs from the time that was recorded by what the audit
\* log says was corrected since the last reset, and by nothing else: no
\* pause, period or timer moves one without the other (correct, reset).
AuditExplains ==
  LET log == mockClock.audit
      corrected[i \in 0..Len(log)] ==
        IF i <= resetAt THEN 0
        ELSE corrected[i - 1] + log[i].new - log[i].previous
  IN mockClock.seconds - mockClock.elapsed = corrected[Len(log)]

=============================================================================
