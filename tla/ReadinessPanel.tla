---------------------------- MODULE ReadinessPanel ----------------------------
(***************************************************************************)
(* Live readiness: the panel of a match's page, its polled query, and the  *)
(* agent's evaluation of the parts that it asks.  Of those there are the   *)
(* camera, its stream, the recording, and the Stream Deck, which stands    *)
(* for every part that is ready or blocked; the match and the clock are    *)
(* taken as ready.  What the other parts do is the environment.            *)
(*                                                                         *)
(* The evaluation awaits the stream's address: it reads the camera before  *)
(* that and the others after.                                              *)
(***************************************************************************)
EXTENDS Console

CONSTANT MaxTurns   \* bound: changes of the parts

ASSUME MaxTurnsAssumption == MaxTurns \in Nat

VARIABLES
  parts,       \* what the agent's parts are
  evaluation,  \* the request: where it is, the camera it saw, its answer
  panel,       \* what the panel has: readiness, and isError
  turns

panelVars == <<parts, evaluation, panel, turns>>

Parts == [camera : {"connected", "reconnecting", "error"}, stream : BOOLEAN,
          recording : {"idle", "rotating", "error"}, deck : BOOLEAN]

Unknown == [status |-> "unknown"]   \* readiness is undefined

Unasked == [at |-> "idle", camera |-> "error", answer |-> Unknown]

PanelInit ==
  /\ parts = [camera |-> "connected", stream |-> TRUE, recording |-> "idle",
              deck |-> TRUE]
  /\ evaluation = [Unasked EXCEPT !.at = "sent"]
  /\ panel = [readiness |-> Unknown, failed |-> FALSE]
  /\ turns = 0

PanelTypeOK ==
  /\ parts \in Parts /\ turns \in 0..MaxTurns
  /\ evaluation.at \in {"idle", "sent", "half", "answered"}
  /\ (evaluation.at = "answered") = (evaluation.answer # Unknown)
  /\ panel.failed \in BOOLEAN

-----------------------------------------------------------------------------
(* EvaluateAsync: the checks, their findings, and LiveReadinessStateV1.     *)

CheckOf(ready, degraded) ==
  IF ready THEN "ready" ELSE IF degraded THEN "degraded" ELSE "blocked"

Checks(camera, p) ==
  [camera    |-> CheckOf(camera = "connected", camera = "reconnecting"),
   video     |-> CheckOf(camera = "connected" /\ p.stream, FALSE),
   recording |-> CheckOf(p.recording = "idle", p.recording = "rotating"),
   deck      |-> CheckOf(p.deck, FALSE)]

Findings(checks) ==
  {[dimension |-> d,
    severity |-> IF checks[d] = "blocked" THEN "blocking" ELSE "warning"] :
     d \in {x \in DOMAIN checks : checks[x] # "ready"}}

\* Mutant: what is degraded is ready.
CreateLeniently(checks, findings) ==
  LET blocked == \E f \in findings : f.severity = "blocking" IN
  [status |-> IF blocked THEN "blocked" ELSE IF findings # {} THEN "degraded"
              ELSE "ready",
   ready |-> ~blocked, checks |-> checks, findings |-> findings]

Create(checks, findings) ==
  LET blocked  == \/ \E d \in DOMAIN checks : checks[d] = "blocked"
                  \/ \E f \in findings : f.severity = "blocking"
      degraded == \/ \E d \in DOMAIN checks : checks[d] = "degraded"
                  \/ \E f \in findings : f.severity = "warning"
      status   == IF blocked THEN "blocked" ELSE IF degraded THEN "degraded"
                  ELSE "ready"
  IN [status |-> status, ready |-> status = "ready", checks |-> checks,
      findings |-> findings]

Evaluated(camera, p) == Create(Checks(camera, p), Findings(Checks(camera, p)))

-----------------------------------------------------------------------------
(* What the panel draws.                                                    *)

Assessed == panel.readiness # Unknown

Badge == IF Assessed THEN panel.readiness.status ELSE "blocked"

CanEnterCapture == Assessed /\ panel.readiness.ready

FindingsShown(severe) ==
  IF ~Assessed THEN {}
  ELSE {f \in panel.readiness.findings : (f.severity = "blocking") = severe}

Sentence ==
  IF ~Assessed /\ ~panel.failed THEN "Assessing"
  ELSE IF panel.failed THEN "Unavailable"
  ELSE IF CanEnterCapture THEN "Permitted" ELSE "Prevented"

CaptureButton ==
  IF CanEnterCapture THEN "Enter"
  ELSE IF FindingsShown(TRUE) # {} THEN "Resolve" ELSE "Not met"

-----------------------------------------------------------------------------

onPanel == page = "readiness"

Turn ==
  /\ onPanel /\ turns < MaxTurns
  /\ turns' = turns + 1
  /\ \E p \in Parts : parts' = p /\ p # parts
  /\ UNCHANGED <<evaluation, panel>>

\* The interval, or the Recheck button, which is disabled while it fetches.
\* With nothing loaded an earlier failure is not shown any more.
Ask ==
  /\ onPanel /\ evaluation.at = "idle"
  /\ evaluation' = [evaluation EXCEPT !.at = "sent"]
  /\ panel' = [panel EXCEPT !.failed = @ /\ Assessed]
  /\ UNCHANGED <<parts, turns>>

SeeCamera ==
  /\ onPanel /\ evaluation.at = "sent"
  /\ evaluation' = [evaluation EXCEPT !.at = "half", !.camera = parts.camera]
  /\ UNCHANGED <<parts, panel, turns>>

SeeOthers ==
  /\ onPanel /\ evaluation.at = "half"
  /\ evaluation' = [evaluation EXCEPT !.at = "answered",
                      !.answer = Evaluated(evaluation.camera, parts)]
  /\ UNCHANGED <<parts, panel, turns>>

Show ==
  /\ onPanel /\ evaluation.at = "answered"
  /\ panel' = [readiness |-> evaluation.answer, failed |-> FALSE]
  /\ evaluation' = Unasked
  /\ UNCHANGED <<parts, turns>>

\* The request and its retries fail: what was loaded before stays.
FailQuery ==
  /\ evaluation.at # "idle"
  /\ evaluation' = Unasked
  /\ panel' = [panel EXCEPT !.failed = TRUE]
  /\ UNCHANGED <<parts, turns>>

LoseEvaluation ==
  /\ onPanel /\ ~calm /\ lost < MaxLost
  /\ FailQuery
  /\ lost' = lost + 1
  /\ UNCHANGED <<page, calm, db, agent, now, fetch, reply, data, calls, form,
                 issued>>

EvaluationStep == (SeeCamera \/ SeeOthers \/ Show) /\ UNCHANGED vars

PanelNext ==
  \/ (Turn \/ Ask) /\ UNCHANGED vars
  \/ EvaluationStep
  \/ LoseEvaluation

-----------------------------------------------------------------------------

\* The way into live capture is offered on an answer of which every check is
\* ready and nothing is found, and by a panel with the badge "ready"; when the
\* badge is "blocked" there is a blocking finding to resolve.  The panel takes
\* ready, status and findings as they come: it is the agent's evaluation that
\* has to have them agree (LiveReadinessStateV1.cs, LiveReadinessPanel.tsx).
OfferMeansReady ==
  /\ CaptureButton = "Enter" =>
       /\ Badge = "ready" /\ FindingsShown(FALSE) = {}
       /\ \A d \in DOMAIN panel.readiness.checks :
            panel.readiness.checks[d] = "ready"
  /\ Assessed => (CaptureButton = "Resolve") = (Badge = "blocked")
  /\ Sentence = "Permitted" => CaptureButton = "Enter"

\* The panel shows what the parts are, and that the service is there.
PanelShowsParts ==
  page = "readiness" =>
    /\ panel.readiness = Evaluated(parts.camera, parts)
    /\ Sentence \in {"Permitted", "Prevented"}

=============================================================================
