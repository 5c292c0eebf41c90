--------------------------- MODULE MCMatchControl ---------------------------
(* Small instances of MatchControl and ScoreEvents.  A behaviour has one   *)
(* of three scopes: two matches compete for the clock over the commands of *)
(* a first half, with saves that throw; one match goes through all its     *)
(* periods; or one match is tagged while it is started and abandoned.      *)
(* Only the third tags anything and keeps the history of disturbances.     *)
EXTENDS ScoreEvents, TLC

VARIABLE scope

Symmetric == Permutations(Operators) \cup Permutations(Matches)

FirstHalf == {"start", "pause", "resume", "abandon"}

Used == {m \in Matches : \/ row[m] # NewMatch
                         \/ asked[m] > 0
                         \/ \E o \in Operators : subject[o] = m}

CommandsOf(cs) == \A o \in Operators : cmd[o] \in cs \cup {"none"}

OneCommand == \A o, q \in Operators : pc[o] # "idle" /\ pc[q] # "idle" => o = q

\* A behaviour of the third scope ends with its first disturbance or deletion
\* of a score: what follows says nothing more about that match.
InOrder == disturbed = {} /\ deleted = {}

InScope ==
  /\ scope = "firstHalf" => CommandsOf(FirstHalf)
  /\ scope \in {"allPeriods", "tags"} => Cardinality(Used) <= 1
  /\ scope = "tags" => CommandsOf({"start", "pause", "abandon"}) /\ OneCommand /\ InOrder

MCInit == ScoreInit /\ scope \in {"firstHalf", "allPeriods", "tags"}

MCNext ==
  /\ \/ scope = "tags" /\ ScoreNext
     \/ /\ scope # "tags"
        /\ \/ \E o \in Operators :
                /\ LifecycleStep(o)
                /\ scope = "allPeriods" => ~SaveThrows(o)
           \/ Boot /\ UNCHANGED <<score, entity, tagVars>>
        /\ UNCHANGED disturbed
     \/ scope # "tags" /\ CrashAll
  /\ UNCHANGED scope

\* Without the scopes' bounds, and within them.
AnyOrder == MCInit /\ [][MCNext]_<<scoreVars, scope>>
MCSpec   == MCInit /\ [][MCNext /\ InScope']_<<scoreVars, scope>>

=============================================================================
