------------------------- MODULE ScoreEvents_proofs -------------------------
(***************************************************************************)
(* Theorems about ScoreEvents, for every set of matches, of commands and   *)
(* of tagging requests, any number of tags and of crashes, and any failing *)
(* save.                                                                   *)
(***************************************************************************)
EXTENDS ScoreEvents, MatchControl_proofs, FiniteSetTheorems

USE TaggersAssumption

(* A request knows its match, and a tag the match of its event; a request  *)
(* that is answered tracks nothing.                                        *)
TagNamed ==
  \A t \in Taggers :
    /\ tag[t].at = "idle" => tag[t].match = NoMatch
    /\ tag[t].at # "idle" => tag[t].match \in Matches
    /\ tag[t].at \notin {"idle", "resolved"} =>
         tag[t].event.match = tag[t].match

Fresh == \A o \in Operators : pc[o] = "idle" => o \notin early

Proper == Named /\ Fresh /\ TagNamed

-----------------------------------------------------------------------------
(* Types.                                                                  *)

(* What a step of a command leaves of the requests.                        *)
LEMMA RequestStepNamed ==
  ASSUME TypeOK, Named, Fresh, Next PROVE Named' /\ Fresh'
<1> USE DEF Named, Fresh, TypeOK, Goto
<1>1. ASSUME NEW o \in Operators, NEW c \in InUse, NEW m \in Matches,
             AskClock(o, c, m) \/ AskMatch(o, c, m) \/ Press(o, c, m)
      PROVE  Named' /\ Fresh'
  <2>1. /\ pc' = [pc EXCEPT ![o] = "queued"]
        /\ subject' = [subject EXCEPT ![o] = m]
        /\ early' \subseteq early \cup {o}
    BY <1>1 DEF AskClock, AskMatch, Press
  <2> QED BY <2>1
<1>2. ASSUME NEW o \in Operators, NEW m \in Matches, ReadForReady(o, m)
      PROVE  Named' /\ Fresh'
  BY <1>2 DEF ReadForReady
<1>3. ASSUME NEW o \in Operators, NEW m \in Matches, Decide(o, m)
      PROVE  Named' /\ Fresh'
  BY <1>3 DEF Decide
<1>4. ASSUME NEW o \in Operators, Correct(o) \/ SaveRow(o)
      PROVE  Named' /\ Fresh'
  <2>1. /\ pc[o] # "idle" /\ UNCHANGED <<subject, early>>
        /\ pc' = [pc EXCEPT ![o] = "saveClock"]
    BY <1>4 DEF Correct, SaveRow, Enters
  <2> QED BY <2>1
<1>5. ASSUME NEW o \in Operators,
             MarkReady(o) \/ Refuse(o) \/ SaveClock(o) \/ SaveThrows(o)
      PROVE  Named' /\ Fresh'
  <2>1. Answered(o)
    BY <1>5 DEF MarkReady, Refuse, SaveClock, SaveThrows
  <2> QED BY <2>1 DEF Answered
<1>6. CASE Crash
  BY <1>6 DEF Crash
<1>7. CASE Boot
  BY <1>7 DEF Boot, requests
<1> QED
  BY <1>1, <1>2, <1>3, <1>4, <1>5, <1>6, <1>7 DEF Next, RequestStep, CommandStep

(* Saving the tracked row keeps the types of MatchControl.                 *)
LEMMA SaveTypes ==
  ASSUME ScoreTypeOK, Proper, NEW t \in Taggers, tag[t].at # "idle",
         NEW s \in Nat, UpdateMatch(t, s)
  PROVE  TypeOK' /\ score' \in [Matches -> Nat]
<1>1. tracked[t] \in Rows /\ tag[t].match \in Matches
  BY DEF ScoreTypeOK, Proper, TagNamed
<1>2. row' \in [Matches -> Rows]
  BY <1>1 DEF ScoreTypeOK, TypeOK, UpdateMatch
<1>3. score' \in [Matches -> Nat]
  BY DEF ScoreTypeOK, UpdateMatch
<1> QED
  BY <1>2, <1>3 DEF ScoreTypeOK, TypeOK, UpdateMatch, clock, host, requests

(* Commands, and a crash, are steps of MatchControl.                       *)
LEMMA LifecycleIsNext ==
  ASSUME NEW o \in Operators, LifecycleStep(o) PROVE Next
BY DEF LifecycleStep, Next, RequestStep, CommandStep

LEMMA CrashIsNext == CrashAll => Next
BY DEF CrashAll, Next

(* A request at rest, and a new match, have their types.                   *)
LEMMA EmptyTag == IdleTag \in Tags /\ NewMatch \in Rows
BY DEF IdleTag, Tags, NoEvent, EventOf, NewMatch, Rows, Status, Periods

(* An event of a match is one of a match or none.                          *)
LEMMA EventTypes ==
  /\ NoEvent \in EventOf(Matches \cup {NoMatch})
  /\ EventOf(Matches) \subseteq EventOf(Matches \cup {NoMatch})
<1>1. FALSE \in BOOLEAN /\ 0 \in Nat /\ NoMatch \in Matches \cup {NoMatch}
  OBVIOUS
<1>2. NoEvent \in EventOf(Matches \cup {NoMatch})
  BY <1>1, Zenon DEF NoEvent, EventOf
<1> QED BY <1>2 DEF EventOf

(* What the steps of a tag or an undo, those that save no row, share.      *)
LEMMA TagTypes ==
  ASSUME ScoreTypeOK, Proper, NEW t \in Taggers, NEW g \in Tags,
         tag' = [tag EXCEPT ![t] = g],
         g.at = "idle" => g.match = NoMatch,
         g.at # "idle" => g.match \in Matches,
         g.at \notin {"idle", "resolved"} => g.event.match = g.match
  PROVE  tag' \in [Taggers -> Tags] /\ TagNamed'
<1>1. tag \in [Taggers -> Tags]
  BY DEF ScoreTypeOK
<1>2. tag' \in [Taggers -> Tags]
  BY <1>1
<1>3. ASSUME NEW u \in Taggers, u # t PROVE tag'[u] = tag[u]
  BY <1>1, <1>3
<1>4. tag'[t] = g
  BY <1>1
<1>5. TagNamed
  BY DEF Proper
<1> QED BY <1>2, <1>3, <1>4, <1>5 DEF TagNamed

(* The types are preserved, and requests go on knowing their matches.      *)
LEMMA ScoreTypeStep ==
  ASSUME ScoreTypeOK, Proper, [ScoreNext]_scoreVars
  PROVE  ScoreTypeOK' /\ Proper'
<1>a. TypeOK /\ Named /\ Fresh /\ TagNamed
  BY DEF ScoreTypeOK, Proper
<1>b. ASSUME Next PROVE TypeOK' /\ Named' /\ Fresh'
  BY <1>a, <1>b, TypeStep, RequestStepNamed
<1>c. ASSUME UNCHANGED vars PROVE TypeOK' /\ Named' /\ Fresh'
  BY <1>a, <1>c DEF vars, store, clock, host, requests, TypeOK, Named, Fresh
<1>d. ASSUME UNCHANGED requests PROVE Named' /\ Fresh'
  BY <1>a, <1>d DEF requests, Named, Fresh
<1>e. ASSUME NEW ms \in SUBSET Matches, Disturb(ms) PROVE disturbed' \subseteq Matches
  BY <1>e DEF Disturb, Crowded, ScoreTypeOK
<1>f. ASSUME UNCHANGED tagVars
      PROVE  /\ tag' \in [Taggers -> Tags] /\ tracked' \in [Taggers -> Rows]
             /\ timeline' \subseteq EventOf(Matches) /\ made' \in [Matches -> Nat]
             /\ asked' \in [Matches -> 0..MaxTags] /\ deleted' \subseteq Matches
             /\ TagNamed'
  BY <1>f, <1>a DEF tagVars, ScoreTypeOK, TagNamed
<1>g. \A m \in Matches : row[m] \in Rows
  BY <1>a DEF TypeOK
<1>1. ASSUME NEW o \in Operators, LifecycleStep(o), Disturb({})
      PROVE  ScoreTypeOK' /\ Proper'
  <2>1. Next /\ UNCHANGED tagVars
    BY <1>1, LifecycleIsNext DEF LifecycleStep
  <2>2. score' \in [Matches -> Nat] /\ entity' \in [Operators -> Nat]
    BY <1>1, <1>a DEF LifecycleStep, Tracks, Forgets, Saves, ScoreTypeOK, TypeOK
  <2> QED
    BY <2>1, <2>2, <1>1, <1>b, <1>e, <1>f DEF ScoreTypeOK, Proper
<1>2. ASSUME NEW t \in Taggers, TagStep(t), Disturb({})
      PROVE  ScoreTypeOK' /\ Proper'
  <2>a. disturbed' \subseteq Matches
    BY <1>2, <1>e
  <2>b. tag[t] \in Tags /\ tracked[t] \in Rows
    BY DEF ScoreTypeOK
  <2>1. ASSUME NEW m \in Matches, NEW scores \in BOOLEAN, ReadMatch(t, m, scores)
        PROVE  ScoreTypeOK' /\ Proper'
    <3> DEFINE e == [match |-> m, id |-> 0, scores |-> scores, before |-> score[m]]
               g == [at |-> IF scores THEN "apply" ELSE "create", match |-> m,
                     score |-> score[m], event |-> e]
    <3>1. score[m] \in Nat
      BY DEF ScoreTypeOK
    <3>2. e \in EventOf(Matches \cup {NoMatch})
      <4>1. m \in Matches \cup {NoMatch} /\ 0 \in Nat
        OBVIOUS
      <4> QED BY <3>1, <4>1, Zenon DEF EventOf
    <3>3. e.match = m
      OBVIOUS
    <3> HIDE DEF e
    <3>4. g \in Tags
      BY <3>1, <3>2 DEF Tags
    <3>5. g.at \in {"apply", "create"} /\ g.match = m /\ g.event = e
      OBVIOUS
    <3> HIDE DEF g
    <3>6. tag' = [tag EXCEPT ![t] = g]
      BY <2>1 DEF ReadMatch, g, e
    <3>7. tag' \in [Taggers -> Tags] /\ TagNamed'
      BY <3>3, <3>4, <3>5, <3>6, TagTypes
    <3>8. asked' \in [Matches -> 0..MaxTags] /\ tracked' \in [Taggers -> Rows]
      BY <2>1, <1>g DEF ReadMatch, TracksRow, ScoreTypeOK
    <3> QED BY <2>1, <2>a, <3>7, <3>8, <1>c DEF ReadMatch, ScoreTypeOK, Proper
  <2>2. ASSUME NEW m \in Matches, NEW e \in timeline, FindLast(t, m, e)
        PROVE  ScoreTypeOK' /\ Proper'
    <3> DEFINE g == [at |-> "find", match |-> m, score |-> 0, event |-> e]
    <3>1. e \in EventOf(Matches \cup {NoMatch}) /\ e.match = m
      BY <2>2, EventTypes DEF FindLast, IsLast, ScoreTypeOK
    <3>2. g \in Tags /\ g.at = "find" /\ g.match = m /\ g.event = e
      BY <3>1 DEF Tags
    <3> HIDE DEF g
    <3>4. tag' = [tag EXCEPT ![t] = g]
      BY <2>2 DEF FindLast, g
    <3>5. tag' \in [Taggers -> Tags] /\ TagNamed'
      BY <3>1, <3>2, <3>4, TagTypes
    <3> QED BY <2>2, <2>a, <3>5, <1>c DEF FindLast, ScoreTypeOK, Proper
  <2>3. ASSUME NEW m \in Matches, ResolveMatch(t, m) PROVE ScoreTypeOK' /\ Proper'
    <3> DEFINE g == [at |-> "resolved", match |-> m, score |-> 0,
                     event |-> NoEvent]
    <3>1. g \in Tags
      BY EventTypes DEF Tags
    <3>2. g.at = "resolved" /\ g.match = m
      OBVIOUS
    <3> HIDE DEF g
    <3>3. tag' = [tag EXCEPT ![t] = g]
      BY <2>3 DEF ResolveMatch, g
    <3>4. tag' \in [Taggers -> Tags] /\ TagNamed'
      BY <3>1, <3>2, <3>3, TagTypes
    <3>5. tracked' \in [Taggers -> Rows]
      BY <2>3, <1>g DEF ResolveMatch, TracksRow, ScoreTypeOK
    <3> QED BY <2>3, <2>a, <3>4, <3>5, <1>c DEF ResolveMatch, ScoreTypeOK, Proper
  <2>4. ASSUME NEW e \in timeline, FindResolved(t, e) PROVE ScoreTypeOK' /\ Proper'
    <3> DEFINE g == [tag[t] EXCEPT !.at = "restore", !.event = e]
    <3>1. /\ e \in EventOf(Matches \cup {NoMatch})
          /\ e.match = tag[t].match /\ tag[t].at = "resolved"
      BY <2>4, EventTypes DEF FindResolved, IsLast, ScoreTypeOK
    <3>2. g \in Tags /\ g.at = "restore" /\ g.match = tag[t].match /\ g.event = e
      BY <2>b, <3>1 DEF Tags
    <3> HIDE DEF g
    <3>3. tag' = [tag EXCEPT ![t] = g]
      BY <2>4 DEF FindResolved, g, ScoreTypeOK
    <3>4. tag' \in [Taggers -> Tags] /\ TagNamed'
      BY <1>a, <3>1, <3>2, <3>3, TagTypes DEF TagNamed
    <3> QED BY <2>4, <2>a, <3>4, <1>c DEF FindResolved, ScoreTypeOK, Proper
  <2>5. ASSUME FindMatch(t) PROVE ScoreTypeOK' /\ Proper'
    <3> DEFINE g == [tag[t] EXCEPT !.at = "restore"]
    <3>1. g \in Tags /\ g.at = "restore" /\ g.match = tag[t].match
          /\ g.event = tag[t].event
      BY <2>b DEF Tags
    <3> HIDE DEF g
    <3>2. tag' = [tag EXCEPT ![t] = g] /\ tag[t].at = "find"
      BY <2>5 DEF FindMatch, g, ScoreTypeOK
    <3>3. tag' \in [Taggers -> Tags] /\ TagNamed'
      BY <1>a, <3>1, <3>2, TagTypes DEF TagNamed
    <3>4. tracked' \in [Taggers -> Rows]
      BY <2>5, <1>a, <1>g, <3>2 DEF FindMatch, TracksRow, TagNamed, ScoreTypeOK
    <3> QED BY <2>5, <2>a, <3>3, <3>4, <1>c DEF FindMatch, ScoreTypeOK, Proper
  <2>6. ASSUME Apply(t) \/ Restore(t) PROVE ScoreTypeOK' /\ Proper'
    <3> DEFINE at == IF tag[t].at = "apply" THEN "create" ELSE "delete"
               g == [tag[t] EXCEPT !.at = at]
    <3>1. g \in Tags /\ g.at = at /\ g.match = tag[t].match
          /\ g.event = tag[t].event
      BY <2>b DEF Tags
    <3>2. tag' = [tag EXCEPT ![t] = g] /\ tag[t].at \in {"apply", "restore"}
      BY <2>6 DEF Apply, Restore, ScoreTypeOK
    <3>3. at \in {"create", "delete"}
      OBVIOUS
    <3> HIDE DEF g, at
    <3>4. tag' \in [Taggers -> Tags] /\ TagNamed'
      BY <1>a, <3>1, <3>2, <3>3, TagTypes DEF TagNamed
    <3>5. TypeOK' /\ score' \in [Matches -> Nat]
      <4>1. tag[t].score + 1 \in Nat /\ tag[t].event.before \in Nat
        BY <2>b DEF Tags, EventOf
      <4> QED BY <2>6, <3>2, <4>1, SaveTypes DEF Apply, Restore
    <3>6. UNCHANGED <<requests, entity, tracked, timeline, made, asked, deleted>>
      BY <2>6 DEF Apply, Restore, UpdateMatch
    <3> QED BY <2>a, <3>4, <3>5, <3>6, <1>d DEF ScoreTypeOK, Proper
  <2>7. ASSUME CreateEvent(t) \/ FindNothing(t) \/ DeleteLast(t)
        PROVE  ScoreTypeOK' /\ Proper'
    <3>1. Idle(t) /\ UNCHANGED <<vars, score, entity, asked, deleted>>
      BY <2>7 DEF CreateEvent, FindNothing, DeleteLast
    <3>2. tag' \in [Taggers -> Tags] /\ TagNamed'
      BY <3>1, EmptyTag, TagTypes DEF Idle, IdleTag
    <3>3. tracked' \in [Taggers -> Rows]
      BY <3>1, EmptyTag DEF Idle, ScoreTypeOK
    <3>4. timeline' \subseteq EventOf(Matches) /\ made' \in [Matches -> Nat]
      <4>1. CASE CreateEvent(t)
        <5> DEFINE e == [tag[t].event EXCEPT !.id = made[tag[t].match] + 1]
        <5>1. tag[t].match \in Matches /\ tag[t].event.match = tag[t].match
          BY <4>1, <1>a DEF CreateEvent, TagNamed
        <5>2. made[tag[t].match] + 1 \in Nat
          BY <5>1 DEF ScoreTypeOK
        <5>3. e \in EventOf(Matches)
          BY <2>b, <5>1, <5>2 DEF Tags, EventOf
        <5>4. timeline' = timeline \cup {e}
          BY <4>1 DEF CreateEvent
        <5>5. made' \in [Matches -> Nat]
          BY <4>1, <5>1, <5>2 DEF CreateEvent, ScoreTypeOK
        <5> QED BY <5>3, <5>4, <5>5 DEF ScoreTypeOK
      <4>2. CASE FindNothing(t) \/ DeleteLast(t)
        BY <4>2 DEF FindNothing, DeleteLast, ScoreTypeOK
      <4> QED BY <2>7, <4>1, <4>2
    <3> QED BY <2>a, <3>1, <3>2, <3>3, <3>4, <1>c DEF ScoreTypeOK, Proper
  <2> QED
    BY <1>2, <2>1, <2>2, <2>3, <2>4, <2>5, <2>6, <2>7 DEF TagStep
<1>3. ASSUME Boot, UNCHANGED <<score, entity, tagVars>>, Disturb({})
      PROVE  ScoreTypeOK' /\ Proper'
  <2>1. Next
    BY <1>3 DEF Next
  <2>2. UNCHANGED <<score, entity>> /\ UNCHANGED tagVars
    BY <1>3
  <2> QED BY <2>1, <2>2, <1>3, <1>b, <1>e, <1>f DEF ScoreTypeOK, Proper
<1>4. ASSUME NEW t \in Taggers, TagThrows(t) PROVE ScoreTypeOK' /\ Proper'
  <2>1. Idle(t) /\ UNCHANGED <<vars, score, entity, timeline, made, asked, deleted>>
    BY <1>4 DEF TagThrows
  <2>2. tag' \in [Taggers -> Tags] /\ TagNamed'
    BY <2>1, EmptyTag, TagTypes DEF Idle, IdleTag
  <2>3. tracked' \in [Taggers -> Rows]
    BY <2>1, EmptyTag DEF Idle, ScoreTypeOK
  <2>4. Cut({t}) \in SUBSET Matches
    BY <1>a DEF Cut, TagNamed
  <2>5. disturbed' \subseteq Matches
    BY <1>4, <2>4, <1>e DEF TagThrows
  <2> QED BY <2>1, <2>2, <2>3, <2>5, <1>c DEF ScoreTypeOK, Proper
<1>5. ASSUME NEW e \in timeline, DeleteEvent(e) PROVE ScoreTypeOK' /\ Proper'
  <2>1. e.match \in Matches
    BY DEF ScoreTypeOK, EventOf
  <2>2. {e.match} \cap {m \in Matches : At(m) # {}} \in SUBSET Matches
    OBVIOUS
  <2>3. disturbed' \subseteq Matches
    BY <1>5, <2>2, <1>e DEF DeleteEvent
  <2>4. UNCHANGED <<vars, score, entity, tag, tracked, made, asked>>
    BY <1>5 DEF DeleteEvent
  <2>5. timeline' \subseteq timeline /\ deleted' \subseteq Matches
    BY <1>5, <2>1 DEF DeleteEvent, ScoreTypeOK
  <2>6. TagNamed'
    BY <1>a, <2>4 DEF TagNamed
  <2> QED BY <2>3, <2>4, <2>5, <2>6, <1>c DEF ScoreTypeOK, Proper
<1>6. ASSUME CrashAll PROVE ScoreTypeOK' /\ Proper'
  <2>1. Next
    BY <1>6, CrashIsNext
  <2>2. tag' = [t \in Taggers |-> IdleTag] /\ tracked' = [t \in Taggers |-> NewMatch]
        /\ entity' = [o \in Operators |-> 0]
        /\ UNCHANGED <<score, timeline, made, asked, deleted>>
    BY <1>6 DEF CrashAll
  <2>3. TagNamed'
    BY <2>2 DEF TagNamed, IdleTag
  <2>4. Cut(Taggers) \in SUBSET Matches
    BY <1>a DEF Cut, TagNamed
  <2>5. disturbed' \subseteq Matches
    BY <1>6, <2>4, <1>e DEF CrashAll
  <2> QED BY <2>1, <2>2, <2>3, <2>5, <1>b, EmptyTag DEF ScoreTypeOK, Proper
<1>7. CASE UNCHANGED scoreVars
  <2>1. UNCHANGED vars /\ UNCHANGED tagVars /\ UNCHANGED <<score, entity, disturbed>>
    BY <1>7 DEF scoreVars
  <2> QED BY <2>1, <1>c, <1>f DEF ScoreTypeOK, Proper
<1> QED
  BY <1>1, <1>2, <1>3, <1>4, <1>5, <1>6, <1>7 DEF ScoreNext

(* Types and names hold initially.                                         *)
LEMMA ScoreTypeInit ==
  ASSUME ScoreInit PROVE ScoreTypeOK /\ Proper
<1>1. TypeOK /\ Named /\ Fresh
  BY TypeInit DEF ScoreInit, Init, Named, Fresh
<1>2. tag = [t \in Taggers |-> IdleTag] /\ IdleTag.at = "idle"
      /\ IdleTag.match = NoMatch
  BY DEF ScoreInit, IdleTag
<1>3. TagNamed
  BY <1>2 DEF TagNamed
<1> QED
  BY <1>1, <1>2, <1>3, EmptyTag DEF ScoreInit, ScoreTypeOK, Proper

(* Type correctness, in every reachable state.                             *)
THEOREM ScoreTypeCorrect == ScoreSpec => []ScoreTypeOK
<1>1. ScoreInit => ScoreTypeOK /\ Proper
  BY ScoreTypeInit
<1>2. (ScoreTypeOK /\ Proper) /\ [ScoreNext]_scoreVars
        => (ScoreTypeOK /\ Proper)'
  BY ScoreTypeStep
<1> QED BY <1>1, <1>2, PTL DEF ScoreSpec

-----------------------------------------------------------------------------
(* The timeline.                                                           *)

(* Events of a match are finitely many and have different ids, those of    *)
(* its first made[m] numbers.                                              *)
TimelineInv ==
  /\ IsFiniteSet(timeline)
  /\ \A e \in timeline : e.id \in 1..made[e.match]
  /\ \A e, f \in timeline : e.match = f.match /\ e.id = f.id => e = f

(* An event the request creates is of its match, and new.                  *)
LEMMA CreatedEvent ==
  ASSUME ScoreTypeOK, Proper, TimelineInv, NEW t \in Taggers, CreateEvent(t)
  PROVE  \E e :
           /\ timeline' = timeline \cup {e} /\ e \notin timeline
           /\ e.match = tag[t].match /\ tag[t].match \in Matches
           /\ e.id = made[tag[t].match] + 1
           /\ e.scores = tag[t].event.scores
           /\ e.before = tag[t].event.before
           /\ made' = [made EXCEPT ![tag[t].match] = @ + 1]
<1> DEFINE e == [tag[t].event EXCEPT !.id = made[tag[t].match] + 1]
<1>1. tag[t].match \in Matches /\ tag[t].event.match = tag[t].match
  BY DEF CreateEvent, Proper, TagNamed
<1>2. tag[t].event \in EventOf(Matches \cup {NoMatch})
  BY DEF ScoreTypeOK, Tags
<1>3. /\ e.match = tag[t].match /\ e.id = made[tag[t].match] + 1
      /\ e.scores = tag[t].event.scores /\ e.before = tag[t].event.before
  BY <1>1, <1>2 DEF EventOf
<1>4. timeline' = timeline \cup {e} /\ made' = [made EXCEPT ![tag[t].match] = @ + 1]
  BY DEF CreateEvent
<1> HIDE DEF e
<1>5. e \notin timeline
  <2>1. made[tag[t].match] \in Nat
    BY <1>1 DEF ScoreTypeOK
  <2> QED BY <1>3, <2>1 DEF TimelineInv
<1> QED BY <1>1, <1>3, <1>4, <1>5

(* What a step does to the timeline: an event is created, or some of them  *)
(* go.                                                                     *)
LEMMA TimelineShrinks ==
  ASSUME [ScoreNext]_scoreVars, \A t \in Taggers : ~CreateEvent(t)
  PROVE  timeline' \subseteq timeline /\ made' = made
<1>1. ASSUME NEW o \in Operators, LifecycleStep(o)
      PROVE  timeline' \subseteq timeline /\ made' = made
  BY <1>1 DEF LifecycleStep, tagVars
<1>2. ASSUME NEW t \in Taggers, TagStep(t)
      PROVE  timeline' \subseteq timeline /\ made' = made
  BY <1>2 DEF TagStep, ReadMatch, FindLast, ResolveMatch, FindResolved,
     FindMatch, FindNothing, Apply, Restore, DeleteLast
<1>3. CASE UNCHANGED scoreVars
  BY <1>3 DEF scoreVars, tagVars
<1> QED
  BY <1>1, <1>2, <1>3 DEF ScoreNext, TagThrows, DeleteEvent, CrashAll, tagVars

(* TimelineInv is preserved by every step.                                 *)
LEMMA TimelineStep ==
  ASSUME ScoreTypeOK, Proper, TimelineInv, [ScoreNext]_scoreVars
  PROVE  TimelineInv'
<1>1. ASSUME NEW t \in Taggers, CreateEvent(t) PROVE TimelineInv'
  <2> DEFINE k == tag[t].match
  <2>1. PICK e : /\ timeline' = timeline \cup {e}
                 /\ e.match = k /\ k \in Matches /\ e.id = made[k] + 1
                 /\ made' = [made EXCEPT ![k] = @ + 1]
    BY <1>1, CreatedEvent
  <2> HIDE DEF k
  <2>2. \A m \in Matches : made[m] \in Nat /\ made'[m] \in Nat /\ made[m] <= made'[m]
    BY <2>1 DEF ScoreTypeOK
  <2>3. \A f \in timeline : f.match \in Matches
    BY DEF ScoreTypeOK, EventOf
  <2>4. IsFiniteSet(timeline')
    BY <2>1, FS_AddElement DEF TimelineInv
  <2>5. \A f \in timeline' : f.id \in 1..made'[f.match]
    <3>1. ASSUME NEW f \in timeline PROVE f.id \in 1..made'[f.match]
      BY <2>2, <2>3 DEF TimelineInv
    <3>2. e.id \in 1..made'[e.match]
      BY <2>1, <2>2 DEF ScoreTypeOK
    <3> QED BY <2>1, <3>1, <3>2
  <2>6. \A f \in timeline : f.match = k => f.id # e.id
    BY <2>1, <2>2 DEF TimelineInv
  <2> QED BY <2>1, <2>4, <2>5, <2>6 DEF TimelineInv
<1>2. ASSUME \A t \in Taggers : ~CreateEvent(t) PROVE TimelineInv'
  <2>1. timeline' \subseteq timeline /\ made' = made
    BY <1>2, TimelineShrinks
  <2> QED BY <2>1, FS_Subset DEF TimelineInv
<1> QED BY <1>1, <1>2

-----------------------------------------------------------------------------
(* The score of an undisturbed match.                                      *)

Clean == Matches \ (disturbed \cup deleted)

\* The tag or undo t has saved the score, and not yet changed the timeline.
Unsettled(t) ==
  \/ tag[t].at = "create" /\ tag[t].event.scores
  \/ tag[t].at = "delete"

\* The scoring events of match m before its event e.
Earlier(m, e) == {f \in Scores(m) : f.id < e.id}

Chained(m) ==
  \A e \in timeline : e.match = m => e.before = Cardinality(Earlier(m, e))

Settled(m) ==
  (\A t \in Taggers : tag[t].match = m => ~Unsettled(t)) =>
    score[m] = Cardinality(Scores(m))

\* What a request that tags m, or undoes a tag of it, has read is still so.
TagKnows(t, m) ==
  /\ tag[t].at = "apply" =>
       /\ tag[t].event.scores
       /\ tag[t].score = score[m] /\ tag[t].event.before = score[m]
  /\ tag[t].at = "create" =>
       IF tag[t].event.scores
       THEN /\ tag[t].event.before = Cardinality(Scores(m))
            /\ score[m] = Cardinality(Scores(m)) + 1
       ELSE tag[t].event.before = score[m]
  /\ tag[t].at \in {"find", "restore", "delete"} => IsLast(tag[t].event, m)
  /\ tag[t].at = "delete" => score[m] = tag[t].event.before

\* So is what a command is about to save.
OperatorKnows(o, m) ==
  pc[o] \in {"markReady", "saveRow"} \/ (pc[o] = "queued" /\ o \in early) =>
    entity[o] = score[m]

Good(m) ==
  /\ Chained(m) /\ Settled(m)
  /\ \A t \in Taggers : tag[t].match = m => TagKnows(t, m)
  /\ \A o \in Operators : subject[o] = m => OperatorKnows(o, m)

\* The inductive invariant of ScoreIsItsEvents.
ScoreInv ==
  /\ ScoreTypeOK /\ Proper /\ TimelineInv
  /\ Crowded \subseteq disturbed
  /\ \A m \in Clean : Good(m)

(* A step that leaves the score, the events and the tags of a match alone. *)
LEMMA Unmoved ==
  ASSUME NEW m \in Matches, Good(m), score'[m] = score[m],
         \A e : e.match = m => (e \in timeline' <=> e \in timeline),
         \A t \in Taggers : tag'[t].match = m => tag'[t] = tag[t],
         \A t \in Taggers : tag[t].match = m /\ Unsettled(t) => tag'[t] = tag[t],
         \A o \in Operators : subject'[o] = m => OperatorKnows(o, m)'
  PROVE  Good(m)'
<1>1. Scores(m)' = Scores(m)
  BY DEF Scores
<1>2. Chained(m)'
  <2>1. ASSUME NEW e PROVE Earlier(m, e)' = Earlier(m, e)
    BY <1>1 DEF Earlier
  <2> QED BY <2>1 DEF Chained, Good
<1>3. Settled(m)'
  <2>1. ASSUME NEW t \in Taggers, tag[t].match = m, Unsettled(t)
        PROVE  tag'[t].match = m /\ Unsettled(t)'
    BY <2>1 DEF Unsettled
  <2> QED BY <1>1, <2>1 DEF Settled, Good
<1>4. ASSUME NEW t \in Taggers, tag'[t].match = m PROVE TagKnows(t, m)'
  <2>1. tag'[t] = tag[t] /\ TagKnows(t, m)
    BY <1>4 DEF Good
  <2>2. IsLast(tag[t].event, m) => IsLast(tag[t].event, m)'
    BY <2>1 DEF IsLast
  <2> QED BY <1>1, <2>1, <2>2 DEF TagKnows
<1> QED BY <1>2, <1>3, <1>4 DEF Good

(* A request at work on an undisturbed match is alone there.               *)
LEMMA AtWorkAlone ==
  ASSUME ScoreInv, NEW t \in Taggers, tag[t].match \in Clean
  PROVE  /\ \A u \in Taggers : tag[u].match = tag[t].match => u = t
         /\ \A o \in Operators : subject[o] # tag[t].match
<1> DEFINE m == tag[t].match
<1>1. m \in Matches /\ m \notin Crowded /\ t \in At(m)
  BY DEF ScoreInv, Clean, At
<1>2. \A x \in At(m) : x = t
  BY <1>1 DEF Crowded
<1>3. t \notin Operators
  OBVIOUS
<1> QED BY <1>2, <1>3 DEF At

(* What is undisturbed after a step was so before.                         *)
LEMMA CleanBefore ==
  ASSUME [ScoreNext]_scoreVars PROVE disturbed \subseteq disturbed' /\ Clean' \subseteq Clean
<1>1. disturbed \subseteq disturbed'
  BY DEF ScoreNext, TagThrows, DeleteEvent, CrashAll, Disturb, scoreVars
<1>2. deleted \subseteq deleted'
  <2>1. ASSUME NEW o \in Operators, LifecycleStep(o) PROVE deleted' = deleted
    BY <2>1 DEF LifecycleStep, tagVars
  <2>2. ASSUME NEW t \in Taggers, TagStep(t) PROVE deleted' = deleted
    BY <2>2 DEF TagStep, ReadMatch, FindLast, ResolveMatch, FindResolved,
       FindMatch, FindNothing, Apply, Restore, DeleteLast, CreateEvent
  <2> QED BY <2>1, <2>2 DEF ScoreNext, TagThrows, DeleteEvent, CrashAll,
             tagVars, scoreVars
<1> QED BY <1>1, <1>2 DEF Clean

(* Commands: a row saved again has the score it was read with.             *)
LEMMA LifecycleKeeps ==
  ASSUME ScoreInv, NEW o \in Operators, LifecycleStep(o), NEW m \in Clean
  PROVE  /\ score'[m] = score[m]
         /\ \A q \in Operators : subject'[q] = m => OperatorKnows(q, m)'
<1>a. /\ TypeOK /\ Named /\ Fresh
      /\ score \in [Matches -> Nat] /\ entity \in [Operators -> Nat]
  BY DEF ScoreInv, ScoreTypeOK, Proper
<1>b. \A q \in Operators : subject[q] = m => OperatorKnows(q, m)
  BY DEF ScoreInv, Good
<1> USE DEF TypeOK, Goto, OperatorKnows
<1>1. ASSUME NEW c \in InUse, NEW k \in Matches,
             AskClock(o, c, k), UNCHANGED <<score, entity>>
      PROVE  /\ score'[m] = score[m]
             /\ \A q \in Operators : subject'[q] = m => OperatorKnows(q, m)'
  BY <1>1, <1>a, <1>b DEF AskClock, Fresh
<1>2. ASSUME NEW c \in InUse, NEW k \in Matches,
             AskMatch(o, c, k) \/ Press(o, c, k), Tracks(o, k)
      PROVE  /\ score'[m] = score[m]
             /\ \A q \in Operators : subject'[q] = m => OperatorKnows(q, m)'
  <2>1. /\ pc' = [pc EXCEPT ![o] = "queued"]
        /\ subject' = [subject EXCEPT ![o] = k]
        /\ early' = early \cup {o}
    BY <1>2 DEF AskMatch, Press
  <2> QED BY <2>1, <1>2, <1>a, <1>b DEF Tracks
<1>3. ASSUME NEW k \in Matches, ReadForReady(o, k), Tracks(o, k)
      PROVE  /\ score'[m] = score[m]
             /\ \A q \in Operators : subject'[q] = m => OperatorKnows(q, m)'
  BY <1>3, <1>a, <1>b DEF ReadForReady, Tracks
<1>4. ASSUME NEW k \in Matches, Decide(o, k),
             IF o \in early /\ k = subject[o] THEN UNCHANGED <<score, entity>>
                                              ELSE Tracks(o, k)
      PROVE  /\ score'[m] = score[m]
             /\ \A q \in Operators : subject'[q] = m => OperatorKnows(q, m)'
  <2>1. /\ pc[o] = "queued" /\ pc' = [pc EXCEPT ![o] = "saveRow"]
        /\ subject' = [subject EXCEPT ![o] = k] /\ early' = early
    BY <1>4 DEF Decide, Enters
  <2> QED BY <2>1, <1>4, <1>a, <1>b DEF Tracks
<1>5. ASSUME MarkReady(o) \/ SaveRow(o), Saves(o)
      PROVE  /\ score'[m] = score[m]
             /\ \A q \in Operators : subject'[q] = m => OperatorKnows(q, m)'
  <2>1. pc[o] \in {"markReady", "saveRow"} /\ subject[o] \in Matches
    BY <1>5, <1>a DEF MarkReady, SaveRow, Named
  <2>2. score'[m] = score[m]
    BY <2>1, <1>5, <1>a, <1>b DEF Saves, Clean
  <2>3. /\ pc'[o] \in {"idle", "saveClock"}
        /\ \A q \in Operators \ {o} :
             /\ pc'[q] = pc[q] /\ subject'[q] = subject[q]
             /\ q \in early' <=> q \in early
             /\ entity'[q] = entity[q]
    BY <1>5, <1>a DEF MarkReady, SaveRow, Answered, Saves, Forgets
  <2> QED BY <2>2, <2>3, <1>b
<1>6. ASSUME Correct(o) \/ SaveClock(o), UNCHANGED <<score, entity>>
      PROVE  /\ score'[m] = score[m]
             /\ \A q \in Operators : subject'[q] = m => OperatorKnows(q, m)'
  <2>1. /\ pc'[o] \in {"idle", "saveClock"}
        /\ \A q \in Operators \ {o} :
             /\ pc'[q] = pc[q] /\ subject'[q] = subject[q]
             /\ q \in early' <=> q \in early
    BY <1>6, <1>a DEF Correct, SaveClock, Answered
  <2> QED BY <2>1, <1>6, <1>b
<1>7. ASSUME Refuse(o) \/ SaveThrows(o), Forgets(o), UNCHANGED score
      PROVE  /\ score'[m] = score[m]
             /\ \A q \in Operators : subject'[q] = m => OperatorKnows(q, m)'
  <2>1. /\ pc'[o] = "idle"
        /\ \A q \in Operators \ {o} :
             /\ pc'[q] = pc[q] /\ subject'[q] = subject[q]
             /\ q \in early' <=> q \in early
             /\ entity'[q] = entity[q]
    BY <1>7, <1>a DEF Refuse, SaveThrows, Answered, Forgets
  <2> QED BY <2>1, <1>7, <1>b
<1> QED
  BY <1>1, <1>2, <1>3, <1>4, <1>5, <1>6, <1>7 DEF LifecycleStep

(* Tags and undos, on the match t is at work on when it stays undisturbed. *)
LEMMA TagStepKeeps ==
  ASSUME ScoreInv, TimelineInv', NEW t \in Taggers, TagStep(t),
         NEW m \in Clean
  PROVE  Good(m)'
<1>a. /\ ScoreTypeOK /\ Proper /\ TimelineInv /\ TagNamed /\ m \in Matches
      /\ Good(m) /\ score \in [Matches -> Nat] /\ tag \in [Taggers -> Tags]
  BY DEF ScoreInv, Clean, ScoreTypeOK, Proper
<1>b. UNCHANGED <<requests, entity>>
  BY DEF TagStep, ReadMatch, FindLast, ResolveMatch, FindResolved, FindMatch,
     FindNothing, Apply, CreateEvent, Restore, DeleteLast, UpdateMatch, vars
<1>c. ASSUME score'[m] = score[m], NEW o \in Operators, subject'[o] = m
      PROVE  OperatorKnows(o, m)'
  BY <1>a, <1>b, <1>c DEF Good, OperatorKnows, requests
<1>d. ASSUME NEW g, tag' = [tag EXCEPT ![t] = g]
      PROVE  tag'[t] = g /\ \A u \in Taggers \ {t} : tag'[u] = tag[u]
  BY <1>a, <1>d
<1>e. ASSUME timeline' = timeline
      PROVE  /\ Scores(m)' = Scores(m) /\ Chained(m)'
             /\ \A e : IsLast(e, m) => IsLast(e, m)'
  <2>1. Scores(m)' = Scores(m)
    BY <1>e DEF Scores
  <2>2. \A e : Earlier(m, e)' = Earlier(m, e)
    BY <2>1 DEF Earlier
  <2>3. \A e : IsLast(e, m) => IsLast(e, m)'
    BY <1>e DEF IsLast
  <2> QED BY <1>a, <1>e, <2>1, <2>2, <2>3 DEF Good, Chained
<1>f. \A u \in Taggers : tag[u].match = m => TagKnows(u, m)
  BY <1>a DEF Good
\* Steps that save nothing: only t's own knowledge is new.
<1>g. ASSUME score' = score, timeline' = timeline,
             \A u \in Taggers \ {t} : tag'[u] = tag[u],
             ~Unsettled(t), ~Unsettled(t)',
             tag'[t].match = m => TagKnows(t, m)'
      PROVE  Good(m)'
  <2>1. Scores(m)' = Scores(m) /\ Chained(m)'
        /\ \A e : IsLast(e, m) => IsLast(e, m)'
    BY <1>e, <1>g
  <2>2. Settled(m)'
    BY <1>a, <1>g, <2>1 DEF Good, Settled, Unsettled
  <2>3. ASSUME NEW u \in Taggers, tag'[u].match = m PROVE TagKnows(u, m)'
    <3>1. CASE u = t
      BY <1>g, <2>3, <3>1
    <3>2. CASE u # t
      <4>1. tag'[u] = tag[u] /\ TagKnows(u, m)
        BY <1>f, <1>g, <2>3, <3>2
      <4>2. IsLast(tag[u].event, m) => IsLast(tag[u].event, m)'
        BY <2>1, <4>1
      <4> QED BY <1>g, <2>1, <4>1, <4>2 DEF TagKnows
    <3> QED BY <3>1, <3>2
  <2> QED BY <1>c, <1>g, <2>1, <2>2, <2>3 DEF Good
<1>1. ASSUME NEW k \in Matches, NEW scores \in BOOLEAN, ReadMatch(t, k, scores)
      PROVE  Good(m)'
  <2>1. /\ tag[t].at = "idle" /\ UNCHANGED <<score, timeline>>
        /\ tag'[t] = [at |-> IF scores THEN "apply" ELSE "create", match |-> k,
                      score |-> score[k],
                      event |-> [match |-> k, id |-> 0, scores |-> scores,
                                 before |-> score[k]]]
        /\ \A u \in Taggers \ {t} : tag'[u] = tag[u]
    BY <1>1, <1>d DEF ReadMatch
  <2>2. /\ tag'[t].match = k /\ tag'[t].score = score[k]
        /\ tag'[t].event.scores = scores /\ tag'[t].event.before = score[k]
        /\ tag'[t].at = IF scores THEN "apply" ELSE "create"
    BY <2>1
  <2>3. ~Unsettled(t) /\ ~Unsettled(t)'
    BY <2>1, <2>2 DEF Unsettled
  <2>4. tag'[t].match = m => TagKnows(t, m)'
    BY <2>1, <2>2 DEF TagKnows
  <2> QED BY <1>g, <2>1, <2>3, <2>4
<1>2. ASSUME NEW k \in Matches, NEW e \in timeline, FindLast(t, k, e)
      PROVE  Good(m)'
  <2>1. /\ tag[t].at = "idle" /\ UNCHANGED <<score, timeline>> /\ IsLast(e, k)
        /\ tag'[t] = [at |-> "find", match |-> k, score |-> 0, event |-> e]
        /\ \A u \in Taggers \ {t} : tag'[u] = tag[u]
    BY <1>2, <1>d DEF FindLast
  <2>2. ~Unsettled(t) /\ ~Unsettled(t)'
    BY <2>1 DEF Unsettled
  <2>3. k = m => IsLast(e, m)'
    BY <1>e, <2>1
  <2>4. tag'[t].match = m => TagKnows(t, m)'
    BY <2>1, <2>3 DEF TagKnows
  <2> QED BY <1>g, <2>1, <2>2, <2>4
<1>3. ASSUME NEW k \in Matches, ResolveMatch(t, k) PROVE Good(m)'
  <2>1. /\ tag[t].at = "idle" /\ UNCHANGED <<score, timeline>>
        /\ tag'[t] = [at |-> "resolved", match |-> k, score |-> 0,
                      event |-> NoEvent]
        /\ \A u \in Taggers \ {t} : tag'[u] = tag[u]
    BY <1>3, <1>d DEF ResolveMatch
  <2>2. ~Unsettled(t) /\ ~Unsettled(t)' /\ TagKnows(t, m)'
    BY <2>1 DEF Unsettled, TagKnows
  <2> QED BY <1>g, <2>1, <2>2
<1>4. ASSUME NEW e \in timeline, FindResolved(t, e) PROVE Good(m)'
  <2>1. /\ tag[t].at = "resolved" /\ UNCHANGED <<score, timeline>>
        /\ IsLast(e, tag[t].match)
        /\ tag'[t].at = "restore" /\ tag'[t].match = tag[t].match
        /\ tag'[t].event = e
        /\ \A u \in Taggers \ {t} : tag'[u] = tag[u]
    BY <1>4, <1>a DEF FindResolved, Tags
  <2>2. ~Unsettled(t) /\ ~Unsettled(t)'
    BY <2>1 DEF Unsettled
  <2>3. tag[t].match = m => IsLast(e, m)'
    BY <1>e, <2>1
  <2>4. tag'[t].match = m => TagKnows(t, m)'
    BY <2>1, <2>3 DEF TagKnows
  <2> QED BY <1>g, <2>1, <2>2, <2>4
<1>5. ASSUME FindMatch(t) PROVE Good(m)'
  <2>1. /\ tag[t].at = "find" /\ UNCHANGED <<score, timeline>>
        /\ tag'[t].at = "restore" /\ tag'[t].match = tag[t].match
        /\ tag'[t].event = tag[t].event
        /\ \A u \in Taggers \ {t} : tag'[u] = tag[u]
    BY <1>5, <1>a DEF FindMatch, Tags
  <2>2. ~Unsettled(t) /\ ~Unsettled(t)'
    BY <2>1 DEF Unsettled
  <2>3. tag[t].match = m => IsLast(tag[t].event, m)'
    BY <1>e, <1>f, <2>1 DEF TagKnows
  <2>4. tag'[t].match = m => TagKnows(t, m)'
    BY <2>1, <2>3 DEF TagKnows
  <2> QED BY <1>g, <2>1, <2>2, <2>4
<1>6. ASSUME FindNothing(t) PROVE Good(m)'
  <2>1. /\ tag[t].at = "resolved" /\ UNCHANGED <<score, timeline>>
        /\ tag'[t] = IdleTag /\ \A u \in Taggers \ {t} : tag'[u] = tag[u]
    BY <1>6, <1>d DEF FindNothing, Idle
  <2>2. ~Unsettled(t) /\ ~Unsettled(t)' /\ TagKnows(t, m)'
    BY <2>1 DEF Unsettled, TagKnows, IdleTag
  <2> QED BY <1>g, <2>1, <2>2
\* Steps that save the score or the timeline, on another match.
<1>h. ASSUME Apply(t) \/ CreateEvent(t) \/ Restore(t) \/ DeleteLast(t),
             tag[t].match # m
      PROVE  Good(m)'
  <2>1. /\ tag'[t].match # m /\ \A u \in Taggers \ {t} : tag'[u] = tag[u]
    <3>1. CASE Apply(t) \/ Restore(t)
      BY <1>a, <1>h, <3>1 DEF Apply, Restore, Tags
    <3>2. CASE CreateEvent(t) \/ DeleteLast(t)
      <4>1. IdleTag.match # m
        BY <1>a, ConstantsAssumption DEF IdleTag
      <4> QED BY <1>a, <1>d, <3>2, <4>1 DEF CreateEvent, DeleteLast, Idle
    <3> QED BY <1>h, <3>1, <3>2
  <2>2. score'[m] = score[m]
    BY <1>a, <1>h DEF Apply, CreateEvent, Restore, DeleteLast, UpdateMatch
  <2>3. \A e : e.match = m => (e \in timeline' <=> e \in timeline)
    <3>1. CASE Apply(t) \/ Restore(t)
      BY <3>1 DEF Apply, Restore
    <3>2. CASE CreateEvent(t)
      BY <1>a, <1>h, <3>2, CreatedEvent
    <3>3. CASE DeleteLast(t)
      BY <1>a, <1>h, <3>3 DEF DeleteLast, TagNamed
    <3> QED BY <1>h, <3>1, <3>2, <3>3
  <2> QED BY <1>a, <1>c, <1>h, <2>1, <2>2, <2>3, Unmoved
\* And on m itself, where t is alone.
<1>i. ASSUME tag[t].match = m
      PROVE  /\ \A u \in Taggers : tag[u].match = m => u = t
             /\ \A o \in Operators : subject'[o] # m
  BY <1>b, <1>i, AtWorkAlone DEF requests
<1>j. ASSUME tag[t].match = m, Chained(m)', Settled(m)',
             \A u \in Taggers \ {t} : tag'[u] = tag[u],
             tag'[t].match = m => TagKnows(t, m)'
      PROVE  Good(m)'
  BY <1>i, <1>j DEF Good
<1>7. ASSUME Apply(t), tag[t].match = m PROVE Good(m)'
  <2>1. /\ tag[t].at = "apply" /\ timeline' = timeline
        /\ score'[m] = tag[t].score + 1
        /\ tag'[t].at = "create" /\ tag'[t].match = m
        /\ tag'[t].event = tag[t].event
        /\ \A u \in Taggers \ {t} : tag'[u] = tag[u]
    BY <1>7, <1>a DEF Apply, UpdateMatch, Tags
  <2>2. score[m] = Cardinality(Scores(m))
    BY <1>7, <1>a, <1>i, <2>1 DEF Good, Settled, Unsettled
  <2>3. tag[t].event.scores /\ tag[t].score = score[m]
        /\ tag[t].event.before = score[m]
    BY <1>7, <1>f, <2>1 DEF TagKnows
  <2>4. Scores(m)' = Scores(m) /\ Chained(m)'
    BY <1>e, <2>1
  <2>5. Unsettled(t)'
    BY <2>1, <2>3 DEF Unsettled
  <2>6. Settled(m)'
    BY <2>1, <2>5 DEF Settled
  <2>7. TagKnows(t, m)'
    BY <2>1, <2>2, <2>3, <2>4 DEF TagKnows
  <2> QED BY <1>7, <1>j, <2>1, <2>4, <2>6, <2>7
<1>8. ASSUME Restore(t), tag[t].match = m PROVE Good(m)'
  <2>1. /\ tag[t].at = "restore" /\ timeline' = timeline
        /\ score'[m] = tag[t].event.before
        /\ tag'[t].at = "delete" /\ tag'[t].match = m
        /\ tag'[t].event = tag[t].event
        /\ \A u \in Taggers \ {t} : tag'[u] = tag[u]
    BY <1>8, <1>a DEF Restore, UpdateMatch, Tags
  <2>2. IsLast(tag[t].event, m)'
    BY <1>8, <1>e, <1>f, <2>1 DEF TagKnows
  <2>3. Chained(m)'
    BY <1>e, <2>1
  <2>4. Settled(m)'
    BY <2>1 DEF Settled, Unsettled
  <2>5. TagKnows(t, m)'
    BY <2>1, <2>2 DEF TagKnows
  <2> QED BY <1>8, <1>j, <2>1, <2>3, <2>4, <2>5
<1>9. ASSUME CreateEvent(t), tag[t].match = m PROVE Good(m)'
  <2>1. PICK e : /\ timeline' = timeline \cup {e} /\ e \notin timeline
                 /\ e.match = m /\ e.id = made[m] + 1
                 /\ e.scores = tag[t].event.scores
                 /\ e.before = tag[t].event.before
    BY <1>9, <1>a, CreatedEvent
  <2>2. /\ tag[t].at = "create" /\ score' = score /\ tag'[t] = IdleTag
        /\ \A u \in Taggers \ {t} : tag'[u] = tag[u]
    BY <1>9, <1>d DEF CreateEvent, Idle
  <2>3. TagKnows(t, m)
    BY <1>9, <1>f
  <2>4. \A f \in timeline : f.match = m => f.id < e.id /\ f.id \in Nat
    BY <1>a, <2>1 DEF TimelineInv, ScoreTypeOK
  <2>5. e.id \in Nat
    BY <1>a, <2>1 DEF ScoreTypeOK
  <2>6. IsFiniteSet(Scores(m))
    BY <1>a, FS_Subset DEF TimelineInv, Scores
  <2>7. Scores(m)' = IF e.scores THEN Scores(m) \cup {e} ELSE Scores(m)
    BY <2>1 DEF Scores
  <2>8. /\ e.before = Cardinality(Scores(m))
        /\ score[m] = Cardinality(Scores(m)')
    <3>1. CASE e.scores
      <4>1. Cardinality(Scores(m)') = Cardinality(Scores(m)) + 1
        BY <2>1, <2>6, <2>7, <3>1, FS_AddElement DEF Scores
      <4> QED BY <2>1, <2>2, <2>3, <3>1, <4>1 DEF TagKnows
    <3>2. CASE ~e.scores
      <4>1. score[m] = Cardinality(Scores(m))
        BY <1>9, <1>a, <1>i, <2>1, <2>2, <3>2 DEF Good, Settled, Unsettled
      <4> QED BY <2>1, <2>2, <2>3, <2>7, <3>2, <4>1 DEF TagKnows
    <3> QED BY <3>1, <3>2
  <2>9. Settled(m)'
    BY <2>2, <2>8 DEF Settled
  <2>10. Earlier(m, e)' = Scores(m)
    BY <2>1, <2>4, <2>5, <2>7 DEF Earlier, Scores
  <2>11. ASSUME NEW f \in timeline, f.match = m
         PROVE  Earlier(m, f)' = Earlier(m, f)
    BY <2>4, <2>5, <2>7, <2>11 DEF Earlier
  <2>12. Chained(m)'
    BY <1>a, <2>1, <2>8, <2>10, <2>11 DEF Chained, Good
  <2>13. tag'[t].match # m
    BY <1>a, <2>2, ConstantsAssumption DEF IdleTag
  <2> QED BY <1>9, <1>j, <2>2, <2>9, <2>12, <2>13
<1>10. ASSUME DeleteLast(t), tag[t].match = m PROVE Good(m)'
  <2> DEFINE e == tag[t].event
  <2>1. /\ tag[t].at = "delete" /\ timeline' = timeline \ {e} /\ score' = score
        /\ tag'[t] = IdleTag /\ \A u \in Taggers \ {t} : tag'[u] = tag[u]
    BY <1>10, <1>d DEF DeleteLast, Idle
  <2>2. IsLast(e, m) /\ score[m] = e.before
    BY <1>10, <1>f, <2>1 DEF TagKnows
  <2> HIDE DEF e
  <2>3. \A f \in timeline : f.match = m => f.id \in Nat
    BY <1>a DEF TimelineInv, ScoreTypeOK
  <2>4. \A f \in timeline : f.match = m /\ f # e => f.id < e.id
    BY <1>a, <2>2, <2>3 DEF IsLast, TimelineInv
  <2>5. Scores(m)' = Scores(m) \ {e}
    BY <2>1 DEF Scores
  <2>6. Scores(m)' = Earlier(m, e)
    BY <2>2, <2>3, <2>4, <2>5 DEF Earlier, Scores, IsLast
  <2>7. e.before = Cardinality(Earlier(m, e))
    BY <1>a, <2>2 DEF Good, Chained, IsLast
  <2>8. Settled(m)'
    BY <2>1, <2>2, <2>6, <2>7 DEF Settled
  <2>9. ASSUME NEW f \in timeline, f.match = m
        PROVE  Earlier(m, f)' = Earlier(m, f)
    BY <2>2, <2>3, <2>5, <2>9 DEF Earlier, IsLast
  <2>10. Chained(m)'
    BY <1>a, <2>1, <2>9 DEF Chained, Good
  <2>11. tag'[t].match # m
    BY <1>a, <2>1, ConstantsAssumption DEF IdleTag
  <2> QED BY <1>10, <1>j, <2>1, <2>8, <2>10, <2>11
<1> QED
  BY <1>1, <1>2, <1>3, <1>4, <1>5, <1>6, <1>h, <1>7, <1>8, <1>9, <1>10
     DEF TagStep

(* A step that ends requests or deletes events, for a match it leaves      *)
(* undisturbed.                                                            *)
LEMMA EndKeeps ==
  ASSUME ScoreInv, NEW m \in Clean, NEW ts \in SUBSET Taggers,
         score' = score, timeline' = timeline,
         \A u \in ts : tag'[u] = IdleTag,
         \A u \in Taggers \ ts : tag'[u] = tag[u],
         m \notin Cut(ts),
         \A o \in Operators : subject'[o] = m => OperatorKnows(o, m)'
  PROVE  Good(m)'
<1>1. m \in Matches /\ Good(m) /\ IdleTag.match # m
  BY ConstantsAssumption DEF ScoreInv, Clean, IdleTag
<1>2. ASSUME NEW u \in Taggers, tag[u].match = m, Unsettled(u)
      PROVE  tag'[u] = tag[u]
  BY <1>2 DEF Cut, Unsettled
<1> QED BY <1>1, <1>2, Unmoved

(* ScoreInv is preserved by every step.                                    *)
LEMMA ScoreInvStep ==
  ASSUME ScoreInv, [ScoreNext]_scoreVars PROVE ScoreInv'
<1>1. ScoreTypeOK' /\ Proper' /\ TimelineInv'
  BY ScoreTypeStep, TimelineStep DEF ScoreInv
<1>2. Clean' \subseteq Clean /\ Clean \subseteq Matches
  BY CleanBefore DEF Clean
<1>3. Crowded' \subseteq disturbed'
  <2>1. ASSUME UNCHANGED scoreVars PROVE Crowded' \subseteq disturbed'
    BY <2>1 DEF scoreVars, vars, requests, tagVars, Crowded, At, ScoreInv
  <2> QED BY <2>1 DEF ScoreNext, TagThrows, DeleteEvent, CrashAll, Disturb
<1>a. ASSUME UNCHANGED requests, UNCHANGED <<score, entity>>, NEW m \in Clean,
             NEW o \in Operators, subject'[o] = m
      PROVE  OperatorKnows(o, m)'
  BY <1>a DEF requests, OperatorKnows, ScoreInv, Good
<1>b. ASSUME NEW ms, Disturb(ms) PROVE ms \subseteq disturbed'
  BY <1>b DEF Disturb
<1>4. ASSUME NEW m \in Clean' PROVE Good(m)'
  <2>a. m \in Clean /\ m \in Matches /\ Good(m) /\ m \notin disturbed'
        /\ m \notin deleted'
    BY <1>2, <1>4 DEF ScoreInv, Clean
  <2>1. ASSUME NEW o \in Operators, LifecycleStep(o) PROVE Good(m)'
    <3>1. score'[m] = score[m]
          /\ \A q \in Operators : subject'[q] = m => OperatorKnows(q, m)'
      BY <2>a, <2>1, LifecycleKeeps
    <3>2. tag' = tag /\ timeline' = timeline
      BY <2>1 DEF LifecycleStep, tagVars
    <3> QED BY <2>a, <3>1, <3>2, Unmoved
  <2>2. ASSUME NEW t \in Taggers, TagStep(t) PROVE Good(m)'
    BY <1>1, <2>a, <2>2, TagStepKeeps
  <2>3. ASSUME Boot, UNCHANGED <<score, entity, tagVars>> PROVE Good(m)'
    <3>1. UNCHANGED requests /\ UNCHANGED <<score, entity>>
          /\ tag' = tag /\ timeline' = timeline
      BY <2>3 DEF Boot, tagVars
    <3>2. \A o \in Operators : subject'[o] = m => OperatorKnows(o, m)'
      BY <1>a, <2>a, <3>1
    <3> QED BY <2>a, <3>1, <3>2, Unmoved
  <2>4. ASSUME NEW t \in Taggers, TagThrows(t) PROVE Good(m)'
    <3>1. Idle(t) /\ UNCHANGED <<vars, score, entity, timeline>> /\ Disturb(Cut({t}))
      BY <2>4 DEF TagThrows
    <3>2. tag' = [tag EXCEPT ![t] = IdleTag] /\ tag \in [Taggers -> Tags]
      BY <3>1 DEF Idle, ScoreInv, ScoreTypeOK
    <3>3. tag'[t] = IdleTag /\ \A u \in Taggers \ {t} : tag'[u] = tag[u]
      BY <3>2
    <3>4. m \notin Cut({t})
      BY <1>b, <2>a, <3>1
    <3>5. UNCHANGED requests /\ UNCHANGED <<score, entity>> /\ timeline' = timeline
      BY <3>1 DEF vars
    <3>6. \A o \in Operators : subject'[o] = m => OperatorKnows(o, m)'
      BY <1>a, <2>a, <3>5
    <3>7. {t} \in SUBSET Taggers
      OBVIOUS
    <3> QED BY <2>a, <3>3, <3>4, <3>5, <3>6, <3>7, EndKeeps
  <2>5. ASSUME NEW e \in timeline, DeleteEvent(e) PROVE Good(m)'
    <3>1. /\ UNCHANGED requests /\ UNCHANGED <<score, entity>> /\ tag' = tag
          /\ timeline' = timeline \ {e}
      BY <2>5 DEF DeleteEvent, vars
    <3>2. \A o \in Operators : subject'[o] = m => OperatorKnows(o, m)'
      BY <1>a, <2>a, <3>1
    <3>3. CASE e.match # m
      BY <2>a, <3>1, <3>2, <3>3, Unmoved
    <3>4. CASE e.match = m
      <4>1. ~e.scores /\ At(m) = {}
        BY <2>5, <2>a, <3>4, <1>b DEF DeleteEvent
      <4>2. \A t \in Taggers : tag[t].match # m
        BY <4>1 DEF At
      <4>3. Scores(m)' = Scores(m)
        BY <3>1, <4>1 DEF Scores
      <4>4. \A f : Earlier(m, f)' = Earlier(m, f)
        BY <4>3 DEF Earlier
      <4> QED BY <2>a, <3>1, <3>2, <4>2, <4>3, <4>4 DEF Good, Chained, Settled
    <3> QED BY <3>3, <3>4
  <2>6. ASSUME CrashAll PROVE Good(m)'
    <3>1. /\ tag' = [t \in Taggers |-> IdleTag] /\ UNCHANGED <<score, timeline>>
          /\ Disturb(Cut(Taggers))
      BY <2>6 DEF CrashAll
    <3>2. \A o \in Operators : pc'[o] = "idle"
      BY <2>6 DEF CrashAll, Crash
    <3>3. \A o \in Operators : subject'[o] = m => OperatorKnows(o, m)'
      BY <3>2 DEF OperatorKnows
    <3>4. m \notin Cut(Taggers)
      BY <1>b, <2>a, <3>1
    <3>5. Taggers \in SUBSET Taggers /\ \A t \in Taggers : tag'[t] = IdleTag
      BY <3>1
    <3> QED BY <2>a, <3>1, <3>3, <3>4, <3>5, EndKeeps
  <2>7. CASE UNCHANGED scoreVars
    <3>1. UNCHANGED requests /\ UNCHANGED <<score, entity>>
          /\ tag' = tag /\ timeline' = timeline
      BY <2>7 DEF scoreVars, vars, tagVars
    <3>2. \A o \in Operators : subject'[o] = m => OperatorKnows(o, m)'
      BY <1>a, <2>a, <3>1
    <3> QED BY <2>a, <3>1, <3>2, Unmoved
  <2> QED BY <2>1, <2>2, <2>3, <2>4, <2>5, <2>6, <2>7 DEF ScoreNext
<1> QED BY <1>1, <1>3, <1>4 DEF ScoreInv

(* ScoreInv holds initially.                                               *)
LEMMA ScoreInvInit ==
  ASSUME ScoreInit PROVE ScoreInv
<1>1. ScoreTypeOK /\ Proper
  BY ScoreTypeInit
<1>2. /\ timeline = {} /\ score = [m \in Matches |-> 0]
      /\ \A o \in Operators : pc[o] = "idle" /\ subject[o] = NoMatch
      /\ \A t \in Taggers : tag[t].at = "idle" /\ tag[t].match = NoMatch
  BY DEF ScoreInit, Init, IdleTag
<1>3. TimelineInv
  BY <1>2, FS_EmptySet DEF TimelineInv
<1>4. Crowded = {}
  BY <1>2, ConstantsAssumption DEF Crowded, At
<1>5. ASSUME NEW m \in Matches PROVE Good(m)
  <2>1. Scores(m) = {} /\ score[m] = 0
    BY <1>2 DEF Scores
  <2>2. Settled(m)
    BY <2>1, FS_EmptySet DEF Settled
  <2> QED BY <1>2, <2>2, ConstantsAssumption DEF Good, Chained, OperatorKnows
<1> QED BY <1>1, <1>3, <1>4, <1>5 DEF ScoreInv, Clean

(* While the requests on a match come one after the other, none is cut     *)
(* short between its saves and no scoring event is deleted, the score of   *)
(* the match at rest is that of its timeline: whatever other matches,      *)
(* commands, failing saves and crashes there are.                          *)
THEOREM ScoresCorrect == ScoreSpec => []ScoreIsItsEvents
<1>1. ScoreInit => ScoreInv
  BY ScoreInvInit
<1>2. ScoreInv /\ [ScoreNext]_scoreVars => ScoreInv'
  BY ScoreInvStep
<1>3. ScoreInv => ScoreIsItsEvents
  <2> SUFFICES ASSUME ScoreInv, NEW m \in Clean, At(m) = {}
               PROVE  score[m] = Cardinality(Scores(m))
    BY DEF ScoreIsItsEvents, Explained, Clean
  <2>1. \A t \in Taggers : tag[t].match # m
    BY DEF At
  <2> QED BY <2>1 DEF ScoreInv, Good, Settled
<1> QED BY <1>1, <1>2, <1>3, PTL DEF ScoreSpec

=============================================================================
