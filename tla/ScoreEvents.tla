---------------------------- MODULE ScoreEvents ----------------------------
(***************************************************************************)
(* Tagging of a match's events and the score (EventTaggingService), beside *)
(* the commands of MatchControl.  A scoring tag reads the match's row,     *)
(* saves all of it with the score that Apply makes, and creates an event   *)
(* with the score before it; an undo restores that score and deletes the   *)
(* event.  Neither takes the clock's command gate, nor asks for a status.  *)
(*                                                                         *)
(* A step ends at an access to the database.  The score's six columns are  *)
(* one number, the scores of one kind by one team.  The publication of a   *)
(* saved score is in Publication, the change of an event's note left out.  *)
(***************************************************************************)
EXTENDS MatchControl

CONSTANTS
  Taggers,   \* requests in flight that tag or undo
  MaxTags    \* bound: tags of a match

ASSUME TaggersAssumption ==
  /\ Taggers \cap Operators = {}
  /\ MaxTags \in Nat

VARIABLES
  score,      \* score[m]: the score columns of the Matches row
  entity,     \* entity[o]: those of the Match that o's DbContext tracks
  tag,        \* tag[t]: the request t: its step, match, score read, event
  tracked,    \* tracked[t]: the other columns of the Match it tracks
  timeline,   \* the rows of MatchEvents
  made,       \* made[m]: events created, which orders them by CreatedAt
  asked,      \* asked[m]: tags so far
  disturbed,  \* history: matches on which two requests were in flight at
              \* once, or a tag or an undo was cut between its two saves
  deleted     \* history: matches of which a scoring event was deleted

tagVars   == <<tag, tracked, timeline, made, asked, deleted>>
scoreVars == <<vars, score, entity, tagVars, disturbed>>

EventOf(ms) == [match : ms, id : Nat, scores : BOOLEAN, before : Nat]
Tags == [at : {"idle", "apply", "create", "find", "resolved", "restore",
               "delete"},
         match : Matches \cup {NoMatch}, score : Nat,
         event : EventOf(Matches \cup {NoMatch})]
NoEvent == [match |-> NoMatch, id |-> 0, scores |-> FALSE, before |-> 0]
IdleTag == [at |-> "idle", match |-> NoMatch, score |-> 0, event |-> NoEvent]

ScoreInit ==
  /\ Init
  /\ score = [m \in Matches |-> 0]
  /\ entity = [o \in Operators |-> 0]
  /\ tag = [t \in Taggers |-> IdleTag]
  /\ tracked = [t \in Taggers |-> NewMatch]
  /\ timeline = {}
  /\ made = [m \in Matches |-> 0]
  /\ asked = [m \in Matches |-> 0]
  /\ disturbed = {} /\ deleted = {}

\* The requests that are at work on match m.
At(m) == {o \in Operators : subject[o] = m} \cup {t \in Taggers : tag[t].match = m}

Crowded == {m \in Matches : \E x, y \in At(m) : x # y}

\* The history of disturbances, with the matches of ms.
Disturb(ms) == disturbed' = disturbed \cup ms \cup Crowded'

Idle(t) ==
  /\ tag' = [tag EXCEPT ![t] = IdleTag]
  /\ tracked' = [tracked EXCEPT ![t] = NewMatch]

\* t's DbContext comes to track match m.
TracksRow(t, m) == tracked' = [tracked EXCEPT ![t] = row[m]]

-----------------------------------------------------------------------------
(* Tags.                                                                    *)

\* CreateEventAsync: GetByIdAsync, of a scoring event or any other.
ReadMatch(t, m, scores) ==
  /\ agent = "up" /\ tag[t].at = "idle"
  /\ asked[m] < MaxTags
  /\ asked' = [asked EXCEPT ![m] = @ + 1]
  /\ tag' = [tag EXCEPT ![t] =
               [at |-> IF scores THEN "apply" ELSE "create", match |-> m,
                score |-> score[m],
                event |-> [match |-> m, id |-> 0, scores |-> scores,
                           before |-> score[m]]]]
  /\ TracksRow(t, m)
  /\ UNCHANGED <<vars, score, entity, timeline, made, deleted>>

\* The whole row, with the score s.
UpdateMatch(t, s) ==
  /\ row' = [row EXCEPT ![tag[t].match] = tracked[t]]
  /\ score' = [score EXCEPT ![tag[t].match] = s]
  /\ UNCHANGED <<saved, checkpoint, clock, gate, host, requests, torn, entity>>

\* scoring.Apply and UpdateAsync.
Apply(t) ==
  /\ tag[t].at = "apply"
  /\ UpdateMatch(t, tag[t].score + 1)
  /\ tag' = [tag EXCEPT ![t].at = "create"]
  /\ UNCHANGED <<tracked, timeline, made, asked, deleted>>

\* Mutant: the snapshot before is taken after the score is applied.
CreateEventAfterwards(t) ==
  /\ tag[t].at = "create"
  /\ LET m == tag[t].match
         e == tag[t].event IN
     /\ made' = [made EXCEPT ![m] = @ + 1]
     /\ timeline' = timeline \cup
          {[e EXCEPT !.id = made[m] + 1,
                     !.before = IF e.scores THEN @ + 1 ELSE @]}
  /\ Idle(t)
  /\ UNCHANGED <<vars, score, entity, asked, deleted>>

\* events.CreateAsync, with the snapshot before.
CreateEvent(t) ==
  /\ tag[t].at = "create"
  /\ LET m == tag[t].match IN
     /\ made' = [made EXCEPT ![m] = @ + 1]
     /\ timeline' = timeline \cup {[tag[t].event EXCEPT !.id = made[m] + 1]}
  /\ Idle(t)
  /\ UNCHANGED <<vars, score, entity, asked, deleted>>

-----------------------------------------------------------------------------
(* Undo and deletion.                                                       *)

\* GetLastEventAsync finds e.
IsLast(e, m) ==
  /\ e \in timeline /\ e.match = m
  /\ \A f \in timeline : f.match = m => f.id <= e.id

\* POST .../events/undo: the last event, and then the match.
FindLast(t, m, e) ==
  /\ agent = "up" /\ tag[t].at = "idle"
  /\ IsLast(e, m)
  /\ tag' = [tag EXCEPT ![t] = [at |-> "find", match |-> m, score |-> 0,
                                event |-> e]]
  /\ UNCHANGED <<vars, score, entity, tracked, timeline, made, asked, deleted>>

FindMatch(t) ==
  /\ tag[t].at = "find"
  /\ tag' = [tag EXCEPT ![t].at = "restore"]
  /\ TracksRow(t, tag[t].match)
  /\ UNCHANGED <<vars, score, entity, timeline, made, asked, deleted>>

\* A key of the Stream Deck: the live match, whose entity the request then
\* tracks, and then the last event.
ResolveMatch(t, m) ==
  /\ agent = "up" /\ tag[t].at = "idle"
  /\ Live = {m}
  /\ tag' = [tag EXCEPT ![t] = [at |-> "resolved", match |-> m, score |-> 0,
                                event |-> NoEvent]]
  /\ TracksRow(t, m)
  /\ UNCHANGED <<vars, score, entity, timeline, made, asked, deleted>>

FindResolved(t, e) ==
  /\ tag[t].at = "resolved"
  /\ IsLast(e, tag[t].match)
  /\ tag' = [tag EXCEPT ![t].at = "restore", ![t].event = e]
  /\ UNCHANGED <<vars, score, entity, tracked, timeline, made, asked, deleted>>

\* There is no event to undo.
FindNothing(t) ==
  /\ tag[t].at = "resolved"
  /\ \A e \in timeline : e.match # tag[t].match
  /\ Idle(t)
  /\ UNCHANGED <<vars, score, entity, timeline, made, asked, deleted>>

\* Mutant: an undo takes one off the score, whatever the event was.
RestoreByOne(t) ==
  /\ tag[t].at = "restore"
  /\ UpdateMatch(t, score[tag[t].match] - 1)
  /\ tag' = [tag EXCEPT ![t].at = "delete"]
  /\ UNCHANGED <<tracked, timeline, made, asked, deleted>>

\* RestoreScore and UpdateAsync.
Restore(t) ==
  /\ tag[t].at = "restore"
  /\ UpdateMatch(t, tag[t].event.before)
  /\ tag' = [tag EXCEPT ![t].at = "delete"]
  /\ UNCHANGED <<tracked, timeline, made, asked, deleted>>

\* events.DeleteAsync.  (It throws if the event is gone meanwhile.)
DeleteLast(t) ==
  /\ tag[t].at = "delete"
  /\ timeline' = timeline \ {tag[t].event}
  /\ Idle(t)
  /\ UNCHANGED <<vars, score, entity, made, asked, deleted>>

\* DELETE .../events/{eventId}: the score is not touched.
DeleteEvent(e) ==
  /\ agent = "up"
  /\ timeline' = timeline \ {e}
  /\ deleted' = deleted \cup (IF e.scores THEN {e.match} ELSE {})
  /\ UNCHANGED <<vars, score, entity, tag, tracked, made, asked>>
  /\ Disturb({e.match} \cap {m \in Matches : At(m) # {}})

-----------------------------------------------------------------------------
(* A save that throws, and the agent's end.                                 *)

\* The matches of the requests ts that have saved the row only.
Cut(ts) ==
  {tag[t].match : t \in {u \in ts :
     tag[u].at = "delete" \/ (tag[u].at = "create" /\ tag[u].event.scores)}}

TagThrows(t) ==
  /\ "save" \in Faults
  /\ tag[t].at \in {"apply", "create", "restore", "delete"}
  /\ Idle(t)
  /\ UNCHANGED <<vars, score, entity, timeline, made, asked, deleted>>
  /\ Disturb(Cut({t}))

CrashAll ==
  /\ Crash
  /\ tag' = [t \in Taggers |-> IdleTag]
  /\ tracked' = [t \in Taggers |-> NewMatch]
  /\ entity' = [o \in Operators |-> 0]
  /\ UNCHANGED <<score, timeline, made, asked, deleted>>
  /\ Disturb(Cut(Taggers))

-----------------------------------------------------------------------------
(* The commands of MatchControl: the entities they track, and the row they  *)
(* save, have the score's columns too.                                      *)

Tracks(o, m) ==
  /\ entity' = [entity EXCEPT ![o] = score[m]]
  /\ UNCHANGED score

Forgets(o) == entity' = [entity EXCEPT ![o] = 0]

Saves(o) == score' = [score EXCEPT ![subject[o]] = entity[o]] /\ Forgets(o)

LifecycleStep(o) ==
  /\ \/ \E c \in InUse, m \in Matches :
          \/ AskClock(o, c, m) /\ UNCHANGED <<score, entity>>
          \/ (AskMatch(o, c, m) \/ Press(o, c, m)) /\ Tracks(o, m)
     \/ \E m \in Matches : ReadForReady(o, m) /\ Tracks(o, m)
     \/ \E m \in Matches :
          /\ Decide(o, m)
          /\ IF o \in early /\ m = subject[o] THEN UNCHANGED <<score, entity>>
                                              ELSE Tracks(o, m)
     \/ (MarkReady(o) \/ SaveRow(o)) /\ Saves(o)
     \/ (Correct(o) \/ SaveClock(o)) /\ UNCHANGED <<score, entity>>
     \/ (Refuse(o) \/ SaveThrows(o)) /\ Forgets(o) /\ UNCHANGED score
  /\ UNCHANGED tagVars

TagStep(t) ==
  \/ \E m \in Matches : \/ \E scores \in BOOLEAN : ReadMatch(t, m, scores)
                        \/ \E e \in timeline : FindLast(t, m, e)
                        \/ ResolveMatch(t, m)
  \/ \E e \in timeline : FindResolved(t, e)
  \/ FindMatch(t) \/ FindNothing(t)
  \/ Apply(t) \/ CreateEvent(t)
  \/ Restore(t) \/ DeleteLast(t)

ScoreNext ==
  \/ /\ \/ \E o \in Operators : LifecycleStep(o)
        \/ \E t \in Taggers : TagStep(t)
        \/ Boot /\ UNCHANGED <<score, entity, tagVars>>
     /\ Disturb({})
  \/ \E t \in Taggers : TagThrows(t)
  \/ \E e \in timeline : DeleteEvent(e)
  \/ CrashAll

ScoreSpec == ScoreInit /\ [][ScoreNext]_scoreVars

-----------------------------------------------------------------------------
(* Properties.                                                              *)

ScoreTypeOK ==
  /\ TypeOK
  /\ score \in [Matches -> Nat]
  /\ entity \in [Operators -> Nat]
  /\ tag \in [Taggers -> Tags]
  /\ tracked \in [Taggers -> Rows]
  /\ timeline \subseteq EventOf(Matches)
  /\ made \in [Matches -> Nat]
  /\ asked \in [Matches -> 0..MaxTags]
  /\ disturbed \subseteq Matches
  /\ deleted \subseteq Matches

\* The scoring events of match m.
Scores(m) == {e \in timeline : e.match = m /\ e.scores}

Explained(m) == At(m) = {} => score[m] = Cardinality(Scores(m))

\* EventTaggingService: while the requests on a match come one after the other
\* and none is cut short, its score is that of its timeline: after any tags,
\* undos (each takes back exactly the last event, whether it scored or not),
\* clock commands that save the row again, and crashes in between.  A deleted
\* event's score stays, which is not what the match-day runbook says.
ScoreIsItsEvents ==
  \A m \in Matches \ (disturbed \cup deleted) : Explained(m)

=============================================================================
