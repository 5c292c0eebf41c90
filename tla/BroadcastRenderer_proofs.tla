----------------------- MODULE BroadcastRenderer_proofs -----------------------
(***************************************************************************)
(* Theorems about the publication of the broadcast presentation, for any   *)
(* number of taggers and sources and any number of versions, and about the *)
(* renderer as a refinement of it.                                         *)
(***************************************************************************)
EXTENDS BroadcastRenderer, TLAPS

\* A pending key is held by somebody, so dropping a request for it is safe.
PendingHeld == \A k \in pending : Held(k)

\* Publications carry what was there, and never go back.
Ordered ==
  /\ sent.row <= row /\ sent.live <= live
  /\ missed.row <= row /\ missed.live <= live
  /\ worker.step = "compose" => sent.row <= worker.row /\ worker.row <= row

IInv == PublicationTypeOK /\ PendingHeld /\ Ordered /\ NoScoreLost /\ NoLiveLost

-----------------------------------------------------------------------------
\* Every variable of the agent's side holds a value of its kind.
LEMMA TypeStep == PublicationTypeOK /\ [PublicationNext]_serverVars
                    => PublicationTypeOK'
<1> USE PublicationAssumption
<1> SUFFICES ASSUME PublicationTypeOK, [PublicationNext]_serverVars
             PROVE  PublicationTypeOK'
  OBVIOUS
<1> USE DEF PublicationTypeOK, stateVars, Keys
<1>1. ASSUME NEW w \in Taggers, SaveScore(w) PROVE PublicationTypeOK'
  BY <1>1 DEF SaveScore, Writers
<1>2. ASSUME NEW w \in Sources, ChangeLive(w) PROVE PublicationTypeOK'
  BY <1>2 DEF ChangeLive, Writers
<1>3. ASSUME NEW w \in Writers, RequestPublication(w) PROVE PublicationTypeOK'
  BY <1>3 DEF RequestPublication, QueueKey
<1>4. ASSUME NEW w \in Writers, OnStateChanged(w) PROVE PublicationTypeOK'
  BY <1>4 DEF OnStateChanged, QueueKey
<1>5. ASSUME NEW w \in Writers, TryWrite(w) PROVE PublicationTypeOK'
  BY <1>5 DEF TryWrite
<1>6. CASE OpenMatch \/ CloseMatch
  BY <1>6 DEF OpenMatch, CloseMatch
<1>7. CASE TakeRequest
  <2>1. Head(requests) \in Keys /\ Tail(requests) \in Seq(Keys)
    <3> HIDE DEF Keys
    <3> QED BY <1>7 DEF TakeRequest
  <2> QED BY <1>7, <2>1 DEF TakeRequest
<1>8. CASE ForgetKey
  BY <1>8 DEF ForgetKey
<1>9. CASE ResolveActiveMatch
  BY <1>9 DEF ResolveActiveMatch
<1>10. CASE ReadRow
  BY <1>10 DEF ReadRow
<1>11. CASE Publish
  BY <1>11 DEF Publish, Composed
<1>12. CASE PublishFails
  BY <1>12 DEF PublishFails
<1>13. CASE UNCHANGED serverVars
  BY <1>13 DEF serverVars
<1> QED
  BY <1>1, <1>2, <1>3, <1>4, <1>5, <1>6, <1>7, <1>8, <1>9, <1>10, <1>11,
     <1>12, <1>13 DEF PublicationNext, WriterStep, Announce, WorkerStep

-----------------------------------------------------------------------------
\* Only ForgetKey lets go of a key.
LEMMA HeldStep ==
  ASSUME PublicationTypeOK, NEW k \in Keys, Held(k),
         [PublicationNext]_serverVars, ~(ForgetKey /\ worker.key = k)
  PROVE  Held(k)'
<1> USE DEF PublicationTypeOK, stateVars, Keys
<1> DEFINE try == IF k = "match" THEN "tryMatch" ELSE "tryActive"
<1>a. ASSUME requests' = requests, worker' = worker,
             NEW w \in Writers, writer[w] \notin {"tryMatch", "tryActive"},
             \A v \in Writers : v # w => writer'[v] = writer[v]
      PROVE  Held(k)'
  <2>1. CASE \E v \in Writers : writer[v] = try
    <3>1. PICK v \in Writers : writer[v] = try
      BY <2>1
    <3>2. writer'[v] = try
      BY <3>1, <1>a
    <3> QED BY <3>2 DEF Held
  <2>2. CASE ~ \E v \in Writers : writer[v] = try
    BY <1>a, <2>2 DEF Held
  <2> QED BY <2>1, <2>2
<1>b. ASSUME requests' = requests, writer' = writer,
             worker'.step = "taken" /\ worker'.key = k <=> worker.step = "taken" /\ worker.key = k
      PROVE  Held(k)'
  BY <1>b DEF Held
<1>1. ASSUME NEW w \in Taggers, SaveScore(w) PROVE Held(k)'
  BY <1>1, <1>a DEF SaveScore, Writers
<1>2. ASSUME NEW w \in Sources, ChangeLive(w) PROVE Held(k)'
  BY <1>2, <1>a DEF ChangeLive, Writers
<1>3. ASSUME NEW w \in Writers, RequestPublication(w) PROVE Held(k)'
  BY <1>3, <1>a DEF RequestPublication, QueueKey
<1>4. ASSUME NEW w \in Writers, OnStateChanged(w) PROVE Held(k)'
  BY <1>4, <1>a DEF OnStateChanged, QueueKey
<1>5. ASSUME NEW w \in Writers, TryWrite(w) PROVE Held(k)'
  <2> DEFINE key == IF writer[w] = "tryMatch" THEN "match" ELSE "active"
  <2>0. requests \in Seq(Keys) /\ key \in Keys /\ requests' = Append(requests, key)
    BY <1>5 DEF TryWrite
  <2> HIDE DEF Keys, key
  <2>1. /\ Len(requests') = Len(requests) + 1
        /\ Len(requests) \in Nat
        /\ requests'[Len(requests) + 1] = key
        /\ \A i \in 1..Len(requests) : requests'[i] = requests[i]
    BY <2>0
  <2>2. CASE \E i \in 1..Len(requests) : requests[i] = k
    <3>1. PICK i \in 1..Len(requests) : requests[i] = k
      BY <2>2
    <3>2. i \in 1..Len(requests') /\ requests'[i] = k
      BY <3>1, <2>1
    <3> QED BY <3>2 DEF Held
  <2>3. CASE key = k
    <3>1. /\ Len(requests) + 1 \in 1..Len(requests')
          /\ requests'[Len(requests) + 1] = k
      BY <2>3, <2>1
    <3> QED BY <3>1 DEF Held
  <2>4. CASE key # k /\ \E v \in Writers : writer[v] = try
    <3>1. PICK v \in Writers : writer[v] = try
      BY <2>4
    <3>2. v # w
      BY <3>1, <2>4, <1>5 DEF key, TryWrite, Keys
    <3>3. writer'[v] = try
      BY <3>1, <3>2, <1>5 DEF TryWrite
    <3> QED BY <3>3 DEF Held
  <2>5. CASE worker.step = "taken" /\ worker.key = k
    BY <2>5, <1>5 DEF TryWrite, Held
  <2> QED BY <2>2, <2>3, <2>4, <2>5 DEF Held
<1>6. CASE OpenMatch \/ CloseMatch
  BY <1>6, <1>b DEF OpenMatch, CloseMatch
<1>7. CASE TakeRequest
  <2>0. requests \in Seq(Keys) /\ requests # <<>> /\ requests' = Tail(requests)
    BY <1>7 DEF TakeRequest
  <2> HIDE DEF Keys
  <2>1. /\ Len(requests) \in Nat /\ Len(requests) > 0
        /\ Len(requests') = Len(requests) - 1
        /\ \A i \in 1..Len(requests') : requests'[i] = requests[i + 1]
        /\ Head(requests) = requests[1]
    BY <2>0
  <2>2. CASE \E i \in 1..Len(requests) : requests[i] = k
    <3>1. PICK i \in 1..Len(requests) : requests[i] = k
      BY <2>2
    <3>2. CASE i = 1
      <4>1. worker'.step = "taken" /\ worker'.key = k
        BY <3>1, <3>2, <2>1, <1>7 DEF TakeRequest
      <4> QED BY <4>1 DEF Held
    <3>3. CASE i # 1
      <4>1. i - 1 \in 1..Len(requests') /\ requests'[i - 1] = k
        BY <3>1, <3>3, <2>1
      <4> QED BY <4>1 DEF Held
    <3> QED BY <3>2, <3>3
  <2>3. CASE \E v \in Writers : writer[v] = try
    BY <2>3, <1>7 DEF TakeRequest, Held
  <2> QED BY <2>2, <2>3, <1>7 DEF Held, TakeRequest
<1>8. CASE ForgetKey
  BY <1>8, <1>b DEF ForgetKey
<1>9. CASE ResolveActiveMatch
  BY <1>9, <1>b DEF ResolveActiveMatch
<1>10. CASE ReadRow
  BY <1>10, <1>b DEF ReadRow
<1>11. CASE Publish
  BY <1>11, <1>b DEF Publish
<1>12. CASE PublishFails
  BY <1>12, <1>b DEF PublishFails
<1>13. CASE UNCHANGED serverVars
  BY <1>13, <1>b DEF serverVars
<1> QED
  BY <1>1, <1>2, <1>3, <1>4, <1>5, <1>6, <1>7, <1>8, <1>9, <1>10, <1>11,
     <1>12, <1>13 DEF PublicationNext, WriterStep, Announce, WorkerStep

\* Queue leaves its key held: by the caller, or by whoever made it pending.
LEMMA QueueHolds ==
  ASSUME PublicationTypeOK, PendingHeld, NEW w \in Writers,
         NEW key \in Keys,
         QueueKey(w, key, IF key = "match" THEN "tryMatch" ELSE "tryActive"),
         writer[w] \notin {"tryMatch", "tryActive"},
         UNCHANGED <<requests, worker>>
  PROVE  Held(key)'
<1>1. CASE key \in pending
  <2>1. Held(key)
    BY <1>1 DEF PendingHeld
  <2>2. \A v \in Writers : v # w => writer'[v] = writer[v]
    BY <1>1 DEF QueueKey, PublicationTypeOK
  <2> QED BY <2>1, <2>2 DEF Held, Keys
<1>2. CASE key \notin pending
  <2>1. writer'[w] = (IF key = "match" THEN "tryMatch" ELSE "tryActive")
    BY <1>2 DEF QueueKey, PublicationTypeOK
  <2> QED BY <2>1 DEF Held
<1> QED BY <1>1, <1>2

LEMMA PendingStep ==
  PublicationTypeOK /\ PendingHeld /\ [PublicationNext]_serverVars => PendingHeld'
<1> SUFFICES ASSUME PublicationTypeOK, PendingHeld, [PublicationNext]_serverVars,
                    NEW k \in pending'
             PROVE  Held(k)'
  BY DEF PendingHeld
<1>0. k \in Keys
  BY TypeStep DEF PublicationTypeOK
<1>1. CASE k \in pending /\ ~(ForgetKey /\ worker.key = k)
  BY <1>0, <1>1, HeldStep DEF PendingHeld
<1>2. CASE ForgetKey /\ worker.key = k
  BY <1>2 DEF ForgetKey
<1>3. CASE k \notin pending
  <2>1. ASSUME NEW w \in Writers, RequestPublication(w) PROVE Held(k)'
    <3>1. k = "match"
      BY <1>3, <2>1 DEF RequestPublication, QueueKey
    <3> QED BY <1>0, <2>1, <3>1, QueueHolds DEF RequestPublication
  <2>2. ASSUME NEW w \in Writers, OnStateChanged(w) PROVE Held(k)'
    <3>1. k = "active"
      BY <1>3, <2>2 DEF OnStateChanged, QueueKey
    <3> QED BY <1>0, <2>2, <3>1, QueueHolds DEF OnStateChanged
  <2>3. CASE pending' = pending
    BY <1>3, <2>3
  <2>4. CASE ForgetKey
    BY <1>3, <2>4 DEF ForgetKey
  <2> QED
    BY <2>1, <2>2, <2>3, <2>4 DEF PublicationNext, WriterStep, Announce,
       WorkerStep, SaveScore, ChangeLive, OpenMatch, CloseMatch, TryWrite,
       TakeRequest, ResolveActiveMatch, ReadRow, Publish, PublishFails, serverVars
<1> QED BY <1>1, <1>2, <1>3

-----------------------------------------------------------------------------
\* No publication carries more than there is, and none goes back.
LEMMA OrderedStep ==
  PublicationTypeOK /\ Ordered /\ [PublicationNext]_serverVars => Ordered'
<1> SUFFICES ASSUME PublicationTypeOK, Ordered, [PublicationNext]_serverVars
             PROVE  Ordered'
  OBVIOUS
<1> USE DEF PublicationTypeOK, Ordered, stateVars
<1>1. CASE \E w \in Taggers : SaveScore(w)
  BY <1>1 DEF SaveScore
<1>2. CASE \E w \in Sources : ChangeLive(w)
  BY <1>2 DEF ChangeLive
<1>3. CASE \E w \in Writers : Announce(w)
  BY <1>3 DEF Announce, RequestPublication, OnStateChanged, TryWrite
<1>4. CASE OpenMatch \/ CloseMatch
  BY <1>4 DEF OpenMatch, CloseMatch
<1>5. CASE TakeRequest \/ ForgetKey
  BY <1>5 DEF TakeRequest, ForgetKey
<1>6. CASE ResolveActiveMatch
  BY <1>6 DEF ResolveActiveMatch
<1>7. CASE ReadRow
  BY <1>7 DEF ReadRow
<1>8. CASE Publish
  BY <1>8 DEF Publish, Composed
<1>9. CASE PublishFails
  BY <1>9 DEF PublishFails
<1>10. CASE UNCHANGED serverVars
  BY <1>10 DEF serverVars
<1> QED
  BY <1>1, <1>2, <1>3, <1>4, <1>5, <1>6, <1>7, <1>8, <1>9, <1>10
     DEF PublicationNext, WriterStep, WorkerStep

\* A score whose request is under way stays accounted for.
LEMMA ScoreStep ==
  IInv /\ [PublicationNext]_serverVars => NoScoreLost'
<1> SUFFICES ASSUME IInv, [PublicationNext]_serverVars
             PROVE  NoScoreLost'
  OBVIOUS
<1> USE DEF IInv, PublicationTypeOK, stateVars, Keys
\* The parts of the invariant that do not name a holder.
<1> DEFINE Rest ==
      \/ sent.row >= row \/ missed.row >= row
      \/ \E w \in Writers : writer[w] = "scored"
      \/ worker.step = "row"
      \/ worker.step = "compose" /\ worker.row >= row
<1>h. Held("match") \/ Rest
  BY DEF NoScoreLost
<1>g. Held("match")' \/ Rest' => NoScoreLost'
  BY DEF NoScoreLost
<1> HIDE DEF Rest
<1>1. CASE Held("match") /\ ~(ForgetKey /\ worker.key = "match")
  BY <1>1, <1>g, HeldStep
<1>2. CASE ForgetKey /\ worker.key = "match"
  BY <1>2, <1>g DEF ForgetKey, Rest
<1>3. CASE Rest
  <2>1. ASSUME NEW w \in Taggers, SaveScore(w) PROVE NoScoreLost'
    BY <2>1, <1>g DEF SaveScore, Rest, Writers
  <2>2. ASSUME NEW w \in Sources, ChangeLive(w) PROVE NoScoreLost'
    <3>1. \A v \in Writers : writer[v] = "scored" => writer'[v] = "scored"
      BY <2>2 DEF ChangeLive, Writers
    <3> QED BY <2>2, <1>3, <1>g, <3>1 DEF ChangeLive, Rest
  <2>3. ASSUME NEW w \in Writers, RequestPublication(w) PROVE NoScoreLost'
    <3>1. Held("match")'
      BY <2>3, QueueHolds DEF RequestPublication
    <3> QED BY <3>1, <1>g
  <2>4. ASSUME NEW w \in Writers, OnStateChanged(w) \/ TryWrite(w)
        PROVE  NoScoreLost'
    <3>1. \A v \in Writers : writer[v] = "scored" => writer'[v] = "scored"
      BY <2>4 DEF OnStateChanged, TryWrite, QueueKey
    <3>2. row' = row /\ sent' = sent /\ missed' = missed /\ worker' = worker
      BY <2>4 DEF OnStateChanged, TryWrite
    <3> QED BY <1>3, <1>g, <3>1, <3>2 DEF Rest
  <2>5. CASE OpenMatch \/ CloseMatch
    BY <2>5, <1>3, <1>g DEF OpenMatch, CloseMatch, Rest
  <2>6. CASE TakeRequest \/ ForgetKey
    BY <2>6, <1>3, <1>g DEF TakeRequest, ForgetKey, Rest
  <2>7. CASE ResolveActiveMatch
    BY <2>7, <1>3, <1>g DEF ResolveActiveMatch, Rest
  <2>8. CASE ReadRow
    BY <2>8, <1>3, <1>g DEF ReadRow, Rest
  <2>9. CASE Publish
    BY <2>9, <1>3, <1>g DEF Publish, Composed, Rest, Ordered
  <2>10. CASE PublishFails
    BY <2>10, <1>3, <1>g DEF PublishFails, Rest
  <2>11. CASE UNCHANGED serverVars
    BY <2>11, <1>3, <1>g DEF serverVars, Rest
  <2> QED
    BY <2>1, <2>2, <2>3, <2>4, <2>5, <2>6, <2>7, <2>8, <2>9, <2>10, <2>11
       DEF PublicationNext, WriterStep, Announce, WorkerStep
<1> QED BY <1>h, <1>1, <1>2, <1>3

\* So does a change of the clock or of the overlay.
LEMMA LiveStep ==
  IInv /\ [PublicationNext]_serverVars => NoLiveLost'
<1> SUFFICES ASSUME IInv, [PublicationNext]_serverVars
             PROVE  NoLiveLost'
  OBVIOUS
<1> USE DEF IInv, PublicationTypeOK, stateVars, Keys
<1> DEFINE Rest ==
      \/ sent.live >= live \/ missed.live >= live
      \/ \E w \in Writers : writer[w] = "changed"
      \/ worker.step \in {"resolve", "row", "compose"}
<1>h. Held("active") \/ Rest
  BY DEF NoLiveLost
<1>g. Held("active")' \/ Rest' => NoLiveLost'
  BY DEF NoLiveLost
<1> HIDE DEF Rest
<1>1. CASE Held("active") /\ ~(ForgetKey /\ worker.key = "active")
  BY <1>1, <1>g, HeldStep
<1>2. CASE ForgetKey /\ worker.key = "active"
  BY <1>2, <1>g DEF ForgetKey, Rest
<1>3. CASE Rest
  <2>1. ASSUME NEW w \in Taggers, SaveScore(w) PROVE NoLiveLost'
    <3>1. \A v \in Writers : writer[v] = "changed" => writer'[v] = "changed"
      BY <2>1 DEF SaveScore, Writers
    <3> QED BY <2>1, <1>3, <1>g, <3>1 DEF SaveScore, Rest
  <2>2. ASSUME NEW w \in Sources, ChangeLive(w) PROVE NoLiveLost'
    BY <2>2, <1>g DEF ChangeLive, Rest, Writers
  <2>3. ASSUME NEW w \in Writers, OnStateChanged(w) PROVE NoLiveLost'
    <3>1. Held("active")'
      BY <2>3, QueueHolds DEF OnStateChanged
    <3> QED BY <3>1, <1>g
  <2>4. ASSUME NEW w \in Writers, RequestPublication(w) \/ TryWrite(w)
        PROVE  NoLiveLost'
    <3>1. \A v \in Writers : writer[v] = "changed" => writer'[v] = "changed"
      BY <2>4 DEF RequestPublication, TryWrite, QueueKey
    <3>2. live' = live /\ sent' = sent /\ missed' = missed /\ worker' = worker
      BY <2>4 DEF RequestPublication, TryWrite
    <3> QED BY <1>3, <1>g, <3>1, <3>2 DEF Rest
  <2>5. CASE OpenMatch \/ CloseMatch
    BY <2>5, <1>3, <1>g DEF OpenMatch, CloseMatch, Rest
  <2>6. CASE TakeRequest \/ ForgetKey
    BY <2>6, <1>3, <1>g DEF TakeRequest, ForgetKey, Rest
  <2>7. CASE ResolveActiveMatch
    BY <2>7, <1>3, <1>g DEF ResolveActiveMatch, Rest
  <2>8. CASE ReadRow
    BY <2>8, <1>3, <1>g DEF ReadRow, Rest
  <2>9. CASE Publish
    BY <2>9, <1>3, <1>g DEF Publish, Composed, Rest
  <2>10. CASE PublishFails
    BY <2>10, <1>3, <1>g DEF PublishFails, Rest
  <2>11. CASE UNCHANGED serverVars
    BY <2>11, <1>3, <1>g DEF serverVars, Rest
  <2> QED
    BY <2>1, <2>2, <2>3, <2>4, <2>5, <2>6, <2>7, <2>8, <2>9, <2>10, <2>11
       DEF PublicationNext, WriterStep, Announce, WorkerStep
<1> QED BY <1>h, <1>1, <1>2, <1>3

-----------------------------------------------------------------------------
LEMMA PublicationInitial == PublicationInit => IInv
  BY DEF PublicationInit, IInv, PublicationTypeOK, PendingHeld, Ordered,
     NoScoreLost, NoLiveLost, Keys

\* The invariant of the publication, for any number of requests at once.
THEOREM PublicationInvariant == PublicationSpec => []IInv
<1>1. IInv /\ [PublicationNext]_serverVars => IInv'
  BY TypeStep, PendingStep, OrderedStep, ScoreStep, LiveStep DEF IInv
<1> QED BY PublicationInitial, <1>1, PTL DEF PublicationSpec

\* A step of the composition is one of the agent's side or leaves it alone.
LEMMA RefinesStep == [Next]_vars => [PublicationNext]_serverVars
<1> SUFFICES ASSUME [Next]_vars PROVE [PublicationNext]_serverVars
  OBVIOUS
<1>1. CASE ServerStep
  BY <1>1 DEF ServerStep, PublicationNext
<1>2. CASE Send
  BY <1>2 DEF Send, PublicationNext
<1>3. CASE LinkStep
  BY <1>3 DEF LinkStep, BootstrapLoaded, Connected, Deliver, Reconnected,
     Stopped, JoinMatch, ReplyJoin
<1>4. CASE \E f \in Loads : LoadStep(f) \/ LoadFails(f)
  BY <1>4 DEF LoadStep, LoadFails, AnswerRow, AnswerLoad, RecoveryLoaded
<1>5. CASE ConnectFails \/ Drop \/ GiveUp \/ Unmount
  BY <1>5 DEF ConnectFails, Drop, GiveUp, Unmount
<1>6. CASE UNCHANGED vars
  BY <1>6 DEF vars
<1> QED BY <1>1, <1>2, <1>3, <1>4, <1>5, <1>6 DEF Next

\* Whatever the renderer does, the agent's side behaves as Publication.
THEOREM RendererRefinesPublication == Spec => PublicationSpec
<1>1. Init => PublicationInit
  BY DEF Init
<1> QED BY <1>1, RefinesStep, PTL DEF Spec, PublicationSpec

\* Coalescing loses no score: the newest one is published, given up with a
\* failure, or still held by a request or by the worker.
THEOREM ScoresPublished == Spec => []NoScoreLost
<1>1. IInv => NoScoreLost
  BY DEF IInv
<1> QED BY PublicationInvariant, RendererRefinesPublication, <1>1, PTL

\* The same for the clock and the overlay.
THEOREM LivePublished == Spec => []NoLiveLost
<1>1. IInv => NoLiveLost
  BY DEF IInv
<1> QED BY PublicationInvariant, RendererRefinesPublication, <1>1, PTL

-----------------------------------------------------------------------------
(* The page: what it has been sent and told, and what it shows.            *)

Replies == {JoinedReply(f) : f \in Loads}

\* What the page and its connection hold is of its kind.
PageTypeOK ==
  /\ pc \in [Loads -> Awaits]
  /\ answer \in [Loads -> Version]
  /\ recovering \in BOOLEAN
  /\ queued \in Version
  /\ cancelled \in BOOLEAN
  /\ status \in {"loading", "live", "stale", "error"}
  /\ shown \in Version
  /\ conn \in {"disconnected", "connecting", "connected", "reconnecting",
               "leaving"}
  /\ begun \subseteq Reconnections
  /\ joined \in BOOLEAN
  /\ wire \in Seq(Version \cup Replies)

\* What is on its way to the page, in an answer or in a message, is something.
Carried ==
  /\ \A f \in Loads : pc[f] \in {"read", "loaded"} => ~answer[f].none
  /\ \A i \in 1..Len(wire) : wire[i] \in Version => ~wire[i].none

PageInv == PageTypeOK /\ Carried

\* A page is not told that it has nothing: what it shows is what it showed or
\* something that the agent sent.
ShownStays == shown' = shown \/ (shown' \in Version /\ ~shown'.none)

LEMMA MessageCarries ==
  ASSUME NEW v, v.row \in Nat, v.live \in Nat
  PROVE  Message(v) \in Version /\ ~Message(v).none
  BY DEF Message, Version

LEMMA WireStep ==
  ASSUME NEW S, NEW q \in Seq(S)
  PROVE  /\ \A x \in S : /\ Append(q, x) \in Seq(S)
                         /\ Len(Append(q, x)) = Len(q) + 1
                         /\ \A i \in 1..Len(Append(q, x)) :
                              \/ i \in 1..Len(q) /\ Append(q, x)[i] = q[i]
                              \/ i = Len(q) + 1 /\ Append(q, x)[i] = x
         /\ q # <<>> => /\ Tail(q) \in Seq(S)
                        /\ Len(Tail(q)) = Len(q) - 1
                        /\ Head(q) = q[1] /\ Head(q) \in S
                        /\ 1 \in 1..Len(q)
                        /\ \A i \in 1..Len(Tail(q)) :
                             i + 1 \in 1..Len(q) /\ Tail(q)[i] = q[i + 1]
         /\ <<>> \in Seq(S) /\ Len(<<>>) = 0 /\ Len(q) \in Nat
  OBVIOUS

\* A step that shows, marks or leaves the page as it is.
LEMMA Shows ==
  ASSUME PageTypeOK, NEW v \in Version
  PROVE  /\ Apply(v) => /\ status' \in {"loading", "live", "stale", "error"}
                        /\ shown' \in Version
                        /\ ~v.none => ShownStays
         /\ MarkStale => /\ status' \in {"loading", "live", "stale", "error"}
                         /\ shown' = shown
  BY DEF Apply, MarkStale, PageTypeOK, ShownStays

LEMMA PageStep ==
  ASSUME PublicationTypeOK, PageInv, [Next]_vars
  PROVE  PageTypeOK' /\ Carried' /\ ShownStays
<1> USE DEF PageInv, pageVars, linkVars, clientVars
<1>w. /\ \A x \in Version \cup Replies :
             /\ Append(wire, x) \in Seq(Version \cup Replies)
             /\ Len(Append(wire, x)) = Len(wire) + 1
             /\ \A i \in 1..Len(Append(wire, x)) :
                  \/ i \in 1..Len(wire) /\ Append(wire, x)[i] = wire[i]
                  \/ i = Len(wire) + 1 /\ Append(wire, x)[i] = x
      /\ wire # <<>> => /\ Tail(wire) \in Seq(Version \cup Replies)
                        /\ Len(Tail(wire)) = Len(wire) - 1
                        /\ Head(wire) = wire[1] /\ Head(wire) \in Version \cup Replies
                        /\ 1 \in 1..Len(wire)
                        /\ \A i \in 1..Len(Tail(wire)) :
                             i + 1 \in 1..Len(wire) /\ Tail(wire)[i] = wire[i + 1]
      /\ <<>> \in Seq(Version \cup Replies) /\ Len(<<>>) = 0
      /\ Len(wire) \in Nat
  BY WireStep DEF PageTypeOK
<1>n. Nothing \in Version
  BY DEF Nothing, Version
<1>1. CASE ServerStep
  BY <1>1 DEF ServerStep, PageTypeOK, Carried, ShownStays
<1>2. CASE Send
  <2>1. Message(Composed) \in Version /\ ~Message(Composed).none
    BY MessageCarries DEF Composed, PublicationTypeOK
  <2>2. PageTypeOK'
    BY <1>2, <1>w, <2>1 DEF Send, PageTypeOK
  <2>3. Carried'
    BY <1>2, <1>w, <2>1 DEF Send, Carried
  <2> QED BY <1>2, <2>2, <2>3 DEF Send, ShownStays
<1>3. CASE BootstrapLoaded
  <2>1. answer["bootstrap"] \in Version /\ ~answer["bootstrap"].none
    BY <1>3 DEF BootstrapLoaded, PageTypeOK, Carried, Loads
  <2>2. /\ status' \in {"loading", "live", "stale", "error"}
        /\ shown' \in Version /\ ShownStays
    BY <1>3, <2>1, Shows DEF BootstrapLoaded
  <2>3. PageTypeOK'
    BY <1>3, <1>n, <2>2 DEF BootstrapLoaded, PageTypeOK, Loads, Awaits
  <2>4. Carried'
    BY <1>3, <1>n DEF BootstrapLoaded, PageTypeOK, Carried, Loads
  <2> QED BY <2>2, <2>3, <2>4
<1>4. CASE Connected \/ ConnectFails
  <2>1. /\ status' \in {"loading", "live", "stale", "error"}
        /\ shown' = shown
    BY <1>4, <1>n, Shows DEF Connected, ConnectFails, PageTypeOK
  <2>2. PageTypeOK'
    BY <1>4, <2>1 DEF Connected, ConnectFails, PageTypeOK, Awaits
  <2>3. Carried'
    BY <1>4 DEF Connected, ConnectFails, PageTypeOK, Carried
  <2> QED BY <2>1, <2>2, <2>3 DEF ShownStays
<1>5. CASE Deliver
  <2>1. CASE Head(wire) \in Version /\ Receive(Head(wire)) /\ UNCHANGED <<pc, recovering>>
    <3>1. ~Head(wire).none
      BY <1>5, <1>w, <2>1 DEF Deliver, Carried
    <3>2. /\ status' \in {"loading", "live", "stale", "error"}
          /\ shown' \in Version /\ ShownStays /\ queued' \in Version
      BY <2>1, <3>1, Shows DEF Receive, PageTypeOK, ShownStays
    <3>3. PageTypeOK'
      BY <1>5, <1>w, <2>1, <3>2 DEF Deliver, PageTypeOK
    <3>4. Carried'
      BY <1>5, <1>w, <2>1 DEF Deliver, Carried
    <3> QED BY <3>2, <3>3, <3>4
  <2>2. ASSUME NEW f \in Loads,
               IF f = "first" /\ cancelled
               THEN /\ pc' = [pc EXCEPT ![f] = "idle"]
                    /\ UNCHANGED recovering
               ELSE BeginRecovery(f),
               UNCHANGED <<queued, status, shown>>
        PROVE  PageTypeOK' /\ Carried' /\ ShownStays
    <3>1. PageTypeOK'
      BY <1>5, <1>w, <2>2 DEF Deliver, BeginRecovery, PageTypeOK, Awaits
    <3>2. Carried'
      BY <1>5, <1>w, <2>2 DEF Deliver, BeginRecovery, PageTypeOK, Carried
    <3> QED BY <2>2, <3>1, <3>2 DEF ShownStays
  <2> QED BY <1>5, <2>1, <2>2 DEF Deliver
<1>6. CASE Reconnected
  <2>1. PICK f \in Reconnections : begun' = begun \cup {f} /\ pc' = [pc EXCEPT ![f] = "join"]
    BY <1>6 DEF Reconnected
  <2>2. PageTypeOK'
    BY <1>6, <2>1 DEF Reconnected, PageTypeOK, Awaits
  <2>3. Carried'
    BY <1>6, <2>1 DEF Reconnected, PageTypeOK, Carried
  <2> QED BY <1>6, <2>2, <2>3 DEF Reconnected, ShownStays
<1>7. CASE Stopped
  <2>1. PageTypeOK'
    BY <1>7, <1>w DEF Stopped, PageTypeOK, Awaits
  <2>2. Carried'
    BY <1>7, <1>w DEF Stopped, Carried
  <2> QED BY <1>7, <2>1, <2>2 DEF Stopped, ShownStays
<1>8. ASSUME NEW f \in Loads, JoinMatch(f) PROVE PageTypeOK' /\ Carried' /\ ShownStays
  <2>1. PageTypeOK'
    BY <1>8 DEF JoinMatch, PageTypeOK, Awaits
  <2>2. Carried'
    BY <1>8 DEF JoinMatch, PageTypeOK, Carried
  <2> QED BY <1>8, <2>1, <2>2 DEF JoinMatch, ShownStays
<1>9. ASSUME NEW f \in Loads, ReplyJoin(f) PROVE PageTypeOK' /\ Carried' /\ ShownStays
  <2>0. JoinedReply(f) \in Replies
    BY DEF Replies
  <2>1. PageTypeOK'
    BY <1>9, <1>w, <2>0 DEF ReplyJoin, PageTypeOK, Awaits
  <2>2. JoinedReply(f) \notin Version
    BY DEF JoinedReply, Version
  <2>3. Carried'
    BY <1>9, <1>w, <2>0, <2>2 DEF ReplyJoin, PageTypeOK, Carried
  <2> QED BY <1>9, <2>1, <2>3 DEF ReplyJoin, ShownStays
<1>10. ASSUME NEW f \in Loads, AnswerRow(f) PROVE PageTypeOK' /\ Carried' /\ ShownStays
  <2>1. Message([row |-> row, live |-> 0]) \in Version
        /\ ~Message([row |-> row, live |-> 0]).none
    BY MessageCarries DEF PublicationTypeOK
  <2>2. PageTypeOK'
    BY <1>10, <2>1 DEF AnswerRow, PageTypeOK, Awaits
  <2>3. Carried'
    BY <1>10, <2>1 DEF AnswerRow, PageTypeOK, Carried
  <2> QED BY <1>10, <2>2, <2>3 DEF AnswerRow, ShownStays
<1>11. ASSUME NEW f \in Loads, AnswerLoad(f) PROVE PageTypeOK' /\ Carried' /\ ShownStays
  <2>1. answer[f] \in Version /\ ~answer[f].none
    BY <1>11 DEF AnswerLoad, PageTypeOK, Carried
  <2>2. [answer[f] EXCEPT !.live = live] \in Version
        /\ ~[answer[f] EXCEPT !.live = live].none
    BY <2>1 DEF Version, PublicationTypeOK
  <2>3. answer' = [answer EXCEPT ![f] = [answer[f] EXCEPT !.live = live]]
    BY <1>11 DEF AnswerLoad, PageTypeOK
  <2> HIDE DEF PageInv
  <2>4. PageTypeOK'
    BY <1>11, <2>2, <2>3 DEF AnswerLoad, PageTypeOK, Awaits, PageInv
  <2>5. Carried'
    BY <1>11, <2>2, <2>3 DEF AnswerLoad, PageTypeOK, Carried, PageInv
  <2> QED BY <1>11, <2>4, <2>5 DEF AnswerLoad, ShownStays
<1>12. ASSUME NEW f \in Loads, RecoveryLoaded(f) PROVE PageTypeOK' /\ Carried' /\ ShownStays
  <2>1. answer[f] \in Version /\ ~answer[f].none
    BY <1>12 DEF RecoveryLoaded, PageTypeOK, Carried
  <2>2. /\ status' \in {"loading", "live", "stale", "error"}
        /\ shown' \in Version /\ ShownStays
    <3>1. CASE queued.none
      BY <1>12, <2>1, <3>1, Shows DEF RecoveryLoaded, EndRecovery
    <3>2. CASE ~queued.none
      BY <1>12, <3>2, Shows DEF RecoveryLoaded, EndRecovery, PageTypeOK
    <3> QED BY <3>1, <3>2
  <2>3. PageTypeOK'
    BY <1>12, <1>n, <2>2 DEF RecoveryLoaded, EndRecovery, PageTypeOK, Awaits
  <2>4. Carried'
    BY <1>12, <1>n DEF RecoveryLoaded, EndRecovery, PageTypeOK, Carried
  <2> QED BY <2>2, <2>3, <2>4
<1>13. ASSUME NEW f \in Loads, LoadFails(f) PROVE PageTypeOK' /\ Carried' /\ ShownStays
  <2>1. /\ status' \in {"loading", "live", "stale", "error"}
        /\ shown' = shown
    BY <1>13, <1>n, Shows DEF LoadFails
  <2>2. PageTypeOK'
    BY <1>13, <1>n, <2>1 DEF LoadFails, PageTypeOK, Awaits
  <2>3. Carried'
    BY <1>13, <1>n DEF LoadFails, PageTypeOK, Carried
  <2> QED BY <2>1, <2>2, <2>3 DEF ShownStays
<1>14. CASE Drop \/ GiveUp
  <2>1. /\ status' \in {"loading", "live", "stale", "error"}
        /\ shown' = shown
    BY <1>14, <1>n, Shows DEF Drop, GiveUp
  <2>2. PageTypeOK'
    BY <1>14, <1>n, <1>w, <2>1 DEF Drop, GiveUp, PageTypeOK, Awaits
  <2>3. Carried'
    BY <1>14, <1>w DEF Drop, GiveUp, Carried
  <2> QED BY <2>1, <2>2, <2>3 DEF ShownStays
<1>15. CASE Unmount
  <2>1. PageTypeOK'
    BY <1>15, <1>n DEF Unmount, PageTypeOK, Awaits
  <2>2. Carried'
    BY <1>15 DEF Unmount, PageTypeOK, Carried
  <2> QED BY <1>15, <2>1, <2>2 DEF Unmount, ShownStays
<1>16. CASE UNCHANGED vars
  BY <1>16 DEF vars, PageTypeOK, Carried, ShownStays
<1> QED
  BY <1>1, <1>2, <1>3, <1>4, <1>5, <1>6, <1>7, <1>8, <1>9, <1>10, <1>11,
     <1>12, <1>13, <1>14, <1>15, <1>16 DEF Next, LinkStep, LoadStep

LEMMA PageInitial == Init => PageInv
<1> SUFFICES ASSUME Init PROVE PageInv
  OBVIOUS
<1>1. Nothing \in Version
  BY DEF Nothing, Version
<1>2. <<>> \in Seq(Version \cup Replies) /\ Len(<<>>) = 0
  OBVIOUS
<1>3. PageTypeOK
  BY <1>1, <1>2 DEF Init, RendererInit, PageTypeOK, Awaits
<1>4. Carried
  BY <1>2 DEF Init, RendererInit, Carried
<1> QED BY <1>3, <1>4 DEF PageInv

LEMMA PageInvariant == Spec => [](PublicationTypeOK /\ PageInv)
<1>1. Init => PublicationTypeOK
  BY PublicationInitial DEF Init, IInv
<1>2. PublicationTypeOK /\ PageInv /\ [Next]_vars => (PublicationTypeOK /\ PageInv)'
  BY TypeStep, RefinesStep, PageStep DEF PageInv
<1> QED BY <1>1, <1>2, PageInitial, PTL DEF Spec

\* Every variable of the agent's side and of the page holds a value of its
\* kind, for any number of connections lost.
THEOREM RendererTypeCorrect == Spec => []RendererTypeOK
<1>1. PublicationTypeOK /\ PageInv => RendererTypeOK
  <2> SUFFICES ASSUME PublicationTypeOK, PageInv PROVE RendererTypeOK
    OBVIOUS
  <2>1. \A i \in 1..Len(wire) : wire[i] \in Version \cup Replies
    BY DEF PageInv, PageTypeOK
  <2> QED BY <2>1 DEF PageInv, PageTypeOK, RendererTypeOK, Replies
<1> QED BY <1>1, PageInvariant, PTL

\* Once something is shown no fault covers it or takes it off the output
\* (App.tsx, markStale).
THEOREM OutputSurvives == Spec => OutputSurvivesFaults
<1>1. PublicationTypeOK /\ PageInv /\ [Next]_vars
        => [~shown.none =>
              /\ Diagnostic' = "none"
              /\ RenderStandardScoreboard /\ ~RenderStandardScoreboard'
                   => Look[shown'.live] # Look[shown.live]]_vars
  <2> SUFFICES ASSUME PublicationTypeOK, PageInv, [Next]_vars, ~shown.none
               PROVE  /\ Diagnostic' = "none"
                      /\ RenderStandardScoreboard /\ ~RenderStandardScoreboard'
                           => Look[shown'.live] # Look[shown.live]
    OBVIOUS
  <2>1. ~shown'.none
    BY PageStep DEF ShownStays
  <2>2. Diagnostic' = "none"
    BY <2>1 DEF Diagnostic
  <2> QED BY <2>1, <2>2 DEF RenderStandardScoreboard
<1> QED BY <1>1, PageInvariant, PTL DEF Spec, OutputSurvivesFaults

-----------------------------------------------------------------------------
(* The gate, while a connection is only lost with no load outstanding.     *)

\* A join or a load that is not the page's first: at most one is under way,
\* and none while the page is about to connect again.
OneAtATime ==
  /\ \A f, g \in Loads : pc[f] # "idle" /\ pc[g] # "idle" => f = g
  /\ pc["bootstrap"] \in {"idle", "load", "read", "loaded"}
  /\ pc["bootstrap"] # "idle" => conn = "disconnected"
  /\ \A f \in Loads : pc[f] = "connect" => f = "first" /\ conn = "connecting"
  /\ conn = "connecting" => pc["first"] = "connect"
  /\ conn = "reconnecting" => \A f \in Loads : pc[f] = "idle"

\* A completion on the wire is that of a function that waits for it, and of
\* no two.
OneReply ==
  /\ \A i \in 1..Len(wire), f \in Loads :
       wire[i] = JoinedReply(f) => pc[f] = "joining"
  /\ \A i, j \in 1..Len(wire), f \in Loads :
       wire[i] = JoinedReply(f) /\ wire[j] = JoinedReply(f) => i = j

\* A page that loads holds messages back.
Gated == ~cancelled /\ Loading \ {"bootstrap"} # {} => recovering

GateInv == OneAtATime /\ OneReply /\ Gated

LEMMA GateStep ==
  ASSUME DropsWait, PublicationTypeOK, PageInv, GateInv, [Next]_vars
  PROVE  GateInv'
<1> USE DEF pageVars, linkVars, clientVars, Loading
<1>t. pc \in [Loads -> Awaits] /\ wire \in Seq(Version \cup Replies)
  BY DEF PageInv, PageTypeOK
<1>l. {"bootstrap", "first"} \subseteq Loads
  BY DEF Loads
<1>v. \A f \in Loads, v \in Version : JoinedReply(f) # v
  BY DEF JoinedReply, Version
<1>j. \A f, g \in Loads : JoinedReply(f) = JoinedReply(g) => f = g
  BY DEF JoinedReply
<1>w. /\ \A x \in Version \cup Replies :
             /\ Len(Append(wire, x)) = Len(wire) + 1
             /\ \A i \in 1..Len(Append(wire, x)) :
                  \/ i \in 1..Len(wire) /\ Append(wire, x)[i] = wire[i]
                  \/ i = Len(wire) + 1 /\ Append(wire, x)[i] = x
      /\ wire # <<>> => /\ Len(Tail(wire)) = Len(wire) - 1
                        /\ Head(wire) = wire[1]
                        /\ 1 \in 1..Len(wire)
                        /\ \A i \in 1..Len(Tail(wire)) :
                             i + 1 \in 1..Len(wire) /\ Tail(wire)[i] = wire[i + 1]
      /\ Len(<<>>) = 0
      /\ Len(wire) \in Nat
  BY <1>t, WireStep
<1> USE DEF GateInv
<1>1. CASE ServerStep
  BY <1>1 DEF ServerStep, OneAtATime, OneReply, Gated
<1>2. CASE Send
  <2>1. Message(Composed) \in Version
    BY MessageCarries DEF Composed, PublicationTypeOK
  <2>2. OneReply'
    BY <1>2, <1>w, <1>v, <2>1 DEF Send, OneReply
  <2> QED BY <1>2, <2>2 DEF Send, OneAtATime, Gated
<1>3. CASE BootstrapLoaded
  <2>1. OneAtATime'
    BY <1>3, <1>t, <1>l DEF BootstrapLoaded, OneAtATime
  <2>2. OneReply'
    BY <1>3, <1>t, <1>l DEF BootstrapLoaded, OneReply, OneAtATime
  <2>3. Gated'
    BY <1>3, <1>t, <1>l DEF BootstrapLoaded, Gated
  <2> QED BY <2>1, <2>2, <2>3
<1>4. CASE Connected \/ ConnectFails
  <2>1. OneAtATime'
    BY <1>4, <1>t, <1>l DEF Connected, ConnectFails, OneAtATime
  <2>2. OneReply'
    BY <1>4, <1>t, <1>l DEF Connected, ConnectFails, OneReply
  <2>3. Gated'
    BY <1>4, <1>t, <1>l DEF Connected, ConnectFails, Gated, OneAtATime
  <2> QED BY <2>1, <2>2, <2>3
<1>5. CASE Deliver
  <2>1. CASE Head(wire) \in Version /\ Receive(Head(wire)) /\ UNCHANGED <<pc, recovering>>
    <3>1. OneAtATime'
      BY <1>5, <2>1 DEF Deliver, OneAtATime
    <3>2. OneReply'
      BY <1>5, <1>w, <2>1 DEF Deliver, OneReply
    <3> QED BY <1>5, <2>1, <3>1, <3>2 DEF Deliver, Gated
  <2>2. ASSUME NEW f \in Loads, Head(wire) = JoinedReply(f),
               IF f = "first" /\ cancelled
               THEN /\ pc' = [pc EXCEPT ![f] = "idle"]
                    /\ UNCHANGED recovering
               ELSE BeginRecovery(f)
        PROVE  GateInv'
    <3>1. pc[f] = "joining"
      BY <1>5, <1>w, <2>2 DEF Deliver, OneReply
    <3>2. f # "bootstrap" /\ \A g \in Loads : g # f => pc[g] = "idle"
      BY <3>1, <1>l DEF OneAtATime
    <3>3. \A g \in Loads : g # f => pc'[g] = "idle"
      BY <1>t, <2>2, <3>2 DEF BeginRecovery
    <3>4. pc'[f] \in {"idle", "load"}
      BY <1>t, <2>2 DEF BeginRecovery
    <3>5. OneAtATime'
      BY <1>5, <1>l, <3>1, <3>2, <3>3, <3>4 DEF Deliver, OneAtATime
    <3>6. OneReply'
      <4>1. \A i \in 1..Len(wire'), g \in Loads : wire'[i] = JoinedReply(g) => FALSE
        <5> SUFFICES ASSUME NEW i \in 1..Len(wire'), NEW g \in Loads,
                            wire'[i] = JoinedReply(g)
                     PROVE  FALSE
          OBVIOUS
        <5>1. i + 1 \in 1..Len(wire) /\ wire[i + 1] = JoinedReply(g)
          BY <1>5, <1>w DEF Deliver
        <5>2. g = f
          BY <5>1, <3>1, <3>2 DEF OneReply
        <5>3. 1 \in 1..Len(wire) /\ wire[1] = JoinedReply(f)
          BY <1>5, <1>w, <2>2 DEF Deliver
        <5>4. i + 1 = 1
          BY <5>1, <5>2, <5>3 DEF OneReply
        <5> QED BY <5>4
      <4> QED BY <4>1 DEF OneReply
    <3>7. Gated'
      <4>1. CASE f = "first" /\ cancelled
        BY <1>5, <2>2, <4>1 DEF Deliver, Gated
      <4>2. CASE ~(f = "first" /\ cancelled)
        BY <2>2, <4>2 DEF BeginRecovery, Gated
      <4> QED BY <4>1, <4>2
    <3> QED BY <3>5, <3>6, <3>7
  <2> QED BY <1>5, <2>1, <2>2 DEF Deliver
<1>6. CASE Reconnected
  <2>1. PICK f \in Reconnections : pc' = [pc EXCEPT ![f] = "join"]
    BY <1>6 DEF Reconnected
  <2>2. f \in Loads /\ f # "bootstrap"
    BY RendererAssumption DEF Loads
  <2>3. OneAtATime'
    BY <1>6, <1>t, <1>l, <2>1, <2>2 DEF Reconnected, OneAtATime
  <2>4. OneReply'
    BY <1>6, <1>t, <2>1, <2>2 DEF Reconnected, OneReply, OneAtATime
  <2>5. Gated'
    BY <1>6, <1>t, <2>1, <2>2 DEF Reconnected, Gated
  <2> QED BY <2>3, <2>4, <2>5
<1>7. CASE Stopped
  <2>1. OneAtATime'
    BY <1>7, <1>t, <1>l DEF Stopped, OneAtATime
  <2>2. OneReply'
    BY <1>7, <1>w DEF Stopped, OneReply
  <2>3. Gated'
    BY <1>7, <1>t DEF Stopped, Gated
  <2> QED BY <2>1, <2>2, <2>3
<1>8. ASSUME NEW f \in Loads, JoinMatch(f) PROVE GateInv'
  <2>1. OneAtATime'
    BY <1>8, <1>t, <1>l DEF JoinMatch, OneAtATime
  <2>2. OneReply'
    BY <1>8, <1>t DEF JoinMatch, OneReply
  <2>3. Gated'
    BY <1>8, <1>t DEF JoinMatch, Gated
  <2> QED BY <2>1, <2>2, <2>3
<1>9. ASSUME NEW f \in Loads, ReplyJoin(f) PROVE GateInv'
  <2>0. JoinedReply(f) \in Version \cup Replies
    BY DEF Replies
  <2>1. OneAtATime'
    BY <1>9, <1>t, <1>l DEF ReplyJoin, OneAtATime
  <2>2. OneReply'
    <3>1. \A i \in 1..Len(wire) : wire[i] # JoinedReply(f)
      BY <1>9 DEF ReplyJoin, OneReply
    <3>2. \A i \in 1..Len(wire'), g \in Loads : wire'[i] = JoinedReply(g) =>
             \/ g = f /\ i = Len(wire) + 1
             \/ g # f /\ i \in 1..Len(wire) /\ wire[i] = JoinedReply(g)
      BY <1>9, <1>w, <1>j, <2>0, <3>1 DEF ReplyJoin
    <3>3. pc'[f] = "joining" /\ \A g \in Loads : g # f => pc'[g] = pc[g]
      BY <1>9, <1>t DEF ReplyJoin
    <3> QED BY <3>2, <3>3 DEF OneReply
  <2>3. Gated'
    BY <1>9, <1>t DEF ReplyJoin, Gated
  <2> QED BY <2>1, <2>2, <2>3
<1>10. ASSUME NEW f \in Loads, AnswerRow(f) \/ AnswerLoad(f) PROVE GateInv'
  <2>1. OneAtATime'
    BY <1>10, <1>t, <1>l DEF AnswerRow, AnswerLoad, OneAtATime
  <2>2. OneReply'
    BY <1>10, <1>t DEF AnswerRow, AnswerLoad, OneReply
  <2>3. Gated'
    BY <1>10, <1>t DEF AnswerRow, AnswerLoad, Gated
  <2> QED BY <2>1, <2>2, <2>3
<1>11. ASSUME NEW f \in Loads, RecoveryLoaded(f) \/ LoadFails(f) PROVE GateInv'
  <2>0. \A g \in Loads : pc'[g] = "idle"
    BY <1>11, <1>t DEF RecoveryLoaded, LoadFails, EndRecovery, OneAtATime
  <2>1. OneAtATime'
    <3>1. conn' = conn /\ conn # "connecting"
      BY <1>11, <1>l DEF RecoveryLoaded, LoadFails, OneAtATime
    <3> QED BY <1>l, <2>0, <3>1 DEF OneAtATime
  <2>2. OneReply'
    BY <1>11, <1>t DEF RecoveryLoaded, LoadFails, EndRecovery, OneReply
  <2>3. Gated'
    BY <2>0 DEF Gated
  <2> QED BY <2>1, <2>2, <2>3
<1>12. CASE Drop
  <2>0. \A g \in Loads : pc'[g] = "idle"
    <3> SUFFICES ASSUME NEW g \in Loads PROVE pc'[g] = "idle"
      OBVIOUS
    <3>1. pc[g] \notin {"connect", "load", "read", "loaded"}
      BY <1>12 DEF Drop, OneAtATime
    <3>2. pc[g] \in {"idle", "join", "reply", "joining"}
      BY <1>t, <3>1 DEF Awaits
    <3> QED BY <1>12, <3>2 DEF Drop, Joining
  <2>1. OneAtATime'
    BY <1>12, <1>l, <2>0 DEF Drop, OneAtATime
  <2>2. OneReply'
    BY <1>12, <1>w DEF Drop, OneReply
  <2>3. Gated'
    BY <2>0 DEF Gated
  <2> QED BY <2>1, <2>2, <2>3
<1>13. CASE GiveUp
  BY <1>13, <1>t, <1>l DEF GiveUp, OneAtATime, OneReply, Gated
<1>14. CASE Unmount
  <2>1. OneAtATime'
    BY <1>14, <1>t, <1>l DEF Unmount, OneAtATime
  <2>2. OneReply'
    BY <1>14, <1>t, <1>l DEF Unmount, OneReply, OneAtATime
  <2>3. Gated'
    BY <1>14 DEF Unmount, Gated
  <2> QED BY <2>1, <2>2, <2>3
<1>15. CASE UNCHANGED vars
  BY <1>15 DEF vars, OneAtATime, OneReply, Gated
<1> QED
  BY <1>1, <1>2, <1>3, <1>4, <1>5, <1>6, <1>7, <1>8, <1>9, <1>10, <1>11,
     <1>12, <1>13, <1>14, <1>15 DEF Next, LinkStep, LoadStep

LEMMA GateInvariant ==
  ASSUME DropsWait PROVE Spec => [](PublicationTypeOK /\ PageInv /\ GateInv)
<1>1. Init => GateInv
  <2> SUFFICES ASSUME Init PROVE GateInv
    OBVIOUS
  <2>1. Len(<<>>) = 0
    OBVIOUS
  <2>2. OneAtATime
    BY DEF Init, RendererInit, OneAtATime, Loads
  <2>3. OneReply
    BY <2>1 DEF Init, RendererInit, OneReply
  <2>4. Gated
    BY DEF Init, RendererInit, Gated, Loading
  <2> QED BY <2>2, <2>3, <2>4 DEF GateInv
<1>2. PublicationTypeOK /\ PageInv /\ GateInv /\ [Next]_vars => GateInv'
  BY GateStep
<1> QED BY <1>1, <1>2, PageInvariant, PTL DEF Spec

\* "Gate realtime messages until the post-join recovery snapshot has closed
\* the gap": for any number of connections lost, as long as none is lost while
\* a load is outstanding (without that finding 1 shows how it fails).
THEOREM SnapshotFirst == ASSUME DropsWait PROVE Spec => MessagesWaitForSnapshot
<1>1. PublicationTypeOK /\ PageInv /\ GateInv /\ [Next]_vars
        => [(/\ Len(wire') < Len(wire)
             /\ shown' # shown) => Loading \ {"bootstrap"} = {}]_vars
  <2> SUFFICES ASSUME PublicationTypeOK, PageInv, GateInv, [Next]_vars,
                      Len(wire') < Len(wire), shown' # shown
               PROVE  Loading \ {"bootstrap"} = {}
    OBVIOUS
  <2>0. /\ \A x \in Version \cup Replies : Len(Append(wire, x)) = Len(wire) + 1
        /\ Len(wire) \in Nat
    BY WireStep DEF PageInv, PageTypeOK
  <2>1. CASE Deliver
    <3>1. Receive(Head(wire))
      BY <2>1 DEF Deliver
    <3>2. ~cancelled /\ ~recovering
      BY <3>1 DEF Receive, Apply
    <3> QED BY <3>2 DEF GateInv, Gated
  <2>2. CASE wire' = wire \/ shown' = shown
    BY <2>0, <2>2
  <2> QED
    BY <2>1, <2>2 DEF Next, LinkStep, LoadStep, ServerStep, Send,
       BootstrapLoaded, Connected, Reconnected, Stopped, JoinMatch, ReplyJoin,
       AnswerRow, AnswerLoad, RecoveryLoaded, LoadFails, ConnectFails, Drop,
       GiveUp, Unmount, MarkStale, vars, clientVars, pageVars, linkVars
<1> QED BY <1>1, GateInvariant, PTL DEF Spec, MessagesWaitForSnapshot

=============================================================================
