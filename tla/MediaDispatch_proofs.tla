------------------------ MODULE MediaDispatch_proofs ------------------------
(***************************************************************************)
(* The media inside the canonical receiver, for any set of consumers, any  *)
(* stream and any capacities: the pump outlives every detach, a consumer   *)
(* is given no more and no other than MediaFeed promises, and every        *)
(* variable has its type.                                                  *)
(*                                                                         *)
(* The pump: a consumer is registered, being closed, or closed, never two  *)
(* of these, and it is registered once, by a caller that is neither        *)
(* removed nor closed yet.  So a completed channel is never that of a      *)
(* registered consumer, which is what the pump takes for a fault.          *)
(*                                                                         *)
(* The feed: what a consumer has taken and what waits for it goes forward. *)
(* A loss-intolerant one has all there was before the chunk that it is     *)
(* still to be served, and all of the log when it has been served: it      *)
(* joined when the receiver's buffer ended with the log.                   *)
(***************************************************************************)
EXTENDS MCMediaDispatch, Streaming_proofs, WellFoundedInduction, TLAPS

Places == {"outside", "polling", "aligning", "joined", "gone"}

\* A caller has a place, and has been registered or closed only when past
\* its waiting places; nobody is registered and removed at once.
LeaseInv ==
  /\ pc \in [Consumers -> Places]
  /\ consumers \cup closing \cup closed \subseteq
       {c \in Consumers : pc[c] \in {"aligning", "joined", "gone"}}
  /\ consumers \cap (closing \cup closed) = {}
  /\ PumpNeverFaults

LEMMA LeaseInit == Init => LeaseInv
  BY DEF Init, LeaseInv, PumpNeverFaults, Places

\* The pump: serving a consumer moves nobody out of its registration.
LEMMA LeaseDispatch ==
  ASSUME LeaseInv, NEW c \in Consumers, Dispatch(c)
  PROVE  LeaseInv'
<1>1. CASE DispatchWaiting(c)
  BY <1>1 DEF LeaseInv, DispatchWaiting, PumpNeverFaults, leaseVars
<1>2. CASE DispatchDropping(c)
  BY <1>2 DEF LeaseInv, DispatchDropping, PumpNeverFaults, leaseVars
<1>3. CASE Align(c)
  <2>1. pc[c] = "aligning" /\ UNCHANGED <<pump, leaseVars>>
    BY <1>3 DEF Align
  <2>2. pc' = pc \/ pc' = [pc EXCEPT ![c] = "joined"]
    BY <1>3 DEF Align
  <2>3. QED
    BY <2>1, <2>2 DEF LeaseInv, PumpNeverFaults, leaseVars, Places
<1>4. QED
  BY <1>1, <1>2, <1>3 DEF Dispatch

\* The callers: joining registers one that was in no set, leaving and
\* completing move it on.
LEMMA LeaseCaller ==
  ASSUME LeaseInv, NEW c \in Consumers,
         Acquire(c) \/ Join(c) \/ GiveUp(c) \/ Read(c) \/ Close(c)
           \/ Leave(c) \/ Complete(c)
  PROVE  LeaseInv'
<1>1. CASE Acquire(c)
  BY <1>1 DEF LeaseInv, Acquire, PumpNeverFaults, Places, pumpVars
<1>2. CASE Join(c)
  BY <1>2 DEF LeaseInv, Join, PumpNeverFaults, Places, pumpVars
<1>3. CASE GiveUp(c)
  BY <1>3 DEF LeaseInv, GiveUp, PumpNeverFaults, Places, pumpVars
<1>4. CASE Read(c)
  BY <1>4 DEF LeaseInv, Read, PumpNeverFaults, pumpVars, leaseVars
<1>5. CASE Close(c)
  BY <1>5 DEF LeaseInv, Close, PumpNeverFaults, pumpVars
<1>6. CASE Leave(c)
  BY <1>6 DEF LeaseInv, Leave, Detach, PumpNeverFaults, Places, pumpVars
<1>7. CASE Complete(c)
  BY <1>7 DEF LeaseInv, Complete, Detach, PumpNeverFaults, pumpVars
<1>8. QED
  BY <1>1, <1>2, <1>3, <1>4, <1>5, <1>6, <1>7

LEMMA LeaseStep == LeaseInv /\ [Next]_vars => LeaseInv'
<1> SUFFICES ASSUME LeaseInv, [Next]_vars PROVE LeaseInv'
  OBVIOUS
<1>1. ASSUME NEW stream \in Streams, NEW n \in 1..MaxChunk, Chunk(stream, n)
      PROVE  LeaseInv'
  BY <1>1 DEF LeaseInv, Chunk, PumpNeverFaults, leaseVars
<1>2. ASSUME NEW c \in Consumers, Dispatch(c) PROVE LeaseInv'
  BY <1>2, LeaseDispatch
<1>3. ASSUME NEW c \in Consumers,
             Acquire(c) \/ Join(c) \/ GiveUp(c) \/ Read(c) \/ Close(c)
               \/ Leave(c) \/ Complete(c)
      PROVE  LeaseInv'
  BY <1>3, LeaseCaller
<1>4. CASE ProcessExits
  BY <1>4 DEF LeaseInv, ProcessExits, PumpNeverFaults
<1>5. CASE EndOfStream
  BY <1>5 DEF LeaseInv, EndOfStream, PumpNeverFaults, leaseVars
<1>6. CASE Teardown
  BY <1>6 DEF LeaseInv, Teardown, PumpNeverFaults
<1>7. CASE Launch
  BY <1>7 DEF LeaseInv, Launch, PumpNeverFaults, leaseVars
<1>8. CASE UNCHANGED vars
  BY <1>8 DEF LeaseInv, vars, PumpNeverFaults, pumpVars, leaseVars
<1>9. QED
  BY <1>1, <1>2, <1>3, <1>4, <1>5, <1>6, <1>7, <1>8 DEF Next

\* No consumer that leaves, or is completed, while a chunk is being
\* distributed ends PumpMediaAsync.
THEOREM PumpSurvives == Spec => []PumpNeverFaults
<1>1. LeaseInv => PumpNeverFaults
  BY DEF LeaseInv
<1>2. QED
  BY LeaseInit, LeaseStep, <1>1, PTL DEF Spec

-----------------------------------------------------------------------------
(* What the consumers read.                                                *)

Newest(s) == s[Len(s)]

\* n comes after m: exactly, the next one.
Follows(exact, m, n) == IF exact THEN n = m + 1 ELSE m < n

\* s goes forward: exactly, without a gap.
Run(exact, s) ==
  \A i, j \in 1..Len(s) :
    i < j => IF exact THEN s[j] = s[i] + (j - i) ELSE s[i] < s[j]

\* A recording can start on s (what MediaFeed calls decodable).
Starts(written, s) ==
  /\ s # <<>>
  /\ written[s[1]] = "pat"
  /\ \E i, j \in 1..Len(s) :
       i < j /\ written[s[i]] = "pmt" /\ written[s[j]] = "idr"

\* Packets are of the log, in order, and what was recognised of them is so.
Tells(exact, packets, written) ==
  /\ \A i \in 1..Len(packets) :
       /\ packets[i].at \in 1..Len(written)
       /\ packets[i].kind # "other" => written[packets[i].at] = packets[i].kind
  /\ \A i, j \in 1..Len(packets) :
       i < j => IF exact THEN packets[j].at = packets[i].at + (j - i)
                         ELSE packets[i].at < packets[j].at

BufferOK(exact, b, written) ==
  b \in Buffers /\ Tells(exact, b.packets, written)

\* The number of a buffer's latest packet, 0 when it is empty.
LastOf(b) == IF b.packets = <<>> THEN 0 ELSE Newest(b.packets).at

\* What a reader has taken and what still waits for it, in that order, goes
\* forward, is of the log, and for an exact reader has no gap and starts
\* where a decoder can.
Pipe(exact, written, waiting, got) ==
  /\ got \in Seq(1..Len(written)) /\ Run(exact, got)
  /\ waiting \in Seq(Seq(1..Len(written)))
  /\ \A i \in 1..Len(waiting) : waiting[i] # <<>> /\ Run(exact, waiting[i])
  /\ \A i \in 1..Len(waiting)-1 :
       Follows(exact, Newest(waiting[i]), waiting[i + 1][1])
  /\ waiting # <<>> /\ got # <<>> =>
       Follows(exact, Newest(got), waiting[1][1])
  /\ exact => /\ got # <<>> => Starts(written, got)
              /\ got = <<>> /\ waiting # <<>> => Starts(written, waiting[1])

\* The latest packet that was put into a reader's way, 0 when there is none.
Latest(waiting, got) ==
  IF waiting # <<>> THEN Newest(Newest(waiting))
  ELSE IF got # <<>> THEN Newest(got) ELSE 0

Exact(c) == c \in LossIntolerant

\* The chunk under distribution is the end of the log.
ChunkInv ==
  /\ chunk \in Seq(1..Len(log))
  /\ todo # {} => chunk # <<>> /\ Run(TRUE, chunk) /\ Newest(chunk) = Len(log)

\* The receiver's buffer ends with the log.
BootstrapInv ==
  /\ BufferOK(TRUE, bootstrap, log)
  /\ bootstrap.packets # <<>> => LastOf(bootstrap) = Len(log)

\* A stopped pump: nothing to join at, and whoever is registered is about to
\* be completed.
StoppedInv ==
  pump = "stopped" =>
    /\ bootstrap.packets = <<>> /\ todo = {}
    /\ consumers \subseteq condemned

\* A consumer: until it has joined it has been given nothing.  Its own buffer
\* and what it was given end before the chunk it is still to be served, and a
\* loss-intolerant one has everything before the chunk and, once served, up
\* to the end of the log.
ReaderOK(c) ==
  /\ Pipe(Exact(c), log, channel[c], taken[c])
  /\ Len(channel[c]) <= Capacity
  /\ BufferOK(FALSE, aligning[c], log)
  /\ pc[c] \in {"outside", "polling", "aligning"} =>
       channel[c] = <<>> /\ taken[c] = <<>>
  /\ pc[c] = "aligning" => c \in LiveAligned
  /\ c \in todo => /\ pc[c] \in {"aligning", "joined", "gone"}
                   /\ LastOf(aligning[c]) < chunk[1]
                   /\ Latest(channel[c], taken[c]) < chunk[1]
  /\ c \in LossIntolerant /\ c \in todo \cup consumers =>
       /\ Latest(channel[c], taken[c]) # 0
       /\ c \in todo => Latest(channel[c], taken[c]) + 1 = chunk[1]
       /\ c \notin todo /\ pump # "stopped" =>
            Latest(channel[c], taken[c]) = Len(log)

Shape ==
  /\ log \in Seq(Kinds)
  /\ firsts \subseteq Nat
  /\ pump \in {"reading", "draining", "exited", "stopped", "faulted"}
  /\ todo \subseteq Consumers
  /\ condemned \subseteq Consumers
  /\ channel \in [Consumers -> Seq(Seq(Nat))]
  /\ aligning \in [Consumers -> Buffers]
  /\ taken \in [Consumers -> Seq(Nat)]

ReadersInv == \A c \in Consumers : ReaderOK(c)

FeedInv == Shape /\ LeaseInv /\ ChunkInv /\ BootstrapInv /\ StoppedInv /\ ReadersInv

-----------------------------------------------------------------------------
(* Sequences that go forward.                                              *)

LEMMA LeastOf ==
  ASSUME NEW T, T \subseteq Nat, T # {}
  PROVE  \E x \in T : \A y \in T : x <= y
<1> DEFINE R == OpToRel(<, Nat)
<1>1. IsWellFoundedOn(R, Nat)
  BY NatLessThanWellFounded
<1>2. \A x \in Nat, y \in Nat : y < x => <<y, x>> \in R
  BY Zenon DEF OpToRel
<1> HIDE DEF R
<1>3. PICK x \in T : \A y \in T : ~(<<y, x>> \in R)
  BY <1>1, WFMin
<1>4. \A y \in T : ~(y < x)
  BY <1>2, <1>3
<1> QED
  BY <1>4

LEMMA GreatestOf ==
  ASSUME NEW n \in Nat, NEW T, T \subseteq 1..n, T # {}
  PROVE  Max(T) \in T /\ \A y \in T : y <= Max(T)
<1> DEFINE D == {n - x : x \in T}
<1>0. \A x \in T : n - x \in Nat
  OBVIOUS
<1>1. D \subseteq Nat /\ D # {}
  BY <1>0
<1> HIDE DEF D
<1>2. PICK d \in D : \A e \in D : d <= e
  BY <1>1, LeastOf
<1>3. PICK x \in T : d = n - x
  BY DEF D
<1>4. \A y \in T : n - y \in D
  BY DEF D
<1>5. \A y \in T : x >= y
  BY <1>2, <1>3, <1>4
<1>6. Max(T) \in T /\ \A y \in T : Max(T) >= y
  BY <1>5, Zenon DEF Max
<1> QED
  BY <1>6

LEMMA FirstLast ==
  ASSUME NEW exact \in BOOLEAN, NEW n \in Nat, NEW s \in Seq(1..n), s # <<>>, Run(exact, s)
  PROVE  /\ s[1] \in 1..n /\ Newest(s) \in 1..n /\ Len(s) \in Nat
         /\ 1 \in 1..Len(s) /\ Len(s) \in 1..Len(s)
         /\ \A i \in 1..Len(s) :
              /\ s[i] \in 1..n /\ s[1] <= s[i] /\ s[i] <= Newest(s)
              /\ exact => s[i] = s[1] + (i - 1) /\ s[i] = Newest(s) - (Len(s) - i)
<1>1. /\ Len(s) \in Nat /\ 1 \in 1..Len(s) /\ Len(s) \in 1..Len(s)
      /\ \A i \in 1..Len(s) : s[i] \in 1..n
  OBVIOUS
<1>2. ASSUME NEW i \in 1..Len(s)
      PROVE  /\ s[1] <= s[i] /\ s[i] <= s[Len(s)]
             /\ exact => s[i] = s[1] + (i - 1) /\ s[i] = s[Len(s)] - (Len(s) - i)
  <2>1. s[1] <= s[i] /\ (exact => s[i] = s[1] + (i - 1))
    <3>1. CASE i = 1
      BY <1>1, <3>1
    <3>2. CASE 1 < i
      BY <1>1, <3>2 DEF Run
    <3> QED BY <3>1, <3>2
  <2>2. s[i] <= s[Len(s)] /\ (exact => s[i] = s[Len(s)] - (Len(s) - i))
    <3>1. CASE i = Len(s)
      BY <1>1, <3>1
    <3>2. CASE i < Len(s)
      <4>1. /\ exact => s[Len(s)] = s[i] + (Len(s) - i)
            /\ ~exact => s[i] < s[Len(s)]
        BY <1>1, <3>2 DEF Run
      <4>2. s[i] \in Nat /\ s[Len(s)] \in Nat /\ i \in Nat
        BY <1>1
      <4> QED BY <1>1, <3>2, <4>1, <4>2
    <3> QED BY <1>1, <3>1, <3>2
  <2> QED BY <2>1, <2>2
<1> QED
  BY <1>1, <1>2 DEF Newest

LEMMA RunConcat ==
  ASSUME NEW exact \in BOOLEAN, NEW n \in Nat, NEW s \in Seq(1..n), NEW t \in Seq(1..n),
         t # <<>>, Run(exact, s), Run(exact, t),
         s # <<>> => Follows(exact, Newest(s), t[1])
  PROVE  /\ s \o t \in Seq(1..n) /\ s \o t # <<>>
         /\ Run(exact, s \o t) /\ Newest(s \o t) = Newest(t)
         /\ s = <<>> => s \o t = t
<1> DEFINE u == s \o t
<1>1. /\ u \in Seq(1..n) /\ Len(u) = Len(s) + Len(t)
      /\ Len(s) \in Nat /\ Len(t) \in Nat /\ Len(t) > 0
      /\ \A i \in 1..Len(u) : \/ i \in 1..Len(s) /\ u[i] = s[i]
                              \/ i - Len(s) \in 1..Len(t) /\ u[i] = t[i - Len(s)]
      /\ u[Len(u)] = t[Len(t)]
      /\ s # <<>> => Len(s) > 0
      /\ s = <<>> => u = t
  OBVIOUS
<1> HIDE DEF u
<1>2. Run(exact, u)
  <2> SUFFICES ASSUME NEW i \in 1..Len(u), NEW j \in 1..Len(u), i < j
               PROVE  IF exact THEN u[j] = u[i] + (j - i) ELSE u[i] < u[j]
    BY DEF Run
  <2>1. CASE j \in 1..Len(s) /\ u[j] = s[j]
    <3>1. i \in 1..Len(s)
      BY <1>1, <2>1
    <3>2. u[i] = s[i] \/ (i - Len(s) \in 1..Len(t))
      BY <1>1
    <3>3. u[i] = s[i]
      BY <1>1, <3>1, <3>2
    <3> QED BY <2>1, <3>1, <3>3 DEF Run
  <2>2. CASE j - Len(s) \in 1..Len(t) /\ u[j] = t[j - Len(s)]
    <3>1. CASE i \in 1..Len(s) /\ u[i] = s[i]
      <4>0. s # <<>>
        BY <3>1
      <4>1. /\ s[i] \in 1..n /\ Newest(s) \in 1..n
            /\ s[i] <= Newest(s) /\ (exact => s[i] = Newest(s) - (Len(s) - i))
        BY <3>1, <4>0, FirstLast
      <4> DEFINE k == j - Len(s)
      <4>2. /\ k \in 1..Len(t) /\ u[j] = t[k]
        BY <2>2
      <4>3. /\ t[k] \in 1..n /\ t[1] \in 1..n
            /\ t[1] <= t[k] /\ (exact => t[k] = t[1] + (k - 1))
        BY <4>2, FirstLast
      <4>4. Follows(exact, Newest(s), t[1])
        BY <4>0
      <4>9. \A m \in 1..n : m \in Nat
        OBVIOUS
      <4> HIDE DEF k
      <4>5. s[i] \in Nat /\ Newest(s) \in Nat /\ t[k] \in Nat /\ t[1] \in Nat
        BY <4>1, <4>3, <4>9, Zenon
      <4>10. i \in Nat
        OBVIOUS
      <4>8. k \in Nat /\ j = k + Len(s)
        BY <1>1, <4>2 DEF k
      <4>6. CASE exact
        BY <1>1, <3>1, <4>1, <4>2, <4>3, <4>4, <4>5, <4>8, <4>10, <4>6 DEF Follows
      <4>7. CASE ~exact
        BY <3>1, <4>1, <4>2, <4>3, <4>4, <4>5, <4>8, <4>10, <4>7 DEF Follows
      <4> QED BY <4>6, <4>7
    <3>2. CASE i - Len(s) \in 1..Len(t) /\ u[i] = t[i - Len(s)]
      <4> DEFINE k == j - Len(s)
                 h == i - Len(s)
      <4>1. /\ k \in 1..Len(t) /\ h \in 1..Len(t) /\ h < k /\ k - h = j - i
            /\ u[j] = t[k] /\ u[i] = t[h]
        BY <1>1, <2>2, <3>2
      <4> HIDE DEF k, h
      <4> QED BY <4>1 DEF Run
    <3> QED BY <1>1, <3>1, <3>2
  <2> QED BY <1>1, <2>1, <2>2
<1> QED
  BY <1>1, <1>2 DEF u, Newest

-----------------------------------------------------------------------------
(* MpegTsBootstrapBuffer.                                                  *)

Packets == [at : Nat, kind : Kinds]

LEMMA EmptyIsOK ==
  ASSUME NEW exact \in BOOLEAN, NEW written
  PROVE  BufferOK(exact, EmptyBuffer, written) /\ LastOf(EmptyBuffer) = 0
<1>1. Len(<<>>) = 0 /\ EmptyBuffer.packets = <<>> /\ EmptyBuffer \in Buffers
  BY DEF EmptyBuffer, Buffers
<1>2. Tells(exact, <<>>, written)
  BY <1>1 DEF Tells
<1> QED BY <1>1, <1>2 DEF BufferOK, LastOf

LEMMA TellsAppend ==
  ASSUME NEW exact \in BOOLEAN, NEW written \in Seq(Kinds),
         NEW p \in Seq(Packets), NEW e \in Packets, Tells(exact, p, written),
         e.at \in 1..Len(written), e.kind # "other" => written[e.at] = e.kind,
         p # <<>> => Follows(exact, Newest(p).at, e.at)
  PROVE  /\ Append(p, e) \in Seq(Packets) /\ Append(p, e) # <<>>
         /\ Newest(Append(p, e)) = e
         /\ Tells(exact, Append(p, e), written)
<1> DEFINE q == Append(p, e)
<1>1. /\ q \in Seq(Packets) /\ Len(q) = Len(p) + 1 /\ Len(p) \in Nat
      /\ \A i \in 1..Len(q) : \/ i \in 1..Len(p) /\ q[i] = p[i]
                              \/ i = Len(p) + 1 /\ q[i] = e
      /\ q[Len(q)] = e /\ q # <<>>
  OBVIOUS
<1>0. (p # <<>> => Len(p) \in 1..Len(p)) /\ Len(written) \in Nat
  OBVIOUS
<1> HIDE DEF q
<1>2. ASSUME NEW i \in 1..Len(q)
      PROVE  /\ q[i].at \in 1..Len(written)
             /\ q[i].kind # "other" => written[q[i].at] = q[i].kind
  BY <1>1 DEF Tells
<1>3. ASSUME NEW i \in 1..Len(q), NEW j \in 1..Len(q), i < j
      PROVE  IF exact THEN q[j].at = q[i].at + (j - i)
                      ELSE q[i].at < q[j].at
  <2>1. i \in 1..Len(p) /\ q[i] = p[i]
    BY <1>1, <1>3
  <2>2. CASE j \in 1..Len(p) /\ q[j] = p[j]
    BY <1>3, <2>1, <2>2 DEF Tells
  <2>3. CASE j = Len(p) + 1 /\ q[j] = e
    <3> DEFINE m == Len(p)
    <3>1. p # <<>> /\ m \in 1..Len(p) /\ Follows(exact, p[m].at, e.at)
      BY <1>0, <1>1, <2>1 DEF Newest
    <3>2. /\ p[m].at \in Nat /\ p[i].at \in Nat /\ e.at \in Nat
          /\ i \in Nat /\ m \in Nat /\ i <= m /\ j = m + 1
      BY <1>0, <1>1, <2>1, <2>3, <3>1 DEF Tells
    <3>3. i = m \/ (IF exact THEN p[m].at = p[i].at + (m - i)
                             ELSE p[i].at < p[m].at)
      BY <2>1, <3>1, <3>2 DEF Tells
    <3> HIDE DEF m
    <3>4. q[i].at = p[i].at /\ q[j].at = e.at
      BY <2>1, <2>3
    <3>5. CASE exact
      <4>1. e.at = p[m].at + 1
        BY <3>1, <3>5 DEF Follows
      <4>2. p[m].at = p[i].at + (m - i)
        BY <3>2, <3>3, <3>5
      <4>0. \A x, y, z, k, h \in Nat :
               z = y + 1 /\ y = x + (k - h) => z = x + ((k + 1) - h)
        OBVIOUS
      <4>3. e.at = p[i].at + ((m + 1) - i)
        BY <3>2, <4>0, <4>1, <4>2
      <4>4. q[j].at = q[i].at + (j - i)
        BY <3>2, <3>4, <4>3, Zenon
      <4> QED BY <3>5, <4>4
    <3>6. CASE ~exact
      BY <3>1, <3>2, <3>3, <3>4, <3>6 DEF Follows
    <3> QED BY <3>5, <3>6
  <2> QED BY <1>1, <2>2, <2>3
<1> QED BY <1>0, <1>1, <1>2, <1>3 DEF q, Tells, Newest

LEMMA TellsTail ==
  ASSUME NEW exact \in BOOLEAN, NEW written, NEW p \in Seq(Packets), p # <<>>,
         Tells(exact, p, written)
  PROVE  /\ Tail(p) \in Seq(Packets) /\ Tells(exact, Tail(p), written)
         /\ Tail(p) # <<>> => Newest(Tail(p)) = Newest(p)
<1>1. /\ Tail(p) \in Seq(Packets) /\ Len(Tail(p)) = Len(p) - 1
      /\ Len(p) \in Nat
      /\ \A i \in 1..Len(Tail(p)) : i + 1 \in 1..Len(p) /\ Tail(p)[i] = p[i + 1]
      /\ Tail(p) # <<>> => Tail(p)[Len(Tail(p))] = p[Len(p)]
  OBVIOUS
<1>2. ASSUME NEW i \in 1..Len(Tail(p)), NEW j \in 1..Len(Tail(p)), i < j
      PROVE  IF exact THEN Tail(p)[j].at = Tail(p)[i].at + (j - i)
                      ELSE Tail(p)[i].at < Tail(p)[j].at
  <2>1. /\ i + 1 \in 1..Len(p) /\ j + 1 \in 1..Len(p)
        /\ i + 1 < j + 1 /\ (j + 1) - (i + 1) = j - i
        /\ Tail(p)[i] = p[i + 1] /\ Tail(p)[j] = p[j + 1]
    BY <1>1, <1>2
  <2> QED BY <2>1 DEF Tells
<1> QED BY <1>1, <1>2 DEF Tells, Newest

LEMMA AppendPacketOK ==
  ASSUME NEW exact \in BOOLEAN, NEW written \in Seq(Kinds), NEW b,
         NEW n \in 1..Len(written), BufferOK(exact, b, written),
         b.packets # <<>> => Follows(exact, LastOf(b), n)
  PROVE  /\ BufferOK(exact, AppendPacket(b, n, written[n]), written)
         /\ AppendPacket(b, n, written[n]).packets # <<>>
              => LastOf(AppendPacket(b, n, written[n])) = n
<1> DEFINE seen == Recognised(b, written[n])
           e    == [at |-> n, kind |-> seen]
           all  == Append(b.packets, e)
           kept == IF Len(all) > MaxPackets THEN Tail(all) ELSE all
           c    == AppendPacket(b, n, written[n])
<1>1. written[n] \in Kinds /\ n \in Nat
  OBVIOUS
<1>2. seen \in Kinds /\ (seen # "other" => seen = written[n])
  BY <1>1 DEF Recognised, Kinds
<1>3. b \in Buffers /\ b.packets \in Seq(Packets) /\ Tells(exact, b.packets, written)
  BY DEF BufferOK, Buffers, Packets
<1>4. e \in Packets /\ e.at = n /\ e.kind = seen
  BY <1>1, <1>2 DEF Packets
<1> HIDE DEF e
<1>5. b.packets # <<>> => Follows(exact, Newest(b.packets).at, n)
  BY DEF LastOf
<1>6. /\ all \in Seq(Packets) /\ all # <<>> /\ Newest(all) = e
      /\ Tells(exact, all, written)
  BY <1>2, <1>3, <1>4, <1>5, TellsAppend
<1> HIDE DEF all
<1>7. /\ kept \in Seq(Packets) /\ Tells(exact, kept, written)
      /\ kept # <<>> => Newest(kept) = e
  BY <1>6, TellsTail
<1> HIDE DEF kept
<1>8. c = [packets |-> kept, pmtPid |-> b.pmtPid \/ seen = "pat",
           videoPid |-> b.videoPid \/ seen = "pmt"]
  BY Zenon DEF AppendPacket, kept, all, e
<1> HIDE DEF c, seen
<1>9. c.packets = kept /\ c \in Buffers
  <2>1. b.pmtPid \in BOOLEAN /\ b.videoPid \in BOOLEAN
    BY <1>3 DEF Buffers
  <2> QED BY <1>7, <1>8, <2>1 DEF Buffers, Packets
<1>10. BufferOK(exact, c, written) /\ (c.packets # <<>> => LastOf(c) = n)
  BY <1>4, <1>7, <1>9 DEF BufferOK, LastOf
<1> QED BY <1>10 DEF c

\* The recursive function of AppendAll, as an equation, and its part up to n.
IsFilled(f, b, written, ns, n) ==
  f = [i \in 0..n |-> IF i = 0 THEN b
                      ELSE AppendPacket(f[i - 1], ns[i], written[ns[i]])]

LEMMA FilledExists ==
  ASSUME NEW b, NEW written, NEW ns, NEW n \in Nat
  PROVE  \E f : IsFilled(f, b, written, ns, n)
<1> DEFINE T == {k \in Nat : ~ \E f : IsFilled(f, b, written, ns, k)}
<1>1. CASE T # {}
  <2>1. PICK k \in T : \A j \in T : k <= j
    <3>1. T \subseteq Nat
      OBVIOUS
    <3> HIDE DEF T
    <3> QED BY <1>1, <3>1, LeastOf
  <2>2. k \in Nat /\ ~ \E f : IsFilled(f, b, written, ns, k)
    OBVIOUS
  <2>3. CASE k = 0
    <3> DEFINE f == [i \in 0..0 |-> b]
    <3>1. \A i \in 0..0 : i = 0
      OBVIOUS
    <3>2. f = [i \in 0..0 |-> IF i = 0 THEN b
                ELSE AppendPacket(f[i - 1], ns[i], written[ns[i]])]
      BY <3>1, Zenon
    <3>3. IsFilled(f, b, written, ns, 0)
      BY <3>2, Zenon DEF IsFilled
    <3> QED BY <2>2, <2>3, <3>3
  <2>4. CASE k # 0
    <3>1. k - 1 \in Nat /\ ~(k <= k - 1)
      BY <2>2, <2>4
    <3>2. k - 1 \notin T
      BY <2>1, <3>1
    <3>3. PICK f : IsFilled(f, b, written, ns, k - 1)
      BY <3>1, <3>2
    <3>0. f = [i \in 0..(k-1) |-> IF i = 0 THEN b
                 ELSE AppendPacket(f[i - 1], ns[i], written[ns[i]])]
      BY <3>3, Zenon DEF IsFilled
    <3>4. \A i \in 0..(k-1) :
            f[i] = IF i = 0 THEN b
                   ELSE AppendPacket(f[i - 1], ns[i], written[ns[i]])
      BY <3>0, Zenon
    <3> DEFINE last == AppendPacket(f[k - 1], ns[k], written[ns[k]])
               g == [i \in 0..k |-> IF i \in 0..(k-1) THEN f[i] ELSE last]
    <3>5. /\ \A i \in 0..k : i \notin 0..(k-1) => i = k
          /\ \A i \in 0..k : i # 0 => i - 1 \in 0..(k-1) /\ i - 1 \in 0..k
          /\ k # 0
      BY <2>2, <2>4
    <3>6. \A i \in 0..k : i # 0 => g[i - 1] = f[i - 1]
      BY <3>5, Zenon
    <3>7. ASSUME NEW i \in 0..k
          PROVE  (IF i \in 0..(k-1) THEN f[i] ELSE last)
                   = IF i = 0 THEN b
                     ELSE AppendPacket(g[i - 1], ns[i], written[ns[i]])
      <4>1. CASE i \in 0..(k-1)
        <5> HIDE DEF g, last
        <5> QED BY <3>4, <3>6, <4>1, Zenon
      <4>2. CASE i \notin 0..(k-1)
        <5>1. i = k /\ i # 0
          BY <3>5, <4>2
        <5>2. g[i - 1] = f[k - 1]
          BY <3>6, <5>1, Zenon
        <5> HIDE DEF g
        <5> QED BY <4>2, <5>1, <5>2, Zenon DEF last
      <4> QED BY <4>1, <4>2
    <3>8. g = [i \in 0..k |-> IF i = 0 THEN b
                ELSE AppendPacket(g[i - 1], ns[i], written[ns[i]])]
      BY <3>7, Zenon
    <3> HIDE DEF g
    <3>9. IsFilled(g, b, written, ns, k)
      BY <3>8, Zenon DEF IsFilled
    <3> QED BY <2>2, <3>9
  <2> QED BY <2>3, <2>4
<1>2. CASE T = {}
  BY <1>2
<1> QED BY <1>1, <1>2

\* Append keeps a buffer in order, and ends it with the packets appended.
LEMMA AppendAllOK ==
  ASSUME NEW exact \in BOOLEAN, NEW written \in Seq(Kinds), NEW b,
         NEW ns \in Seq(1..Len(written)), ns # <<>>, Run(TRUE, ns),
         BufferOK(exact, b, written),
         b.packets # <<>> => Follows(exact, LastOf(b), ns[1])
  PROVE  /\ BufferOK(exact, AppendAll(b, written, ns), written)
         /\ AppendAll(b, written, ns).packets # <<>>
              => LastOf(AppendAll(b, written, ns)) = Newest(ns)
<1> DEFINE f == CHOOSE h : IsFilled(h, b, written, ns, Len(ns))
<1>1. /\ Len(ns) \in Nat /\ Len(ns) # 0 /\ Len(written) \in Nat
      /\ \A i \in 1..Len(ns) : ns[i] \in 1..Len(written)
  OBVIOUS
<1>2. AppendAll(b, written, ns) = f[Len(ns)]
  BY Zenon DEF AppendAll, IsFilled
<1>3. IsFilled(f, b, written, ns, Len(ns))
  BY <1>1, FilledExists, Zenon
<1> HIDE DEF f
<1>4. f = [i \in 0..Len(ns) |->
             IF i = 0 THEN b
             ELSE AppendPacket(f[i - 1], ns[i], written[ns[i]])]
  BY <1>3, Zenon DEF IsFilled
<1>5. \A i \in 0..Len(ns) :
        f[i] = IF i = 0 THEN b
               ELSE AppendPacket(f[i - 1], ns[i], written[ns[i]])
  BY <1>4, Zenon
<1> DEFINE Good(i) == /\ BufferOK(exact, f[i], written)
                      /\ i # 0 /\ f[i].packets # <<>> => LastOf(f[i]) = ns[i]
           T == {i \in 0..Len(ns) : ~Good(i)}
<1>6. CASE T # {}
  <2>1. PICK i \in T : \A j \in T : i <= j
    <3>1. T \subseteq Nat
      BY <1>1
    <3> HIDE DEF T
    <3> QED BY <1>6, <3>1, LeastOf
  <2>2. i \in 0..Len(ns) /\ ~Good(i)
    OBVIOUS
  <2>3. i # 0
    <3>1. CASE i = 0
      <4>1. f[i] = b
        BY <1>5, <2>2, <3>1, Zenon
      <4> QED BY <2>2, <3>1, <4>1
    <3> QED BY <3>1
  <2>4. i - 1 \in 0..Len(ns) /\ ~(i <= i - 1) /\ i \in 1..Len(ns)
    BY <1>1, <2>2, <2>3
  <2>5. Good(i - 1)
    BY <2>1, <2>4
  <2>6. f[i] = AppendPacket(f[i - 1], ns[i], written[ns[i]])
    BY <1>5, <2>2, <2>3, Zenon
  <2>7. f[i - 1].packets # <<>> => Follows(exact, LastOf(f[i - 1]), ns[i])
    <3>1. CASE i = 1
      <4>1. 0 \in 0..Len(ns) /\ i - 1 = 0
        BY <1>1, <3>1
      <4>2. f[i - 1] = b
        BY <1>5, <4>1, Zenon
      <4> QED BY <3>1, <4>2
    <3>2. CASE i # 1
      <4>1. i - 1 \in 1..Len(ns) /\ i - 1 < i /\ i - 1 # 0 /\ i - (i - 1) = 1
        BY <1>1, <2>4, <3>2
      <4>2. ns[i] = ns[i - 1] + 1 /\ ns[i] \in Nat /\ ns[i - 1] \in Nat
        BY <1>1, <2>4, <4>1 DEF Run
      <4>3. f[i - 1].packets # <<>> => LastOf(f[i - 1]) = ns[i - 1]
        BY <2>5, <4>1
      <4> QED BY <4>2, <4>3 DEF Follows
    <3> QED BY <3>1, <3>2
  <2>8. BufferOK(exact, f[i - 1], written) /\ ns[i] \in 1..Len(written)
    BY <1>1, <2>4, <2>5
  <2> DEFINE next == AppendPacket(f[i - 1], ns[i], written[ns[i]])
  <2>9. /\ BufferOK(exact, next, written)
        /\ next.packets # <<>> => LastOf(next) = ns[i]
    <3> DEFINE before == f[i - 1]
               number == ns[i]
    <3>1. /\ BufferOK(exact, before, written) /\ number \in 1..Len(written)
          /\ before.packets # <<>> => Follows(exact, LastOf(before), number)
      BY <2>7, <2>8
    <3> HIDE DEF before, number
    <3>2. /\ BufferOK(exact, AppendPacket(before, number, written[number]), written)
          /\ AppendPacket(before, number, written[number]).packets # <<>>
               => LastOf(AppendPacket(before, number, written[number])) = number
      BY <3>1, AppendPacketOK
    <3> QED BY <3>2 DEF before, number
  <2>10. f[i] = next
    BY <2>6
  <2> HIDE DEF next
  <2>11. Good(i)
    BY <2>9, <2>10
  <2> QED BY <2>2, <2>11
<1>7. CASE T = {}
  <2>1. Len(ns) \in 0..Len(ns)
    BY <1>1
  <2>2. Good(Len(ns))
    BY <1>7, <2>1
  <2> QED BY <1>1, <1>2, <2>2 DEF Newest
<1> QED BY <1>6, <1>7

\* A snapshot is the end of the buffer, and a recording can start on it.
LEMMA SnapshotOK ==
  ASSUME NEW exact \in BOOLEAN, NEW written \in Seq(Kinds), NEW b,
         BufferOK(exact, b, written), Snapshot(b) # <<>>
  PROVE  /\ Snapshot(b) \in Seq(1..Len(written)) /\ Run(exact, Snapshot(b))
         /\ b.packets # <<>> /\ Newest(Snapshot(b)) = LastOf(b)
         /\ Starts(written, Snapshot(b))
<1> DEFINE p == b.packets
           n == Len(p)
           idr == Max(Positions(b, "idr"))
           pats == {i \in Positions(b, "pat") : i <= idr /\ idr - i < MaxBootstrap}
           start == Max(pats)
           s == Snapshot(b)
<1>1. /\ Positions(b, "idr") # {} /\ pats # {}
      /\ \E i \in Positions(b, "pmt") : start <= i /\ i <= idr
      /\ s = [i \in 1..(n - start + 1) |-> p[start + i - 1].at]
  BY Zenon DEF Snapshot
<1>2. p \in Seq(Packets) /\ n \in Nat
  BY DEF BufferOK, Buffers, Packets
<1>3. idr \in 1..n /\ p[idr].kind = "idr"
  <2>1. Positions(b, "idr") \subseteq 1..n
    BY DEF Positions
  <2>2. idr \in Positions(b, "idr")
    BY <1>1, <1>2, <2>1, GreatestOf
  <2> QED BY <2>2 DEF Positions
<1>4. start \in 1..n /\ p[start].kind = "pat" /\ start <= idr
  <2>1. pats \subseteq 1..n
    BY DEF Positions
  <2>2. start \in pats
    <3> HIDE DEF pats
    <3> QED BY <1>1, <1>2, <2>1, GreatestOf
  <2> QED BY <2>2 DEF Positions
<1>5. PICK pmt \in 1..n : p[pmt].kind = "pmt" /\ start <= pmt /\ pmt <= idr
  BY <1>1 DEF Positions
<1> DEFINE m == n - start + 1
<1>6. Tells(exact, p, written)
  BY DEF BufferOK
<1> HIDE DEF s, start, idr, pats
<1>7. /\ m \in Nat /\ m \in 1..m /\ start + m - 1 = n
      /\ \A i \in 1..m : start + i - 1 \in 1..n
      /\ \A i, j \in 1..m : i < j => /\ start + i - 1 < start + j - 1
                                     /\ (start + j - 1) - (start + i - 1) = j - i
  <2> HIDE DEF p
  <2> HIDE DEF n
  <2>1. n \in Nat /\ start \in Nat /\ start >= 1 /\ start <= n
    BY <1>2, <1>4
  <2> QED BY <2>1
<1>8. s = [i \in 1..m |-> p[start + i - 1].at]
  BY <1>1
<1>9. \A i \in 1..m : p[start + i - 1].at \in 1..Len(written)
  BY <1>6, <1>7 DEF Tells
<1> HIDE DEF m, p, n
<1>10. s \in Seq(1..Len(written)) /\ Len(s) = m /\ \A i \in 1..m : s[i] = p[start + i - 1].at
  BY <1>7, <1>8, <1>9
<1>11. Run(exact, s)
  <2> SUFFICES ASSUME NEW i \in 1..m, NEW j \in 1..m, i < j
               PROVE  IF exact THEN s[j] = s[i] + (j - i) ELSE s[i] < s[j]
    BY <1>10 DEF Run
  <2>1. IF exact
        THEN p[start + j - 1].at
               = p[start + i - 1].at + ((start + j - 1) - (start + i - 1))
        ELSE p[start + i - 1].at < p[start + j - 1].at
    BY <1>6, <1>7 DEF Tells, n
  <2> QED BY <1>7, <1>10, <2>1
<1>12. p # <<>> /\ Newest(s) = LastOf(b)
  <2>1. p # <<>> /\ s[m] = p[n].at
    BY <1>2, <1>3, <1>7, <1>10 DEF n
  <2> QED BY <1>10, <2>1 DEF Newest, LastOf, p, n
<1>13. Starts(written, s)
  <2> DEFINE i == pmt - start + 1
             j == idr - start + 1
  <2>1. pmt # idr /\ pmt # start
    BY <1>3, <1>4, <1>5
  <2>2. /\ i \in 1..m /\ j \in 1..m /\ i < j /\ 1 \in 1..m
        /\ start + i - 1 = pmt /\ start + j - 1 = idr /\ start + 1 - 1 = start
    BY <1>2, <1>3, <1>4, <1>5, <2>1 DEF m
  <2>3. written[p[start].at] = "pat" /\ written[p[pmt].at] = "pmt"
        /\ written[p[idr].at] = "idr"
    BY <1>3, <1>4, <1>5, <1>6 DEF Tells, n
  <2>4. s[1] = p[start].at /\ s[i] = p[pmt].at /\ s[j] = p[idr].at
    <3> HIDE DEF i, j
    <3> QED BY <1>10, <2>2
  <2>5. s # <<>>
    BY <1>7, <1>10
  <2> HIDE DEF i, j
  <2> QED BY <1>10, <2>2, <2>3, <2>4, <2>5 DEF Starts
<1> QED BY <1>10, <1>11, <1>12, <1>13 DEF p, s

-----------------------------------------------------------------------------
(* What waits for a reader and what it has taken.                          *)

LEMMA LogGrows ==
  ASSUME NEW old \in Seq(Kinds), NEW written \in Seq(Kinds),
         Len(old) <= Len(written), \A i \in 1..Len(old) : written[i] = old[i]
  PROVE  /\ \A exact \in BOOLEAN : \A waiting, got :
              Pipe(exact, old, waiting, got) => Pipe(exact, written, waiting, got)
         /\ \A exact \in BOOLEAN : \A b :
              BufferOK(exact, b, old) => BufferOK(exact, b, written)
<1>0. 1..Len(old) \subseteq 1..Len(written)
  OBVIOUS
<1>1. \A s \in Seq(1..Len(old)) : s \in Seq(1..Len(written))
  BY <1>0
<1>2. \A s \in Seq(Seq(1..Len(old))) : s \in Seq(Seq(1..Len(written)))
  <2>1. Seq(1..Len(old)) \subseteq Seq(1..Len(written))
    BY <1>1
  <2> QED BY <2>1
<1>3. \A s \in Seq(1..Len(old)) : Starts(old, s) => Starts(written, s)
  <2> SUFFICES ASSUME NEW s \in Seq(1..Len(old)), Starts(old, s)
               PROVE  Starts(written, s)
    OBVIOUS
  <2>1. \A i \in 1..Len(s) : s[i] \in 1..Len(old) /\ written[s[i]] = old[s[i]]
    OBVIOUS
  <2>2. 1 \in 1..Len(s)
    BY DEF Starts
  <2> QED BY <2>1, <2>2 DEF Starts
<1>4. ASSUME NEW exact \in BOOLEAN, NEW waiting, NEW got,
             Pipe(exact, old, waiting, got)
      PROVE  Pipe(exact, written, waiting, got)
  <2>1. waiting # <<>> => waiting[1] \in Seq(1..Len(old))
    BY <1>4 DEF Pipe
  <2>2. exact => /\ got # <<>> => Starts(written, got)
                 /\ got = <<>> /\ waiting # <<>> => Starts(written, waiting[1])
    BY <1>3, <1>4, <2>1 DEF Pipe
  <2>3. got \in Seq(1..Len(written)) /\ waiting \in Seq(Seq(1..Len(written)))
    BY <1>1, <1>2, <1>4 DEF Pipe
  <2> QED BY <1>4, <2>2, <2>3 DEF Pipe
<1>5. ASSUME NEW exact \in BOOLEAN, NEW b, BufferOK(exact, b, old)
      PROVE  BufferOK(exact, b, written)
  BY <1>0, <1>5 DEF BufferOK, Tells
<1> QED BY <1>4, <1>5

LEMMA PipeFacts ==
  ASSUME NEW exact \in BOOLEAN, NEW written \in Seq(Kinds), NEW waiting, NEW got,
         Pipe(exact, written, waiting, got)
  PROVE  /\ Latest(waiting, got) \in 0..Len(written)
         /\ Latest(waiting, got) = 0 <=> waiting = <<>> /\ got = <<>>
         /\ \A i \in 1..Len(waiting) :
              /\ waiting[i] \in Seq(1..Len(written)) /\ waiting[i] # <<>>
              /\ Run(exact, waiting[i])
              /\ waiting[i][1] \in 1..Len(written)
              /\ Newest(waiting[i]) \in 1..Len(written)
              /\ waiting[i][1] <= Newest(waiting[i])
         /\ got # <<>> => Newest(got) \in 1..Len(written)
<1>1. Len(written) \in Nat /\ waiting \in Seq(Seq(1..Len(written)))
  BY DEF Pipe
<1>2. ASSUME NEW i \in 1..Len(waiting)
      PROVE  /\ waiting[i] \in Seq(1..Len(written)) /\ waiting[i] # <<>>
             /\ Run(exact, waiting[i])
             /\ waiting[i][1] \in 1..Len(written)
             /\ Newest(waiting[i]) \in 1..Len(written)
             /\ waiting[i][1] <= Newest(waiting[i])
  <2>1. /\ waiting[i] \in Seq(1..Len(written)) /\ waiting[i] # <<>>
        /\ Run(exact, waiting[i])
    BY <1>1 DEF Pipe
  <2> QED BY <1>1, <2>1, FirstLast
<1>3. got # <<>> => Newest(got) \in 1..Len(written)
  BY <1>1, FirstLast DEF Pipe
<1>4. waiting # <<>> => Len(waiting) \in 1..Len(waiting)
  BY <1>1
<1>5. waiting # <<>> => Newest(Newest(waiting)) \in 1..Len(written)
  BY <1>2, <1>4 DEF Newest
<1>6. 0 \in 0..Len(written) /\ \A m \in 1..Len(written) : m \in 0..Len(written) /\ m # 0
  BY <1>1
<1> QED BY <1>2, <1>3, <1>5, <1>6 DEF Latest

\* An interval is put behind what waits.
LEMMA PipePut ==
  ASSUME NEW exact \in BOOLEAN, NEW written \in Seq(Kinds), NEW waiting, NEW got,
         Pipe(exact, written, waiting, got),
         NEW x \in Seq(1..Len(written)), x # <<>>, Run(exact, x),
         Latest(waiting, got) # 0 => Follows(exact, Latest(waiting, got), x[1]),
         exact /\ Latest(waiting, got) = 0 => Starts(written, x)
  PROVE  /\ Pipe(exact, written, Append(waiting, x), got)
         /\ Latest(Append(waiting, x), got) = Newest(x)
<1> DEFINE q == Append(waiting, x)
           S == Seq(1..Len(written))
<1>1. waiting \in Seq(S) /\ got \in S /\ Run(exact, got) /\ x \in S
  BY DEF Pipe
<1> HIDE DEF S
<1>2. /\ q \in Seq(S) /\ Len(q) = Len(waiting) + 1 /\ Len(waiting) \in Nat
      /\ \A i \in 1..Len(waiting) : q[i] = waiting[i]
      /\ q[Len(waiting) + 1] = x /\ q # <<>>
      /\ waiting # <<>> => Len(waiting) \in 1..Len(waiting) /\ 1 \in 1..Len(waiting)
      /\ waiting = <<>> => Len(waiting) = 0
  <2>1. /\ q \in Seq(S) /\ Len(q) = Len(waiting) + 1 /\ Len(waiting) \in Nat
        /\ \A i \in 1..Len(waiting) : q[i] = waiting[i]
        /\ q[Len(waiting) + 1] = x
    BY <1>1
  <2>2. q # <<>>
    <3> HIDE DEF q
    <3>1. Len(<<>>) = 0
      OBVIOUS
    <3> QED BY <2>1, <3>1
  <2>3. /\ waiting # <<>> => Len(waiting) \in 1..Len(waiting) /\ 1 \in 1..Len(waiting)
        /\ waiting = <<>> => Len(waiting) = 0
    BY <1>1
  <2> QED BY <2>1, <2>2, <2>3
<1> HIDE DEF q
<1>3. \A i \in 1..Len(q) : q[i] # <<>> /\ Run(exact, q[i])
  <2> SUFFICES ASSUME NEW i \in 1..Len(q) PROVE q[i] # <<>> /\ Run(exact, q[i])
    OBVIOUS
  <2>1. i \in 1..Len(waiting) \/ i = Len(waiting) + 1
    BY <1>2
  <2> QED BY <1>2, <2>1 DEF Pipe
<1>4. \A i \in 1..Len(q) - 1 : Follows(exact, Newest(q[i]), q[i + 1][1])
  <2> SUFFICES ASSUME NEW i \in 1..Len(q) - 1
               PROVE  Follows(exact, Newest(q[i]), q[i + 1][1])
    OBVIOUS
  <2>1. i \in 1..Len(waiting)
    BY <1>2
  <2>2. CASE i = Len(waiting)
    <3>1. waiting # <<>>
      BY <1>2, <2>1
    <3>2. Latest(waiting, got) = Newest(q[i]) /\ q[i + 1] = x
      BY <1>2, <2>1, <2>2, <3>1 DEF Latest, Newest
    <3>3. Latest(waiting, got) # 0
      BY <3>1, PipeFacts
    <3> QED BY <3>2, <3>3
  <2>3. CASE i # Len(waiting)
    <3>1. i \in 1..Len(waiting) - 1 /\ i + 1 \in 1..Len(waiting)
      BY <1>2, <2>1, <2>3
    <3> QED BY <1>2, <2>1, <3>1 DEF Pipe
  <2> QED BY <2>2, <2>3
<1>5. q[1] = IF waiting = <<>> THEN x ELSE waiting[1]
  BY <1>2
<1>6. got # <<>> => Follows(exact, Newest(got), q[1][1])
  <2> SUFFICES ASSUME got # <<>> PROVE Follows(exact, Newest(got), q[1][1])
    OBVIOUS
  <2>1. CASE waiting = <<>>
    <3>1. Latest(waiting, got) = Newest(got) /\ Latest(waiting, got) # 0
      BY <2>1, PipeFacts DEF Latest
    <3> QED BY <1>5, <2>1, <3>1
  <2>2. CASE waiting # <<>>
    BY <1>5, <2>2 DEF Pipe
  <2> QED BY <2>1, <2>2
<1>7. exact => /\ got # <<>> => Starts(written, got)
               /\ got = <<>> => Starts(written, q[1])
  <2>1. got = <<>> /\ waiting = <<>> => Latest(waiting, got) = 0
    BY DEF Latest
  <2> QED BY <1>5, <2>1 DEF Pipe
<1>8. Latest(q, got) = Newest(x)
  BY <1>2 DEF Latest, Newest
<1>9. Pipe(exact, written, q, got)
  BY <1>1, <1>2, <1>3, <1>4, <1>6, <1>7 DEF Pipe, S
<1> QED BY <1>8, <1>9 DEF q

LEMMA TailFacts ==
  ASSUME NEW S, NEW q \in Seq(S), q # <<>>
  PROVE  /\ Tail(q) \in Seq(S) /\ Len(Tail(q)) = Len(q) - 1 /\ Len(q) \in Nat
         /\ Head(q) = q[1] /\ 1 \in 1..Len(q) /\ Len(q) \in 1..Len(q)
         /\ \A i \in 1..Len(Tail(q)) : i + 1 \in 1..Len(q) /\ Tail(q)[i] = q[i + 1]
         /\ Tail(q) # <<>> => /\ Tail(q)[Len(Tail(q))] = q[Len(q)]
                              /\ Tail(q)[1] = q[2] /\ 2 \in 1..Len(q)
                              /\ 1 \in 1..Len(q) - 1
         /\ Tail(q) = <<>> => Len(q) = 1
<1>1. /\ Tail(q) \in Seq(S) /\ Len(Tail(q)) = Len(q) - 1 /\ Len(q) \in Nat
      /\ Head(q) = q[1] /\ 1 \in 1..Len(q) /\ Len(q) \in 1..Len(q)
      /\ \A i \in 1..Len(Tail(q)) : i + 1 \in 1..Len(q) /\ Tail(q)[i] = q[i + 1]
  OBVIOUS
<1> DEFINE t == Tail(q)
<1>0. t \in Seq(S)
  BY <1>1
<1> HIDE DEF t
<1>2. t # <<>> => Len(t) \in 1..Len(t) /\ 1 \in 1..Len(t)
  BY <1>0
<1>3. t = <<>> => Len(t) = 0
  OBVIOUS
<1>4. t # <<>> => /\ t[Len(t)] = q[Len(t) + 1] /\ t[1] = q[1 + 1]
                  /\ 1 + 1 \in 1..Len(q)
  BY <1>1, <1>2 DEF t
<1>5. Len(t) + 1 = Len(q) /\ (1 + 1 \in 1..Len(q) => 1 \in 1..Len(q) - 1)
  BY <1>1 DEF t
<1> QED BY <1>1, <1>3, <1>4, <1>5 DEF t

\* The oldest interval is dropped from a channel that may drop.
LEMMA PipeDrop ==
  ASSUME NEW written \in Seq(Kinds), NEW waiting, NEW got,
         Pipe(FALSE, written, waiting, got), waiting # <<>>
  PROVE  /\ Pipe(FALSE, written, Tail(waiting), got)
         /\ Latest(Tail(waiting), got) <= Latest(waiting, got)
<1> DEFINE q == Tail(waiting)
           S == Seq(1..Len(written))
<1>1. waiting \in Seq(S) /\ got \in S /\ Run(FALSE, got)
  BY DEF Pipe
<1> HIDE DEF S
<1>2. /\ q \in Seq(S) /\ Len(q) = Len(waiting) - 1 /\ Len(waiting) \in Nat
      /\ 1 \in 1..Len(waiting) /\ Len(waiting) \in 1..Len(waiting)
      /\ \A i \in 1..Len(q) : i + 1 \in 1..Len(waiting) /\ q[i] = waiting[i + 1]
      /\ q # <<>> => /\ q[Len(q)] = waiting[Len(waiting)]
                     /\ q[1] = waiting[2] /\ 2 \in 1..Len(waiting)
                     /\ 1 \in 1..Len(waiting) - 1
      /\ q = <<>> => Len(waiting) = 1
  BY <1>1, TailFacts
<1> HIDE DEF q
<1>3. \A i \in 1..Len(q) : q[i] # <<>> /\ Run(FALSE, q[i])
  BY <1>2 DEF Pipe
<1>4. \A i \in 1..Len(q) - 1 : Follows(FALSE, Newest(q[i]), q[i + 1][1])
  <2> SUFFICES ASSUME NEW i \in 1..Len(q) - 1
               PROVE  Follows(FALSE, Newest(q[i]), q[i + 1][1])
    OBVIOUS
  <2>1. i \in 1..Len(q) /\ i + 1 \in 1..Len(q) /\ i + 1 \in 1..Len(waiting) - 1
    BY <1>2
  <2> QED BY <1>2, <2>1 DEF Pipe
<1>5. /\ waiting[1][1] \in Nat /\ Newest(waiting[1]) \in Nat
      /\ waiting[1][1] <= Newest(waiting[1])
      /\ got # <<>> => Newest(got) \in Nat /\ Newest(got) < waiting[1][1]
      /\ Len(written) \in Nat
  <2>1. Len(written) \in Nat /\ \A m \in 1..Len(written) : m \in Nat
    OBVIOUS
  <2>2. got # <<>> => Newest(got) < waiting[1][1]
    BY DEF Pipe, Follows
  <2> QED BY <1>2, <2>1, <2>2, PipeFacts
<1>6. got # <<>> /\ q # <<>> => Follows(FALSE, Newest(got), q[1][1])
  <2> SUFFICES ASSUME got # <<>>, q # <<>> PROVE Newest(got) < q[1][1]
    BY DEF Follows
  <2>1. Newest(waiting[1]) < waiting[2][1]
    <3>1. Follows(FALSE, Newest(waiting[1]), waiting[1 + 1][1])
      BY <1>2 DEF Pipe
    <3> QED BY <3>1 DEF Follows
  <2>2. waiting[2][1] \in Nat
    <3>1. \A m \in 1..Len(written) : m \in Nat
      BY <1>5
    <3> QED BY <1>2, <3>1, PipeFacts
  <2>3. \A x, y, z, u \in Nat : x < y /\ y <= z /\ z < u => x < u
    OBVIOUS
  <2> QED BY <1>2, <1>5, <2>1, <2>2, <2>3
<1>7. Latest(q, got) <= Latest(waiting, got)
  <2>1. CASE q # <<>>
    <3>1. Latest(q, got) = Latest(waiting, got)
      BY <1>2, <2>1 DEF Latest, Newest
    <3>2. Latest(waiting, got) \in 0..Len(written)
      BY PipeFacts
    <3>3. \A m \in 0..Len(written) : m \in Nat
      BY <1>5
    <3> QED BY <3>1, <3>2, <3>3
  <2>2. CASE q = <<>>
    <3>1. Latest(waiting, got) = Newest(waiting[1])
      BY <1>2, <2>2 DEF Latest, Newest
    <3>2. Latest(q, got) = IF got # <<>> THEN Newest(got) ELSE 0
      BY <2>2 DEF Latest
    <3> QED BY <1>5, <3>1, <3>2
  <2> QED BY <2>1, <2>2
<1>8. Pipe(FALSE, written, q, got)
  BY <1>1, <1>2, <1>3, <1>4, <1>6 DEF Pipe, S
<1> QED BY <1>7, <1>8 DEF q

\* A reader takes the interval that waited longest.
LEMMA PipeTake ==
  ASSUME NEW exact \in BOOLEAN, NEW written \in Seq(Kinds), NEW waiting, NEW got,
         Pipe(exact, written, waiting, got), waiting # <<>>
  PROVE  /\ Pipe(exact, written, Tail(waiting), got \o Head(waiting))
         /\ Latest(Tail(waiting), got \o Head(waiting)) = Latest(waiting, got)
         /\ got \o Head(waiting) # <<>> /\ Head(waiting) # <<>>
         /\ Head(waiting) \in Seq(1..Len(written))
<1> DEFINE q == Tail(waiting)
           S == Seq(1..Len(written))
           x == Head(waiting)
           took == got \o x
<1>1. waiting \in Seq(S) /\ got \in S /\ Run(exact, got)
  BY DEF Pipe
<1> HIDE DEF S
<1>2. /\ q \in Seq(S) /\ Len(q) = Len(waiting) - 1 /\ Len(waiting) \in Nat
      /\ x = waiting[1]
      /\ 1 \in 1..Len(waiting) /\ Len(waiting) \in 1..Len(waiting)
      /\ \A i \in 1..Len(q) : i + 1 \in 1..Len(waiting) /\ q[i] = waiting[i + 1]
      /\ q # <<>> => /\ q[Len(q)] = waiting[Len(waiting)]
                     /\ q[1] = waiting[2] /\ 2 \in 1..Len(waiting)
                     /\ 1 \in 1..Len(waiting) - 1
      /\ q = <<>> => Len(waiting) = 1
  BY <1>1, TailFacts
<1> HIDE DEF q, x
<1>3. \A i \in 1..Len(q) : q[i] # <<>> /\ Run(exact, q[i])
  BY <1>2 DEF Pipe
<1>4. \A i \in 1..Len(q) - 1 : Follows(exact, Newest(q[i]), q[i + 1][1])
  <2> SUFFICES ASSUME NEW i \in 1..Len(q) - 1
               PROVE  Follows(exact, Newest(q[i]), q[i + 1][1])
    OBVIOUS
  <2>1. i \in 1..Len(q) /\ i + 1 \in 1..Len(q) /\ i + 1 \in 1..Len(waiting) - 1
    BY <1>2
  <2> QED BY <1>2, <2>1 DEF Pipe
<1>5. /\ x \in Seq(1..Len(written)) /\ x # <<>> /\ Run(exact, x)
      /\ got # <<>> => Follows(exact, Newest(got), x[1])
      /\ Len(written) \in Nat /\ got \in Seq(1..Len(written))
  BY <1>1, <1>2, PipeFacts DEF Pipe, S
<1>6. /\ took \in Seq(1..Len(written)) /\ took # <<>>
      /\ Run(exact, took) /\ Newest(took) = Newest(x)
      /\ got = <<>> => took = x
  BY <1>1, <1>5, RunConcat
<1>7. exact => Starts(written, took)
  <2> SUFFICES ASSUME exact PROVE Starts(written, took)
    OBVIOUS
  <2>1. CASE got = <<>>
    BY <1>2, <1>6, <2>1 DEF Pipe
  <2>2. CASE got # <<>>
    <3>1. Starts(written, got)
      BY <2>2 DEF Pipe
    <3>2. /\ Len(got) \in Nat /\ Len(took) \in Nat /\ Len(got) <= Len(took)
          /\ \A i \in 1..Len(got) : i \in 1..Len(took) /\ took[i] = got[i]
          /\ 1 \in 1..Len(got)
      BY <1>5, <2>2
    <3> HIDE DEF took
    <3> QED BY <1>6, <3>1, <3>2 DEF Starts
  <2> QED BY <2>1, <2>2
<1> HIDE DEF took
<1>8. q # <<>> => Follows(exact, Newest(took), q[1][1])
  <2> SUFFICES ASSUME q # <<>> PROVE Follows(exact, Newest(took), q[1][1])
    OBVIOUS
  <2>1. Follows(exact, Newest(waiting[1]), waiting[1 + 1][1])
    BY <1>2 DEF Pipe
  <2> QED BY <1>2, <1>6, <2>1
<1>9. Latest(q, took) = Latest(waiting, got)
  <2>1. CASE q # <<>>
    BY <1>2, <2>1 DEF Latest, Newest
  <2>2. CASE q = <<>>
    <3>1. Latest(waiting, got) = Newest(waiting[1])
      BY <1>2, <2>2 DEF Latest, Newest
    <3> QED BY <1>2, <1>6, <2>2, <3>1 DEF Latest
  <2> QED BY <2>1, <2>2
<1>10. Pipe(exact, written, q, took)
  BY <1>1, <1>2, <1>3, <1>4, <1>6, <1>7, <1>8 DEF Pipe, S
<1> QED BY <1>5, <1>6, <1>9, <1>10 DEF q, took, x

-----------------------------------------------------------------------------
(* The steps.                                                              *)

LEMMA PipeTypes ==
  ASSUME NEW exact, NEW written \in Seq(Kinds), NEW waiting, NEW got,
         Pipe(exact, written, waiting, got)
  PROVE  waiting \in Seq(Seq(Nat)) /\ got \in Seq(Nat)
<1>1. 1..Len(written) \subseteq Nat
  OBVIOUS
<1>2. Seq(1..Len(written)) \subseteq Seq(Nat)
  BY <1>1
<1>3. Seq(Seq(1..Len(written))) \subseteq Seq(Seq(Nat))
  BY <1>2
<1> QED BY <1>2, <1>3 DEF Pipe

LEMMA ExactIsBoolean == \A c : Exact(c) \in BOOLEAN
<1> SUFFICES ASSUME NEW c PROVE Exact(c) \in BOOLEAN
  OBVIOUS
<1>1. CASE c \in LossIntolerant
  <2>1. Exact(c) = TRUE
    BY <1>1 DEF Exact
  <2> QED BY <2>1
<1>2. CASE c \notin LossIntolerant
  <2>1. Exact(c) = FALSE
    BY <1>2 DEF Exact
  <2> QED BY <2>1
<1> QED BY <1>1, <1>2

\* Numbers that the steps compare.
LEMMA Numbers ==
  ASSUME Shape, ChunkInv, ReadersInv
  PROVE  /\ Len(log) \in Nat
         /\ todo # {} => chunk[1] \in 1..Len(log)
         /\ \A c \in Consumers :
              /\ Latest(channel[c], taken[c]) \in 0..Len(log)
              /\ LastOf(aligning[c]) \in 0..Len(log)
<1>1. Len(log) \in Nat
  BY DEF Shape
<1>2. ASSUME todo # {} PROVE chunk[1] \in 1..Len(log)
  <2>1. chunk \in Seq(1..Len(log)) /\ chunk # <<>>
    BY <1>2 DEF ChunkInv
  <2> QED BY <2>1
<1>3. ASSUME NEW c \in Consumers
      PROVE  Latest(channel[c], taken[c]) \in 0..Len(log)
  <2>1. Pipe(Exact(c), log, channel[c], taken[c]) /\ log \in Seq(Kinds)
    BY DEF ReadersInv, ReaderOK, Shape
  <2>2. Exact(c) \in BOOLEAN
    BY ExactIsBoolean
  <2> QED BY <2>1, <2>2, PipeFacts
<1>4. ASSUME NEW c \in Consumers PROVE LastOf(aligning[c]) \in 0..Len(log)
  <2> DEFINE p == aligning[c].packets
  <2>1. p \in Seq(Packets) /\ Tells(FALSE, p, log)
    BY DEF ReadersInv, ReaderOK, BufferOK, Buffers, Packets
  <2>2. p # <<>> => Len(p) \in 1..Len(p)
    <3> HIDE DEF p
    <3> QED BY <2>1
  <2>3. p # <<>> => p[Len(p)].at \in 1..Len(log)
    BY <2>1, <2>2 DEF Tells
  <2>4. 0 \in 0..Len(log) /\ \A m \in 1..Len(log) : m \in 0..Len(log)
    BY <1>1
  <2> QED BY <2>3, <2>4 DEF LastOf, Newest
<1> QED BY <1>1, <1>2, <1>3, <1>4

\* A consumer stays, leaves, or asks to join; a recording that is registered
\* while the pump runs was so before and has not been passed over.
Moves(d) ==
  /\ \/ pc'[d] \in {pc[d], "gone"}
     \/ pc[d] = "outside" /\ pc'[d] = "polling"
     \/ pc[d] = "outside" /\ pc'[d] = "aligning" /\ d \in LiveAligned
  /\ d \in LossIntolerant /\ d \in consumers' =>
       /\ d \in consumers
       /\ pump' # "stopped" => pump # "stopped" /\ (d \in todo => d \in todo')

\* A step that gives a consumer nothing.
LEMMA Kept ==
  ASSUME NEW d \in Consumers, ReaderOK(d), UNCHANGED <<log, chunk>>,
         channel'[d] = channel[d], taken'[d] = taken[d],
         aligning'[d] = aligning[d],
         Moves(d), d \in todo' => d \in todo
  PROVE  ReaderOK(d)'
  BY DEF ReaderOK, Exact, Moves

LEMMA KeptAll ==
  ASSUME ReadersInv, ChunkInv,
         UNCHANGED <<log, chunk, channel, taken, aligning>>,
         todo' \subseteq todo, \A d \in Consumers : Moves(d)
  PROVE  ReadersInv' /\ ChunkInv'
<1>1. ASSUME NEW d \in Consumers PROVE ReaderOK(d)'
  BY Kept DEF ReadersInv
<1> QED BY <1>1 DEF ReadersInv, ChunkInv

\* TryWrite to the channel of a consumer that may lose packets.
LEMMA Offered ==
  ASSUME NEW c \in Consumers, c \notin LossIntolerant, Shape, ReaderOK(c),
         NEW x \in Seq(1..Len(log)), x # <<>>, Run(FALSE, x),
         Latest(channel[c], taken[c]) < x[1], OfferLossy(c, x)
  PROVE  /\ channel' \in [Consumers -> Seq(Seq(Nat))]
         /\ \A d \in Consumers \ {c} : channel'[d] = channel[d]
         /\ Pipe(FALSE, log, channel'[c], taken[c])
         /\ Len(channel'[c]) <= Capacity
<1> DEFINE q == channel[c]
           room == IF Len(q) = Capacity THEN Tail(q) ELSE q
<1>1. Pipe(FALSE, log, q, taken[c]) /\ Len(q) <= Capacity /\ Exact(c) = FALSE
  <2>1. Exact(c) = FALSE
    BY DEF Exact
  <2>2. Pipe(Exact(c), log, channel[c], taken[c]) /\ Len(channel[c]) <= Capacity
    BY DEF ReaderOK
  <2> QED BY <2>1, <2>2
<1>2. CASE c \in closed
  BY <1>1, <1>2 DEF OfferLossy, Shape
<1>3. CASE c \notin closed
  <2>0. channel' = [channel EXCEPT ![c] = Append(room, x)]
    BY <1>3, Zenon DEF OfferLossy
  <2>1. q \in Seq(Seq(Nat)) /\ Capacity \in Nat /\ Capacity # 0
    BY DispatchAssumption DEF Shape
  <2>2. /\ Len(q) \in Nat /\ (q = <<>> => Len(q) = 0)
        /\ q # <<>> => Len(Tail(q)) = Len(q) - 1
    BY <2>1
  <2>3. Len(log) \in Nat /\ log \in Seq(Kinds)
    BY DEF Shape
  <2>4. x[1] \in 1..Len(log)
    BY <2>3, FirstLast
  <2>5. Latest(q, taken[c]) \in 0..Len(log)
    BY <1>1, <2>3, PipeFacts
  <2>6. /\ Pipe(FALSE, log, room, taken[c]) /\ Latest(room, taken[c]) < x[1]
        /\ Len(room) \in Nat /\ Len(room) + 1 <= Capacity
    <3>1. CASE Len(q) = Capacity
      <4>1. q # <<>>
        BY <2>1, <2>2, <3>1
      <4>2. /\ Pipe(FALSE, log, Tail(q), taken[c])
            /\ Latest(Tail(q), taken[c]) <= Latest(q, taken[c])
        BY <1>1, <2>3, <4>1, PipeDrop
      <4>3. Latest(Tail(q), taken[c]) \in 0..Len(log)
        BY <2>3, <4>2, PipeFacts
      <4>4. Latest(Tail(q), taken[c]) < x[1]
        <5> HIDE DEF q
        <5>1. \A a, b, d \in Nat : a <= b /\ b < d => a < d
          OBVIOUS
        <5>2. /\ Latest(Tail(q), taken[c]) \in Nat /\ Latest(q, taken[c]) \in Nat
              /\ x[1] \in Nat
          BY <2>3, <2>4, <2>5, <4>3
        <5> QED BY <4>2, <5>1, <5>2 DEF q
      <4>5. room = Tail(q) /\ Len(Tail(q)) \in Nat /\ Len(Tail(q)) + 1 <= Capacity
        <5> HIDE DEF q
        <5> QED BY <2>1, <2>2, <3>1, <4>1
      <4> QED
        <5> HIDE DEF room
        <5> QED BY <4>2, <4>4, <4>5
    <3>2. CASE Len(q) # Capacity
      <4>1. room = q
        BY <3>2
      <4>2. Len(q) \in Nat /\ Len(q) + 1 <= Capacity
        <5> HIDE DEF q
        <5> QED BY <1>1, <2>1, <2>2, <3>2 DEF q
      <4>3. Latest(q, taken[c]) < x[1]
        OBVIOUS
      <4> QED
        <5> HIDE DEF room
        <5> QED BY <1>1, <4>1, <4>2, <4>3
    <3> QED BY <3>1, <3>2
  <2> HIDE DEF room
  <2>7. Latest(room, taken[c]) \in 0..Len(log)
    BY <2>3, <2>6, PipeFacts
  <2>8. Pipe(FALSE, log, Append(room, x), taken[c])
    <3>1. Follows(FALSE, Latest(room, taken[c]), x[1])
      BY <2>6 DEF Follows
    <3> QED BY <2>3, <2>6, <3>1, PipePut
  <2>9. Append(room, x) \in Seq(Seq(Nat)) /\ Len(Append(room, x)) <= Capacity
    <3>1. Append(room, x) \in Seq(Seq(Nat))
      BY <2>3, <2>8, PipeTypes
    <3>2. room \in Seq(Seq(Nat))
      BY <2>3, <2>6, PipeTypes
    <3>3. Len(Append(room, x)) = Len(room) + 1
      BY <3>2
    <3> QED BY <2>6, <3>1, <3>3
  <2>10. /\ channel' \in [Consumers -> Seq(Seq(Nat))]
         /\ channel'[c] = Append(room, x)
         /\ \A d \in Consumers \ {c} : channel'[d] = channel[d]
    BY <2>0, <2>9 DEF Shape
  <2> QED BY <2>8, <2>9, <2>10
<1> QED BY <1>2, <1>3

\* The steps that put nothing into a channel.
LEMMA QuietStep ==
  ASSUME FeedInv, NEW c \in Consumers,
         Acquire(c) \/ GiveUp(c) \/ Close(c) \/ Leave(c) \/ Complete(c)
  PROVE  Shape' /\ ChunkInv' /\ BootstrapInv' /\ StoppedInv' /\ ReadersInv'
<1>1. /\ UNCHANGED <<log, firsts, pump, chunk, todo, bootstrap, channel,
                     aligning, taken>>
      /\ condemned' = condemned \/ (condemned' = condemned \ {c}
                                    /\ consumers' = consumers \ {c})
      /\ pump = "stopped" => consumers' \subseteq consumers
  BY DEF Acquire, GiveUp, Close, Leave, Complete, Detach, sourceVars, pumpVars
<1>2. ASSUME NEW d \in Consumers PROVE Moves(d)
  <2>1. \/ pc'[d] \in {pc[d], "gone"}
        \/ pc[d] = "outside" /\ pc'[d] = "polling"
        \/ pc[d] = "outside" /\ pc'[d] = "aligning" /\ d \in LiveAligned
    BY DEF FeedInv, LeaseInv, Acquire, GiveUp, Close, Leave, Complete
  <2>2. d \in LossIntolerant /\ d \in consumers' => d \in consumers
    BY DispatchAssumption
       DEF Acquire, GiveUp, Close, Leave, Complete, Detach
  <2> QED BY <1>1, <2>1, <2>2 DEF Moves
<1>3. ReadersInv' /\ ChunkInv'
  BY <1>1, <1>2, KeptAll DEF FeedInv
<1>4. Shape'
  BY <1>1 DEF FeedInv, Shape
<1>5. BootstrapInv'
  BY <1>1 DEF FeedInv, BootstrapInv
<1>6. StoppedInv'
  BY <1>1 DEF FeedInv, StoppedInv
<1> QED BY <1>3, <1>4, <1>5, <1>6

\* The launches of FFmpeg and their ends.
LEMMA LaunchStep ==
  ASSUME FeedInv, ProcessExits \/ EndOfStream \/ Teardown \/ Launch
  PROVE  Shape' /\ ChunkInv' /\ BootstrapInv' /\ StoppedInv' /\ ReadersInv'
<1>1. /\ UNCHANGED <<log, chunk, pc, consumers, channel, aligning, taken>>
      /\ todo' = todo \/ todo' = {}
      /\ bootstrap' = bootstrap \/ bootstrap' = EmptyBuffer
  BY DEF ProcessExits, EndOfStream, Teardown, Launch, sourceVars, leaseVars
<1>2. pump' # "stopped" =>
        todo' = todo /\ (pump # "stopped" \/ consumers = {})
  BY DEF FeedInv, StoppedInv, ProcessExits, EndOfStream, Teardown, Launch
<1>3. ReadersInv' /\ ChunkInv'
  <2>1. ASSUME NEW d \in Consumers PROVE Moves(d)
    <3>1. pc'[d] = pc[d] /\ consumers' = consumers
      BY <1>1
    <3>2. pump' # "stopped" /\ d \in consumers =>
            pump # "stopped" /\ (d \in todo => d \in todo')
      BY <1>2
    <3> QED BY <3>1, <3>2 DEF Moves
  <2>2. todo' \subseteq todo
    BY <1>1
  <2>3. UNCHANGED <<log, chunk, channel, taken, aligning>>
    BY <1>1
  <2>4. ReadersInv /\ ChunkInv
    BY DEF FeedInv
  <2> QED BY <2>1, <2>2, <2>3, <2>4, KeptAll
<1>4. Shape'
  <2>1. firsts' \subseteq Nat
    <3>1. firsts' = firsts \/ firsts' = firsts \cup {Len(log) + 1}
      BY DEF ProcessExits, EndOfStream, Teardown, Launch, sourceVars
    <3>2. Len(log) + 1 \in Nat /\ firsts \subseteq Nat
      BY DEF FeedInv, Shape
    <3> QED BY <3>1, <3>2
  <2>2. /\ pump' \in {"reading", "draining", "exited", "stopped", "faulted"}
        /\ condemned' \subseteq Consumers
    BY DispatchAssumption
       DEF FeedInv, Shape, LeaseInv, ProcessExits, EndOfStream, Teardown,
           Launch, leaseVars
  <2> QED BY <1>1, <2>1, <2>2 DEF FeedInv, Shape
<1>5. BootstrapInv'
  <2>1. CASE bootstrap' = bootstrap
    BY <1>1, <2>1 DEF FeedInv, BootstrapInv
  <2>2. CASE bootstrap' = EmptyBuffer
    <3>1. BufferOK(TRUE, EmptyBuffer, log)
      BY EmptyIsOK
    <3>2. EmptyBuffer.packets = <<>>
      BY DEF EmptyBuffer
    <3> QED BY <1>1, <2>2, <3>1, <3>2 DEF BootstrapInv
  <2> QED BY <1>1, <2>1, <2>2
<1>6. StoppedInv'
  BY DEF FeedInv, StoppedInv, ProcessExits, EndOfStream, Teardown, Launch,
         EmptyBuffer
<1> QED BY <1>3, <1>4, <1>5, <1>6

\* What the pump gives the reader c, and what it then still has of the chunk.
LEMMA Given ==
  ASSUME FeedInv, NEW c \in Consumers,
         UNCHANGED <<log, firsts, chunk, bootstrap, consumers, condemned, taken,
                     pump>>,
         todo' \subseteq todo, \A d \in Consumers \ {c} : d \in todo' <=> d \in todo,
         channel' \in [Consumers -> Seq(Seq(Nat))],
         aligning' \in [Consumers -> Buffers],
         \A d \in Consumers \ {c} : /\ channel'[d] = channel[d]
                                    /\ aligning'[d] = aligning[d]
                                    /\ pc'[d] = pc[d],
         ReaderOK(c)'
  PROVE  Shape' /\ ChunkInv' /\ BootstrapInv' /\ StoppedInv' /\ ReadersInv'
<1>1. ASSUME NEW d \in Consumers PROVE ReaderOK(d)'
  <2>1. CASE d = c
    BY <2>1
  <2>2. CASE d # c
    <3>1. /\ channel'[d] = channel[d] /\ aligning'[d] = aligning[d]
          /\ pc'[d] = pc[d] /\ (d \in todo' <=> d \in todo)
      BY <2>2
    <3>2. Moves(d)
      BY <3>1 DEF Moves
    <3>3. ReaderOK(d)
      BY DEF FeedInv, ReadersInv
    <3> QED BY <3>1, <3>2, <3>3, Kept
  <2> QED BY <2>1, <2>2
<1>2. ReadersInv'
  BY <1>1 DEF ReadersInv
<1>3. ChunkInv'
  BY DEF FeedInv, ChunkInv
<1>4. Shape' /\ BootstrapInv' /\ StoppedInv'
  BY DEF FeedInv, Shape, BootstrapInv, StoppedInv
<1> QED BY <1>2, <1>3, <1>4

\* A loss-intolerant consumer gets the chunk that follows all it was given.
LEMMA WaitingStep ==
  ASSUME FeedInv, NEW c \in Consumers, DispatchWaiting(c)
  PROVE  Shape' /\ ChunkInv' /\ BootstrapInv' /\ StoppedInv' /\ ReadersInv'
<1>1. /\ c \in todo /\ c \in LossIntolerant /\ ReaderOK(c)
      /\ UNCHANGED <<log, firsts, chunk, bootstrap, consumers, condemned, taken,
                     aligning, pc>>
      /\ todo' = todo \ {c} /\ pump' = pump
  BY DEF DispatchWaiting, FeedInv, LeaseInv, ReadersInv, sourceVars, leaseVars
<1>2. CASE c \in closed
  <2>1. channel' = channel /\ c \notin consumers
    BY <1>2 DEF DispatchWaiting, FeedInv, LeaseInv
  <2>2. ReaderOK(c)'
    <3>1. Moves(c)
      BY <1>1, <2>1 DEF Moves
    <3> QED BY <1>1, <2>1, <3>1, Kept
  <2>3. /\ channel' \in [Consumers -> Seq(Seq(Nat))]
        /\ aligning' \in [Consumers -> Buffers]
    BY <1>1, <2>1 DEF FeedInv, Shape
  <2> QED BY <1>1, <2>1, <2>2, <2>3, Given
<1>3. CASE c \notin closed
  <2> DEFINE q == channel[c]
             t == taken[c]
  <2>1. /\ Len(q) < Capacity
        /\ channel' = [channel EXCEPT ![c] = Append(q, chunk)]
    BY <1>3 DEF DispatchWaiting
  <2>2. /\ chunk \in Seq(1..Len(log)) /\ chunk # <<>> /\ Run(TRUE, chunk)
        /\ Newest(chunk) = Len(log) /\ log \in Seq(Kinds) /\ Len(log) \in Nat
    <3>1. log \in Seq(Kinds)
      BY DEF FeedInv, Shape
    <3>2. Len(log) \in Nat
      BY <3>1
    <3> QED BY <1>1, <3>1, <3>2 DEF FeedInv, ChunkInv
  <2>3. Exact(c) = TRUE
    BY <1>1 DEF Exact
  <2>4. /\ Pipe(Exact(c), log, q, t) /\ Latest(q, t) # 0
        /\ Latest(q, t) + 1 = chunk[1]
    BY <1>1 DEF ReaderOK
  <2>5. Follows(Exact(c), Latest(q, t), chunk[1]) /\ Run(Exact(c), chunk)
    BY <2>2, <2>3, <2>4 DEF Follows
  <2>6. /\ Pipe(Exact(c), log, Append(q, chunk), t)
        /\ Latest(Append(q, chunk), t) = Len(log)
    BY <2>2, <2>4, <2>5, ExactIsBoolean, PipePut
  <2>7. /\ q \in Seq(Seq(Nat)) /\ channel \in [Consumers -> Seq(Seq(Nat))]
        /\ Capacity \in Nat
    BY DispatchAssumption DEF FeedInv, Shape
  <2>8. Append(q, chunk) \in Seq(Seq(Nat)) /\ Len(Append(q, chunk)) <= Capacity
    <3>1. Append(q, chunk) \in Seq(Seq(Nat))
      BY <2>2, <2>6, PipeTypes, ExactIsBoolean
    <3>2. Len(Append(q, chunk)) = Len(q) + 1 /\ Len(q) \in Nat
      BY <2>7
    <3> HIDE DEF q
    <3> QED BY <2>1, <2>7, <3>1, <3>2
  <2>9. /\ channel' \in [Consumers -> Seq(Seq(Nat))]
        /\ channel'[c] = Append(q, chunk)
        /\ \A d \in Consumers \ {c} : channel'[d] = channel[d]
    <3> HIDE DEF q
    <3> QED BY <2>1, <2>7, <2>8
  <2>10. /\ pc[c] \in {"joined", "gone"}
         /\ BufferOK(FALSE, aligning[c], log)
    BY <1>1, DispatchAssumption DEF ReaderOK
  <2>12. Len(log) # 0
    BY <2>2
  <2> HIDE DEF q, t
  <2>13. ReaderOK(c)'
    <3>1. Pipe(Exact(c), log, channel[c], taken[c])'
      BY <1>1, <2>6, <2>9 DEF t, Exact
    <3>2. (Latest(channel[c], taken[c]) = Len(log))'
      BY <1>1, <2>6, <2>9 DEF t
    <3> QED
      BY <1>1, <2>8, <2>9, <2>10, <2>12, <3>1, <3>2 DEF ReaderOK
  <2>14. aligning' \in [Consumers -> Buffers]
    BY <1>1 DEF FeedInv, Shape
  <2> QED BY <1>1, <2>9, <2>13, <2>14, Given
<1> QED BY <1>2, <1>3

LEMMA Looser ==
  ASSUME NEW n \in Nat, NEW s \in Seq(1..n), Run(TRUE, s)
  PROVE  Run(FALSE, s)
<1>1. ASSUME NEW i \in 1..Len(s), NEW j \in 1..Len(s), i < j
      PROVE  s[i] < s[j]
  <2>1. s[j] = s[i] + (j - i)
    BY <1>1 DEF Run
  <2>2. s[i] \in Nat /\ s[j] \in Nat /\ i \in Nat /\ j \in Nat
    OBVIOUS
  <2>3. \A a, b, x, y \in Nat : x < y /\ b = a + (y - x) => a < b
    OBVIOUS
  <2> QED BY <1>1, <2>1, <2>2, <2>3
<1> QED BY <1>1 DEF Run

\* A lossy consumer that has joined: its oldest packets make room.
LEMMA DroppingStep ==
  ASSUME FeedInv, NEW c \in Consumers, DispatchDropping(c)
  PROVE  Shape' /\ ChunkInv' /\ BootstrapInv' /\ StoppedInv' /\ ReadersInv'
<1>1. /\ c \in todo /\ c \notin LossIntolerant /\ ReaderOK(c)
      /\ UNCHANGED <<log, firsts, pump, chunk, bootstrap, consumers, condemned,
                     taken, aligning, pc>>
      /\ todo' = todo \ {c} /\ OfferLossy(c, chunk) /\ pc[c] # "aligning"
  BY DEF DispatchDropping, FeedInv, ReadersInv, sourceVars, leaseVars
<1>2. log \in Seq(Kinds) /\ Len(log) \in Nat /\ Shape
  <2>1. log \in Seq(Kinds)
    BY DEF FeedInv, Shape
  <2> QED BY <2>1 DEF FeedInv
<1>3. /\ chunk \in Seq(1..Len(log)) /\ chunk # <<>> /\ Run(FALSE, chunk)
  BY <1>1, <1>2, Looser DEF FeedInv, ChunkInv
<1>4. Latest(channel[c], taken[c]) < chunk[1]
  BY <1>1 DEF ReaderOK
<1>5. /\ channel' \in [Consumers -> Seq(Seq(Nat))]
      /\ \A d \in Consumers \ {c} : channel'[d] = channel[d]
      /\ Pipe(FALSE, log, channel'[c], taken[c])
      /\ Len(channel'[c]) <= Capacity
  BY <1>1, <1>2, <1>3, <1>4, Offered
<1>6. ReaderOK(c)'
  <2>1. Exact(c)' = FALSE
    BY <1>1 DEF Exact
  <2>2. Pipe(Exact(c), log, channel[c], taken[c])'
    BY <1>1, <1>5, <2>1
  <2>3. pc[c] \in {"joined", "gone"} /\ BufferOK(FALSE, aligning[c], log)
    BY <1>1 DEF ReaderOK
  <2> QED BY <1>1, <1>5, <2>2, <2>3 DEF ReaderOK
<1>7. aligning' \in [Consumers -> Buffers]
  BY <1>1 DEF FeedInv, Shape
<1> QED BY <1>1, <1>5, <1>6, <1>7, Given

\* A live-aligned consumer: the chunk extends its own buffer, and a start
\* found there is the first thing it gets.
LEMMA AlignStep ==
  ASSUME FeedInv, NEW c \in Consumers, Align(c)
  PROVE  Shape' /\ ChunkInv' /\ BootstrapInv' /\ StoppedInv' /\ ReadersInv'
<1> DEFINE own == AppendAll(aligning[c], log, chunk)
           start == Snapshot(own)
<1>1. /\ c \in todo /\ ReaderOK(c) /\ pc[c] = "aligning"
      /\ UNCHANGED <<log, firsts, pump, chunk, bootstrap, consumers, condemned,
                     taken>>
      /\ todo' = todo \ {c}
  BY DEF Align, FeedInv, ReadersInv, sourceVars, leaseVars
<1>2. log \in Seq(Kinds) /\ Len(log) \in Nat /\ Shape
  <2>1. log \in Seq(Kinds)
    BY DEF FeedInv, Shape
  <2> QED BY <2>1 DEF FeedInv
<1>3. /\ chunk \in Seq(1..Len(log)) /\ chunk # <<>> /\ Run(TRUE, chunk)
  BY <1>1 DEF FeedInv, ChunkInv
<1>4. /\ c \in LiveAligned /\ c \notin LossIntolerant
      /\ channel[c] = <<>> /\ taken[c] = <<>>
      /\ BufferOK(FALSE, aligning[c], log) /\ LastOf(aligning[c]) < chunk[1]
      /\ Pipe(Exact(c), log, channel[c], taken[c]) /\ Exact(c) = FALSE
  <2>1. c \in LiveAligned /\ Pipe(Exact(c), log, channel[c], taken[c])
    BY <1>1 DEF ReaderOK
  <2>2. c \notin LossIntolerant
    BY <2>1, DispatchAssumption
  <2>3. Exact(c) = FALSE
    BY <2>2 DEF Exact
  <2>4. /\ channel[c] = <<>> /\ taken[c] = <<>>
        /\ BufferOK(FALSE, aligning[c], log) /\ LastOf(aligning[c]) < chunk[1]
    BY <1>1 DEF ReaderOK
  <2> QED BY <2>1, <2>2, <2>3, <2>4
<1>5. BufferOK(FALSE, own, log)
  <2>1. Follows(FALSE, LastOf(aligning[c]), chunk[1])
    BY <1>4 DEF Follows
  <2> QED BY <1>2, <1>3, <1>4, <2>1, AppendAllOK
<1>6. own \in Buffers /\ EmptyBuffer \in Buffers
      /\ BufferOK(FALSE, EmptyBuffer, log)
  BY <1>5, EmptyIsOK DEF BufferOK
<1>7. CASE start # <<>> /\ c \notin closed
  <2>1. /\ OfferLossy(c, start)
        /\ pc' = [pc EXCEPT ![c] = "joined"]
        /\ aligning' = [aligning EXCEPT ![c] = EmptyBuffer]
    BY <1>7 DEF Align
  <2>2. /\ start \in Seq(1..Len(log)) /\ Run(FALSE, start)
    BY <1>2, <1>5, <1>7, SnapshotOK
  <2>3. Latest(channel[c], taken[c]) < start[1]
    <3>1. Latest(channel[c], taken[c]) = 0
      BY <1>4 DEF Latest
    <3>2. start[1] \in 1..Len(log)
      <4> HIDE DEF start
      <4> QED BY <1>7, <2>2
    <3> HIDE DEF start
    <3> QED BY <1>2, <3>1, <3>2
  <2> HIDE DEF start, own
  <2>4. /\ channel' \in [Consumers -> Seq(Seq(Nat))]
        /\ \A d \in Consumers \ {c} : channel'[d] = channel[d]
        /\ Pipe(FALSE, log, channel'[c], taken[c])
        /\ Len(channel'[c]) <= Capacity
    BY <1>1, <1>2, <1>4, <1>7, <2>1, <2>2, <2>3, Offered
  <2>5. /\ aligning' \in [Consumers -> Buffers] /\ aligning'[c] = EmptyBuffer
        /\ pc'[c] = "joined"
        /\ \A d \in Consumers \ {c} : aligning'[d] = aligning[d] /\ pc'[d] = pc[d]
    BY <1>2, <1>6, <2>1 DEF Shape, FeedInv, LeaseInv
  <2>6. ReaderOK(c)'
    <3>1. Pipe(Exact(c), log, channel[c], taken[c])'
      BY <1>1, <1>4, <2>4 DEF Exact
    <3> QED BY <1>1, <1>4, <1>6, <2>4, <2>5, <3>1 DEF ReaderOK
  <2> QED BY <1>1, <2>4, <2>5, <2>6, Given
<1>8. CASE ~(start # <<>> /\ c \notin closed)
  <2>1. /\ channel' = channel /\ pc' = pc
        /\ aligning' = [aligning EXCEPT ![c] = own]
    BY <1>8 DEF Align
  <2> HIDE DEF start, own
  <2>2. /\ channel' \in [Consumers -> Seq(Seq(Nat))]
        /\ aligning' \in [Consumers -> Buffers] /\ aligning'[c] = own
        /\ \A d \in Consumers \ {c} : /\ aligning'[d] = aligning[d]
                                      /\ channel'[d] = channel[d]
                                      /\ pc'[d] = pc[d]
    BY <1>2, <1>6, <2>1 DEF Shape
  <2>3. ReaderOK(c)'
    <3>1. Pipe(Exact(c), log, channel[c], taken[c])'
      BY <1>1, <1>4, <2>1 DEF Exact
    <3>2. Len(channel[c]) <= Capacity
      BY <1>1 DEF ReaderOK
    <3> QED BY <1>1, <1>4, <1>5, <2>1, <2>2, <3>1, <3>2 DEF ReaderOK
  <2> QED BY <1>1, <2>2, <2>3, Given
<1> QED BY <1>7, <1>8

LEMMA PipeFirst ==
  ASSUME NEW exact \in BOOLEAN, NEW written \in Seq(Kinds),
         NEW x \in Seq(1..Len(written)), x # <<>>, Run(exact, x),
         Starts(written, x), Pipe(exact, written, <<>>, <<>>)
  PROVE  Pipe(exact, written, <<x>>, <<>>) /\ Latest(<<x>>, <<>>) = Newest(x)
<1> DEFINE w == <<x>>
           S == Seq(1..Len(written))
<1>1. /\ <<>> \in S /\ Run(exact, <<>>)
  BY DEF Pipe
<1>2. x \in S
  OBVIOUS
<1> HIDE DEF S
<1>3. w \in Seq(S) /\ Len(w) = 1 /\ w[1] = x /\ w # <<>>
  BY <1>2
<1> HIDE DEF w
<1>4. Pipe(exact, written, w, <<>>)
  <2>1. \A i \in 1..Len(w) : w[i] # <<>> /\ Run(exact, w[i])
    BY <1>3
  <2>2. \A i \in 1..Len(w)-1 : FALSE
    BY <1>3
  <2>3. exact => (<<>> = <<>> /\ w # <<>> => Starts(written, w[1]))
    BY <1>3
  <2> QED BY <1>1, <1>3, <2>1, <2>2, <2>3 DEF Pipe, S
<1>5. Latest(w, <<>>) = Newest(x)
  BY <1>3 DEF Latest, Newest
<1> QED BY <1>4, <1>5 DEF w

\* A consumer that joins is given the receiver's own start, which ends with
\* the log: what is dispatched from then on follows it.
LEMMA JoinStep ==
  ASSUME FeedInv, NEW c \in Consumers, Join(c)
  PROVE  Shape' /\ ChunkInv' /\ BootstrapInv' /\ StoppedInv' /\ ReadersInv'
<1> DEFINE s == Snapshot(bootstrap)
<1>1. /\ ReaderOK(c) /\ pc[c] = "polling" /\ s # <<>>
      /\ UNCHANGED <<log, firsts, pump, chunk, todo, bootstrap, condemned,
                     aligning, taken>>
      /\ channel' = [channel EXCEPT ![c] = <<s>>]
      /\ consumers' = consumers \cup {c}
      /\ pc' = [pc EXCEPT ![c] = "joined"]
  BY DEF Join, FeedInv, ReadersInv, sourceVars, pumpVars
<1>2. log \in Seq(Kinds) /\ Len(log) \in Nat
  <2>1. log \in Seq(Kinds)
    BY DEF FeedInv, Shape
  <2> QED BY <2>1
<1>3. /\ s \in Seq(1..Len(log)) /\ Run(TRUE, s) /\ Newest(s) = Len(log)
      /\ Starts(log, s) /\ bootstrap.packets # <<>>
  <2>1. BufferOK(TRUE, bootstrap, log)
    BY DEF FeedInv, BootstrapInv
  <2>2. /\ s \in Seq(1..Len(log)) /\ Run(TRUE, s)
        /\ bootstrap.packets # <<>> /\ Newest(s) = LastOf(bootstrap)
        /\ Starts(log, s)
    BY <1>1, <1>2, <2>1, SnapshotOK
  <2>3. LastOf(bootstrap) = Len(log)
    BY <2>2 DEF FeedInv, BootstrapInv
  <2> QED BY <2>2, <2>3
<1>4. pump # "stopped" /\ Len(log) # 0
  <2>1. pump # "stopped"
    BY <1>3 DEF FeedInv, StoppedInv
  <2>2. Len(log) # 0
    <3> HIDE DEF s
    <3> QED BY <1>1, <1>2, <1>3
  <2> QED BY <2>1, <2>2
<1>5. Run(Exact(c), s)
  <2> HIDE DEF s
  <2>1. CASE Exact(c) = TRUE
    BY <1>3, <2>1
  <2>2. CASE Exact(c) = FALSE
    BY <1>2, <1>3, <2>2, Looser
  <2> QED BY <2>1, <2>2, ExactIsBoolean
<1>6. /\ channel[c] = <<>> /\ taken[c] = <<>> /\ c \notin todo
      /\ Pipe(Exact(c), log, channel[c], taken[c])
      /\ BufferOK(FALSE, aligning[c], log)
  BY <1>1 DEF ReaderOK
<1> HIDE DEF s
<1>7. /\ Pipe(Exact(c), log, <<s>>, <<>>) /\ Latest(<<s>>, <<>>) = Len(log)
  <2>1. Pipe(Exact(c), log, <<>>, <<>>)
    BY <1>6
  <2>2. Exact(c) \in BOOLEAN
    BY ExactIsBoolean
  <2> HIDE DEF Exact
  <2> QED BY <1>1, <1>2, <1>3, <1>5, <2>1, <2>2, PipeFirst
<1>8. /\ channel' \in [Consumers -> Seq(Seq(Nat))] /\ channel'[c] = <<s>>
      /\ pc'[c] = "joined"
      /\ \A d \in Consumers \ {c} : channel'[d] = channel[d] /\ pc'[d] = pc[d]
  <2>1. <<s>> \in Seq(Seq(Nat))
    BY <1>2, <1>7, ExactIsBoolean, PipeTypes
  <2> QED BY <1>1, <2>1 DEF FeedInv, Shape, LeaseInv
<1>9. ReaderOK(c)'
  <2>1. Pipe(Exact(c), log, channel[c], taken[c])'
    BY <1>1, <1>6, <1>7, <1>8 DEF Exact
  <2>2. (Latest(channel[c], taken[c]) = Len(log))' /\ Len(channel'[c]) <= Capacity
    <3>1. Len(<<s>>) = 1 /\ Capacity \in Nat /\ Capacity # 0
      BY DispatchAssumption
    <3>2. Len(<<s>>) <= Capacity
      BY <3>1
    <3> QED BY <1>1, <1>6, <1>7, <1>8, <3>2
  <2> QED BY <1>1, <1>4, <1>6, <1>8, <2>1, <2>2 DEF ReaderOK
<1>10. ASSUME NEW d \in Consumers PROVE ReaderOK(d)'
  <2>1. CASE d = c
    BY <1>9, <2>1
  <2>2. CASE d # c
    <3>1. Moves(d)
      BY <1>1, <1>8, <2>2 DEF Moves
    <3>2. ReaderOK(d)
      BY DEF FeedInv, ReadersInv
    <3> QED BY <1>1, <1>8, <2>2, <3>1, <3>2, Kept
  <2> QED BY <2>1, <2>2
<1>11. ReadersInv'
  BY <1>10 DEF ReadersInv
<1>12. ChunkInv' /\ BootstrapInv'
  BY <1>1 DEF FeedInv, ChunkInv, BootstrapInv
<1>13. StoppedInv'
  BY <1>1, <1>4 DEF StoppedInv
<1>14. Shape'
  BY <1>1, <1>8 DEF FeedInv, Shape
<1> QED BY <1>11, <1>12, <1>13, <1>14

LEMMA ReadStep ==
  ASSUME FeedInv, NEW c \in Consumers, Read(c)
  PROVE  Shape' /\ ChunkInv' /\ BootstrapInv' /\ StoppedInv' /\ ReadersInv'
<1> DEFINE q == channel[c]
           got == taken[c] \o Head(q)
<1>1. /\ ReaderOK(c) /\ pc[c] = "joined" /\ q # <<>>
      /\ UNCHANGED <<log, firsts, pump, chunk, todo, bootstrap, consumers,
                     condemned, aligning, pc>>
      /\ channel' = [channel EXCEPT ![c] = Tail(q)]
      /\ taken' = [taken EXCEPT ![c] = got]
  BY DEF Read, FeedInv, ReadersInv, sourceVars, pumpVars, leaseVars
<1>2. log \in Seq(Kinds) /\ q \in Seq(Seq(Nat)) /\ Capacity \in Nat
  BY DispatchAssumption DEF FeedInv, Shape
<1>3. /\ Pipe(Exact(c), log, Tail(q), got)
      /\ Latest(Tail(q), got) = Latest(q, taken[c])
  <2>1. Pipe(Exact(c), log, q, taken[c])
    BY <1>1 DEF ReaderOK
  <2> QED BY <1>1, <1>2, <2>1, ExactIsBoolean, PipeTake
<1>4. Tail(q) \in Seq(Seq(Nat)) /\ got \in Seq(Nat)
  BY <1>2, <1>3, ExactIsBoolean, PipeTypes
<1>5. Len(Tail(q)) <= Capacity
  <2>1. Len(q) <= Capacity
    BY <1>1 DEF ReaderOK
  <2>2. Len(q) \in Nat /\ Len(Tail(q)) = Len(q) - 1
    BY <1>1, <1>2
  <2> HIDE DEF q
  <2> QED BY <1>2, <2>1, <2>2
<1> HIDE DEF q, got
<1>6. /\ channel' \in [Consumers -> Seq(Seq(Nat))] /\ channel'[c] = Tail(q)
      /\ taken' \in [Consumers -> Seq(Nat)] /\ taken'[c] = got
      /\ \A d \in Consumers \ {c} : /\ channel'[d] = channel[d]
                                    /\ taken'[d] = taken[d]
  BY <1>1, <1>4 DEF FeedInv, Shape
<1>7. ReaderOK(c)'
  <2>1. Pipe(Exact(c), log, channel[c], taken[c])'
    BY <1>1, <1>3, <1>6 DEF Exact
  <2>2. Latest(channel[c], taken[c])' = Latest(channel[c], taken[c])
    BY <1>3, <1>6 DEF q
  <2> QED BY <1>1, <1>5, <1>6, <2>1, <2>2 DEF ReaderOK
<1>8. ASSUME NEW d \in Consumers PROVE ReaderOK(d)'
  <2>1. CASE d = c
    BY <1>7, <2>1
  <2>2. CASE d # c
    <3>1. Moves(d)
      BY <1>1, <2>2 DEF Moves
    <3>2. ReaderOK(d)
      BY DEF FeedInv, ReadersInv
    <3> QED BY <1>1, <1>6, <2>2, <3>1, <3>2, Kept
  <2> QED BY <2>1, <2>2
<1>9. ReadersInv'
  BY <1>8 DEF ReadersInv
<1>10. ChunkInv' /\ BootstrapInv' /\ StoppedInv'
  BY <1>1 DEF FeedInv, ChunkInv, BootstrapInv, StoppedInv
<1>11. Shape'
  BY <1>1, <1>6 DEF FeedInv, Shape
<1> QED BY <1>9, <1>10, <1>11

\* A read of FFmpeg's output: the log grows, and what it grew by is the chunk
\* that every registered consumer is to be served.
LEMMA LogStep ==
  ASSUME FeedInv, NEW stream \in Streams, NEW n \in 1..MaxChunk,
         Chunk(stream, n)
  PROVE  /\ log' \in Seq(Kinds) /\ log \in Seq(Kinds) /\ Len(log) \in Nat
         /\ n \in Nat /\ n # 0 /\ Len(log') = Len(log) + n
         /\ \A i \in 1..Len(log) : log'[i] = log[i]
<1>1. /\ stream \in Seq(Kinds) /\ log \in Seq(Kinds) /\ MaxChunk \in Nat
  BY DispatchAssumption DEF FeedInv, Shape
<1>2. /\ Len(log) \in Nat /\ Len(stream) \in Nat /\ n \in Nat /\ n # 0
  BY <1>1
<1>3. /\ Len(log) + n <= Len(stream) /\ log' = SubSeq(stream, 1, Len(log) + n)
      /\ SubSeq(log, 1, Len(log)) = SubSeq(stream, 1, Len(log))
  BY Zenon DEF Chunk, IsPrefix
<1>4. /\ log' \in Seq(Kinds) /\ Len(log') = Len(log) + n
      /\ \A i \in 1..Len(log) : log'[i] = stream[i]
  BY <1>1, <1>2, <1>3
<1>5. \A i \in 1..Len(log) : stream[i] = log[i]
  <2>1. \A i \in 1..Len(log) : SubSeq(log, 1, Len(log))[i] = log[i]
    BY <1>1, <1>2
  <2>2. Len(log) <= Len(stream)
    BY <1>2, <1>3
  <2>3. \A i \in 1..Len(log) : SubSeq(stream, 1, Len(log))[i] = stream[i]
    BY <1>1, <1>2, <2>2
  <2> QED BY <1>3, <2>1, <2>3
<1> QED BY <1>1, <1>2, <1>4, <1>5

LEMMA ChunkStep ==
  ASSUME FeedInv, NEW stream \in Streams, NEW n \in 1..MaxChunk,
         Chunk(stream, n)
  PROVE  Shape' /\ ChunkInv' /\ BootstrapInv' /\ StoppedInv' /\ ReadersInv'
<1>1. /\ log' \in Seq(Kinds) /\ log \in Seq(Kinds) /\ Len(log) \in Nat
      /\ n \in Nat /\ n # 0 /\ Len(log') = Len(log) + n
      /\ \A i \in 1..Len(log) : log'[i] = log[i]
  BY LogStep
<1>2. /\ pump # "stopped" /\ todo = {} /\ todo' = consumers
      /\ chunk' = [i \in 1..n |-> Len(log) + i]
      /\ bootstrap' = AppendAll(bootstrap, log', chunk')
      /\ UNCHANGED <<firsts, pump, pc, consumers, condemned, channel, aligning,
                     taken>>
  BY DEF Chunk, leaseVars
<1>3. /\ chunk' \in Seq(1..Len(log')) /\ chunk' # <<>> /\ Run(TRUE, chunk')
      /\ chunk'[1] = Len(log) + 1 /\ Newest(chunk') = Len(log')
  <2>1. \A i \in 1..n : Len(log) + i \in 1..Len(log')
    BY <1>1
  <2>2. chunk' \in Seq(1..Len(log')) /\ Len(chunk') = n
    BY <1>1, <1>2, <2>1
  <2>3. 1 \in 1..n /\ n \in 1..n
    BY <1>1
  <2>4. chunk'[1] = Len(log) + 1 /\ chunk'[n] = Len(log) + n
    BY <1>2, <2>3
  <2>5. ASSUME NEW i \in 1..n, NEW j \in 1..n, i < j
        PROVE  chunk'[j] = chunk'[i] + (j - i)
    <3>1. chunk'[i] = Len(log) + i /\ chunk'[j] = Len(log) + j
      BY <1>2
    <3>2. \A a, x, y \in Nat : a + y = a + x + (y - x)
      OBVIOUS
    <3>3. i \in Nat /\ j \in Nat
      BY <1>1
    <3> QED BY <1>1, <3>1, <3>2, <3>3
  <2> QED BY <1>1, <2>2, <2>4, <2>5 DEF Run, Newest
<1>4. \A exact \in BOOLEAN : \A waiting, got :
        Pipe(exact, log, waiting, got) => Pipe(exact, log', waiting, got)
  BY <1>1, LogGrows
<1>5. \A exact \in BOOLEAN : \A b :
        BufferOK(exact, b, log) => BufferOK(exact, b, log')
  BY <1>1, LogGrows
<1>6. BootstrapInv'
  <2>1. BufferOK(TRUE, bootstrap, log')
    BY <1>5 DEF FeedInv, BootstrapInv
  <2>2. bootstrap.packets # <<>> => Follows(TRUE, LastOf(bootstrap), chunk'[1])
    BY <1>3 DEF FeedInv, BootstrapInv, Follows
  <2>3. /\ BufferOK(TRUE, AppendAll(bootstrap, log', chunk'), log')
        /\ AppendAll(bootstrap, log', chunk').packets # <<>>
             => LastOf(AppendAll(bootstrap, log', chunk')) = Newest(chunk')
    BY <1>1, <1>3, <2>1, <2>2, AppendAllOK
  <2> QED BY <1>2, <1>3, <2>3 DEF BootstrapInv
<1>7. ASSUME NEW c \in Consumers PROVE ReaderOK(c)'
  <2>1. ReaderOK(c)
    BY DEF FeedInv, ReadersInv
  <2>2. Pipe(Exact(c), log, channel[c], taken[c])'
    <3>1. Pipe(Exact(c), log, channel[c], taken[c])
      BY <2>1 DEF ReaderOK
    <3>2. Pipe(Exact(c), log', channel[c], taken[c])
      BY <1>4, <3>1, ExactIsBoolean
    <3> QED BY <1>2, <3>2 DEF Exact
  <2>3. BufferOK(FALSE, aligning[c], log)'
    <3>1. BufferOK(FALSE, aligning[c], log)
      BY <2>1 DEF ReaderOK
    <3>2. BufferOK(FALSE, aligning[c], log')
      BY <1>5, <3>1
    <3> QED BY <1>2, <3>2
  <2>4. /\ Latest(channel[c], taken[c]) \in 0..Len(log)
        /\ LastOf(aligning[c]) \in 0..Len(log)
    BY Numbers DEF FeedInv
  <2>5. /\ LastOf(aligning[c]) < chunk'[1]
        /\ Latest(channel[c], taken[c]) < chunk'[1]
    BY <1>1, <1>3, <2>4
  <2>6. c \in todo' => pc[c] \in {"aligning", "joined", "gone"}
    BY <1>2 DEF FeedInv, LeaseInv
  <2>7. c \in LossIntolerant /\ c \in consumers =>
          /\ Latest(channel[c], taken[c]) # 0
          /\ Latest(channel[c], taken[c]) = Len(log)
    BY <1>2, <2>1 DEF ReaderOK
  <2>8. UNCHANGED <<pc[c], channel[c], aligning[c], taken[c]>>
    BY <1>2
  <2> QED
    BY <1>2, <1>3, <2>1, <2>2, <2>3, <2>5, <2>6, <2>7, <2>8 DEF ReaderOK
<1>8. ReadersInv'
  BY <1>7 DEF ReadersInv
<1>9. ChunkInv' /\ StoppedInv'
  BY <1>2, <1>3 DEF ChunkInv, StoppedInv
<1>10. Shape'
  BY <1>1, <1>2 DEF FeedInv, Shape, LeaseInv
<1> QED BY <1>6, <1>8, <1>9, <1>10

LEMMA FeedInvInit == Init => FeedInv
<1> SUFFICES ASSUME Init PROVE FeedInv
  OBVIOUS
<1>1. LeaseInv
  BY LeaseInit
<1>2. /\ log = <<>> /\ Len(log) = 0 /\ chunk = <<>> /\ todo = {}
      /\ consumers = {} /\ pump = "reading" /\ bootstrap = EmptyBuffer
      /\ firsts = {1} /\ condemned = {}
      /\ channel = [c \in Consumers |-> <<>>]
      /\ taken = [c \in Consumers |-> <<>>]
      /\ aligning = [c \in Consumers |-> EmptyBuffer]
      /\ pc = [c \in Consumers |-> "outside"]
  BY DEF Init
<1>3. EmptyBuffer \in Buffers /\ EmptyBuffer.packets = <<>>
  BY DEF EmptyBuffer, Buffers
<1>4. Shape
  BY <1>2, <1>3 DEF Shape
<1>5. ChunkInv /\ StoppedInv
  BY <1>2 DEF ChunkInv, StoppedInv
<1>6. BootstrapInv
  BY <1>2, <1>3, EmptyIsOK DEF BootstrapInv
<1>7. ASSUME NEW c \in Consumers PROVE ReaderOK(c)
  <2>1. /\ channel[c] = <<>> /\ taken[c] = <<>> /\ aligning[c] = EmptyBuffer
        /\ pc[c] = "outside"
    BY <1>2
  <2>2. Pipe(Exact(c), log, <<>>, <<>>)
    BY <1>2 DEF Pipe, Run
  <2>3. BufferOK(FALSE, EmptyBuffer, log)
    BY EmptyIsOK
  <2>4. Len(<<>>) = 0 /\ 0 <= Capacity
    BY DispatchAssumption
  <2> QED BY <1>2, <2>1, <2>2, <2>3, <2>4 DEF ReaderOK
<1> QED BY <1>1, <1>4, <1>5, <1>6, <1>7 DEF FeedInv, ReadersInv

Flow == Shape /\ ChunkInv /\ BootstrapInv /\ StoppedInv /\ ReadersInv

LEMMA FeedInvStep == FeedInv /\ [Next]_vars => FeedInv'
<1> SUFFICES ASSUME FeedInv, [Next]_vars PROVE FeedInv'
  OBVIOUS
<1>0. LeaseInv'
  BY LeaseStep DEF FeedInv
<1>1. ASSUME NEW stream \in Streams, NEW n \in 1..MaxChunk, Chunk(stream, n)
      PROVE  Flow'
  BY <1>1, ChunkStep DEF Flow
<1>2. ASSUME NEW c \in Consumers, Dispatch(c) PROVE Flow'
  BY <1>2, WaitingStep, DroppingStep, AlignStep DEF Dispatch, Flow
<1>3. ASSUME NEW c \in Consumers,
             Acquire(c) \/ GiveUp(c) \/ Close(c) \/ Leave(c) \/ Complete(c)
      PROVE  Flow'
  BY <1>3, QuietStep DEF Flow
<1>4. ASSUME NEW c \in Consumers, Join(c) PROVE Flow'
  BY <1>4, JoinStep DEF Flow
<1>5. ASSUME NEW c \in Consumers, Read(c) PROVE Flow'
  BY <1>5, ReadStep DEF Flow
<1>6. ASSUME ProcessExits \/ EndOfStream \/ Teardown \/ Launch PROVE Flow'
  BY <1>6, LaunchStep DEF Flow
<1>7. ASSUME UNCHANGED vars PROVE Flow'
  <2>1. /\ UNCHANGED <<log, firsts, pump, chunk, todo, bootstrap, pc, consumers,
                       condemned, channel, aligning, taken>>
    BY <1>7 DEF vars, sourceVars, pumpVars, leaseVars
  <2>2. \A d \in Consumers : Moves(d)
    BY <2>1 DEF Moves
  <2>3. ReadersInv' /\ ChunkInv'
    <3>1. UNCHANGED <<log, chunk, channel, taken, aligning>> /\ todo' \subseteq todo
      BY <2>1
    <3>2. ReadersInv /\ ChunkInv
      BY DEF FeedInv
    <3> QED BY <2>2, <3>1, <3>2, KeptAll
  <2>4. Shape'
    BY <2>1 DEF FeedInv, Shape
  <2>5. BootstrapInv' /\ StoppedInv'
    BY <2>1 DEF FeedInv, BootstrapInv, StoppedInv
  <2> QED BY <2>3, <2>4, <2>5 DEF Flow
<1>8. Flow'
  BY <1>1, <1>2, <1>3, <1>4, <1>5, <1>6, <1>7 DEF Next
<1> QED BY <1>0, <1>8 DEF Flow, FeedInv

-----------------------------------------------------------------------------
(* The theorems.                                                           *)

LEMMA FeedInvHolds == Spec => []FeedInv
  BY FeedInvInit, FeedInvStep, PTL DEF Spec

LEMMA Prefixed ==
  ASSUME NEW S, NEW s \in Seq(S), NEW t \in Seq(S), Len(s) < Len(t),
         \A i \in 1..Len(s) : t[i] = s[i]
  PROVE  Feed!IsStrictPrefix(s, t)
<1>1. Len(s) \in Nat /\ Len(t) \in Nat /\ Len(s) <= Len(t)
  OBVIOUS
<1>2. SubSeq(s, 1, Len(s)) = SubSeq(t, 1, Len(s))
  <2>1. /\ SubSeq(s, 1, Len(s)) \in Seq(S) /\ SubSeq(t, 1, Len(s)) \in Seq(S)
        /\ Len(SubSeq(s, 1, Len(s))) = Len(s) /\ Len(SubSeq(t, 1, Len(s))) = Len(s)
    BY <1>1
  <2>2. \A i \in 1..Len(s) : SubSeq(s, 1, Len(s))[i] = SubSeq(t, 1, Len(s))[i]
    BY <1>1
  <2> QED BY <2>1, <2>2
<1>3. s # t
  BY <1>1
<1> QED BY <1>1, <1>2, <1>3 DEF Feed!IsStrictPrefix, Feed!IsPrefix

LEMMA ReadReceives ==
  ASSUME FeedInv, FeedInv', NEW c \in Consumers, Read(c)
  PROVE  Feed!Receive(c)
<1> DEFINE x == Head(channel[c])
           got == taken'[c]
<1>1. /\ UNCHANGED <<log, firsts>> /\ channel[c] # <<>>
      /\ taken' = [taken EXCEPT ![c] = taken[c] \o x]
  BY DEF Read, sourceVars
<1>2. ReaderOK(c) /\ ReaderOK(c)' /\ taken \in [Consumers -> Seq(Nat)]
      /\ log \in Seq(Kinds)
  BY DEF FeedInv, ReadersInv, Shape
<1>3. got = taken[c] \o x /\ \A d \in Consumers \ {c} : taken'[d] = taken[d]
  BY <1>1, <1>2
<1>4. x # <<>> /\ x \in Seq(Nat) /\ taken[c] \in Seq(Nat) /\ got # <<>>
  <2>1. Pipe(Exact(c), log, channel[c], taken[c])
    BY <1>2 DEF ReaderOK
  <2>2. /\ taken[c] \o x # <<>> /\ x # <<>> /\ x \in Seq(1..Len(log))
    BY <1>1, <1>2, <2>1, ExactIsBoolean, PipeTake
  <2>3. x \in Seq(Nat)
    <3> HIDE DEF x
    <3>1. 1..Len(log) \subseteq Nat
      BY <1>2
    <3> QED BY <2>2, <3>1
  <2> QED BY <1>2, <1>3, <2>2, <2>3
<1>5. /\ got \in Seq(1..Len(log)) /\ Run(Exact(c), got)
      /\ Exact(c) => Starts(log, got)
  <2>1. Pipe(Exact(c), log, channel[c], taken[c])'
    BY <1>2 DEF ReaderOK
  <2>2. Pipe(Exact(c), log, channel'[c], got)
    BY <1>1, <2>1 DEF Exact
  <2> QED BY <1>4, <2>2 DEF Pipe
<1> HIDE DEF x, got
<1>6. Feed!IsStrictPrefix(taken[c], got)
  <2>1. /\ Len(taken[c]) < Len(got) /\ got \in Seq(Nat)
        /\ \A i \in 1..Len(taken[c]) : got[i] = taken[c][i]
    BY <1>3, <1>4
  <2> QED BY <1>4, <2>1, Prefixed
<1>7. \A i \in 1..Len(got) : got[i] \in 1..Len(log)
  BY <1>5
<1>8. \A i \in 1..Len(got)-1 : /\ i \in 1..Len(got) /\ i + 1 \in 1..Len(got)
                               /\ i < i + 1 /\ (i + 1) - i = 1
                               /\ got[i] \in Nat /\ got[i] < got[i] + 1
  <2>1. Len(got) \in Nat
    BY <1>5
  <2>2. \A i \in 1..Len(got)-1 : /\ i \in 1..Len(got) /\ i + 1 \in 1..Len(got)
                                 /\ i < i + 1 /\ (i + 1) - i = 1
    BY <2>1
  <2> QED BY <1>2, <1>7, <2>2
<1>9. \A i \in 1..Len(got)-1 :
        IF Exact(c) THEN got[i + 1] = got[i] + 1 ELSE got[i] < got[i + 1]
  BY <1>5, <1>8 DEF Run
<1>10. Feed!Increasing(got)
  BY <1>8, <1>9 DEF Feed!Increasing
<1>11. c \in LossIntolerant => Feed!Gapless(got) /\ Feed!Decodable(got)
  BY <1>5, <1>9 DEF Feed!Gapless, Feed!Decodable, Starts, Exact
<1> QED
  BY <1>1, <1>3, <1>6, <1>7, <1>10, <1>11 DEF Feed!Receive, got

LEMMA FeedStep ==
  FeedInv /\ FeedInv' /\ [Next]_vars => [Feed!FeedNext]_(Feed!feedVars)
<1> SUFFICES ASSUME FeedInv, FeedInv', [Next]_vars
             PROVE  Feed!FeedNext \/ UNCHANGED <<log, firsts, taken>>
  BY DEF Feed!feedVars
<1>1. ASSUME NEW stream \in Streams, NEW n \in 1..MaxChunk, Chunk(stream, n)
      PROVE  Feed!FeedNext
  <2>1. /\ log' \in Seq(Kinds) /\ log \in Seq(Kinds) /\ Len(log) \in Nat
        /\ n \in Nat /\ n # 0 /\ Len(log') = Len(log) + n
        /\ \A i \in 1..Len(log) : log'[i] = log[i]
    BY <1>1, LogStep
  <2>2. Len(log) < Len(log')
    BY <2>1
  <2>3. Feed!IsStrictPrefix(log, log')
    BY <2>1, <2>2, Prefixed
  <2> QED BY <1>1, <2>3 DEF Chunk, Feed!FeedNext, Feed!Write
<1>2. ASSUME NEW c \in Consumers, Read(c) PROVE Feed!FeedNext
  BY <1>2, ReadReceives DEF Feed!FeedNext
<1>3. ASSUME Launch PROVE Feed!FeedNext
  BY <1>3 DEF Launch, Feed!FeedNext, Feed!Relaunch
<1>4. ASSUME NEW c \in Consumers,
             Dispatch(c) \/ Acquire(c) \/ Join(c) \/ GiveUp(c) \/ Close(c)
               \/ Leave(c) \/ Complete(c)
      PROVE  UNCHANGED <<log, firsts, taken>>
  BY <1>4 DEF Dispatch, DispatchWaiting, DispatchDropping, Align, Acquire, Join,
     GiveUp, Close, Leave, Complete, sourceVars
<1>5. ASSUME ProcessExits \/ EndOfStream \/ Teardown \/ UNCHANGED vars
      PROVE  UNCHANGED <<log, firsts, taken>>
  BY <1>5 DEF ProcessExits, EndOfStream, Teardown, vars, sourceVars
<1> QED BY <1>1, <1>2, <1>3, <1>4, <1>5 DEF Next

\* Every consumer reads packets of the camera's log in order and nothing twice,
\* and a recording reads every packet from a point a decoder can start at:
\* whatever joins, leaves, exits and restarts happen, the receiver implements
\* the abstract feed.
THEOREM FeedRefined == Spec => FeedOrderAndContinuity
<1>1. Init => Feed!FeedInit
  BY DEF Init, Feed!FeedInit
<1>2. QED
  BY <1>1, FeedInvHolds, FeedStep, PTL DEF Spec, FeedOrderAndContinuity,
     Feed!FeedSpec

LEMMA FeedInvTypes == FeedInv => TypeOK
<1> SUFFICES ASSUME FeedInv PROVE TypeOK
  OBVIOUS
<1>1. chunk \in Seq(Nat)
  <2>1. 1..Len(log) \subseteq Nat
    BY DEF FeedInv, Shape
  <2> QED BY <2>1 DEF FeedInv, ChunkInv
<1>2. bootstrap \in Buffers
  BY DEF FeedInv, BootstrapInv, BufferOK
<1>3. \A c \in Consumers : Len(channel[c]) <= Capacity
  BY DEF FeedInv, ReadersInv, ReaderOK
<1>4. /\ closing \subseteq Consumers /\ closed \subseteq Consumers
      /\ consumers \subseteq Consumers
      /\ pc \in [Consumers -> {"outside", "polling", "aligning", "joined", "gone"}]
  BY DEF FeedInv, LeaseInv, Places
<1> QED BY <1>1, <1>2, <1>3, <1>4 DEF FeedInv, Shape, TypeOK

\* The receiver's state has its types, and no channel holds more than
\* ConsumerBufferChunks intervals.
THEOREM DispatchTypeCorrect == Spec => []TypeOK
  BY FeedInvHolds, FeedInvTypes, PTL

\* So have the receiver and the streaming service, its reader, side by side.
THEOREM BothTypesCorrect == MCSpec => []TypesOK
<1> DEFINE both == <<vars, streamingVars, scope>>
           Typed == FeedInv /\ IInv
<1>1. MCInit => Typed
  BY FeedInvInit, Initially DEF MCInit
<1>2. Typed /\ [MCNext]_both => Typed'
  <2> SUFFICES ASSUME FeedInv, IInv, [MCNext]_both PROVE FeedInv' /\ IInv'
    OBVIOUS
  <2>1. [Next]_vars /\ [StreamingNext]_streamingVars
    BY DEF MCNext
  <2> QED BY <2>1, FeedInvStep, Inductive
<1>3. Typed => TypesOK
  BY FeedInvTypes DEF TypesOK, IInv
<1>4. QED
  BY <1>1, <1>2, <1>3, PTL DEF MCSpec

=============================================================================
