---------------------------- MODULE MediaDispatch ----------------------------
(***************************************************************************)
(* Distribution of the camera's MPEG-TS packets inside the canonical media *)
(* receiver (FfmpegStreamReceiver): one pump reads FFmpeg's output, keeps  *)
(* the late-join bootstrap, and writes every chunk to the channel of each  *)
(* consumer; consumers join, read and leave while a chunk is on its way.   *)
(*                                                                         *)
(* A packet is its number in the log and what it is: a PAT, a PMT, the     *)
(* start of a key frame, or anything else.  Alignment to packet boundaries *)
(* is left out: a chunk is the whole packets that came out of it.  Two     *)
(* launches use the same PIDs.                                             *)
(***************************************************************************)
EXTENDS Naturals, Sequences, SequencesExt, FiniteSets, FiniteSetsExt

CONSTANTS
  Consumers,      \* leases: one AcquireAsync call and what follows it
  LossIntolerant, \* those acquired with lossIntolerant (recording)
  LiveAligned,    \* those acquired with StartMode LiveAligned (streaming)
  Capacity,       \* ConsumerBufferChunks
  MaxPackets,     \* MpegTsBootstrapBuffer.MaxPackets
  MaxBootstrap,   \* MpegTsBootstrapBuffer.MaxBootstrapPackets
  MaxChunk,       \* bound on the packets of a chunk
  Streams,        \* bound: what the camera may send is a prefix of one of them
  MaxLaunches     \* bound on the launches of a behaviour

Kinds == {"pat", "pmt", "idr", "other"}

\* No caller asks for a live-aligned loss-intolerant lease.
ASSUME DispatchAssumption ==
  /\ LossIntolerant \subseteq Consumers
  /\ LiveAligned \subseteq Consumers \ LossIntolerant
  /\ {Capacity, MaxChunk} \subseteq Nat \ {0}
  /\ {MaxPackets, MaxBootstrap, MaxLaunches} \subseteq Nat
  /\ Streams \subseteq Seq(Kinds)

VARIABLES
  log,        \* the kinds of the packets written so far
  firsts,     \* the number of the first packet of each launch
  pump,       \* the media task of the latest launch
  chunk,      \* alignedMedia: the packet numbers being distributed
  todo,       \* consumers of the dispatch snapshot not served yet
  bootstrap,  \* _bootstrap
  pc,         \* pc[c]: how far consumer c is
  consumers,  \* _consumers
  channel,    \* channel[c]: the intervals waiting in c's channel
  closing,    \* taken out of _consumers, channel not completed yet
  closed,     \* channels completed
  condemned,  \* still to be removed by the running CompleteAllConsumers
  aligning,   \* aligning[c]: c's LiveBootstrap
  taken       \* taken[c]: the packet numbers c has read

sourceVars == <<log, firsts>>
pumpVars   == <<pump, chunk, todo>>
leaseVars  == <<consumers, closing, closed, condemned>>
vars == <<sourceVars, pumpVars, bootstrap, pc, leaseVars, channel, aligning,
          taken>>

(***************************************************************************)
(* MpegTsBootstrapBuffer: the latest packets, with what the buffer         *)
(* recognised each one as, and whether it has met a PAT (and so knows the  *)
(* PMT's PID) and a PMT (and so knows the video's).                        *)
(***************************************************************************)
EmptyBuffer == [packets |-> <<>>, pmtPid |-> FALSE, videoPid |-> FALSE]

Recognised(b, kind) ==
  IF \/ kind = "pmt" /\ ~b.pmtPid
     \/ kind = "idr" /\ ~b.videoPid
  THEN "other" ELSE kind

AppendPacket(b, n, kind) ==
  LET seen == Recognised(b, kind)
      all  == Append(b.packets, [at |-> n, kind |-> seen])
  IN [packets  |-> IF Len(all) > MaxPackets THEN Tail(all) ELSE all,
      pmtPid   |-> b.pmtPid \/ seen = "pat",
      videoPid |-> b.videoPid \/ seen = "pmt"]

\* Append: the packets ns of the log written.
AppendAll(b, written, ns) ==
  LET filled[i \in 0..Len(ns)] ==
        IF i = 0 THEN b
        ELSE AppendPacket(filled[i - 1], ns[i], written[ns[i]])
  IN filled[Len(ns)]

Positions(b, kind) == {i \in 1..Len(b.packets) : b.packets[i].kind = kind}

\* Snapshot: from the last PAT before the last key frame to the end, when a
\* PMT lies between them and it is not too long; <<>> when there is none.
Snapshot(b) ==
  LET idr   == Max(Positions(b, "idr"))
      pats  == {i \in Positions(b, "pat") : i <= idr /\ idr - i < MaxBootstrap}
      start == Max(pats)
  IN IF /\ Positions(b, "idr") # {}
        /\ pats # {}
        /\ \E i \in Positions(b, "pmt") : start <= i /\ i <= idr
        /\ Len(b.packets) - start + 1 <= MaxBootstrap
     THEN [i \in 1..(Len(b.packets) - start + 1) |->
             b.packets[start + i - 1].at]
     ELSE <<>>

-----------------------------------------------------------------------------
Init ==
  /\ log = <<>>
  /\ firsts = {1}
  /\ pump = "reading"
  /\ chunk = <<>>
  /\ todo = {}
  /\ bootstrap = EmptyBuffer
  /\ pc = [c \in Consumers |-> "outside"]
  /\ consumers = {}
  /\ channel = [c \in Consumers |-> <<>>]
  /\ closing = {}
  /\ closed = {}
  /\ condemned = {}
  /\ aligning = [c \in Consumers |-> EmptyBuffer]
  /\ taken = [c \in Consumers |-> <<>>]

(***************************************************************************)
(* PumpMediaAsync.                                                         *)
(***************************************************************************)
\* A read of FFmpeg's output; appending it and copying _consumers happen
\* under _mediaDispatchLock.
Chunk(stream, n) ==
  /\ pump \in {"reading", "draining"}
  /\ todo = {}
  /\ Len(log) + n <= Len(stream)
  /\ IsPrefix(log, stream)
  /\ log' = SubSeq(stream, 1, Len(log) + n)
  /\ chunk' = [i \in 1..n |-> Len(log) + i]
  /\ bootstrap' = AppendAll(bootstrap, log', chunk')
  /\ todo' = consumers
  /\ UNCHANGED <<firsts, pump, pc, leaseVars, channel, aligning, taken>>

\* Mutant: the channel of a lossy consumer grows without bound.
OfferUnbounded(c, interval) ==
  IF c \in closed THEN UNCHANGED channel
  ELSE channel' = [channel EXCEPT ![c] = Append(@, interval)]

\* TryWrite to a DropOldest channel; a completed channel refuses.
OfferLossy(c, interval) ==
  IF c \in closed THEN UNCHANGED channel
  ELSE channel' = [channel EXCEPT ![c] =
         Append(IF Len(@) = Capacity THEN Tail(@) ELSE @, interval)]

\* A loss-intolerant consumer: WriteAsync waits for room.
DispatchWaiting(c) ==
  /\ c \in todo \cap LossIntolerant
  /\ pump \in {"reading", "draining"}
  /\ \/ /\ c \notin closed
        /\ Len(channel[c]) < Capacity
        /\ channel' = [channel EXCEPT ![c] = Append(@, chunk)]
        /\ todo' = todo \ {c}
        /\ UNCHANGED pump
     \/ \* ChannelClosedException: the consumer is passed over when it was
        \* detached after the dispatch snapshot, else it ends the pump
        /\ c \in closed
        /\ IF c \in consumers
           THEN pump' = "faulted" /\ todo' = {}
           ELSE todo' = todo \ {c} /\ UNCHANGED pump
        /\ UNCHANGED channel
  /\ UNCHANGED <<sourceVars, chunk, bootstrap, pc, leaseVars, aligning, taken>>

\* A lossy consumer that has its start (what is written for one that is gone
\* is read by nobody).
DispatchDropping(c) ==
  /\ c \in todo \ LossIntolerant
  /\ pc[c] # "aligning"
  /\ OfferLossy(c, chunk)
  /\ todo' = todo \ {c}
  /\ UNCHANGED <<sourceVars, pump, chunk, bootstrap, pc, leaseVars, aligning,
                 taken>>

\* A live-aligned consumer waiting for its start: the chunk goes to its own
\* bootstrap, and what that yields is the first thing it is given.
Align(c) ==
  /\ c \in todo
  /\ pc[c] = "aligning"
  /\ LET own   == AppendAll(aligning[c], log, chunk)
         start == Snapshot(own)
     IN IF start # <<>> /\ c \notin closed
        THEN /\ OfferLossy(c, start)
             /\ pc' = [pc EXCEPT ![c] = "joined"]
             /\ aligning' = [aligning EXCEPT ![c] = EmptyBuffer]
        ELSE /\ aligning' = [aligning EXCEPT ![c] = own]
             /\ UNCHANGED <<channel, pc>>
  /\ todo' = todo \ {c}
  /\ UNCHANGED <<sourceVars, pump, chunk, bootstrap, leaseVars, taken>>

Dispatch(c) == DispatchWaiting(c) \/ DispatchDropping(c) \/ Align(c)

-----------------------------------------------------------------------------
(***************************************************************************)
(* AcquireAsync, the lease and its stream.                                 *)
(***************************************************************************)
\* StartAsync returned: the caller polls for a bootstrap, or registers at
\* once and waits for the pump to align it.
Acquire(c) ==
  /\ pc[c] = "outside"
  /\ pump = "reading"
  /\ IF c \in LiveAligned
     THEN /\ pc' = [pc EXCEPT ![c] = "aligning"]
          /\ consumers' = consumers \cup {c}
     ELSE /\ pc' = [pc EXCEPT ![c] = "polling"]
          /\ UNCHANGED consumers
  /\ UNCHANGED <<sourceVars, pumpVars, bootstrap, closing, closed, condemned,
                 channel, aligning, taken>>

\* Mutant: a consumer that joins is served by the dispatch in progress.
JoinsDispatch(c) ==
  /\ pc[c] = "polling"
  /\ Snapshot(bootstrap) # <<>>
  /\ channel' = [channel EXCEPT ![c] = <<Snapshot(bootstrap)>>]
  /\ consumers' = consumers \cup {c}
  /\ todo' = IF todo = {} THEN {} ELSE todo \cup {c}
  /\ pc' = [pc EXCEPT ![c] = "joined"]
  /\ UNCHANGED <<sourceVars, pump, chunk, bootstrap, closing, closed,
                 condemned, aligning, taken>>

\* Prime and register, under _mediaDispatchLock.
Join(c) ==
  /\ pc[c] = "polling"
  /\ Snapshot(bootstrap) # <<>>
  /\ channel' = [channel EXCEPT ![c] = <<Snapshot(bootstrap)>>]
  /\ consumers' = consumers \cup {c}
  /\ pc' = [pc EXCEPT ![c] = "joined"]
  /\ UNCHANGED <<sourceVars, pumpVars, bootstrap, closing, closed, condemned,
                 aligning, taken>>

\* No bootstrap within five seconds.
GiveUp(c) ==
  /\ pc[c] = "polling"
  /\ pc' = [pc EXCEPT ![c] = "gone"]
  /\ closed' = closed \cup {c}
  /\ UNCHANGED <<sourceVars, pumpVars, bootstrap, consumers, closing,
                 condemned, channel, aligning, taken>>

\* ChannelReadStream: the reader takes the next interval, also from a
\* channel that is completed.
Read(c) ==
  /\ pc[c] = "joined"
  /\ channel[c] # <<>>
  /\ taken' = [taken EXCEPT ![c] = @ \o Head(channel[c])]
  /\ channel' = [channel EXCEPT ![c] = Tail(@)]
  /\ UNCHANGED <<sourceVars, pumpVars, bootstrap, pc, leaseVars, aligning>>

\* Mutant: the channel is completed while the consumer is still registered.
DetachOpen(c) ==
  /\ closed' = IF c \in consumers THEN closed \cup {c} ELSE closed
  /\ UNCHANGED <<consumers, closing>>

\* RemoveConsumer and CompleteAllConsumers: TryRemove, and then TryComplete.
Detach(c) ==
  /\ consumers' = consumers \ {c}
  /\ closing' = IF c \in consumers THEN closing \cup {c} ELSE closing
  /\ UNCHANGED closed

\* Mutant: a removed consumer's channel stays open.
CloseNothing(c) ==
  /\ c \in closing
  /\ closing' = closing \ {c}
  /\ UNCHANGED <<sourceVars, pumpVars, bootstrap, pc, consumers, closed,
                 condemned, channel, aligning, taken>>

Close(c) ==
  /\ c \in closing
  /\ closing' = closing \ {c}
  /\ closed' = closed \cup {c}
  /\ UNCHANGED <<sourceVars, pumpVars, bootstrap, pc, consumers, condemned,
                 channel, aligning, taken>>

\* The lease is disposed, or the alignment timed out.
Leave(c) ==
  /\ pc[c] \in {"aligning", "joined"}
  /\ pc' = [pc EXCEPT ![c] = "gone"]
  /\ Detach(c)
  /\ UNCHANGED <<sourceVars, pumpVars, bootstrap, condemned, channel, aligning,
                 taken>>

\* CompleteAllConsumers reaches c.
Complete(c) ==
  /\ c \in condemned
  /\ condemned' = condemned \ {c}
  /\ Detach(c)
  /\ UNCHANGED <<sourceVars, pumpVars, bootstrap, pc, channel, aligning, taken>>

-----------------------------------------------------------------------------
(***************************************************************************)
(* The launches of FFmpeg.                                                 *)
(***************************************************************************)
\* FFmpeg exits: ObserveExitAsync completes the consumers it finds while the
\* pump still reads what the pipe holds.
ProcessExits ==
  /\ pump = "reading"
  /\ pump' = "draining"
  /\ condemned' = consumers
  /\ UNCHANGED <<sourceVars, chunk, todo, bootstrap, pc, consumers, closing,
                 closed, channel, aligning, taken>>

EndOfStream ==
  /\ pump = "draining"
  /\ todo = {}
  /\ pump' = "exited"
  /\ UNCHANGED <<sourceVars, chunk, todo, bootstrap, pc, leaseVars, channel,
                 aligning, taken>>

\* StopProcessCoreAsync of StopAsync or RecoverAsync: cancellation ends the
\* pump at its next read, or inside a write that takes a token; the rest of
\* that chunk goes to nobody.  Then the bootstrap is reset.
Teardown ==
  /\ pump \in {"reading", "draining", "exited", "faulted"}
  /\ todo = {} \/ todo \cap LossIntolerant # {}
  /\ pump' = "stopped"
  /\ todo' = {}
  /\ bootstrap' = EmptyBuffer
  /\ condemned' = consumers
  /\ UNCHANGED <<sourceVars, chunk, pc, consumers, closing, closed, channel,
                 aligning, taken>>

\* StartCoreAsync.  After an exit the bootstrap keeps what it had; after a
\* teardown every consumer it found has been completed.
Launch ==
  /\ \/ pump = "exited"
     \/ pump = "stopped" /\ condemned = {} /\ closing = {}
  /\ Cardinality(firsts) < MaxLaunches
  /\ firsts' = firsts \cup {Len(log) + 1}
  /\ pump' = "reading"
  /\ UNCHANGED <<log, chunk, todo, bootstrap, pc, leaseVars, channel, aligning,
                 taken>>

Next ==
  \/ \E stream \in Streams, n \in 1..MaxChunk : Chunk(stream, n)
  \/ \E c \in Consumers :
       \/ Dispatch(c) \/ Acquire(c) \/ Join(c) \/ GiveUp(c) \/ Read(c)
       \/ Close(c) \/ Leave(c) \/ Complete(c)
  \/ ProcessExits \/ EndOfStream \/ Teardown \/ Launch

\* The pump runs while it can, a detach that began ends, and a joined
\* loss-intolerant reader keeps reading (FFmpeg takes what it is fed).
Fairness ==
  /\ WF_vars(\E c \in Consumers : Dispatch(c))
  /\ WF_vars(\E c \in Consumers : Close(c))
  /\ WF_vars(\E c \in LossIntolerant : Read(c))

Spec == Init /\ [][Next]_vars /\ Fairness

-----------------------------------------------------------------------------
Buffers ==
  [packets : Seq([at : Nat, kind : Kinds]),
   pmtPid : BOOLEAN, videoPid : BOOLEAN]

TypeOK ==
  /\ log \in Seq(Kinds)
  /\ firsts \subseteq Nat
  /\ pump \in {"reading", "draining", "exited", "stopped", "faulted"}
  /\ chunk \in Seq(Nat)
  /\ todo \subseteq Consumers
  /\ bootstrap \in Buffers
  /\ pc \in [Consumers -> {"outside", "polling", "aligning", "joined", "gone"}]
  /\ consumers \subseteq Consumers
  /\ closing \subseteq Consumers
  /\ closed \subseteq Consumers
  /\ condemned \subseteq Consumers
  /\ channel \in [Consumers -> Seq(Seq(Nat))]
  /\ \A c \in Consumers : Len(channel[c]) <= Capacity
  /\ aligning \in [Consumers -> Buffers]
  /\ taken \in [Consumers -> Seq(Nat)]

\* A consumer that leaves, or is completed, while the pump waits for it to
\* take a chunk does not end the pump: everyone else keeps receiving.
PumpNeverFaults == pump # "faulted"

\* What the consumers read is what the abstract feed allows: in order and
\* nothing twice, and for the recording a decodable start and no gap but at
\* a launch of FFmpeg.
Feed == INSTANCE MediaFeed WITH received <- taken
FeedOrderAndContinuity == Feed!FeedSpec

=============================================================================
