------------------------------ MODULE MediaFeed ------------------------------
(***************************************************************************)
(* What the canonical media receiver promises its consumers, without       *)
(* locks, channels, buffers or a pump: the camera's packets form one log,  *)
(* cut into launches of FFmpeg, and a consumer receives packets of it.     *)
(* A loss-intolerant consumer (the recording) starts at a point it can     *)
(* decode from and misses packets nowhere but at a launch boundary; any    *)
(* consumer receives in order and nothing twice.                           *)
(***************************************************************************)
EXTENDS Naturals, Sequences, SequencesExt

CONSTANTS
  Consumers,
  LossIntolerant  \* the consumers that must not lose packets

VARIABLES
  log,       \* the kinds of the packets FFmpeg has written, numbered from 1
  firsts,    \* the number of the first packet of each launch
  received   \* received[c]: the numbers of the packets consumer c has read

feedVars == <<log, firsts, received>>

Increasing(s) == \A i \in 1..Len(s)-1 : s[i] < s[i+1]

\* Nothing is missing in s but the end of a launch that is over.
Gapless(s) ==
  \A i \in 1..Len(s)-1 : s[i+1] = s[i] + 1 \/ s[i+1] \in firsts

\* A decoder can start on s: its tables come first and a key frame follows.
Decodable(s) ==
  /\ s # <<>>
  /\ log[s[1]] = "pat"
  /\ \E i, j \in 1..Len(s) : i < j /\ log[s[i]] = "pmt" /\ log[s[j]] = "idr"

FeedInit ==
  /\ log = <<>>
  /\ firsts = {1}
  /\ received = [c \in Consumers |-> <<>>]

Write ==
  /\ IsStrictPrefix(log, log')
  /\ UNCHANGED <<firsts, received>>

Relaunch ==
  /\ firsts' = firsts \cup {Len(log) + 1}
  /\ UNCHANGED <<log, received>>

Receive(c) ==
  /\ \A d \in Consumers \ {c} : received'[d] = received[d]
  /\ IsStrictPrefix(received[c], received'[c])
  /\ \A i \in 1..Len(received'[c]) : received'[c][i] \in 1..Len(log)
  /\ Increasing(received'[c])
  /\ c \in LossIntolerant =>
       Gapless(received'[c]) /\ Decodable(received'[c])
  /\ UNCHANGED <<log, firsts>>

FeedNext == Write \/ Relaunch \/ \E c \in Consumers : Receive(c)

FeedSpec == FeedInit /\ [][FeedNext]_feedVars

=============================================================================
