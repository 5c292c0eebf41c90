-------------------------- MODULE MCMediaDispatch --------------------------
(* Small instances of MediaDispatch and Streaming.  A behaviour has one of *)
(* two scopes: the pump with its readers, or the streaming service, which  *)
(* is one of those readers and sees of them only its lease.                *)
EXTENDS MediaDispatch, Streaming

VARIABLE scope

\* A key frame followed by enough packets to put it out of the bootstrap, and
\* one that precedes the first PMT and cannot be joined at.
SmallStreams ==
  {<<"pat", "pmt", "idr", "other", "other">>,
   <<"pat", "idr", "pmt", "idr", "other">>}

MCInit == Init /\ StreamingInit /\ scope \in {"feed", "streaming"}

MCNext ==
  /\ \/ scope = "feed" /\ Next /\ UNCHANGED streamingVars
     \/ scope = "streaming" /\ StreamingNext /\ UNCHANGED vars
  /\ UNCHANGED scope

\* The initial state asks nothing of either part's fairness, so that the part
\* out of the scope is left alone by it.
MCSpec ==
  /\ MCInit /\ [][MCNext]_<<vars, streamingVars, scope>>
  /\ Fairness /\ StreamingFairness

\* What keeps others waiting ends.  A chunk's distribution does, although a
\* reader leaves or is completed in the middle of it (a loss-intolerant one
\* that stops reading holds the pump, which is why its reading is assumed);
\* and whoever holds the streaming service's gate gives it back, so that a
\* stop gets its turn: a task that reconnects holds it over every delay and
\* acquisition, but the attempts are counted.  (Only the part in the scope
\* ever makes anybody wait.)
WaitsEnd ==
  (todo # {} \/ holder # "none") ~> (todo = {} /\ holder = "none")

\* Both parts' states are of their types.
TypesOK == TypeOK /\ StreamingTypeOK

=============================================================================
