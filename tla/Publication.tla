----------------------------- MODULE Publication -----------------------------
(***************************************************************************)
(* Publication of the broadcast presentation of one match by the agent     *)
(* (BroadcastPresentationPublicationHostedService and the callers of       *)
(* IBroadcastPresentationPublicationScheduler).  Requests are coalesced    *)
(* per key; one worker composes the whole state and sends it.              *)
(*                                                                         *)
(* The composed state has two parts read at different moments: the match   *)
(* row (score) and the in-memory clock and overlay.  Each is its version.  *)
(***************************************************************************)
EXTENDS Naturals, Sequences

CONSTANTS
  Taggers,   \* tagging requests
  Sources,   \* clock commands, ticks of the running clock, overlay calls
  MaxRow,    \* bound on the versions of the match row
  MaxLive,   \* bound on the versions of the clock and the overlay
  Faults     \* which of "publish" (the worker), "rest", "connect", "giveup"
             \* and "unmount" (the renderer) may happen

Writers == Taggers \cup Sources

ASSUME PublicationAssumption == MaxRow \in Nat /\ MaxLive \in Nat

Keys == {"match", "active"}   \* a match id, and ActiveMatchRequest

VARIABLES
  row,       \* version of the match row in the database
  live,      \* version of the clock and overlay state
  match,     \* the match's status: GetActiveMatchAsync returns a "live" one
  writer,    \* writer[w]: how far the caller is
  pending,   \* _pending
  requests,  \* _requests
  worker,    \* the reader of _requests: its step, its key, the row it read
  sent,      \* what the latest publication of this match carried
  missed     \* history: the versions there were when a request was last
             \* given up, for want of a live match or for a failure

stateVars  == <<row, live, match>>
serverVars == <<row, live, match, writer, pending, requests, worker, sent,
                missed>>

PublicationTypeOK ==
  /\ row \in Nat
  /\ live \in Nat
  /\ match \in {"setUp", "live", "over"}
  /\ writer \in [Writers -> {"idle", "scored", "changed", "tryMatch",
                             "tryActive"}]
  /\ pending \subseteq Keys
  /\ requests \in Seq(Keys)
  /\ worker \in [step : {"idle", "taken", "resolve", "row", "compose"},
                 key : Keys, row : Nat]
  /\ sent \in [row : Nat, live : Nat]
  /\ missed \in [row : Nat, live : Nat]

PublicationInit ==
  /\ row = 0 /\ live = 0
  /\ match \in {"setUp", "live"}
  /\ writer = [w \in Writers |-> "idle"]
  /\ pending = {} /\ requests = <<>>
  /\ worker = [step |-> "idle", key |-> "match", row |-> 0]
  /\ sent = [row |-> 0, live |-> 0]
  /\ missed = [row |-> 0, live |-> 0]

-----------------------------------------------------------------------------
(* The callers.                                                            *)

\* matches.UpdateAsync(match) of a scoring tag, or of its undo.
SaveScore(w) ==
  /\ writer[w] = "idle"
  /\ row < MaxRow
  /\ row' = row + 1
  /\ writer' = [writer EXCEPT ![w] = "scored"]
  /\ UNCHANGED <<live, match, pending, requests, worker, sent, missed>>

\* A clock command, a tick of the running clock or an overlay update has
\* changed the state; its StateChanged is still to be raised.
ChangeLive(w) ==
  /\ writer[w] = "idle"
  /\ live < MaxLive
  /\ live' = live + 1
  /\ writer' = [writer EXCEPT ![w] = "changed"]
  /\ UNCHANGED <<row, match, pending, requests, worker, sent, missed>>

\* The dispatcher saves the row of the match as live (start) or as over
\* (full time, abandon): always after the clock it commands.  Of these
\* publications it requests none itself.
OpenMatch ==
  /\ match = "setUp" /\ live > 0
  /\ match' = "live"
  /\ UNCHANGED <<row, live, writer, pending, requests, worker, sent, missed>>

CloseMatch ==
  /\ match = "live" /\ live > 0
  /\ match' = "over"
  /\ UNCHANGED <<row, live, writer, pending, requests, worker, sent, missed>>

\* Mutant: one pending request of any key coalesces them all.
QueueKeyOnce(w, key, try) ==
  IF pending # {}
  THEN /\ writer' = [writer EXCEPT ![w] = "idle"]
       /\ UNCHANGED pending
  ELSE /\ writer' = [writer EXCEPT ![w] = try]
       /\ pending' = {key}

\* Queue(key): a key that is pending already is dropped.
QueueKey(w, key, try) ==
  IF key \in pending
  THEN /\ writer' = [writer EXCEPT ![w] = "idle"]
       /\ UNCHANGED pending
  ELSE /\ writer' = [writer EXCEPT ![w] = try]
       /\ pending' = pending \cup {key}

\* RequestPublication(matchId).
RequestPublication(w) ==
  /\ writer[w] = "scored"
  /\ QueueKey(w, "match", "tryMatch")
  /\ UNCHANGED <<stateVars, requests, worker, sent, missed>>

\* Mutant: only a match that is live already has its changes published.
OnLiveStateChanged(w) ==
  /\ writer[w] = "changed"
  /\ IF match = "live"
     THEN QueueKey(w, "active", "tryActive")
     ELSE writer' = [writer EXCEPT ![w] = "idle"] /\ UNCHANGED pending
  /\ UNCHANGED <<stateVars, requests, worker, sent, missed>>

\* OnClockStateChanged, OnOverlayStateChanged.
OnStateChanged(w) ==
  /\ writer[w] = "changed"
  /\ QueueKey(w, "active", "tryActive")
  /\ UNCHANGED <<stateVars, requests, worker, sent, missed>>

TryWrite(w) ==
  /\ writer[w] \in {"tryMatch", "tryActive"}
  /\ requests' = Append(requests, IF writer[w] = "tryMatch" THEN "match"
                                                            ELSE "active")
  /\ writer' = [writer EXCEPT ![w] = "idle"]
  /\ UNCHANGED <<stateVars, pending, worker, sent, missed>>

-----------------------------------------------------------------------------
(* The worker.                                                             *)

\* ReadAllAsync returns the next key.
TakeRequest ==
  /\ worker.step = "idle"
  /\ requests # <<>>
  /\ worker' = [worker EXCEPT !.step = "taken", !.key = Head(requests)]
  /\ requests' = Tail(requests)
  /\ UNCHANGED <<stateVars, writer, pending, sent, missed>>

\* Mutant: the key stays pending.
ForgetNoKey ==
  /\ worker.step = "taken"
  /\ worker' = [worker EXCEPT !.step = IF worker.key = "active" THEN "resolve"
                                                                ELSE "row"]
  /\ UNCHANGED <<stateVars, writer, pending, requests, sent, missed>>

\* _pending.TryRemove, before anything is read.
ForgetKey ==
  /\ worker.step = "taken"
  /\ pending' = pending \ {worker.key}
  /\ worker' = [worker EXCEPT !.step = IF worker.key = "active" THEN "resolve"
                                                                ELSE "row"]
  /\ UNCHANGED <<stateVars, writer, requests, sent, missed>>

\* ResolveActiveMatchIdAsync.  With no live match (or another one) this
\* match is not published.
ResolveActiveMatch ==
  /\ worker.step = "resolve"
  /\ worker' = [worker EXCEPT !.step = IF match = "live" THEN "row" ELSE "idle"]
  /\ missed' = IF match = "live" THEN missed ELSE [missed EXCEPT !.live = live]
  /\ UNCHANGED <<stateVars, writer, pending, requests, sent>>

\* CreateStateAsync: GetByIdAsync...
ReadRow ==
  /\ worker.step = "row"
  /\ worker' = [worker EXCEPT !.step = "compose", !.row = row]
  /\ UNCHANGED <<stateVars, writer, pending, requests, sent, missed>>

\* Mutant: a delta instead of the complete state.
ComposedDelta == [live |-> live]

Composed == [row |-> worker.row, live |-> live]

\* ... then the clock snapshot and the overlay, and SendAsync to the group.
Publish ==
  /\ worker.step = "compose"
  /\ sent' = Composed
  /\ worker' = [worker EXCEPT !.step = "idle"]
  /\ UNCHANGED <<stateVars, writer, pending, requests, missed>>

\* Any exception is logged, and the loop goes on.  (Bound: until a score has
\* been given up.)
PublishFails ==
  /\ "publish" \in Faults
  /\ missed.row = 0
  /\ worker.step \in {"resolve", "row", "compose"}
  /\ worker' = [worker EXCEPT !.step = "idle"]
  /\ missed' = [row |-> row, live |-> live]
  /\ UNCHANGED <<stateVars, writer, pending, requests, sent>>

Announce(w) == RequestPublication(w) \/ OnStateChanged(w) \/ TryWrite(w)

WriterStep ==
  \/ \E w \in Taggers : SaveScore(w)
  \/ \E w \in Sources : ChangeLive(w)
  \/ \E w \in Writers : Announce(w)

WorkerStep ==
  TakeRequest \/ ForgetKey \/ ResolveActiveMatch \/ ReadRow

PublicationNext ==
  \/ WriterStep
  \/ OpenMatch \/ CloseMatch
  \/ WorkerStep \/ Publish \/ PublishFails

PublicationSpec == PublicationInit /\ [][PublicationNext]_serverVars

-----------------------------------------------------------------------------
\* Somebody holds key: it is in the channel, about to be written to it, or
\* taken from it and not forgotten yet.
Held(key) ==
  \/ \E i \in 1..Len(requests) : requests[i] = key
  \/ \E w \in Writers :
       writer[w] = (IF key = "match" THEN "tryMatch" ELSE "tryActive")
  \/ worker.step = "taken" /\ worker.key = key

\* Coalescing loses no score.  One that is newer than every publication, and
\* than every publication that failed, is about to be announced by the request
\* that saved it, has its request held, or is (or will be) read by the worker.
NoScoreLost ==
  \/ sent.row >= row \/ missed.row >= row
  \/ \E w \in Writers : writer[w] = "scored"
  \/ Held("match")
  \/ worker.step = "row"
  \/ worker.step = "compose" /\ worker.row >= row

\* The same for the clock and the overlay, except that a change may have been
\* dropped because the match was not the live one when it was resolved.
NoLiveLost ==
  \/ sent.live >= live \/ missed.live >= live
  \/ \E w \in Writers : writer[w] = "changed"
  \/ Held("active")
  \/ worker.step \in {"resolve", "row", "compose"}

=============================================================================
