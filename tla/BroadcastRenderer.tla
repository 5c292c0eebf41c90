-------------------------- MODULE BroadcastRenderer --------------------------
(***************************************************************************)
(* The broadcast renderer (artifacts/broadcast-renderer): a page that      *)
(* loads the presentation of one match over REST, follows it over a        *)
(* SignalR connection that reconnects by itself, and draws it.  It is      *)
(* composed with the agent that publishes (Publication).                   *)
(*                                                                         *)
(* The page is single-threaded: an action is one turn of its event loop,   *)
(* with the promise reactions that follow it at once.  The SignalR client  *)
(* is modelled by what the page relies on: messages in order while         *)
(* connected, lost with the connection, group membership lost with it too. *)
(***************************************************************************)
EXTENDS Publication

CONSTANTS
  Reconnections,   \* calls of the onreconnected callback: a bound on the
                   \* connections lost
  DropsWait,       \* environment: a connection is only lost while no REST
                   \* load of the page is outstanding
  Look             \* Look[live]: what the overlay asks for: visible, template

ASSUME RendererAssumption ==
  /\ Reconnections \cap {"bootstrap", "first"} = {}
  /\ DropsWait \in BOOLEAN
  /\ Look \in [0..MaxLive -> [visible : BOOLEAN, template : STRING]]

\* The asynchronous functions that load the presentation: the page's first
\* load, recoverCanonicalState at the end of the start, and that of each
\* onreconnected callback.
Loads == {"bootstrap", "first"} \cup Reconnections

Nothing == [row |-> 0, live |-> 0, none |-> TRUE]
Version == [row : Nat, live : Nat, none : BOOLEAN]
Message(v) == [row |-> v.row, live |-> v.live, none |-> FALSE]

VARIABLES
  pc,          \* pc[f]: where the asynchronous function f awaits
  answer,      \* answer[f]: what the agent has put into its REST answer
  recovering,  \* recovering
  queued,      \* queuedPresentation, or Nothing
  cancelled,   \* cancelled
  status,      \* state.status
  shown,       \* state.presentation, or Nothing
  conn,        \* connection.state
  begun,       \* onreconnected callbacks that have run
  joined,      \* the agent has the connection in the match's group
  wire         \* what is on its way to the page, oldest first

pageVars   == <<recovering, queued, cancelled, status, shown>>
linkVars   == <<conn, begun, joined, wire>>
clientVars == <<pc, answer, pageVars, linkVars>>
vars       == <<serverVars, clientVars>>

\* The entry of wire that completes the invocation of JoinMatch by f.
JoinedReply(f) == [join |-> f]

Awaits == {"idle",    \* not called, or over
           "connect", \* realtime.start(): connection.start()
           "join",    \* invoke(JoinMatch), not yet processed
           "reply",   \* processed, its completion not yet sent
           "joining", \* its completion on the wire
           "load",    \* REST, the row not yet read
           "read",    \* the row read
           "loaded"}  \* the answer on its way

RendererTypeOK ==
  /\ PublicationTypeOK
  /\ pc \in [Loads -> Awaits]
  /\ answer \in [Loads -> Version]
  /\ recovering \in BOOLEAN
  /\ queued \in Version
  /\ cancelled \in BOOLEAN
  /\ status \in {"loading", "live", "stale", "error"}
  /\ shown \in Version
  /\ conn \in {"disconnected", "connecting", "connected", "reconnecting",
               "leaving"}
  /\ begun \subseteq Reconnections
  /\ joined \in BOOLEAN
  /\ \A i \in 1..Len(wire) :
       wire[i] \in Version \cup {JoinedReply(f) : f \in Loads}

\* The first turn of the effect: the state is "loading" and the bootstrap
\* load is under way.
RendererInit ==
  /\ pc = [f \in Loads |-> IF f = "bootstrap" THEN "load" ELSE "idle"]
  /\ answer = [f \in Loads |-> Nothing]
  /\ recovering = FALSE /\ queued = Nothing /\ cancelled = FALSE
  /\ status = "loading" /\ shown = Nothing
  /\ conn = "disconnected" /\ begun = {} /\ joined = FALSE /\ wire = <<>>

Init == PublicationInit /\ RendererInit

-----------------------------------------------------------------------------
(* What the page's functions do with its state.                            *)

\* applyPresentation.  Its state is also "stale" when the clock was observed
\* more than 15 s before the arrival: time is left out, arrivals are prompt.
Apply(v) ==
  IF cancelled
  THEN UNCHANGED <<status, shown>>
  ELSE status' = "live" /\ shown' = v

\* Mutant: what is shown is dropped.
MarkStaleBlank ==
  /\ status' = IF cancelled THEN status
               ELSE IF shown.none THEN "error" ELSE "stale"
  /\ shown' = IF cancelled THEN shown ELSE Nothing

\* markStale.
MarkStale ==
  /\ status' = IF cancelled THEN status
               ELSE IF shown.none THEN "error" ELSE "stale"
  /\ UNCHANGED shown

\* Mutant: no gate.
ReceiveUngated(v) == Apply(v) /\ UNCHANGED queued

\* receiveRealtimePresentation.
Receive(v) ==
  IF recovering /\ ~cancelled
  THEN queued' = v /\ UNCHANGED <<status, shown>>
  ELSE Apply(v) /\ UNCHANGED queued

\* recoverCanonicalState, as far as its await.
BeginRecovery(f) ==
  /\ recovering' = TRUE
  /\ pc' = [pc EXCEPT ![f] = "load"]

\* Mutant: the message queued meanwhile is forgotten.
EndRecoveryForgets(f) ==
  /\ Apply(answer[f])
  /\ queued' = IF cancelled THEN queued ELSE Nothing
  /\ recovering' = FALSE
  /\ pc' = [pc EXCEPT ![f] = "idle"]

\* ... and after it: the answer, then the message queued meanwhile, and the
\* finally.
EndRecovery(f) ==
  /\ Apply(IF queued.none THEN answer[f] ELSE queued)
  /\ queued' = IF cancelled THEN queued ELSE Nothing
  /\ recovering' = FALSE
  /\ pc' = [pc EXCEPT ![f] = "idle"]

-----------------------------------------------------------------------------
(* What the page draws (App).                                              *)

\* resolveBroadcastTemplate: none is the historic default, and one has an
\* alias.
ResolveTemplate(id) ==
  IF id \in {"", "scoreboard", "standard-scoreboard"} THEN "standard-scoreboard"
  ELSE IF id \in {"fullscreen-score", "lower-third"} THEN id
  ELSE "unsupported"

RenderStandardScoreboard ==
  /\ ~shown.none
  /\ Look[shown.live].visible
  /\ ResolveTemplate(Look[shown.live].template) = "standard-scoreboard"

Diagnostic == IF shown.none /\ status \in {"loading", "error"} THEN status
              ELSE "none"

-----------------------------------------------------------------------------
(* REST: GET .../broadcast-presentation.                                   *)

\* The agent reads the row, then composes the rest.
AnswerRow(f) ==
  /\ pc[f] = "load"
  /\ pc' = [pc EXCEPT ![f] = "read"]
  /\ answer' = [answer EXCEPT ![f] = Message([row |-> row, live |-> 0])]
  /\ UNCHANGED <<serverVars, pageVars, linkVars>>

AnswerLoad(f) ==
  /\ pc[f] = "read"
  /\ pc' = [pc EXCEPT ![f] = "loaded"]
  /\ answer' = [answer EXCEPT ![f].live = live]
  /\ UNCHANGED <<serverVars, pageVars, linkVars>>

\* The page has its bootstrap presentation: it shows it, closes the gate and
\* calls realtime.start().
BootstrapLoaded ==
  /\ pc["bootstrap"] = "loaded"
  /\ Apply(answer["bootstrap"])
  /\ IF cancelled
     THEN /\ pc' = [pc EXCEPT !["bootstrap"] = "idle"]
          /\ UNCHANGED <<recovering, queued, conn>>
     ELSE /\ recovering' = TRUE /\ queued' = Nothing
          /\ conn' = "connecting"
          /\ pc' = [pc EXCEPT !["bootstrap"] = "idle", !["first"] = "connect"]
  /\ answer' = [answer EXCEPT !["bootstrap"] = Nothing]
  /\ UNCHANGED <<serverVars, cancelled, begun, joined, wire>>

RecoveryLoaded(f) ==
  /\ f # "bootstrap"
  /\ pc[f] = "loaded"
  /\ EndRecovery(f)
  /\ answer' = [answer EXCEPT ![f] = Nothing]
  /\ UNCHANGED <<serverVars, cancelled, linkVars>>

\* The request fails.  The catch of the start clears recovering, as does the
\* finally of a recovery; the queued message stays where it is.
LoadFails(f) ==
  /\ "rest" \in Faults
  /\ pc[f] \in {"load", "read", "loaded"}
  /\ pc' = [pc EXCEPT ![f] = "idle"]
  /\ answer' = [answer EXCEPT ![f] = Nothing]
  /\ recovering' = FALSE
  /\ MarkStale
  /\ UNCHANGED <<serverVars, queued, cancelled, linkVars>>

-----------------------------------------------------------------------------
(* The connection.                                                         *)

\* connection.start() succeeds; JoinMatch is invoked.
Connected ==
  /\ pc["first"] = "connect" /\ conn = "connecting"
  /\ conn' = "connected"
  /\ pc' = [pc EXCEPT !["first"] = "join"]
  /\ UNCHANGED <<serverVars, answer, pageVars, begun, joined, wire>>

\* It fails, and so does the start; nobody tries again.
ConnectFails ==
  /\ "connect" \in Faults
  /\ pc["first"] = "connect" /\ conn = "connecting"
  /\ conn' = "disconnected"
  /\ pc' = [pc EXCEPT !["first"] = "idle"]
  /\ recovering' = FALSE
  /\ MarkStale
  /\ UNCHANGED <<serverVars, answer, queued, cancelled, begun, joined, wire>>

\* MatchHub.JoinMatch, and its completion.
JoinMatch(f) ==
  /\ pc[f] = "join" /\ conn \in {"connected", "leaving"}
  /\ joined' = TRUE
  /\ pc' = [pc EXCEPT ![f] = "reply"]
  /\ UNCHANGED <<serverVars, answer, pageVars, conn, begun, wire>>

ReplyJoin(f) ==
  /\ pc[f] = "reply" /\ conn \in {"connected", "leaving"}
  /\ wire' = Append(wire, JoinedReply(f))
  /\ pc' = [pc EXCEPT ![f] = "joining"]
  /\ UNCHANGED <<serverVars, answer, pageVars, conn, begun, joined>>

\* The page takes the next thing off the wire: a publication, or the
\* completion of a join, which starts a recovery.
Deliver ==
  /\ wire # <<>>
  /\ conn \in {"connected", "leaving"}
  /\ wire' = Tail(wire)
  /\ \/ /\ Head(wire) \in Version
        /\ Receive(Head(wire))
        /\ UNCHANGED <<pc, recovering>>
     \/ \E f \in Loads :
          /\ Head(wire) = JoinedReply(f)
          /\ IF f = "first" /\ cancelled
             THEN /\ pc' = [pc EXCEPT ![f] = "idle"]
                  /\ UNCHANGED recovering
             ELSE BeginRecovery(f)
          /\ UNCHANGED <<queued, status, shown>>
  /\ UNCHANGED <<serverVars, answer, cancelled, conn, begun, joined>>

\* Functions that wait for their join, and for their REST answer.
Joining == {f \in Loads : pc[f] \in {"join", "reply", "joining"}}

Loading == {f \in Loads : pc[f] \in {"load", "read", "loaded"}}

\* The connection is lost.  onReconnecting closes the gate; then a join that
\* was outstanding is rejected, and its handler (onRecoveryError, or the catch
\* of the start) opens it again.
Drop ==
  /\ conn = "connected"
  /\ begun # Reconnections
  /\ DropsWait => Loading = {}
  /\ conn' = "reconnecting"
  /\ joined' = FALSE /\ wire' = <<>>
  /\ recovering' = (Joining = {})
  /\ queued' = Nothing
  /\ MarkStale
  /\ pc' = [f \in Loads |-> IF f \in Joining THEN "idle" ELSE pc[f]]
  /\ UNCHANGED <<serverVars, answer, cancelled, begun>>

\* The automatic reconnection succeeds: onreconnected joins the group again.
Reconnected ==
  /\ conn = "reconnecting"
  /\ conn' = "connected"
  /\ \E f \in Reconnections \ begun :
       /\ begun' = begun \cup {f}
       /\ pc' = [pc EXCEPT ![f] = "join"]
  /\ UNCHANGED <<serverVars, answer, pageVars, joined, wire>>

\* It gives up: onClosed.
GiveUp ==
  /\ "giveup" \in Faults
  /\ conn = "reconnecting"
  /\ conn' = "disconnected"
  /\ recovering' = FALSE /\ queued' = Nothing
  /\ MarkStale
  /\ UNCHANGED <<serverVars, pc, answer, cancelled, begun, joined, wire>>

-----------------------------------------------------------------------------
(* The end of the page, and of the StrictMode rehearsal of its mount.      *)

\* Mutant: only an established connection is stopped.
UnmountConnectedOnly ==
  /\ "unmount" \in Faults
  /\ ~cancelled
  /\ cancelled' = TRUE /\ recovering' = FALSE /\ queued' = Nothing
  /\ conn' = IF conn = "connected" THEN "leaving" ELSE conn
  /\ UNCHANGED <<serverVars, pc, answer, status, shown, begun, joined, wire>>

\* The cleanup of the effect; realtime.stop() leaves the group first when it
\* is connected and otherwise stops the connection at once.
Unmount ==
  /\ "unmount" \in Faults
  /\ ~cancelled
  /\ cancelled' = TRUE /\ recovering' = FALSE /\ queued' = Nothing
  /\ conn' = IF conn = "connected" THEN "leaving" ELSE "disconnected"
  /\ pc' = IF conn = "connecting" THEN [pc EXCEPT !["first"] = "idle"] ELSE pc
  /\ UNCHANGED <<serverVars, answer, status, shown, begun, joined, wire>>

\* LeaveMatch has been processed or has failed, after a join that was
\* outstanding: connection.stop() rejects whatever is left.
Stopped ==
  /\ conn = "leaving"
  /\ {f \in Loads : pc[f] \in {"join", "reply"}} = {}
  /\ conn' = "disconnected" /\ joined' = FALSE /\ wire' = <<>>
  /\ pc' = [f \in Loads |-> IF f \in Joining THEN "idle" ELSE pc[f]]
  /\ UNCHANGED <<serverVars, answer, pageVars, begun>>

-----------------------------------------------------------------------------
\* SendAsync reaches the connection when it is in the group.
Send ==
  /\ Publish
  /\ wire' = IF joined THEN Append(wire, Message(Composed)) ELSE wire
  /\ UNCHANGED <<pc, answer, pageVars, conn, begun, joined>>

ServerStep ==
  /\ \/ WriterStep
     \/ OpenMatch \/ CloseMatch
     \/ WorkerStep \/ PublishFails
  /\ UNCHANGED clientVars

LoadStep(f) == AnswerRow(f) \/ AnswerLoad(f) \/ RecoveryLoaded(f)

LinkStep ==
  \/ BootstrapLoaded \/ Connected \/ Deliver \/ Reconnected \/ Stopped
  \/ \E f \in Loads : JoinMatch(f) \/ ReplyJoin(f)

Next ==
  \/ ServerStep \/ Send
  \/ LinkStep
  \/ \E f \in Loads : LoadStep(f) \/ LoadFails(f)
  \/ ConnectFails \/ Drop \/ GiveUp \/ Unmount

\* The agent's tasks run; a request is answered; the connection delivers and
\* is established or given up.
Fairness ==
  /\ WF_vars((\E w \in Writers : Announce(w)) /\ UNCHANGED clientVars)
  /\ WF_vars(WorkerStep /\ UNCHANGED clientVars)
  /\ WF_vars(Send)
  /\ WF_vars(LinkStep)
  /\ WF_vars(\E f \in Loads : LoadStep(f))

Spec == Init /\ [][Next]_vars
FairSpec == Spec /\ Fairness

-----------------------------------------------------------------------------
\* "Gate realtime messages until the post-join recovery snapshot has closed
\* the REST-to-SignalR publication gap": what is shown never changes by a
\* message while a snapshot of the page is still outstanding.
MessagesWaitForSnapshot ==
  [][(/\ Len(wire') < Len(wire)
      /\ shown' # shown) => Loading \ {"bootstrap"} = {}]_vars

\* A page that says it is live ends up showing the state of the match: when
\* nothing changes any more, either it is known to be stale or in error, or it
\* shows the last score, clock and overlay whose publication was not given up.
\* So however publications, loads, joins, faults and recoveries interleave, if
\* a connection is lost only while no load is outstanding (DropsWait); one that
\* is lost during a load leaves two recoveries, whose snapshots nothing orders.
LiveMeansCurrent ==
  <>[](status = "live" /\ ~cancelled =>
         /\ shown.row = row \/ missed.row = row
         /\ shown.live = live \/ missed.live = live)

\* Once a presentation is shown no failure covers it with a diagnostic, and
\* a scoreboard leaves the output only when a presentation is shown of which
\* the overlay asks for something else: not by a connection that is lost or
\* closed, nor by a load or join that fails (App.tsx, markStale).
OutputSurvivesFaults ==
  [][~shown.none =>
       /\ Diagnostic' = "none"
       /\ RenderStandardScoreboard /\ ~RenderStandardScoreboard'
            => Look[shown'.live] # Look[shown.live]]_vars

\* A page that has gone leaves no connection behind, wherever its start, a
\* reconnection or a recovery was.
UnmountDisconnects ==
  <>[](cancelled => conn = "disconnected" /\ ~joined)

=============================================================================
