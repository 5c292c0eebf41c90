------------------------ MODULE MCBroadcastRenderer ------------------------
(* Small instances of BroadcastRenderer.                                   *)
EXTENDS BroadcastRenderer, TLC

\* A scoreboard at first, and a template that the page does not know then.
ScoreboardThenUnknown ==
  0 :> [visible |-> TRUE, template |-> "scoreboard"]
  @@ 1 :> [visible |-> TRUE, template |-> "sponsor"]

=============================================================================
