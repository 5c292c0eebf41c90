-------------------------- MODULE MCStreamReceiver --------------------------
(* Small instances of StreamReceiver.                                      *)
EXTENDS StreamReceiver
=============================================================================
