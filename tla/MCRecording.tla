---------------------------- MODULE MCRecording ----------------------------
(* Small instances of Recording.                                           *)
EXTENDS Recording

\* With all the faults: no crash, no segment files, and handlers of any pace.
Bounds ==
  IF Dependable THEN HandlersArePrompt
  ELSE crashes = 0 /\ \A n \in Numbers : file[n] = 0

Regimes == {{"start", "hang", "source"},
            {"start", "save", "hang", "kill", "source"}}
NoFaults == {{}}

=============================================================================
