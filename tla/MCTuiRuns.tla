------------------------------ MODULE MCTuiRuns ------------------------------
(* Instances of TuiRuns for TLC. *)
EXTENDS TuiRuns
=============================================================================
