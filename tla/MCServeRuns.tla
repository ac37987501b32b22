----------------------------- MODULE MCServeRuns -----------------------------
(* Instances of ServeRuns for TLC. *)
EXTENDS ServeRuns, TLC

Symmetric == Permutations(Runs) \cup Permutations(Requests)
=============================================================================
