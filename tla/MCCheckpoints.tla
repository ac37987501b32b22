---------------------------- MODULE MCCheckpoints ----------------------------
(* Instances of Checkpoints for TLC. *)
EXTENDS Checkpoints

Symmetry == Permutations(Paths) \cup Permutations(Agents)

\* Once lines were forked, cut or torn the properties promise nothing more.
Promising == marks \cap {"forked", "cut", "torn"} = {}
=============================================================================
