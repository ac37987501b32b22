------------------------- MODULE MCExecutionLedger -------------------------
(* Small instances of ExecutionLedger for TLC. *)
EXTENDS ExecutionLedger, TLC

CONSTANT MaxContended  \* the longest log two writers work on together

Symmetry == Permutations(Calls) \cup Permutations(Writers) \cup Permutations(Runs)

\* Beyond MaxContended events one writer goes on alone; the others have
\* crashed and observed nothing since.
SoleWriter ==
    \A r \in Runs : Len(events[r]) > MaxContended =>
        \A w, v \in Writers : w # v => \/ view[w][r] = 0 /\ ~Holds(w)
                                       \/ view[v][r] = 0 /\ ~Holds(v)
=============================================================================
