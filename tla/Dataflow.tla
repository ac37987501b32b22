------------------------------- MODULE Dataflow -------------------------------
(***************************************************************************)
(* What an execution graph promises, whatever schedule runs it: a node is  *)
(* decided once, after every node it has an edge from; it is skipped only  *)
(* when the outputs of the sources of its incoming edges satisfy none of   *)
(* them, and runs only when they may satisfy one or there is no such edge; *)
(* and the run is over only when every node is decided.                    *)
(*                                                                         *)
(* The graph's documentation calls an edge without a condition satisfied   *)
(* always, the planner's prompt and the executor's call it one that asks   *)
(* for success.  Which of the two it is after a source that failed or was  *)
(* skipped is left open here: such a node may run or be skipped.           *)
(***************************************************************************)
CONSTANTS Node, Condition

VARIABLES nodes, edges, out, over

Outputs == {"text", "tool", "match", "error"}

(* What an output satisfies for certain, and an edge that may be satisfied.*)
Satisfies(o, c) ==
    \/ c = "none"    /\ o \in {"text", "tool", "match"}
    \/ c = "failure" /\ o = "error"
    \/ c = "match"   /\ o = "match"

Into(n) == {e \in edges : e[2] = n}
Enabled(n) == Into(n) = {} \/ \E e \in Into(n) : Satisfies(out[e[1]], e[3])
Possible(n) == Enabled(n) \/ \E e \in Into(n) : e[3] = "none"

Init ==
    /\ nodes = {} /\ edges = {} /\ over = FALSE
    /\ out = [n \in Node |-> "open"]

Plan ==
    /\ nodes = {} /\ ~over
    /\ nodes' \in (SUBSET Node) \ {{}}
    /\ edges' \in SUBSET (nodes' \X nodes' \X Condition)
    /\ UNCHANGED <<out, over>>

(* "lost": the node's task panicked and left nothing.                      *)
Decide(n) ==
    /\ n \in nodes /\ out[n] = "open" /\ ~over
    /\ \A e \in Into(n) : out[e[1]] # "open"
    /\ \E o \in Outputs \cup {"skipped", "lost"} :
         /\ IF o = "skipped" THEN ~Enabled(n) ELSE Possible(n)
         /\ out' = [out EXCEPT ![n] = o]
    /\ UNCHANGED <<nodes, edges, over>>

End ==
    /\ ~over /\ nodes # {} /\ \A n \in nodes : out[n] # "open"
    /\ over' = TRUE
    /\ UNCHANGED <<nodes, edges, out>>

Next == Plan \/ (\E n \in Node : Decide(n)) \/ End

Spec == Init /\ [][Next]_<<nodes, edges, out, over>>
=============================================================================
