-------------------------- MODULE MCDelegateEngine --------------------------
EXTENDS DelegateEngine
(* A coder that degrades to a preset nobody registered. *)
MCDegradeMap == [a \in {"coder"} |-> "ghost"]
=============================================================================
