---------------------------- MODULE ToolLifecycle ----------------------------
(***************************************************************************)
(* What a durable execution ledger promises of a run and of each tool      *)
(* call in it, without logs, projections, writers or transactions: a run   *)
(* is accepted once and ends once; a call moves along the edges below, one *)
(* call at a time and only while its run is open; a run does not succeed   *)
(* while the outcome of a call is open.                                    *)
(***************************************************************************)
CONSTANTS Runs, Calls

VARIABLES
    run,   \* the stage of each run
    tool   \* the stage of each call of each run

RunStage  == {"none", "open", "succeeded", "stopped"}
ToolStage == {"unknown", "pending", "gated", "barred", "running", "settled"}

\* No edge leaves "barred" or "settled", and none returns to "running".
Edges == {<<"unknown", "pending">>,
          <<"pending", "gated">>, <<"gated", "pending">>,
          <<"pending", "barred">>, <<"gated", "barred">>,
          <<"pending", "running">>, <<"running", "settled">>}

Init ==
    /\ run = [r \in Runs |-> "none"]
    /\ tool = [r \in Runs |-> [c \in Calls |-> "unknown"]]

Accept(r) ==
    /\ run[r] = "none"
    /\ run' = [run EXCEPT ![r] = "open"]
    /\ UNCHANGED tool

Move(r, c) ==
    /\ run[r] = "open"
    /\ \E s \in ToolStage :
          /\ <<tool[r][c], s>> \in Edges
          /\ tool' = [tool EXCEPT ![r][c] = s]
    /\ UNCHANGED run

Succeed(r) ==
    /\ run[r] = "open"
    /\ \A c \in Calls : tool[r][c] # "running"
    /\ run' = [run EXCEPT ![r] = "succeeded"]
    /\ UNCHANGED tool

Stop(r) ==
    /\ run[r] = "open"
    /\ run' = [run EXCEPT ![r] = "stopped"]
    /\ UNCHANGED tool

Next == \E r \in Runs : \/ Accept(r)
                        \/ \E c \in Calls : Move(r, c)
                        \/ Succeed(r)
                        \/ Stop(r)

Spec == Init /\ [][Next]_<<run, tool>>
=============================================================================
