---------------------------- MODULE MCCoordinator ----------------------------
(* Instances of Coordinator for TLC. *)
EXTENDS Coordinator

\* node 4 is cut off by MaxNodes
MCKinds == << {"tool", "write"}, {"parallel", "parallel write"}, {"think", "delegate"}, {"write"} >>
MCEdges == { <<1, 2, "failure">>, <<1, 3, "match">>, <<2, 3, "failure">>,
             <<3, 1, "none">>, <<4, 3, "none">> }
MCHints == { <<2, 3>> }
=============================================================================
