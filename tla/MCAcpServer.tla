---------------------------- MODULE MCAcpServer ----------------------------
(* Small instances of AcpServer for TLC. *)
EXTENDS AcpServer
OnlyFirst == [r \in 1..MaxRequests |-> IF r = 1 THEN 1 ELSE 0]
=============================================================================
