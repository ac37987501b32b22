---------------------------- MODULE MCServeSessions ----------------------------
(* Instances of ServeSessions for TLC. *)
EXTENDS ServeSessions
=============================================================================
