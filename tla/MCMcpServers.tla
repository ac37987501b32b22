---------------------------- MODULE MCMcpServers ----------------------------
(* Instances of McpServers for TLC. *)
EXTENDS McpServers

\* a server that knows the newest version, one that knows older ones, one that knows none
MCServerVersions == {{3}, {1, 2, 4}, {0}}
=============================================================================
