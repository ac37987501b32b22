----------------------------- MODULE McpServers -----------------------------
(***************************************************************************)
(* A connected MCP server: a child process when the configuration names a  *)
(* command, an HTTP endpoint when it names a URL.                          *)
(***************************************************************************)
EXTENDS McpStdio, McpHttp

CONSTANT Transports  \* the kinds of servers in the configuration

ASSUME TransportAssumption == Transports \subseteq {"stdio", "http"}

VARIABLE transport   \* of the McpServerConnection

vars == <<transport, svars, hvars>>

Init ==
    /\ transport \in Transports
    /\ StdioInit /\ HttpInit
    /\ transport = "http" => supported = CHOOSE v \in ServerVersions : TRUE

Next ==
    \/ transport = "stdio" /\ StdioNext /\ UNCHANGED <<transport, hvars>>
    \/ transport = "http" /\ HttpNext /\ UNCHANGED <<transport, svars>>

Spec == Init /\ [][Next]_vars /\ StdioFairness /\ HttpFairness

-----------------------------------------------------------------------------
(* What is checked: the properties above, by what they are about. *)

\* Over stdio a caller gets its own answer or none, is registered as long as it
\* waits, and the negotiation ends after at most two offers, the last of them as
\* new as any version both sides know.
RequestsMatched ==
    /\ StdioTypeOK
    /\ AnswersMatch
    /\ PendingAccounted
    /\ Negotiated

\* Over HTTP the end of a session costs one handshake and one retry: it shows
\* to no request that comes alone, and repeats nothing else.
ExpiryHandled ==
    /\ HttpTypeOK
    /\ SequentialExpiryInvisible
    /\ ExecutedOnce
    /\ OneHandshakePerExpiry

\* Two full pipes, a dead server and a shutdown leave nothing of a stdio
\* connection waiting, and a request over HTTP ends whatever becomes of its
\* session.
RequestsEnd ==
    /\ StdoutDrains
    /\ RegisteredEnd
    /\ ShutdownEnds
    /\ HttpRequestsEnd

=============================================================================
