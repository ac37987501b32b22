------------------------------ MODULE McpStdio ------------------------------
(***************************************************************************)
(* A connection to an MCP server that is a child process.                  *)
(*                                                                         *)
(* Requests are registered under their id, queued in a bounded channel and *)
(* written to the child's stdin by a writer task.  A reader task takes the *)
(* child's stdout line by line: it hands a response to the request of that *)
(* id, answers what the server asks through the same channel, and fails    *)
(* whoever is still registered when stdout ends.  Requests time out, their *)
(* futures may be dropped, the child may die, and both pipes may be full.  *)
(* The first requests of a connection negotiate the protocol version; the  *)
(* version a result names is logged and nothing else.                      *)
(***************************************************************************)
EXTENDS Naturals, Sequences, FiniteSets, FiniteSetsExt

CONSTANTS
    MaxId,       \* requests of a run, those of the negotiation included
    Cap,         \* WRITE_CHANNEL_CAPACITY
    PipeCap,     \* lines a pipe holds
    MaxAsks,     \* lines the server writes of its own accord
    Versions,    \* SUPPORTED_PROTOCOL_VERSIONS: a larger number is newer
    ServerVersions  \* what the server may support

ASSUME StdioAssumption ==
    /\ {MaxId, Cap, PipeCap} \subseteq Nat \ {0} /\ MaxAsks \in Nat
    /\ Versions \in (SUBSET Nat) \ {{}} /\ IsFiniteSet(Versions)
    /\ ServerVersions \subseteq SUBSET Nat

VARIABLES
    phase,      \* of the connection
    offer,      \* the version offered last
    spoken,     \* whether the result named the version "offered" or an "other" one
    nextId, pending,
    call,       \* what the caller of a request is doing
    reply,      \* what the request's oneshot holds
    channel, writing, writer,  \* the channel, the line being written, the task
    reader,     \* the reader task
    drained,    \* history: next_id when the reader drained the pending map
    alive, stdin, stdout,  \* the child process and its pipes
    accepted,   \* the requests it has read
    supported,  \* the versions it supports
    asks        \* lines it wrote of its own accord

talk   == <<offer, spoken>>
caller == <<phase, talk, nextId, call>>
tasks  == <<writing, writer, reader, drained>>
child  == <<alive, stdin, stdout, accepted, supported, asks>>
svars  == <<caller, pending, reply, channel, tasks, child>>

Id == 1..MaxId
Line(kind, i) == [kind |-> kind, id |-> i]
Nothing == Line("nothing", 0)
Connecting == phase \in {"offering", "negotiating", "notifying"}
Live(i) == call[i] \in {"sending", "waiting"}

StdioInit ==
    /\ phase = "offering" /\ offer = Max(Versions) /\ spoken = "none"
    /\ nextId = 1 /\ pending = {}
    /\ call = [i \in Id |-> "none"] /\ reply = [i \in Id |-> Nothing]
    /\ channel = <<>> /\ writing = Nothing /\ writer = "on" /\ reader = "on" /\ drained = 0
    /\ alive = TRUE /\ stdin = <<>> /\ stdout = <<>> /\ accepted = {} /\ asks = 0
    /\ supported \in ServerVersions

-----------------------------------------------------------------------------
(* Requests.                                                               *)

Register ==
    /\ nextId \in Id
    /\ nextId' = nextId + 1 /\ pending' = pending \union {nextId}
    /\ call' = [call EXCEPT ![nextId] = "sending"]
    /\ UNCHANGED <<talk, reply, channel, tasks>>

Offer == phase = "offering" /\ Register /\ phase' = "negotiating" /\ UNCHANGED child

Start == phase \in {"ready", "shutting", "closed"} /\ Register /\ UNCHANGED <<phase, child>>

Room == Len(channel) < Cap

Enqueue(i) ==
    /\ call[i] = "sending" /\ writer = "on" /\ Room
    /\ channel' = Append(channel, Line("request", i))
    /\ call' = [call EXCEPT ![i] = "waiting"]
    /\ UNCHANGED <<phase, talk, nextId, pending, reply, tasks, child>>

\* The next version to offer, given the server's list, or 0.
NextOffer == LET mutual == Versions \intersect supported
             IN  IF mutual = {} \/ Max(mutual) = offer THEN 0 ELSE Max(mutual)

\* A connection that fails is dropped, and its child is killed with it.
Lost == phase' = "failed" /\ alive' = FALSE /\ UNCHANGED <<talk, stdin, stdout, accepted, supported, asks>>

\* What the end of a request means to the negotiation, if it is part of it.
Conclude(kind) ==
    CASE phase # "negotiating" -> UNCHANGED <<phase, talk, child>>
      [] phase = "negotiating" /\ kind \in {"answer", "counter"} ->
            /\ phase' = "notifying" /\ UNCHANGED <<offer, child>>
            /\ spoken' = IF kind = "answer" THEN "offered" ELSE "other"
      [] phase = "negotiating" /\ kind = "mismatch" /\ NextOffer # 0 ->
            phase' = "offering" /\ offer' = NextOffer /\ UNCHANGED <<spoken, child>>
      [] OTHER -> Lost

\* (fault) only an answer takes the entry away
UnregisterAnswered(i) == UNCHANGED pending
Unregister(i) == pending' = pending \ {i}

\* The end of send_full: the answer, a closed channel, or the timeout.
Finish(i, kind) ==
    /\ call' = [call EXCEPT ![i] = "done"]
    /\ Unregister(i)
    /\ Conclude(kind)
    /\ UNCHANGED <<nextId, channel, tasks>>

Receive(i) ==
    /\ call[i] = "waiting" /\ reply[i] # Nothing
    /\ Finish(i, reply[i].kind) /\ UNCHANGED reply

SendFails(i) ==
    call[i] = "sending" /\ writer = "off" /\ Finish(i, "closed") /\ UNCHANGED reply

Timeout(i) == Live(i) /\ Finish(i, "timeout") /\ UNCHANGED reply

\* The caller's future is dropped while it waits.
Drop(i) ==
    /\ Live(i) /\ ~Connecting
    /\ call' = [call EXCEPT ![i] = "dropped"]
    /\ UNCHANGED <<phase, talk, nextId, pending, reply, channel, tasks, child>>

\* discover_and_connect gives a connection as a whole one timeout.
ConnectTimeout ==
    /\ Connecting /\ Lost
    /\ call' = [i \in Id |-> IF Live(i) THEN "dropped" ELSE call[i]]
    /\ UNCHANGED <<nextId, pending, reply, channel, tasks>>

\* The initialized notification ends the handshake, sent or not.
Initialized ==
    /\ phase = "notifying" /\ phase' = "ready"
    /\ \/ writer = "on" /\ Room /\ channel' = Append(channel, Line("initialized", 0))
       \/ writer = "off" /\ UNCHANGED channel
    /\ UNCHANGED <<talk, nextId, call, pending, reply, tasks, child>>

\* shutdown kills the child, waits for the reader and aborts the writer.
Shutdown ==
    /\ phase = "ready" /\ phase' = "shutting"
    /\ alive' = FALSE
    /\ UNCHANGED <<talk, nextId, call, pending, reply, channel, tasks,
                   stdin, stdout, accepted, supported, asks>>

WriterGone == writer' = "off" /\ writing' = Nothing /\ channel' = <<>>

ShutDown ==
    /\ phase = "shutting" /\ reader = "off" /\ phase' = "closed"
    /\ WriterGone
    /\ UNCHANGED <<talk, nextId, call, pending, reply, reader, drained, child>>

-----------------------------------------------------------------------------
(* The writer and the reader task.                                         *)

WriterTakes ==
    /\ writer = "on" /\ writing = Nothing /\ channel # <<>>
    /\ writing' = Head(channel) /\ channel' = Tail(channel)
    /\ UNCHANGED <<caller, pending, reply, writer, reader, drained, child>>

WriterPuts ==
    /\ writing # Nothing /\ alive /\ Len(stdin) < PipeCap
    /\ stdin' = Append(stdin, writing) /\ writing' = Nothing
    /\ UNCHANGED <<caller, pending, reply, channel, writer, reader, drained,
                   alive, stdout, accepted, supported, asks>>

\* A write to a dead child fails; without senders the channel is closed.
WriterBreaks ==
    /\ writer = "on"
    /\ \/ writing # Nothing /\ ~alive
       \/ writing = Nothing /\ channel = <<>> /\ phase = "failed" /\ reader = "off"
    /\ WriterGone
    /\ UNCHANGED <<caller, pending, reply, reader, drained, child>>

\* An answer goes to the request that is registered under its id.
Demux(i) == IF i \in pending THEN i ELSE 0

Forward(line) ==
    LET i == Demux(line.id)
    IN  /\ pending' = pending \ {i}
        /\ reply' = IF i = 0 THEN reply ELSE [reply EXCEPT ![i] = line]
        /\ UNCHANGED <<channel, reader>>

\* (fault) the reader waits for room
AnswerBlocking ==
    /\ \/ writer = "on" /\ Room /\ channel' = Append(channel, Line("reply", 0)) /\ UNCHANGED reader
       \/ writer = "off" /\ reader' = "leaving" /\ UNCHANGED channel
    /\ UNCHANGED <<pending, reply>>

\* What the server asks is answered through try_send: dropped when the channel is full.
Answer ==
    /\ \/ writer = "on" /\ Room /\ channel' = Append(channel, Line("reply", 0)) /\ UNCHANGED reader
       \/ writer = "on" /\ ~Room /\ UNCHANGED <<channel, reader>>
       \/ writer = "off" /\ reader' = "leaving" /\ UNCHANGED channel
    /\ UNCHANGED <<pending, reply>>

ReaderTakes ==
    /\ reader = "on" /\ stdout # <<>>
    /\ CASE Head(stdout).kind = "ask"  -> Answer
         [] Head(stdout).kind = "junk" -> UNCHANGED <<pending, reply, channel, reader>>
         [] OTHER                      -> Forward(Head(stdout))
    /\ stdout' = Tail(stdout)
    /\ UNCHANGED <<caller, writing, writer, drained, alive, stdin, accepted, supported, asks>>

ReaderEnds ==
    /\ reader = "on" /\ stdout = <<>> /\ ~alive /\ reader' = "leaving"
    /\ UNCHANGED <<caller, pending, reply, channel, writing, writer, drained, child>>

Drain ==
    /\ reader = "leaving" /\ reader' = "off" /\ drained' = nextId
    /\ pending' = {}
    /\ reply' = [i \in Id |-> IF i \in pending THEN Line("closed", i) ELSE reply[i]]
    /\ UNCHANGED <<caller, channel, writing, writer, child>>

-----------------------------------------------------------------------------
(* The server process: it reads, writes and dies when it likes.            *)

ServerReads ==
    /\ alive /\ stdin # <<>> /\ stdin' = Tail(stdin)
    /\ accepted' = IF Head(stdin).kind = "request" THEN accepted \union {Head(stdin).id} ELSE accepted
    /\ UNCHANGED <<caller, pending, reply, channel, tasks, alive, stdout, supported, asks>>

ServerPuts(line) ==
    /\ alive /\ Len(stdout) < PipeCap /\ stdout' = Append(stdout, line)
    /\ UNCHANGED <<caller, pending, reply, channel, tasks, alive, stdin, accepted, supported>>

\* It answers the requests it has read in any order, and perhaps more than once.
\* The result of an initialize request may name another version than the offered
\* one ("counter"); it names that one only when the server supports it.
Verdicts == IF phase # "negotiating" THEN {"answer"}
            ELSE {"counter", "error"} \union {IF offer \in supported THEN "answer" ELSE "mismatch"}

ServerAnswers ==
    \E i \in accepted, v \in Verdicts : ServerPuts(Line(v, i)) /\ UNCHANGED asks

ServerSpeaks ==
    /\ asks < MaxAsks /\ asks' = asks + 1
    /\ \E kind \in {"ask", "junk"} : ServerPuts(Line(kind, 0))

ServerDies ==
    /\ alive /\ alive' = FALSE
    /\ UNCHANGED <<caller, pending, reply, channel, tasks, stdin, stdout, accepted, supported, asks>>

-----------------------------------------------------------------------------
Tasks == WriterTakes \/ WriterPuts \/ WriterBreaks \/ ReaderTakes \/ ReaderEnds \/ Drain

StdioNext ==
    \/ Offer \/ Start \/ ConnectTimeout \/ Initialized \/ Shutdown \/ ShutDown
    \/ \E i \in Id : Enqueue(i) \/ Receive(i) \/ SendFails(i) \/ Timeout(i) \/ Drop(i)
    \/ Tasks
    \/ ServerReads \/ ServerAnswers \/ ServerSpeaks \/ ServerDies

\* The tasks of the client go on; nothing is expected of the server or of the clock.
StdioFairness ==
    /\ WF_svars(WriterTakes) /\ WF_svars(WriterPuts) /\ WF_svars(WriterBreaks)
    /\ WF_svars(ReaderTakes) /\ WF_svars(ReaderEnds) /\ WF_svars(Drain)
    /\ WF_svars(ShutDown)
    /\ \A i \in Id : WF_svars(Enqueue(i)) /\ WF_svars(Receive(i)) /\ WF_svars(SendFails(i))

StdioSpec == StdioInit /\ [][StdioNext]_svars /\ StdioFairness

-----------------------------------------------------------------------------
(* What must hold.                                                         *)

Lines == [kind : {"nothing", "request", "reply", "initialized", "answer", "counter", "error", "mismatch",
                  "closed", "ask", "junk"}, id : 0..MaxId]

\* The queue to the server is bounded whoever writes to it, requests and the
\* reader's replies alike (WRITE_CHANNEL_CAPACITY).
StdioTypeOK ==
    /\ phase \in {"offering", "negotiating", "notifying", "ready", "failed", "shutting", "closed"}
    /\ offer \in Versions /\ spoken \in {"none", "offered", "other"} /\ nextId \in 1..(MaxId + 1) /\ pending \subseteq Id
    /\ call \in [Id -> {"none", "sending", "waiting", "done", "dropped"}]
    /\ reply \in [Id -> Lines] /\ channel \in Seq(Lines) /\ writing \in Lines
    /\ Len(channel) =< Cap /\ Len(stdin) =< PipeCap /\ Len(stdout) =< PipeCap
    /\ writer \in {"on", "off"} /\ reader \in {"on", "leaving", "off"}
    /\ accepted \subseteq Id /\ asks \in 0..MaxAsks

\* A caller gets the answer to its own request, in whatever order and however
\* late or often the server answers (the reader's demultiplexing by id).
AnswersMatch == \A i \in Id : reply[i] # Nothing => reply[i].id = i

\* Whoever still waits for an answer is registered until one is in its hands,
\* and nobody else is, but for the futures that were dropped (send_full removes
\* its entry on every way out; dropping it is none of them).
PendingAccounted ==
    /\ \A i \in pending : call[i] \in {"sending", "waiting", "dropped"}
    /\ \A i \in Id : Live(i) /\ reply[i] = Nothing => i \in pending

\* The negotiation ends only with a result, after at most two offers, and the
\* version offered last is as new as any both sides know; both sides know it if
\* the result names it.  Which version another result names is not looked at
\* (negotiate_initialize, highest_mutual).
Negotiated ==
    /\ phase \in {"notifying", "ready"} =>
        /\ spoken # "none"
        /\ \A v \in Versions \intersect supported : v =< offer
        /\ spoken = "offered" => offer \in supported
    /\ Connecting => nextId =< 3

\* The version the server names is authoritative (handshake).  This is false and
\* not checked by a run: a result that names another version than the offered
\* one, known to the client or not, is logged and the connection is ready.
EchoIsHonoured == phase = "ready" => spoken = "offered"

\* A full stdout is always read again, whatever the server does with its stdin
\* (the reader never waits for room in the channel: both pipes full would be a
\* deadlock of the two processes).
StdoutDrains == [](Len(stdout) = PipeCap => <>(Len(stdout) < PipeCap))

\* When stdout ends, every request registered until then ends too, without
\* waiting for its timeout (the reader drains the pending map).
RegisteredEnd == \A i \in Id : (i < drained) ~> ~Live(i)

\* A shutdown comes to its end (it kills the child before it waits for the reader).
ShutdownEnds == (phase = "shutting") ~> (phase = "closed")
=============================================================================
