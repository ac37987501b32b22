------------------------------- MODULE McpHttp -------------------------------
(***************************************************************************)
(* A connection to an MCP server over streamable HTTP.                     *)
(*                                                                         *)
(* Every message is a POST that carries the session id the client holds,   *)
(* and every response may replace or end it.  A request that learns that   *)
(* the session is over runs the initialize handshake, or finds that        *)
(* another request has, and is sent once more.  Requests are concurrent;   *)
(* they share the session id, the reconnect lock and its generation.       *)
(*                                                                         *)
(* The connection starts with a session.  The version negotiation inside   *)
(* the handshake is that of McpStdio and is one POST here.                 *)
(***************************************************************************)
EXTENDS Naturals, FiniteSets

CONSTANTS
    Callers,       \* one request each
    MaxExpiries,   \* sessions the server ends
    MaxRotations,  \* sessions it replaces in a response
    MaxFaults,     \* failed POSTs, 404s without a header, dropped futures
    MaxSession     \* session ids

ASSUME HttpAssumption ==
    /\ IsFiniteSet(Callers) /\ "free" \notin Callers
    /\ {MaxExpiries, MaxRotations, MaxFaults} \subseteq Nat /\ MaxSession \in Nat \ {0, 1}

VARIABLES
    step,       \* of a request: where the future stands
    post,       \* the POST it is in: "call", "answer" (to the server), "initialize", "initialized"
    attempt,    \* the first or the second time the request is sent
    gen,        \* the generation it loaded before the first
    sent,       \* the session id of its POST
    response,   \* status and Mcp-Session-Id of the response
    outcome,
    session,    \* the id the client holds
    lock, generation,  \* reconnect_lock and reconnect_generation
    live, issued,      \* the server's session, and the last id it gave out
    expiries, rotations, faults,  \* history: what went wrong
    runs,       \* history: how often the server executed a request
    cut,        \* history: requests whose result came with the end of the session
    overlapped, \* history: two requests were under way at once
    unheard     \* history: a session changed in a response whose header is not acted on

request == <<step, post, attempt, gen, sent, response, outcome>>
shared  == <<session, lock, generation>>
server  == <<live, issued>>
history == <<expiries, rotations, faults, runs, cut, overlapped, unheard>>
hvars   == <<request, shared, server, history>>

\* Session ids: no header, the empty header, and what a server gives out.
None == 0
Empty == 1
First == 2
Response(status, header) == [status |-> status, header |-> header]
NoResponse == Response("none", None)

HttpInit ==
    /\ step = [c \in Callers |-> "idle"] /\ post = [c \in Callers |-> "call"]
    /\ attempt = [c \in Callers |-> 0] /\ gen = [c \in Callers |-> 0]
    /\ sent = [c \in Callers |-> None] /\ response = [c \in Callers |-> NoResponse]
    /\ outcome = [c \in Callers |-> "none"]
    /\ session = First /\ lock = "free" /\ generation = 0
    /\ live = First /\ issued = First
    /\ expiries = 0 /\ rotations = 0 /\ faults = 0
    /\ runs = [c \in Callers |-> 0] /\ cut = {} /\ overlapped = FALSE /\ unheard = FALSE

Active(c) == step[c] \notin {"idle", "done"}

-----------------------------------------------------------------------------
(* Requests.                                                               *)

Unlock(c) == lock' = IF lock = c THEN "free" ELSE lock

End(c, how) ==
    /\ step' = [step EXCEPT ![c] = "done"] /\ outcome' = [outcome EXCEPT ![c] = how]
    /\ UNCHANGED <<post, attempt, gen, sent, response>>

\* The next POST of a request.
Send(c, what) ==
    /\ step' = [step EXCEPT ![c] = "posting"] /\ post' = [post EXCEPT ![c] = what]
    /\ UNCHANGED <<gen, sent, response, outcome>>

Begin(c) ==
    /\ step[c] = "idle"
    /\ gen' = [gen EXCEPT ![c] = generation]
    /\ step' = [step EXCEPT ![c] = "posting"] /\ attempt' = [attempt EXCEPT ![c] = 1]
    /\ overlapped' = (overlapped \/ \E d \in Callers : Active(d))
    /\ UNCHANGED <<post, sent, response, outcome, shared, server, expiries, rotations, faults, runs, cut, unheard>>

Post(c) ==
    /\ step[c] = "posting" /\ step' = [step EXCEPT ![c] = "flying"]
    /\ sent' = [sent EXCEPT ![c] = session]
    /\ response' = [response EXCEPT ![c] = NoResponse]
    /\ UNCHANGED <<post, attempt, gen, outcome, shared, server, history>>

\* What send_full makes of a response: the session id to hold, and whether the
\* session is over.
Held(r) == IF r.status = "404" \/ r.header = Empty THEN None
           ELSE IF r.header = None THEN session ELSE r.header

Expired(r) == r.header = Empty \/ (r.status = "404" /\ r.header # None)

\* post_jsonrpc_value looks at the header only.
Kept(r) == IF r.header = Empty THEN None ELSE IF r.header = None THEN session ELSE r.header

Fails(c) == End(c, "failed") /\ Unlock(c)

TakeCall(c) ==
    LET r == response[c]
    IN  /\ post[c] = "call" /\ session' = Held(r)
        /\ \/ /\ Expired(r) /\ attempt[c] = 1
              /\ step' = [step EXCEPT ![c] = "locking"]
              /\ UNCHANGED <<post, attempt, gen, sent, response, outcome>>
           \/ Expired(r) /\ attempt[c] = 2 /\ End(c, "failed")
           \/ ~Expired(r) /\ r.status \in {"404", "400"} /\ End(c, "failed")
           \/ ~Expired(r) /\ r.status = "ok" /\ End(c, "ok")
           \* an event stream that also holds a request of the server
           \/ ~Expired(r) /\ r.status = "stream" /\ Send(c, "answer") /\ UNCHANGED attempt
        /\ UNCHANGED <<lock, generation>>

TakeAnswer(c) ==
    /\ post[c] = "answer" /\ session' = Kept(response[c]) /\ End(c, "ok")
    /\ UNCHANGED <<lock, generation>>

TakeInitialize(c) ==
    LET r == response[c]
    IN  /\ post[c] = "initialize" /\ session' = Held(r)
        /\ IF Expired(r) \/ r.status # "ok" THEN Fails(c)
           ELSE Send(c, "initialized") /\ UNCHANGED <<attempt, lock>>
        /\ UNCHANGED generation

\* The response to the notification is ignored, header and status.
TakeInitialized(c) ==
    /\ post[c] = "initialized"
    /\ generation' = generation + 1 /\ Unlock(c)
    /\ Send(c, "call") /\ attempt' = [attempt EXCEPT ![c] = 2]
    /\ UNCHANGED session

Take(c) ==
    /\ step[c] = "answered"
    /\ TakeCall(c) \/ TakeAnswer(c) \/ TakeInitialize(c) \/ TakeInitialized(c)
    /\ UNCHANGED <<server, history>>

\* reconnect: the first to get the lock runs the handshake, the others see that
\* the generation has moved on since their request began.
Reconnected(c) == generation # gen[c]

Reconnect(c) ==
    /\ step[c] = "locking" /\ lock = "free"
    /\ \/ ~Reconnected(c) /\ lock' = c /\ Send(c, "initialize") /\ UNCHANGED attempt
       \/ Reconnected(c) /\ UNCHANGED lock /\ Send(c, "call") /\ attempt' = [attempt EXCEPT ![c] = 2]
    /\ UNCHANGED <<session, generation, server, history>>

Fault == faults < MaxFaults /\ faults' = faults + 1

\* (fault) a failed request is sent again
PostFailsAgain(c) ==
    /\ Fault /\ step[c] \in {"flying", "answered"} /\ post[c] = "call" /\ attempt[c] = 1
    /\ step' = [step EXCEPT ![c] = "locking"]
    /\ UNCHANGED <<post, attempt, gen, sent, response, outcome, shared, server,
                   expiries, rotations, runs, cut, overlapped, unheard>>

\* A POST fails on the way there or back.
PostFails(c) ==
    /\ Fault /\ step[c] \in {"flying", "answered"}
    /\ IF post[c] = "answer" THEN End(c, "ok") /\ UNCHANGED lock ELSE Fails(c)
    /\ UNCHANGED <<session, generation, server, expiries, rotations, runs, cut, overlapped, unheard>>

\* The caller's future is dropped, and with it the guard of the lock.
Abandon(c) ==
    /\ Fault /\ Active(c) /\ End(c, "dropped") /\ Unlock(c)
    /\ UNCHANGED <<session, generation, server, expiries, rotations, runs, cut, overlapped, unheard>>

-----------------------------------------------------------------------------
(* The server.                                                             *)

Respond(c, r) ==
    /\ response' = [response EXCEPT ![c] = r]
    /\ step' = [step EXCEPT ![c] = "answered"]
    /\ UNCHANGED <<post, attempt, gen, sent, outcome, shared, overlapped>>

Arrived(c) == step[c] = "flying"

Executes(c) == runs' = [runs EXCEPT ![c] = @ + (IF post[c] = "call" THEN 1 ELSE 0)]

\* A POST of the live session: carried out; the response may name a new session, or end this one.
Serve(c) ==
    /\ Arrived(c) /\ post[c] # "initialize" /\ sent[c] # None /\ sent[c] = live
    /\ Executes(c)
    /\ \/ /\ \E s \in IF post[c] = "call" THEN {"ok", "stream"} ELSE {"ok"} : Respond(c, Response(s, None))
          /\ UNCHANGED <<server, expiries, rotations, cut, unheard>>
       \/ /\ rotations < MaxRotations /\ issued < MaxSession
          /\ rotations' = rotations + 1 /\ issued' = issued + 1 /\ live' = issued + 1
          /\ unheard' = (unheard \/ post[c] = "initialized")
          /\ Respond(c, Response("ok", issued + 1)) /\ UNCHANGED <<expiries, cut>>
       \/ /\ expiries < MaxExpiries
          /\ expiries' = expiries + 1 /\ live' = None
          /\ cut' = IF post[c] = "call" THEN cut \union {c} ELSE cut
          /\ unheard' = (unheard \/ post[c] # "call")
          /\ Respond(c, Response("ok", Empty)) /\ UNCHANGED <<issued, rotations>>
    /\ UNCHANGED faults

\* A POST of another session gets a 404 that repeats its id, or a bare one;
\* a POST without a session a 400.
Refuse(c) ==
    /\ Arrived(c)
    /\ \/ /\ sent[c] \notin {None, live}
          /\ \/ Respond(c, Response("404", sent[c])) /\ UNCHANGED faults
             \/ Fault /\ Respond(c, Response("404", None))
       \/ sent[c] = None /\ post[c] # "initialize" /\ Respond(c, Response("400", None)) /\ UNCHANGED faults
    /\ UNCHANGED <<server, expiries, rotations, runs, cut, unheard>>

\* initialize replaces the live session.
Initialize(c) ==
    /\ Arrived(c) /\ post[c] = "initialize" /\ issued < MaxSession
    /\ issued' = issued + 1 /\ live' = issued + 1
    /\ Respond(c, Response("ok", issued + 1))
    /\ UNCHANGED <<expiries, rotations, faults, runs, cut, unheard>>

Expire ==
    /\ live # None /\ expiries < MaxExpiries
    /\ live' = None /\ expiries' = expiries + 1
    /\ UNCHANGED <<issued, request, shared, rotations, faults, runs, cut, overlapped, unheard>>

-----------------------------------------------------------------------------
HttpNext ==
    \/ \E c \in Callers :
        \/ Begin(c) \/ Post(c) \/ Take(c) \/ Reconnect(c)
        \/ Serve(c) \/ Refuse(c) \/ Initialize(c)
        \/ PostFails(c) \/ Abandon(c)
    \/ Expire

\* The client goes on, and a POST is answered (or its timeout ends it: a fault).
HttpFairness == \A c \in Callers :
    /\ WF_hvars(Post(c)) /\ WF_hvars(Take(c)) /\ SF_hvars(Reconnect(c))
    /\ WF_hvars(Serve(c)) /\ WF_hvars(Refuse(c)) /\ WF_hvars(Initialize(c))

HttpSpec == HttpInit /\ [][HttpNext]_hvars /\ HttpFairness

-----------------------------------------------------------------------------
(* What must hold.                                                         *)

HttpTypeOK ==
    /\ step \in [Callers -> {"idle", "posting", "flying", "answered", "locking", "done"}]
    /\ post \in [Callers -> {"call", "answer", "initialize", "initialized"}]
    /\ attempt \in [Callers -> 0..2] /\ gen \in [Callers -> Nat]
    /\ outcome \in [Callers -> {"none", "ok", "failed", "dropped"}]
    /\ session \in {None} \union (First..MaxSession)
    /\ live \in {None} \union (First..MaxSession) /\ issued \in First..MaxSession
    /\ lock \in Callers \union {"free"}

AllOk == \A c \in Callers : step[c] = "done" => outcome[c] = "ok"

\* One session ended, a request was told so, and nothing else went wrong.
OneExpiry ==
    /\ faults = 0 /\ expiries =< 1 /\ ~unheard

\* The caller observes a successful response as if no expiry ever happened (the
\* comment on request).
ExpiryInvisible == (OneExpiry /\ rotations = 0) => AllOk

\* That much holds of requests that come one after the other, whatever sessions
\* the server rotates through.
SequentialExpiryInvisible == (OneExpiry /\ ~overlapped) => AllOk

\* A request is executed twice only when the result of the first time came with
\* the end of the session: no other failure sends it again.
ExecutedOnce == \A c \in Callers : runs[c] =< 1 + (IF c \in cut THEN 1 ELSE 0)

\* The responses to answers that brought an id back that was no longer the
\* session's: post_jsonrpc_value takes it from a refusal too.
Relapses ==
    {c \in Callers : post[c] = "answer" /\ response[c].status = "404" /\ response[c].header # None}

\* Requests that meet the same expiry run one handshake between them.  A late
\* response may bring an old id back once: a rotation costs two handshakes at
\* most, and a relapse one.
OneHandshakePerExpiry == generation =< expiries + 2 * rotations + Cardinality(Relapses)

\* Every request ends: whoever fails inside a handshake lets the others go on.
HttpRequestsEnd == \A c \in Callers : Active(c) ~> ~Active(c)
=============================================================================
