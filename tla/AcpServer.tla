----------------------------- MODULE AcpServer -----------------------------
(***************************************************************************)
(* The Agent Client Protocol server: serve/src/acp.rs.                     *)
(*                                                                         *)
(* The main task reads requests one line at a time and handles each under  *)
(* the mutex of the session map.  session/prompt spawns a task that        *)
(* streams updates, clears the session's `active` entry and writes the     *)
(* final response; session/cancel and session/close take `active`, abort   *)
(* the task and write the final response in its place.                     *)
(*                                                                         *)
(* abort() stops a task at a point where it yields: a task that is in the  *)
(* middle of a poll runs on to its next await that is not ready.  On the   *)
(* multi-threaded runtime the main task runs beside a task in mid-poll     *)
(* (parallel = TRUE); on the single-threaded one of the tests it does not. *)
(***************************************************************************)
EXTENDS Naturals, Sequences

CONSTANTS
    Sessions,      \* session ids that session/new may return, each once
    MaxRequests,   \* bound: session/prompt requests received
    MaxUpdates,    \* bound: session/update messages of each prompt
    NoPrompt,      \* active = None
    Runtimes       \* the runtimes considered: TRUE has more than one worker thread

ASSUME NoPromptAssumption == NoPrompt \notin Nat
ASSUME BoundAssumption == MaxRequests \in Nat /\ MaxUpdates \in [1..MaxRequests -> Nat]
ASSUME RuntimesAssumption == Runtimes \subseteq BOOLEAN

VARIABLES
    parallel,  \* the runtime of this server
    session,   \* the session map: "absent", "open" or "closed" (removed)
    active,    \* AcpSession.active: the request whose task it holds
    issued,    \* session/prompt requests received so far; their ids are 1..issued
    task,      \* the task of each prompt request
    lock,      \* the mutex of the session map: "free", or held by the "main" task
    input,     \* stdin: "open" or "eof"
    out        \* what was sent to the writer channel about each request, in order

vars == <<parallel, session, active, issued, task, lock, input, out>>

Requests == 1..MaxRequests

\* "suspended" and "locking" are awaits that are not ready, where abort()
\* takes effect; a task in MidPoll is executing on a worker thread.
MidPoll == {"running", "finishing", "responding"}
TaskState == {"none", "suspended", "locking", "done", "dropped"} \cup MidPoll

NoTask == [pc |-> "none", session |-> NoPrompt, aborted |-> FALSE,
           failed |-> FALSE]

Init ==
    /\ parallel \in Runtimes
    /\ session = [s \in Sessions |-> "absent"]
    /\ active = [s \in Sessions |-> NoPrompt]
    /\ issued = 0
    /\ task = [r \in Requests |-> NoTask]
    /\ lock = "free"
    /\ input = "open"
    /\ out = [r \in Requests |-> <<>>]

Send(kind, r) == out' = [out EXCEPT ![r] = Append(@, kind)]

-----------------------------------------------------------------------------
(* The main task *)

Waiting == {r \in Requests : task[r].pc = "locking"}

\* The mutex is handed to its waiters in order, so the main task gets it only
\* when no task waits for it.
MainLocks ==
    /\ input = "open"
    /\ lock = "free" /\ Waiting = {}
    /\ parallel \/ \A r \in Requests : task[r].pc \notin MidPoll
    /\ lock' = "main"

\* JoinHandle::abort().
Abort(t) == IF t.pc \in {"suspended", "locking"} THEN [t EXCEPT !.pc = "dropped"]
            ELSE [t EXCEPT !.aborted = TRUE]

NewSession(s) ==
    /\ MainLocks
    /\ session[s] = "absent"
    /\ session' = [session EXCEPT ![s] = "open"]
    /\ UNCHANGED <<parallel, active, issued, task, input, out>>

\* Seeded fault: the active entry is overwritten, not checked.
StartsAnother(s) ==
    /\ MainLocks
    /\ issued < MaxRequests
    /\ session[s] = "open"
    /\ issued' = issued + 1
    /\ task' = [task EXCEPT ![issued + 1].pc = "suspended", ![issued + 1].session = s]
    /\ active' = [active EXCEPT ![s] = issued + 1]
    /\ UNCHANGED <<parallel, session, input, out>>

StartPrompt(s) ==
    /\ MainLocks
    /\ issued < MaxRequests
    /\ session[s] = "open"
    /\ active[s] = NoPrompt
    /\ issued' = issued + 1
    /\ task' = [task EXCEPT ![issued + 1].pc = "suspended", ![issued + 1].session = s]
    /\ active' = [active EXCEPT ![s] = issued + 1]
    /\ UNCHANGED <<parallel, session, input, out>>

\* An unknown session, or one whose prompt is in progress.
RefusePrompt(s) ==
    /\ MainLocks
    /\ issued < MaxRequests
    /\ session[s] # "open" \/ active[s] # NoPrompt
    /\ issued' = issued + 1
    /\ Send("refused", issued + 1)
    /\ UNCHANGED <<parallel, session, active, task, input>>

\* active.take(), abort() and the cancelled response, when a prompt is active.
TakeActive(s) ==
    /\ active[s] # NoPrompt
    /\ active' = [active EXCEPT ![s] = NoPrompt]
    /\ task' = [task EXCEPT ![active[s]] = Abort(@)]
    /\ Send("cancelled", active[s])

Cancel(s) ==
    /\ MainLocks
    /\ session[s] = "open"
    /\ TakeActive(s)
    /\ UNCHANGED <<parallel, session, issued, input>>

Close(s) ==
    /\ MainLocks
    /\ session[s] = "open"
    /\ session' = [session EXCEPT ![s] = "closed"]
    /\ \/ TakeActive(s)
       \/ active[s] = NoPrompt /\ UNCHANGED <<active, task, out>>
    /\ UNCHANGED <<parallel, issued, input>>

\* The client closed stdin: shutdown() aborts every active prompt, answers
\* none, and drops the sessions.  It never takes the lock again.
Shutdown ==
    /\ MainLocks
    /\ input' = "eof"
    /\ session' = [s \in Sessions |-> IF session[s] = "open" THEN "closed" ELSE session[s]]
    /\ active' = [s \in Sessions |-> NoPrompt]
    /\ task' = [r \in Requests |-> IF \E s \in Sessions : active[s] = r
                                   THEN Abort(task[r]) ELSE task[r]]
    /\ UNCHANGED <<parallel, issued, out>>

\* The handler's MutexGuard is dropped.
Unlock ==
    /\ lock = "main"
    /\ lock' = "free"
    /\ UNCHANGED <<parallel, session, active, issued, task, input, out>>

-----------------------------------------------------------------------------
(* A prompt task *)

\* On one thread a task is polled only while the main task awaits a line.
MayRun == parallel \/ lock = "free"

To(r, pc) == task' = [task EXCEPT ![r].pc = pc]

\* A poll that meets an await that is not ready: a task aborted meanwhile is
\* dropped there.
Suspend(r, pc) == To(r, IF task[r].aborted THEN "dropped" ELSE pc)

\* A worker thread polls the task.
Poll(r) ==
    /\ MayRun
    /\ task[r].pc = "suspended"
    /\ parallel \/ \A q \in Requests : task[q].pc \notin MidPoll
    /\ To(r, "running")
    /\ UNCHANGED <<parallel, session, active, issued, lock, input, out>>

\* The next event of the runner's stream is ready and is forwarded.
Update(r) ==
    /\ MayRun
    /\ task[r].pc = "running"
    /\ Len(SelectSeq(out[r], LAMBDA kind : kind = "update")) < MaxUpdates[r]
    /\ Send("update", r)
    /\ UNCHANGED <<parallel, session, active, issued, task, lock, input>>

\* The next item is an error; the loop reads on.
StreamError(r) ==
    /\ MayRun
    /\ task[r].pc = "running" /\ ~task[r].failed
    /\ task' = [task EXCEPT ![r].failed = TRUE]
    /\ UNCHANGED <<parallel, session, active, issued, lock, input, out>>

\* stream.next().await is not ready.
Yield(r) ==
    /\ MayRun
    /\ task[r].pc = "running"
    /\ Suspend(r, "suspended")
    /\ UNCHANGED <<parallel, session, active, issued, lock, input, out>>

EndOfStream(r) ==
    /\ MayRun
    /\ task[r].pc = "running"
    /\ To(r, "finishing")
    /\ UNCHANGED <<parallel, session, active, issued, lock, input, out>>

\* sessions.lock().await is not ready: the mutex is held or has waiters.
AwaitLock(r) ==
    /\ MayRun
    /\ task[r].pc = "finishing"
    /\ lock = "main" \/ Waiting # {}
    /\ Suspend(r, "locking")
    /\ UNCHANGED <<parallel, session, active, issued, lock, input, out>>

\* Seeded fault: the marker is left to whoever comes next.
LeavesActive(r) ==
    /\ MayRun
    /\ lock = "free"
    /\ task[r].pc = "locking" \/ (task[r].pc = "finishing" /\ Waiting = {})
    /\ To(r, "responding")
    /\ UNCHANGED <<parallel, session, active, issued, lock, input, out>>

\* Whatever request the entry holds by now, it is set to None.
ClearActive(r) ==
    /\ MayRun
    /\ lock = "free"
    /\ task[r].pc = "locking" \/ (task[r].pc = "finishing" /\ Waiting = {})
    /\ active' = [active EXCEPT ![task[r].session] = NoPrompt]
    /\ To(r, "responding")
    /\ UNCHANGED <<parallel, session, issued, lock, input, out>>

\* Seeded fault: a failed prompt is not answered.
RespondUnlessFailed(r) ==
    /\ MayRun
    /\ task[r].pc = "responding"
    /\ To(r, "done")
    /\ IF task[r].failed THEN UNCHANGED out ELSE Send("end_turn", r)
    /\ UNCHANGED <<parallel, session, active, issued, lock, input>>

Respond(r) ==
    /\ MayRun
    /\ task[r].pc = "responding"
    /\ To(r, "done")
    /\ Send(IF task[r].failed THEN "error" ELSE "end_turn", r)
    /\ UNCHANGED <<parallel, session, active, issued, lock, input>>

-----------------------------------------------------------------------------

Main ==
    \/ \E s \in Sessions : \/ NewSession(s) \/ StartPrompt(s) \/ RefusePrompt(s)
                           \/ Cancel(s) \/ Close(s)
    \/ Shutdown
    \/ Unlock

Task(r) == \/ Poll(r) \/ Update(r) \/ StreamError(r) \/ Yield(r) \/ EndOfStream(r)
           \/ AwaitLock(r) \/ ClearActive(r) \/ Respond(r)

Next == Main \/ \E r \in Requests : Task(r)

Spec == Init /\ [][Next]_vars

\* The runtime polls every task that can run and the main task leaves its
\* critical sections; a runner's stream ends if it is polled often enough.
Fairness ==
    /\ WF_vars(Unlock)
    /\ \A r \in Requests : /\ WF_vars(Task(r))
                           /\ SF_vars(EndOfStream(r))

FairSpec == Spec /\ Fairness

-----------------------------------------------------------------------------
(* Properties *)

Final == {"refused", "cancelled", "end_turn", "error"}

Answered(r) == \E i \in DOMAIN out[r] : out[r][i] \in Final

\* Every variable stays in its type.
TypeOK ==
    /\ parallel \in Runtimes
    /\ session \in [Sessions -> {"absent", "open", "closed"}]
    /\ active \in [Sessions -> Requests \cup {NoPrompt}]
    /\ issued \in 0..MaxRequests
    /\ task \in [Requests -> [pc : TaskState, session : Sessions \cup {NoPrompt},
                              aborted : BOOLEAN, failed : BOOLEAN]]
    /\ lock \in {"free", "main"}
    /\ input \in {"open", "eof"}
    /\ out \in [Requests -> Seq({"update"} \cup Final)]

\* A prompt that may still answer for itself and was not cancelled.
Live(r) == task[r].pc \notin {"none", "done", "dropped", "responding"} /\ ~task[r].aborted

\* "Exactly one side writes the final JSON-RPC response": no request is
\* answered twice.
OneResponse ==
    \A r \in Requests : \A i, j \in DOMAIN out[r] :
        out[r][i] \in Final /\ out[r][j] \in Final => i = j

\* "Only one prompt may run per session at a time": two prompts of a session
\* are never both live, so none runs that session/cancel cannot reach.
OnePromptPerSession ==
    \A q, r \in Requests : Live(q) /\ Live(r) /\ task[q].session = task[r].session => q = r

\* Both hold where abort() cannot meet a task in mid-poll: on one thread the
\* main task cancels only what yields.
SingleThreadIsExact == ~parallel => OneResponse /\ OnePromptPerSession

\* The entry of a session never holds a prompt that was cancelled or is past
\* clearing it: what cancel takes can still be cancelled.
ActiveIsLive ==
    \A s \in Sessions : active[s] # NoPrompt =>
        session[s] = "open" /\ Live(active[s]) /\ task[active[s]].session = s

\* Each side answers a request at most once, and a task says nothing about its
\* request after its own answer.
EachSideOnce ==
    \A r \in Requests : \A i, j \in DOMAIN out[r] :
        i < j => /\ out[r][i] \in {"update", "cancelled"}
                 /\ out[r][i] = "cancelled" => out[r][j] # "cancelled"

\* While the client listens, every prompt it sends is answered.
EveryPromptAnswered ==
    \A r \in Requests : r <= issued ~> (Answered(r) \/ input = "eof")

\* After stdin closes every task stops, so the writer channel closes and the
\* server returns.
ServerDrains ==
    input = "eof" ~> \A r \in Requests : task[r].pc \in {"none", "done", "dropped"}

-----------------------------------------------------------------------------
(* What is checked: the properties above, by what they are about. *)

\* The entry of a session holds a prompt that can be cancelled, and neither
\* side answers one prompt twice, on both runtimes.
ActivePrompts ==
    /\ TypeOK
    /\ ActiveIsLive
    /\ EachSideOnce

\* Prompts are answered while the client listens, and nothing keeps the server
\* from returning when it stops.
PromptsEnd ==
    /\ EveryPromptAnswered
    /\ ServerDrains

=============================================================================
