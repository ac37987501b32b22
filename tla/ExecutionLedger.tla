--------------------------- MODULE ExecutionLedger ---------------------------
(***************************************************************************)
(* The durable execution ledger: the event log of every run, the           *)
(* projection kept beside it, and the transaction that extends both.       *)
(*                                                                         *)
(*   core/src/execution.rs            the events and RunProjection         *)
(*   store/src/execution_ledger.rs    SqliteExecutionLedger                *)
(*                                                                         *)
(* A writer is whoever calls append(): it remembers the sequence it last   *)
(* observed and offers it as expected_sequence.  Several writers, in one   *)
(* process or in several, share the database.  SQLite lets one IMMEDIATE   *)
(* transaction in at a time and publishes its writes at the commit only,   *)
(* so a transaction is a private stage until Commit.                       *)
(***************************************************************************)
EXTENDS Naturals, Sequences

CONSTANTS
    Runs,          \* run identifiers
    Calls,         \* tool-call identifiers within a run
    Approvals,     \* approval identifiers
    Writers,       \* callers of append()
    NoApproval,    \* pending_approval = None
    NoTxn,         \* no transaction holds the write lock
    MaxSequence    \* the largest sequence SQLite stores (2^63 - 1 in the code)

ASSUME NoApprovalAssumption == NoApproval \notin [approval : Approvals, call : Calls]
ASSUME MaxSequenceAssumption == MaxSequence \in Nat

VARIABLES
    events,        \* execution_events: the committed log of each run
    projection,    \* execution_projection: the committed projection of each run
    txn,           \* the transaction that holds the write lock, or NoTxn
    view           \* the sequence each writer last observed of each run

vars == <<events, projection, txn, view>>

-----------------------------------------------------------------------------
(* Events and projections *)

RunEvent  == [kind : {"run_accepted", "run_paused", "run_completed",
                      "run_cancelled", "run_failed", "note"}]
ToolEvent == [kind : {"tool_requested", "tool_started", "tool_completed",
                      "tool_failed", "tool_indeterminate"}, call : Calls]
PolicyEvaluated   == [kind : {"policy_evaluated"}, call : Calls,
                      decision : {"allow", "ask", "deny"}]
ApprovalRequested == [kind : {"approval_requested"}, call : Calls, approval : Approvals]
ApprovalResolved  == [kind : {"approval_resolved"}, approval : Approvals,
                      approved : BOOLEAN]

\* "note" stands for the six kinds that record a fact and move no lifecycle.
ExecutionEvent == RunEvent \cup ToolEvent \cup PolicyEvaluated
                    \cup ApprovalRequested \cup ApprovalResolved

TerminalStatus  == {"completed", "failed", "cancelled"}
ExecutionStatus == {"running", "paused"} \cup TerminalStatus
Outcome         == {"completed", "failed", "indeterminate"}
ToolExecutionStatus == {"requested", "awaiting_approval", "denied", "started"} \cup Outcome

PendingApproval == [approval : Approvals, call : Calls]

RunProjection ==
    [status   : ExecutionStatus \cup {"none"},
     sequence : Nat,
     pending  : PendingApproval \cup {NoApproval},
     tools    : [Calls -> ToolExecutionStatus \cup {"absent"}]]

\* A run with no row in execution_projection.
NoProjection ==
    [status |-> "none", sequence |-> 0, pending |-> NoApproval,
     tools |-> [c \in Calls |-> "absent"]]

-----------------------------------------------------------------------------
(* RunProjection::new and RunProjection::apply: what they accept ... *)

\* Seeded faults: a second ToolStarted is accepted; a start is accepted while
\* the user is still being asked.
RestartsTool(p, e) ==
    p.tools[e.call] \in CASE e.kind = "tool_requested" -> {"absent"}
                          [] e.kind = "tool_started"   -> {"requested", "started"}
                          [] OTHER                     -> {"started"}
StartsUnapproved(p, e) ==
    p.tools[e.call] \in CASE e.kind = "tool_requested" -> {"absent"}
                          [] e.kind = "tool_started"   -> {"requested", "awaiting_approval"}
                          [] OTHER                     -> {"started"}

AcceptsTool(p, e) ==
    p.tools[e.call] = CASE e.kind = "tool_requested" -> "absent"
                        [] e.kind = "tool_started"   -> "requested"
                        [] OTHER                     -> "started"

AcceptsApproval(p, e) ==
    \/ /\ e.kind = "approval_requested"
       /\ p.pending = NoApproval
       /\ p.tools[e.call] = "awaiting_approval"
    \/ /\ e.kind = "approval_resolved"
       /\ p.pending # NoApproval
       /\ p.pending.approval = e.approval

EnsureNoStartedTools(p) == \A c \in Calls : p.tools[c] # "started"

\* Seeded fault: RunCompleted does not look for tools still started.
CompletesAnyway(p, e) == e.kind # "run_accepted"

AcceptsRun(p, e) ==
    /\ e.kind # "run_accepted"
    /\ e.kind = "run_completed" => EnsureNoStartedTools(p)

Accepts(p, e) ==
    IF p.status = "none" THEN e.kind = "run_accepted"
    ELSE /\ p.status \notin TerminalStatus
         /\ e \in RunEvent => AcceptsRun(p, e)
         /\ e \in ToolEvent => AcceptsTool(p, e)
         /\ e \in PolicyEvaluated => p.tools[e.call] = "requested"
         /\ e \in ApprovalRequested \cup ApprovalResolved => AcceptsApproval(p, e)

(* ... and what they make of it. *)

StatusAfter(p, e) ==
    CASE e.kind = "run_accepted"  -> "running"
      [] e.kind = "run_paused"    -> "paused"
      [] e.kind = "run_completed" -> "completed"
      [] e.kind = "run_cancelled" -> "cancelled"
      [] e.kind = "run_failed"    -> "failed"
      [] OTHER                    -> p.status

\* Seeded fault: a resolution reads the pending approval and does not take it.
KeepsPending(p, e) ==
    IF e.kind = "approval_requested"
    THEN [approval |-> e.approval, call |-> e.call] ELSE p.pending

PendingAfter(p, e) ==
    CASE e.kind = "approval_requested" -> [approval |-> e.approval, call |-> e.call]
      [] e.kind = "approval_resolved"  -> NoApproval
      [] OTHER                         -> p.pending

\* An allowed call stays requested: nothing records that it was allowed.
PolicyStatus(decision) ==
    CASE decision = "allow" -> "requested"
      [] decision = "ask"   -> "awaiting_approval"
      [] decision = "deny"  -> "denied"

\* The status the event gives the tool it names.
ToolStatusAfter(e) ==
    CASE e.kind = "tool_requested"     -> "requested"
      [] e.kind = "tool_started"       -> "started"
      [] e.kind = "tool_completed"     -> "completed"
      [] e.kind = "tool_failed"        -> "failed"
      [] e.kind = "tool_indeterminate" -> "indeterminate"
      [] e.kind = "approval_requested" -> "awaiting_approval"
      [] e.kind = "policy_evaluated"   -> PolicyStatus(e.decision)
      [] e.kind = "approval_resolved"  -> IF e.approved THEN "requested" ELSE "denied"

\* The tools an event names: the pending one for a resolution.
Touched(p, e) ==
    IF e \in RunEvent THEN {}
    ELSE IF e.kind = "approval_resolved" THEN {p.pending.call}
    ELSE {e.call}

Apply(p, e) ==
    [status   |-> StatusAfter(p, e),
     sequence |-> p.sequence + 1,
     pending  |-> PendingAfter(p, e),
     tools    |-> [c \in Calls |-> IF c \in Touched(p, e) THEN ToolStatusAfter(e)
                                   ELSE p.tools[c]]]

\* RunProjection::recovery_disposition.
RecoveryDisposition(p) ==
    CASE p.status \in TerminalStatus                -> "terminal"
      [] p.status \notin TerminalStatus /\ p.pending # NoApproval -> "await_approval"
      [] p.status \notin TerminalStatus /\ p.pending = NoApproval
           /\ ~EnsureNoStartedTools(p)              -> "requires_tool_resolution"
      [] OTHER                                      -> "resume_provider"

-----------------------------------------------------------------------------
(* The append transaction *)

Transaction ==
    [writer : Writers, run : Runs, event : ExecutionEvent, expected : Nat,
     stage : {"begun", "inserted", "saved"}]

Init ==
    /\ events = [r \in Runs |-> <<>>]
    /\ projection = [r \in Runs |-> NoProjection]
    /\ txn = NoTxn
    /\ view = [w \in Writers |-> [r \in Runs |-> 0]]

Holds(w) == txn # NoTxn /\ txn.writer = w

\* projection(): the writer observes the committed projection.
ReadProjection(w, r) ==
    /\ ~Holds(w)
    /\ view' = [view EXCEPT ![w][r] = projection[r].sequence]
    /\ UNCHANGED <<events, projection, txn>>

\* append(): lock the connection and begin an IMMEDIATE transaction.
Begin(w, r, e) ==
    /\ txn = NoTxn
    /\ txn' = [writer |-> w, run |-> r, event |-> e, expected |-> view[w][r],
               stage |-> "begun"]
    /\ UNCHANGED <<events, projection, view>>

\* Seeded fault: the caller's sequence is not compared.
IgnoresSequence == TRUE

\* The projection is loaded under the lock, so it is the current one.
OwnsSequence == txn.expected = projection[txn.run].sequence

\* The optimistic check, sequence_to_sqlite, the lifecycle check, the INSERT.
InsertEvent(w) ==
    /\ Holds(w) /\ txn.stage = "begun"
    /\ OwnsSequence
    /\ projection[txn.run].sequence < MaxSequence
    /\ Accepts(projection[txn.run], txn.event)
    /\ txn' = [txn EXCEPT !.stage = "inserted"]
    /\ UNCHANGED <<events, projection, view>>

SaveProjection(w) ==
    /\ Holds(w) /\ txn.stage = "inserted"
    /\ txn' = [txn EXCEPT !.stage = "saved"]
    /\ UNCHANGED <<events, projection, view>>

\* Seeded fault: the event is committed and its projection is not.
CommitsEventAlone(w) ==
    /\ Holds(w) /\ txn.stage = "saved"
    /\ events' = [events EXCEPT ![txn.run] = Append(@, txn.event)]
    /\ view' = [view EXCEPT ![w][txn.run] = projection[txn.run].sequence + 1]
    /\ txn' = NoTxn
    /\ UNCHANGED projection

\* Both tables change together; the caller receives the new sequence.
Commit(w) ==
    /\ Holds(w) /\ txn.stage = "saved"
    /\ events' = [events EXCEPT ![txn.run] = Append(@, txn.event)]
    /\ projection' = [projection EXCEPT ![txn.run] = Apply(@, txn.event)]
    /\ view' = [view EXCEPT ![w][txn.run] = projection[txn.run].sequence + 1]
    /\ txn' = NoTxn

\* Any early return of append(): a stale sequence, a rejected transition, an
\* event of another session, a storage error.  The transaction is dropped.
Rollback(w) ==
    /\ Holds(w)
    /\ txn' = NoTxn
    /\ UNCHANGED <<events, projection, view>>

\* The writer's process dies: its open transaction is rolled back, and the
\* writer that replaces it has observed nothing.
Crash(w) ==
    /\ view' = [view EXCEPT ![w] = [r \in Runs |-> 0]]
    /\ txn' = IF Holds(w) THEN NoTxn ELSE txn
    /\ UNCHANGED <<events, projection>>

Next ==
    \E w \in Writers :
        \/ \E r \in Runs : ReadProjection(w, r)
        \/ \E r \in Runs, e \in ExecutionEvent : Begin(w, r, e)
        \/ InsertEvent(w)
        \/ SaveProjection(w)
        \/ Commit(w)
        \/ Rollback(w)
        \/ Crash(w)

Spec == Init /\ [][Next]_vars

-----------------------------------------------------------------------------
(* Properties *)

\* Every variable stays in its type.
TypeOK ==
    /\ events \in [Runs -> Seq(ExecutionEvent)]
    /\ projection \in [Runs -> RunProjection]
    /\ txn \in Transaction \cup {NoTxn}
    /\ view \in [Writers -> [Runs -> Nat]]

\* What the events of a log make of a run nothing is known of.
Replay(log) ==
    LET after[n \in 0..Len(log)] ==
          IF n = 0 THEN NoProjection ELSE Apply(after[n - 1], log[n])
    IN  after[Len(log)]

\* The projection a restarted process loads is the one its log replays to: a
\* crash at no point of append() leaves one table ahead of the other.
ProjectionIsReplay == \A r \in Runs : projection[r] = Replay(events[r])

\* A tool call is started at most once in the life of a run, however often
\* it is asked about and approved, and whatever writers crash or compete:
\* its side effect is never recorded as begun twice.
StartedAtMostOnce ==
    \A r \in Runs : \A i, j \in 1..Len(events[r]) :
        /\ events[r][i].kind = "tool_started"
        /\ events[r][j] = events[r][i]
        => i = j

\* Within low..high call c was put to the user and the answer was yes: the
\* resolution names the approval, the last request before it names the call.
ApprovedBetween(r, c, low, high) ==
    \E k \in low..high :
        /\ events[r][k].kind = "approval_resolved" /\ events[r][k].approved
        /\ \E q \in low..k :
              /\ events[r][q].kind = "approval_requested" /\ events[r][q].call = c
              /\ events[r][q].approval = events[r][k].approval
              /\ \A m \in (q + 1)..k : events[r][m].kind # "approval_requested"

\* A call that policy sent to the user is started only after the user approved
\* that very question: each "ask" before a start has its approval in between.
AskedThenApproved ==
    \A r \in Runs : \A i, j \in 1..Len(events[r]) :
        /\ i < j
        /\ events[r][i].kind = "policy_evaluated" /\ events[r][i].decision = "ask"
        /\ events[r][j].kind = "tool_started"
        /\ events[r][j].call = events[r][i].call
        => ApprovedBetween(r, events[r][i].call, i, j)

\* A pending approval always guards a tool that waits for it, so resolving it
\* never moves a tool that has gone elsewhere.
PendingGuardsTool ==
    \A r \in Runs :
        projection[r].pending # NoApproval =>
            projection[r].tools[projection[r].pending.call] = "awaiting_approval"

\* When recovery says the provider may be asked again, every tool the log
\* shows started has a terminal fact later in the log: nothing that may have
\* run is forgotten.
ResumeIsSafe ==
    \A r \in Runs :
        RecoveryDisposition(projection[r]) = "resume_provider" =>
            \A i \in 1..Len(events[r]) :
                events[r][i].kind = "tool_started" =>
                    \E j \in (i + 1)..Len(events[r]) :
                        /\ events[r][j].kind \in
                             {"tool_completed", "tool_failed", "tool_indeterminate"}
                        /\ events[r][j].call = events[r][i].call

\* A log grows only at its end, and a terminal event is its last: nothing is
\* rewritten by a rollback or a crash, nothing follows the end of a run.
AppendOnly ==
    [][\A r \in Runs :
          \/ events'[r] = events[r]
          \/ /\ projection[r].status \notin TerminalStatus
             /\ Len(events'[r]) = Len(events[r]) + 1
             /\ SubSeq(events'[r], 1, Len(events[r])) = events[r]]_vars

\* Optimistic ownership: a log grows only by a writer that had observed all of
\* it, so of two writers that read the same sequence one is refused.
OwnerHadSeenAll ==
    [][\A r \in Runs : events'[r] # events[r] =>
          \E w \in Writers : /\ Holds(w) /\ txn.run = r
                             /\ view[w][r] = Len(events[r])]_vars

\* The ledger read as the tool lifecycle it promises.
RunStage(status) ==
    CASE status = "none"                    -> "none"
      [] status \in {"running", "paused"}   -> "open"
      [] status = "completed"               -> "succeeded"
      [] status \in {"failed", "cancelled"} -> "stopped"

ToolStage(status) ==
    CASE status = "absent"            -> "unknown"
      [] status = "requested"         -> "pending"
      [] status = "awaiting_approval" -> "gated"
      [] status = "denied"            -> "barred"
      [] status = "started"           -> "running"
      [] status \in Outcome           -> "settled"

runBar  == [r \in Runs |-> RunStage(projection[r].status)]
toolBar == [r \in Runs |-> [c \in Calls |-> ToolStage(projection[r].tools[c])]]

Lifecycle == INSTANCE ToolLifecycle WITH run <- runBar, tool <- toolBar

\* Whatever writers, crashes and rollbacks do, the committed projections go
\* through the promised lifecycle: one call moves at a time, along an edge, in
\* an open run, and a run succeeds only when no call is left running.
ImplementsLifecycle == Lifecycle!Spec

-----------------------------------------------------------------------------
(* What is checked: the properties above, by what they are about. *)

\* Types, and approvals that still guard the tool they were asked for.
WellFormed ==
    /\ TypeOK
    /\ PendingGuardsTool

\* What a restarted driver loads is what the log replays to, and it is told to
\* ask the provider again only where nothing that may have run is forgotten.
RecoveryIsSound ==
    /\ ProjectionIsReplay
    /\ ResumeIsSafe

\* A log grows only at its end, only before a terminal event, and only by a
\* writer that had observed all of it.
LogGrows ==
    /\ AppendOnly
    /\ OwnerHadSeenAll

=============================================================================
