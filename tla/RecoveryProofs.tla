--------------------------- MODULE RecoveryProofs ---------------------------
(***************************************************************************)
(* Theorems about what is read back after a restart: ExecutionLedger, for  *)
(* every set of runs, calls, approvals and writers and every bound on the  *)
(* sequence, and Checkpoints, for every set of files and agents and every  *)
(* limit of the stack.                                                     *)
(***************************************************************************)
EXTENDS ExecutionLedger, Checkpoints, SequenceTheorems, WellFoundedInduction, TLAPS

(* An accepted event takes a projection to a projection. *)
LEMMA ApplyType ==
    ASSUME NEW p \in RunProjection, NEW e \in ExecutionEvent, Accepts(p, e)
    PROVE  Apply(p, e) \in RunProjection
<1>1. StatusAfter(p, e) \in ExecutionStatus \cup {"none"}
  BY DEF StatusAfter, RunProjection, ExecutionStatus, TerminalStatus
<1>2. PendingAfter(p, e) \in PendingApproval \cup {NoApproval}
  <2>1. CASE e.kind = "approval_requested"
    <3>1. e \in ApprovalRequested
      BY <2>1 DEF ExecutionEvent, RunEvent, ToolEvent, PolicyEvaluated,
                  ApprovalRequested, ApprovalResolved
    <3>2. QED
      BY <2>1, <3>1 DEF PendingAfter, ApprovalRequested, PendingApproval
  <2>2. CASE e.kind # "approval_requested"
    BY <2>2 DEF PendingAfter, RunProjection
  <2>3. QED
    BY <2>1, <2>2
<1>3. ASSUME e \notin RunEvent
      PROVE  ToolStatusAfter(e) \in ToolExecutionStatus
  BY <1>3 DEF ToolStatusAfter, PolicyStatus, ToolExecutionStatus, Outcome,
       ExecutionEvent, RunEvent, ToolEvent, PolicyEvaluated,
       ApprovalRequested, ApprovalResolved
<1>4. \A c \in Calls : c \in Touched(p, e) => e \notin RunEvent
  BY DEF Touched
<1>5. QED
  BY <1>1, <1>2, <1>3, <1>4 DEF Apply, RunProjection

(* One shape for the five record sets of ExecutionEvent. *)
LEMMA EventShape ==
    ASSUME NEW e \in ExecutionEvent
    PROVE  /\ e \notin RunEvent => \/ e \in ToolEvent
                                    \/ e \in PolicyEvaluated
                                    \/ e \in ApprovalRequested
                                    \/ e \in ApprovalResolved
           /\ e \in ToolEvent <=> e.kind \in {"tool_requested", "tool_started",
                  "tool_completed", "tool_failed", "tool_indeterminate"}
           /\ e \in PolicyEvaluated <=> e.kind = "policy_evaluated"
           /\ e \in ApprovalRequested <=> e.kind = "approval_requested"
           /\ e \in ApprovalResolved <=> e.kind = "approval_resolved"
           /\ e \in RunEvent <=> e.kind \in {"run_accepted", "run_paused",
                  "run_completed", "run_cancelled", "run_failed", "note"}
  BY DEF ExecutionEvent, RunEvent, ToolEvent, PolicyEvaluated,
         ApprovalRequested, ApprovalResolved

-----------------------------------------------------------------------------
(* One projection under one event *)

\* What holds of a stored projection by itself: its type, nothing before the
\* run is accepted, and a pending approval guarding a tool that waits for it.
Sound(p) ==
    /\ p \in RunProjection
    /\ p.status = "none" => p = NoProjection
    /\ p.pending # NoApproval => p.tools[p.pending.call] = "awaiting_approval"

(* The tools an accepted event touches, and the statuses they are found in.   *)
LEMMA TouchedStatus ==
    ASSUME NEW p, Sound(p), NEW e \in ExecutionEvent, Accepts(p, e),
           NEW c \in Calls, c \in Touched(p, e)
    PROVE  /\ e \notin RunEvent
           /\ e.kind \in {"tool_completed", "tool_failed", "tool_indeterminate"} =>
                  p.tools[c] = "started"
           /\ e.kind \notin {"tool_completed", "tool_failed", "tool_indeterminate"} =>
                  p.tools[c] \in {"absent", "requested", "awaiting_approval"}
           /\ e.kind = "tool_started" => p.tools[c] = "requested"
           /\ p.tools[c] = "awaiting_approval" =>
                  e.kind \in {"approval_requested", "approval_resolved"}
<1>1. e \notin RunEvent
  BY DEF Touched
<1>2. p.status # "none"
  <2>1. e.kind # "run_accepted"
    BY <1>1, EventShape
  <2>2. QED
    BY <2>1 DEF Accepts
<1>3. CASE e \in ToolEvent
  <2>1. c = e.call
    BY <1>1, <1>3, EventShape DEF Touched
  <2>2. AcceptsTool(p, e)
    BY <1>2, <1>3 DEF Accepts
  <2>3. QED
    BY <1>1, <1>3, <2>1, <2>2, EventShape DEF AcceptsTool
<1>4. CASE e \in PolicyEvaluated
  <2>1. c = e.call /\ p.tools[e.call] = "requested"
    BY <1>1, <1>2, <1>4, EventShape DEF Touched, Accepts
  <2>2. QED
    BY <1>1, <1>4, <2>1, EventShape
<1>5. CASE e \in ApprovalRequested \cup ApprovalResolved
  <2>1. AcceptsApproval(p, e)
    BY <1>2, <1>5 DEF Accepts
  <2>2. p.tools[c] = "awaiting_approval"
    BY <1>1, <1>5, <2>1, EventShape DEF AcceptsApproval, Touched, Sound
  <2>3. QED
    BY <1>1, <1>5, <2>2, EventShape
<1>6. QED
  BY <1>1, <1>3, <1>4, <1>5, EventShape

(* An accepted event takes a sound projection to a sound one. *)
LEMMA ApplySound ==
    ASSUME NEW p, Sound(p), NEW e \in ExecutionEvent, Accepts(p, e)
    PROVE  Sound(Apply(p, e))
<1>1. Apply(p, e) \in RunProjection
  BY ApplyType DEF Sound
<1>2. Apply(p, e).status # "none"
  <2>1. e.kind # "run_accepted" => p.status # "none"
    BY DEF Accepts
  <2>2. StatusAfter(p, e) # "none"
    BY <2>1 DEF StatusAfter
  <2>3. QED
    BY <2>2 DEF Apply
<1>3. ASSUME PendingAfter(p, e) # NoApproval
      PROVE  Apply(p, e).tools[PendingAfter(p, e).call] = "awaiting_approval"
  <2>1. CASE e.kind = "approval_requested"
    <3>1. PendingAfter(p, e).call = e.call /\ e.call \in Calls
      BY <2>1, EventShape DEF PendingAfter, ApprovalRequested
    <3>2. e.call \in Touched(p, e)
      BY <2>1, EventShape DEF Touched
    <3>3. ToolStatusAfter(e) = "awaiting_approval"
      BY <2>1 DEF ToolStatusAfter
    <3>4. QED
      BY <3>1, <3>2, <3>3 DEF Apply
  <2>2. CASE e.kind \notin {"approval_requested", "approval_resolved"}
    <3>1. PendingAfter(p, e) = p.pending
      BY <2>2 DEF PendingAfter
    <3>2. p.pending.call \in Calls /\ p.tools[p.pending.call] = "awaiting_approval"
      BY <1>3, <3>1 DEF Sound, RunProjection, PendingApproval
    <3>3. p.pending.call \notin Touched(p, e)
      BY <2>2, <3>2, TouchedStatus
    <3>4. QED
      BY <3>1, <3>2, <3>3 DEF Apply
  <2>3. CASE e.kind = "approval_resolved"
    BY <1>3, <2>3 DEF PendingAfter
  <2>4. QED
    BY <2>1, <2>2, <2>3
<1>4. Apply(p, e).pending = PendingAfter(p, e)
  BY DEF Apply
<1>5. QED
  BY <1>1, <1>2, <1>3, <1>4 DEF Sound

(* A call past its start stays past it, and a start is accepted from          *)
(* "requested" only, which it leaves.                                         *)
LEMMA ApplyPast ==
    ASSUME NEW p, Sound(p), NEW e \in ExecutionEvent, Accepts(p, e)
    PROVE  /\ \A c \in Calls : p.tools[c] \in {"started"} \cup Outcome =>
                  Apply(p, e).tools[c] \in {"started"} \cup Outcome
           /\ e.kind = "tool_started" =>
                  /\ e.call \in Calls
                  /\ p.tools[e.call] = "requested"
                  /\ Apply(p, e).tools[e.call] = "started"
<1>1. ASSUME NEW c \in Calls, p.tools[c] \in {"started"} \cup Outcome
      PROVE  Apply(p, e).tools[c] \in {"started"} \cup Outcome
  <2>1. CASE c \in Touched(p, e)
    <3>1. e.kind \in {"tool_completed", "tool_failed", "tool_indeterminate"}
      BY <1>1, <2>1, TouchedStatus DEF Outcome
    <3>2. ToolStatusAfter(e) \in Outcome
      BY <3>1 DEF ToolStatusAfter, Outcome
    <3>3. QED
      BY <2>1, <3>2 DEF Apply
  <2>2. CASE c \notin Touched(p, e)
    BY <1>1, <2>2 DEF Apply
  <2>3. QED
    BY <2>1, <2>2
<1>2. ASSUME e.kind = "tool_started"
      PROVE  /\ e.call \in Calls
             /\ p.tools[e.call] = "requested"
             /\ Apply(p, e).tools[e.call] = "started"
  <2>1. e.call \in Calls /\ e.call \in Touched(p, e)
    BY <1>2, EventShape DEF Touched, ToolEvent
  <2>2. ToolStatusAfter(e) = "started"
    BY <1>2 DEF ToolStatusAfter
  <2>3. QED
    BY <1>2, <2>1, <2>2, TouchedStatus DEF Apply
<1>3. QED
  BY <1>1, <1>2

-----------------------------------------------------------------------------
(* The inductive invariant *)

\* The projection counts the events of its log.
SequenceIsLength == \A r \in Runs : projection[r].sequence = Len(events[r])

\* A transaction past its checks would still pass them: nothing moves the
\* projection it was checked against while it holds the lock.
CheckedTransaction ==
    txn # NoTxn /\ txn.stage \in {"inserted", "saved"} =>
        OwnsSequence /\ Accepts(projection[txn.run], txn.event)

\* The writer's expected sequence is the one it last observed of the run.
ExpectedIsView == txn # NoTxn => txn.expected = view[txn.writer][txn.run]

SoundProjections == \A r \in Runs : Sound(projection[r])

\* A call whose start is in the log is past the point where it may start.
StartedIsPast ==
    \A r \in Runs : \A i \in 1..Len(events[r]) :
        events[r][i].kind = "tool_started" =>
            projection[r].tools[events[r][i].call] \in {"started"} \cup Outcome

LedgerInv ==
    /\ TypeOK
    /\ SequenceIsLength
    /\ CheckedTransaction
    /\ ExpectedIsView
    /\ SoundProjections
    /\ StartedIsPast
    /\ StartedAtMostOnce

LEMMA LedgerInit == Init => LedgerInv
<1> SUFFICES ASSUME Init PROVE LedgerInv
  OBVIOUS
<1>1. NoProjection \in RunProjection /\ Sound(NoProjection)
  BY DEF NoProjection, RunProjection, Sound
<1>2. TypeOK
  BY <1>1 DEF Init, TypeOK
<1>3. \A r \in Runs : Len(events[r]) = 0
  BY DEF Init
<1>4. QED
  BY <1>1, <1>2, <1>3 DEF Init, LedgerInv, SequenceIsLength, CheckedTransaction,
     ExpectedIsView, SoundProjections, StartedIsPast, StartedAtMostOnce, NoProjection

(* A committed transaction keeps the invariant: the only step that writes.    *)
LEMMA LedgerCommit ==
    ASSUME LedgerInv, NEW w \in Writers, Commit(w)
    PROVE  LedgerInv'
<1> DEFINE r == txn.run
           e == txn.event
<1>1. /\ txn \in Transaction /\ txn.writer = w /\ r \in Runs /\ e \in ExecutionEvent
      /\ txn.stage = "saved"
  BY DEF LedgerInv, TypeOK, Commit, Holds, Transaction
<1>2. Accepts(projection[r], e) /\ Sound(projection[r])
  BY <1>1 DEF LedgerInv, CheckedTransaction, SoundProjections, Commit, Holds
<1>3. /\ events' = [events EXCEPT ![r] = Append(@, e)]
      /\ projection' = [projection EXCEPT ![r] = Apply(@, e)]
      /\ txn' = NoTxn
      /\ view' = [view EXCEPT ![w][r] = projection[r].sequence + 1]
  BY DEF Commit
<1>4. /\ events \in [Runs -> Seq(ExecutionEvent)]
      /\ projection \in [Runs -> RunProjection]
      /\ view \in [Writers -> [Runs -> Nat]]
  BY DEF LedgerInv, TypeOK
<1>5. /\ events'[r] = Append(events[r], e)
      /\ projection'[r] = Apply(projection[r], e)
      /\ Len(events'[r]) = Len(events[r]) + 1
      /\ events'[r][Len(events[r]) + 1] = e
      /\ \A i \in 1..Len(events[r]) : events'[r][i] = events[r][i]
  BY <1>1, <1>3, <1>4
<1>6. \A q \in Runs \ {r} : events'[q] = events[q] /\ projection'[q] = projection[q]
  BY <1>3, <1>4
<1>7. projection[r].sequence \in Nat
  BY <1>1, <1>4 DEF RunProjection
<1>8. Sound(Apply(projection[r], e))
  BY <1>1, <1>2, ApplySound
<1>9. TypeOK'
  BY <1>1, <1>3, <1>4, <1>7, <1>8 DEF TypeOK, Sound
<1>10. SequenceIsLength'
  BY <1>5, <1>6, SMTT(40) DEF LedgerInv, SequenceIsLength, Apply
<1>11. CheckedTransaction' /\ ExpectedIsView'
  BY <1>3 DEF CheckedTransaction, ExpectedIsView
<1>12. SoundProjections'
  BY <1>5, <1>6, <1>8 DEF LedgerInv, SoundProjections
<1>13. StartedIsPast'
  <2> SUFFICES ASSUME NEW q \in Runs, NEW i \in 1..Len(events'[q]),
                      events'[q][i].kind = "tool_started"
               PROVE  projection'[q].tools[events'[q][i].call] \in {"started"} \cup Outcome
    BY DEF StartedIsPast
  <2>1. CASE q # r
    BY <2>1, <1>6 DEF LedgerInv, StartedIsPast
  <2>2. CASE q = r /\ i = Len(events[r]) + 1
    BY <2>2, <1>1, <1>2, <1>5, ApplyPast
  <2>3. CASE q = r /\ i \in 1..Len(events[r])
    <3>1. events[r][i] \in ExecutionEvent
      BY <2>3, <1>1, <1>4
    <3>2. events[r][i].kind = "tool_started" /\ events[r][i].call \in Calls
      BY <2>3, <3>1, <1>5, EventShape DEF ToolEvent
    <3>3. projection[r].tools[events[r][i].call] \in {"started"} \cup Outcome
      BY <2>3, <3>2, <1>1 DEF LedgerInv, StartedIsPast
    <3>4. Apply(projection[r], e).tools[events[r][i].call] \in {"started"} \cup Outcome
      BY <3>2, <3>3, <1>1, <1>2, ApplyPast
    <3>5. events'[q][i] = events[r][i] /\ projection'[q] = Apply(projection[r], e)
      BY <2>3, <1>5
    <3>6. QED
      BY <3>4, <3>5
  <2>4. QED
    BY <2>1, <2>2, <2>3, <1>1, <1>4, <1>5
<1>14. StartedAtMostOnce'
  <2> SUFFICES ASSUME NEW q \in Runs, NEW i \in 1..Len(events'[q]), NEW j \in 1..Len(events'[q]),
                      events'[q][i].kind = "tool_started",
                      events'[q][j] = events'[q][i]
               PROVE  i = j
    BY DEF StartedAtMostOnce
  <2>1. CASE q # r
    BY <2>1, <1>6 DEF LedgerInv, StartedAtMostOnce
  <2>2. CASE q = r
    <3>1. ASSUME NEW k \in 1..Len(events[r]), events[r][k] = e
          PROVE  e.kind # "tool_started"
      BY <3>1, <1>1, <1>2, ApplyPast DEF LedgerInv, StartedIsPast, Outcome
    <3>2. CASE i \in 1..Len(events[r]) /\ j \in 1..Len(events[r])
      BY <2>2, <3>2, <1>1, <1>5 DEF LedgerInv, StartedAtMostOnce
    <3>3. QED
      BY <2>2, <3>1, <3>2, <1>1, <1>4, <1>5
  <2>3. QED
    BY <2>1, <2>2
<1>15. QED
  BY <1>9, <1>10, <1>11, <1>12, <1>13, <1>14 DEF LedgerInv

(* Every other step leaves both tables alone. *)
LEMMA LedgerStep == LedgerInv /\ [Next]_vars => LedgerInv'
<1> SUFFICES ASSUME LedgerInv, [Next]_vars PROVE LedgerInv'
  OBVIOUS
<1>1. ASSUME UNCHANGED <<events, projection>>, TypeOK', CheckedTransaction', ExpectedIsView'
      PROVE  LedgerInv'
  BY <1>1 DEF LedgerInv, SequenceIsLength, SoundProjections, StartedIsPast, StartedAtMostOnce
<1>2. ASSUME NEW w \in Writers, NEW r \in Runs, ReadProjection(w, r)
      PROVE  LedgerInv'
  BY <1>1, <1>2 DEF ReadProjection, Holds, LedgerInv, TypeOK, RunProjection, Transaction,
     CheckedTransaction, OwnsSequence, ExpectedIsView
<1>3. ASSUME NEW w \in Writers, NEW r \in Runs, NEW e \in ExecutionEvent, Begin(w, r, e)
      PROVE  LedgerInv'
  BY <1>1, <1>3 DEF Begin, LedgerInv, TypeOK, Transaction, CheckedTransaction, ExpectedIsView
<1>4. ASSUME NEW w \in Writers, InsertEvent(w)
      PROVE  LedgerInv'
  BY <1>1, <1>4 DEF InsertEvent, Holds, LedgerInv, TypeOK, Transaction,
     CheckedTransaction, OwnsSequence, ExpectedIsView
<1>5. ASSUME NEW w \in Writers, SaveProjection(w)
      PROVE  LedgerInv'
  BY <1>1, <1>5 DEF SaveProjection, Holds, LedgerInv, TypeOK, Transaction,
     CheckedTransaction, OwnsSequence, ExpectedIsView
<1>6. ASSUME NEW w \in Writers, Commit(w)
      PROVE  LedgerInv'
  BY <1>6, LedgerCommit
<1>7. ASSUME NEW w \in Writers, Rollback(w)
      PROVE  LedgerInv'
  BY <1>1, <1>7 DEF Rollback, LedgerInv, TypeOK, CheckedTransaction, ExpectedIsView
<1>8. ASSUME NEW w \in Writers, Crash(w)
      PROVE  LedgerInv'
  BY <1>1, <1>8 DEF Crash, Holds, LedgerInv, TypeOK, Transaction, CheckedTransaction,
     OwnsSequence, ExpectedIsView
<1>9. CASE UNCHANGED vars
  BY <1>1, <1>9 DEF vars, LedgerInv, TypeOK, CheckedTransaction, OwnsSequence, ExpectedIsView
<1>10. QED
  BY <1>2, <1>3, <1>4, <1>5, <1>6, <1>7, <1>8, <1>9 DEF Next

\* LedgerInv is an invariant of every execution.
THEOREM LedgerInvariant == Spec => []LedgerInv
  BY LedgerInit, LedgerStep, PTL DEF Spec

-----------------------------------------------------------------------------
(* What a reader may rely on *)

\* The stored log, projections, transaction and views have their types.
THEOREM TypeCorrect == Spec => []TypeOK
  BY LedgerInvariant, PTL DEF LedgerInv

\* A tool call is recorded as started at most once in a run.
THEOREM StartsOnce == Spec => []StartedAtMostOnce
  BY LedgerInvariant, PTL DEF LedgerInv

\* A pending approval always guards a tool that waits for it.
THEOREM PendingGuards == Spec => []PendingGuardsTool
<1>1. LedgerInv => PendingGuardsTool
  BY DEF LedgerInv, SoundProjections, Sound, PendingGuardsTool
<1>2. QED
  BY <1>1, LedgerInvariant, PTL

\* Types and pending approvals together, as the model checker runs them.
THEOREM WellFormedAlways == Spec => []WellFormed
<1>1. TypeOK /\ PendingGuardsTool => WellFormed
  BY DEF WellFormed
<1>2. QED
  BY <1>1, TypeCorrect, PendingGuards, PTL

(* The only step that moves a table is the commit of a checked transaction. *)
LEMMA OnlyCommitWrites ==
    ASSUME LedgerInv, [Next]_vars
    PROVE  \/ UNCHANGED <<events, projection>>
           \/ \E w \in Writers :
                 /\ Holds(w) /\ txn \in Transaction
                 /\ view[w][txn.run] = Len(events[txn.run])
                 /\ Accepts(projection[txn.run], txn.event)
                 /\ events' = [events EXCEPT ![txn.run] = Append(@, txn.event)]
                 /\ projection' = [projection EXCEPT ![txn.run] = Apply(@, txn.event)]
<1>1. ASSUME NEW w \in Writers, Commit(w)
      PROVE  /\ Holds(w) /\ txn \in Transaction
             /\ view[w][txn.run] = Len(events[txn.run])
             /\ Accepts(projection[txn.run], txn.event)
             /\ events' = [events EXCEPT ![txn.run] = Append(@, txn.event)]
             /\ projection' = [projection EXCEPT ![txn.run] = Apply(@, txn.event)]
  <2>1. Holds(w) /\ txn \in Transaction /\ txn.run \in Runs
    BY <1>1 DEF Commit, LedgerInv, TypeOK, Transaction, Holds
  <2>2. /\ txn.expected = projection[txn.run].sequence
        /\ Accepts(projection[txn.run], txn.event)
    BY <1>1, <2>1 DEF Commit, Holds, LedgerInv, CheckedTransaction, OwnsSequence
  <2>3. view[w][txn.run] = Len(events[txn.run])
    BY <2>1, <2>2 DEF Holds, LedgerInv, ExpectedIsView, SequenceIsLength
  <2>4. QED
    BY <1>1, <2>1, <2>2, <2>3 DEF Commit
<1>2. QED
  BY <1>1 DEF Next, vars, ReadProjection, Begin, InsertEvent, SaveProjection, Rollback, Crash

\* A log grows only by a writer that had observed all of it.
THEOREM OwnersAppend == Spec => OwnerHadSeenAll
<1>1. LedgerInv /\ [Next]_vars =>
        [\A r \in Runs : events'[r] # events[r] =>
          \E w \in Writers : /\ Holds(w) /\ txn.run = r
                             /\ view[w][r] = Len(events[r])]_vars
  <2> SUFFICES ASSUME LedgerInv, [Next]_vars, NEW r \in Runs, events'[r] # events[r]
               PROVE  \E w \in Writers : /\ Holds(w) /\ txn.run = r
                                         /\ view[w][r] = Len(events[r])
    OBVIOUS
  <2>1. PICK w \in Writers :
            /\ Holds(w) /\ view[w][txn.run] = Len(events[txn.run])
            /\ events' = [events EXCEPT ![txn.run] = Append(@, txn.event)]
    BY OnlyCommitWrites
  <2>2. txn.run = r
    BY <2>1 DEF LedgerInv, TypeOK
  <2>3. QED
    BY <2>1, <2>2
<1>2. QED
  BY <1>1, LedgerInvariant, PTL DEF Spec, OwnerHadSeenAll

\* A log grows at its end only, and its terminal event is its last.
THEOREM LogsAppendOnly == Spec => AppendOnly
<1>1. LedgerInv /\ [Next]_vars =>
        [\A r \in Runs :
          \/ events'[r] = events[r]
          \/ /\ projection[r].status \notin TerminalStatus
             /\ Len(events'[r]) = Len(events[r]) + 1
             /\ SubSeq(events'[r], 1, Len(events[r])) = events[r]]_vars
  <2> SUFFICES ASSUME LedgerInv, [Next]_vars, NEW r \in Runs, events'[r] # events[r]
               PROVE  /\ projection[r].status \notin TerminalStatus
                      /\ Len(events'[r]) = Len(events[r]) + 1
                      /\ SubSeq(events'[r], 1, Len(events[r])) = events[r]
    OBVIOUS
  <2>1. /\ txn \in Transaction
        /\ Accepts(projection[txn.run], txn.event)
        /\ events' = [events EXCEPT ![txn.run] = Append(@, txn.event)]
    BY OnlyCommitWrites
  <2>2. events \in [Runs -> Seq(ExecutionEvent)] /\ txn.event \in ExecutionEvent
    BY <2>1 DEF LedgerInv, TypeOK, Transaction
  <2>3. txn.run = r /\ events'[r] = Append(events[r], txn.event)
    BY <2>1, <2>2
  <2>4. projection[r].status \notin TerminalStatus
    BY <2>1, <2>3 DEF Accepts, TerminalStatus
  <2>5. QED
    BY <2>2, <2>3, <2>4
<1>2. QED
  BY <1>1, LedgerInvariant, PTL DEF Spec, AppendOnly

\* Both together: what a step may do to a log, and who may do it.
THEOREM LogsGrow == Spec => LogGrows
  BY LogsAppendOnly, OwnersAppend, PTL DEF LogGrows

-----------------------------------------------------------------------------
(* What recovery is told, and what the user was asked *)

(* A set of numbers that is not empty has a least one. *)
LEMMA LeastExists ==
    ASSUME NEW S \in SUBSET Nat, S # {}
    PROVE  \E i \in S : \A j \in S : i <= j
<1>1. PICK i \in S : \A j \in S : <<j, i>> \notin OpToRel(<, Nat)
  BY WFMin, NatLessThanWellFounded, Zenon
<1>2. \A j \in S : ~(j < i)
  BY <1>1, Zenon DEF OpToRel
<1>3. QED
  BY <1>2

(* A log with one more event. *)
LEMMA LogGrown ==
    ASSUME NEW log \in Seq(ExecutionEvent), NEW e \in ExecutionEvent
    PROVE  /\ Append(log, e) \in Seq(ExecutionEvent)
           /\ Len(log) \in Nat /\ Len(Append(log, e)) = Len(log) + 1
           /\ \A i \in 1..Len(log) : i \in 1..Len(Append(log, e)) /\ Append(log, e)[i] = log[i]
           /\ Len(log) + 1 \in 1..Len(Append(log, e)) /\ Append(log, e)[Len(log) + 1] = e
           /\ \A i \in 1..Len(Append(log, e)) : i \in 1..Len(log) \/ i = Len(log) + 1
  OBVIOUS

(* Positions before that event. *)
LEMMA UpToLast ==
    ASSUME NEW log \in Seq(ExecutionEvent), NEW q \in 1..Len(log),
           NEW m \in (q + 1)..(Len(log) + 1), m # Len(log) + 1
    PROVE  m \in 1..Len(log) /\ m \in (q + 1)..Len(log)
<1>1. Len(log) \in Nat
  OBVIOUS
<1>2. QED
  BY <1>1

\* The projections a log goes through, from the first on.
Stages(log, f) ==
    f = [n \in 0..Len(log) |-> IF n = 0 THEN NoProjection ELSE Apply(f[n - 1], log[n])]

\* A call that left "started" has its terminal fact in the log.
FactEnds == {"tool_completed", "tool_failed", "tool_indeterminate"}
Settles(log, i, c) ==
    \E j \in (i + 1)..Len(log) : log[j].kind \in FactEnds /\ log[j].call = c
StartsSettled(log, p) ==
    \A i \in 1..Len(log) :
        log[i].kind = "tool_started" /\ p.tools[log[i].call] # "started" =>
            Settles(log, i, log[i].call)

\* ApprovedBetween, of a log.
Asks(log, i, c) ==
    log[i].kind = "policy_evaluated" /\ log[i].decision = "ask" /\ log[i].call = c
Poses(log, q, c, a) ==
    log[q].kind = "approval_requested" /\ log[q].call = c /\ log[q].approval = a
Grants(log, k, low, c) ==
    /\ log[k].kind = "approval_resolved" /\ log[k].approved
    /\ \E q \in low..k :
          /\ Poses(log, q, c, log[k].approval)
          /\ \A m \in (q + 1)..k : log[m].kind # "approval_requested"
Granted(log, c, low, high) == \E k \in low..high : Grants(log, k, low, c)

\* A call that was put to the user waits, was denied, or has its approval.
AsksHeld(log, p) ==
    \A i \in 1..Len(log) : \A c \in Calls :
        Asks(log, i, c) /\ p.tools[c] \notin {"awaiting_approval", "denied"} =>
            Granted(log, c, i, Len(log))

\* The pending approval is the last one requested, after everything policy
\* said of its call.
PendingPosed(log, p) ==
    p.pending # NoApproval =>
        \E q \in 1..Len(log) :
            /\ Poses(log, q, p.pending.call, p.pending.approval)
            /\ \A m \in (q + 1)..Len(log) : log[m].kind # "approval_requested"
            /\ \A i \in 1..Len(log) : Asks(log, i, p.pending.call) => i < q

StartsGranted(log) ==
    \A i, j \in 1..Len(log) : \A c \in Calls :
        i < j /\ Asks(log, i, c) /\ log[j].kind = "tool_started" /\ log[j].call = c =>
            Granted(log, c, i, j)

Explains(log, p) ==
    /\ \E f : Stages(log, f) /\ p = f[Len(log)]
    /\ StartsSettled(log, p)
    /\ AsksHeld(log, p)
    /\ PendingPosed(log, p)
    /\ StartsGranted(log)

(* The way through a log is continued by the event that is added. *)
LEMMA StagesGrow ==
    ASSUME NEW log \in Seq(ExecutionEvent), NEW e \in ExecutionEvent,
           NEW f, Stages(log, f)
    PROVE  \E g : Stages(Append(log, e), g) /\ g[Len(Append(log, e))] = Apply(f[Len(log)], e)
<1> DEFINE more == Append(log, e)
           g == [n \in 0..Len(more) |-> IF n = Len(more) THEN Apply(f[Len(log)], e) ELSE f[n]]
           Next1(h, n) == IF n = 0 THEN NoProjection ELSE Apply(h[n - 1], more[n])
<1>1. /\ Len(log) \in Nat /\ Len(more) = Len(log) + 1
      /\ \A i \in 1..Len(log) : more[i] = log[i]
      /\ more[Len(log) + 1] = e
  BY LogGrown
<1> HIDE DEF more
<1>2. \A n \in 0..Len(log) : g[n] = f[n]
  BY <1>1
<1>3. g[Len(log) + 1] = Apply(f[Len(log)], e)
  BY <1>1
<1>4. \A n \in 0..Len(log) : f[n] = IF n = 0 THEN NoProjection ELSE Apply(f[n - 1], log[n])
  BY DEF Stages
<1>5. ASSUME NEW n \in 0..Len(more)
      PROVE  g[n] = Next1(g, n)
  <2>1. CASE n = Len(log) + 1
    <3>1. n # 0 /\ n - 1 = Len(log) /\ n - 1 \in 0..Len(log) /\ more[n] = e
      BY <1>1, <2>1
    <3>2. g[n - 1] = f[Len(log)]
      BY <1>2, <3>1
    <3> HIDE DEF g
    <3>3. QED
      BY <1>3, <2>1, <3>1, <3>2
  <2>2. CASE n # Len(log) + 1
    <3>1. n \in 0..Len(log)
      BY <1>1, <2>2
    <3>2. g[n] = f[n]
      BY <1>2, <3>1
    <3>3. CASE n = 0
      BY <1>4, <3>1, <3>2, <3>3
    <3>4. CASE n # 0
      <4>1. n \in 1..Len(log) /\ n - 1 \in 0..Len(log)
        BY <1>1, <3>1, <3>4
      <4>2. more[n] = log[n] /\ g[n - 1] = f[n - 1]
        BY <1>1, <1>2, <4>1
      <4>3. f[n] = Apply(f[n - 1], log[n])
        BY <1>4, <3>1, <3>4
      <4> HIDE DEF g
      <4>4. QED
        BY <3>2, <3>4, <4>2, <4>3
    <3>5. QED
      BY <3>3, <3>4
  <2>3. QED
    BY <2>1, <2>2
<1>6. g = [n \in 0..Len(more) |-> Next1(g, n)]
  BY <1>5
<1> HIDE DEF g
<1>7. Stages(more, g)
  BY <1>6 DEF Stages
<1>8. QED
  BY <1>1, <1>3, <1>7 DEF more

(* Two ways to go through a log are one. *)
LEMMA StagesAreReplay ==
    ASSUME NEW log \in Seq(ExecutionEvent), NEW f, Stages(log, f)
    PROVE  Replay(log) = f[Len(log)]
<1> DEFINE G(h) == [n \in 0..Len(log) |-> IF n = 0 THEN NoProjection ELSE Apply(h[n - 1], log[n])]
           g == CHOOSE h : h = G(h)
           apart == {n \in 0..Len(log) : g[n] # f[n]}
<1>1. g = G(g) /\ f = G(f)
  BY DEF Stages
<1>2. Replay(log) = g[Len(log)]
  BY DEF Replay
<1> HIDE DEF g
<1>3. ASSUME NEW n \in 0..Len(log)
      PROVE  /\ g[n] = IF n = 0 THEN NoProjection ELSE Apply(g[n - 1], log[n])
             /\ f[n] = IF n = 0 THEN NoProjection ELSE Apply(f[n - 1], log[n])
  BY <1>1
<1> HIDE DEF G
<1>4. apart = {}
  <2> SUFFICES ASSUME apart # {} PROVE FALSE
    OBVIOUS
  <2>1. Len(log) \in Nat /\ apart \in SUBSET Nat
    OBVIOUS
  <2>2. PICK n \in apart : \A m \in apart : n <= m
    BY <2>1, LeastExists
  <2>3. n \in 0..Len(log) /\ g[n] # f[n]
    OBVIOUS
  <2>4. n # 0
    BY <1>3, <2>3
  <2>5. n - 1 \in 0..Len(log) /\ n - 1 \notin apart
    BY <2>1, <2>2, <2>3, <2>4
  <2>6. g[n - 1] = f[n - 1]
    BY <2>5
  <2>7. QED
    BY <1>3, <2>3, <2>4, <2>6
<1>5. QED
  BY <1>2, <1>4

(* A grant stays one when the log grows. *)
LEMMA GrantedStays ==
    ASSUME NEW log \in Seq(ExecutionEvent), NEW e \in ExecutionEvent, NEW c,
           NEW low \in 1..Len(log), NEW high \in 1..Len(log), NEW top \in Nat,
           high <= top, Granted(log, c, low, high)
    PROVE  Granted(Append(log, e), c, low, top)
<1> DEFINE more == Append(log, e)
<1>1. PICK k \in low..high : Grants(log, k, low, c)
  BY DEF Granted
<1>2. PICK q \in low..k : /\ Poses(log, q, c, log[k].approval)
                          /\ \A m \in (q + 1)..k : log[m].kind # "approval_requested"
  BY <1>1 DEF Grants
<1>3. k \in low..top /\ k \in 1..Len(log) /\ q \in 1..Len(log)
      /\ \A m \in (q + 1)..k : m \in 1..Len(log)
  BY LogGrown
<1>4. more[k] = log[k] /\ more[q] = log[q] /\ \A m \in (q + 1)..k : more[m] = log[m]
  BY <1>3, LogGrown
<1> HIDE DEF more
<1>5. Poses(more, q, c, more[k].approval)
  BY <1>2, <1>4 DEF Poses
<1>6. Grants(more, k, low, c)
  BY <1>1, <1>2, <1>4, <1>5 DEF Grants
<1>7. QED
  BY <1>3, <1>6 DEF Granted, more

(* A call leaves "started" by the terminal fact that is added to the log. *)
LEMMA StartsSettledStays ==
    ASSUME NEW log \in Seq(ExecutionEvent), NEW p, Sound(p), NEW e \in ExecutionEvent,
           Accepts(p, e), StartsSettled(log, p)
    PROVE  StartsSettled(Append(log, e), Apply(p, e))
<1> DEFINE more == Append(log, e)
<1>1. /\ Len(log) \in Nat /\ Len(more) = Len(log) + 1 /\ more[Len(log) + 1] = e
      /\ \A i \in 1..Len(log) : more[i] = log[i] /\ log[i] \in ExecutionEvent
      /\ \A i \in 1..Len(more) : i \in 1..Len(log) \/ i = Len(log) + 1
  BY LogGrown
<1> HIDE DEF more
<1> SUFFICES ASSUME NEW i \in 1..Len(more), more[i].kind = "tool_started",
                    Apply(p, e).tools[more[i].call] # "started"
             PROVE  Settles(more, i, more[i].call)
  BY DEF StartsSettled, more
<1>2. CASE i = Len(log) + 1
  BY <1>1, <1>2, ApplyPast
<1>3. CASE i \in 1..Len(log)
  <2>1. more[i] = log[i] /\ log[i].call \in Calls
    <3>1. more[i] = log[i] /\ log[i] \in ToolEvent
      BY <1>1, <1>3, EventShape
    <3>2. QED
      BY <3>1 DEF ToolEvent
  <2>2. CASE p.tools[log[i].call] # "started"
    <3>1. PICK j \in (i + 1)..Len(log) : log[j].kind \in FactEnds /\ log[j].call = log[i].call
      BY <1>3, <2>1, <2>2 DEF StartsSettled, Settles
    <3>2. j \in (i + 1)..Len(more) /\ more[j] = log[j]
      BY <1>1, <1>3
    <3>3. QED
      BY <2>1, <3>1, <3>2 DEF Settles
  <2>3. CASE p.tools[log[i].call] = "started"
    <3>1. log[i].call \in Touched(p, e)
      BY <2>1, <2>3 DEF Apply
    <3>2. e.kind \in FactEnds
      BY <2>1, <2>3, <3>1, TouchedStatus DEF FactEnds
    <3>3. e.call = log[i].call
      BY <3>1, <3>2 DEF Touched, FactEnds
    <3>4. Len(log) + 1 \in (i + 1)..Len(more)
      BY <1>1, <1>3
    <3>5. QED
      BY <1>1, <2>1, <3>2, <3>3, <3>4 DEF Settles
  <2>4. QED
    BY <2>2, <2>3
<1>4. QED
  BY <1>1, <1>2, <1>3

(* A resolution approves the call of the pending approval, and it only. *)
LEMMA ApprovalGrants ==
    ASSUME NEW log \in Seq(ExecutionEvent), NEW p, Sound(p), NEW e \in ExecutionEvent,
           Accepts(p, e), PendingPosed(log, p),
           e.kind = "approval_resolved", e.approved,
           NEW i \in 1..Len(log), Asks(log, i, p.pending.call)
    PROVE  Granted(Append(log, e), p.pending.call, i, Len(log) + 1)
<1> DEFINE more == Append(log, e)
           c == p.pending.call
<1>1. /\ Len(log) \in Nat /\ Len(more) = Len(log) + 1 /\ more[Len(log) + 1] = e
      /\ \A j \in 1..Len(log) : more[j] = log[j]
  BY LogGrown
<1>2. p.pending # NoApproval /\ p.pending.approval = e.approval
  <2>1. e \in ApprovalResolved /\ e.kind # "run_accepted"
    BY EventShape
  <2>2. AcceptsApproval(p, e)
    BY <2>1 DEF Accepts
  <2>3. QED
    BY <2>2 DEF AcceptsApproval
<1> HIDE DEF more
<1>3. PICK q \in 1..Len(log) :
            /\ Poses(log, q, c, p.pending.approval)
            /\ \A m \in (q + 1)..Len(log) : log[m].kind # "approval_requested"
            /\ \A j \in 1..Len(log) : Asks(log, j, c) => j < q
  BY <1>2 DEF PendingPosed
<1>4. i < q
  BY <1>3
<1>5. Poses(more, q, c, e.approval)
  BY <1>1, <1>2, <1>3 DEF Poses
<1>6. \A m \in (q + 1)..(Len(log) + 1) : more[m].kind # "approval_requested"
  <2> TAKE m \in (q + 1)..(Len(log) + 1)
  <2>1. CASE m = Len(log) + 1
    BY <1>1, <2>1
  <2>2. CASE m # Len(log) + 1
    <3>1. m \in 1..Len(log) /\ m \in (q + 1)..Len(log)
      BY <2>2, UpToLast
    <3>2. QED
      BY <1>1, <1>3, <3>1
  <2>3. QED
    BY <2>1, <2>2
<1>7. q \in i..(Len(log) + 1) /\ Len(log) + 1 \in i..(Len(log) + 1)
  BY <1>1, <1>4
<1>8. Grants(more, Len(log) + 1, i, c)
  BY <1>1, <1>5, <1>6, <1>7 DEF Grants
<1>9. QED
  BY <1>7, <1>8 DEF Granted, more

(* A call that was put to the user leaves the question with the approval only. *)
LEMMA AsksHeldStays ==
    ASSUME NEW log \in Seq(ExecutionEvent), NEW p, Sound(p), NEW e \in ExecutionEvent,
           Accepts(p, e), AsksHeld(log, p), PendingPosed(log, p)
    PROVE  AsksHeld(Append(log, e), Apply(p, e))
<1> DEFINE more == Append(log, e)
<1>1. /\ Len(log) \in Nat /\ Len(more) = Len(log) + 1 /\ more[Len(log) + 1] = e
      /\ \A i \in 1..Len(log) : more[i] = log[i]
      /\ \A i \in 1..Len(more) : i \in 1..Len(log) \/ i = Len(log) + 1
  BY LogGrown
<1> HIDE DEF more
<1> SUFFICES ASSUME NEW i \in 1..Len(more), NEW c \in Calls, Asks(more, i, c),
                    Apply(p, e).tools[c] \notin {"awaiting_approval", "denied"}
             PROVE  Granted(more, c, i, Len(log) + 1)
  BY <1>1 DEF AsksHeld, more
<1>2. CASE i = Len(log) + 1
  <2>1. e.kind = "policy_evaluated" /\ e.decision = "ask" /\ e.call = c
    BY <1>1, <1>2 DEF Asks
  <2>2. c \in Touched(p, e)
    BY <2>1, EventShape DEF Touched
  <2>3. ToolStatusAfter(e) = "awaiting_approval"
    BY <2>1 DEF ToolStatusAfter, PolicyStatus
  <2>4. QED
    BY <2>2, <2>3 DEF Apply
<1>3. CASE i \in 1..Len(log)
  <2>1. Asks(log, i, c)
    BY <1>1, <1>3 DEF Asks
  <2>2. CASE p.tools[c] \notin {"awaiting_approval", "denied"}
    <3>1. Granted(log, c, i, Len(log))
      BY <1>3, <2>1, <2>2 DEF AsksHeld
    <3>2. Len(log) \in 1..Len(log) /\ Len(log) + 1 \in Nat /\ Len(log) <= Len(log) + 1
      BY <1>1, <1>3
    <3>3. QED
      BY <1>3, <3>1, <3>2, GrantedStays DEF more
  <2>3. CASE p.tools[c] \in {"awaiting_approval", "denied"}
    <3>1. c \in Touched(p, e)
      BY <2>3 DEF Apply
    <3>2. p.tools[c] = "awaiting_approval"
      BY <2>3, <3>1, TouchedStatus
    <3>3. e.kind \in {"approval_requested", "approval_resolved"}
      BY <3>1, <3>2, TouchedStatus
    <3>4. ToolStatusAfter(e) \notin {"awaiting_approval", "denied"}
      BY <3>1 DEF Apply
    <3>5. e.kind = "approval_resolved" /\ e.approved
      BY <3>3, <3>4 DEF ToolStatusAfter
    <3>6. c = p.pending.call
      BY <3>1, <3>5, EventShape DEF Touched
    <3>7. QED
      BY <1>3, <2>1, <3>5, <3>6, ApprovalGrants DEF more
  <2>4. QED
    BY <2>2, <2>3
<1>4. QED
  BY <1>1, <1>2, <1>3

(* While an approval is pending nothing else is requested, and policy says   *)
(* nothing of the call that waits for it.                                    *)
LEMMA PendingPosedStays ==
    ASSUME NEW log \in Seq(ExecutionEvent), NEW p, Sound(p), NEW e \in ExecutionEvent,
           Accepts(p, e), PendingPosed(log, p)
    PROVE  PendingPosed(Append(log, e), Apply(p, e))
<1> DEFINE more == Append(log, e)
<1>1. /\ Len(log) \in Nat /\ Len(more) = Len(log) + 1 /\ more[Len(log) + 1] = e
      /\ \A i \in 1..Len(log) : i \in 1..Len(more) /\ more[i] = log[i]
      /\ \A i \in 1..Len(more) : i \in 1..Len(log) \/ i = Len(log) + 1
      /\ Len(log) + 1 \in 1..Len(more)
  BY LogGrown
<1> HIDE DEF more
<1>2. Apply(p, e).pending = PendingAfter(p, e)
  BY DEF Apply
<1> DEFINE new == PendingAfter(p, e)
<1> SUFFICES ASSUME new # NoApproval
             PROVE  \E q \in 1..Len(more) :
                      /\ Poses(more, q, new.call, new.approval)
                      /\ \A m \in (q + 1)..Len(more) : more[m].kind # "approval_requested"
                      /\ \A i \in 1..Len(more) : Asks(more, i, new.call) => i < q
  BY <1>2 DEF PendingPosed, more
<1>3. CASE e.kind = "approval_requested"
  <2>1. new.call = e.call /\ new.approval = e.approval
    BY <1>3 DEF PendingAfter
  <2> HIDE DEF new
  <2> DEFINE q == Len(log) + 1
  <2>2. Poses(more, q, new.call, new.approval)
    BY <1>1, <1>3, <2>1 DEF Poses
  <2>3. \A m \in (q + 1)..Len(more) : more[m].kind # "approval_requested"
    BY <1>1
  <2>4. \A i \in 1..Len(more) : Asks(more, i, new.call) => i < q
    BY <1>1, <1>3 DEF Asks
  <2>5. QED
    BY <1>1, <2>2, <2>3, <2>4
<1>4. CASE e.kind # "approval_requested"
  <2>1. new = p.pending /\ e.kind # "approval_resolved"
    BY <1>4 DEF PendingAfter
  <2> HIDE DEF new
  <2>2. PICK q \in 1..Len(log) :
            /\ Poses(log, q, new.call, new.approval)
            /\ \A m \in (q + 1)..Len(log) : log[m].kind # "approval_requested"
            /\ \A i \in 1..Len(log) : Asks(log, i, new.call) => i < q
    BY <2>1 DEF PendingPosed
  <2>3. q \in 1..Len(more) /\ Poses(more, q, new.call, new.approval)
    BY <1>1, <2>2 DEF Poses
  <2>4. \A m \in (q + 1)..Len(more) : more[m].kind # "approval_requested"
    <3> TAKE m \in (q + 1)..Len(more)
    <3>1. CASE m = Len(log) + 1
      BY <1>1, <1>4, <3>1
    <3>2. CASE m # Len(log) + 1
      <4>1. m \in (q + 1)..(Len(log) + 1)
        BY <1>1
      <4>2. m \in 1..Len(log) /\ m \in (q + 1)..Len(log)
        BY <3>2, <4>1, UpToLast
      <4>3. QED
        BY <1>1, <2>2, <4>2
    <3>3. QED
      BY <3>1, <3>2
  <2>5. \A i \in 1..Len(more) : Asks(more, i, new.call) => i < q
    <3> SUFFICES ASSUME NEW i \in 1..Len(more), Asks(more, i, new.call) PROVE i < q
      OBVIOUS
    <3>1. CASE i = Len(log) + 1
      <4>1. e.kind = "policy_evaluated" /\ e.call = new.call
        BY <1>1, <3>1 DEF Asks
      <4>2. e.call \in Calls /\ e.call \in Touched(p, e)
        BY <4>1, EventShape DEF Touched, PolicyEvaluated
      <4>3. p.tools[e.call] = "awaiting_approval"
        BY <2>1, <4>1 DEF Sound
      <4>4. QED
        BY <4>1, <4>2, <4>3, TouchedStatus
    <3>2. CASE i \in 1..Len(log)
      BY <1>1, <2>2, <3>2 DEF Asks
    <3>3. QED
      BY <1>1, <3>1, <3>2
  <2>6. QED
    BY <2>3, <2>4, <2>5
<1>5. QED
  BY <1>3, <1>4

(* A start finds every question about its call answered. *)
LEMMA StartsGrantedStays ==
    ASSUME NEW log \in Seq(ExecutionEvent), NEW p, Sound(p), NEW e \in ExecutionEvent,
           Accepts(p, e), AsksHeld(log, p), StartsGranted(log)
    PROVE  StartsGranted(Append(log, e))
<1> DEFINE more == Append(log, e)
<1>1. /\ Len(log) \in Nat /\ Len(more) = Len(log) + 1 /\ more[Len(log) + 1] = e
      /\ \A i \in 1..Len(log) : more[i] = log[i]
      /\ \A i \in 1..Len(more) : i \in 1..Len(log) \/ i = Len(log) + 1
  BY LogGrown
<1> HIDE DEF more
<1> SUFFICES ASSUME NEW i \in 1..Len(more), NEW j \in 1..Len(more), NEW c \in Calls,
                    i < j, Asks(more, i, c), more[j].kind = "tool_started", more[j].call = c
             PROVE  Granted(more, c, i, j)
  BY DEF StartsGranted, more
<1>2. i \in 1..Len(log) /\ Asks(log, i, c)
  <2>1. i \in 1..Len(log)
    BY <1>1
  <2>2. QED
    BY <1>1, <2>1 DEF Asks
<1>3. CASE j \in 1..Len(log)
  <2>1. log[j].kind = "tool_started" /\ log[j].call = c
    BY <1>1, <1>3
  <2>2. Granted(log, c, i, j)
    BY <1>2, <1>3, <2>1 DEF StartsGranted
  <2>3. j \in Nat /\ j <= j
    BY <1>3
  <2>4. QED
    BY <1>2, <1>3, <2>2, <2>3, GrantedStays DEF more
<1>4. CASE j = Len(log) + 1
  <2>1. p.tools[c] = "requested"
    BY <1>1, <1>4, ApplyPast
  <2>2. Granted(log, c, i, Len(log))
    BY <1>2, <2>1 DEF AsksHeld
  <2>3. Len(log) \in 1..Len(log) /\ j \in Nat /\ Len(log) <= j
    BY <1>1, <1>2, <1>4
  <2>4. QED
    BY <1>2, <2>2, <2>3, GrantedStays DEF more
<1>5. QED
  BY <1>1, <1>3, <1>4

(* An event that is accepted keeps the log and its projection together. *)
LEMMA ExplainsStays ==
    ASSUME NEW log \in Seq(ExecutionEvent), NEW p, Sound(p), NEW e \in ExecutionEvent,
           Accepts(p, e), Explains(log, p)
    PROVE  Explains(Append(log, e), Apply(p, e))
<1>1. \E g : Stages(Append(log, e), g) /\ Apply(p, e) = g[Len(Append(log, e))]
  BY StagesGrow DEF Explains
<1>2. QED
  BY <1>1, StartsSettledStays, AsksHeldStays, PendingPosedStays, StartsGrantedStays
     DEF Explains

ExplainedInv == LedgerInv /\ \A r \in Runs : Explains(events[r], projection[r])

LEMMA ExplainedInit == Init => ExplainedInv
<1> SUFFICES ASSUME Init PROVE ExplainedInv
  OBVIOUS
<1>1. LedgerInv
  BY LedgerInit
<1>2. Explains(<<>>, NoProjection)
  <2>1. Len(<<>>) = 0
    OBVIOUS
  <2>2. Stages(<<>>, [n \in 0..0 |-> NoProjection])
    BY <2>1 DEF Stages
  <2>3. \E f : Stages(<<>>, f) /\ NoProjection = f[Len(<<>>)]
    <3>1. [n \in 0..0 |-> NoProjection][Len(<<>>)] = NoProjection
      BY <2>1
    <3>2. QED
      BY <2>2, <3>1
  <2>4. NoProjection.pending = NoApproval
    BY DEF NoProjection
  <2>5. QED
    BY <2>1, <2>3, <2>4 DEF Explains, StartsSettled, AsksHeld, PendingPosed, StartsGranted
<1>3. \A r \in Runs : events[r] = <<>> /\ projection[r] = NoProjection
  BY DEF Init
<1>4. QED
  BY <1>1, <1>2, <1>3 DEF ExplainedInv

LEMMA ExplainedStep == ExplainedInv /\ [Next]_vars => ExplainedInv'
<1> SUFFICES ASSUME ExplainedInv, [Next]_vars PROVE ExplainedInv'
  OBVIOUS
<1>1. LedgerInv /\ LedgerInv'
  BY LedgerStep DEF ExplainedInv
<1>2. CASE UNCHANGED <<events, projection>>
  BY <1>1, <1>2 DEF ExplainedInv
<1>3. ASSUME NEW w \in Writers, txn \in Transaction, Accepts(projection[txn.run], txn.event),
             events' = [events EXCEPT ![txn.run] = Append(@, txn.event)],
             projection' = [projection EXCEPT ![txn.run] = Apply(@, txn.event)]
      PROVE  ExplainedInv'
  <2> SUFFICES ASSUME NEW r \in Runs PROVE Explains(events'[r], projection'[r])
    BY <1>1 DEF ExplainedInv
  <2>1. /\ events \in [Runs -> Seq(ExecutionEvent)] /\ projection \in [Runs -> RunProjection]
        /\ txn.run \in Runs /\ txn.event \in ExecutionEvent
    BY <1>1, <1>3 DEF LedgerInv, TypeOK, Transaction
  <2>2. Explains(events[r], projection[r]) /\ Sound(projection[r])
    BY <1>1 DEF ExplainedInv, LedgerInv, SoundProjections
  <2>3. CASE r = txn.run
    <3>1. events'[r] = Append(events[r], txn.event) /\ projection'[r] = Apply(projection[r], txn.event)
      BY <1>3, <2>1, <2>3
    <3>2. events[r] \in Seq(ExecutionEvent) /\ Accepts(projection[r], txn.event)
      BY <1>3, <2>1, <2>3
    <3>3. Explains(Append(events[r], txn.event), Apply(projection[r], txn.event))
      BY <2>1, <2>2, <3>2, ExplainsStays
    <3>4. QED
      BY <3>1, <3>3
  <2>4. CASE r # txn.run
    <3>1. events'[r] = events[r] /\ projection'[r] = projection[r]
      BY <1>3, <2>1, <2>4
    <3>2. QED
      BY <2>2, <3>1
  <2>5. QED
    BY <2>3, <2>4
<1>4. QED
  BY <1>1, <1>2, <1>3, OnlyCommitWrites

LEMMA ExplainedAlways == Spec => []ExplainedInv
  BY ExplainedInit, ExplainedStep, PTL DEF Spec

\* The projection a restarted process loads is what its log replays to, however
\* long the log is and wherever writers crashed; and where recovery says the
\* provider may be asked again, every started tool has its terminal fact.
THEOREM RecoveryStaysSound == Spec => []RecoveryIsSound
<1>1. ExplainedInv => ProjectionIsReplay
  <2> SUFFICES ASSUME ExplainedInv, NEW r \in Runs PROVE projection[r] = Replay(events[r])
    BY DEF ProjectionIsReplay
  <2>1. events[r] \in Seq(ExecutionEvent)
    BY DEF ExplainedInv, LedgerInv, TypeOK
  <2>2. PICK f : Stages(events[r], f) /\ projection[r] = f[Len(events[r])]
    BY DEF ExplainedInv, Explains
  <2>3. QED
    BY <2>1, <2>2, StagesAreReplay
<1>2. ExplainedInv => ResumeIsSafe
  <2> SUFFICES ASSUME ExplainedInv, NEW r \in Runs,
                      RecoveryDisposition(projection[r]) = "resume_provider",
                      NEW i \in 1..Len(events[r]), events[r][i].kind = "tool_started"
               PROVE  Settles(events[r], i, events[r][i].call)
    BY DEF ResumeIsSafe, Settles, FactEnds
  <2>1. EnsureNoStartedTools(projection[r])
    BY DEF RecoveryDisposition
  <2>2. events[r][i] \in ExecutionEvent
    BY DEF ExplainedInv, LedgerInv, TypeOK
  <2>3. events[r][i].call \in Calls
    BY <2>2, EventShape DEF ToolEvent
  <2>4. QED
    BY <2>1, <2>3 DEF EnsureNoStartedTools, ExplainedInv, Explains, StartsSettled
<1>3. QED
  BY <1>1, <1>2, ExplainedAlways, PTL DEF RecoveryIsSound

\* A call that policy sent to the user is started only after the user approved
\* that very question, however often it is asked about and whoever writes.
THEOREM AskedMeansApproved == Spec => []AskedThenApproved
<1>1. ExplainedInv => AskedThenApproved
  <2> SUFFICES ASSUME ExplainedInv, NEW r \in Runs,
                      NEW i \in 1..Len(events[r]), NEW j \in 1..Len(events[r]), i < j,
                      events[r][i].kind = "policy_evaluated", events[r][i].decision = "ask",
                      events[r][j].kind = "tool_started",
                      events[r][j].call = events[r][i].call
               PROVE  ApprovedBetween(r, events[r][i].call, i, j)
    BY DEF AskedThenApproved
  <2> DEFINE c == events[r][i].call
  <2>1. c \in Calls
    <3>1. events[r][j] \in ExecutionEvent
      BY DEF ExplainedInv, LedgerInv, TypeOK
    <3>2. QED
      BY <3>1, EventShape DEF ToolEvent
  <2>2. Asks(events[r], i, c) /\ StartsGranted(events[r])
    BY DEF Asks, ExplainedInv, Explains
  <2>3. Granted(events[r], c, i, j)
    BY <2>1, <2>2 DEF StartsGranted
  <2>4. QED
    BY <2>3 DEF Granted, Grants, Poses, ApprovedBetween
<1>2. QED
  BY <1>1, ExplainedAlways, PTL

-----------------------------------------------------------------------------
(* The ledger implements the lifecycle it promises *)

(* The stage each status stands for. *)
LEMMA StageOf ==
    /\ ToolStage("absent") = "unknown"
    /\ ToolStage("requested") = "pending"
    /\ ToolStage("awaiting_approval") = "gated"
    /\ ToolStage("denied") = "barred"
    /\ ToolStage("started") = "running"
    /\ \A s \in Outcome : ToolStage(s) = "settled"
  BY DEF ToolStage, Outcome

(* An accepted event is a step of the promised lifecycle, or none.            *)
LEMMA ApplyEdge ==
    ASSUME NEW p, Sound(p), NEW e \in ExecutionEvent, Accepts(p, e)
    PROVE  LET q == Apply(p, e) IN
           \/ /\ RunStage(q.status) = RunStage(p.status)
              /\ \E c \in Calls :
                    /\ \/ ToolStage(q.tools[c]) = ToolStage(p.tools[c])
                       \/ /\ <<ToolStage(p.tools[c]), ToolStage(q.tools[c])>> \in Lifecycle!Edges
                          /\ RunStage(p.status) = "open"
                    /\ \A d \in Calls \ {c} : q.tools[d] = p.tools[d]
           \/ /\ q.tools = p.tools
              /\ \/ RunStage(q.status) = RunStage(p.status)
                 \/ RunStage(p.status) = "none" /\ RunStage(q.status) = "open"
                 \/ RunStage(p.status) = "open" /\ RunStage(q.status) = "stopped"
                 \/ /\ RunStage(p.status) = "open" /\ RunStage(q.status) = "succeeded"
                    /\ EnsureNoStartedTools(p)
<1> DEFINE q == Apply(p, e)
<1>0. p \in RunProjection /\ q.tools = [c \in Calls |-> IF c \in Touched(p, e)
                                   THEN ToolStatusAfter(e) ELSE p.tools[c]]
      /\ q.status = StatusAfter(p, e)
  BY DEF Sound, Apply
<1>1. CASE e \in RunEvent
  <2>1. q.tools = p.tools
    BY <1>0, <1>1 DEF Touched, RunProjection
  <2>2. CASE p.status = "none"
    BY <1>0, <2>1, <2>2 DEF Accepts, RunStage, StatusAfter
  <2>3. CASE p.status # "none"
    <3>1. p.status \in {"running", "paused"} /\ AcceptsRun(p, e)
      BY <1>0, <1>1, <2>3 DEF Accepts, RunProjection, ExecutionStatus
    <3>2. RunStage(p.status) = "open"
      BY <3>1 DEF RunStage
    <3>3. CASE e.kind \in {"run_paused", "note"}
      BY <1>0, <2>1, <3>1, <3>2, <3>3 DEF StatusAfter, RunStage
    <3>4. CASE e.kind \in {"run_cancelled", "run_failed"}
      BY <1>0, <2>1, <3>2, <3>4 DEF StatusAfter, RunStage
    <3>5. CASE e.kind = "run_completed"
      BY <1>0, <2>1, <3>1, <3>2, <3>5 DEF StatusAfter, RunStage, AcceptsRun
    <3>6. QED
      BY <1>1, <3>1, <3>3, <3>4, <3>5, EventShape DEF AcceptsRun
  <2>4. QED
    BY <2>2, <2>3
<1>2. CASE e \notin RunEvent
  <2>1. e.kind \notin {"run_accepted", "run_paused", "run_completed", "run_cancelled", "run_failed"}
    BY <1>2, EventShape
  <2>2. q.status = p.status /\ p.status \in {"running", "paused"}
    BY <1>0, <2>1 DEF StatusAfter, Accepts, RunProjection, ExecutionStatus
  <2>3. RunStage(p.status) = "open"
    BY <2>2 DEF RunStage
  <2>4. PICK c \in Calls : Touched(p, e) = {c}
    <3>1. CASE e.kind = "approval_resolved"
      <4>1. AcceptsApproval(p, e)
        BY <2>2, <3>1, EventShape DEF Accepts
      <4>2. p.pending.call \in Calls
        BY <1>0, <3>1, <4>1 DEF AcceptsApproval, RunProjection, PendingApproval
      <4>3. QED
        BY <1>2, <3>1, <4>2 DEF Touched
    <3>2. CASE e.kind # "approval_resolved"
      BY <1>2, <3>2, EventShape DEF Touched, ToolEvent, PolicyEvaluated, ApprovalRequested
    <3>3. QED
      BY <3>1, <3>2
  <2>5. q.tools[c] = ToolStatusAfter(e) /\ \A d \in Calls \ {c} : q.tools[d] = p.tools[d]
    BY <1>0, <2>4
  <2>6. \/ ToolStage(q.tools[c]) = ToolStage(p.tools[c])
        \/ <<ToolStage(p.tools[c]), ToolStage(q.tools[c])>> \in Lifecycle!Edges
    <3>1. CASE e \in ToolEvent
      <4>1. AcceptsTool(p, e) /\ c = e.call
        BY <1>2, <2>2, <2>4, <3>1, EventShape DEF Accepts, Touched
      <4>2. CASE e.kind = "tool_requested"
        BY <2>5, <4>1, <4>2, StageOf DEF AcceptsTool, ToolStatusAfter, Lifecycle!Edges
      <4>3. CASE e.kind = "tool_started"
        BY <2>5, <4>1, <4>3, StageOf DEF AcceptsTool, ToolStatusAfter, Lifecycle!Edges
      <4>4. CASE e.kind \in {"tool_completed", "tool_failed", "tool_indeterminate"}
        <5>1. p.tools[c] = "started"
          BY <4>1, <4>4 DEF AcceptsTool
        <5>2. q.tools[c] \in Outcome
          BY <2>5, <4>4 DEF ToolStatusAfter, Outcome
        <5>3. ToolStage(p.tools[c]) = "running" /\ ToolStage(q.tools[c]) = "settled"
          BY <5>1, <5>2, StageOf
        <5>4. QED
          BY <5>3 DEF Lifecycle!Edges
      <4>5. QED
        BY <3>1, <4>2, <4>3, <4>4, EventShape
    <3>2. CASE e \in PolicyEvaluated
      <4>1. p.tools[c] = "requested"
        BY <1>2, <2>2, <2>4, <3>2, EventShape DEF Accepts, Touched
      <4>2. ToolStatusAfter(e) = PolicyStatus(e.decision)
        BY <3>2, EventShape DEF ToolStatusAfter
      <4>3. PolicyStatus(e.decision) \in {"requested", "awaiting_approval", "denied"}
        BY <3>2 DEF PolicyEvaluated, PolicyStatus
      <4>4. QED
        BY <2>5, <4>1, <4>2, <4>3, StageOf DEF Lifecycle!Edges
    <3>3. CASE e \in ApprovalRequested \cup ApprovalResolved
      <4>1. p.tools[c] = "awaiting_approval"
        BY <2>2, <2>4, <3>3, EventShape DEF Accepts, AcceptsApproval, Touched, Sound
      <4>2. ToolStatusAfter(e) \in {"requested", "awaiting_approval", "denied"}
        BY <3>3, EventShape DEF ToolStatusAfter
      <4>3. QED
        BY <2>5, <4>1, <4>2, StageOf DEF Lifecycle!Edges
    <3>4. QED
      BY <1>2, <3>1, <3>2, <3>3, EventShape
  <2>7. QED
    BY <2>2, <2>3, <2>5, <2>6
<1>3. QED
  BY <1>1, <1>2

(* The committed projections of a step that appends are a lifecycle step.     *)
LEMMA CommitEdge ==
    ASSUME LedgerInv, NEW r \in Runs, NEW e \in ExecutionEvent,
           Accepts(projection[r], e),
           projection' = [projection EXCEPT ![r] = Apply(@, e)]
    PROVE  [Lifecycle!Next]_<<runBar, toolBar>>
<1> DEFINE p == projection[r]
           q == Apply(projection[r], e)
           barOf(t) == [c \in Calls |-> ToolStage(t[c])]
<1>1. /\ projection \in [Runs -> RunProjection]
      /\ Sound(p)
  BY DEF LedgerInv, TypeOK, SoundProjections
<1>2. /\ runBar' = [runBar EXCEPT ![r] = RunStage(q.status)]
      /\ toolBar' = [toolBar EXCEPT ![r] = barOf(q.tools)]
  BY <1>1 DEF runBar, toolBar
<1>3. /\ runBar[r] = RunStage(p.status)
      /\ toolBar[r] = barOf(p.tools)
      /\ \A c \in Calls : toolBar[r][c] = ToolStage(p.tools[c])
      /\ runBar = [runBar EXCEPT ![r] = runBar[r]]
      /\ toolBar = [toolBar EXCEPT ![r] = toolBar[r]]
  BY <1>1 DEF runBar, toolBar
<1>4. CASE /\ RunStage(q.status) = RunStage(p.status)
           /\ \E c \in Calls :
                 /\ \/ ToolStage(q.tools[c]) = ToolStage(p.tools[c])
                    \/ /\ <<ToolStage(p.tools[c]), ToolStage(q.tools[c])>> \in Lifecycle!Edges
                       /\ RunStage(p.status) = "open"
                 /\ \A d \in Calls \ {c} : q.tools[d] = p.tools[d]
  <2>1. runBar' = runBar
    BY <1>2, <1>3, <1>4
  <2>2. PICK c \in Calls :
                 /\ \/ ToolStage(q.tools[c]) = ToolStage(p.tools[c])
                    \/ /\ <<ToolStage(p.tools[c]), ToolStage(q.tools[c])>> \in Lifecycle!Edges
                       /\ RunStage(p.status) = "open"
                 /\ \A d \in Calls \ {c} : q.tools[d] = p.tools[d]
    BY <1>4
  <2>3. CASE ToolStage(q.tools[c]) = ToolStage(p.tools[c])
    <3>1. barOf(q.tools) = barOf(p.tools)
      BY <2>2, <2>3
    <3>2. toolBar' = toolBar
      BY <1>2, <1>3, <3>1
    <3>3. QED
      BY <2>1, <3>2
  <2>4. CASE /\ <<ToolStage(p.tools[c]), ToolStage(q.tools[c])>> \in Lifecycle!Edges
             /\ RunStage(p.status) = "open"
    <3> DEFINE s == ToolStage(q.tools[c])
    <3>1. s \in Lifecycle!ToolStage
      BY <2>4 DEF Lifecycle!Edges, Lifecycle!ToolStage
    <3>2. barOf(q.tools) = [barOf(p.tools) EXCEPT ![c] = s]
      BY <2>2
    <3>3. toolBar' = [toolBar EXCEPT ![r][c] = s]
      BY <1>2, <1>3, <3>2
    <3>4. runBar[r] = "open" /\ <<toolBar[r][c], s>> \in Lifecycle!Edges
      BY <1>3, <2>4
    <3>5. Lifecycle!Move(r, c)
      BY <2>1, <3>1, <3>3, <3>4 DEF Lifecycle!Move
    <3>6. QED
      BY <3>5 DEF Lifecycle!Next
  <2>5. QED
    BY <2>2, <2>3, <2>4
<1>5. CASE /\ q.tools = p.tools
           /\ \/ RunStage(q.status) = RunStage(p.status)
              \/ RunStage(p.status) = "none" /\ RunStage(q.status) = "open"
              \/ RunStage(p.status) = "open" /\ RunStage(q.status) = "stopped"
              \/ /\ RunStage(p.status) = "open" /\ RunStage(q.status) = "succeeded"
                 /\ EnsureNoStartedTools(p)
  <2>1. toolBar' = toolBar
    BY <1>2, <1>3, <1>5
  <2>2. CASE RunStage(q.status) = RunStage(p.status)
    BY <1>2, <1>3, <2>1, <2>2
  <2>3. CASE RunStage(p.status) = "none" /\ RunStage(q.status) = "open"
    BY <1>2, <1>3, <2>1, <2>3 DEF Lifecycle!Next, Lifecycle!Accept
  <2>4. CASE RunStage(p.status) = "open" /\ RunStage(q.status) = "stopped"
    BY <1>2, <1>3, <2>1, <2>4 DEF Lifecycle!Next, Lifecycle!Stop
  <2>5. CASE /\ RunStage(p.status) = "open" /\ RunStage(q.status) = "succeeded"
             /\ EnsureNoStartedTools(p)
    <3>1. \A c \in Calls : toolBar[r][c] # "running"
      <4> SUFFICES ASSUME NEW c \in Calls, ToolStage(p.tools[c]) = "running" PROVE FALSE
        BY <1>3
      <4>1. p.tools[c] \in ToolExecutionStatus \cup {"absent"} /\ p.tools[c] # "started"
        BY <1>1, <2>5 DEF RunProjection, EnsureNoStartedTools
      <4>2. QED
        BY <4>1, StageOf DEF ToolExecutionStatus
    <3>2. Lifecycle!Succeed(r)
      BY <1>2, <1>3, <2>1, <2>5, <3>1 DEF Lifecycle!Succeed
    <3>3. QED
      BY <3>2 DEF Lifecycle!Next
  <2>6. QED
    BY <1>5, <2>2, <2>3, <2>4, <2>5
<1>6. QED
  BY <1>1, <1>4, <1>5, ApplyEdge

\* The detailed ledger implements the lifecycle it promises.
THEOREM LedgerImplementsLifecycle == Spec => ImplementsLifecycle
<1>1. Init => Lifecycle!Init
  <2> SUFFICES ASSUME Init PROVE Lifecycle!Init
    OBVIOUS
  <2>1. \A r \in Runs : projection[r] = NoProjection
    BY DEF Init
  <2>2. RunStage("none") = "none"
    BY DEF RunStage
  <2>3. QED
    BY <2>1, <2>2, StageOf DEF Lifecycle!Init, runBar, toolBar, NoProjection
<1>2. LedgerInv /\ [Next]_vars => [Lifecycle!Next]_<<runBar, toolBar>>
  <2> SUFFICES ASSUME LedgerInv, [Next]_vars
               PROVE  [Lifecycle!Next]_<<runBar, toolBar>>
    OBVIOUS
  <2>1. CASE UNCHANGED projection
    BY <2>1 DEF runBar, toolBar
  <2>2. CASE ~ UNCHANGED projection
    <3>1. /\ txn \in Transaction
          /\ Accepts(projection[txn.run], txn.event)
          /\ projection' = [projection EXCEPT ![txn.run] = Apply(@, txn.event)]
      BY <2>2, OnlyCommitWrites
    <3>2. txn.run \in Runs /\ txn.event \in ExecutionEvent
      BY <3>1 DEF Transaction
    <3>3. QED
      BY <3>1, <3>2, CommitEdge
  <2>3. QED
    BY <2>1, <2>2
<1>3. QED
  BY <1>1, <1>2, LedgerInvariant, PTL DEF Spec, ImplementsLifecycle, Lifecycle!Spec

-----------------------------------------------------------------------------
(* The snapshots, and the type of the state. *)
Lines == [path : Paths, content : Contents]
Manager == [on : BOOLEAN, stack : Seq(Lines), persisted : Nat, failed : Seq(Lines)]
Undoing == [at : {"restore", "persist"}, stack : Seq(Lines), read : Seq(Lines), all : BOOLEAN]

CheckpointTyped ==
  /\ disk \in [Paths -> Contents]
  /\ lines \in Seq(Lines) /\ ragged \in {"no", "open", "broken"}
  /\ manager \in [Agents -> Manager]
  /\ call \in [Agents -> {NoCall} \cup [what : ToolCalls, content : Contents]]
  /\ undo \in {NoUndo} \cup Undoing /\ (undo.at = "restore" => undo.stack # <<>>)
  /\ trail \in [Paths -> Seq(Contents)]
  /\ raced \subseteq Paths /\ marks \subseteq {"company", "forked", "cut", "torn", "shed"}
  /\ calls \in 0..MaxCalls

(* A stack over the limit was loaded and nothing of it saved yet. *)
StacksFit ==
  \A a \in Agents :
    /\ manager[a].persisted <= Len(manager[a].stack)
    /\ Len(manager[a].stack) <= MaxSnapshots \/ manager[a].persisted = 0

(* What a new agent would load. *)
Loaded == IF ragged = "broken" THEN <<>> ELSE lines

(* Without company or a torn save the stack of an agent is what the file    *)
(* holds and what its failed saves could not write, an undo has read the file as it is, and *)
(* nothing was written from an old copy.                                   *)
InTheFile(a) ==
  /\ manager[a].stack \in {Loaded \o manager[a].failed, Newest(Loaded \o manager[a].failed, MaxSnapshots)}
  /\ manager[a].persisted > 0 => ragged = "no" /\ manager[a].persisted = Len(lines)

InStep ==
  marks \cap {"company", "torn"} = {} =>
    /\ \A a \in Agents : manager[a].on => InTheFile(a)
    /\ undo # NoUndo => undo.read = lines
    /\ "forked" \notin marks

CheckpointInvariant == CheckpointTyped /\ StacksFit /\ InStep

-----------------------------------------------------------------------------
(* The newest of a sequence. *)

LEMMA NewestIs ==
    ASSUME NEW S, NEW s \in Seq(S), NEW n \in Nat
    PROVE  /\ Newest(s, n) \in Seq(S)
           /\ Len(Newest(s, n)) = IF Len(s) <= n THEN Len(s) ELSE n
           /\ Len(s) <= n => Newest(s, n) = s
           /\ \A i \in 1..Len(Newest(s, n)) : Newest(s, n)[i] = s[Len(s) - Len(Newest(s, n)) + i]
<1>1. Len(s) \in Nat /\ \A i \in 1..Len(s) : s[i] \in S
  BY LenProperties, ElementOfSeq
<1>2. CASE Len(s) <= n
  BY <1>1, <1>2 DEF Newest
<1>3. CASE ~(Len(s) <= n)
  <2>1. /\ Newest(s, n) = SubSeq(s, Len(s) - n + 1, Len(s)) /\ Len(s) - n + 1 \in Int /\ Len(s) \in Int
        /\ Len(s) - n + 1 >= 1
    BY <1>1, <1>3 DEF Newest
  <2>2. \A i \in Len(s) - n + 1 .. Len(s) : s[i] \in S
    BY <1>1, <2>1
  <2>3. /\ Newest(s, n) \in Seq(S)
        /\ Len(Newest(s, n)) = IF Len(s) - n + 1 <= Len(s) THEN Len(s) - (Len(s) - n + 1) + 1 ELSE 0
        /\ \A i \in 1..Len(s) - (Len(s) - n + 1) + 1 : Newest(s, n)[i] = s[Len(s) - n + 1 + i - 1]
    BY <2>1, <2>2, SubSeqProperties
  <2>4. Len(Newest(s, n)) = n
    BY <1>1, <2>3
  <2>5. ASSUME NEW i \in 1..n
        PROVE  Newest(s, n)[i] = s[Len(s) - n + i]
    <3>1. Len(s) - n + 1 + i - 1 = Len(s) - n + i /\ i \in 1..Len(s) - (Len(s) - n + 1) + 1
      BY <1>1
    <3>2. QED
      BY <2>3, <3>1
  <2>6. QED
    BY <1>3, <2>3, <2>4, <2>5
<1>4. QED
  BY <1>2, <1>3

(* To forget before and after is to forget after. *)
LEMMA NewestAgain ==
    ASSUME NEW S, NEW s \in Seq(S), NEW t \in Seq(S), NEW n \in Nat
    PROVE  Newest(Newest(s, n) \o t, n) = Newest(s \o t, n)
<1>1. CASE Len(s) <= n
  BY <1>1, NewestIs
<1>2. CASE ~(Len(s) <= n)
  <2>1. PICK r : r = Newest(s, n)
    OBVIOUS
  <2>2. PICK u : u = r \o t
    OBVIOUS
  <2>3. PICK v : v = s \o t
    OBVIOUS
  <2>4. PICK k \in Nat, m \in Nat : k = Len(s) /\ m = Len(t)
    BY LenProperties
  <2>5. r \in Seq(S) /\ Len(r) = n /\ \A i \in 1..n : r[i] = s[k - n + i]
    <3>1. /\ r \in Seq(S) /\ Len(r) = IF Len(s) <= n THEN Len(s) ELSE n
          /\ \A i \in 1..Len(r) : r[i] = s[Len(s) - Len(r) + i]
      BY <2>1, NewestIs
    <3>2. QED
      BY <1>2, <2>4, <3>1
  <2>6. /\ u \in Seq(S) /\ Len(u) = n + m
        /\ \A i \in 1..n + m : u[i] = IF i <= n THEN r[i] ELSE t[i - n]
    <3>1. /\ u \in Seq(S) /\ Len(u) = Len(r) + Len(t)
          /\ \A i \in 1..Len(r) + Len(t) : u[i] = IF i <= Len(r) THEN r[i] ELSE t[i - Len(r)]
      BY <2>2, <2>5, ConcatProperties
    <3>2. QED
      BY <2>4, <2>5, <3>1
  <2>7. /\ v \in Seq(S) /\ Len(v) = k + m
        /\ \A i \in 1..k + m : v[i] = IF i <= k THEN s[i] ELSE t[i - k]
    <3>1. /\ v \in Seq(S) /\ Len(v) = Len(s) + Len(t)
          /\ \A i \in 1..Len(s) + Len(t) : v[i] = IF i <= Len(s) THEN s[i] ELSE t[i - Len(s)]
      BY <2>3, ConcatProperties
    <3>2. QED
      BY <2>4, <3>1
  <2>8. ASSUME NEW w \in Seq(S), NEW l \in Nat, Len(w) = l, n <= l
        PROVE  Newest(w, n) \in Seq(S) /\ Len(Newest(w, n)) = n /\ \A i \in 1..n : Newest(w, n)[i] = w[l - n + i]
    <3>1. /\ Newest(w, n) \in Seq(S) /\ Len(Newest(w, n)) = IF Len(w) <= n THEN Len(w) ELSE n
          /\ \A i \in 1..Len(Newest(w, n)) : Newest(w, n)[i] = w[Len(w) - Len(Newest(w, n)) + i]
      BY NewestIs
    <3>2. Len(Newest(w, n)) = n
      BY <2>8, <3>1
    <3>3. QED
      BY <2>8, <3>1, <3>2
  <2>9. n + m \in Nat /\ k + m \in Nat /\ n <= n + m /\ n <= k + m
    BY <1>2, <2>4
  <2>10. Newest(u, n) \in Seq(S) /\ Len(Newest(u, n)) = n /\ \A i \in 1..n : Newest(u, n)[i] = u[n + m - n + i]
    BY <2>6, <2>8, <2>9
  <2>11. Newest(v, n) \in Seq(S) /\ Len(Newest(v, n)) = n /\ \A i \in 1..n : Newest(v, n)[i] = v[k + m - n + i]
    BY <2>7, <2>8, <2>9
  <2>12. ASSUME NEW i \in 1..n
         PROVE  u[n + m - n + i] = v[k + m - n + i]
    <3>1. CASE m + i <= n
      <4>1. /\ m + i \in 1..n /\ m + i \in 1..n + m /\ n + m - n + i = m + i /\ k - n + (m + i) = k + m - n + i
            /\ k + m - n + i \in 1..k + m /\ k + m - n + i <= k
        BY <1>2, <2>4, <3>1
      <4>2. u[m + i] = r[m + i] /\ r[m + i] = s[k - n + (m + i)]
        BY <2>5, <2>6, <3>1, <4>1
      <4>3. v[k + m - n + i] = s[k + m - n + i]
        BY <2>7, <4>1
      <4>4. QED
        BY <4>1, <4>2, <4>3
    <3>2. CASE ~(m + i <= n)
      <4>1. /\ m + i \in 1..n + m /\ n + m - n + i = m + i /\ m + i - n = k + m - n + i - k
            /\ k + m - n + i \in 1..k + m /\ ~(k + m - n + i <= k)
        BY <1>2, <2>4, <3>2
      <4>2. u[m + i] = t[m + i - n]
        <5>1. \E j \in 1..n + m : j = m + i /\ ~(j <= n)
          BY <3>2, <4>1
        <5>2. QED
          BY <2>6, <5>1
      <4>3. v[k + m - n + i] = t[k + m - n + i - k]
        BY <2>7, <4>1
      <4>4. QED
        BY <4>1, <4>2, <4>3
    <3>3. QED
      BY <3>1, <3>2
  <2>13. \A i \in 1..n : Newest(u, n)[i] = Newest(v, n)[i]
    BY <2>10, <2>11, <2>12
  <2>14. Newest(u, n) = Newest(v, n)
    BY <2>10, <2>11, <2>13, SeqEqual
  <2>15. QED
    BY <2>1, <2>2, <2>3, <2>14
<1>3. QED
  BY <1>1, <1>2

LEMMA RestOf ==
    ASSUME NEW S, NEW s \in Seq(S), NEW t \in Seq(S)
    PROVE  SubSeq(s \o t, Len(s) + 1, Len(s \o t)) = t
<1>1. Len(s) \in Nat /\ Len(t) \in Nat /\ Len(s \o t) = Len(s) + Len(t)
  BY ConcatProperties, LenProperties
<1>2. CASE Len(t) = 0
  <2>1. SubSeq(s \o t, Len(s) + 1, Len(s \o t)) = <<>>
    BY <1>1, <1>2, SubSeqEmpty
  <2>2. QED
    BY <1>2, <2>1, EmptySeq
<1>3. CASE Len(t) # 0
  <2>1. Len(s) + 1 \in Len(s) + 1..Len(s) + Len(t) /\ Len(s) + Len(t) \in Len(s) + 1..Len(s) + Len(t)
    BY <1>1, <1>3
  <2>2. SubSeq(s \o t, Len(s) + 1, Len(s) + Len(t)) = SubSeq(t, Len(s) + 1 - Len(s), Len(s) + Len(t) - Len(s))
    BY <2>1, SubSeqOfConcat2
  <2>3. Len(s) + 1 - Len(s) = 1 /\ Len(s) + Len(t) - Len(s) = Len(t)
    BY <1>1
  <2>4. SubSeq(t, 1, Len(t)) = t
    BY SubSeqFull
  <2>5. QED
    BY <1>1, <2>2, <2>3, <2>4
<1>4. QED
  BY <1>2, <1>3

LEMMA PartOf ==
    ASSUME NEW S, NEW s \in Seq(S), NEW m \in Nat, NEW n \in Nat, m >= 1, n <= Len(s)
    PROVE  SubSeq(s, m, n) \in Seq(S)
<1>1. \A i \in m..n : s[i] \in S
  BY LenProperties, ElementOfSeq
<1>2. m \in Int /\ n \in Int
  OBVIOUS
<1>3. QED
  BY <1>1, <1>2, SubSeqProperties

-----------------------------------------------------------------------------
(* What a call puts on the stack. *)

LEMMA LimitsAreNumbers ==
    /\ MaxSnapshots \in Nat /\ MaxCalls \in Nat /\ MaxSnapshots >= 1
    /\ Absent \in Contents /\ "undo" \notin Agents /\ "clear" \notin Agents
BY CheckpointAssumption, AgentsAssumption DEF Contents, Absent

LEMMA CallSnapshots ==
    ASSUME CheckpointTyped, NEW c \in ToolCalls
    PROVE  /\ Snapshots(c) \in Seq(Lines) /\ Len(Snapshots(c)) \in {1, 2}
           /\ <<Head(Snapshots(c))>> \in Seq(Lines) /\ Len(<<Head(Snapshots(c))>>) = 1
           /\ Len(Snapshots(c)) = 2 =>
                \E l \in Lines : Tail(Snapshots(c)) = <<l>>
           /\ About(c) \subseteq Paths /\ c.src \in Paths /\ c.dst \in Paths
<1>1. c.src \in Paths /\ c.dst \in Paths
  BY DEF ToolCalls
<1>2. Line(c.src, disk[c.src]) \in Lines /\ Line(c.dst, disk[c.dst]) \in Lines
  BY <1>1 DEF Line, Lines, CheckpointTyped
<1>3. CASE c.tool = "move"
  <2>1. Snapshots(c) = <<Line(c.src, disk[c.src]), Line(c.dst, disk[c.dst])>>
    BY <1>3 DEF Snapshots
  <2>2. QED
    BY <1>1, <1>2, <2>1 DEF About
<1>4. CASE c.tool # "move"
  <2>1. Snapshots(c) = <<Line(c.src, disk[c.src])>>
    BY <1>4 DEF Snapshots
  <2>2. QED
    BY <1>1, <1>2, <2>1 DEF About
<1>5. QED
  BY <1>3, <1>4

(* The stack after a call, and what of it the file gets. *)
LEMMA KeptIs ==
    ASSUME CheckpointTyped, StacksFit, NEW a \in Agents, NEW new \in Seq(Lines), Len(new) >= 1
    PROVE  /\ Stacked(a, new) \in Seq(Lines) /\ Len(Stacked(a, new)) = Len(manager[a].stack) + Len(new)
           /\ Len(manager[a].stack) \in Nat /\ Len(new) \in Nat
           /\ Kept(a, new) \in Seq(Lines) /\ Len(Kept(a, new)) \in Nat
           /\ Len(Kept(a, new)) <= MaxSnapshots
           /\ Len(Kept(a, new)) <= Len(Stacked(a, new))
           /\ Len(Stacked(a, new)) <= MaxSnapshots => Kept(a, new) = Stacked(a, new)
           /\ Len(Stacked(a, new)) > MaxSnapshots => Len(Kept(a, new)) = MaxSnapshots
           /\ Unsaved(a, new) \in Seq(Lines)
<1>1. /\ manager[a].stack \in Seq(Lines) /\ manager[a].persisted \in Nat
      /\ manager[a].persisted <= Len(manager[a].stack)
  BY DEF CheckpointTyped, Manager, StacksFit
<1>2. PICK s \in Seq(Lines) : s = Stacked(a, new) /\ Len(s) = Len(manager[a].stack) + Len(new)
  BY <1>1, ConcatProperties DEF Stacked
<1>3. Len(s) \in Nat /\ Len(manager[a].stack) \in Nat /\ Len(new) \in Nat
  BY <1>1, LenProperties
<1>4. PICK k : k = Newest(s, MaxSnapshots)
  OBVIOUS
<1>5. /\ k \in Seq(Lines) /\ Len(k) = (IF Len(s) <= MaxSnapshots THEN Len(s) ELSE MaxSnapshots)
      /\ Len(s) <= MaxSnapshots => k = s
  BY <1>4, LimitsAreNumbers, NewestIs
<1>6. /\ Len(k) \in Nat /\ Len(k) <= MaxSnapshots /\ Len(k) <= Len(s)
      /\ Len(s) > MaxSnapshots => Len(k) = MaxSnapshots
  BY <1>3, <1>5, LimitsAreNumbers
<1>7. k = Kept(a, new)
  BY <1>2, <1>4 DEF Kept
<1>8. SubSeq(s, manager[a].persisted + 1, Len(s)) \in Seq(Lines)
  <2>1. manager[a].persisted + 1 \in Nat /\ manager[a].persisted + 1 >= 1 /\ Len(s) <= Len(s)
    BY <1>1, <1>3
  <2>2. QED
    BY <1>3, <2>1, PartOf
<1>9. Unsaved(a, new) \in Seq(Lines)
  BY <1>2, <1>8 DEF Unsaved
<1>10. QED
  BY <1>2, <1>3, <1>5, <1>6, <1>7, <1>9

(* The stack of a move of which only the first snapshot was saved. *)
FirstOf(c) == <<Head(Snapshots(c))>>
SavedStack(a, c) == Kept(a, FirstOf(c))
WholeStack(a, c) == Newest(SavedStack(a, c) \o Tail(Snapshots(c)), MaxSnapshots)

LEMMA SecondStack ==
    ASSUME CheckpointTyped, StacksFit, NEW a \in Agents, NEW c \in ToolCalls, SecondFails(a, c)
    PROVE  /\ FirstOf(c) \in Seq(Lines) /\ Len(FirstOf(c)) >= 1 /\ Persist(a, FirstOf(c))
           /\ SavedStack(a, c) \in Seq(Lines) /\ Len(SavedStack(a, c)) \in Nat
           /\ Len(SavedStack(a, c)) <= MaxSnapshots
           /\ Tail(Snapshots(c)) \in Seq(Lines) /\ WholeStack(a, c) \in Seq(Lines)
           /\ Len(WholeStack(a, c)) \in Nat /\ Len(WholeStack(a, c)) <= MaxSnapshots
           /\ Len(SavedStack(a, c)) <= Len(WholeStack(a, c))
           /\ manager' = [manager EXCEPT ![a].stack = WholeStack(a, c),
                                         ![a].persisted = Len(SavedStack(a, c)),
                                         ![a].failed = Tail(Snapshots(c))]
<1>1. FirstOf(c) \in Seq(Lines) /\ Len(FirstOf(c)) = 1 /\ Len(FirstOf(c)) >= 1
  BY CallSnapshots DEF FirstOf
<1>2. /\ Kept(a, FirstOf(c)) \in Seq(Lines) /\ Len(Kept(a, FirstOf(c))) \in Nat
      /\ Len(Kept(a, FirstOf(c))) <= MaxSnapshots
  BY <1>1, KeptIs
<1>3. PICK k \in Seq(Lines) : k = SavedStack(a, c) /\ Len(k) \in Nat /\ Len(k) <= MaxSnapshots
  BY <1>2 DEF SavedStack
<1>4. PICK l \in Lines : Tail(Snapshots(c)) = <<l>>
  BY CallSnapshots DEF SecondFails
<1>5. <<l>> \in Seq(Lines) /\ Len(<<l>>) = 1
  OBVIOUS
<1>6. PICK t \in Seq(Lines) : t = Tail(Snapshots(c)) /\ Len(t) = 1
  BY <1>4, <1>5
<1>7. k \o t \in Seq(Lines) /\ Len(k \o t) = Len(k) + 1
  BY <1>3, <1>6, ConcatProperties
<1>8. PICK s \in Seq(Lines) : s = k \o t /\ Len(s) = Len(k) + 1
  BY <1>7
<1>9. PICK u : u = Newest(s, MaxSnapshots)
  OBVIOUS
<1>10. u \in Seq(Lines) /\ Len(u) = IF Len(s) <= MaxSnapshots THEN Len(s) ELSE MaxSnapshots
  BY <1>9, LimitsAreNumbers, NewestIs
<1>11. Len(u) \in Nat /\ Len(u) <= MaxSnapshots /\ Len(k) <= Len(u)
  BY <1>3, <1>8, <1>10, LimitsAreNumbers
<1>12. u = WholeStack(a, c)
  BY <1>3, <1>6, <1>8, <1>9 DEF WholeStack
<1>13. /\ Persist(a, FirstOf(c))
       /\ manager' = [manager EXCEPT ![a].stack = WholeStack(a, c),
                                     ![a].persisted = Len(SavedStack(a, c)),
                                     ![a].failed = Tail(Snapshots(c))]
  BY DEF SecondFails, FirstOf, SavedStack, WholeStack
<1>14. QED
  BY <1>1, <1>3, <1>6, <1>10, <1>11, <1>12, <1>13

LEMMA StacksFitStep ==
    ASSUME CheckpointTyped, StacksFit, CheckpointNext
    PROVE  StacksFit'
<1>1. ASSUME NEW a \in Agents, Start(a) \/ Stop(a) \/ \E c \in ToolCalls : CrashInSnapshot(a, c)
      PROVE  StacksFit'
  <2>1. \A b \in Agents : b # a => manager'[b] = manager[b]
    BY <1>1 DEF Start, Stop, CrashInSnapshot, CheckpointTyped
  <2>2. manager'[a].persisted = 0 /\ manager'[a].stack \in {<<>>, lines}
    <3>1. CASE Start(a)
      BY <3>1 DEF Start, Off, CheckpointTyped
    <3>2. CASE Stop(a) \/ \E c \in ToolCalls : CrashInSnapshot(a, c)
      BY <3>2 DEF Stop, CrashInSnapshot, Off, CheckpointTyped
    <3>3. QED
      BY <1>1, <3>1, <3>2
  <2>3. lines \in Seq(Lines) /\ <<>> \in Seq(Lines)
    BY EmptySeq DEF CheckpointTyped
  <2>4. Len(manager'[a].stack) \in Nat
    BY <2>2, <2>3, LenProperties
  <2>5. QED
    BY <2>1, <2>2, <2>4 DEF StacksFit
<1>2. ASSUME NEW a \in Agents, NEW c \in ToolCalls, Snapshot(a, c)
      PROVE  StacksFit'
  <2>1. PICK new \in Seq(Lines), k \in Seq(Lines) :
           new = Snapshots(c) /\ k = Kept(a, new) /\ Len(k) \in Nat /\ Len(k) <= MaxSnapshots
    BY CallSnapshots, KeptIs
  <2>2. manager' = [manager EXCEPT ![a].stack = k, ![a].persisted = Len(k), ![a].failed = <<>>]
    BY <1>2, <2>1 DEF Snapshot
  <2>3. \A b \in Agents : b # a => manager'[b] = manager[b]
    BY <2>2 DEF CheckpointTyped
  <2>4. manager'[a].stack = k /\ manager'[a].persisted = Len(k)
    BY <2>2 DEF CheckpointTyped, Manager
  <2>5. QED
    BY <2>1, <2>3, <2>4 DEF StacksFit
<1>3. ASSUME NEW a \in Agents, NEW c \in ToolCalls, SnapshotFails(a, c) \/ SnapshotTorn(a, c)
      PROVE  StacksFit'
  <2>1. PICK new \in Seq(Lines) : new = <<Head(Snapshots(c))>> /\ Len(new) = 1
    BY CallSnapshots
  <2>2. PICK k \in Seq(Lines) :
           /\ k = Kept(a, new) /\ Len(k) \in Nat /\ Len(k) <= MaxSnapshots
           /\ Len(manager[a].stack) \in Nat
           /\ Len(k) = Len(manager[a].stack) + 1 \/ Len(k) = MaxSnapshots
    <3>1. /\ Kept(a, new) \in Seq(Lines) /\ Len(Kept(a, new)) \in Nat /\ Len(Kept(a, new)) <= MaxSnapshots
          /\ Len(Stacked(a, new)) = Len(manager[a].stack) + 1 /\ Len(manager[a].stack) \in Nat
          /\ Len(Stacked(a, new)) <= MaxSnapshots => Kept(a, new) = Stacked(a, new)
          /\ Len(Stacked(a, new)) > MaxSnapshots => Len(Kept(a, new)) = MaxSnapshots
      <4>1. Len(new) >= 1
        BY <2>1
      <4>2. /\ Kept(a, new) \in Seq(Lines) /\ Len(Kept(a, new)) \in Nat /\ Len(Kept(a, new)) <= MaxSnapshots
            /\ Len(Stacked(a, new)) = Len(manager[a].stack) + Len(new) /\ Len(manager[a].stack) \in Nat
            /\ Len(Stacked(a, new)) <= MaxSnapshots => Kept(a, new) = Stacked(a, new)
            /\ Len(Stacked(a, new)) > MaxSnapshots => Len(Kept(a, new)) = MaxSnapshots
        BY <4>1, KeptIs
      <4>3. QED
        BY <2>1, <4>2
    <3>2. Len(Kept(a, new)) = Len(manager[a].stack) + 1 \/ Len(Kept(a, new)) = MaxSnapshots
      BY <3>1, LimitsAreNumbers
    <3>3. QED
      BY <3>1, <3>2
  <2>3. manager' = [manager EXCEPT ![a].stack = k, ![a].failed = @ \o new]
    BY <1>3, <2>1, <2>2 DEF SnapshotFails, SnapshotTorn
  <2>4. \A b \in Agents : b # a => manager'[b] = manager[b]
    BY <2>3 DEF CheckpointTyped
  <2>5. manager'[a].stack = k /\ manager'[a].persisted = manager[a].persisted
    BY <2>3 DEF CheckpointTyped, Manager
  <2>6. manager[a].persisted \in Nat
    BY DEF CheckpointTyped, Manager
  <2>7. manager[a].persisted <= Len(k)
    BY <2>2, <2>6, LimitsAreNumbers DEF StacksFit
  <2>8. QED
    BY <2>2, <2>4, <2>5, <2>7 DEF StacksFit
<1>4. ASSUME NEW a \in Agents, NEW c \in ToolCalls, SecondFails(a, c)
      PROVE  StacksFit'
  <2>0. /\ Len(SavedStack(a, c)) \in Nat /\ Len(SavedStack(a, c)) <= MaxSnapshots
        /\ Len(WholeStack(a, c)) \in Nat /\ Len(WholeStack(a, c)) <= MaxSnapshots
        /\ Len(SavedStack(a, c)) <= Len(WholeStack(a, c))
        /\ manager' = [manager EXCEPT ![a].stack = WholeStack(a, c),
                                      ![a].persisted = Len(SavedStack(a, c)),
                                      ![a].failed = Tail(Snapshots(c))]
    BY <1>4, SecondStack
  <2>1. PICK k, u, t :
           /\ Len(k) \in Nat /\ Len(k) <= MaxSnapshots
           /\ Len(u) \in Nat /\ Len(u) <= MaxSnapshots /\ Len(k) <= Len(u)
           /\ manager' = [manager EXCEPT ![a].stack = u, ![a].persisted = Len(k), ![a].failed = t]
    BY <2>0
  <2>2. \A b \in Agents : b # a => manager'[b] = manager[b]
    BY <2>1 DEF CheckpointTyped
  <2>3. manager'[a].stack = u /\ manager'[a].persisted = Len(k)
    BY <2>1 DEF CheckpointTyped, Manager
  <2>4. QED
    BY <2>1, <2>2, <2>3 DEF StacksFit
<1>5. CASE UNCHANGED manager
  BY <1>5 DEF StacksFit
<1>6. QED
  BY <1>1, <1>2, <1>3, <1>4, <1>5
     DEF CheckpointNext, Effect, NoEffect, UndoBegin, Restore, RestoreFails, UndoPersist, CrashInPersist, Clear

-----------------------------------------------------------------------------
LEMMA CheckpointTypedInit == CheckpointInit => CheckpointTyped
<1> SUFFICES ASSUME CheckpointInit PROVE CheckpointTyped
  OBVIOUS
<1>1. \A S : <<>> \in Seq(S)
  BY EmptySeq
<1>2. Off \in Manager
  BY <1>1 DEF Off, Manager
<1>3. manager \in [Agents -> Manager]
  BY <1>2 DEF CheckpointInit
<1>4. trail \in [Paths -> Seq(Contents)] /\ lines \in Seq(Lines)
  BY <1>1 DEF CheckpointInit
<1>5. disk \in [Paths -> Contents] /\ calls \in 0..MaxCalls
  BY LimitsAreNumbers DEF CheckpointInit
<1>6. undo = NoUndo /\ undo.at # "restore"
  BY DEF CheckpointInit, NoUndo
<1>7. QED
  BY <1>3, <1>4, <1>5, <1>6 DEF CheckpointInit, CheckpointTyped

(* What the actions say of the lines and of the marks. *)
LEMMA Telling ==
    ASSUME CheckpointTyped, NEW me, NEW how \in SUBSET {"company", "forked", "cut", "torn", "shed"}, Told(me, how)
    PROVE  marks' \subseteq {"company", "forked", "cut", "torn", "shed"}
BY DEF Told, CheckpointTyped

LEMMA CheckpointTypedStep ==
    ASSUME CheckpointTyped, StacksFit, CheckpointNext
    PROVE  CheckpointTyped'
<1> USE DEF counters
<1>1. \A S : <<>> \in Seq(S)
  BY EmptySeq
<1>2. lines \in Seq(Lines)
  BY DEF CheckpointTyped
<1>3. ASSUME NEW a \in Agents, Start(a)
      PROVE  CheckpointTyped'
  <2>1. PICK s \in Seq(Lines) : s = IF ragged = "broken" THEN <<>> ELSE lines
    BY <1>1, <1>2
  <2>2. [Off EXCEPT !.on = TRUE, !.stack = s] \in Manager
    BY <1>1, <2>1 DEF Off, Manager
  <2>3. manager' \in [Agents -> Manager]
    BY <1>3, <2>1, <2>2 DEF Start, CheckpointTyped
  <2>4. QED
    BY <1>3, <2>3 DEF Start, CheckpointTyped
<1>4. Off \in Manager
  BY <1>1 DEF Off, Manager
<1>5. ASSUME NEW a \in Agents, Stop(a)
      PROVE  CheckpointTyped'
  BY <1>4, <1>5 DEF Stop, CheckpointTyped
<1>6. ASSUME NEW a \in Agents, NEW c \in ToolCalls, Snapshot(a, c)
      PROVE  CheckpointTyped'
  <2>1. PICK new \in Seq(Lines), k \in Seq(Lines) :
           new = Snapshots(c) /\ k = Kept(a, new) /\ Len(k) \in Nat /\ Unsaved(a, new) \in Seq(Lines)
    BY CallSnapshots, KeptIs
  <2>2. manager' = [manager EXCEPT ![a].stack = k, ![a].persisted = Len(k), ![a].failed = <<>>] /\ Persist(a, new)
    BY <1>6, <2>1 DEF Snapshot
  <2>3. manager' \in [Agents -> Manager]
    <3>1. manager[a] \in Manager
      BY DEF CheckpointTyped
    <3>2. [[[manager[a] EXCEPT !.stack = k] EXCEPT !.persisted = Len(k)] EXCEPT !.failed = <<>>] \in Manager
      BY <1>1, <2>1, <3>1 DEF Manager
    <3>3. manager'[a] \in Manager
      BY <2>2, <3>1, <3>2 DEF CheckpointTyped, Manager
    <3>4. QED
      BY <2>2, <3>3 DEF CheckpointTyped
  <2>4. lines' \in Seq(Lines) /\ ragged' \in {"no", "open", "broken"}
    <3>1. lines \o Unsaved(a, new) \in Seq(Lines)
      BY <1>2, <2>1, ConcatProperties
    <3>2. QED
      BY <2>1, <2>2, <3>1 DEF Persist, CheckpointTyped
  <2>5. marks' \subseteq {"company", "forked", "cut", "torn", "shed"}
    BY <2>2, Telling DEF Persist, Late, Rewritten
  <2>6. calls + 1 \in Contents /\ calls + 1 \in 0..MaxCalls
    BY <1>6, LimitsAreNumbers DEF Snapshot, Contents, CheckpointTyped
  <2>7. call' \in [Agents -> {NoCall} \cup [what : ToolCalls, content : Contents]]
    BY <1>6, <2>6 DEF Snapshot, CheckpointTyped
  <2>8. raced' \subseteq Paths
    BY <1>6, CallSnapshots DEF Snapshot, CheckpointTyped
  <2>9. UNCHANGED <<disk, undo, trail>> /\ calls' = calls + 1
    BY <1>6 DEF Snapshot
  <2>10. QED
    BY <2>3, <2>4, <2>5, <2>6, <2>7, <2>8, <2>9 DEF CheckpointTyped
<1>7. ASSUME NEW a \in Agents, NEW c \in ToolCalls, SnapshotFails(a, c)
      PROVE  CheckpointTyped'
  <2>1. PICK new \in Seq(Lines) : new = <<Head(Snapshots(c))>> /\ Len(new) = 1
    BY CallSnapshots
  <2>2. PICK k \in Seq(Lines) : k = Kept(a, new)
    <3>1. Len(new) >= 1
      BY <2>1
    <3>2. Kept(a, new) \in Seq(Lines)
      BY <3>1, KeptIs
    <3>3. QED
      BY <3>2
  <2>3. manager' = [manager EXCEPT ![a].stack = k, ![a].failed = @ \o new]
    BY <1>7, <2>1, <2>2 DEF SnapshotFails
  <2>4. manager[a].failed \o new \in Seq(Lines)
    BY <2>1, ConcatProperties DEF CheckpointTyped, Manager
  <2>5. manager' \in [Agents -> Manager]
    <3>1. manager[a] \in Manager
      BY DEF CheckpointTyped
    <3>2. [[manager[a] EXCEPT !.stack = k] EXCEPT !.failed = manager[a].failed \o new] \in Manager
      BY <2>2, <2>4, <3>1 DEF Manager
    <3>3. manager'[a] \in Manager
      BY <2>3, <3>1, <3>2 DEF CheckpointTyped, Manager
    <3>4. QED
      BY <2>3, <3>3 DEF CheckpointTyped
  <2>6. calls + 1 \in 0..MaxCalls
    BY <1>7, LimitsAreNumbers DEF SnapshotFails, CheckpointTyped
  <2>7. UNCHANGED <<disk, lines, ragged, call, undo, trail, raced, marks>> /\ calls' = calls + 1
    BY <1>7 DEF SnapshotFails
  <2>8. QED
    BY <2>5, <2>6, <2>7 DEF CheckpointTyped
<1>8. ASSUME NEW a \in Agents, NEW c \in ToolCalls, CrashInSnapshot(a, c)
      PROVE  CheckpointTyped'
  <2>1. PICK new \in Seq(Lines) :
           /\ new = Snapshots(c) /\ Kept(a, new) \in Seq(Lines) /\ Unsaved(a, new) \in Seq(Lines)
    BY CallSnapshots, KeptIs
  <2>2. PICK all \in Seq(Lines) : all = IF Rewrites(a, new) THEN Kept(a, new) ELSE lines \o Unsaved(a, new)
    BY <1>2, <2>1, ConcatProperties
  <2>3. PICK n \in (IF Rewrites(a, new) THEN 0 ELSE Len(lines) + 1)..Len(all) :
          /\ lines' = SubSeq(all, 1, n)
          /\ ragged' \in IF ~Rewrites(a, new) /\ ragged # "no" THEN {"broken"}
                         ELSE IF n = 0 THEN {"no"} ELSE {"no", "open"}
    BY <1>8, <2>1, <2>2 DEF CrashInSnapshot
  <2>4. n \in Nat /\ n <= Len(all)
    BY <1>2, <2>2, <2>3, LenProperties
  <2>5. lines' \in Seq(Lines) /\ ragged' \in {"no", "open", "broken"}
    BY <2>3, <2>4, PartOf
  <2>6. marks' \subseteq {"company", "forked", "cut", "torn", "shed"}
    BY <1>8, Telling DEF CrashInSnapshot
  <2>7. manager' \in [Agents -> Manager]
    BY <1>4, <1>8 DEF CrashInSnapshot, CheckpointTyped
  <2>8. calls + 1 \in 0..MaxCalls
    BY <1>8, LimitsAreNumbers DEF CrashInSnapshot, CheckpointTyped
  <2>9. raced' \subseteq Paths
    BY <1>8, CallSnapshots DEF CrashInSnapshot, CheckpointTyped
  <2>10. UNCHANGED <<disk, call, undo, trail>> /\ calls' = calls + 1
    BY <1>8 DEF CrashInSnapshot
  <2>11. QED
    BY <2>5, <2>6, <2>7, <2>8, <2>9, <2>10 DEF CheckpointTyped
<1>second. ASSUME NEW a \in Agents, NEW c \in ToolCalls, SecondFails(a, c)
       PROVE  CheckpointTyped'
  <2>0. /\ FirstOf(c) \in Seq(Lines) /\ Len(FirstOf(c)) >= 1 /\ Persist(a, FirstOf(c))
        /\ SavedStack(a, c) \in Seq(Lines) /\ Len(SavedStack(a, c)) \in Nat
        /\ Tail(Snapshots(c)) \in Seq(Lines) /\ WholeStack(a, c) \in Seq(Lines)
        /\ manager' = [manager EXCEPT ![a].stack = WholeStack(a, c),
                                      ![a].persisted = Len(SavedStack(a, c)),
                                      ![a].failed = Tail(Snapshots(c))]
    BY <1>second, SecondStack
  <2>1. PICK k \in Seq(Lines), u \in Seq(Lines), t \in Seq(Lines) :
           /\ k = SavedStack(a, c) /\ Len(k) \in Nat
           /\ manager' = [manager EXCEPT ![a].stack = u, ![a].persisted = Len(k), ![a].failed = t]
    BY <2>0
  <2>2. manager' \in [Agents -> Manager]
    <3>1. manager[a] \in Manager
      BY DEF CheckpointTyped
    <3>2. [[[manager[a] EXCEPT !.stack = u] EXCEPT !.persisted = Len(k)] EXCEPT !.failed = t] \in Manager
      BY <2>1, <3>1 DEF Manager
    <3>3. manager'[a] \in Manager
      BY <2>1, <3>1, <3>2 DEF CheckpointTyped, Manager
    <3>4. QED
      BY <2>1, <3>3 DEF CheckpointTyped
  <2>3. lines' \in Seq(Lines) /\ ragged' \in {"no", "open", "broken"}
    <3>1. Kept(a, FirstOf(c)) \in Seq(Lines) /\ Unsaved(a, FirstOf(c)) \in Seq(Lines)
      BY <2>0, KeptIs
    <3>2. lines \o Unsaved(a, FirstOf(c)) \in Seq(Lines)
      BY <1>2, <3>1, ConcatProperties
    <3>3. QED
      BY <2>0, <3>1, <3>2 DEF Persist, CheckpointTyped
  <2>4. marks' \subseteq {"company", "forked", "cut", "torn", "shed"}
    BY <2>0, Telling DEF Persist, Late, Rewritten
  <2>5. calls + 1 \in 0..MaxCalls
    BY <1>second, LimitsAreNumbers DEF SecondFails, CheckpointTyped
  <2>6. raced' \subseteq Paths
    BY <1>second, CallSnapshots DEF SecondFails, CheckpointTyped
  <2>7. UNCHANGED <<disk, call, undo, trail>> /\ calls' = calls + 1
    BY <1>second DEF SecondFails
  <2>8. QED
    BY <2>2, <2>3, <2>4, <2>5, <2>6, <2>7 DEF CheckpointTyped
<1>torn. ASSUME NEW a \in Agents, NEW c \in ToolCalls, SnapshotTorn(a, c)
       PROVE  CheckpointTyped'
  <2>1. PICK new \in Seq(Lines) : new = <<Head(Snapshots(c))>> /\ Len(new) = 1
    BY CallSnapshots
  <2>2. PICK k \in Seq(Lines) : k = Kept(a, new) /\ Unsaved(a, new) \in Seq(Lines)
    <3>1. Len(new) >= 1
      BY <2>1
    <3>2. Kept(a, new) \in Seq(Lines) /\ Unsaved(a, new) \in Seq(Lines)
      BY <3>1, KeptIs
    <3>3. QED
      BY <3>2
  <2>3. lines' \in Seq(Lines)
    <3>1. PICK all \in Seq(Lines) : all = IF Rewrites(a, new) THEN Kept(a, new) ELSE lines \o Unsaved(a, new)
      BY <1>2, <2>2, ConcatProperties
    <3>2. PICK n \in (IF Rewrites(a, new) THEN 0 ELSE Len(lines))..Len(all) : lines' = SubSeq(all, 1, n)
      BY <1>torn, <2>1, <3>1 DEF SnapshotTorn, PartWritten
    <3>3. n \in Nat /\ n <= Len(all)
      BY <1>2, <3>1, <3>2, LenProperties
    <3>4. QED
      BY <3>2, <3>3, PartOf
  <2>4. manager' \in [Agents -> Manager]
    <3>1. manager[a] \in Manager /\ manager[a].failed \o new \in Seq(Lines)
      BY <2>1, ConcatProperties DEF CheckpointTyped, Manager
    <3>2. [[manager[a] EXCEPT !.stack = k] EXCEPT !.failed = manager[a].failed \o new] \in Manager
      BY <2>2, <3>1 DEF Manager
    <3>3. manager' = [manager EXCEPT ![a].stack = k, ![a].failed = @ \o new]
      BY <1>torn, <2>1, <2>2 DEF SnapshotTorn
    <3>4. manager'[a] \in Manager
      BY <3>1, <3>2, <3>3 DEF CheckpointTyped, Manager
    <3>5. QED
      BY <3>3, <3>4 DEF CheckpointTyped
  <2>5. marks' \subseteq {"company", "forked", "cut", "torn", "shed"}
    BY <1>torn, Telling DEF SnapshotTorn
  <2>6. calls + 1 \in 0..MaxCalls
    BY <1>torn, LimitsAreNumbers DEF SnapshotTorn, CheckpointTyped
  <2>7. UNCHANGED <<disk, call, undo, trail, raced>> /\ calls' = calls + 1 /\ ragged' \in {"no", "open", "broken"}
    BY <1>torn DEF SnapshotTorn
  <2>8. QED
    BY <2>3, <2>4, <2>5, <2>6, <2>7 DEF CheckpointTyped
<1>9. ASSUME NEW d \in [Paths -> Contents], Change(d)
      PROVE  disk' \in [Paths -> Contents] /\ trail' \in [Paths -> Seq(Contents)]
  <2>1. ASSUME NEW p \in Paths
        PROVE  (IF d[p] # disk[p] THEN Append(trail[p], disk[p]) ELSE trail[p]) \in Seq(Contents)
    BY AppendProperties DEF CheckpointTyped
  <2>2. QED
    BY <1>9, <2>1 DEF Change
<1>10. ASSUME NEW a \in Agents, Effect(a)
       PROVE  CheckpointTyped'
  <2>1. call[a].what \in ToolCalls /\ call[a].content \in Contents
    BY <1>10 DEF Effect, CheckpointTyped
  <2>2. call[a].what.src \in Paths /\ call[a].what.dst \in Paths
    BY <2>1 DEF ToolCalls
  <2>3. \E d \in [Paths -> Contents] : Change(d)
    <3>1. /\ [disk EXCEPT ![call[a].what.src] = call[a].content] \in [Paths -> Contents]
          /\ [disk EXCEPT ![call[a].what.src] = Absent] \in [Paths -> Contents]
          /\ [disk EXCEPT ![call[a].what.dst] = disk[call[a].what.src], ![call[a].what.src] = Absent] \in [Paths -> Contents]
      BY <2>1, <2>2, LimitsAreNumbers DEF CheckpointTyped
    <3>2. QED
      BY <1>10, <3>1 DEF Effect
  <2>4. disk' \in [Paths -> Contents] /\ trail' \in [Paths -> Seq(Contents)]
    BY <1>9, <2>3
  <2>5. call' \in [Agents -> {NoCall} \cup [what : ToolCalls, content : Contents]]
    BY <1>10 DEF Effect, CheckpointTyped
  <2>6. QED
    BY <1>10, <2>4, <2>5 DEF Effect, CheckpointTyped
<1>11. ASSUME NEW a \in Agents, NoEffect(a)
       PROVE  CheckpointTyped'
  BY <1>11 DEF NoEffect, CheckpointTyped
<1>12. ASSUME NEW all \in BOOLEAN, UndoBegin(all)
       PROVE  CheckpointTyped'
  <2>1. undo' \in Undoing /\ undo'.stack # <<>>
    BY <1>2, <1>12 DEF UndoBegin, Undoing
  <2>2. QED
    BY <1>12, <2>1 DEF UndoBegin, CheckpointTyped
<1>13. CASE Restore
  <2>1. undo \in Undoing /\ undo.stack # <<>> /\ undo.stack \in Seq(Lines)
    BY <1>13 DEF Restore, CheckpointTyped, Undoing, NoUndo
  <2>2. PICK n \in Nat : n = Len(undo.stack) /\ n >= 1
    BY <2>1, LenProperties, EmptySeq
  <2>3. Last(undo.stack) \in Lines
    BY <2>1, <2>2, ElementOfSeq DEF Last
  <2>4. Front(undo.stack) \in Seq(Lines) /\ Len(Front(undo.stack)) = n - 1
    <3>1. n - 1 \in Nat /\ n - 1 <= Len(undo.stack) /\ n - 1 - 1 + 1 = n - 1
      BY <2>2
    <3>2. Front(undo.stack) = SubSeq(undo.stack, 1, n - 1)
      BY <2>2 DEF Front
    <3>3. \A i \in 1..n - 1 : undo.stack[i] \in Lines
      BY <2>1, <2>2, ElementOfSeq
    <3>4. /\ SubSeq(undo.stack, 1, n - 1) \in Seq(Lines)
          /\ Len(SubSeq(undo.stack, 1, n - 1)) = IF 1 <= n - 1 THEN n - 1 - 1 + 1 ELSE 0
      BY <3>1, <3>3, SubSeqProperties
    <3>5. QED
      BY <2>2, <3>1, <3>2, <3>4
  <2>5. PICK l \in Lines, f \in Seq(Lines) : l = Last(undo.stack) /\ f = Front(undo.stack) /\ Len(f) = n - 1
    BY <2>3, <2>4
  <2>6. l.path \in Paths /\ l.content \in Contents
    BY DEF Lines
  <2>7. /\ disk' = [disk EXCEPT ![l.path] = l.content]
        /\ trail' = IF disk[l.path] = l.content \/ trail[l.path] = <<>> THEN trail
                    ELSE [trail EXCEPT ![l.path] = Front(@)]
        /\ raced' = raced \cup ({l.path} \cap InCalls)
        /\ undo' = [undo EXCEPT !.stack = f, !.at = IF undo.all /\ Len(undo.stack) > 1 THEN "restore" ELSE "persist"]
        /\ Told("undo", {}) /\ UNCHANGED <<lines, ragged, manager, call, calls>>
    BY <1>13, <2>5 DEF Restore
  <2>8. disk' \in [Paths -> Contents] /\ raced' \subseteq Paths
    BY <2>6, <2>7 DEF CheckpointTyped
  <2>9. trail' \in [Paths -> Seq(Contents)]
    <3>1. CASE trail[l.path] # <<>>
      <4>1. PICK t \in Seq(Contents) : t = trail[l.path] /\ t # <<>>
        BY <2>6, <3>1 DEF CheckpointTyped
      <4>2. Len(t) \in Nat /\ Len(t) >= 1
        BY <4>1, LenProperties, EmptySeq
      <4>3. SubSeq(t, 1, Len(t) - 1) \in Seq(Contents)
        <5>1. Len(t) - 1 \in Nat /\ Len(t) - 1 <= Len(t)
          BY <4>2
        <5>2. QED
          BY <5>1, PartOf
      <4>4. Front(trail[l.path]) \in Seq(Contents)
        BY <4>1, <4>3 DEF Front
      <4>5. QED
        BY <2>6, <2>7, <4>4 DEF CheckpointTyped
    <3>2. CASE trail[l.path] = <<>>
      BY <2>7, <3>2 DEF CheckpointTyped
    <3>3. QED
      BY <3>1, <3>2
  <2>10. undo' \in Undoing /\ (undo'.at = "restore" => undo'.stack # <<>>)
    <3>1. undo' \in Undoing /\ undo'.stack = f
      BY <2>1, <2>7 DEF Undoing
    <3>2. undo'.at = "restore" => Len(undo.stack) > 1
      BY <2>1, <2>7 DEF Undoing
    <3>3. Len(undo.stack) > 1 => f # <<>>
      BY <2>2, <2>5, EmptySeq
    <3>4. QED
      BY <3>1, <3>2, <3>3
  <2>11. marks' \subseteq {"company", "forked", "cut", "torn", "shed"}
    BY <2>7, Telling
  <2>12. QED
    BY <2>7, <2>8, <2>9, <2>10, <2>11 DEF CheckpointTyped
<1>14. CASE RestoreFails
  BY <1>14 DEF RestoreFails, CheckpointTyped, NoUndo
<1>15. CASE UndoPersist \/ CrashInPersist
  <2>1. undo \in Undoing
    BY <1>15 DEF UndoPersist, CrashInPersist, CheckpointTyped, NoUndo
  <2>2. PICK s \in Seq(Lines) : s = undo.stack
    BY <2>1 DEF Undoing
  <2>3. \A n \in 0..Len(s) : SubSeq(s, 1, n) \in Seq(Lines)
    <3>1. \A n \in 0..Len(s) : n \in Nat /\ n <= Len(s)
      BY LenProperties
    <3>2. QED
      BY <3>1, PartOf
  <2>4. lines' \in Seq(Lines) /\ ragged' \in {"no", "open", "broken"}
    BY <1>15, <2>2, <2>3 DEF UndoPersist, CrashInPersist
  <2>5. marks' \subseteq {"company", "forked", "cut", "torn", "shed"}
    BY <1>15, Telling DEF UndoPersist, CrashInPersist
  <2>6. undo' = NoUndo /\ undo'.at # "restore" /\ UNCHANGED <<disk, manager, call, trail, raced, calls>>
    BY <1>15 DEF UndoPersist, CrashInPersist, NoUndo
  <2>7. QED
    BY <2>4, <2>5, <2>6 DEF CheckpointTyped
<1>16. CASE Clear
  <2>1. marks' \subseteq {"company", "forked", "cut", "torn", "shed"}
    BY <1>16, Telling DEF Clear
  <2>2. QED
    BY <1>1, <1>16, <2>1 DEF Clear, CheckpointTyped
<1>17. QED
  BY <1>3, <1>5, <1>6, <1>7, <1>8, <1>second, <1>torn, <1>10, <1>11, <1>12, <1>13, <1>14, <1>15, <1>16 DEF CheckpointNext

(* Without company: what is kept is the newest of what all share, and what  *)
(* is appended makes up the rest of it.                                    *)
LEMMA Shared ==
    ASSUME CheckpointTyped, NEW a \in Agents, InTheFile(a), NEW new \in Seq(Lines)
    PROVE  /\ Loaded \in Seq(Lines) /\ manager[a].failed \in Seq(Lines)
           /\ Kept(a, new) = Newest(Loaded \o manager[a].failed \o new, MaxSnapshots)
<1>1. Loaded \in Seq(Lines) /\ manager[a].failed \in Seq(Lines)
  BY EmptySeq DEF Loaded, CheckpointTyped, Manager
<1>2. PICK s \in Seq(Lines) : s = Loaded \o manager[a].failed
  BY <1>1, ConcatProperties
<1>3. manager[a].stack \in {s, Newest(s, MaxSnapshots)}
  BY <1>2 DEF InTheFile
<1>4. Newest(Newest(s, MaxSnapshots) \o new, MaxSnapshots) = Newest(s \o new, MaxSnapshots)
  BY LimitsAreNumbers, NewestAgain
<1>5. Kept(a, new) = Newest(s \o new, MaxSnapshots)
  BY <1>3, <1>4 DEF Kept, Stacked
<1>6. QED
  BY <1>1, <1>2, <1>5

LEMMA Regroup ==
    \A x, y, z \in Seq(Lines) : (x \o y) \o z = x \o (y \o z)
BY ConcatAssociative

LEMMA AppendedIsKept ==
    ASSUME CheckpointTyped, StacksFit, NEW a \in Agents, InTheFile(a),
           NEW new \in Seq(Lines), Len(new) >= 1, ~Rewrites(a, new)
    PROVE  ragged = "no" /\ lines \o Unsaved(a, new) = Kept(a, new)
<1>1. manager[a].persisted \in Nat /\ manager[a].failed \in Seq(Lines) /\ lines \in Seq(Lines)
  BY DEF CheckpointTyped, Manager
<1>2. manager[a].persisted > 0 /\ Len(Stacked(a, new)) <= MaxSnapshots
  <2>1. manager[a].persisted # 0 /\ ~(Len(Stacked(a, new)) > MaxSnapshots)
    BY DEF Rewrites, Evicts
  <2>2. Len(Stacked(a, new)) \in Nat
    BY KeptIs, LenProperties
  <2>3. QED
    BY <1>1, <2>1, <2>2, LimitsAreNumbers
<1>3. ragged = "no" /\ manager[a].persisted = Len(lines)
  BY <1>2 DEF InTheFile
<1>4. PICK s \in Seq(Lines) : s = lines \o manager[a].failed
  BY <1>1, ConcatProperties
<1>5. manager[a].stack \in {s, Newest(s, MaxSnapshots)}
  BY <1>3, <1>4 DEF InTheFile, Loaded
<1>6. manager[a].stack = s
  <2>1. /\ Len(Newest(s, MaxSnapshots)) = IF Len(s) <= MaxSnapshots THEN Len(s) ELSE MaxSnapshots
        /\ Len(s) <= MaxSnapshots => Newest(s, MaxSnapshots) = s
    BY LimitsAreNumbers, NewestIs
  <2>2. /\ Len(Stacked(a, new)) = Len(manager[a].stack) + Len(new) /\ Len(manager[a].stack) \in Nat
        /\ Len(new) \in Nat
    BY KeptIs
  <2>3. Len(manager[a].stack) # MaxSnapshots
    BY <1>2, <2>2, LimitsAreNumbers
  <2>4. QED
    BY <1>5, <2>1, <2>3
<1>7. PICK u \in Seq(Lines) : u = manager[a].failed \o new
  BY <1>1, ConcatProperties
<1>8. Stacked(a, new) = lines \o u
  <2>1. PICK r \in Seq(Lines), f \in Seq(Lines) : r = lines /\ f = manager[a].failed
    BY <1>1
  <2>2. (r \o f) \o new = r \o (f \o new)
    BY Regroup
  <2>3. Stacked(a, new) = (r \o f) \o new /\ u = f \o new
    BY <1>4, <1>6, <1>7, <2>1 DEF Stacked
  <2>4. QED
    BY <2>1, <2>2, <2>3
<1>9. Unsaved(a, new) = u
  BY <1>1, <1>3, <1>8, RestOf DEF Unsaved
<1>10. Kept(a, new) = Stacked(a, new)
  BY <1>2, KeptIs
<1>11. QED
  BY <1>3, <1>8, <1>9, <1>10

-----------------------------------------------------------------------------
LEMMA InStepInit == CheckpointInit => InStep
BY DEF CheckpointInit, InStep, Off

(* A mark is never taken back, and without company nobody else is about. *)
LEMMA MarksStay == CheckpointNext => marks \subseteq marks'
<1>1. ASSUME NEW me, NEW how, Told(me, how)
      PROVE  marks \subseteq marks'
  BY <1>1 DEF Told
<1>2. ASSUME NEW a \in Agents, NEW c \in ToolCalls,
             Snapshot(a, c) \/ SecondFails(a, c) \/ SnapshotTorn(a, c) \/ CrashInSnapshot(a, c)
      PROVE  \E how : Told(a, how)
  <2>1. CASE Snapshot(a, c) \/ SecondFails(a, c)
    BY <2>1 DEF Snapshot, SecondFails, Persist
  <2>2. CASE SnapshotTorn(a, c) \/ CrashInSnapshot(a, c)
    BY <2>2 DEF SnapshotTorn, CrashInSnapshot
  <2>3. QED
    BY <1>2, <2>1, <2>2
<1>3. CASE Restore \/ UndoPersist \/ CrashInPersist \/ Clear
  <2>1. \E me, how : Told(me, how)
    BY <1>3 DEF Restore, UndoPersist, CrashInPersist, Clear
  <2>2. QED
    BY <1>1, <2>1
<1>4. CASE RestoreFails
  BY <1>4 DEF RestoreFails
<1>5. CASE UNCHANGED marks
  BY <1>5
<1>6. SUFFICES ASSUME CheckpointNext PROVE marks \subseteq marks'
  OBVIOUS
<1>7. CASE \E a \in Agents : \/ Start(a) \/ Stop(a) \/ Effect(a) \/ NoEffect(a)
                             \/ \E c \in ToolCalls : SnapshotFails(a, c)
  BY <1>5, <1>7 DEF Start, Stop, SnapshotFails, Effect, NoEffect
<1>8. CASE \E a \in Agents, c \in ToolCalls :
             Snapshot(a, c) \/ SecondFails(a, c) \/ SnapshotTorn(a, c) \/ CrashInSnapshot(a, c)
  BY <1>1, <1>2, <1>8
<1>9. CASE \E all \in BOOLEAN : UndoBegin(all)
  BY <1>5, <1>9 DEF UndoBegin
<1>10. QED
  BY <1>3, <1>4, <1>6, <1>7, <1>8, <1>9 DEF CheckpointNext

LEMMA Alone ==
    ASSUME NEW me, NEW how, Told(me, how), "company" \notin marks'
    PROVE  /\ "company" \notin marks /\ ~Company(me) /\ marks' = marks \cup how
           /\ \A b \in Agents \ {me} : ~manager[b].on
           /\ me # "undo" => undo = NoUndo
BY DEF Told, Company

LEMMA InStepStep ==
    ASSUME CheckpointTyped, StacksFit, InStep, CheckpointNext
    PROVE  InStep'
<1> SUFFICES ASSUME marks' \cap {"company", "torn"} = {}
             PROVE  /\ \A b \in Agents : manager'[b].on => InTheFile(b)'
                    /\ undo' # NoUndo => undo'.read = lines'
                    /\ "forked" \notin marks'
  BY DEF InStep, NoUndo
<1>0. "company" \notin marks' /\ "torn" \notin marks'
  OBVIOUS
<1>1. "company" \notin marks /\ marks \cap {"company", "torn"} = {}
  BY MarksStay
<1>2. /\ \A b \in Agents : manager[b].on => InTheFile(b)
      /\ undo # NoUndo => undo.read = lines
      /\ "forked" \notin marks
  BY <1>1 DEF InStep
<1>3. ASSUME NEW b \in Agents, UNCHANGED <<lines, ragged>>, manager'[b] = manager[b], manager'[b].on
      PROVE  InTheFile(b)'
  BY <1>2, <1>3 DEF InTheFile, Loaded
<1>4. ASSUME NEW a \in Agents, Start(a)
      PROVE  InStep'
  <2>1. manager'[a] = [Off EXCEPT !.on = TRUE, !.stack = IF ragged = "broken" THEN <<>> ELSE lines]
    BY <1>4 DEF Start, CheckpointTyped
  <2>2. manager'[a].stack = Loaded' /\ manager'[a].failed = <<>> /\ manager'[a].persisted = 0
    BY <1>4, <2>1 DEF Start, Loaded, Off
  <2>3. Loaded' \o <<>> = Loaded'
    <3>1. Loaded \in Seq(Lines) /\ Loaded' = Loaded
      BY <1>4, EmptySeq DEF Start, Loaded, CheckpointTyped
    <3>2. QED
      BY <3>1, ConcatEmptySeq
  <2>4. InTheFile(a)'
    BY <2>2, <2>3 DEF InTheFile
  <2>5. \A b \in Agents : b # a => manager'[b] = manager[b]
    BY <1>4 DEF Start, CheckpointTyped
  <2>6. UNCHANGED <<lines, ragged, undo, marks>>
    BY <1>4 DEF Start
  <2>7. QED
    BY <1>2, <1>3, <2>4, <2>5, <2>6 DEF InStep
<1>5. ASSUME NEW a \in Agents, Stop(a)
      PROVE  InStep'
  <2>1. ~manager'[a].on /\ \A b \in Agents : b # a => manager'[b] = manager[b]
    BY <1>5 DEF Stop, Off, CheckpointTyped
  <2>2. UNCHANGED <<lines, ragged, undo, marks>>
    BY <1>5 DEF Stop
  <2>3. QED
    BY <1>2, <1>3, <2>1, <2>2 DEF InStep
<1>6. ASSUME NEW a \in Agents, NEW c \in ToolCalls, Snapshot(a, c)
      PROVE  InStep'
  <2>1. PICK new \in Seq(Lines) : new = Snapshots(c) /\ Len(new) >= 1
    BY CallSnapshots
  <2>2. /\ Persist(a, new) /\ undo' = undo /\ manager[a].on
        /\ manager' = [manager EXCEPT ![a].stack = Kept(a, new), ![a].persisted = Len(Kept(a, new)), ![a].failed = <<>>]
    BY <1>6, <2>1 DEF Snapshot
  <2>3. InTheFile(a)
    BY <1>2, <2>2
  <2>4. PICK k \in Seq(Lines) :
           k = Kept(a, new) /\ k = Newest(Loaded \o manager[a].failed \o new, MaxSnapshots)
    BY <2>1, <2>3, KeptIs, Shared
  <2>5. manager'[a].stack = k /\ manager'[a].persisted = Len(k) /\ manager'[a].failed = <<>>
    BY <2>2, <2>4 DEF CheckpointTyped, Manager
  <2>6. /\ \A b \in Agents \ {a} : ~manager[b].on
        /\ undo = NoUndo /\ ~Company(a)
    BY <2>2, Alone, LimitsAreNumbers DEF Persist
  <2>7. \A b \in Agents \ {a} : manager'[b] = manager[b]
    BY <2>2 DEF CheckpointTyped
  <2>8. lines' = k /\ ragged' = "no"
    BY <2>1, <2>2, <2>3, <2>4, AppendedIsKept DEF Persist
  <2>9. "forked" \notin Late(a) /\ "forked" \notin Rewritten(a, new)
    BY <1>1, <2>4, <2>6 DEF Late, Rewritten, Loaded
  <2>10. "forked" \notin marks'
    BY <1>2, <2>2, <2>9 DEF Persist, Told
  <2>11. InTheFile(a)'
    <3>1. k \o <<>> = k
      BY ConcatEmptySeq
    <3>2. Loaded' = k
      BY <2>8 DEF Loaded
    <3>3. QED
      BY <2>5, <2>8, <3>1, <3>2 DEF InTheFile
  <2>12. QED
    BY <2>2, <2>6, <2>7, <2>10, <2>11 DEF InStep
<1>7. ASSUME NEW a \in Agents, NEW c \in ToolCalls, SnapshotFails(a, c)
      PROVE  InStep'
  <2>1. PICK new \in Seq(Lines) : new = <<Head(Snapshots(c))>>
    BY CallSnapshots
  <2>2. /\ UNCHANGED <<lines, ragged, undo, marks>> /\ manager[a].on
        /\ manager' = [manager EXCEPT ![a].stack = Kept(a, new), ![a].failed = @ \o new]
    BY <1>7, <2>1 DEF SnapshotFails
  <2>3. InTheFile(a)
    BY <1>2, <2>2
  <2>4. /\ Loaded \in Seq(Lines) /\ manager[a].failed \in Seq(Lines)
        /\ Kept(a, new) = Newest(Loaded \o manager[a].failed \o new, MaxSnapshots)
    BY <2>3, Shared
  <2>5. PICK f \in Seq(Lines) : f = manager[a].failed \o new
    BY <2>4, ConcatProperties
  <2>6. Kept(a, new) = Newest(Loaded \o f, MaxSnapshots)
    <3>1. PICK r \in Seq(Lines), g \in Seq(Lines) : r = Loaded /\ g = manager[a].failed
      BY <2>4
    <3>2. (r \o g) \o new = r \o (g \o new)
      BY Regroup
    <3>3. QED
      BY <2>4, <2>5, <3>1, <3>2
  <2>7. manager'[a].stack = Kept(a, new) /\ manager'[a].failed = f /\ manager'[a].persisted = manager[a].persisted
    BY <2>2, <2>5 DEF CheckpointTyped, Manager
  <2>8. InTheFile(a)'
    <3>1. Loaded' = Loaded /\ ragged' = ragged /\ lines' = lines
      BY <2>2 DEF Loaded
    <3>2. QED
      BY <2>3, <2>6, <2>7, <3>1 DEF InTheFile
  <2>9. \A b \in Agents : b # a => manager'[b] = manager[b]
    BY <2>2 DEF CheckpointTyped
  <2>10. QED
    BY <1>2, <1>3, <2>2, <2>8, <2>9 DEF InStep
<1>8. ASSUME NEW a \in Agents, NEW c \in ToolCalls, CrashInSnapshot(a, c)
      PROVE  InStep'
  <2>1. PICK how \in SUBSET {"cut"} : Told(a, how)
    BY <1>8 DEF CrashInSnapshot
  <2>2. /\ \A b \in Agents \ {a} : ~manager[b].on
        /\ undo = NoUndo /\ "forked" \notin marks'
    BY <1>2, <2>1, Alone, LimitsAreNumbers
  <2>3. ~manager'[a].on /\ \A b \in Agents \ {a} : manager'[b] = manager[b]
    BY <1>8 DEF CrashInSnapshot, Off, CheckpointTyped
  <2>4. undo' = undo
    BY <1>8 DEF CrashInSnapshot
  <2>5. QED
    BY <2>2, <2>3, <2>4 DEF InStep
<1>second. ASSUME NEW a \in Agents, NEW c \in ToolCalls, SecondFails(a, c)
       PROVE  InStep'
  <2>0. /\ FirstOf(c) \in Seq(Lines) /\ Len(FirstOf(c)) >= 1 /\ Persist(a, FirstOf(c))
        /\ SavedStack(a, c) \in Seq(Lines) /\ Tail(Snapshots(c)) \in Seq(Lines)
        /\ WholeStack(a, c) \in Seq(Lines)
        /\ manager' = [manager EXCEPT ![a].stack = WholeStack(a, c),
                                      ![a].persisted = Len(SavedStack(a, c)),
                                      ![a].failed = Tail(Snapshots(c))]
    BY <1>second, SecondStack
  <2>1. PICK new \in Seq(Lines) : new = FirstOf(c) /\ Len(new) >= 1 /\ Persist(a, new)
    BY <2>0
  <2>2. PICK k \in Seq(Lines), t \in Seq(Lines), u \in Seq(Lines) :
           /\ k = Kept(a, new) /\ u = Newest(k \o t, MaxSnapshots)
           /\ manager' = [manager EXCEPT ![a].stack = u, ![a].persisted = Len(k), ![a].failed = t]
    <3>1. SavedStack(a, c) = Kept(a, new)
      BY <2>1 DEF SavedStack
    <3>2. WholeStack(a, c) = Newest(SavedStack(a, c) \o Tail(Snapshots(c)), MaxSnapshots)
      BY DEF WholeStack
    <3>3. QED
      BY <2>0, <3>1, <3>2
  <2>3. manager[a].on /\ undo' = undo /\ InTheFile(a)
    BY <1>2, <1>second DEF SecondFails
  <2>4. k = Newest(Loaded \o manager[a].failed \o new, MaxSnapshots)
    BY <2>2, <2>3, Shared
  <2>5. manager'[a].stack = u /\ manager'[a].persisted = Len(k) /\ manager'[a].failed = t
    BY <2>2 DEF CheckpointTyped, Manager
  <2>6. /\ \A b \in Agents \ {a} : ~manager[b].on
        /\ undo = NoUndo /\ ~Company(a)
    BY <1>0, <2>1, Alone, LimitsAreNumbers DEF Persist
  <2>7. \A b \in Agents \ {a} : manager'[b] = manager[b]
    BY <2>2 DEF CheckpointTyped
  <2>8. lines' = k /\ ragged' = "no"
    BY <2>1, <2>2, <2>3, AppendedIsKept DEF Persist
  <2>9. "forked" \notin Late(a) /\ "forked" \notin Rewritten(a, new)
    BY <1>1, <2>2, <2>4, <2>6 DEF Late, Rewritten, Loaded
  <2>10. "forked" \notin marks'
    BY <1>2, <2>1, <2>9 DEF Persist, Told
  <2>11. InTheFile(a)'
    <3>1. Loaded' = k
      BY <2>8 DEF Loaded
    <3>2. QED
      BY <2>2, <2>5, <2>8, <3>1 DEF InTheFile
  <2>12. QED
    BY <2>3, <2>6, <2>7, <2>10, <2>11 DEF InStep
<1>torn. ASSUME NEW a \in Agents, NEW c \in ToolCalls, SnapshotTorn(a, c)
       PROVE  FALSE
  BY <1>0, <1>torn DEF SnapshotTorn, Told
<1>9. CASE \E a \in Agents : Effect(a) \/ NoEffect(a)
  <2>1. UNCHANGED <<lines, ragged, manager, undo, marks>>
    BY <1>9 DEF Effect, NoEffect
  <2>2. QED
    BY <1>2, <1>3, <2>1
<1>10. CASE \E all \in BOOLEAN : UndoBegin(all)
  <2>1. UNCHANGED <<lines, ragged, manager, marks>> /\ undo'.read = lines
    BY <1>10 DEF UndoBegin
  <2>2. QED
    BY <1>2, <1>3, <2>1
<1>11. CASE Restore \/ RestoreFails
  <2>1. UNCHANGED <<lines, ragged, manager>> /\ "forked" \notin marks'
    BY <1>2, <1>11, Alone DEF Restore, RestoreFails
  <2>2. undo' # NoUndo => undo # NoUndo /\ undo'.read = undo.read
    <3>1. CASE Restore
      <4>1. undo \in Undoing
        BY <3>1 DEF Restore, CheckpointTyped, NoUndo
      <4>2. undo'.read = undo.read
        BY <3>1, <4>1 DEF Restore, Undoing
      <4>3. undo # NoUndo
        BY <3>1 DEF Restore, NoUndo
      <4>4. QED
        BY <4>2, <4>3
    <3>2. CASE RestoreFails
      BY <3>2 DEF RestoreFails
    <3>3. QED
      BY <1>11, <3>1, <3>2
  <2>3. QED
    BY <1>2, <1>3, <2>1, <2>2
<1>12. CASE UndoPersist \/ CrashInPersist
  <2>1. undo # NoUndo /\ undo' = NoUndo /\ manager' = manager
    BY <1>12 DEF UndoPersist, CrashInPersist, NoUndo
  <2>2. PICK how \in SUBSET {"cut"} : Told("undo", how)
    BY <1>2, <1>12, <2>1 DEF UndoPersist, CrashInPersist
  <2>3. (\A b \in Agents : ~manager[b].on) /\ "forked" \notin marks'
    BY <1>2, <2>2, Alone, LimitsAreNumbers
  <2>4. QED
    BY <2>1, <2>3
<1>13. CASE Clear
  <2>1. Told("clear", {"shed"}) /\ manager' = manager /\ undo' = undo
    BY <1>13 DEF Clear
  <2>2. (\A b \in Agents : ~manager[b].on) /\ undo = NoUndo /\ "forked" \notin marks'
    BY <1>2, <2>1, Alone, LimitsAreNumbers
  <2>3. QED
    BY <2>1, <2>2
<1>14. QED
  BY <1>0, <1>4, <1>5, <1>6, <1>7, <1>8, <1>second, <1>torn, <1>9, <1>10, <1>11, <1>12, <1>13 DEF CheckpointNext, InStep

-----------------------------------------------------------------------------
LEMMA CheckpointInvariantInit == CheckpointInit => CheckpointInvariant
<1> SUFFICES ASSUME CheckpointInit PROVE CheckpointInvariant
  OBVIOUS
<1>1. Len(<<>>) = 0
  OBVIOUS
<1>2. StacksFit
  BY <1>1 DEF CheckpointInit, StacksFit, Off
<1>3. QED
  BY <1>2, CheckpointTypedInit, InStepInit DEF CheckpointInvariant

LEMMA CheckpointInvariantStep == CheckpointInvariant /\ [CheckpointNext]_checkpointVars => CheckpointInvariant'
<1>1. CheckpointInvariant /\ CheckpointNext => CheckpointInvariant'
  BY CheckpointTypedStep, StacksFitStep, InStepStep DEF CheckpointInvariant
<1>2. ASSUME CheckpointInvariant, UNCHANGED checkpointVars
      PROVE  CheckpointInvariant'
  <2>1. UNCHANGED <<disk, lines, ragged, manager, call, undo, trail, raced, marks, calls>>
    BY <1>2 DEF checkpointVars, counters
  <2>2. CheckpointTyped' /\ StacksFit'
    BY <1>2, <2>1 DEF CheckpointInvariant, CheckpointTyped, StacksFit
  <2>3. InStep'
    BY <1>2, <2>1 DEF CheckpointInvariant, InStep, InTheFile, Loaded
  <2>4. QED
    BY <2>2, <2>3 DEF CheckpointInvariant
<1>3. QED
  BY <1>1, <1>2

LEMMA CheckpointInvariantFits == CheckpointInvariant => ForksNeedCompany
<1> SUFFICES ASSUME CheckpointInvariant PROVE ForksNeedCompany
  OBVIOUS
<1>1. "forked" \in marks => marks \cap {"company", "torn"} # {}
  BY DEF CheckpointInvariant, InStep
<1>2. ASSUME NEW S, NEW s \in Seq(S)
      PROVE  ToSet(s) \subseteq S
  BY <1>2, ElementOfSeq, LenProperties DEF ToSet
<1>3. ToSet(lines) \subseteq Lines /\ \A p \in Paths : ToSet(trail[p]) \subseteq Contents
  BY <1>2 DEF CheckpointInvariant, CheckpointTyped
<1>4. \A l \in ToSet(lines) : l.path \in Paths /\ l.content \in Contents
  BY <1>3 DEF Lines
<1>5. ASSUME NEW a \in Agents
      PROVE  /\ manager[a].on \in BOOLEAN
             /\ manager[a].persisted \in 0..Len(manager[a].stack)
             /\ Len(manager[a].stack) <= MaxSnapshots \/ manager[a].persisted = 0
             /\ call[a] = NoCall \/ call[a].what \in ToolCalls
  <2>1. manager[a] \in Manager /\ call[a] \in {NoCall} \cup [what : ToolCalls, content : Contents]
    BY DEF CheckpointInvariant, CheckpointTyped
  <2>2. Len(manager[a].stack) \in Nat /\ manager[a].persisted \in Nat
    BY <2>1, LenProperties DEF Manager
  <2>3. manager[a].persisted \in 0..Len(manager[a].stack)
    BY <2>2 DEF CheckpointInvariant, StacksFit
  <2>4. QED
    BY <2>1, <2>3 DEF CheckpointInvariant, StacksFit, Manager
<1>6. undo.at \in {"idle", "restore", "persist"}
  BY DEF CheckpointInvariant, CheckpointTyped, Undoing, NoUndo
<1>7. CheckpointTypeOK
  BY <1>3, <1>4, <1>5, <1>6 DEF CheckpointTypeOK, CheckpointInvariant, CheckpointTyped
<1>8. QED
  BY <1>1, <1>7 DEF ForksNeedCompany

(* Lines of the checkpoint file are lost or come back only in company or     *)
(* after a torn save: as long as no two agents, or an agent and an undo,     *)
(* hold a copy at once, and no save fails with a part written while its      *)
(* agent lives on, what is written is what all of them share, however often  *)
(* the file cannot be opened or a crash cuts it                              *)
(* (deepseeknova-checkpoint/src/lib.rs).                                   *)
THEOREM ForksAlwaysNeedCompany == CheckpointSpec => []ForksNeedCompany
<1>1. CheckpointSpec => []CheckpointInvariant
  BY CheckpointInvariantInit, CheckpointInvariantStep, PTL DEF CheckpointSpec
<1>2. QED
  BY <1>1, CheckpointInvariantFits, PTL
=============================================================================
