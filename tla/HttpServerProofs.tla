-------------------------- MODULE HttpServerProofs --------------------------
(***************************************************************************)
(* Proofs about two parts of the HTTP server.                              *)
(*                                                                         *)
(* ServeRuns, for any runs, any finite set of requests, any number of      *)
(* permits and of restarts, and with saves that may fail.  Types and       *)
(* permits are right whatever other servers do to the run directory        *)
(* (RequestsInvariant); that a run has one execution, and that its record  *)
(* says so, needs a directory that one server uses at a time               *)
(* (RecordsInvariant).                                                     *)
(*                                                                         *)
(* ToolApprovals, for any agents, calls and settings, any capacity of the  *)
(* cache, any rate limit and window, and any bounds.  GateInvariant says   *)
(* of every agent what its place in the gate has established so far        *)
(* (Covered), which entries of the map are owed to whom (Owed, Served),    *)
(* and that the times the rate limiter keeps are the last ones it let pass *)
(* (TimesKept).  RunsAreEntitled and WaitsAreBounded follow.               *)
(***************************************************************************)
EXTENDS ServeRuns, ToolApprovals, FiniteSetTheorems, SequenceTheorems, WellFoundedInduction, TLAPS

-----------------------------------------------------------------------------
(* Durable runs.                                                           *)

Active(q) == req[q].pc \in HoldsPermit
Holders == {q \in Requests : Active(q)}

(* Every request past the semaphore is about a run. *)
ActiveHasRun == \A q \in Requests : Active(q) => req[q].run \in Runs

RequestsInvariant == RunsTypeOK /\ ActiveHasRun /\ PermitsAccounted

(* A handler and a task live in a serving process only. *)
ActiveWhileServing == \A q \in Requests : Active(q) => server["main"] = "serving"

NoSecondServer == server["other"] = "down" /\ marking["other"] = {}

(* What the sweep has still to save says Running, and no other record does *)
(* unless its end could not be saved.                                      *)
SweepExact ==
  /\ \A r \in marking["main"] : server["main"] = "marking" /\ record[r] = "running"
  /\ server["main"] = "marking" =>
       \A r \in Runs \ unsaved : record[r] = "running" => r \in marking["main"]

(* What claim saw under its mutex is still so when it saves. *)
ClaimHolds ==
  \A q \in Requests : req[q].pc = "claiming" =>
    claimLock = q /\ record[req[q].run] \in Settled

(* The record of a run that is executed says Running, or was never saved. *)
ExecutingRecord ==
  \A q \in Requests : req[q].pc \in Executing =>
    record[req[q].run] \in {"running", "absent"}

RecordsInvariant ==
  /\ ActiveWhileServing
  /\ NoSecondServer
  /\ SweepExact
  /\ ClaimHolds
  /\ ExecutingRecord
  /\ OneExecution
  /\ RunningIsExecuting

-----------------------------------------------------------------------------
(* Permits: a step takes one, returns one, or moves none. *)

LEMMA HoldersFinite == IsFiniteSet(Holders) /\ Cardinality(Holders) \in Nat
BY RequestsAssumption, FS_Subset, FS_CardinalityType DEF Holders

LEMMA NoneMoved ==
  ASSUME PermitsAccounted, Holders' = Holders, permits' = permits
  PROVE  PermitsAccounted'
BY DEF PermitsAccounted, Holders, Active

LEMMA PermitTaken ==
  ASSUME NEW q \in Requests, RunsTypeOK, PermitsAccounted, ~Active(q),
         Holders' = Holders \cup {q}, permits' = permits - 1
  PROVE  PermitsAccounted'
<1>1. Cardinality(Holders') = Cardinality(Holders) + 1
  BY HoldersFinite, FS_AddElement DEF Holders
<1>2. QED
  BY <1>1, HoldersFinite, MaxConcurrentAssumption
  DEF PermitsAccounted, RunsTypeOK, Holders, Active

LEMMA PermitReturned ==
  ASSUME NEW q \in Requests, RunsTypeOK, PermitsAccounted, Active(q),
         Holders' = Holders \ {q}, permits' = permits + 1
  PROVE  PermitsAccounted' /\ permits < MaxConcurrent
<1>1. /\ Cardinality(Holders') = Cardinality(Holders) - 1
      /\ Cardinality(Holders) # 0
  BY HoldersFinite, FS_RemoveElement, FS_EmptySet DEF Holders
<1>2. QED
  BY <1>1, HoldersFinite, MaxConcurrentAssumption
  DEF PermitsAccounted, RunsTypeOK, Holders, Active

-----------------------------------------------------------------------------
LEMMA RequestsInvariantInit == RunsInit => RequestsInvariant
<1> SUFFICES ASSUME RunsInit PROVE RequestsInvariant
  OBVIOUS
<1>1. RunsTypeOK
  BY MaxConcurrentAssumption, MaxStartsAssumption
  DEF RunsInit, RunsTypeOK, Servers, RunStatus, Settled, Places, HoldsPermit, Executing
<1>2. ActiveHasRun
  BY DEF RunsInit, ActiveHasRun, Active, HoldsPermit, Executing
<1>3. PermitsAccounted
  <2>1. Holders = {}
    BY DEF RunsInit, Holders, Active, HoldsPermit, Executing
  <2>2. QED
    <3>1. permits = MaxConcurrent /\ Cardinality(Holders) = 0
      BY <2>1, FS_EmptySet DEF RunsInit
    <3>2. QED
      BY <3>1, MaxConcurrentAssumption DEF PermitsAccounted, Holders, Active
<1>4. QED
  BY <1>1, <1>2, <1>3 DEF RequestsInvariant

LEMMA RequestsInvariantStep == RequestsInvariant /\ [RunsNext]_runsVars => RequestsInvariant'
<1> SUFFICES ASSUME RequestsInvariant, [RunsNext]_runsVars PROVE RequestsInvariant'
  OBVIOUS
<1> USE DEF RequestsInvariant, Servers, Settled, RunStatus, Executing, HoldsPermit, Places,
            Serving, Goto, Admit, Active, StatusOf
<1>1. ASSUME NEW s \in Servers, StartServer(s)
      PROVE  RequestsInvariant'
  <2> USE <1>1 DEF StartServer
  <2>1. RunsTypeOK'
    BY MaxStartsAssumption DEF RunsTypeOK
  <2>2. PermitsAccounted'
    BY DEF PermitsAccounted
  <2>3. ActiveHasRun'
    BY DEF ActiveHasRun
  <2>4. QED
    BY <2>1, <2>2, <2>3
<1>2. ASSUME NEW s \in Servers, MarkFails(s)
      PROVE  RequestsInvariant'
  <2> USE <1>2 DEF MarkFails
  <2>1. RunsTypeOK'
    BY DEF RunsTypeOK
  <2>2. PermitsAccounted'
    BY DEF PermitsAccounted
  <2>3. ActiveHasRun'
    BY DEF ActiveHasRun
  <2>4. QED
    BY <2>1, <2>2, <2>3
<1>3. ASSUME NEW s \in Servers, Serve(s)
      PROVE  RequestsInvariant'
  <2> USE <1>3 DEF Serve
  <2>1. RunsTypeOK'
    BY DEF RunsTypeOK
  <2>2. PermitsAccounted'
    BY DEF PermitsAccounted
  <2>3. ActiveHasRun'
    BY DEF ActiveHasRun
  <2>4. QED
    BY <2>1, <2>2, <2>3
<1>4. ASSUME NEW s \in Servers, NEW r \in Runs, MarkInterrupted(s, r)
      PROVE  RequestsInvariant'
  <2> USE <1>4 DEF MarkInterrupted
  <2>1. RunsTypeOK'
    BY DEF RunsTypeOK
  <2>2. PermitsAccounted'
    BY DEF PermitsAccounted
  <2>3. ActiveHasRun'
    BY DEF ActiveHasRun
  <2>4. QED
    BY <2>1, <2>2, <2>3
<1>5. CASE Crash
  <2> USE <1>5 DEF Crash
  <2>1. RunsTypeOK'
    BY MaxConcurrentAssumption, NoRunAssumption DEF RunsTypeOK
  <2>2. PermitsAccounted'
    <3>1. Holders' = {}
      BY DEF RunsTypeOK, Holders
    <3>2. Cardinality(Holders') = 0
      BY <3>1, FS_EmptySet
    <3>3. QED
      BY <3>2, MaxConcurrentAssumption DEF PermitsAccounted, Holders
  <2>3. ActiveHasRun'
    BY DEF RunsTypeOK, ActiveHasRun
  <2>4. QED
    BY <2>1, <2>2, <2>3
<1>6. ASSUME NEW q \in Requests, NEW r \in Runs, Chat(q, r)
      PROVE  RequestsInvariant'
  <2> USE <1>6 DEF Chat
  <2>1. RunsTypeOK'
    BY MaxConcurrentAssumption DEF RunsTypeOK
  <2>2. PermitsAccounted'
    <3>1. ~Active(q) /\ Holders' = Holders \cup {q}
      BY DEF RunsTypeOK, Holders
    <3>2. QED
      BY <3>1, PermitTaken
  <2>3. ActiveHasRun'
    BY DEF RunsTypeOK, ActiveHasRun
  <2>4. QED
    BY <2>1, <2>2, <2>3
<1>7. ASSUME NEW q \in Requests, NEW r \in Runs, Resume(q, r)
      PROVE  RequestsInvariant'
  <2> USE <1>7 DEF Resume
  <2>1. RunsTypeOK'
    BY MaxConcurrentAssumption DEF RunsTypeOK
  <2>2. PermitsAccounted'
    <3>1. ~Active(q) /\ Holders' = Holders \cup {q}
      BY DEF RunsTypeOK, Holders
    <3>2. QED
      BY <3>1, PermitTaken
  <2>3. ActiveHasRun'
    BY DEF RunsTypeOK, ActiveHasRun
  <2>4. QED
    BY <2>1, <2>2, <2>3
<1>8. ASSUME NEW q \in Requests, TooMany(q)
      PROVE  RequestsInvariant'
  <2> USE <1>8 DEF TooMany
  <2>1. RunsTypeOK'
    BY DEF RunsTypeOK
  <2>2. PermitsAccounted'
    <3>1. Holders' = Holders
      BY DEF RunsTypeOK, Holders
    <3>2. QED
      BY <3>1, NoneMoved
  <2>3. ActiveHasRun'
    BY DEF RunsTypeOK, ActiveHasRun
  <2>4. QED
    BY <2>1, <2>2, <2>3
<1>9. ASSUME NEW q \in Requests, ClaimLoad(q)
      PROVE  RequestsInvariant'
  <2> USE <1>9 DEF ClaimLoad
  <2>1. RunsTypeOK'
    BY DEF RunsTypeOK
  <2>2. PermitsAccounted'
    <3>1. Holders' = Holders
      BY DEF RunsTypeOK, Holders
    <3>2. QED
      BY <3>1, NoneMoved
  <2>3. ActiveHasRun'
    BY DEF RunsTypeOK, ActiveHasRun
  <2>4. QED
    BY <2>1, <2>2, <2>3
<1>10. ASSUME NEW q \in Requests, ClaimSave(q)
      PROVE  RequestsInvariant'
  <2> USE <1>10 DEF ClaimSave
  <2>1. RunsTypeOK'
    BY DEF RunsTypeOK, ActiveHasRun
  <2>2. PermitsAccounted'
    <3>1. Holders' = Holders
      BY DEF RunsTypeOK, Holders
    <3>2. QED
      BY <3>1, NoneMoved
  <2>3. ActiveHasRun'
    BY DEF RunsTypeOK, ActiveHasRun
  <2>4. QED
    BY <2>1, <2>2, <2>3
<1>11. ASSUME NEW q \in Requests, StartRunRecord(q)
      PROVE  RequestsInvariant'
  <2> USE <1>11 DEF StartRunRecord
  <2>1. RunsTypeOK'
    BY DEF RunsTypeOK, ActiveHasRun
  <2>2. PermitsAccounted'
    <3>1. Holders' = Holders
      BY DEF RunsTypeOK, Holders
    <3>2. QED
      BY <3>1, NoneMoved
  <2>3. ActiveHasRun'
    BY DEF RunsTypeOK, ActiveHasRun
  <2>4. QED
    BY <2>1, <2>2, <2>3
<1>12. ASSUME NEW q \in Requests, NEW e \in {"done", "error", "paused"}, ClosingEvent(q, e)
      PROVE  RequestsInvariant'
  <2> USE <1>12 DEF ClosingEvent
  <2>1. RunsTypeOK'
    BY DEF RunsTypeOK
  <2>2. PermitsAccounted'
    <3>1. Holders' = Holders
      BY DEF RunsTypeOK, Holders
    <3>2. QED
      BY <3>1, NoneMoved
  <2>3. ActiveHasRun'
    BY DEF RunsTypeOK, ActiveHasRun
  <2>4. QED
    BY <2>1, <2>2, <2>3
<1>13. ASSUME NEW q \in Requests, EndOfStream(q)
      PROVE  RequestsInvariant'
  <2> USE <1>13 DEF EndOfStream
  <2>1. RunsTypeOK'
    BY DEF RunsTypeOK
  <2>2. PermitsAccounted'
    <3>1. Holders' = Holders
      BY DEF RunsTypeOK, Holders
    <3>2. QED
      BY <3>1, NoneMoved
  <2>3. ActiveHasRun'
    BY DEF RunsTypeOK, ActiveHasRun
  <2>4. QED
    BY <2>1, <2>2, <2>3
<1>14. ASSUME NEW q \in Requests, FinishRunRecord(q)
      PROVE  RequestsInvariant'
  <2> USE <1>14 DEF FinishRunRecord
  <2>1. RunsTypeOK'
    BY DEF RunsTypeOK, ActiveHasRun
  <2>2. PermitsAccounted'
    <3>1. Holders' = Holders
      BY DEF RunsTypeOK, Holders
    <3>2. QED
      BY <3>1, NoneMoved
  <2>3. ActiveHasRun'
    BY DEF RunsTypeOK, ActiveHasRun
  <2>4. QED
    BY <2>1, <2>2, <2>3
<1>15. ASSUME NEW q \in Requests, Release(q)
      PROVE  RequestsInvariant'
  <2> USE <1>15 DEF Release
  <2>1. PermitsAccounted' /\ permits < MaxConcurrent
    <3>1. Active(q) /\ Holders' = Holders \ {q}
      BY DEF RunsTypeOK, Holders
    <3>2. QED
      BY <3>1, PermitReturned
  <2>2. RunsTypeOK'
    BY <2>1, MaxConcurrentAssumption DEF RunsTypeOK
  <2>3. ActiveHasRun'
    BY DEF RunsTypeOK, ActiveHasRun
  <2>4. QED
    BY <2>1, <2>2, <2>3
<1>16. CASE UNCHANGED runsVars
  BY <1>16 DEF runsVars, RunsTypeOK, ActiveHasRun, PermitsAccounted
<1>17. QED
  BY <1>1, <1>2, <1>3, <1>4, <1>5, <1>6, <1>7, <1>8, <1>9, <1>10, <1>11, <1>12, <1>13, <1>14, <1>15, <1>16 DEF RunsNext, Client, Handler, Startup

-----------------------------------------------------------------------------
LEMMA RecordsInvariantInit == ~SecondServer /\ RunsInit => RecordsInvariant
BY DEF RunsInit, RecordsInvariant, ActiveWhileServing, NoSecondServer, SweepExact, ClaimHolds,
       ExecutingRecord, OneExecution, RunningIsExecuting, Active, Servers, HoldsPermit,
       Executing, Settled

LEMMA RecordsInvariantStep ==
  ASSUME ~SecondServer, RequestsInvariant, RecordsInvariant, [RunsNext]_runsVars
  PROVE  RecordsInvariant'
<1> USE DEF RequestsInvariant, RecordsInvariant, Servers, Settled, RunStatus, Executing, HoldsPermit, Places,
            Serving, Goto, Admit, Active, StatusOf
<1>1. ASSUME NEW s \in Servers, StartServer(s)
      PROVE  RecordsInvariant'
  <2> USE <1>1 DEF StartServer
  <2>1. ActiveWhileServing'
    BY DEF RunsTypeOK, ActiveWhileServing
  <2>2. NoSecondServer'
    BY DEF RunsTypeOK, NoSecondServer
  <2>3. SweepExact'
    BY DEF RunsTypeOK, SweepExact
  <2>4. RunningIsExecuting'
    BY DEF RunsTypeOK, RunningIsExecuting
  <2>5. QED
    BY <2>1, <2>2, <2>3, <2>4 DEF ClaimHolds, ExecutingRecord, OneExecution
<1>2. ASSUME NEW s \in Servers, MarkFails(s)
      PROVE  RecordsInvariant'
  <2> USE <1>2 DEF MarkFails
  <2>1. NoSecondServer'
    BY DEF RunsTypeOK, NoSecondServer
  <2>2. SweepExact'
    BY DEF RunsTypeOK, SweepExact
  <2>3. RunningIsExecuting'
    BY DEF RunsTypeOK, RunningIsExecuting
  <2>4. QED
    BY <2>1, <2>2, <2>3 DEF ActiveWhileServing, ClaimHolds, ExecutingRecord, OneExecution
<1>3. ASSUME NEW s \in Servers, Serve(s)
      PROVE  RecordsInvariant'
  <2> USE <1>3 DEF Serve
  <2>1. ActiveWhileServing'
    BY DEF RunsTypeOK, ActiveWhileServing
  <2>2. NoSecondServer'
    BY DEF RunsTypeOK, NoSecondServer
  <2>3. SweepExact'
    BY DEF RunsTypeOK, SweepExact
  <2>4. RunningIsExecuting'
    BY DEF RunsTypeOK, RunningIsExecuting, SweepExact
  <2>5. QED
    BY <2>1, <2>2, <2>3, <2>4 DEF ClaimHolds, ExecutingRecord, OneExecution
<1>4. ASSUME NEW s \in Servers, NEW r \in Runs, MarkInterrupted(s, r)
      PROVE  RecordsInvariant'
  <2> USE <1>4 DEF MarkInterrupted
  <2>1. NoSecondServer'
    BY DEF RunsTypeOK, NoSecondServer
  <2>2. SweepExact'
    BY DEF RunsTypeOK, SweepExact, NoSecondServer
  <2>3. ClaimHolds'
    BY DEF RunsTypeOK, ClaimHolds
  <2>4. ExecutingRecord'
    BY DEF RunsTypeOK, ExecutingRecord, ActiveHasRun, SweepExact, ActiveWhileServing, NoSecondServer
  <2>5. RunningIsExecuting'
    BY DEF RunsTypeOK, RunningIsExecuting
  <2>6. QED
    BY <2>1, <2>2, <2>3, <2>4, <2>5 DEF ActiveWhileServing, OneExecution
<1>5. CASE Crash
  <2> USE <1>5 DEF Crash
  <2>1. ActiveWhileServing'
    BY DEF RunsTypeOK, ActiveWhileServing
  <2>2. NoSecondServer'
    BY DEF RunsTypeOK, NoSecondServer
  <2>3. SweepExact'
    BY DEF RunsTypeOK, SweepExact
  <2>4. ClaimHolds'
    BY DEF RunsTypeOK, ClaimHolds
  <2>5. ExecutingRecord'
    BY DEF RunsTypeOK, ExecutingRecord
  <2>6. OneExecution'
    BY DEF RunsTypeOK, OneExecution
  <2>7. RunningIsExecuting'
    BY DEF RunsTypeOK, RunningIsExecuting
  <2>8. QED
    BY <2>1, <2>2, <2>3, <2>4, <2>5, <2>6, <2>7
<1>6. ASSUME NEW q \in Requests, NEW r \in Runs, Chat(q, r)
      PROVE  RecordsInvariant'
  <2> USE <1>6 DEF Chat
  <2>1. ActiveWhileServing'
    BY DEF RunsTypeOK, ActiveWhileServing
  <2>2. ClaimHolds'
    BY DEF RunsTypeOK, ClaimHolds
  <2>3. ExecutingRecord'
    BY DEF RunsTypeOK, ExecutingRecord
  <2>4. OneExecution'
    BY DEF RunsTypeOK, OneExecution
  <2>5. RunningIsExecuting'
    BY DEF RunsTypeOK, RunningIsExecuting
  <2>6. QED
    BY <2>1, <2>2, <2>3, <2>4, <2>5 DEF NoSecondServer, SweepExact
<1>7. ASSUME NEW q \in Requests, NEW r \in Runs, Resume(q, r)
      PROVE  RecordsInvariant'
  <2> USE <1>7 DEF Resume
  <2>1. ActiveWhileServing'
    BY DEF RunsTypeOK, ActiveWhileServing
  <2>2. ClaimHolds'
    BY DEF RunsTypeOK, ClaimHolds
  <2>3. ExecutingRecord'
    BY DEF RunsTypeOK, ExecutingRecord
  <2>4. OneExecution'
    BY DEF RunsTypeOK, OneExecution
  <2>5. RunningIsExecuting'
    BY DEF RunsTypeOK, RunningIsExecuting
  <2>6. QED
    BY <2>1, <2>2, <2>3, <2>4, <2>5 DEF NoSecondServer, SweepExact
<1>8. ASSUME NEW q \in Requests, TooMany(q)
      PROVE  RecordsInvariant'
  <2> USE <1>8 DEF TooMany
  <2>1. ActiveWhileServing'
    BY DEF RunsTypeOK, ActiveWhileServing
  <2>2. ClaimHolds'
    BY DEF RunsTypeOK, ClaimHolds
  <2>3. ExecutingRecord'
    BY DEF RunsTypeOK, ExecutingRecord
  <2>4. OneExecution'
    BY DEF RunsTypeOK, OneExecution
  <2>5. RunningIsExecuting'
    BY DEF RunsTypeOK, RunningIsExecuting
  <2>6. QED
    BY <2>1, <2>2, <2>3, <2>4, <2>5 DEF NoSecondServer, SweepExact
<1>9. ASSUME NEW q \in Requests, ClaimLoad(q)
      PROVE  RecordsInvariant'
  <2> USE <1>9 DEF ClaimLoad
  <2>1. ActiveWhileServing'
    BY DEF RunsTypeOK, ActiveWhileServing
  <2>2. ClaimHolds'
    BY NoRunAssumption DEF RunsTypeOK, ClaimHolds
  <2>3. ExecutingRecord'
    BY DEF RunsTypeOK, ExecutingRecord
  <2>4. OneExecution'
    BY DEF RunsTypeOK, OneExecution
  <2>5. RunningIsExecuting'
    BY DEF RunsTypeOK, RunningIsExecuting
  <2>6. QED
    BY <2>1, <2>2, <2>3, <2>4, <2>5 DEF NoSecondServer, SweepExact
<1>10. ASSUME NEW q \in Requests, ClaimSave(q)
      PROVE  RecordsInvariant'
  <2> USE <1>10 DEF ClaimSave
  <2>1. ActiveWhileServing'
    BY DEF RunsTypeOK, ActiveWhileServing
  <2>2. SweepExact'
    BY DEF RunsTypeOK, SweepExact
  <2>3. ClaimHolds'
    BY DEF RunsTypeOK, ClaimHolds
  <2>4. ExecutingRecord'
    BY DEF RunsTypeOK, ExecutingRecord, ActiveHasRun
  <2>5. OneExecution'
    BY DEF RunsTypeOK, OneExecution, ClaimHolds, ExecutingRecord
  <2>6. RunningIsExecuting'
    BY DEF RunsTypeOK, RunningIsExecuting
  <2>7. QED
    BY <2>1, <2>2, <2>3, <2>4, <2>5, <2>6 DEF NoSecondServer
<1>11. ASSUME NEW q \in Requests, StartRunRecord(q)
      PROVE  RecordsInvariant'
  <2> USE <1>11 DEF StartRunRecord
  <2>1. ActiveWhileServing'
    BY DEF RunsTypeOK, ActiveWhileServing
  <2>2. SweepExact'
    BY DEF RunsTypeOK, SweepExact
  <2>3. ClaimHolds'
    BY DEF RunsTypeOK, ClaimHolds, ActiveHasRun, ExecutingRecord
  <2>4. ExecutingRecord'
    BY DEF RunsTypeOK, ExecutingRecord, ActiveHasRun
  <2>5. OneExecution'
    BY DEF RunsTypeOK, OneExecution
  <2>6. RunningIsExecuting'
    BY DEF RunsTypeOK, RunningIsExecuting
  <2>7. QED
    BY <2>1, <2>2, <2>3, <2>4, <2>5, <2>6 DEF NoSecondServer
<1>12. ASSUME NEW q \in Requests, NEW e \in {"done", "error", "paused"}, ClosingEvent(q, e)
      PROVE  RecordsInvariant'
  <2> USE <1>12 DEF ClosingEvent
  <2>1. ActiveWhileServing'
    BY DEF RunsTypeOK, ActiveWhileServing
  <2>2. ClaimHolds'
    BY DEF RunsTypeOK, ClaimHolds
  <2>3. ExecutingRecord'
    BY DEF RunsTypeOK, ExecutingRecord
  <2>4. OneExecution'
    BY DEF RunsTypeOK, OneExecution
  <2>5. RunningIsExecuting'
    BY DEF RunsTypeOK, RunningIsExecuting
  <2>6. QED
    BY <2>1, <2>2, <2>3, <2>4, <2>5 DEF NoSecondServer, SweepExact
<1>13. ASSUME NEW q \in Requests, EndOfStream(q)
      PROVE  RecordsInvariant'
  <2> USE <1>13 DEF EndOfStream
  <2>1. ActiveWhileServing'
    BY DEF RunsTypeOK, ActiveWhileServing
  <2>2. ClaimHolds'
    BY DEF RunsTypeOK, ClaimHolds
  <2>3. ExecutingRecord'
    BY DEF RunsTypeOK, ExecutingRecord
  <2>4. OneExecution'
    BY DEF RunsTypeOK, OneExecution
  <2>5. RunningIsExecuting'
    BY DEF RunsTypeOK, RunningIsExecuting
  <2>6. QED
    BY <2>1, <2>2, <2>3, <2>4, <2>5 DEF NoSecondServer, SweepExact
<1>14. ASSUME NEW q \in Requests, FinishRunRecord(q)
      PROVE  RecordsInvariant'
  <2> USE <1>14 DEF FinishRunRecord
  <2>1. ActiveWhileServing'
    BY DEF RunsTypeOK, ActiveWhileServing
  <2>2. SweepExact'
    BY DEF RunsTypeOK, SweepExact
  <2>3. ClaimHolds'
    BY DEF RunsTypeOK, ClaimHolds, ActiveHasRun
  <2>4. ExecutingRecord'
    BY DEF RunsTypeOK, ExecutingRecord, ActiveHasRun, OneExecution
  <2>5. OneExecution'
    BY DEF RunsTypeOK, OneExecution
  <2>6. RunningIsExecuting'
    BY DEF RunsTypeOK, RunningIsExecuting
  <2>7. QED
    BY <2>1, <2>2, <2>3, <2>4, <2>5, <2>6 DEF NoSecondServer
<1>15. ASSUME NEW q \in Requests, Release(q)
      PROVE  RecordsInvariant'
  <2> USE <1>15 DEF Release
  <2>1. ActiveWhileServing'
    BY DEF RunsTypeOK, ActiveWhileServing
  <2>2. ClaimHolds'
    BY DEF RunsTypeOK, ClaimHolds
  <2>3. ExecutingRecord'
    BY DEF RunsTypeOK, ExecutingRecord
  <2>4. OneExecution'
    BY DEF RunsTypeOK, OneExecution
  <2>5. RunningIsExecuting'
    BY DEF RunsTypeOK, RunningIsExecuting
  <2>6. QED
    BY <2>1, <2>2, <2>3, <2>4, <2>5 DEF NoSecondServer, SweepExact
<1>16. CASE UNCHANGED runsVars
  BY <1>16 DEF runsVars, ActiveWhileServing, NoSecondServer, SweepExact, ClaimHolds, ExecutingRecord, OneExecution, RunningIsExecuting
<1>17. QED
  BY <1>1, <1>2, <1>3, <1>4, <1>5, <1>6, <1>7, <1>8, <1>9, <1>10, <1>11, <1>12, <1>13, <1>14, <1>15, <1>16 DEF RunsNext, Client, Handler, Startup

-----------------------------------------------------------------------------
THEOREM RequestsCorrect == RunsSpec => []RequestsInvariant
BY RequestsInvariantInit, RequestsInvariantStep, PTL DEF RunsSpec

(* Records, servers, requests, permits and the claim mutex keep their      *)
(* types, also with a second server on the directory.                      *)
THEOREM RunsTypeCorrect == RunsSpec => []RunsTypeOK
<1>1. RequestsInvariant => RunsTypeOK
  BY DEF RequestsInvariant
<1>2. QED
  BY <1>1, RequestsCorrect, PTL

(* No early return of chat or resume, no crash and no failed save keeps or *)
(* doubles a permit of the semaphore.                                      *)
THEOREM PermitsHeld == RunsSpec => []PermitsAccounted
<1>1. RequestsInvariant => PermitsAccounted
  BY DEF RequestsInvariant
<1>2. QED
  BY <1>1, RequestsCorrect, PTL

(* Types and permits together, as the model checker runs them.              *)
THEOREM RequestsStaySound == RunsSpec => []RequestsSound
<1>1. RunsTypeOK /\ PermitsAccounted => RequestsSound
  BY DEF RequestsSound
<1>2. QED
  BY <1>1, RunsTypeCorrect, PermitsHeld, PTL

LEMMA RecordsCorrect == ASSUME ~SecondServer PROVE RunsSpec => []RecordsInvariant
<1>1. RunsInit => RecordsInvariant
  BY RecordsInvariantInit
<1>2. RequestsInvariant /\ RecordsInvariant /\ [RunsNext]_runsVars => RecordsInvariant'
  BY RecordsInvariantStep
<1>3. QED
  BY <1>1, <1>2, RequestsCorrect, PTL DEF RunsSpec

(* With one server on the directory, no two requests execute one run.      *)
THEOREM RunsOnce == ASSUME ~SecondServer PROVE RunsSpec => []OneExecution
<1>1. RecordsInvariant => OneExecution
  BY DEF RecordsInvariant
<1>2. QED
  BY <1>1, RecordsCorrect, PTL

(* With one server on the directory, a record that says Running while it   *)
(* serves is a run somebody executes, unless its end could not be saved.   *)
THEOREM RunningMeansExecuting == ASSUME ~SecondServer PROVE RunsSpec => []RunningIsExecuting
<1>1. RecordsInvariant => RunningIsExecuting
  BY DEF RecordsInvariant
<1>2. QED
  BY <1>1, RecordsCorrect, PTL

(* With one server on the directory, the result of a run is rewritten only *)
(* by a new execution of it.                                               *)
THEOREM ResultsStay == ASSUME ~SecondServer PROVE RunsSpec => SettledStays
<1> DEFINE Kept == \A r \in Runs : record[r] \in Settled => record'[r] \in {record[r], "running"}
<1>1. RequestsInvariant /\ RecordsInvariant /\ [RunsNext]_runsVars => [Kept]_runsVars
  <2> SUFFICES ASSUME RequestsInvariant, RecordsInvariant, RunsNext PROVE Kept
    OBVIOUS
  <2> USE DEF RequestsInvariant, RecordsInvariant, RunsTypeOK, Settled
  <2>1. ASSUME NEW s \in Servers, NEW r \in Runs, MarkInterrupted(s, r)
        PROVE  Kept
    BY <2>1 DEF MarkInterrupted, SweepExact, NoSecondServer, Servers
  <2>2. ASSUME NEW q \in Requests, ClaimSave(q)
        PROVE  Kept
    BY <2>2 DEF ClaimSave
  <2>3. ASSUME NEW q \in Requests, StartRunRecord(q)
        PROVE  Kept
    BY <2>3 DEF StartRunRecord
  <2>4. ASSUME NEW q \in Requests, FinishRunRecord(q)
        PROVE  Kept
    BY <2>4 DEF FinishRunRecord, ExecutingRecord, Executing, Serving
  <2>5. CASE UNCHANGED record
    BY <2>5
  <2>6. QED
    BY <2>1, <2>2, <2>3, <2>4, <2>5
    DEF RunsNext, Client, Handler, Startup, StartServer, MarkFails, Serve, Crash, Chat, Resume,
        Admit, TooMany, ClaimLoad, ClosingEvent, EndOfStream, Release
<1>2. QED
  BY <1>1, RequestsCorrect, RecordsCorrect, PTL DEF RunsSpec, SettledStays

-----------------------------------------------------------------------------
(* Interactive approvals.                                                  *)

SlotType == [phase : {"idle", "deciding", "allowed", "asking", "waiting", "expired", "approved"},
             call : Calls \cup {"none"}, answer : {"none", "yes", "no"},
             how : {"none", "policy", "cache", "person", "unattended"},
             era : 0..MaxSwitches, session : 0..MaxSwitches]
EntryType == [known : BOOLEAN, late : BOOLEAN, era : Nat, session : Nat]

(* TypeOK without the capacity of the cache. *)
StateOK ==
    /\ set \in Setting /\ mode \in Modes /\ {trusted, switching, cancelled} \subseteq BOOLEAN
    /\ cache \in [Calls -> EntryType]
    /\ window \in Seq(0..MaxTime) /\ passes \in Seq(0..MaxTime) /\ now \in 0..MaxTime
    /\ slot \in [Agents -> SlotType]
    /\ request \in [Agents -> Nat] /\ pending \subseteq Mains \X Nat
    /\ era \in 0..MaxSwitches /\ session \in 0..MaxSwitches
    /\ approved \subseteq Calls

(* There is a person to approve a call, or a configuration that does. *)
Answerable == set.frontend # "none" \/ set.unattended = "allow"

(* What an agent's place in the gate says of its call. *)
Covered(a) ==
    /\ Phase(a) \notin {"waiting", "approved"} => slot[a].answer = "none"
    /\ Phase(a) # "idle" => CallOf(a) \in Calls /\ ~Barred(CallOf(a))
    /\ Phase(a) \in {"asking", "waiting", "expired", "approved"} => a \in Mains
    /\ Phase(a) \notin {"idle", "deciding"} => CallOf(a) \notin set.deny
    /\ Phase(a) = "approved" \/ slot[a].answer = "yes" => CallOf(a) \in approved
    /\ Phase(a) \in {"asking", "waiting", "expired"} => set.frontend # "none"
    /\ Phase(a) = "approved" => Answerable

Entitled(a) ==
    Phase(a) = "allowed" =>
        /\ CallOf(a) \in set.ask => slot[a].how \in {"person", "unattended"}
        /\ slot[a].how \in {"cache", "person", "unattended"} => CallOf(a) \in approved
        /\ slot[a].how = "person" => set.frontend # "none"
        /\ slot[a].how = "unattended" => set.frontend = "none" /\ set.unattended = "allow"
        /\ slot[a].how = "cache" => Answerable

(* The map has an entry of its for the one request it waits with, and none *)
(* once the answer is there.                                               *)
Owed(a) ==
    /\ \A n \in Nat : <<a, n>> \in pending =>
           n = request[a] /\ Phase(a) \in {"waiting", "expired"}
    /\ a \in Mains /\ set.frontend = "serve" /\ Waiting(a) => <<a, request[a]>> \in pending
    /\ Phase(a) = "waiting" /\ slot[a].answer # "none" => <<a, request[a]>> \notin pending

(* Only the server has a map. *)
Served == set.frontend # "serve" => pending = {}

(* The cache holds what was approved, and no more than it may. *)
CacheKept ==
    /\ IsFiniteSet(Cached) /\ Cardinality(Cached) <= Capacity
    /\ Cached \subseteq approved
    /\ Cached # {} => Answerable

(* The times kept are the last ones that passed; the others have left the *)
(* window for good.                                                       *)
Offset == Len(passes) - Len(window)
TimesKept ==
    /\ \A i \in 1..Len(passes) : passes[i] <= now
    /\ set.limit # 0 =>
         /\ Len(window) <= Len(passes)
         /\ \A i \in 1..Len(window) : window[i] = passes[Offset + i]
         /\ \A i \in 1..Offset : now - passes[i] >= Window

Placed == Served /\ \A a \in Agents : Covered(a) /\ Entitled(a) /\ Owed(a)

GateInvariant ==
    /\ StateOK
    /\ Placed
    /\ CacheKept
    /\ CacheIsCurrent
    /\ TimesKept
    /\ RateWindow

-----------------------------------------------------------------------------
(* What a step does to the slot of one agent. *)

Moves(a) == slot' \in [Agents -> SlotType] /\ \A b \in Agents : b # a => slot'[b] = slot[b]

Sets(a, where, c) ==
    /\ Moves(a)
    /\ slot'[a].phase = where /\ slot'[a].call = c
    /\ slot'[a].answer = slot[a].answer

Clears(a) == Moves(a) /\ slot'[a].phase = "idle" /\ slot'[a].answer = "none"

Grants(a, c, why) ==
    /\ Moves(a)
    /\ slot'[a].phase = "allowed" /\ slot'[a].call = c /\ slot'[a].how = why
    /\ slot'[a].answer = "none"

Steps == {"idle", "deciding", "allowed", "asking", "waiting", "expired", "approved"}

LEMMA SlotReplaced ==
    ASSUME StateOK, NEW a \in Agents, NEW s \in SlotType, slot' = [slot EXCEPT ![a] = s]
    PROVE  Moves(a) /\ slot'[a] = s
BY DEF StateOK, Moves

(* A slot is a record of its type. *)
LEMMA InSets ==
    ASSUME StateOK, NEW a \in Agents, NEW where \in Steps, NEW c \in Calls \cup {"none"},
           In(a, where, c)
    PROVE  Sets(a, where, c)
<1> DEFINE s == [[slot[a] EXCEPT !.phase = where] EXCEPT !.call = c]
<1>1. slot[a] \in SlotType
  BY DEF StateOK
<1>2. s \in SlotType /\ s.phase = where /\ s.call = c /\ s.answer = slot[a].answer
  BY <1>1 DEF SlotType, Steps
<1>3. slot' = [slot EXCEPT ![a] = s]
  BY <1>1 DEF In, StateOK
<1> HIDE DEF s
<1>4. QED
  BY <1>2, <1>3, SlotReplaced DEF Sets

LEMMA IdleIsSlot == Idle \in SlotType /\ Idle.phase = "idle" /\ Idle.answer = "none"
BY ApprovalsAssumption DEF Idle, SlotType

LEMMA RefusedClears ==
    ASSUME StateOK, NEW a \in Agents, slot' = [slot EXCEPT ![a] = Idle]
    PROVE  Clears(a)
<1>1. PICK s \in SlotType : s = Idle
  BY IdleIsSlot
<1>2. Moves(a) /\ slot'[a] = s
  BY <1>1, SlotReplaced
<1>3. QED
  BY <1>1, <1>2, IdleIsSlot DEF Clears

LEMMA AllowedGrants ==
    ASSUME StateOK, NEW a \in Agents, NEW c \in Calls,
           NEW why \in {"policy", "cache", "person", "unattended"}, Allowed(a, c, why)
    PROVE  Grants(a, c, why) /\ request' = request
<1> DEFINE s == [Idle EXCEPT !.phase = "allowed", !.call = c, !.how = why]
<1>1. /\ s \in SlotType /\ s.phase = "allowed" /\ s.call = c /\ s.how = why
      /\ s.answer = "none"
  BY IdleIsSlot DEF SlotType
<1>2. slot' = [slot EXCEPT ![a] = s] /\ request' = request
  BY DEF Allowed
<1> HIDE DEF s
<1>3. QED
  BY <1>1, <1>2, SlotReplaced DEF Grants

(* The answer is noted, with the switches made so far. *)
Answers(a, yes) ==
    /\ Moves(a)
    /\ slot'[a].phase = slot[a].phase /\ slot'[a].call = slot[a].call
    /\ slot'[a].answer = IF yes THEN "yes" ELSE "no"

LEMMA GivenAnswers ==
    ASSUME StateOK, NEW a \in Agents, NEW yes \in BOOLEAN, Given(a, yes), Phase(a) = "waiting"
    PROVE  Answers(a, yes)
<1> DEFINE s == [slot[a] EXCEPT !.answer = IF yes THEN "yes" ELSE "no",
                                !.era = era, !.session = session]
<1>1. slot[a] \in SlotType /\ era \in 0..MaxSwitches /\ session \in 0..MaxSwitches
  BY DEF StateOK
<1>2. /\ s \in SlotType /\ s.phase = slot[a].phase /\ s.call = slot[a].call
      /\ s.answer = IF yes THEN "yes" ELSE "no"
  BY <1>1 DEF SlotType
<1>3. slot' = [slot EXCEPT ![a] = s]
  BY DEF Given
<1> HIDE DEF s
<1>4. QED
  BY <1>2, <1>3, SlotReplaced DEF Answers

-----------------------------------------------------------------------------
(* Steps that keep Placed, by what they do to one agent. *)

(* What belongs to the others stays. *)
Alone(a) ==
    /\ Moves(a) /\ set' = set /\ approved \subseteq approved'
    /\ \A b \in Agents : b # a =>
         /\ request'[b] = request[b]
         /\ \A n \in Nat : <<b, n>> \in pending' <=> <<b, n>> \in pending

LEMMA OthersStayPlaced ==
    ASSUME StateOK, StateOK', Placed, NEW a \in Agents, Alone(a), Served',
           Covered(a)', Entitled(a)', Owed(a)'
    PROVE  Placed'
<1> SUFFICES ASSUME NEW b \in Agents PROVE Covered(b)' /\ Entitled(b)' /\ Owed(b)'
  BY DEF Placed
<1>1. CASE b = a
  BY <1>1
<1>2. CASE b # a
  <2>1. /\ slot'[b] = slot[b] /\ set' = set /\ approved \subseteq approved'
        /\ request'[b] = request[b]
        /\ \A n \in Nat : <<b, n>> \in pending' <=> <<b, n>> \in pending
        /\ request[b] \in Nat
    BY <1>2 DEF Alone, Moves, StateOK
  <2>2. Covered(b) /\ Entitled(b) /\ Owed(b)
    BY DEF Placed
  <2>3. Covered(b)'
    BY <2>1, <2>2 DEF Covered, Answerable, Phase, CallOf, Barred
  <2>4. Entitled(b)'
    BY <2>1, <2>2 DEF Entitled, Answerable, Phase, CallOf
  <2>5. Owed(b)'
    BY <2>1, <2>2 DEF Owed, Phase, Waiting
  <2>6. QED
    BY <2>3, <2>4, <2>5
<1>3. QED
  BY <1>1, <1>2

(* A call is refused, executed or given up: its entry goes with it. *)
LEMMA ClearsKeeps ==
    ASSUME StateOK, StateOK', Placed, NEW a \in Agents, Clears(a),
           UNCHANGED <<set, request, approved>>, pending' = pending \ {<<a, request[a]>>}
    PROVE  Placed'
<1>1. slot'[a].phase = "idle" /\ slot'[a].answer = "none" /\ Moves(a)
  BY DEF Clears
<1>2. Alone(a) /\ Served'
  BY <1>1 DEF Alone, Placed, Served
<1>3. Covered(a)' /\ Entitled(a)'
  BY <1>1 DEF Covered, Answerable, Entitled, Phase
<1>4. Owed(a)'
  <2>1. \A n \in Nat : <<a, n>> \in pending => n = request[a]
    BY DEF Placed, Owed
  <2>2. QED
    BY <1>1, <2>1 DEF Owed, Phase, Waiting
<1>5. QED
  BY <1>2, <1>3, <1>4, OthersStayPlaced

(* A call without an entry is refused or executed. *)
LEMMA ClearsPlainly ==
    ASSUME StateOK, StateOK', Placed, NEW a \in Agents, Clears(a),
           UNCHANGED <<set, request, approved, pending>>, Phase(a) \notin {"waiting", "expired"}
    PROVE  Placed'
<1>1. request[a] \in Nat /\ <<a, request[a]>> \notin pending
  BY DEF StateOK, Placed, Owed
<1>2. pending' = pending \ {<<a, request[a]>>}
  BY <1>1
<1>3. QED
  BY <1>2, ClearsKeeps

(* A call may run. *)
LEMMA GrantsKeeps ==
    ASSUME StateOK, StateOK', Placed, NEW a \in Agents, NEW c \in Calls, NEW why,
           Grants(a, c, why), UNCHANGED <<set, request, approved, pending>>,
           Phase(a) \notin {"waiting", "expired"}, ~Barred(c), c \notin set.deny,
           c \in set.ask => why \in {"person", "unattended"},
           why \in {"cache", "person", "unattended"} => c \in approved,
           why = "person" => set.frontend # "none",
           why = "unattended" => set.frontend = "none" /\ set.unattended = "allow",
           why = "cache" => Answerable
    PROVE  Placed'
<1>1. /\ slot'[a].phase = "allowed" /\ slot'[a].call = c /\ slot'[a].how = why
      /\ slot'[a].answer = "none" /\ Moves(a)
  BY DEF Grants
<1>2. Alone(a) /\ Served'
  BY <1>1 DEF Alone, Placed, Served
<1>3. Covered(a)'
  BY <1>1 DEF Covered, Answerable, Phase, CallOf, Barred
<1>4. Entitled(a)'
  BY <1>1 DEF Entitled, Answerable, Phase, CallOf
<1>5. \A n \in Nat : <<a, n>> \notin pending
  BY DEF Placed, Owed
<1>6. Owed(a)'
  BY <1>1, <1>5 DEF Owed, Phase, Waiting
<1>7. QED
  BY <1>2, <1>3, <1>4, <1>6, OthersStayPlaced

(* A call waits for the verdict, or for its question to be asked. *)
LEMMA SetsKeeps ==
    ASSUME StateOK, StateOK', Placed, NEW a \in Agents, NEW c \in Calls,
           NEW where \in {"deciding", "asking"}, Sets(a, where, c),
           UNCHANGED <<set, approved, pending>>, \A b \in Agents : b # a => request'[b] = request[b],
           Phase(a) \in {"idle", "deciding"}, ~Barred(c),
           where = "asking" => a \in Mains /\ c \notin set.deny /\ set.frontend # "none"
    PROVE  Placed'
<1>1. /\ slot'[a].phase = where /\ slot'[a].call = c /\ Moves(a)
      /\ slot'[a].answer = "none"
  BY DEF Sets, Placed, Covered, Answerable
<1>2. Alone(a) /\ Served'
  BY <1>1 DEF Alone, Placed, Served
<1>3. Covered(a)' /\ Entitled(a)'
  BY <1>1 DEF Covered, Answerable, Entitled, Phase, CallOf, Barred
<1>4. \A n \in Nat : <<a, n>> \notin pending
  BY DEF Placed, Owed
<1>5. Owed(a)'
  BY <1>1, <1>4 DEF Owed, Phase, Waiting
<1>6. QED
  BY <1>2, <1>3, <1>5, OthersStayPlaced

(* A call nobody can be asked about is approved by the configuration. *)
LEMMA UnattendedKeeps ==
    ASSUME StateOK, StateOK', Placed, NEW a \in Mains, NEW c \in Calls, Sets(a, "approved", c),
           set' = set, UNCHANGED <<request, pending>>, approved' = approved \cup {c},
           Phase(a) \in {"idle", "deciding"}, ~Barred(c), c \notin set.deny, AllowsUnattended
    PROVE  Placed'
<1>1. a \in Agents
  BY DEF Agents
<1>2. /\ slot'[a].phase = "approved" /\ slot'[a].call = c /\ Moves(a)
      /\ slot'[a].answer = "none"
  BY <1>1 DEF Sets, Placed, Covered
<1>3. Alone(a) /\ Served'
  BY <1>2 DEF Alone, Placed, Served
<1>4. Covered(a)' /\ Entitled(a)'
  BY <1>2 DEF Covered, Entitled, Answerable, AllowsUnattended, Phase, CallOf, Barred
<1>5. \A n \in Nat : <<a, n>> \notin pending
  BY <1>1 DEF Placed, Owed
<1>6. Owed(a)'
  BY <1>2, <1>5 DEF Owed, Phase, Waiting
<1>7. QED
  BY <1>1, <1>3, <1>4, <1>6, OthersStayPlaced

LEMMA RegisterKeeps ==
    ASSUME StateOK, StateOK', Placed, NEW a \in Agents, Register(a)
    PROVE  Placed'
<1>1. /\ Phase(a) = "asking" /\ In(a, "waiting", CallOf(a))
      /\ UNCHANGED <<set, request, approved>>
      /\ pending' = IF set.frontend = "serve" THEN pending \cup {<<a, request[a]>>} ELSE pending
  BY DEF Register, limiter, gate, world, Id
<1>2. /\ CallOf(a) \in Calls /\ ~Barred(CallOf(a)) /\ a \in Mains /\ CallOf(a) \notin set.deny
      /\ set.frontend # "none"
      /\ slot[a].answer = "none"
  BY <1>1 DEF Placed, Covered, Answerable
<1>3. Sets(a, "waiting", CallOf(a))
  BY <1>1, <1>2, InSets DEF Steps
<1>4. /\ slot'[a].phase = "waiting" /\ slot'[a].call = CallOf(a) /\ slot'[a].answer = "none"
      /\ Moves(a)
  BY <1>2, <1>3 DEF Sets
<1>5. Alone(a) /\ Served'
  BY <1>1, <1>4 DEF Alone, Placed, Served
<1>6. Covered(a)' /\ Entitled(a)'
  BY <1>1, <1>2, <1>4 DEF Covered, Answerable, Entitled, Phase, CallOf, Barred
<1>7. \A n \in Nat : <<a, n>> \notin pending
  BY <1>1 DEF Placed, Owed
<1>8. Owed(a)'
  BY <1>1, <1>4, <1>7 DEF Owed, Phase, Waiting
<1>9. QED
  BY <1>5, <1>6, <1>8, OthersStayPlaced

LEMMA ExpireKeeps ==
    ASSUME StateOK, StateOK', Placed, NEW a \in Agents, Expire(a)
    PROVE  Placed'
<1>1. /\ Phase(a) = "waiting" /\ slot[a].answer = "none" /\ In(a, "expired", CallOf(a))
      /\ UNCHANGED <<set, request, pending, approved>>
  BY DEF Expire, Waiting
<1>2. /\ CallOf(a) \in Calls /\ ~Barred(CallOf(a)) /\ a \in Mains /\ CallOf(a) \notin set.deny
      /\ set.frontend # "none"
  BY <1>1 DEF Placed, Covered, Answerable
<1>3. Sets(a, "expired", CallOf(a))
  BY <1>1, <1>2, InSets DEF Steps
<1>4. /\ slot'[a].phase = "expired" /\ slot'[a].call = CallOf(a) /\ slot'[a].answer = "none"
      /\ Moves(a)
  BY <1>1, <1>3 DEF Sets
<1>5. Alone(a) /\ Served'
  BY <1>1, <1>4 DEF Alone, Placed, Served
<1>6. Covered(a)' /\ Entitled(a)'
  BY <1>1, <1>2, <1>4 DEF Covered, Answerable, Entitled, Phase, CallOf, Barred
<1>7. Owed(a)'
  BY <1>1, <1>4 DEF Placed, Owed, Phase, Waiting
<1>8. QED
  BY <1>5, <1>6, <1>7, OthersStayPlaced

LEMMA ReceiveKeeps ==
    ASSUME StateOK, StateOK', Placed, NEW a \in Agents, Receive(a)
    PROVE  Placed'
<1>1. /\ Phase(a) = "waiting" /\ slot[a].answer = "yes" /\ In(a, "approved", CallOf(a))
      /\ UNCHANGED <<set, request, pending, approved>>
  BY DEF Receive
<1>2. /\ CallOf(a) \in Calls /\ ~Barred(CallOf(a)) /\ a \in Mains /\ CallOf(a) \notin set.deny
      /\ set.frontend # "none"
      /\ CallOf(a) \in approved
  BY <1>1 DEF Placed, Covered, Answerable
<1>3. Sets(a, "approved", CallOf(a))
  BY <1>1, <1>2, InSets DEF Steps
<1>4. slot'[a].phase = "approved" /\ slot'[a].call = CallOf(a) /\ Moves(a)
  BY <1>1, <1>3 DEF Sets
<1>5. Alone(a) /\ Served'
  BY <1>1, <1>4 DEF Alone, Placed, Served
<1>6. Covered(a)' /\ Entitled(a)'
  BY <1>1, <1>2, <1>4 DEF Covered, Answerable, Entitled, Phase, CallOf, Barred
<1>7. \A n \in Nat : <<a, n>> \notin pending
  BY <1>1 DEF Placed, Owed
<1>8. Owed(a)'
  BY <1>1, <1>4, <1>7 DEF Owed, Phase, Waiting
<1>9. QED
  BY <1>5, <1>6, <1>8, OthersStayPlaced

(* An answer is sent to who still waits for it, and the entry is gone. *)
LEMMA AnswersKeeps ==
    ASSUME StateOK, StateOK', Placed, NEW a \in Agents, NEW yes \in BOOLEAN,
           Phase(a) = "waiting", Given(a, yes),
           UNCHANGED <<set, request>>, pending' = pending \ {<<a, request[a]>>}
    PROVE  Placed'
<1>1. /\ slot'[a].phase = "waiting" /\ slot'[a].call = CallOf(a) /\ Moves(a)
      /\ slot'[a].answer = IF yes THEN "yes" ELSE "no"
  BY GivenAnswers DEF Answers, Phase, CallOf
<1>2. approved' = IF yes THEN approved \cup {CallOf(a)} ELSE approved
  BY DEF Given
<1>3. /\ CallOf(a) \in Calls /\ ~Barred(CallOf(a)) /\ a \in Mains /\ CallOf(a) \notin set.deny
      /\ set.frontend # "none"
  BY DEF Placed, Covered, Answerable
<1>4. Alone(a) /\ Served'
  BY <1>1, <1>2 DEF Alone, Placed, Served
<1>5. Covered(a)' /\ Entitled(a)'
  BY <1>1, <1>2, <1>3 DEF Covered, Answerable, Entitled, Phase, CallOf, Barred
<1>6. \A n \in Nat : <<a, n>> \in pending => n = request[a]
  BY DEF Placed, Owed
<1>7. Owed(a)'
  BY <1>1, <1>6 DEF Owed, Phase, Waiting
<1>8. QED
  BY <1>4, <1>5, <1>7, OthersStayPlaced

(* An answer that comes when the timer has fired only removes the entry. *)
LEMMA PostKeeps ==
    ASSUME StateOK, StateOK', Placed, NEW a \in Mains, NEW yes \in BOOLEAN, Post(a, yes)
    PROVE  Placed'
<1>1. /\ <<a, request[a]>> \in pending /\ pending' = pending \ {<<a, request[a]>>}
      /\ Given(a, yes) /\ UNCHANGED <<set, request>> /\ a \in Agents /\ request[a] \in Nat
  BY DEF Post, Id, StateOK, Agents
<1>2. Phase(a) \in {"waiting", "expired"}
  BY <1>1 DEF Placed, Owed
<1>3. CASE Phase(a) = "waiting"
  BY <1>1, <1>3, AnswersKeeps
<1>4. CASE Phase(a) = "expired"
  <2>1. slot' = slot /\ approved' = approved
    BY <1>1, <1>4 DEF Given
  <2>2. Alone(a) /\ Served'
    BY <1>1, <2>1 DEF Alone, Moves, Placed, Served, StateOK
  <2>3. Covered(a)' /\ Entitled(a)'
    BY <1>1, <2>1 DEF Placed, Covered, Answerable, Entitled, Phase, CallOf, Barred
  <2>4. \A n \in Nat : <<a, n>> \in pending => n = request[a]
    BY <1>1 DEF Placed, Owed
  <2>5. Owed(a)'
    BY <1>1, <1>4, <2>1, <2>4 DEF Owed, Phase, Waiting
  <2>6. QED
    BY <1>1, <2>2, <2>3, <2>5, OthersStayPlaced
<1>5. QED
  BY <1>2, <1>3, <1>4

LEMMA PressKeeps ==
    ASSUME StateOK, StateOK', Placed, NEW a \in Mains, NEW yes \in BOOLEAN, Press(a, yes)
    PROVE  Placed'
<1>1. /\ set.frontend # "serve" /\ Phase(a) = "waiting" /\ Given(a, yes)
      /\ UNCHANGED <<set, request, pending>> /\ a \in Agents
  BY DEF Press, Waiting, Agents
<1>2. pending' = pending \ {<<a, request[a]>>}
  BY <1>1 DEF Placed, Served
<1>3. QED
  BY <1>1, <1>2, AnswersKeeps

-----------------------------------------------------------------------------
(* The policy. *)

(* A verdict is one of three, and what it lets run is forbidden by no rule *)
(* and asked about by none.                                                *)
LEMMA VerdictFacts ==
    ASSUME StateOK, NEW c \in Calls
    PROVE  /\ Verdict(c) \in {"allow", "deny", "ask"}
           /\ Verdict(c) = "allow" => c \notin set.deny /\ c \notin set.ask
           /\ Verdict(c) = "ask" => c \notin set.deny
<1>1. Fallback(c) \in {"allow", "deny", "ask"}
  <2>1. mode \in {"none", "plan", "accept_edits", "auto"}
    BY ApprovalsAssumption DEF StateOK
  <2>2. set.fallback \in {"allow", "ask", "deny"}
    BY DEF StateOK, Setting
  <2>3. QED
    BY <2>1, <2>2 DEF Fallback
<1>2. /\ c \in set.deny => Effective(c) = "deny"
      /\ c \in set.ask \ set.deny => Effective(c) = "ask"
      /\ Effective(c) \in {"allow", "deny", "ask"}
  BY <1>1 DEF Effective
<1>3. QED
  BY <1>2 DEF Verdict

(* The question is asked, answered by the configuration, or not asked. *)
LEMMA AskedKeeps ==
    ASSUME StateOK, StateOK', Placed, NEW a \in Agents, NEW c \in Calls, Asked(a, c),
           UNCHANGED <<set, pending>>, Phase(a) \in {"idle", "deciding"},
           ~Barred(c), c \notin set.deny
    PROVE  Placed'
<1>1. CASE /\ a \in Mains /\ set.frontend # "none" /\ In(a, "asking", c)
           /\ request' = [request EXCEPT ![a] = @ + 1] /\ approved' = approved
  <2>1. Sets(a, "asking", c)
    BY <1>1, InSets DEF Steps
  <2>2. \A b \in Agents : b # a => request'[b] = request[b]
    BY <1>1 DEF StateOK
  <2>3. QED
    BY <1>1, <2>1, <2>2, SetsKeeps
<1>2. CASE /\ a \in Mains /\ AllowsUnattended /\ In(a, "approved", c)
           /\ approved' = approved \cup {c} /\ request' = request
  <2>1. Sets(a, "approved", c)
    BY <1>2, InSets DEF Steps
  <2>2. QED
    BY <1>2, <2>1, UnattendedKeeps
<1>3. CASE Refused(a)
  <2>1. Clears(a) /\ UNCHANGED <<request, approved>>
    BY <1>3, RefusedClears DEF Refused
  <2>2. QED
    BY <2>1, ClearsPlainly
<1>4. QED
  BY <1>1, <1>2, <1>3 DEF Asked

-----------------------------------------------------------------------------
(* The cache. *)

(* An approval is stored: one entry goes when the cache is full. *)
LEMMA StoreFacts ==
    ASSUME StateOK, NEW a \in Agents, CallOf(a) \in Calls, IsFiniteSet(Cached),
           Cardinality(Cached) <= Capacity, Store(a)
    PROVE  /\ cache' \in [Calls -> EntryType]
           /\ \A c \in Calls : c # CallOf(a) => cache'[c] = cache[c] \/ cache'[c] = Unknown
           /\ cache'[CallOf(a)] = Entry(a)
           /\ IsFiniteSet(Cached') /\ Cardinality(Cached') <= Capacity
           /\ Cached' \subseteq Cached \cup {CallOf(a)}
<1> DEFINE c == CallOf(a)
           full == Cardinality(Cached) >= Capacity /\ c \notin Cached
<1>1. PICK lost \in IF full THEN Cached ELSE {c} :
        cache' = [cache EXCEPT ![lost] = Unknown, ![c] = Entry(a)]
  BY DEF Store
<1>2. Unknown \in EntryType /\ Entry(a) \in EntryType /\ Entry(a).known /\ ~Unknown.known
  <2>1. slot[a].era \in Nat /\ slot[a].session \in Nat
    BY ApprovalsAssumption DEF StateOK, SlotType
  <2>2. QED
    BY <2>1 DEF Unknown, Entry, EntryType
<1>3. lost \in Calls /\ c \in Calls /\ cache \in [Calls -> EntryType]
  BY DEF Cached, StateOK
<1> DEFINE mid == [cache EXCEPT ![lost] = Unknown]
<1>4. mid \in [Calls -> EntryType] /\ mid[lost] = Unknown
      /\ \A d \in Calls : d # lost => mid[d] = cache[d]
  BY <1>2, <1>3
<1>5. cache' = [mid EXCEPT ![c] = Entry(a)]
  BY <1>1
<1>0. lost \notin Cached => lost = c /\ ~(Cardinality(Cached) >= Capacity)
  BY <1>1
<1> HIDE DEF mid, c
<1>6. /\ cache' \in [Calls -> EntryType] /\ cache'[c] = Entry(a)
      /\ \A d \in Calls : d # c => cache'[d] = mid[d]
  BY <1>2, <1>3, <1>4, <1>5
<1>7. /\ \A d \in Calls : d # c => cache'[d] = cache[d] \/ cache'[d] = Unknown
      /\ \A d \in Calls : d # c /\ d # lost => cache'[d] = cache[d]
      /\ lost # c => cache'[lost] = Unknown
  BY <1>3, <1>4, <1>6
<1>8. Cached' = (Cached \ {lost}) \cup {c}
  <2>1. \A d \in Calls : d \in Cached' <=> d \in (Cached \ {lost}) \cup {c}
    <3> SUFFICES ASSUME NEW d \in Calls
                 PROVE  cache'[d].known <=> d \in (Cached \ {lost}) \cup {c}
      BY DEF Cached
    <3>1. CASE d = c
      BY <1>2, <1>6, <3>1
    <3>2. CASE d # c /\ d = lost
      BY <1>2, <1>7, <3>2
    <3>3. CASE d # c /\ d # lost
      BY <1>7, <3>3 DEF Cached
    <3>4. QED
      BY <3>1, <3>2, <3>3
  <2>2. Cached' \subseteq Calls /\ Cached \subseteq Calls
    BY DEF Cached
  <2>3. QED
    BY <1>3, <2>1, <2>2
<1>9. IsFiniteSet(Cached \ {lost}) /\ IsFiniteSet(Cached')
  BY <1>8, FS_RemoveElement, FS_AddElement
<1>10. Cardinality(Cached) \in Nat /\ Cardinality(Cached \ {lost}) \in Nat /\ Capacity \in Nat
  BY <1>9, FS_CardinalityType, ApprovalsAssumption
<1>11. Cardinality(Cached') <= Capacity
  <2>1. Cardinality(Cached') <= Cardinality(Cached \ {lost}) + 1
    BY <1>8, <1>9, <1>10, FS_AddElement
  <2>2. lost \in Cached => Cardinality(Cached \ {lost}) = Cardinality(Cached) - 1
    BY FS_RemoveElement
  <2>3. lost \notin Cached => /\ lost = c /\ c \notin Cached
                              /\ Cardinality(Cached \ {lost}) = Cardinality(Cached)
                              /\ Cardinality(Cached) < Capacity
    <3>1. lost \notin Cached => Cardinality(Cached \ {lost}) = Cardinality(Cached)
      BY FS_RemoveElement
    <3>2. QED
      BY <1>0, <1>10, <3>1
  <2>4. QED
    BY <1>9, <1>10, <2>1, <2>2, <2>3, FS_CardinalityType
<1>12. QED
  BY <1>6, <1>7, <1>8, <1>9, <1>11 DEF c

LEMMA CacheStays ==
    ASSUME cache' = cache, set' = set, CacheKept, approved \subseteq approved'
    PROVE  CacheKept'
BY DEF CacheKept, Cached, Answerable

LEMMA CurrentStays ==
    ASSUME cache' = cache, switching' = switching, era' = era, CacheIsCurrent
    PROVE  CacheIsCurrent'
BY DEF CacheIsCurrent, Cached

-----------------------------------------------------------------------------
(* The rate limiter. *)

LEMMA LeastExists ==
    ASSUME NEW S \in SUBSET Nat, S # {}
    PROVE  \E i \in S : \A j \in S : i <= j
<1>1. PICK i \in S : \A j \in S : <<j, i>> \notin OpToRel(<, Nat)
  BY WFMin, NatLessThanWellFounded, Zenon
<1>2. \A j \in S : ~(j < i)
  BY <1>1, Zenon DEF OpToRel
<1>3. QED
  BY <1>2

LEMMA Numbers ==
    ASSUME StateOK
    PROVE  /\ now \in Nat /\ Window \in Nat /\ Window >= 1 /\ set.limit \in Nat /\ MaxTime \in Nat
           /\ Len(window) \in Nat /\ DOMAIN window = 1..Len(window)
           /\ Len(passes) \in Nat /\ DOMAIN passes = 1..Len(passes)
           /\ \A i \in 1..Len(window) : window[i] \in 0..MaxTime
           /\ \A i \in 1..Len(passes) : passes[i] \in 0..MaxTime
<1>1. now \in Nat /\ Window \in Nat /\ Window >= 1 /\ set.limit \in Nat /\ MaxTime \in Nat
  BY ApprovalsAssumption DEF StateOK, Setting
<1>2. QED
  BY <1>1, LenProperties, ElementOfSeq DEF StateOK

(* The stale times are the first ones. *)
LEMMA StaleIsPrefix ==
    ASSUME StateOK
    PROVE  \E k \in 0..Len(window) :
             /\ Cardinality(Stale) = k
             /\ \A i \in 1..k : now - window[i] >= Window
             /\ Recent \in Seq(0..MaxTime) /\ Len(Recent) = Len(window) - k
             /\ \A i \in 1..Len(window) - k : Recent[i] = window[k + i]
<1> DEFINE n == Len(window)
           fresh == {i \in 1..n + 1 : i = n + 1 \/ i \notin Stale}
<1>1. n \in Nat /\ DOMAIN window = 1..n
  BY Numbers
<1>2. fresh \in SUBSET Nat /\ n + 1 \in fresh
  BY <1>1
<1>3. PICK m \in fresh : \A i \in fresh : m <= i
  BY <1>2, LeastExists
<1>4. m \in 1..n + 1 /\ m - 1 \in 0..n
  BY <1>1
<1>5. \A i \in 1..m - 1 : i \in Stale
  BY <1>1, <1>3, <1>4
<1>6. \A i \in Stale : i \in 1..m - 1
  <2> SUFFICES ASSUME NEW i \in Stale, i \notin 1..m - 1 PROVE FALSE
    OBVIOUS
  <2>1. i \in 1..n /\ i >= m /\ m \in 1..n
    BY <1>1, <1>4 DEF Stale
  <2>2. \A j \in 1..m : now - window[j] >= Window
    BY <1>4, <2>1 DEF Stale
  <2>3. m \in Stale
    BY <1>1, <2>1, <2>2 DEF Stale
  <2>4. QED
    BY <1>1, <1>3, <2>1, <2>3
<1>7. Stale = 1..m - 1
  BY <1>5, <1>6
<1>8. Cardinality(Stale) = m - 1
  BY <1>4, <1>7, FS_Interval
<1>9. \A i \in 1..m - 1 : now - window[i] >= Window
  <2> SUFFICES ASSUME NEW i \in 1..m - 1 PROVE now - window[i] >= Window
    OBVIOUS
  <2>1. i \in Stale /\ i \in 1..i
    BY <1>4, <1>5
  <2>2. QED
    BY <2>1 DEF Stale
<1>10. Recent = SubSeq(window, m, n)
  BY <1>4, <1>8 DEF Recent
<1>11. /\ Recent \in Seq(0..MaxTime) /\ Len(Recent) = n - (m - 1)
       /\ \A i \in 1..n - (m - 1) : Recent[i] = window[m - 1 + i]
  <2>1. \A i \in m..n : window[i] \in 0..MaxTime
    BY <1>1, <1>4, Numbers
  <2>2. m \in Int /\ n \in Int
    BY <1>1, <1>4
  <2>3. /\ Recent \in Seq(0..MaxTime) /\ Len(Recent) = IF m <= n THEN n - m + 1 ELSE 0
        /\ \A i \in 1..n - m + 1 : Recent[i] = window[m + i - 1]
    BY <1>10, <2>1, <2>2, SubSeqProperties
  <2>4. QED
    BY <1>1, <1>4, <2>3
<1>12. QED
  BY <1>4, <1>8, <1>9, <1>11

(* The calls that pass in the window that begins at t. *)
Within(t) == {i \in DOMAIN passes : t <= passes[i] /\ passes[i] < t + Window}

LEMMA WithinFinite ==
    ASSUME StateOK, NEW S \in SUBSET (1..Len(passes))
    PROVE  IsFiniteSet(S) /\ Cardinality(S) \in Nat
<1>1. IsFiniteSet(1..Len(passes))
  BY Numbers, FS_Interval
<1>2. IsFiniteSet(S)
  BY <1>1, FS_Subset
<1>3. QED
  BY <1>2, FS_CardinalityType

(* One more call passes, at this moment. *)
LEMMA OnePasses ==
    ASSUME StateOK, passes' = Append(passes, now), now' = now, TimesKept
    PROVE  /\ passes' \in Seq(0..MaxTime) /\ Len(passes') = Len(passes) + 1
           /\ \A i \in 1..Len(passes) : passes'[i] = passes[i]
           /\ passes'[Len(passes) + 1] = now
           /\ \A i \in 1..Len(passes') : passes'[i] <= now
           /\ \A t \in 0..MaxTime :
                Within(t)' = IF t <= now /\ now < t + Window
                             THEN Within(t) \cup {Len(passes) + 1} ELSE Within(t)
<1>1. Len(passes) \in Nat /\ DOMAIN passes = 1..Len(passes) /\ now \in 0..MaxTime
      /\ passes \in Seq(0..MaxTime) /\ now \in Nat /\ MaxTime \in Nat /\ Window \in Nat
  BY Numbers DEF StateOK
<1>2. /\ passes' \in Seq(0..MaxTime) /\ Len(passes') = Len(passes) + 1
      /\ \A i \in 1..Len(passes) : passes'[i] = passes[i]
      /\ passes'[Len(passes) + 1] = now
  BY <1>1, AppendProperties
<1>3. DOMAIN passes' = 1..Len(passes) + 1
  BY <1>2, LenProperties
<1>4. \A i \in 1..Len(passes) + 1 : i \in 1..Len(passes) \/ i = Len(passes) + 1
  BY <1>1
<1>5. \A i \in 1..Len(passes') : passes'[i] <= now
  BY <1>1, <1>2, <1>4 DEF TimesKept
<1>6. ASSUME NEW t \in 0..MaxTime
      PROVE  Within(t)' = IF t <= now /\ now < t + Window
                          THEN Within(t) \cup {Len(passes) + 1} ELSE Within(t)
  <2>1. \A i \in 1..Len(passes) : i \in Within(t)' <=> i \in Within(t)
    BY <1>1, <1>2, <1>3 DEF Within
  <2>2. Len(passes) + 1 \in Within(t)' <=> t <= now /\ now < t + Window
    BY <1>1, <1>2, <1>3 DEF Within
  <2>3. Within(t) \subseteq 1..Len(passes) /\ Within(t)' \subseteq 1..Len(passes) + 1
    BY <1>1, <1>3 DEF Within
  <2>4. Len(passes) + 1 \notin Within(t)
    BY <1>1 DEF Within
  <2>5. QED
    BY <1>4, <2>1, <2>2, <2>3, <2>4
<1>7. QED
  BY <1>2, <1>5, <1>6

(* rate_limited keeps its promise: a window that holds the new call holds,  *)
(* besides it, only calls whose times are kept.                            *)
LEMMA LimiterKeeps ==
    ASSUME StateOK, TimesKept, RateWindow, Limiter, now' = now, set' = set
    PROVE  /\ TimesKept' /\ RateWindow'
           /\ window' \in Seq(0..MaxTime) /\ passes' \in Seq(0..MaxTime)
<1>1. PICK k \in 0..Len(window) :
        /\ \A i \in 1..k : now - window[i] >= Window
        /\ Recent \in Seq(0..MaxTime) /\ Len(Recent) = Len(window) - k
        /\ \A i \in 1..Len(window) - k : Recent[i] = window[k + i]
  BY StaleIsPrefix
<1> DEFINE r == Len(Recent)
           p == Len(passes)
           gone == p - r
<1>2. /\ now \in Nat /\ Window \in Nat /\ Window >= 1 /\ set.limit \in Nat /\ MaxTime \in Nat
      /\ now \in 0..MaxTime
      /\ Len(window) \in Nat /\ p \in Nat /\ r \in Nat /\ k \in Nat
      /\ passes \in Seq(0..MaxTime) /\ window \in Seq(0..MaxTime)
      /\ DOMAIN passes = 1..p
      /\ \A i \in 1..p : passes[i] \in 0..MaxTime
  BY <1>1, Numbers DEF StateOK
<1>3. CASE set.limit = 0
  <2>1. window' = window /\ passes' = Append(passes, now)
    BY <1>3 DEF Limiter, OverLimit
  <2>2. TimesKept' /\ RateWindow'
    BY <1>3, <2>1, OnePasses DEF TimesKept, RateWindow
  <2>3. QED
    BY <1>2, <2>1, <2>2, OnePasses
<1>4. CASE set.limit # 0
  <2>1. /\ Len(window) <= p
        /\ \A i \in 1..Len(window) : window[i] = passes[(p - Len(window)) + i]
        /\ \A i \in 1..p - Len(window) : now - passes[i] >= Window
        /\ \A i \in 1..p : passes[i] <= now
    BY <1>4 DEF TimesKept, Offset
  <2>2. /\ gone \in Nat /\ r <= p /\ gone = (p - Len(window)) + k
        /\ r = Len(window) - k
    BY <1>1, <1>2, <2>1
  <2>3. \A i \in 1..r : Recent[i] = passes[gone + i]
    <3> SUFFICES ASSUME NEW i \in 1..r PROVE Recent[i] = passes[gone + i]
      OBVIOUS
    <3>1. Recent[i] = window[k + i]
      BY <1>1, <2>2
    <3>2. k + i \in 1..Len(window) /\ (p - Len(window)) + (k + i) = gone + i
      BY <1>1, <1>2, <2>1, <2>2
    <3>3. window[k + i] = passes[(p - Len(window)) + (k + i)]
      BY <2>1, <3>2
    <3>4. QED
      BY <3>1, <3>2, <3>3
  <2>4. \A i \in 1..gone : now - passes[i] >= Window
    <3> SUFFICES ASSUME NEW i \in 1..gone PROVE now - passes[i] >= Window
      OBVIOUS
    <3>1. CASE i \in 1..p - Len(window)
      BY <2>1, <3>1
    <3>2. CASE i \notin 1..p - Len(window)
      <4>1. PICK j \in 1..k : i = (p - Len(window)) + j
        <5>1. i - (p - Len(window)) \in 1..k
          BY <1>2, <2>1, <2>2, <3>2
        <5>2. i = (p - Len(window)) + (i - (p - Len(window)))
          BY <1>2, <2>1, <2>2
        <5>3. QED
          BY <5>1, <5>2
      <4>2. j \in 1..Len(window) /\ window[j] = passes[i]
        <5>1. j \in 1..Len(window)
          BY <1>1, <1>2
        <5>2. QED
          BY <2>1, <4>1, <5>1
      <4>3. QED
        BY <1>1, <4>1, <4>2
    <3>3. QED
      BY <3>1, <3>2
  <2>5. CASE OverLimit
    <3>1. window' = Recent /\ passes' = passes
      BY <1>4, <2>5 DEF Limiter
    <3>2. RateWindow'
      BY <3>1 DEF RateWindow
    <3>3. TimesKept'
      <4> HIDE DEF gone
      <4>1. Offset' = gone
        BY <3>1 DEF Offset, gone
      <4>2. QED
        BY <2>1, <2>2, <2>3, <2>4, <3>1, <4>1 DEF TimesKept
    <3>4. QED
      BY <1>1, <1>2, <3>1, <3>2, <3>3
  <2>6. CASE ~OverLimit
    <3>1. window' = Append(Recent, now) /\ passes' = Append(passes, now) /\ r < set.limit
      <4>1. ~(r >= set.limit)
        BY <1>4, <2>6 DEF OverLimit
      <4>2. QED
        BY <1>2, <1>4, <2>6, <4>1 DEF Limiter
    <3>2. /\ window' \in Seq(0..MaxTime) /\ Len(window') = r + 1
          /\ \A i \in 1..r : window'[i] = Recent[i]
          /\ window'[r + 1] = now
      BY <1>1, <1>2, <3>1, AppendProperties
    <3>3. /\ passes' \in Seq(0..MaxTime) /\ Len(passes') = p + 1
          /\ \A i \in 1..p : passes'[i] = passes[i]
          /\ passes'[p + 1] = now
          /\ \A i \in 1..Len(passes') : passes'[i] <= now
          /\ \A t \in 0..MaxTime :
               Within(t)' = IF t <= now /\ now < t + Window
                            THEN Within(t) \cup {p + 1} ELSE Within(t)
      BY <3>1, OnePasses
    <3>4. TimesKept'
      <4>1. Offset' = gone
        BY <1>2, <2>2, <3>2, <3>3 DEF Offset
      <4> HIDE DEF gone
      <4>2. \A i \in 1..r + 1 : i \in 1..r \/ i = r + 1
        BY <1>2
      <4>3. gone + (r + 1) = p + 1 /\ \A i \in 1..r : gone + i \in 1..p
        BY <1>2, <2>2 DEF gone
      <4>4. \A i \in 1..r + 1 : window'[i] = passes'[gone + i]
        BY <2>3, <3>2, <3>3, <4>2, <4>3
      <4>5. \A i \in 1..gone : i \in 1..p
        BY <1>2, <2>2 DEF gone
      <4>6. \A i \in 1..gone : now - passes'[i] >= Window
        BY <2>4, <3>3, <4>5
      <4>7. r + 1 <= p + 1
        BY <1>2, <2>2
      <4>8. QED
        BY <3>2, <3>3, <4>1, <4>4, <4>6, <4>7 DEF TimesKept
    <3>5. RateWindow'
      <4> SUFFICES ASSUME NEW t \in 0..MaxTime PROVE Cardinality(Within(t)') <= set.limit
        BY DEF RateWindow, Within
      <4>1. Within(t) \in SUBSET (1..p) /\ IsFiniteSet(Within(t))
            /\ Cardinality(Within(t)) \in Nat
        BY <1>2, WithinFinite DEF Within
      <4>2. CASE ~(t <= now /\ now < t + Window)
        <5>1. Cardinality(Within(t)) <= set.limit
          BY <1>4 DEF RateWindow, Within
        <5>2. QED
          BY <3>3, <4>2, <5>1
      <4>3. CASE t <= now /\ now < t + Window
        <5>1. Within(t) \subseteq gone + 1..p
          <6> SUFFICES ASSUME NEW i \in Within(t) PROVE i \in gone + 1..p
            OBVIOUS
          <6>1. i \in 1..p /\ t <= passes[i] /\ passes[i] \in Nat
            BY <1>2 DEF Within
          <6>2. i \notin 1..gone
            BY <1>2, <2>4, <4>3, <6>1
          <6>3. QED
            BY <1>2, <2>2, <6>1, <6>2
        <5>2. IsFiniteSet(gone + 1..p) /\ Cardinality(gone + 1..p) = r
          <6> HIDE DEF gone
          <6>1. gone + 1 \in Int /\ p \in Int
            BY <1>2, <2>2
          <6>2. /\ IsFiniteSet(gone + 1..p)
                /\ Cardinality(gone + 1..p) = IF gone + 1 > p THEN 0 ELSE p - (gone + 1) + 1
            BY <6>1, FS_Interval
          <6>3. QED
            BY <1>2, <2>2, <6>2 DEF gone
        <5>3. Cardinality(Within(t)) <= r
          BY <5>1, <5>2, FS_Subset
        <5>4. Within(t)' = Within(t) \cup {p + 1} /\ IsFiniteSet(Within(t) \cup {p + 1})
          BY <3>3, <4>1, <4>3, FS_AddElement
        <5>5. Cardinality(Within(t) \cup {p + 1}) =
                IF p + 1 \in Within(t) THEN Cardinality(Within(t)) ELSE Cardinality(Within(t)) + 1
          BY <4>1, FS_AddElement
        <5>6. Cardinality(Within(t)') <= Cardinality(Within(t)) + 1
          BY <4>1, <5>4, <5>5
        <5>7. Cardinality(Within(t)') \in Nat
          BY <5>4, FS_CardinalityType
        <5>8. QED
          BY <1>2, <3>1, <4>1, <5>3, <5>6, <5>7
      <4>4. QED
        BY <4>2, <4>3
    <3>6. QED
      BY <3>2, <3>3, <3>4, <3>5
  <2>7. QED
    BY <2>5, <2>6
<1>5. QED
  BY <1>3, <1>4

LEMMA TimesStay ==
    ASSUME StateOK, StateOK', TimesKept, RateWindow, UNCHANGED <<set, window, passes>>,
           now' >= now
    PROVE  TimesKept' /\ RateWindow'
<1>1. RateWindow'
  BY DEF RateWindow
<1>2. /\ now \in Nat /\ now' \in Nat /\ Window \in Nat /\ Len(passes) \in Nat /\ Len(window) \in Nat
      /\ \A i \in 1..Len(passes) : passes[i] \in Nat
  BY Numbers DEF StateOK
<1>3. Offset' = Offset /\ Offset = Len(passes) - Len(window)
  BY DEF Offset
<1>4. \A i \in 1..Len(passes) : passes[i] <= now'
  BY <1>2 DEF TimesKept
<1>5. set.limit # 0 => \A i \in 1..Offset : i \in 1..Len(passes) /\ now' - passes[i] >= Window
  <2> SUFFICES ASSUME set.limit # 0, NEW i \in 1..Offset
               PROVE  i \in 1..Len(passes) /\ now' - passes[i] >= Window
    OBVIOUS
  <2>1. Offset \in Int /\ Offset <= Len(passes) /\ now - passes[i] >= Window
    BY <1>2, <1>3 DEF TimesKept
  <2>2. i \in 1..Len(passes)
    BY <1>2, <2>1
  <2>3. QED
    BY <1>2, <2>1, <2>2
<1>6. QED
  BY <1>1, <1>3, <1>4, <1>5 DEF TimesKept

-----------------------------------------------------------------------------
(* The steps. *)

LEMMA GateInvariantInit == Init => GateInvariant
<1> SUFFICES ASSUME Init PROVE GateInvariant
  OBVIOUS
<1>1. Len(window) = 0 /\ Len(passes) = 0 /\ window \in Seq(0..MaxTime)
      /\ passes \in Seq(0..MaxTime) /\ passes = <<>> /\ DOMAIN passes = {}
  BY EmptySeq DEF Init
<1>2. Cached = {}
  BY DEF Init, Cached, Unknown
<1>3. StateOK
  <2>1. cache \in [Calls -> EntryType]
    BY DEF Init, Unknown, EntryType
  <2>2. slot \in [Agents -> SlotType]
    BY IdleIsSlot DEF Init
  <2>3. now \in 0..MaxTime /\ era \in 0..MaxSwitches /\ session \in 0..MaxSwitches
    BY ApprovalsAssumption DEF Init
  <2>4. set \in Setting
    BY ApprovalsAssumption DEF Init
  <2>5. {trusted, switching, cancelled} \subseteq BOOLEAN /\ mode \in Modes
    BY DEF Init
  <2>6. request \in [Agents -> Nat] /\ pending \subseteq Mains \X Nat /\ approved \subseteq Calls
    BY DEF Init
  <2>7. QED
    BY <1>1, <2>1, <2>2, <2>3, <2>4, <2>5, <2>6 DEF StateOK
<1>4. Placed
  <2> SUFFICES ASSUME NEW a \in Agents PROVE Covered(a) /\ Entitled(a) /\ Owed(a)
    BY DEF Placed, Served, Init
  <2>1. slot[a].phase = "idle" /\ slot[a].answer = "none" /\ pending = {}
    BY IdleIsSlot DEF Init
  <2>2. QED
    BY <2>1 DEF Covered, Entitled, Owed, Phase, Waiting
<1>5. CacheKept
  <2>1. 0 <= Capacity
    BY ApprovalsAssumption
  <2>2. QED
    BY <1>2, <2>1, FS_EmptySet DEF CacheKept
<1>6. CacheIsCurrent
  BY <1>2 DEF CacheIsCurrent
<1>7. TimesKept
  BY <1>1 DEF TimesKept, Offset
<1>8. RateWindow
  <2> SUFFICES ASSUME NEW t \in 0..MaxTime
               PROVE  Cardinality({i \in DOMAIN passes :
                                     t <= passes[i] /\ passes[i] < t + Window}) <= set.limit
    BY DEF RateWindow
  <2>1. {i \in DOMAIN passes : t <= passes[i] /\ passes[i] < t + Window} = {}
    BY <1>1
  <2>2. set.limit \in Nat
    BY <1>3, Numbers
  <2>3. QED
    BY <2>1, <2>2, FS_EmptySet
<1>9. QED
  BY <1>3, <1>4, <1>5, <1>6, <1>7, <1>8 DEF GateInvariant

(* What only moves agents and entries. *)
LEMMA LocalKeeps ==
    ASSUME GateInvariant, StateOK', Placed', approved \subseteq approved',
           UNCHANGED <<set, cache, switching, era, window, passes, now>>
    PROVE  GateInvariant'
<1> USE DEF GateInvariant
<1>1. CacheKept' /\ CacheIsCurrent'
  BY CacheStays, CurrentStays
<1>2. now' >= now
  BY Numbers
<1>3. TimesKept' /\ RateWindow'
  BY <1>2, TimesStay
<1>4. QED
  BY <1>1, <1>3

(* What leaves the agents where they are. *)
LEMMA PlacedStays ==
    ASSUME Placed, UNCHANGED <<set, slot, request, pending, approved>>
    PROVE  Placed'
BY DEF Placed, Served, Covered, Entitled, Owed, Answerable, Phase, CallOf, Barred, Waiting

(* The types a step leaves alone. *)
LEMMA SlotTyped ==
    ASSUME StateOK, NEW a \in Agents, Moves(a),
           request' \in [Agents -> Nat], pending' \subseteq Mains \X Nat, approved' \subseteq Calls,
           UNCHANGED <<set, gate, limiter, world>>
    PROVE  StateOK'
BY DEF StateOK, Moves, gate, limiter, world

LEMMA AskedTyped ==
    ASSUME StateOK, NEW a \in Agents, NEW c \in Calls, Asked(a, c)
    PROVE  /\ Moves(a) /\ request' \in [Agents -> Nat]
           /\ approved \subseteq approved' /\ approved' \subseteq Calls
<1>1. request \in [Agents -> Nat] /\ approved \subseteq Calls
  BY DEF StateOK
<1>2. CASE In(a, "asking", c) /\ request' = [request EXCEPT ![a] = @ + 1] /\ approved' = approved
  BY <1>1, <1>2, InSets DEF Sets, Steps
<1>3. CASE In(a, "approved", c) /\ request' = request /\ approved' = approved \cup {c}
  BY <1>1, <1>3, InSets DEF Sets, Steps
<1>4. CASE Refused(a)
  BY <1>1, <1>4, RefusedClears DEF Refused, Clears
<1>5. QED
  BY <1>2, <1>3, <1>4 DEF Asked

LEMMA DecideKeeps ==
    ASSUME GateInvariant, NEW a \in Agents, Decide(a)
    PROVE  GateInvariant'
<1> USE DEF GateInvariant
<1> DEFINE c == CallOf(a)
<1>1. /\ Phase(a) = "deciding"
      /\ UNCHANGED <<set, mode, trusted, switching, cache, window, passes, pending, now,
                     cancelled, era, session>>
      /\ UNCHANGED <<gate, limiter, world>>
  BY DEF Decide, gate, limiter, world
<1>2. c \in Calls /\ ~Barred(c)
  BY <1>1 DEF Placed, Covered
<1>3. request \in [Agents -> Nat] /\ pending \subseteq Mains \X Nat /\ approved \subseteq Calls
  BY DEF StateOK
<1> HIDE DEF c
<1>4. CASE Verdict(c) = "allow" /\ Allowed(a, c, "policy")
  <2>1. Grants(a, c, "policy") /\ UNCHANGED <<request, approved>>
    BY <1>2, <1>4, AllowedGrants DEF Allowed
  <2>2. StateOK'
    BY <1>1, <1>3, <2>1, SlotTyped DEF Grants
  <2>3. c \notin set.deny /\ c \notin set.ask
    BY <1>2, <1>4, VerdictFacts
  <2>4. Placed'
    BY <1>1, <1>2, <2>1, <2>2, <2>3, GrantsKeeps
  <2>5. QED
    BY <1>1, <2>1, <2>2, <2>4, LocalKeeps
<1>5. CASE Verdict(c) = "deny" /\ Refused(a)
  <2>1. Clears(a) /\ UNCHANGED <<request, approved>>
    BY <1>5, RefusedClears DEF Refused
  <2>2. StateOK'
    BY <1>1, <1>3, <2>1, SlotTyped DEF Clears
  <2>3. Placed'
    BY <1>1, <2>1, <2>2, ClearsPlainly
  <2>4. QED
    BY <1>1, <2>1, <2>2, <2>3, LocalKeeps
<1>6. CASE Verdict(c) = "ask" /\ Asked(a, c)
  <2>1. /\ Moves(a) /\ request' \in [Agents -> Nat]
        /\ approved \subseteq approved' /\ approved' \subseteq Calls
    BY <1>2, <1>6, AskedTyped
  <2>2. StateOK'
    BY <1>1, <1>3, <2>1, SlotTyped
  <2>3. c \notin set.deny
    BY <1>2, <1>6, VerdictFacts
  <2>4. Placed'
    BY <1>1, <1>2, <1>6, <2>2, <2>3, AskedKeeps
  <2>5. QED
    BY <1>1, <2>1, <2>2, <2>4, LocalKeeps
<1>7. Verdict(c) \in {"allow", "deny", "ask"}
  BY <1>2, VerdictFacts
<1>8. QED
  BY <1>4, <1>5, <1>6, <1>7 DEF Decide, c

(* The agent runs its call, or gives its request up. *)
LEMMA EndsKeeps ==
    ASSUME GateInvariant, NEW a \in Agents, Execute(a) \/ Leave(a)
    PROVE  GateInvariant'
<1> USE DEF GateInvariant
<1>1. /\ slot' = [slot EXCEPT ![a] = Idle]
      /\ UNCHANGED <<set, gate, limiter, request, approved, world>>
      /\ \/ pending' = pending \ {<<a, request[a]>>}
         \/ pending' = pending /\ Phase(a) = "allowed"
  BY DEF Execute, Leave, Id
<1>2. Clears(a)
  BY <1>1, RefusedClears
<1>3. StateOK'
  BY <1>1, <1>2, SlotTyped DEF Clears, StateOK
<1>4. Placed'
  BY <1>1, <1>2, <1>3, ClearsKeeps, ClearsPlainly
<1>5. QED
  BY <1>1, <1>3, <1>4, LocalKeeps DEF gate, limiter, world

LEMMA RequestStepKeeps ==
    ASSUME GateInvariant, NEW a \in Agents, Register(a) \/ Expire(a) \/ Receive(a)
    PROVE  GateInvariant'
<1> USE DEF GateInvariant
<1>1. CallOf(a) \in Calls \cup {"none"}
  BY DEF StateOK, SlotType, CallOf
<1>2. \E where \in Steps : In(a, where, CallOf(a))
  BY DEF Register, Expire, Receive, Steps
<1>3. Moves(a)
  BY <1>1, <1>2, InSets DEF Sets
<1>4. /\ UNCHANGED <<set, gate, limiter, request, approved, world>>
      /\ pending' = pending \/ (Phase(a) = "asking" /\ pending' \subseteq pending \cup {<<a, request[a]>>})
  BY DEF Register, Expire, Receive, Id
<1>5. Phase(a) = "asking" => <<a, request[a]>> \in Mains \X Nat
  BY DEF Placed, Covered, StateOK
<1>6. StateOK'
  BY <1>3, <1>4, <1>5, SlotTyped DEF StateOK
<1>7. Placed'
  BY <1>6, RegisterKeeps, ExpireKeeps, ReceiveKeeps
<1>8. QED
  BY <1>4, <1>6, <1>7, LocalKeeps DEF gate, limiter, world

LEMMA AnswerKeeps ==
    ASSUME GateInvariant, NEW a \in Mains, NEW yes \in BOOLEAN, Post(a, yes) \/ Press(a, yes)
    PROVE  GateInvariant'
<1> USE DEF GateInvariant
<1>1. /\ Given(a, yes) /\ UNCHANGED <<set, gate, limiter, request, world>>
      /\ pending' \subseteq pending /\ a \in Agents
  BY DEF Post, Press, Agents
<1>2. Moves(a) /\ approved \subseteq approved' /\ approved' \subseteq Calls
  <2>1. CASE Phase(a) = "waiting"
    <3>1. CallOf(a) \in Calls
      BY <1>1, <2>1 DEF Placed, Covered
    <3>2. QED
      BY <1>1, <2>1, <3>1, GivenAnswers DEF Answers, Given, StateOK
  <2>2. CASE Phase(a) # "waiting"
    BY <1>1, <2>2 DEF Given, Moves, StateOK
  <2>3. QED
    BY <2>1, <2>2
<1>3. StateOK'
  BY <1>1, <1>2, SlotTyped DEF StateOK
<1>4. Placed'
  BY <1>3, PostKeeps, PressKeeps
<1>5. QED
  BY <1>1, <1>2, <1>3, <1>4, LocalKeeps DEF gate, limiter, world

(* What the cache knows makes the answer, as far as the rules let it. *)
LEMMA LookupKeeps ==
    ASSUME StateOK, Placed, CacheKept, NEW a \in Agents, NEW c \in Calls, Lookup(a, c),
           UNCHANGED <<set, pending>>, Phase(a) = "idle", ~Barred(c)
    PROVE  /\ Moves(a) /\ request' \in [Agents -> Nat]
           /\ approved \subseteq approved' /\ approved' \subseteq Calls
           /\ StateOK' => Placed'
<1>1. request \in [Agents -> Nat] /\ approved \subseteq Calls
  BY DEF StateOK
<1>2. CASE In(a, "deciding", c) /\ UNCHANGED <<request, approved>>
  <2>1. Sets(a, "deciding", c)
    BY <1>2, InSets DEF Steps
  <2>2. QED
    BY <1>1, <1>2, <2>1, SetsKeeps DEF Sets
<1>3. CASE Refused(a)
  <2>1. Clears(a) /\ UNCHANGED <<request, approved>>
    BY <1>3, RefusedClears DEF Refused
  <2>2. QED
    BY <1>1, <2>1, ClearsPlainly DEF Clears
<1>4. CASE c \notin set.deny /\ Asked(a, c)
  BY <1>4, AskedTyped, AskedKeeps
<1>5. CASE c \in Cached \ (set.ask \cup set.deny) /\ Allowed(a, c, "cache")
  <2>1. Grants(a, c, "cache") /\ UNCHANGED <<request, approved>>
    BY <1>5, AllowedGrants DEF Allowed
  <2>2. c \in approved /\ Answerable
    BY <1>5 DEF CacheKept
  <2>3. QED
    BY <1>1, <1>5, <2>1, <2>2, GrantsKeeps DEF Grants
<1>6. QED
  BY <1>2, <1>3, <1>4, <1>5 DEF Lookup

LEMMA CheckKeeps ==
    ASSUME GateInvariant, NEW a \in Agents, NEW c \in Calls, Check(a, c)
    PROVE  GateInvariant'
<1> USE DEF GateInvariant
<1>1. /\ Phase(a) = "idle" /\ Limiter
      /\ UNCHANGED <<set, mode, trusted, switching, cache, pending, now, cancelled, era,
                     session>>
  BY DEF Check, gate, world
<1>2. /\ TimesKept' /\ RateWindow'
      /\ window' \in Seq(0..MaxTime) /\ passes' \in Seq(0..MaxTime)
  BY <1>1, LimiterKeeps
<1>3. /\ Moves(a) /\ request' \in [Agents -> Nat]
      /\ approved \subseteq approved' /\ approved' \subseteq Calls
      /\ StateOK' => Placed'
  <2>1. CASE Refused(a)
    <3>1. Clears(a) /\ UNCHANGED <<request, approved>>
      BY <2>1, RefusedClears DEF Refused
    <3>2. QED
      BY <1>1, <3>1, ClearsPlainly DEF Clears, StateOK
  <2>2. CASE ~Barred(c) /\ Lookup(a, c)
    BY <1>1, <2>2, LookupKeeps
  <2>3. QED
    BY <2>1, <2>2 DEF Check
<1>4. StateOK'
  BY <1>1, <1>2, <1>3 DEF StateOK, Moves
<1>5. CacheKept' /\ CacheIsCurrent'
  BY <1>1, <1>3, CacheStays, CurrentStays
<1>6. QED
  BY <1>2, <1>3, <1>4, <1>5

LEMMA ConcludeKeeps ==
    ASSUME GateInvariant, NEW a \in Agents, Conclude(a)
    PROVE  GateInvariant'
<1> USE DEF GateInvariant
<1> DEFINE c == CallOf(a)
<1>1. /\ Phase(a) = "approved" /\ Store(a) /\ Allowed(a, c, Approver)
      /\ UNCHANGED <<set, mode, trusted, switching, window, passes, pending, approved, now,
                     cancelled, era, session>>
  BY DEF Conclude, Allowed, limiter, world
<1>2. c \in Calls /\ ~Barred(c) /\ c \notin set.deny /\ c \in approved /\ Answerable
  BY <1>1 DEF Placed, Covered
<1>3. /\ cache' \in [Calls -> EntryType]
      /\ \A d \in Calls : d # c => cache'[d] = cache[d] \/ cache'[d] = Unknown
      /\ cache'[c] = Entry(a)
      /\ IsFiniteSet(Cached') /\ Cardinality(Cached') <= Capacity
      /\ Cached' \subseteq Cached \cup {c}
  BY <1>1, <1>2, StoreFacts DEF CacheKept
<1> HIDE DEF c
<1>4. PICK why \in {"person", "unattended"} : why = Approver
  BY DEF Approver
<1>41. Grants(a, c, why) /\ request' = request
  BY <1>1, <1>2, <1>4, AllowedGrants
<1>42. /\ why = "person" => set.frontend # "none"
       /\ why = "unattended" => set.frontend = "none" /\ set.unattended = "allow"
  BY <1>2, <1>4 DEF Approver, Answerable
<1>5. StateOK'
  BY <1>1, <1>3, <1>41 DEF StateOK, Grants, Moves
<1>6. Placed'
  BY <1>1, <1>2, <1>41, <1>42, <1>5, GrantsKeeps
<1>7. CacheKept'
  BY <1>1, <1>2, <1>3 DEF CacheKept, Answerable
<1>8. CacheIsCurrent'
  <2> SUFFICES ASSUME ~switching', NEW d \in Cached'
               PROVE  cache'[d].era = era' \/ cache'[d].late = TRUE
    BY DEF CacheIsCurrent
  <2>1. d \in Calls /\ cache'[d].known /\ ~switching /\ era' = era
    BY <1>1 DEF Cached
  <2>2. CASE d = c
    <3>1. cache'[d] = Entry(a)
      BY <1>3, <2>2
    <3>2. Entry(a).era = slot[a].era /\ Entry(a).late = (slot[a].era # era)
      BY DEF Entry
    <3>3. QED
      BY <2>1, <3>1, <3>2
  <2>3. CASE d # c
    <3>1. cache'[d] # Unknown
      BY <2>1 DEF Unknown
    <3>2. cache'[d] = cache[d] /\ d \in Cached
      BY <1>3, <2>1, <2>3, <3>1 DEF Cached
    <3>3. cache[d].era = era \/ cache[d].late
      BY <2>1, <3>2 DEF CacheIsCurrent
    <3>4. cache[d].late \in BOOLEAN
      BY <2>1 DEF StateOK, EntryType
    <3>5. QED
      BY <2>1, <3>2, <3>3, <3>4
  <2>4. QED
    BY <2>2, <2>3
<1>9. now' >= now
  BY <1>1, Numbers
<1>10. TimesKept' /\ RateWindow'
  BY <1>1, <1>5, <1>9, TimesStay
<1>11. QED
  BY <1>5, <1>6, <1>7, <1>8, <1>10

(* What happens around the calls. *)
LEMMA AroundKeeps ==
    ASSUME GateInvariant, UNCHANGED <<set, slot, request, pending, approved, window, passes>>,
           StateOK', now' >= now, CacheKept', CacheIsCurrent'
    PROVE  GateInvariant'
<1> USE DEF GateInvariant
<1>1. Placed'
  BY PlacedStays
<1>2. TimesKept' /\ RateWindow'
  BY TimesStay
<1>3. QED
  BY <1>1, <1>2

LEMMA SwitchKeeps ==
    ASSUME GateInvariant, NEW m \in Modes \ {"none"}, NEW t \in BOOLEAN, Switch(m, t)
    PROVE  GateInvariant'
<1>1. /\ mode' = m /\ trusted' = t /\ switching' = TRUE /\ era' = era + 1
      /\ era + session < MaxSwitches
      /\ UNCHANGED <<set, cache, window, passes, slot, request, pending, approved, now, cancelled,
                     session>>
  BY DEF Switch, limiter
<1>2. era' \in 0..MaxSwitches
  <2>1. era \in Nat /\ session \in Nat /\ MaxSwitches \in Nat
    BY ApprovalsAssumption DEF GateInvariant, StateOK
  <2>2. QED
    BY <1>1, <2>1
<1>3. StateOK'
  BY <1>1, <1>2 DEF GateInvariant, StateOK
<1>4. CacheKept' /\ CacheIsCurrent'
  BY <1>1, CacheStays DEF GateInvariant, CacheIsCurrent
<1>5. now' >= now
  BY <1>1, Numbers DEF GateInvariant
<1>6. QED
  BY <1>1, <1>3, <1>4, <1>5, AroundKeeps

LEMMA ClearKeeps ==
    ASSUME GateInvariant, ClearCache
    PROVE  GateInvariant'
<1>1. /\ switching' = FALSE /\ cache' = [c \in Calls |-> Unknown]
      /\ UNCHANGED <<set, mode, trusted, window, passes, slot, request, pending, approved, now,
                     cancelled, era, session>>
  BY DEF ClearCache, limiter, world
<1>2. Cached' = {}
  BY <1>1 DEF Cached, Unknown
<1>3. StateOK'
  BY <1>1 DEF GateInvariant, StateOK, Unknown, EntryType
<1>4. CacheKept'
  <2>1. 0 <= Capacity
    BY ApprovalsAssumption
  <2>2. QED
    BY <1>2, <2>1, FS_EmptySet DEF CacheKept
<1>5. CacheIsCurrent'
  BY <1>2 DEF CacheIsCurrent
<1>6. now' >= now
  BY <1>1, Numbers DEF GateInvariant
<1>7. QED
  BY <1>1, <1>3, <1>4, <1>5, <1>6, AroundKeeps

(* A new session, the cancellation, the clock, and nothing at all. *)
LEMMA WorldKeeps ==
    ASSUME GateInvariant, NewSession \/ Cancel \/ Tick \/ UNCHANGED vars
    PROVE  GateInvariant'
<1>1. /\ UNCHANGED <<set, mode, trusted, switching, cache, window, passes, slot, request, pending,
                     approved, era>>
      /\ cancelled' \in BOOLEAN
      /\ session' \in 0..MaxSwitches
      /\ now' \in 0..MaxTime /\ now' >= now
  <2>1. /\ era \in Nat /\ session \in Nat /\ MaxSwitches \in Nat /\ now \in Nat /\ MaxTime \in Nat
        /\ session \in 0..MaxSwitches /\ now \in 0..MaxTime /\ cancelled \in BOOLEAN
    BY ApprovalsAssumption DEF GateInvariant, StateOK
  <2>2. CASE NewSession
    BY <2>1, <2>2 DEF NewSession, gate, limiter
  <2>3. CASE Cancel
    BY <2>1, <2>3 DEF Cancel, gate, limiter
  <2>4. CASE Tick
    BY <2>1, <2>4 DEF Tick, gate, limiter
  <2>5. CASE UNCHANGED vars
    BY <2>1, <2>5 DEF vars, gate, limiter, world
  <2>6. QED
    BY <2>2, <2>3, <2>4, <2>5
<1>2. StateOK'
  BY <1>1 DEF GateInvariant, StateOK
<1>3. CacheKept' /\ CacheIsCurrent'
  BY <1>1, CacheStays, CurrentStays DEF GateInvariant
<1>4. QED
  BY <1>1, <1>2, <1>3, AroundKeeps

LEMMA GateInvariantStep == GateInvariant /\ [Next]_vars => GateInvariant'
<1> SUFFICES ASSUME GateInvariant, [Next]_vars PROVE GateInvariant'
  OBVIOUS
<1>1. ASSUME NEW a \in Agents, NEW c \in Calls, Check(a, c) PROVE GateInvariant'
  BY <1>1, CheckKeeps
<1>2. ASSUME NEW a \in Agents, Work(a) PROVE GateInvariant'
  BY <1>2, DecideKeeps, EndsKeeps, RequestStepKeeps, ConcludeKeeps DEF Work
<1>3. ASSUME NEW a \in Mains, NEW yes \in BOOLEAN, Post(a, yes) \/ Press(a, yes)
      PROVE  GateInvariant'
  BY <1>3, AnswerKeeps
<1>4. ASSUME NEW m \in Modes \ {"none"}, NEW t \in BOOLEAN, Switch(m, t) PROVE GateInvariant'
  BY <1>4, SwitchKeeps
<1>5. CASE ClearCache
  BY <1>5, ClearKeeps
<1>6. CASE NewSession \/ Cancel \/ Tick \/ UNCHANGED vars
  BY <1>6, WorldKeeps
<1>7. QED
  BY <1>1, <1>2, <1>3, <1>4, <1>5, <1>6 DEF Next

LEMMA GateInvariantAlways == Spec => []GateInvariant
  BY GateInvariantInit, GateInvariantStep, PTL DEF Spec

-----------------------------------------------------------------------------
(* What follows from it. *)

LEMMA CoverFollows == GateInvariant => RunsAreEntitled
<1> SUFFICES ASSUME GateInvariant PROVE RunsAreCovered
  BY DEF RunsAreEntitled, GateInvariant
<1> SUFFICES ASSUME NEW a \in Agents, Phase(a) = "allowed"
             PROVE  /\ ~Barred(CallOf(a)) /\ CallOf(a) \notin set.deny
                    /\ CallOf(a) \in set.ask => slot[a].how \in {"person", "unattended"}
                    /\ slot[a].how \in {"cache", "person", "unattended"} => CallOf(a) \in approved
                    /\ slot[a].how = "person" => set.frontend # "none"
                    /\ slot[a].how = "unattended" => set.frontend = "none" /\ set.unattended = "allow"
                    /\ slot[a].how = "cache" => Answerable
  BY DEF RunsAreCovered, Answerable, AllowsUnattended
<1>1. QED
  BY DEF GateInvariant, Placed, Covered, Entitled

(* What is about to run was allowed by the rules, by a person or, where    *)
(* nobody can be asked, by the configuration, whatever was cached,         *)
(* answered or switched meanwhile; and a switch leaves no approval in the  *)
(* cache but one that was still on its way to it.                          *)
THEOREM RunsAreAlwaysEntitled == Spec => []RunsAreEntitled
  BY GateInvariantAlways, CoverFollows, PTL

LEMMA BoundsFollow == GateInvariant => WaitsAreBounded
<1> SUFFICES ASSUME GateInvariant PROVE TypeOK /\ PendingHasWaiter /\ RateWindow
  BY DEF WaitsAreBounded
<1>1. TypeOK
  BY DEF GateInvariant, CacheKept, StateOK, TypeOK, SlotType, EntryType
<1>2. PendingHasWaiter
  <2>1. ASSUME NEW e \in pending PROVE e = Id(e[1]) /\ Phase(e[1]) \in {"waiting", "expired"}
    <3>1. PICK a \in Mains, n \in Nat : e = <<a, n>>
      BY DEF GateInvariant, StateOK
    <3>2. a \in Agents /\ n = request[a] /\ Phase(a) \in {"waiting", "expired"}
      BY <3>1 DEF GateInvariant, Placed, Owed, Agents
    <3>3. QED
      BY <3>1, <3>2 DEF Id
  <2>2. ASSUME NEW a \in Mains, set.frontend = "serve", Waiting(a) PROVE Id(a) \in pending
    <3>1. a \in Agents
      BY DEF Agents
    <3>2. QED
      BY <2>2, <3>1 DEF GateInvariant, Placed, Owed, Id
  <2>3. QED
    BY <2>1, <2>2 DEF PendingHasWaiter
<1>3. QED
  BY <1>1, <1>2 DEF GateInvariant

(* The cache, the map of pending approvals and the rate limit stay within  *)
(* their bounds, no entry outlives its request, and whoever waits for an   *)
(* answer can get one.                                                     *)
THEOREM WaitsStayBounded == Spec => []WaitsAreBounded
  BY GateInvariantAlways, BoundsFollow, PTL

==============================================================================
