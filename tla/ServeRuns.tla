------------------------------ MODULE ServeRuns ------------------------------
(***************************************************************************)
(* The durable runs of the HTTP server (deepseeknova-serve/src/lib.rs):    *)
(* POST /v1/chat and POST /v1/runs/{id}/resume, the run records on disk    *)
(* that outlive the process, the semaphore that bounds the runs in flight  *)
(* and the start-up sweep that marks what a dead process left Running.     *)
(*                                                                         *)
(* A record is one file replaced by rename, so a save is one step.  The    *)
(* handlers contain no await: a client that goes away stops no handler,    *)
(* but two handlers run on two threads, and only claim takes the mutex.    *)
(***************************************************************************)
EXTENDS Integers, FiniteSets

CONSTANTS
  Runs,          \* run ids (uuids)
  Requests,      \* HTTP requests, each sent once
  NoRun,         \* no run, and no request
  MaxConcurrent, \* permits of the semaphore
  MaxStarts,     \* bound on the starts of the server
  SaveMayFail,   \* a save to the run directory may fail
  SecondServer   \* a second server may be started on the same directory

ASSUME MaxConcurrentAssumption == MaxConcurrent \in Nat \ {0}
ASSUME MaxStartsAssumption == MaxStarts \in Nat
ASSUME FlagsAssumption == {SaveMayFail, SecondServer} \subseteq BOOLEAN
ASSUME RequestsAssumption == IsFiniteSet(Requests)
ASSUME NoRunAssumption == NoRun \notin Runs /\ NoRun \notin Requests

VARIABLES
  record,    \* the status in each run's file
  server,    \* what each server process is doing
  marking,   \* the records a starting server has listed as Running
  starts,    \* starts so far
  unsaved,   \* the runs whose end could not be saved
  req,       \* each request: where its handler or its task is
  permits,   \* free permits of the semaphore
  claimLock  \* the request inside DurableRuns::claim

runsVars == <<record, server, marking, starts, unsaved, req, permits, claimLock>>

Servers == {"main", "other"}
Settled == {"done", "failed", "paused", "interrupted"}
RunStatus == Settled \cup {"running"}

Executing == {"starting", "running", "finishing"}
HoldsPermit == Executing \cup {"resuming", "claiming", "dropping"}
Places == HoldsPermit \cup {"unsent", "over"}

RunsInit ==
  /\ record = [r \in Runs |-> "absent"]
  /\ server = [s \in Servers |-> "down"]
  /\ marking = [s \in Servers |-> {}]
  /\ starts = 0
  /\ unsaved = {}
  /\ req = [q \in Requests |-> [pc |-> "unsent", run |-> NoRun, seen |-> {}]]
  /\ permits = MaxConcurrent
  /\ claimLock = NoRun

(* Seeded fault: the sweep takes every record for one left running. *)
StartServerMarksAll(s) ==
  /\ server[s] = "down"
  /\ starts < MaxStarts
  /\ s = "other" => SecondServer
  /\ server' = [server EXCEPT ![s] = "marking"]
  /\ marking' = [marking EXCEPT ![s] = {r \in Runs : record[r] # "absent"}]
  /\ starts' = starts + 1
  /\ UNCHANGED <<record, unsaved, req, permits, claimLock>>

(* Server::with_runs_dir: mark_interrupted lists every record first, then  *)
(* saves the running ones one at a time; the listener is bound afterwards. *)
StartServer(s) ==
  /\ server[s] = "down"
  /\ starts < MaxStarts
  /\ s = "other" => SecondServer
  /\ server' = [server EXCEPT ![s] = "marking"]
  /\ marking' = [marking EXCEPT ![s] = {r \in Runs : record[r] = "running"}]
  /\ starts' = starts + 1
  /\ UNCHANGED <<record, unsaved, req, permits, claimLock>>

MarkInterrupted(s, r) ==
  /\ r \in marking[s]
  /\ marking' = [marking EXCEPT ![s] = @ \ {r}]
  /\ record' = [record EXCEPT ![r] = "interrupted"]
  /\ unsaved' = unsaved \ {r}
  /\ UNCHANGED <<server, starts, req, permits, claimLock>>

(* The first failed save ends the sweep; the server only warns. *)
MarkFails(s) ==
  /\ SaveMayFail
  /\ marking[s] # {}
  /\ marking' = [marking EXCEPT ![s] = {}]
  /\ unsaved' = unsaved \cup marking[s]
  /\ UNCHANGED <<record, server, starts, req, permits, claimLock>>

(* Server::serve: the other server finds the address taken and exits. *)
Serve(s) ==
  /\ server[s] = "marking"
  /\ marking[s] = {}
  /\ server' = [server EXCEPT ![s] = IF s = "main" THEN "serving" ELSE "down"]
  /\ UNCHANGED <<record, marking, starts, unsaved, req, permits, claimLock>>

(* The process dies with every handler and task in it. *)
Crash ==
  /\ server["main"] # "down"
  /\ starts < MaxStarts
  /\ server' = [server EXCEPT !["main"] = "down"]
  /\ marking' = [marking EXCEPT !["main"] = {}]
  /\ req' = [q \in Requests |->
               IF req[q].pc = "unsent" THEN req[q] ELSE [req[q] EXCEPT !.pc = "over"]]
  /\ permits' = MaxConcurrent
  /\ claimLock' = NoRun
  /\ UNCHANGED <<record, starts, unsaved>>

Serving(q, pc) == server["main"] = "serving" /\ req[q].pc = pc
Goto(q, pc) == req' = [req EXCEPT ![q].pc = pc]
Admit(q, r, pc) ==
  /\ Serving(q, "unsent")
  /\ permits > 0
  /\ permits' = permits - 1
  /\ req' = [req EXCEPT ![q] = [pc |-> pc, run |-> r, seen |-> {}]]
  /\ UNCHANGED <<record, server, marking, starts, unsaved, claimLock>>

(* chat: a permit, then a run id nobody has used. *)
Chat(q, r) ==
  /\ record[r] = "absent"
  /\ \A p \in Requests : req[p].run # r
  /\ Admit(q, r, "starting")

(* resume_run: a permit before the claim. *)
Resume(q, r) == Admit(q, r, "resuming")

(* Either handler answers 429 when no permit is free. *)
TooMany(q) ==
  /\ Serving(q, "unsent")
  /\ permits = 0
  /\ Goto(q, "over")
  /\ UNCHANGED <<record, server, marking, starts, unsaved, permits, claimLock>>

(* Seeded fault: the claim takes no mutex. *)
ClaimLoadUnlocked(q) ==
  /\ Serving(q, "resuming")
  /\ IF record[req[q].run] \in Settled
       THEN Goto(q, "claiming") /\ claimLock' = q
       ELSE Goto(q, "dropping") /\ UNCHANGED claimLock
  /\ UNCHANGED <<record, server, marking, starts, unsaved, permits>>

(* Seeded fault: a refused claim forgets its permit. *)
ClaimLoadLeaks(q) ==
  /\ Serving(q, "resuming")
  /\ claimLock = NoRun
  /\ IF record[req[q].run] \in Settled
       THEN Goto(q, "claiming") /\ claimLock' = q
       ELSE Goto(q, "over") /\ UNCHANGED claimLock
  /\ UNCHANGED <<record, server, marking, starts, unsaved, permits>>

(* claim, first half: under the mutex, load the record and look at it.     *)
(* No record (404) and a running one (409) leave at once.                  *)
ClaimLoad(q) ==
  /\ Serving(q, "resuming")
  /\ claimLock = NoRun
  /\ IF record[req[q].run] \in Settled
       THEN Goto(q, "claiming") /\ claimLock' = q
       ELSE Goto(q, "dropping") /\ UNCHANGED claimLock
  /\ UNCHANGED <<record, server, marking, starts, unsaved, permits>>

(* claim, second half: save it Running, or give up with 500. *)
ClaimSave(q) ==
  /\ Serving(q, "claiming")
  /\ claimLock' = NoRun
  /\ \/ Goto(q, "starting") /\ record' = [record EXCEPT ![req[q].run] = "running"]
     \/ SaveMayFail /\ Goto(q, "dropping") /\ UNCHANGED record
  /\ UNCHANGED <<server, marking, starts, unsaved, permits>>

(* stream_input: start_run_record, whose failed save is only logged; then  *)
(* the task is spawned.                                                    *)
StartRunRecord(q) ==
  /\ Serving(q, "starting")
  /\ Goto(q, "running")
  /\ \/ record' = [record EXCEPT ![req[q].run] = "running"]
     \/ SaveMayFail /\ UNCHANGED record
  /\ UNCHANGED <<server, marking, starts, unsaved, permits, claimLock>>

(* The closing event of the run: Done, Paused, or an error (also the error *)
(* of run_stream itself).                                                  *)
ClosingEvent(q, e) ==
  /\ Serving(q, "running")
  /\ req[q].seen = {}
  /\ req' = [req EXCEPT ![q].seen = {e}]
  /\ UNCHANGED <<record, server, marking, starts, unsaved, permits, claimLock>>

(* The stream ends when the agent's task has dropped its sender, which a   *)
(* task that panicked does without a closing event: nothing is seen then.  *)
EndOfStream(q) ==
  /\ Serving(q, "running")
  /\ Goto(q, "finishing")
  /\ UNCHANGED <<record, server, marking, starts, unsaved, permits, claimLock>>

StatusOf(seen) ==
  IF "error" \in seen THEN "failed" ELSE IF "paused" \in seen THEN "paused" ELSE "done"

(* Seeded fault: a paused run is not written back. *)
FinishUnlessPaused(q) ==
  /\ Serving(q, "finishing")
  /\ Goto(q, "dropping")
  /\ record' = IF req[q].seen = {"paused"} THEN record
               ELSE [record EXCEPT ![req[q].run] = StatusOf(req[q].seen)]
  /\ UNCHANGED <<server, marking, starts, unsaved, permits, claimLock>>

(* finish_run_record: nothing when the record was never written. *)
FinishRunRecord(q) ==
  /\ Serving(q, "finishing")
  /\ Goto(q, "dropping")
  /\ \/ /\ record' = IF record[req[q].run] = "absent" THEN record
                     ELSE [record EXCEPT ![req[q].run] = StatusOf(req[q].seen)]
        /\ UNCHANGED unsaved
     \/ /\ SaveMayFail /\ record[req[q].run] # "absent"
        /\ unsaved' = unsaved \cup {req[q].run}
        /\ UNCHANGED record
  /\ UNCHANGED <<server, marking, starts, permits, claimLock>>

(* The permit is dropped with the handler or with the task. *)
Release(q) ==
  /\ Serving(q, "dropping")
  /\ Goto(q, "over")
  /\ permits' = permits + 1
  /\ UNCHANGED <<record, server, marking, starts, unsaved, claimLock>>

Client(q) == TooMany(q) \/ \E r \in Runs : Chat(q, r) \/ Resume(q, r)

Handler(q) ==
  \/ ClaimLoad(q) \/ ClaimSave(q) \/ StartRunRecord(q)
  \/ \E e \in {"done", "error", "paused"} : ClosingEvent(q, e)
  \/ EndOfStream(q) \/ FinishRunRecord(q) \/ Release(q)

Startup(s) ==
  \/ StartServer(s) \/ MarkFails(s) \/ Serve(s)
  \/ \E r \in Runs : MarkInterrupted(s, r)

RunsNext ==
  \/ \E q \in Requests : Client(q) \/ Handler(q)
  \/ \E s \in Servers : Startup(s)
  \/ Crash

RunsSpec == RunsInit /\ [][RunsNext]_runsVars

(* Threads are scheduled, a run ends by itself (its steps are bounded and  *)
(* its calls time out), and a server that died is started again.           *)
FairSpec ==
  /\ RunsSpec
  /\ \A q \in Requests : WF_runsVars(Handler(q))
  /\ WF_runsVars(Startup("main"))

-----------------------------------------------------------------------------
RunsTypeOK ==
  /\ record \in [Runs -> RunStatus \cup {"absent"}]
  /\ server \in [Servers -> {"down", "marking", "serving"}]
  /\ marking \in [Servers -> SUBSET Runs]
  /\ starts \in 0..MaxStarts
  /\ unsaved \subseteq Runs
  /\ req \in [Requests -> [pc : Places, run : Runs \cup {NoRun},
                           seen : SUBSET {"done", "error", "paused"}]]
  /\ permits \in 0..MaxConcurrent
  /\ claimLock \in Requests \cup {NoRun}

(* No two requests ever execute the same run: the status check of claim    *)
(* and the records written around it keep a run to one execution, across   *)
(* resumes, restarts and failed saves.                                     *)
OneExecution ==
  \A p, q \in Requests :
    p # q /\ req[p].run = req[q].run =>
      ~(req[p].pc \in Executing /\ req[q].pc \in Executing)

(* A permit is free or held by a handler or a task: no early return keeps  *)
(* or doubles one.                                                         *)
PermitsAccounted ==
  permits + Cardinality({q \in Requests : req[q].pc \in HoldsPermit}) = MaxConcurrent

(* While the server serves, a record that says Running is a run somebody   *)
(* executes, unless its end could not be saved: otherwise every resume of  *)
(* it would answer 409 until the next restart.                             *)
RunningIsExecuting ==
  server["main"] = "serving" =>
    \A r \in Runs \ unsaved : record[r] = "running" =>
      \E q \in Requests : req[q].run = r /\ req[q].pc \in Executing

(* A settled record changes only into Running: nothing rewrites the result *)
(* of a run that nobody has started again.                                 *)
SettledStays ==
  [][\A r \in Runs : record[r] \in Settled => record'[r] \in {record[r], "running"}]_runsVars

(* "Interrupted: server restarted while the run was still running": no     *)
(* request of the serving process executes an interrupted run.             *)
InterruptedIsDead ==
  \A q \in Requests : req[q].pc \in {"running", "finishing"} =>
    record[req[q].run] # "interrupted"

(* "Done: the run completed successfully": a record becomes Done only by   *)
(* an execution whose stream carried the Done event.  The code counts a    *)
(* stream that just ends as Done, so that this is false (README, 4).       *)
DoneIsSuccess ==
  [][\A r \in Runs : record[r] # "done" /\ record'[r] = "done" =>
       \E q \in Requests : req[q].run = r /\ "done" \in req[q].seen]_runsVars

(* A record that says Running does not say so for ever: the run ends, also *)
(* without a closing event, or the restarted server interrupts it, or its  *)
(* end could not be saved.                                                 *)
RunsSettle ==
  \A r \in Runs : record[r] = "running" ~> (record[r] # "running" \/ r \in unsaved)

-----------------------------------------------------------------------------
(* What is checked: the properties above, by what they are about. *)

\* Types, and permits that are neither lost nor made on any way through chat
\* and resume.
RequestsSound ==
    /\ RunsTypeOK
    /\ PermitsAccounted

=============================================================================
