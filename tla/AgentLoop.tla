------------------------------ MODULE AgentLoop ------------------------------
(***************************************************************************)
(* One run of the agent (deepseeknova-agent/src/agent/loop_impl.rs):       *)
(* run_agent_loop, the turns of stream_and_process_turn, the permission    *)
(* and hook checks of every tool call, the segments in which calls are     *)
(* executed, the cache of read results, and the gates between the model's  *)
(* final text and Done (verify, LLM verify, review).                       *)
(*                                                                         *)
(* Messages are counted, not kept: owed is the number of tool calls in the *)
(* history that have no result yet.  File contents are abstracted to what  *)
(* is stale: a write turns every earlier read result stale.  The messages  *)
(* and their compaction are in AgentRun; the observers (metrics,           *)
(* diagnosis, events) are left out.                                        *)
(***************************************************************************)
EXTENDS Integers, FiniteSets, Sequences

CONSTANT Profiles  \* the configurations a run may have

Profile == [kinds : SUBSET {"read", "write", "delegate"}, turn : Nat \ {0}, steps : Nat \ {0},
            calls : Nat \ {0}, approvals : SUBSET {"human", "deny", "allow"},
            concurrent : BOOLEAN, cache : BOOLEAN, sideWrites : BOOLEAN, verify : Nat \cup {-1},
            review : Nat \cup {-1}, hooks : BOOLEAN, pause : BOOLEAN, panics : BOOLEAN,
            flaky : BOOLEAN]

ASSUME ProfilesAssumption == \A p \in Profiles : p \in Profile

VARIABLE profile  \* the configuration of this run

Kinds == profile.kinds                \* kinds of tools offered
MaxTurn == profile.turn               \* bound on the tool calls of one turn
MaxSteps == profile.steps             \* max_steps
MaxToolCalls == profile.calls         \* limits.max_tool_calls
Approvals == profile.approvals        \* who may answer: a person, or a rule without one
ConcurrentTools == profile.concurrent \* concurrent_tools
ToolCache == profile.cache            \* tool_cache
SideWrites == profile.sideWrites      \* verify commands and tool_after hooks may write files
VerifyCycles == profile.verify        \* [verify] max_cycles; -1 when verify is not configured
ReviewCycles == profile.review        \* [review] max_cycles; -1 when review is not configured
QualityHooks == profile.hooks         \* tool hooks are registered
PauseOnMaxSteps == profile.pause      \* pause_on_max_steps
MayPanic == profile.panics            \* a tool may panic
Flaky == profile.flaky                \* a tool may fail with a retryable error
MaxRetries == 2                       \* TOOL_RECOVERY_MAX_RETRIES

VARIABLES
  pc,       \* where the loop is
  step,     \* turns begun
  cancel,   \* the cancellation token
  made,     \* tool_calls_made
  turn,     \* the calls of the current turn
  at, check,\* the call being checked or recorded, and the check it is in
  todo,     \* allowed calls in segments not yet begun
  batch,    \* to_execute of the current segment
  queue,    \* those of batch not yet started
  open,     \* calls being executed
  owed,     \* tool calls of the history without a result
  cache,    \* the cached read result: "none", "fresh" or "stale"
  wrote,    \* wrote_files
  blocked,  \* quality_blocked
  vcycles, rcycles,  \* verify_cycles, review_cycles
  approval, \* who answers in this run
  unchecked, \* history: the gates that have not looked at the files since a change
  changed,  \* history: a tool that declares that it writes has been executed
  ended     \* how the run ended

dirty == <<unchecked, changed>>
callVars == <<turn, at, check, todo, batch, queue, open>>
gateVars == <<wrote, blocked, vcycles, rcycles>>
vars == <<profile, pc, step, cancel, made, callVars, owed, cache, gateVars, approval, dirty,
          ended>>

Checks == <<"gate", "hook", "user">>
Call(k) == [kind |-> k, block |-> "unknown", vetoed |-> FALSE, out |-> "none", val |-> "none",
            tries |-> 0]
NoTurn == <<>>

Shareable(k) == k \in {"read", "delegate"}
Declared(k) == k = "write"   \* writes_fs, or one of the four names

Init ==
  /\ pc = "boundary" /\ step = 0 /\ cancel = FALSE /\ made = 0
  /\ turn = NoTurn /\ at = 1 /\ check = 1
  /\ todo = {} /\ batch = {} /\ queue = {} /\ open = {}
  /\ owed = 0 /\ cache = "none"
  /\ wrote = FALSE /\ blocked = FALSE /\ vcycles = 0 /\ rcycles = 0
  /\ profile \in Profiles /\ approval \in Approvals
  /\ unchecked = {} /\ changed = FALSE /\ ended = "no"

(* Ctrl-C, or the parent of a sub-agent. *)
Cancel ==
  /\ ~cancel /\ pc # "ended"
  /\ cancel' = TRUE
  /\ UNCHANGED <<pc, step, made, callVars, owed, cache, gateVars, dirty, ended>>

(* The run returns; run_stream writes the history back and sends the error. *)
End(how) ==
  /\ pc' = "ended"
  /\ ended' = how
  /\ UNCHANGED <<step, cancel, made, callVars, owed, cache, gateVars, dirty>>

OutOfSteps == End(IF PauseOnMaxSteps THEN "paused" ELSE "error")

-----------------------------------------------------------------------------
(* The step boundary. *)

(* The deadline and the two budgets depend on time and cost: a choice. *)
Boundary ==
  /\ pc = "boundary"
  /\ IF step = MaxSteps THEN OutOfSteps
     ELSE IF cancel THEN End("done")
     ELSE IF made >= MaxToolCalls THEN End("error")
     ELSE \/ End("error") \/ End("paused")
          \/ /\ pc' = "request"
             /\ step' = step + 1
             /\ UNCHANGED <<cancel, made, callVars, owed, cache, gateVars, dirty, ended>>

(* The request is refused, or a chunk of the stream is an error. *)
ProviderFails == pc = "request" /\ End("error")

(* Text, only a usage chunk, or a cancellation seen between two chunks. *)
Complete ==
  /\ pc = "request"
  /\ pc' = "verify"
  /\ UNCHANGED <<step, cancel, made, callVars, owed, cache, gateVars, dirty, ended>>

NoOutput == pc = "request" /\ OutOfSteps

Turns == UNION {[1..n -> Kinds] : n \in 1..MaxTurn}

(* The assistant message with its tool calls enters the history.  A        *)
(* blocking violation of the Execute gate refuses every call of the turn.  *)
ToolCalls(kinds, protocolBlock) ==
  /\ pc = "request"
  /\ turn' = [i \in DOMAIN kinds |->
                [Call(kinds[i]) EXCEPT !.block = IF protocolBlock THEN "blocked" ELSE @,
                                       !.vetoed = protocolBlock]]
  /\ owed' = owed + Len(kinds)
  /\ pc' = "decide"
  /\ at' = 1 /\ check' = 1
  /\ UNCHANGED <<step, cancel, made, todo, batch, queue, open, cache, gateVars,
                 dirty, ended>>

-----------------------------------------------------------------------------
(* The checks: permission gate, tool hooks, user hooks, in this order.     *)

Deciding == pc = "decide" /\ at <= Len(turn)
decideFrame == <<step, cancel, made, todo, batch, queue, open, owed, cache, gateVars,
                 dirty, ended>>

Skip ==
  /\ Deciding /\ turn[at].block = "blocked"
  /\ at' = at + 1 /\ check' = 1
  /\ UNCHANGED <<pc, turn, decideFrame>>

Pass ==
  /\ pc' = "decide"
  /\ IF check < Len(Checks)
       THEN check' = check + 1 /\ UNCHANGED <<turn, at>>
       ELSE /\ turn' = [turn EXCEPT ![at].block = "none"]
            /\ at' = at + 1 /\ check' = 1
  /\ UNCHANGED decideFrame

Refuse ==
  /\ pc' = "decide"
  /\ turn' = [turn EXCEPT ![at].block = "blocked", ![at].vetoed = TRUE]
  /\ at' = at + 1 /\ check' = 1
  /\ UNCHANGED decideFrame

Unblocked == Deciding /\ turn[at].block = "unknown"
CheckAllows == Unblocked /\ Pass
CheckDenies == Unblocked /\ Refuse

(* The gate and the tool hooks may ask; user hooks only allow or deny. *)
CheckAsks ==
  /\ Unblocked
  /\ Checks[check] # "user"
  /\ CASE approval = "human" -> pc' = "asking" /\ UNCHANGED <<turn, at, check, decideFrame>>
       [] approval = "deny" -> Refuse
       [] approval = "allow" -> Pass

Answer(yes) == pc = "asking" /\ (IF yes THEN Pass ELSE Refuse)

(* Seeded fault: nothing wakes a question when the run is cancelled. *)
AskNotCancelled == pc = "asking" /\ cancel /\ FALSE

(* select! on the token: the other branch denies. *)
AskCancelled == pc = "asking" /\ cancel /\ Refuse

Dispatch ==
  /\ pc = "decide" /\ at > Len(turn)
  /\ pc' = "segments"
  /\ todo' = {i \in DOMAIN turn : turn[i].block = "none"}
  /\ UNCHANGED <<step, cancel, made, turn, at, check, batch, queue, open, owed, cache,
                 gateVars, dirty, ended>>

-----------------------------------------------------------------------------
(* Segments: neighbouring reads and delegates together, a write alone.     *)

NextSegment ==
  LET first == CHOOSE i \in todo : \A j \in todo : i <= j
  IN  IF Shareable(turn[first].kind)
      THEN {i \in todo : \A j \in todo : j <= i => Shareable(turn[j].kind)}
      ELSE {first}

Hits(seg) == {i \in seg : ToolCache /\ cache # "none" /\ turn[i].kind = "read"}

(* Cached reads are answered at once; the others are started together or   *)
(* one after the other.                                                    *)
BeginSegment ==
  /\ pc = "segments" /\ todo # {} /\ ~cancel
  /\ LET seg == NextSegment
         rest == seg \ Hits(seg)
         together == ConcurrentTools /\ Cardinality(rest) > 1
     IN  /\ todo' = todo \ seg
         /\ batch' = rest
         /\ queue' = IF together THEN {} ELSE rest
         /\ open' = IF together THEN rest ELSE {}
         /\ turn' = [i \in DOMAIN turn |->
              IF i \in Hits(seg) THEN [turn[i] EXCEPT !.out = "cached", !.val = cache]
              ELSE IF together /\ i \in rest THEN [turn[i] EXCEPT !.val = "fresh"]
              ELSE turn[i]]
  /\ pc' = "execute"
  /\ UNCHANGED <<step, cancel, made, at, check, owed, cache, gateVars, dirty, ended>>

EndSegments ==
  /\ pc = "segments" /\ (todo = {} \/ cancel)
  /\ pc' = "record"
  /\ at' = 1
  /\ UNCHANGED <<step, cancel, made, turn, check, todo, batch, queue, open, owed, cache,
                 gateVars, dirty, ended>>

Start(i) ==
  /\ pc = "execute" /\ open = {}
  /\ i \in queue /\ \A j \in queue : i <= j
  /\ queue' = queue \ {i}
  /\ open' = {i}
  /\ turn' = [turn EXCEPT ![i].val = "fresh"]
  /\ UNCHANGED <<pc, step, cancel, made, at, check, todo, batch, owed, cache, gateVars,
                 dirty, ended>>

(* A file changes: what was read before is stale, what is being read may   *)
(* be, and the gates have not seen the change.                             *)
Aged(c) == IF c = "none" THEN "none" ELSE "stale"
Written(t) ==
  /\ cache' = Aged(cache)
  /\ \E old \in SUBSET open :
       turn' = [i \in DOMAIN t |->
                  IF t[i].out = "ok" \/ i \in old THEN [t[i] EXCEPT !.val = Aged(@)] ELSE t[i]]

Changes(k) == unchecked' = {"verify", "review"} /\ changed' = (changed \/ Declared(k))

(* A call returns, with an output or an error.  A write or a delegate may  *)
(* have changed files in either case; a cancelled call is an error.        *)
Finish(i, o) ==
  /\ pc = "execute" /\ i \in open
  /\ open' = open \ {i}
  /\ LET t == [turn EXCEPT ![i].out = o]
     IN  \/ /\ turn[i].kind # "read"
            /\ Written(t)
            /\ Changes(turn[i].kind)
         \/ /\ turn' = t
            /\ UNCHANGED <<cache, dirty>>
  /\ UNCHANGED <<pc, step, cancel, made, at, check, todo, batch, queue, owed, gateVars, ended>>

(* A retryable error: the call is executed again, whatever the attempt     *)
(* that failed has done to the files; a read reads again.                  *)
Retry(i) ==
  /\ Flaky /\ pc = "execute" /\ i \in open
  /\ turn[i].tries < MaxRetries
  /\ LET t == [turn EXCEPT ![i].tries = @ + 1, ![i].val = "fresh"]
     IN  \/ /\ turn[i].kind # "read"
            /\ Written(t)
            /\ Changes(turn[i].kind)
         \/ /\ turn' = t
            /\ UNCHANGED <<cache, dirty>>
  /\ UNCHANGED <<pc, step, cancel, made, at, check, todo, batch, queue, open, owed, gateVars,
                 ended>>

(* A panic in a JoinSet task loses the result of the call; on the serial   *)
(* path it takes the whole agent task with it, and nothing is written back *)
(* or sent.                                                                *)
Panic(i) ==
  /\ MayPanic /\ pc = "execute" /\ i \in open
  /\ IF queue = {} /\ ConcurrentTools /\ Cardinality(batch) > 1
     THEN /\ open' = open \ {i}
          /\ IF turn[i].kind = "read" THEN UNCHANGED <<turn, cache, dirty>>
             ELSE Written(turn) /\ Changes(turn[i].kind)
          /\ UNCHANGED <<pc, step, cancel, made, at, check, todo, batch, queue, owed,
                         gateVars, ended>>
     ELSE End("silent")

(* Seeded fault: only a declared writer empties the cache. *)
CacheAfterDeclared(b) ==
  IF \E i \in b : turn[i].kind = "write" THEN "none"
  ELSE IF \E i \in b : turn[i].kind = "read" /\ turn[i].out = "ok"
       THEN turn[CHOOSE i \in b : turn[i].kind = "read" /\ turn[i].out = "ok"].val
       ELSE cache

CacheAfter(b) ==
  IF \E i \in b : turn[i].kind # "read" THEN "none"
  ELSE IF \E i \in b : turn[i].out = "ok"
       THEN LET last == CHOOSE i \in b : /\ turn[i].out = "ok"
                                         /\ \A j \in b : turn[j].out = "ok" => j <= i
            IN  turn[last].val
       ELSE cache

EndSegment ==
  /\ pc = "execute" /\ queue = {} /\ open = {}
  /\ cache' = IF ToolCache THEN CacheAfter(batch) ELSE cache
  /\ batch' = {}
  /\ pc' = "segments"
  /\ UNCHANGED <<step, cancel, made, turn, at, check, todo, queue, open, owed, gateVars,
                 dirty, ended>>

-----------------------------------------------------------------------------
(* The results go back in the order of the calls, one for every call; a    *)
(* tool_after hook (say, a formatter) runs once its call is recorded.      *)

Executed(c) == c.out \in {"ok", "error"}

(* Seeded fault: a call with no result is left without a message. *)
RecordExecuted ==
  /\ pc = "record" /\ at <= Len(turn)
  /\ LET c == turn[at]
     IN  /\ made' = IF Executed(c) THEN made + 1 ELSE made
         /\ wrote' = (wrote \/ (Executed(c) /\ Declared(c.kind)))
         /\ owed' = IF c.block = "none" /\ c.out = "none" THEN owed ELSE owed - 1
  /\ at' = at + 1
  /\ UNCHANGED <<pc, step, cancel, turn, check, todo, batch, queue, open, blocked, cache,
                 vcycles, rcycles, dirty, ended>>

Record ==
  /\ pc = "record" /\ at <= Len(turn)
  /\ LET c == turn[at]
     IN  /\ made' = IF Executed(c) THEN made + 1 ELSE made
         /\ wrote' = (wrote \/ (Executed(c) /\ Declared(c.kind)))
         /\ \/ UNCHANGED blocked
            \/ QualityHooks /\ c.out = "ok" /\ blocked' = TRUE
         /\ \/ UNCHANGED cache
            \/ SideWrites /\ Executed(c) /\ c.kind # "read" /\ cache' = Aged(cache)
  /\ owed' = owed - 1
  /\ at' = at + 1
  /\ UNCHANGED <<pc, step, cancel, turn, check, todo, batch, queue, open, vcycles, rcycles,
                 dirty, ended>>

Continue ==
  /\ pc = "record" /\ at > Len(turn)
  /\ pc' = "boundary"
  /\ turn' = NoTurn /\ at' = 1 /\ check' = 1
  /\ todo' = {} /\ batch' = {} /\ queue' = {} /\ open' = {}
  /\ UNCHANGED <<step, cancel, made, owed, cache, gateVars, dirty, ended>>

-----------------------------------------------------------------------------
(* The gates between the final text and Done.                              *)

Looked(g) == unchecked' = unchecked \ {g} /\ UNCHANGED changed

(* Back to the loop with the failure as a user message, or a pause at the  *)
(* limit of the cycles, which the two verify gates share.                  *)
RetryOrPause(cycles, max) ==
  IF cycles < max THEN pc' = "boundary" /\ UNCHANGED ended
  ELSE pc' = "ended" /\ ended' = "paused"

(* Seeded fault: files are verified once per run. *)
VerifyOnce(outcome) ==
  /\ pc = "verify"
  /\ IF VerifyCycles = -1 \/ ~wrote \/ vcycles > 0
     THEN pc' = "review" /\ UNCHANGED <<vcycles, cache, dirty, ended>>
     ELSE /\ Looked("verify")
          /\ UNCHANGED cache
          /\ IF outcome = "fail"
             THEN /\ RetryOrPause(vcycles, VerifyCycles)
                  /\ vcycles' = IF vcycles < VerifyCycles THEN vcycles + 1 ELSE vcycles
             ELSE pc' = "llm" /\ UNCHANGED <<vcycles, ended>>
  /\ UNCHANGED <<step, cancel, made, callVars, owed, wrote, blocked, rcycles>>

Verify(outcome) ==
  /\ pc = "verify"
  /\ IF VerifyCycles = -1 \/ ~wrote
     THEN pc' = "review" /\ UNCHANGED <<vcycles, cache, dirty, ended>>
     ELSE /\ Looked("verify")
          /\ cache' \in (IF SideWrites THEN {cache, Aged(cache)} ELSE {cache})
          /\ IF outcome = "fail"
             THEN /\ RetryOrPause(vcycles, VerifyCycles)
                  /\ vcycles' = IF vcycles < VerifyCycles THEN vcycles + 1 ELSE vcycles
             ELSE pc' = "llm" /\ UNCHANGED <<vcycles, ended>>
  /\ UNCHANGED <<step, cancel, made, callVars, owed, wrote, blocked, rcycles>>

(* The LLM gate may be off or its answer unreadable: then it lets pass. *)
LlmVerify(outcome) ==
  /\ pc = "llm"
  /\ IF outcome = "fail"
     THEN /\ RetryOrPause(vcycles, VerifyCycles)
          /\ vcycles' = IF vcycles < VerifyCycles THEN vcycles + 1 ELSE vcycles
     ELSE pc' = "review" /\ UNCHANGED <<vcycles, ended>>
  /\ UNCHANGED <<step, cancel, made, callVars, owed, cache, wrote, blocked, rcycles, dirty>>

(* The reviewer sees the diff; with tool hooks only after a blocking        *)
(* finding.                                                                *)
Review(outcome) ==
  /\ pc = "review"
  /\ IF ReviewCycles = -1 \/ ~wrote \/ (QualityHooks /\ ~blocked)
     THEN pc' = "done" /\ UNCHANGED <<rcycles, dirty, ended>>
     ELSE /\ Looked("review")
          /\ IF outcome = "fail"
             THEN /\ RetryOrPause(rcycles, ReviewCycles)
                  /\ rcycles' = IF rcycles < ReviewCycles THEN rcycles + 1 ELSE rcycles
             ELSE pc' = "done" /\ UNCHANGED <<rcycles, ended>>
  /\ UNCHANGED <<step, cancel, made, callVars, owed, cache, wrote, blocked, vcycles>>

Done == pc = "done" /\ End("done")

Outcomes == {"pass", "fail", "skip"}
Gates == \E o \in Outcomes : Verify(o) \/ LlmVerify(o) \/ Review(o)

Turn ==
  \/ Skip \/ CheckAllows \/ CheckDenies \/ CheckAsks \/ AskCancelled \/ Dispatch
  \/ BeginSegment \/ EndSegments \/ EndSegment \/ Record \/ Continue
  \/ \E i \in DOMAIN turn :
       Start(i) \/ Retry(i) \/ Panic(i) \/ \E o \in {"ok", "error"} : Finish(i, o)

Loop ==
  /\ \/ Boundary \/ ProviderFails \/ Complete \/ NoOutput
     \/ \E kinds \in Turns, block \in BOOLEAN : ToolCalls(kinds, block)
     \/ Turn \/ Gates \/ Done
  /\ UNCHANGED approval

Human == UNCHANGED approval /\ \E yes \in BOOLEAN : Answer(yes)

Next == (Loop \/ Human \/ (Cancel /\ UNCHANGED approval)) /\ UNCHANGED profile

Spec == Init /\ [][Next]_vars

(* The agent's task is scheduled, the provider and the tools return (they  *)
(* have timeouts).  Nothing obliges the human to answer or anybody to      *)
(* cancel.                                                                 *)
FairSpec == Spec /\ WF_vars(Loop /\ UNCHANGED profile)

-----------------------------------------------------------------------------
Places == {"boundary", "request", "decide", "asking", "segments", "execute", "record",
           "verify", "llm", "review", "done", "ended"}

TypeOK ==
  /\ pc \in Places
  /\ step \in 0..MaxSteps
  /\ approval \in Approvals
  /\ cancel \in BOOLEAN /\ wrote \in BOOLEAN /\ blocked \in BOOLEAN
  /\ made \in 0..(MaxToolCalls + MaxTurn)
  /\ Len(turn) <= MaxTurn
  /\ \A i \in DOMAIN turn :
       turn[i] \in [kind : Kinds, block : {"unknown", "none", "blocked"}, vetoed : BOOLEAN,
                    out : {"none", "ok", "error", "cached"},
                    val : {"none", "fresh", "stale"}, tries : 0..MaxRetries]
  /\ at \in 1..(MaxTurn + 1) /\ check \in 1..Len(Checks)
  /\ {todo, batch, queue, open} \subseteq SUBSET DOMAIN turn
  /\ owed \in 0..MaxTurn
  /\ cache \in {"none", "fresh", "stale"}
  /\ vcycles \in Nat /\ rcycles \in Nat
  /\ unchecked \subseteq {"verify", "review"} /\ changed \in BOOLEAN
  /\ ended \in {"no", "done", "paused", "error", "silent"}

(* No dangling tool call: when a request is sent, and when the history is  *)
(* written back for the next prompt, every tool call in it has a result,   *)
(* whatever was denied, cancelled between segments, lost to a panic or     *)
(* answered from the cache.  The replay check before the request looks     *)
(* only for results without a call.                                        *)
HistoryComplete ==
  pc \in {"boundary", "request"} \/ (pc = "ended" /\ ended # "silent") => owed = 0

(* A call that the gate, a hook or a person refused is never executed and  *)
(* never answered from the cache, whatever the checks after it say.        *)
RefusedNeverRuns ==
  \A i \in DOMAIN turn : turn[i].vetoed => i \notin open /\ turn[i].out = "none"

(* Calls keep their order around a write: nothing runs beside it, what     *)
(* precedes it has returned, and what follows has not started.             *)
WritesInOrder ==
  \A i, j \in DOMAIN turn :
    i < j /\ turn[i].block = "none" /\ "write" \in {turn[i].kind, turn[j].kind}
      /\ (j \in open \/ turn[j].out # "none")
      => i \notin open \cup queue \cup todo

(* A result served from the cache is what a read would return now: "the    *)
(* whole cache is dropped after a write".                                  *)
CacheFresh ==
  ~SideWrites => \A i \in DOMAIN turn : turn[i].out = "cached" => turn[i].val = "fresh"

(* Once a tool that declares that it writes has been executed, a run that  *)
(* is not cancelled says Done only when every configured gate has looked   *)
(* at the files after the last change any tool made to them, a delegate    *)
(* included; with tool hooks the reviewer is called only after a blocking  *)
(* finding.  What delegates alone change calls no gate.                    *)
DoneIsChecked ==
  ended = "done" /\ ~cancel /\ changed =>
    /\ VerifyCycles # -1 => "verify" \notin unchecked
    /\ ReviewCycles # -1 /\ (QualityHooks => blocked) => "review" \notin unchecked

(* "Files written? Then verify": false of the changes of a delegate in a   *)
(* run that writes nothing itself, which the loop does not count.          *)
DelegatesAreChecked ==
  ended = "done" /\ ~cancel /\ VerifyCycles # -1 => "verify" \notin unchecked

(* The tool-call budget is enforced between turns only: a run never goes   *)
(* past it by a whole turn or more.                                        *)
BudgetOvershoot == made <= MaxToolCalls - 1 + MaxTurn

(* The loop ends, or waits for a person and for nothing else: the gates    *)
(* cannot send it round for ever.                                          *)
LoopEnds == <>[](pc \in {"ended", "asking"})

(* A cancelled run ends, even when nobody ever answers its question. *)
CancelEnds == cancel ~> pc = "ended"

-----------------------------------------------------------------------------
(* What is checked: the properties above, by what they are about. *)

\* What the model is sent next holds one result for each of its calls.
CallsAnswered ==
    /\ TypeOK
    /\ HistoryComplete

\* Reads and writes of one turn happen in the order the model asked for, a
\* cached read is what a read would return now, and neither a refusal nor the
\* tool budget is lost in a segment that runs its calls at the same time.
SegmentsAreSound ==
    /\ WritesInOrder
    /\ CacheFresh
    /\ RefusedNeverRuns
    /\ BudgetOvershoot

\* A run comes to its end, or to a question that a person owes an answer, and a
\* cancelled one ends without that answer.
RunsEnd ==
    /\ LoopEnds
    /\ CancelEnds

=============================================================================
