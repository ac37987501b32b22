--------------------------- MODULE DelegateEngine ---------------------------
(***************************************************************************)
(* The delegate engine: sub-agents spawned by the `delegate` tool.         *)
(*                                                                         *)
(* A delegation is one call of the tool, by the main agent or, where       *)
(* recursion is allowed, by a running sub-agent.  It is a future inside    *)
(* its caller's tool execution; the sub-agent it starts is a task of its   *)
(* own, with a permit of the engine's semaphore for as long as the         *)
(* delegation collects the task's stream.  A failed attempt gives the      *)
(* permit back, asks another model what went wrong (while the engine's     *)
(* budget lasts) and tries again, perhaps with another preset.  The main   *)
(* run's cancellation reaches every task below it; the futures are dropped *)
(* by their callers, the tasks wind down by themselves.                    *)
(*                                                                         *)
(* Delegations are numbered in the order in which they are made.           *)
(***************************************************************************)
EXTENDS Naturals, Sequences, FiniteSets

CONSTANTS
    Delegations,      \* bound: how many calls of the tool are looked at
    MaxConcurrent,    \* bound of the max_concurrent looked at
    MaxDepth,         \* with_max_depth
    MaxRetries,       \* AttributionSettings::max_retries
    MaxAttributions,  \* AttributionBudget::max
    Registered,       \* names of the presets the engine holds an agent for
    Unregistered,     \* names a model may call, or degrade_map lead to
    DegradeMap        \* AttributionSettings::degrade_map

Name == Registered \cup Unregistered
Id   == 1..Delegations
Main == 0

ASSUME EngineAssumption ==
    /\ Name # {} /\ Delegations \in Nat /\ MaxConcurrent \in Nat \ {0} /\ MaxDepth \in Nat \ {0}
    /\ MaxRetries \in Nat /\ MaxAttributions \in Nat
    /\ Registered \cap Unregistered = {}
    /\ DOMAIN DegradeMap \subseteq Name
    /\ \A a \in DOMAIN DegradeMap : DegradeMap[a] \in Name

Open  == {"starting", "queued", "running", "attributing"}
Over  == {"ok", "err", "refused", "dropped"}
Phase == {"none"} \cup Open \cup Over

VARIABLES
    limit,        \* max_concurrent
    recursion,    \* DelegateConfig::allow_recursion
    attribution,  \* whether with_attribution was called
    caller,       \* of a delegation: Main or the delegation whose task calls
    depth,        \* the depth it was sent to the engine with
    agent,        \* current_agent
    phase,        \* where its future is
    left,         \* attempts_left
    task,         \* the delegations whose sub-agent task is alive
    queue,        \* the semaphore's waiters, first come first served
    permits,      \* the semaphore's free permits
    used,         \* AttributionBudget::used
    cancelled,    \* the main run's token
    starts        \* history: sub-agent tasks a delegation has started

future == <<caller, depth, agent, phase, left>>
pool   == <<task, queue, permits, starts>>
config == <<limit, recursion, attribution>>
vars   == <<config, future, pool, used, cancelled>>

Holders     == {d \in Id : phase[d] = "running"}
Children(c) == {d \in Id : phase[d] # "none" /\ caller[d] = c}
OpenBelow(c) == {d \in Children(c) : phase[d] \in Open}
Ended(d)    == phase[d] \in Over

-----------------------------------------------------------------------------
Init ==
    /\ limit \in 1..MaxConcurrent
    /\ recursion \in BOOLEAN /\ attribution \in BOOLEAN
    /\ caller = [d \in Id |-> Main]
    /\ depth = [d \in Id |-> 0]
    /\ agent = [d \in Id |-> CHOOSE a \in Name : TRUE]
    /\ phase = [d \in Id |-> "none"]
    /\ left = [d \in Id |-> 0]
    /\ task = {} /\ queue = <<>> /\ permits = limit
    /\ used = 0 /\ cancelled = FALSE
    /\ starts = [d \in Id |-> 0]

(* The depth a caller finds in its tool context: the main loop's is 1, a   *)
(* sub-agent's the depth it was itself sent with.                          *)
ContextDepth(c) == IF c = Main THEN 1 ELSE depth[c]
MayCall(c) == c = Main \/ (recursion /\ c \in task)

(* The tool is called.  Beyond the limit the recursive tool answers with   *)
(* an error text and the engine with an error: either way nothing starts.  *)
Delegate(c, d, a) ==
    /\ ~cancelled /\ MayCall(c)
    /\ phase[d] = "none" /\ \A e \in Id : e < d => phase[e] # "none"
    /\ caller' = [caller EXCEPT ![d] = c]
    /\ depth' = [depth EXCEPT ![d] = ContextDepth(c) + 1]
    /\ agent' = [agent EXCEPT ![d] = a]
    /\ left' = [left EXCEPT ![d] = MaxRetries + 1]
    /\ phase' = [phase EXCEPT ![d] = IF depth'[d] > MaxDepth THEN "refused" ELSE "starting"]
    /\ UNCHANGED <<config, pool, used, cancelled>>

(* The arm of a failed attempt: up to the next attempt, the question to    *)
(* the attributing model, or the end.                                      *)
Failed(d) ==
    /\ left' = [left EXCEPT ![d] = @ - 1]
    /\ \/ /\ ~attribution \/ left[d] = 1
          /\ phase' = [phase EXCEPT ![d] = "err"] /\ UNCHANGED used
       \/ /\ attribution /\ left[d] > 1 /\ used < MaxAttributions
          /\ phase' = [phase EXCEPT ![d] = "attributing"] /\ used' = used + 1
       \/ /\ attribution /\ left[d] > 1 /\ used >= MaxAttributions
          /\ phase' = [phase EXCEPT ![d] = "starting"] /\ UNCHANGED used
(* An attempt up to its wait for a permit.                                 *)
Begin(d) ==
    /\ phase[d] = "starting"
    /\ UNCHANGED <<config, caller, depth, agent, task, permits, starts, cancelled>>
    /\ \/ agent[d] \notin Registered /\ Failed(d) /\ UNCHANGED queue
       \/ /\ agent[d] \in Registered                   \* the task spec does not render
          /\ phase' = [phase EXCEPT ![d] = "err"] /\ UNCHANGED <<left, used, queue>>
       \/ /\ agent[d] \in Registered
          /\ phase' = [phase EXCEPT ![d] = "queued"] /\ queue' = Append(queue, d)
          /\ UNCHANGED <<left, used>>

\* (fault) a nested delegation that needs no permit of its own
AcquireNested(d) ==
    /\ queue # <<>> /\ Head(queue) = d /\ (permits > 0 \/ caller[d] # Main)
    /\ queue' = Tail(queue) /\ permits' = IF permits > 0 THEN permits - 1 ELSE 0
    /\ phase' = [phase EXCEPT ![d] = "running"]
    /\ task' = task \cup {d} /\ starts' = [starts EXCEPT ![d] = @ + 1]
    /\ UNCHANGED <<config, caller, depth, agent, left, used, cancelled>>

(* The semaphore serves its first waiter; the sub-agent's task is spawned. *)
Acquire(d) ==
    /\ queue # <<>> /\ Head(queue) = d /\ permits > 0
    /\ queue' = Tail(queue) /\ permits' = permits - 1
    /\ phase' = [phase EXCEPT ![d] = "running"]
    /\ task' = task \cup {d} /\ starts' = [starts EXCEPT ![d] = @ + 1]
    /\ UNCHANGED <<config, caller, depth, agent, left, used, cancelled>>
\* (fault) a permit held over the retries
TaskEndsKeeps(d) ==
    /\ d \in task /\ OpenBelow(d) = {}
    /\ task' = task \ {d}
    /\ UNCHANGED <<config, caller, depth, agent, queue, starts, cancelled>>
    /\ \/ /\ phase[d] = "running"
          /\ \/ phase' = [phase EXCEPT ![d] = "ok"] /\ permits' = permits + 1 /\ UNCHANGED <<left, used>>
             \/ Failed(d) /\ UNCHANGED permits
       \/ phase[d] = "dropped" /\ UNCHANGED <<phase, left, permits, used>>

(* A sub-agent's run ends, well or with an error, once every call of its   *)
(* tool segment is over.  The delegation that still collects its stream    *)
(* leaves the attempt, and the permit goes back with it.                   *)
TaskEnds(d) ==
    /\ d \in task /\ OpenBelow(d) = {}
    /\ task' = task \ {d}
    /\ UNCHANGED <<config, caller, depth, agent, queue, starts, cancelled>>
    /\ \/ /\ phase[d] = "running" /\ permits' = permits + 1
          /\ \/ phase' = [phase EXCEPT ![d] = "ok"] /\ UNCHANGED <<left, used>>
             \/ Failed(d)
       \/ phase[d] = "dropped" /\ UNCHANGED <<phase, left, permits, used>>

(* The attributing model answers; an answer that is none counts as Abort.  *)
Attributed(d) ==
    /\ phase[d] = "attributing"
    /\ UNCHANGED <<config, caller, depth, left, pool, used, cancelled>>
    /\ \/ phase' = [phase EXCEPT ![d] = "starting"] /\ UNCHANGED agent
       \/ /\ phase' = [phase EXCEPT ![d] = "starting"]
          /\ agent[d] \in DOMAIN DegradeMap
          /\ agent' = [agent EXCEPT ![d] = DegradeMap[@]]
       \/ phase' = [phase EXCEPT ![d] = "err"] /\ UNCHANGED agent

(* The main run is cancelled: every token below its own is.                *)
Cancel ==
    /\ ~cancelled /\ cancelled' = TRUE
    /\ UNCHANGED <<config, future, pool, used>>

(* The queue without its k-th waiter. *)
Without(q, k) == [i \in 1..Len(q) - 1 |-> IF i < k THEN q[i] ELSE q[i + 1]]

(* The caller's select drops the future: its place in the queue or its     *)
(* permit is free at once, its task is not.                                *)
Drop(d) ==
    /\ cancelled /\ phase[d] \in Open
    /\ phase' = [phase EXCEPT ![d] = "dropped"]
    /\ IF phase[d] = "queued"
       THEN \E k \in 1..Len(queue) : queue[k] = d /\ queue' = Without(queue, k)
       ELSE UNCHANGED queue
    /\ permits' = IF phase[d] = "running" THEN permits + 1 ELSE permits
    /\ UNCHANGED <<config, caller, depth, agent, left, task, starts, used, cancelled>>

Progress(d) == Begin(d) \/ Acquire(d) \/ TaskEnds(d) \/ Attributed(d) \/ Drop(d)

Next ==
    \/ \E c \in {Main} \cup Id, d \in Id, a \in Name : Delegate(c, d, a)
    \/ \E d \in Id : Progress(d)
    \/ Cancel

Fairness ==
    \A d \in Id : /\ WF_vars(Begin(d)) /\ WF_vars(Acquire(d)) /\ WF_vars(TaskEnds(d))
                  /\ WF_vars(Attributed(d)) /\ WF_vars(Drop(d))

Spec == Init /\ [][Next]_vars /\ Fairness

-----------------------------------------------------------------------------
TypeOK ==
    /\ limit \in 1..MaxConcurrent
    /\ recursion \in BOOLEAN /\ attribution \in BOOLEAN /\ cancelled \in BOOLEAN
    /\ caller \in [Id -> {Main} \cup Id]
    /\ depth \in [Id -> 0..MaxDepth + 1]
    /\ agent \in [Id -> Name]
    /\ phase \in [Id -> Phase]
    /\ left \in [Id -> 0..MaxRetries + 1]
    /\ task \subseteq Id
    /\ queue \in Seq(Id)
    /\ permits \in 0..limit
    /\ used \in 0..MaxAttributions
    /\ starts \in [Id -> Nat]

(* Permits are neither lost nor made, whatever failed, was retried or was  *)
(* dropped, and the waiters are the delegations that wait, once each.      *)
PermitsAccounted ==
    /\ permits + Cardinality(Holders) = limit
    /\ {queue[i] : i \in 1..Len(queue)} = {d \in Id : phase[d] = "queued"}
    /\ Len(queue) = Cardinality({d \in Id : phase[d] = "queued"})

(* No more sub-agents work at a time than the configuration allows.  Those *)
(* that only wind down after the cancellation have no permit any more.     *)
ConcurrencyBound == ~cancelled => Cardinality(task) <= limit

(* How far below the main agent a delegation really is: the chain of its   *)
(* callers, counted without the depth each of them was told.               *)
Level[d \in Id] == IF caller[d] = Main \/ caller[d] >= d THEN 2 ELSE Level[caller[d]] + 1

(* No sub-agent runs deeper than max_depth, whatever depth it was told.    *)
NestingBounded == \A d \in task : Level[d] <= MaxDepth

(* One delegation starts its sub-agent at most 1 + max_retries times, with *)
(* the attribution budget left or not, and once where nothing is retried.  *)
AttemptsBounded ==
    \A d \in Id : starts[d] <= IF attribution THEN MaxRetries + 1 ELSE 1

(* Without recursion no delegation waits for ever: neither for a permit    *)
(* nor in its retries.                                                     *)
DelegationsEnd ==
    \A d \in Id : (~recursion /\ phase[d] \in Open) ~> Ended(d)

(* The cancellation of the main run gets through the whole tree, also      *)
(* where delegations wait for one another: no future, permit or task stays *)
(* behind.                                                                 *)
CancelFreesAll ==
    cancelled ~> (task = {} /\ permits = limit /\ \A d \in Id : phase[d] \notin Open)

(* What the configuration promises of recursion: the depth limit is what   *)
(* ends it, "beyond which it degrades gracefully".                         *)
RecursionEnds == \A d \in Id : phase[d] \in Open ~> Ended(d)

-----------------------------------------------------------------------------
(* What is checked: the properties above, by what they are about. *)

\* Permits, concurrency, depth and retries stay within the configuration.
LimitsHold ==
    /\ TypeOK
    /\ PermitsAccounted
    /\ ConcurrencyBound
    /\ NestingBounded
    /\ AttemptsBounded

\* A delegation comes to its end: by itself where nothing nests, and in any case
\* once the main run is cancelled.
DelegationsFinish ==
    /\ DelegationsEnd
    /\ CancelFreesAll

=============================================================================
