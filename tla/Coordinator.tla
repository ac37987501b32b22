----------------------------- MODULE Coordinator -----------------------------
(***************************************************************************)
(* The coordinator: a planner model writes a plan, the plan becomes an     *)
(* execution graph, and the graph executor runs its nodes in waves.        *)
(*                                                                         *)
(* A plan is what the planner may write: nodes 1..PlanSize of some kind,   *)
(* edges with conditions and "depends_on" hints.  A wave of one node runs  *)
(* inline, a larger one as tasks of its own whose outputs are entered as   *)
(* the tasks are joined.  A node retries; a parallel node runs children    *)
(* that end with its action, whichever way that ends.  Tools and           *)
(* delegations leave their results in a bounded history for later steps.   *)
(*                                                                         *)
(* Observe and conditional actions are not modelled: no plan holds them.   *)
(***************************************************************************)
EXTENDS Naturals, Sequences, FiniteSets, Functions

CONSTANTS
    PlanSize,     \* nodes of the plan
    MaxNodes,     \* max_graph_nodes
    Kinds,        \* what the planner may make of each node
    EdgeChoices, HintChoices,  \* the edges and hints it may write
    Timed,        \* nodes with a timeout (callers of the executor set it, plans do not)
    MaxAttempts,  \* retry.max_attempts
    HistoryCap    \* HISTORY_MAX_ENTRIES

Node == 1..PlanSize
Child == {"tool child", "think child"}
Condition == {"none", "failure", "match"}

ASSUME PlanAssumption ==
    /\ {PlanSize, MaxNodes, MaxAttempts, HistoryCap} \subseteq Nat \ {0}
    /\ Kinds \in [Node -> SUBSET {"think", "tool", "write", "delegate", "parallel", "parallel write"}]
    /\ EdgeChoices \subseteq Node \X Node \X Condition /\ HintChoices \subseteq Node \X Node
    /\ Timed \subseteq Node

VARIABLES
    kind,       \* the plan: kind, wrote and hints
    wrote, hints,  \* (dropped once it is parsed)
    graph,      \* ExecutionGraph: its nodes and edges
    phase,      \* of run_coordinator
    waves, wave, \* the waves, and the one being run
    considered, \* nodes of the wave the spawn loop has been through
    task,       \* what a node's task is doing
    attempt,    \* attempts of a node
    result,     \* what its task ended with
    outputs,    \* the executor's outputs
    completed,  \* of the ExecutionResult
    children,   \* the children of a parallel node's action
    strays,     \* aborted children that have not noticed yet
    history,    \* the coordinator's history of results
    seen,       \* history: the results a step was given when it last began,
                \* and the age of each node's then
    age,        \* history: how many results were added since a node's last
    ran,        \* history: kinds of tools that were called
    attributed  \* history: how often the attribution hook was called for a node

plan  == <<kind, wrote, hints>>
tasks == <<task, attempt, result, children, strays>>
notes == <<history, age, ran, seen, attributed>>
vars  == <<plan, graph, phase, waves, wave, considered, tasks, outputs, completed, notes>>

Never == HistoryCap + 1
NoChildren == [c \in Child |-> "none"]

Init ==
    /\ kind \in {k \in [Node -> UNION Range(Kinds)] : \A n \in Node : k[n] \in Kinds[n]}
    /\ wrote \in SUBSET EdgeChoices /\ hints \in SUBSET HintChoices
    /\ graph = [nodes |-> {}, edges |-> {}]
    /\ phase = "planning" /\ waves = <<>> /\ wave = 0 /\ considered = {}
    /\ task = [n \in Node |-> "idle"] /\ attempt = [n \in Node |-> 0]
    /\ result = [n \in Node |-> "none"]
    /\ outputs = [n \in Node |-> "open"] /\ completed = TRUE
    /\ children = [n \in Node |-> NoChildren] /\ strays = {}
    /\ history = <<>> /\ age = [n \in Node |-> Never]
    /\ seen = [n \in Node |-> [given |-> <<>>, age |-> age]]
    /\ ran = {} /\ attributed = [n \in Node |-> 0]

-----------------------------------------------------------------------------
(* From the plan to the graph.                                             *)

(* The first MaxNodes nodes; a hint becomes an edge unless an edge is      *)
(* written between the two; edges with an end outside are dropped.         *)
Parsed ==
    LET kept == {n \in Node : n <= MaxNodes}
        fromHints == {<<h[1], h[2], "none">> :
                        h \in {h \in hints : \A e \in wrote : <<e[1], e[2]>> # h}}
    IN  [nodes |-> kept, edges |-> {e \in wrote \cup fromHints : e[1] \in kept /\ e[2] \in kept}]

Allowed(n) == kind[n] \notin {"write", "parallel write"}

Sources(n) == {e[1] : e \in {e \in graph.edges : e[2] = n}}

\* (fault) a node joins a wave when one of its sources is placed
PlacedByAny[k \in 0..PlanSize] ==
    IF k = 0 THEN {}
    ELSE PlacedByAny[k - 1] \cup {n \in graph.nodes :
            Sources(n) = {} \/ Sources(n) \cap PlacedByAny[k - 1] # {}}

(* The nodes of the first k waves: each wave takes every node all of whose *)
(* sources are placed.                                                     *)
Placed[k \in 0..PlanSize] ==
    IF k = 0 THEN {}
    ELSE Placed[k - 1] \cup {n \in graph.nodes : Sources(n) \subseteq Placed[k - 1]}

\* (fault) waves by the sources already met
WavesByAny == [k \in 1..PlanSize |-> PlacedByAny[k] \ PlacedByAny[k - 1]]
Waves == [k \in 1..PlanSize |-> Placed[k] \ Placed[k - 1]]
Sortable == Placed[PlanSize] = graph.nodes

(* An answer that is no plan becomes one step that thinks about the goal.  *)
Fallback == [nodes |-> {1}, edges |-> {}]

Plan ==
    /\ phase = "planning"
    /\ \/ /\ graph' = Parsed /\ UNCHANGED kind
          /\ phase' = IF \A n \in Parsed.nodes : Allowed(n) THEN "planned" ELSE "failed"
       \/ /\ graph' = Fallback /\ kind' = [n \in Node |-> "think"]
          /\ phase' = "planned"
    /\ wrote' = {} /\ hints' = {}
    /\ UNCHANGED <<waves, wave, considered, tasks, outputs, completed, notes>>

(* The planner's request fails: the run ends with its error.               *)
NoPlan ==
    /\ phase = "planning"
    /\ phase' = "failed"
    /\ UNCHANGED <<plan, graph, waves, wave, considered, tasks, outputs, completed, notes>>

Sort ==
    /\ phase = "planned"
    /\ phase' = (IF Sortable THEN "running" ELSE "failed")
    /\ waves' = Waves /\ wave' = 1
    /\ UNCHANGED <<plan, graph, considered, tasks, outputs, completed, notes>>

-----------------------------------------------------------------------------
(* The waves.                                                              *)

(* An edge without a condition is read as one that asks for success.       *)
Satisfies(o, c) ==
    \/ c = "none"    /\ o \in {"text", "tool", "match"}
    \/ c = "failure" /\ o = "error"
    \/ c = "match"   /\ o = "match"

Skips(n) ==
    LET into == {e \in graph.edges : e[2] = n}
    IN  into # {} /\ ~\E e \in into : Satisfies(outputs[e[1]], e[3])

Skip(n) ==
    /\ phase = "running" /\ n \in waves[wave] \ considered /\ Skips(n)
    /\ considered' = considered \cup {n}
    /\ outputs' = [outputs EXCEPT ![n] = "skipped"] /\ task' = [task EXCEPT ![n] = "over"]
    /\ UNCHANGED <<plan, graph, phase, waves, wave, attempt, result, children, strays, completed, notes>>

IsParallel(n) == kind[n] \in {"parallel", "parallel write"}

(* The next attempt of a node: a step that thinks is given the history.    *)
Act(n) ==
    /\ task' = [task EXCEPT ![n] = "acting"] /\ attempt' = [attempt EXCEPT ![n] = @ + 1]
    /\ children' = [children EXCEPT ![n] = IF IsParallel(n) THEN [c \in Child |-> "running"] ELSE @]
    /\ seen' = [seen EXCEPT ![n] = IF kind[n] = "think"
                                    THEN [given |-> history, age |-> age] ELSE @]
    /\ UNCHANGED <<plan, graph, phase, waves, wave, result, strays, outputs, completed, history, age, ran,
                   attributed>>

Begin(n) ==
    /\ phase = "running" /\ n \in waves[wave] \ considered /\ ~Skips(n)
    /\ considered' = considered \cup {n}
    /\ Act(n)

Retry(n) == task[n] = "backoff" /\ Act(n) /\ UNCHANGED considered

\* (fault) a task that panicked is not joined
JoinResults(n) ==
    /\ phase = "running" /\ waves[wave] \subseteq considered /\ task[n] = "finished"
    /\ result[n] # "panic"
    /\ outputs' = [outputs EXCEPT ![n] = result[n]] /\ task' = [task EXCEPT ![n] = "over"]
    /\ completed' = (completed /\ result[n] # "error")
    /\ UNCHANGED <<plan, graph, phase, waves, wave, considered, attempt, result, children, strays, notes>>

(* The spawn loop is through, and a task is joined.  A panic leaves no     *)
(* output; that of a node run inline takes the whole run with it.          *)
Join(n) ==
    /\ phase = "running" /\ waves[wave] \subseteq considered /\ task[n] = "finished"
    /\ \/ /\ result[n] = "panic" /\ waves[wave] = {n}
          /\ phase' = "dead" /\ UNCHANGED <<task, outputs, completed>>
       \/ /\ result[n] = "panic" /\ waves[wave] # {n}
          /\ task' = [task EXCEPT ![n] = "over"] /\ completed' = FALSE
          /\ UNCHANGED <<phase, outputs>>
       \/ /\ result[n] # "panic"
          /\ outputs' = [outputs EXCEPT ![n] = result[n]] /\ task' = [task EXCEPT ![n] = "over"]
          /\ completed' = (completed /\ result[n] # "error")
          /\ UNCHANGED phase
    /\ UNCHANGED <<plan, graph, waves, wave, considered, attempt, result, children, strays, notes>>

(* After the last wave the outputs are reported, and Done, whatever        *)
(* "completed" says.                                                       *)
NextWave ==
    /\ phase = "running" /\ \A n \in waves[wave] : task[n] = "over"
    /\ IF wave = PlanSize \/ waves[wave + 1] = {}
       THEN phase' = "done" /\ UNCHANGED <<wave, considered>>
       ELSE wave' = wave + 1 /\ considered' = {} /\ UNCHANGED phase
    /\ UNCHANGED <<plan, graph, waves, tasks, outputs, completed, notes>>

-----------------------------------------------------------------------------
(* One node's task.                                                        *)

(* An attempt ends with o: an error is retried while attempts are left,    *)
(* and attributed when none is.                                            *)
Settle(n, o) ==
    IF o = "error" /\ attempt[n] < MaxAttempts
    THEN task' = [task EXCEPT ![n] = "backoff"] /\ UNCHANGED <<result, attributed>>
    ELSE /\ task' = [task EXCEPT ![n] = "finished"] /\ result' = [result EXCEPT ![n] = o]
         /\ attributed' = [attributed EXCEPT ![n] = IF o = "error" THEN @ + 1 ELSE @]

\* (fault) the newest entry gives way
AddOldest(h, n) == IF Len(h) < HistoryCap THEN Append(h, n) ELSE h
Add(h, n) == IF Len(h) < HistoryCap THEN Append(h, n) ELSE Append(Tail(h), n)

Note(n) ==
    /\ history' = Add(history, n)
    /\ age' = [p \in Node |-> IF p = n THEN 0 ELSE IF age[p] < HistoryCap THEN age[p] + 1 ELSE age[p]]

others == <<plan, graph, phase, waves, wave, considered, attempt, outputs, completed, seen>>

Think(n) ==
    /\ task[n] = "acting" /\ kind[n] = "think"
    /\ \E o \in {"text", "error", "panic"} : Settle(n, o)
    /\ UNCHANGED <<others, children, strays, history, age, ran>>

(* A tool's result or error goes to the history; a call the permission     *)
(* gate refuses is a result too, and leaves nothing there.                 *)
CallTool(n) ==
    /\ task[n] = "acting" /\ kind[n] \in {"tool", "write"}
    /\ \/ /\ \E o \in {"tool", "match", "error"} : Settle(n, o)
          /\ Note(n) /\ ran' = ran \cup {kind[n]}
       \/ \E o \in {"tool", "panic"} : Settle(n, o) /\ UNCHANGED <<history, age, ran>>
    /\ UNCHANGED <<others, children, strays>>

Delegate(n) ==
    /\ task[n] = "acting" /\ kind[n] = "delegate"
    /\ \/ Settle(n, "text") /\ Note(n)
       \/ Settle(n, "error") /\ UNCHANGED <<history, age>>
    /\ UNCHANGED <<others, children, strays, ran>>

ChildEnds(n, c) ==
    /\ children[n][c] = "running"
    /\ \E how \in {"ok", "error", "panicked"} : children' = [children EXCEPT ![n][c] = how]
    /\ IF c = "tool child" /\ children'[n][c] # "panicked"
       THEN Note(n) /\ ran' = ran \cup {IF kind[n] = "parallel" THEN "tool" ELSE "write"}
       ELSE UNCHANGED <<history, age, ran>>
    /\ UNCHANGED <<others, task, result, strays, attributed>>

Running(n) == {c \in Child : children[n][c] = "running"}

\* (fault) the action's end leaves the children to themselves
LeaveChildren(n) == UNCHANGED <<children, strays>>

(* The join set goes with the action: what still runs is aborted.          *)
AbortChildren(n) ==
    /\ strays' = strays \cup {<<n, c>> : c \in Running(n)}
    /\ children' = [children EXCEPT ![n] = NoChildren]

(* All children are back, or one has panicked.                             *)
Parallel(n) ==
    /\ task[n] = "acting" /\ IsParallel(n)
    /\ \/ \E c \in Child : children[n][c] = "panicked" /\ Settle(n, "error")
       \/ /\ \A c \in Child : children[n][c] \in {"ok", "error"}
          /\ Settle(n, IF \A c \in Child : children[n][c] = "error" THEN "error" ELSE "text")
    /\ AbortChildren(n)
    /\ UNCHANGED <<others, history, age, ran>>

Timeout(n) ==
    /\ n \in Timed /\ task[n] = "acting"
    /\ Settle(n, "error") /\ AbortChildren(n)
    /\ UNCHANGED <<others, history, age, ran>>

(* An aborted child stops where it waits next; its call may be through.    *)
StrayStops(n, c) ==
    /\ <<n, c>> \in strays
    /\ strays' = strays \ {<<n, c>>}
    /\ \/ c = "tool child" /\ Note(n)
       \/ UNCHANGED <<history, age>>
    /\ UNCHANGED <<others, task, result, children, attributed, ran>>

Task(n) ==
    \/ Retry(n) \/ Think(n) \/ CallTool(n) \/ Delegate(n) \/ Parallel(n) \/ Timeout(n)
    \/ \E c \in Child : ChildEnds(n, c)

Executor == Sort \/ NextWave \/ \E n \in Node : Skip(n) \/ Begin(n) \/ Join(n)

Next ==
    \/ Plan \/ NoPlan \/ Executor
    \/ \E n \in Node : Task(n) \/ \E c \in Child : StrayStops(n, c)

(* The planner, the callbacks and the tasks come back.                     *)
Spec == Init /\ [][Next]_vars /\ WF_vars(Plan \/ NoPlan) /\ WF_vars(Executor)
             /\ \A n \in Node : WF_vars(Task(n))

-----------------------------------------------------------------------------
TypeOK ==
    /\ kind \in [Node -> (UNION Range(Kinds)) \cup {"think"}]
    /\ graph.nodes \subseteq Node /\ graph.edges \subseteq graph.nodes \X graph.nodes \X Condition
    /\ phase \in {"planning", "planned", "running", "done", "failed", "dead"}
    /\ waves \in Seq(SUBSET graph.nodes) /\ wave \in 0..PlanSize /\ considered \subseteq graph.nodes
    /\ task \in [Node -> {"idle", "acting", "backoff", "finished", "over"}]
    /\ attempt \in [Node -> 0..MaxAttempts]
    /\ result \in [Node -> {"none", "text", "tool", "match", "error", "panic"}]
    /\ outputs \in [Node -> {"open", "text", "tool", "match", "error", "skipped"}]
    /\ completed \in BOOLEAN
    /\ children \in [Node -> [Child -> {"none", "running", "ok", "error", "panicked"}]]
    /\ strays \subseteq Node \X Child
    /\ history \in Seq(Node) /\ Len(history) <= HistoryCap
    /\ age \in [Node -> 0..Never]
    /\ seen \in [Node -> [given : Seq(Node), age : [Node -> 0..Never]]]
    /\ ran \subseteq {"tool", "write"} /\ attributed \in [Node -> Nat]

(* The waves are a schedule and nothing more: the executor decides each    *)
(* node once, from the final outputs of its sources.  What an edge without *)
(* a condition asks for after a failed or skipped source is left open.     *)
Graph == INSTANCE Dataflow WITH
    nodes <- graph.nodes, edges <- graph.edges, over <- phase = "done",
    out <- [n \in Node |-> IF outputs[n] # "open" THEN outputs[n]
                           ELSE IF task[n] = "over" THEN "lost" ELSE "open"]
DataflowSpec == Graph!Spec

(* A tool that writes is not called for the planner, however deep in the   *)
(* plan it names it.                                                       *)
NoPlannedWrite == "write" \notin ran

(* A child runs only under an attempt of its node that is going on.        *)
ChildrenOfLiveAttempt == \A n \in Node : Running(n) # {} => task[n] = "acting"

(* A node fails after all its attempts, is attributed once, and the result *)
(* says so.                                                                *)
FailuresAreFinal ==
    /\ \A n \in Node : attributed[n] = (IF result[n] = "error" THEN 1 ELSE 0)
    /\ \A n \in Node : result[n] = "error" => attempt[n] = MaxAttempts
    /\ phase = "done" => (completed <=> \A n \in graph.nodes : outputs[n] \notin {"error", "open"})

LeftResult(p) == outputs[p] = "match" \/ (kind[p] = "delegate" /\ outputs[p] = "text")

(* A step that thinks is given the result of each step it depends on,      *)
(* unless HistoryCap results were added after it.                          *)
StepsSeeResults ==
    \A n \in graph.nodes : task[n] = "acting" /\ kind[n] = "think" =>
        \A p \in Sources(n) : LeftResult(p) =>
            p \in Range(seen[n].given) \/ seen[n].age[p] = HistoryCap

(* A run ends: with Done, an error, or the end of its stream.              *)
RunEnds == <>(phase \in {"done", "failed", "dead"})

-----------------------------------------------------------------------------
(* What is checked: the properties above, by what they are about. *)

\* Nothing that writes is called for the planner, no attempt outlives its node,
\* and a failure is final, attributed once and reported.
WavesAreSound ==
    /\ TypeOK
    /\ NoPlannedWrite
    /\ ChildrenOfLiveAttempt
    /\ FailuresAreFinal

=============================================================================
