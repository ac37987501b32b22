-------------------------- MODULE CoordinatorProofs --------------------------
(***************************************************************************)
(* Proofs about Coordinator, for plans of any size, any kinds, edges and   *)
(* hints a planner may write, any limits on nodes, attempts and results.   *)
(*                                                                         *)
(* The heart is what the waves owe to the graph (WavesOrdered: each node   *)
(* is in one wave, after its sources) and how far the run has gone through *)
(* them (Progress).  From these a node that began has all its sources      *)
(* decided, and what it was told of them and whether it was to be skipped  *)
(* stay true while it runs (NodesKept).                                    *)
(***************************************************************************)
EXTENDS Coordinator, FiniteSetTheorems, SequenceTheorems, WellFoundedInduction, TLAPS

Kind == (UNION Range(Kinds)) \cup {"think"}
Status == {"idle", "acting", "backoff", "finished", "over"}
Result == {"none", "text", "tool", "match", "error", "panic"}
Output == {"open", "text", "tool", "match", "error", "skipped"}
ChildStatus == {"none", "running", "ok", "error", "panicked"}

(* TypeOK, with what is left of the plan. *)
StateOK ==
    /\ TypeOK
    /\ wrote \subseteq EdgeChoices /\ hints \subseteq HintChoices
    /\ DOMAIN graph = {"nodes", "edges"}

(* Before the waves begin no node has been touched, and only a plan whose  *)
(* nodes are allowed gets that far.                                        *)
Begun == phase \in {"running", "done", "dead"}

PlanKept ==
    /\ phase \in {"planning", "planned"} => waves = <<>>
    /\ phase = "planning" => graph.nodes = {} /\ graph.edges = {}
    /\ phase # "planning" => graph.nodes # {} \/ phase = "failed"
    /\ phase \notin {"planning", "failed"} => \A n \in graph.nodes : Allowed(n)
    /\ ~Begun => considered = {} /\ \A n \in Node : task[n] = "idle"

(* Every node is in one wave, after all its sources; an empty wave is      *)
(* followed by empty ones.                                                 *)
WavesOrdered ==
    /\ Len(waves) = PlanSize
    /\ \A i, j \in 1..PlanSize : i # j => waves[i] \cap waves[j] = {}
    /\ \A n \in graph.nodes : \E k \in 1..PlanSize : n \in waves[k]
    /\ \A k \in 1..PlanSize : \A n \in waves[k] : \A p \in Sources(n) :
         \E j \in 1..(k - 1) : p \in waves[j]
    /\ \A k \in 1..(PlanSize - 1) : waves[k] = {} => waves[k + 1] = {}

Progress ==
    /\ wave \in 1..PlanSize /\ considered \subseteq waves[wave]
    /\ \A j \in 1..PlanSize : \A n \in waves[j] :
         /\ j < wave => task[n] = "over"
         /\ j = wave => (task[n] = "idle" <=> n \notin considered)
         /\ j > wave => task[n] = "idle"
    /\ phase = "done" => \A n \in graph.nodes : task[n] = "over"

Owing(n) ==
    /\ task[n] = "idle" => attempt[n] = 0
    /\ task[n] = "backoff" => attempt[n] < MaxAttempts
    /\ task[n] \in {"idle", "acting", "backoff"} => result[n] = "none"
    /\ task[n] = "finished" => result[n] # "none"
    /\ task[n] # "over" => outputs[n] = "open"
    /\ task[n] = "over" =>
         \/ outputs[n] = "skipped" /\ result[n] = "none"
         \/ outputs[n] = "open" /\ result[n] = "panic"
         \/ outputs[n] = result[n] /\ result[n] \notin {"none", "panic"}
    /\ children[n] # NoChildren => task[n] = "acting" /\ IsParallel(n)
    /\ attributed[n] = (IF result[n] = "error" THEN 1 ELSE 0)
    /\ result[n] = "error" => attempt[n] = MaxAttempts
    /\ result[n] = "match" \/ (kind[n] = "delegate" /\ result[n] = "text") => age[n] # Never

Informed(n) ==
    task[n] = "acting" /\ kind[n] = "think" =>
        \A p \in Sources(n) : LeftResult(p) =>
            p \in Range(seen[n].given) \/ seen[n].age[p] = HistoryCap

Started(n) ==
    /\ task[n] # "idle" =>
         n \in graph.nodes /\ Allowed(n) /\ \A p \in Sources(n) : task[p] = "over"
    /\ task[n] \in {"acting", "backoff", "finished"} => ~Skips(n)

NodesKept == \A n \in Node : Owing(n) /\ Started(n) /\ Informed(n)

(* A result is found in the history as far from its end as its age says,   *)
(* until HistoryCap others were added.                                     *)
HistoryAged ==
    \A p \in Node : age[p] < HistoryCap =>
        age[p] < Len(history) /\ history[Len(history) - age[p]] = p

FailuresTold ==
    completed <=> \A n \in Node : task[n] = "over" => outputs[n] \notin {"error", "open"}

CoordinatorInvariant ==
    /\ StateOK
    /\ PlanKept
    /\ Begun => WavesOrdered /\ Progress
    /\ NodesKept
    /\ HistoryAged
    /\ FailuresTold
    /\ NoPlannedWrite

-----------------------------------------------------------------------------
(* The waves. *)

LEMMA LeastExists ==
    ASSUME NEW S \in SUBSET Nat, S # {}
    PROVE  \E i \in S : \A j \in S : i <= j
<1>1. PICK i \in S : \A j \in S : <<j, i>> \notin OpToRel(<, Nat)
  BY WFMin, NatLessThanWellFounded, Zenon
<1>2. \A j \in S : ~(j < i)
  BY <1>1, Zenon DEF OpToRel
<1>3. QED
  BY <1>2

LEMMA BoundsAreNumbers ==
    /\ PlanSize \in Nat \ {0} /\ MaxNodes \in Nat \ {0}
    /\ MaxAttempts \in Nat \ {0} /\ HistoryCap \in Nat \ {0}
    /\ Node \subseteq Nat \ {0} /\ 1 \in Node
    /\ 0 \in 0..PlanSize /\ PlanSize \in 0..PlanSize /\ 0..PlanSize \in SUBSET Nat
<1>1. {PlanSize, MaxNodes, MaxAttempts, HistoryCap} \subseteq Nat \ {0}
  BY PlanAssumption
<1>2. PlanSize \in Nat \ {0} /\ MaxNodes \in Nat \ {0}
      /\ MaxAttempts \in Nat \ {0} /\ HistoryCap \in Nat \ {0}
  BY <1>1
<1>3. QED
  BY <1>2 DEF Node

(* Placed can be computed wave by wave, so it satisfies its equation. *)
LEMMA PlacedEquation ==
    /\ Placed[0] = {}
    /\ \A k \in 1..PlanSize :
         Placed[k] = Placed[k - 1] \cup {n \in graph.nodes : Sources(n) \subseteq Placed[k - 1]}
<1> DEFINE Grown(S) == S \cup {n \in graph.nodes : Sources(n) \subseteq S}
           Good(m, f) == /\ f \in [0..m -> SUBSET graph.nodes] /\ f[0] = {}
                         /\ \A k \in 1..m : f[k] = Grown(f[k - 1])
           F(f) == [k \in 0..PlanSize |-> IF k = 0 THEN {} ELSE Grown(f[k - 1])]
           bad == {m \in Nat : ~\E f : Good(m, f)}
<1>1. bad = {}
  <2> SUFFICES ASSUME bad # {} PROVE FALSE
    OBVIOUS
  <2>1. PICK m \in bad : \A b \in bad : m <= b
    <3> HIDE DEF Good
    <3>1. bad \in SUBSET Nat
      OBVIOUS
    <3>2. QED
      BY <3>1, LeastExists
  <2>2. CASE m = 0
    <3>1. Good(0, [k \in 0..0 |-> {}])
      OBVIOUS
    <3>2. QED
      BY <2>1, <2>2, <3>1
  <2>3. CASE m # 0
    <3>1. m \in Nat /\ m - 1 \in Nat /\ m - 1 \notin bad
      <4> HIDE DEF Good
      <4>1. QED
        BY <2>1, <2>3
    <3>2. PICK f : Good(m - 1, f)
      <4> HIDE DEF Good
      <4>1. QED
        BY <3>1
    <3> DEFINE g == [k \in 0..m |-> IF k = m THEN Grown(f[m - 1]) ELSE f[k]]
    <3>3. \A k \in 0..(m - 1) : g[k] = f[k] /\ f[k] \in SUBSET graph.nodes
      BY <3>1, <3>2
    <3>4. g[m] = Grown(f[m - 1]) /\ Grown(f[m - 1]) \in SUBSET graph.nodes
      <4>1. m \in 0..m /\ m - 1 \in 0..(m - 1)
        BY <3>1
      <4>2. QED
        BY <3>3, <4>1
    <3>5. g \in [0..m -> SUBSET graph.nodes]
      <4>1. \A k \in 0..m : k = m \/ k \in 0..(m - 1)
        BY <3>1
      <4> HIDE DEF Grown
      <4>2. \A k \in 0..m : (IF k = m THEN Grown(f[m - 1]) ELSE f[k]) \in SUBSET graph.nodes
        BY <3>3, <3>4, <4>1
      <4>3. QED
        BY <4>2
    <3>6. \A k \in 1..m : g[k] = Grown(g[k - 1])
      <4> SUFFICES ASSUME NEW k \in 1..m PROVE g[k] = Grown(g[k - 1])
        OBVIOUS
      <4>1. k - 1 \in 0..(m - 1) /\ g[k - 1] = f[k - 1]
        BY <3>1, <3>3
      <4>2. CASE k = m
        BY <3>4, <4>1, <4>2
      <4>3. CASE k # m
        <5>1. k \in 1..(m - 1) /\ k \in 0..(m - 1)
          BY <3>1, <4>3
        <5>2. f[k] = Grown(f[k - 1])
          BY <3>2, <5>1
        <5>3. QED
          BY <3>3, <4>1, <5>1, <5>2
      <4>4. QED
        BY <4>2, <4>3
    <3>7. g[0] = {}
      BY <3>1, <3>2, <3>3
    <3> HIDE DEF g
    <3>8. Good(m, g)
      BY <3>5, <3>6, <3>7
    <3> HIDE DEF Good
    <3>9. QED
      BY <2>1, <3>8
  <2>4. QED
    BY <2>2, <2>3
<1>2. PICK f : Good(PlanSize, f)
  <2> HIDE DEF Good
  <2>1. QED
    BY <1>1, BoundsAreNumbers
<1>3. f = F(f)
  <2>1. \A k \in 0..PlanSize : f[k] = F(f)[k]
    BY <1>2, BoundsAreNumbers
  <2>2. QED
    BY <1>2, <2>1
<1>4. Placed = F(Placed)
  <2>1. Placed = CHOOSE h : h = F(h)
    BY DEF Placed
  <2> HIDE DEF F
  <2>2. QED
    BY <1>3, <2>1
<1>5. Placed[0] = {}
  BY <1>4, BoundsAreNumbers
<1>6. ASSUME NEW k \in 1..PlanSize PROVE Placed[k] = Grown(Placed[k - 1])
  <2>1. k \in 0..PlanSize /\ k # 0
    BY BoundsAreNumbers
  <2> HIDE DEF Grown
  <2>2. QED
    BY <1>4, <2>1
<1>7. QED
  BY <1>5, <1>6

LEMMA PlacedGrows ==
    /\ \A k \in 0..PlanSize : Placed[k] \subseteq graph.nodes
    /\ \A i, j \in 0..PlanSize : i <= j => Placed[i] \subseteq Placed[j]
<1> DEFINE out == {k \in 0..PlanSize : ~(Placed[k] \subseteq graph.nodes)}
           lost(i) == {k \in 0..PlanSize : i <= k /\ ~(Placed[i] \subseteq Placed[k])}
<1>1. out = {}
  <2> SUFFICES ASSUME out # {} PROVE FALSE
    OBVIOUS
  <2>1. PICK k \in out : \A b \in out : k <= b
    <3>1. out \in SUBSET Nat
      BY BoundsAreNumbers
    <3>2. QED
      BY <3>1, LeastExists
  <2>2. k # 0
    BY PlacedEquation
  <2>3. k - 1 \in 0..PlanSize /\ k - 1 \notin out /\ k \in 1..PlanSize
    BY <2>1, <2>2, BoundsAreNumbers
  <2>4. QED
    BY <2>3, PlacedEquation
<1>2. ASSUME NEW i \in 0..PlanSize PROVE lost(i) = {}
  <2> SUFFICES ASSUME lost(i) # {} PROVE FALSE
    OBVIOUS
  <2>1. PICK k \in lost(i) : \A b \in lost(i) : k <= b
    <3>1. lost(i) \in SUBSET Nat
      BY BoundsAreNumbers
    <3>2. QED
      BY <3>1, LeastExists
  <2>2. k # i
    OBVIOUS
  <2>3. k - 1 \in 0..PlanSize /\ i <= k - 1 /\ k - 1 \notin lost(i) /\ k \in 1..PlanSize
    BY <2>1, <2>2, BoundsAreNumbers
  <2>4. QED
    BY <2>3, PlacedEquation
<1>3. QED
  BY <1>1, <1>2

(* A placed node was placed by one of the waves. *)
LEMMA PlacedByWave ==
    ASSUME NEW k \in 0..PlanSize, NEW n \in Placed[k]
    PROVE  \E j \in 1..k : n \in Waves[j]
<1> DEFINE at == {j \in 0..PlanSize : n \in Placed[j]}
<1>1. PICK j \in at : \A b \in at : j <= b
  <2>1. at \in SUBSET Nat
    BY BoundsAreNumbers
  <2>2. QED
    BY <2>1, LeastExists
<1>2. j # 0 /\ j <= k
  BY <1>1, PlacedEquation
<1>3. j - 1 \in 0..PlanSize /\ j - 1 \notin at /\ j \in 1..PlanSize /\ j \in 1..k
  BY <1>1, <1>2, BoundsAreNumbers
<1>4. n \in Waves[j]
  BY <1>3 DEF Waves
<1>5. QED
  BY <1>3, <1>4

(* What the sort leaves when it comes through: the order of WavesOrdered. *)
LEMMA WavesFromPlaced ==
    /\ Waves \in Seq(SUBSET graph.nodes) /\ Len(Waves) = PlanSize
    /\ \A i, j \in 1..PlanSize : i # j => Waves[i] \cap Waves[j] = {}
    /\ Sortable => \A n \in graph.nodes : \E k \in 1..PlanSize : n \in Waves[k]
    /\ \A k \in 1..PlanSize : \A n \in Waves[k] : \A p \in Sources(n) :
         \E j \in 1..(k - 1) : p \in Waves[j]
    /\ \A k \in 1..(PlanSize - 1) : Waves[k] = {} => Waves[k + 1] = {}
<1>1. \A k \in 1..PlanSize :
        /\ Waves[k] = Placed[k] \ Placed[k - 1] /\ k - 1 \in 0..PlanSize /\ k \in 0..PlanSize
        /\ Placed[k - 1] \subseteq Placed[k]
  BY PlacedGrows, BoundsAreNumbers DEF Waves
<1>2. Waves \in Seq(SUBSET graph.nodes) /\ Len(Waves) = PlanSize
  <2>1. Waves \in [1..PlanSize -> SUBSET graph.nodes]
    BY <1>1, PlacedGrows DEF Waves
  <2>2. QED
    BY <2>1, BoundsAreNumbers, SeqDef, LenProperties
<1>3. ASSUME NEW i \in 1..PlanSize, NEW j \in 1..PlanSize, i < j
      PROVE  Waves[i] \cap Waves[j] = {}
  <2>1. Placed[i] \subseteq Placed[j - 1]
    BY <1>1, <1>3, PlacedGrows, BoundsAreNumbers
  <2>2. QED
    BY <1>1, <2>1
<1>4. \A i, j \in 1..PlanSize : i # j => Waves[i] \cap Waves[j] = {}
  <2> SUFFICES ASSUME NEW i \in 1..PlanSize, NEW j \in 1..PlanSize, i # j
               PROVE  Waves[i] \cap Waves[j] = {}
    OBVIOUS
  <2>1. CASE i < j
    BY <1>3, <2>1
  <2>2. CASE j < i
    BY <1>3, <2>2
  <2>3. QED
    BY <2>1, <2>2, BoundsAreNumbers
<1>5. Sortable => \A n \in graph.nodes : \E k \in 1..PlanSize : n \in Waves[k]
  BY PlacedByWave, BoundsAreNumbers DEF Sortable
<1>6. ASSUME NEW k \in 1..PlanSize, NEW n \in Waves[k], NEW p \in Sources(n)
      PROVE  \E j \in 1..(k - 1) : p \in Waves[j]
  <2>1. p \in Placed[k - 1]
    BY <1>1, <1>6, PlacedEquation
  <2>2. QED
    BY <1>1, <2>1, PlacedByWave
<1>7. ASSUME NEW k \in 1..(PlanSize - 1), Waves[k] = {} PROVE Waves[k + 1] = {}
  <2>1. k \in 1..PlanSize /\ k + 1 \in 1..PlanSize /\ (k + 1) - 1 = k
    BY BoundsAreNumbers
  <2>2. Placed[k] = Placed[k - 1]
    <3>1. Waves[k] = Placed[k] \ Placed[k - 1] /\ Placed[k - 1] \subseteq Placed[k]
      BY <1>1, <2>1
    <3>2. \A S, T : S \ T = {} /\ T \subseteq S => S = T
      OBVIOUS
    <3>3. QED
      BY <1>7, <3>1, <3>2
  <2>3. Placed[k + 1] = Placed[k]
    <3>1. Placed[k] = Placed[k - 1] \cup {n \in graph.nodes : Sources(n) \subseteq Placed[k - 1]}
      BY <2>1, PlacedEquation
    <3>2. Placed[k + 1] = Placed[k] \cup {n \in graph.nodes : Sources(n) \subseteq Placed[k]}
      <4>1. Placed[k + 1] = Placed[(k + 1) - 1]
                              \cup {n \in graph.nodes : Sources(n) \subseteq Placed[(k + 1) - 1]}
        BY <2>1, PlacedEquation, Zenon
      <4>2. QED
        BY <2>1, <4>1
    <3>3. QED
      BY <2>2, <3>1, <3>2
  <2>4. QED
    BY <1>1, <2>1, <2>3
<1>8. QED
  BY <1>2, <1>4, <1>5, <1>6, <1>7

-----------------------------------------------------------------------------
(* What the steps of a node do. *)

Busy == {"acting", "backoff", "finished"}

Noted == UNCHANGED <<history, age>> \/ \E m \in Node : Note(m)

(* Only the node n moves. *)
Alone(n) ==
    /\ UNCHANGED <<kind, wrote, hints, graph, waves, wave>>
    /\ \A m \in Node \ {n} :
         /\ task'[m] = task[m] /\ attempt'[m] = attempt[m] /\ result'[m] = result[m]
         /\ outputs'[m] = outputs[m] /\ children'[m] = children[m]
         /\ attributed'[m] = attributed[m] /\ seen'[m] = seen[m]
    /\ Noted

(* A step of the task of n, which began before it and is joined after it. *)
Works(n) ==
    /\ Alone(n)
    /\ UNCHANGED <<phase, considered, outputs, completed>>
    /\ task'[n] = task[n] \/ {task[n], task'[n]} \subseteq Busy

(* The types of what only these steps change. *)
TasksTyped ==
    /\ task \in [Node -> Status] /\ attempt \in [Node -> 0..MaxAttempts]
    /\ result \in [Node -> Result] /\ attributed \in [Node -> Nat]
    /\ children \in [Node -> [Child -> ChildStatus]] /\ strays \subseteq Node \X Child

NotesTyped ==
    /\ history \in Seq(Node) /\ Len(history) <= HistoryCap
    /\ age \in [Node -> 0..Never]
    /\ seen \in [Node -> [given : Seq(Node), age : [Node -> 0..Never]]]

GraphTyped ==
    /\ kind \in [Node -> Kind]
    /\ graph.nodes \subseteq Node /\ graph.edges \subseteq graph.nodes \X graph.nodes \X Condition
    /\ phase \in {"planning", "planned", "running", "done", "failed", "dead"}
    /\ waves \in Seq(SUBSET graph.nodes) /\ wave \in 0..PlanSize /\ considered \subseteq graph.nodes
    /\ wrote \subseteq EdgeChoices /\ hints \subseteq HintChoices
    /\ DOMAIN graph = {"nodes", "edges"}

OutputsTyped ==
    /\ outputs \in [Node -> Output]
    /\ completed \in BOOLEAN
    /\ ran \subseteq {"tool", "write"}

LEMMA StateIsTyped ==
    StateOK <=> TasksTyped /\ NotesTyped /\ GraphTyped /\ OutputsTyped
  BY Zenon DEF StateOK, TypeOK, TasksTyped, NotesTyped, GraphTyped, OutputsTyped,
               Kind, Status, Result, Output, ChildStatus

(* A result enters the history as its newest entry. *)
LEMMA NoteKeeps ==
    ASSUME StateOK, HistoryAged, NEW n \in Node, Note(n)
    PROVE  /\ history' \in Seq(Node) /\ Len(history') <= HistoryCap
           /\ age' \in [Node -> 0..Never]
           /\ HistoryAged'
           /\ age'[n] = 0
           /\ \A p \in Node : age[p] # Never => age'[p] # Never
<1> DEFINE L == Len(history)
<1>1. /\ history \in Seq(Node) /\ L \in Nat /\ L <= HistoryCap
      /\ history \in [1..L -> Node]
  BY StateIsTyped, LenProperties DEF NotesTyped
<1>2. age \in [Node -> 0..Never] /\ Never = HistoryCap + 1
  BY StateIsTyped DEF NotesTyped, Never
<1>3. history' = IF L < HistoryCap THEN Append(history, n) ELSE Append(Tail(history), n)
  BY DEF Note, Add
<1>4. \A p \in Node :
        /\ age[p] \in 0..Never
        /\ age'[p] = IF p = n THEN 0 ELSE IF age[p] < HistoryCap THEN age[p] + 1 ELSE age[p]
  BY <1>2 DEF Note
<1>5. CASE L < HistoryCap
  <2>1. /\ history' \in Seq(Node) /\ Len(history') = L + 1 /\ history'[L + 1] = n
        /\ \A i \in 1..L : history'[i] = history[i]
    BY <1>1, <1>3, <1>5, AppendProperties
  <2>2. HistoryAged'
    <3> SUFFICES ASSUME NEW p \in Node, age'[p] < HistoryCap
                 PROVE  age'[p] < Len(history') /\ history'[Len(history') - age'[p]] = p
      BY DEF HistoryAged
    <3>1. CASE p = n
      BY <1>1, <1>4, <2>1, <3>1
    <3>2. CASE p # n
      <4>1. age[p] < HistoryCap /\ age'[p] = age[p] + 1 /\ age[p] \in Nat
        BY <1>2, <1>4, <3>2, BoundsAreNumbers
      <4>2. age[p] < L /\ history[L - age[p]] = p
        BY <4>1 DEF HistoryAged
      <4>3. L - age[p] \in 1..L /\ Len(history') - age'[p] = L - age[p]
        BY <1>1, <2>1, <4>1, <4>2
      <4>4. QED
        BY <1>1, <2>1, <4>1, <4>2, <4>3
    <3>3. QED
      BY <3>1, <3>2
  <2>3. QED
    BY <1>1, <1>2, <1>4, <1>5, <2>1, <2>2, BoundsAreNumbers DEF Note
<1>6. CASE ~(L < HistoryCap)
  <2>1. L = HistoryCap /\ L # 0
    <3>1. HistoryCap \in Nat \ {0}
      BY BoundsAreNumbers
    <3> HIDE DEF L
    <3>2. QED
      BY <1>1, <1>6, <3>1
  <2>2. /\ Tail(history) \in Seq(Node) /\ Len(Tail(history)) = L - 1
        /\ \A i \in 1..(L - 1) : Tail(history)[i] = history[i + 1]
    <3>1. history # <<>>
      BY <2>1, EmptySeq
    <3>2. QED
      BY <1>1, <3>1, HeadTailProperties
  <2>3. /\ history' \in Seq(Node) /\ Len(history') = (L - 1) + 1 /\ history'[(L - 1) + 1] = n
        /\ \A i \in 1..(L - 1) : history'[i] = Tail(history)[i]
    BY <1>3, <1>6, <2>2, AppendProperties
  <2>4. Len(history') = L /\ history'[L] = n /\ \A i \in 1..(L - 1) : history'[i] = history[i + 1]
    BY <1>1, <2>2, <2>3
  <2>5. HistoryAged'
    <3> SUFFICES ASSUME NEW p \in Node, age'[p] < HistoryCap
                 PROVE  age'[p] < Len(history') /\ history'[Len(history') - age'[p]] = p
      BY DEF HistoryAged
    <3>1. CASE p = n
      BY <1>1, <1>4, <2>1, <2>4, <3>1
    <3>2. CASE p # n
      <4>1. age[p] < HistoryCap /\ age'[p] = age[p] + 1 /\ age[p] \in Nat
        BY <1>2, <1>4, <3>2, BoundsAreNumbers
      <4>2. age[p] < L /\ history[L - age[p]] = p
        BY <4>1 DEF HistoryAged
      <4>3. L - age'[p] \in 1..(L - 1) /\ (L - age'[p]) + 1 = L - age[p]
        BY <1>1, <2>1, <3>2, <4>1, <4>2
      <4>4. history'[L - age'[p]] = history[L - age[p]]
        BY <2>4, <4>3
      <4>5. QED
        BY <1>1, <2>1, <2>4, <4>1, <4>2, <4>4
    <3>3. QED
      BY <3>1, <3>2
  <2>6. QED
    BY <1>1, <1>2, <1>4, <2>1, <2>3, <2>4, <2>5, BoundsAreNumbers DEF Note
<1>7. QED
  BY <1>5, <1>6

LEMMA NotedKeeps ==
    ASSUME StateOK, HistoryAged, Noted
    PROVE  /\ history' \in Seq(Node) /\ Len(history') <= HistoryCap
           /\ age' \in [Node -> 0..Never]
           /\ HistoryAged'
           /\ \A p \in Node : age[p] # Never => age'[p] # Never
<1>1. CASE UNCHANGED <<history, age>>
  <2>1. HistoryAged'
    BY <1>1 DEF HistoryAged
  <2>2. QED
    BY <1>1, <2>1, StateIsTyped DEF NotesTyped
<1>2. CASE \E m \in Node : Note(m)
  BY <1>2, NoteKeeps
<1>3. QED
  BY <1>1, <1>2 DEF Noted

(* Whether a node is skipped depends on the outputs of its sources only. *)
LEMMA SkipsBySources ==
    ASSUME NEW n \in Node, graph' = graph, \A p \in Sources(n) : outputs'[p] = outputs[p]
    PROVE  Skips(n)' <=> Skips(n)
<1>1. \A e \in graph.edges : e[2] = n => e[1] \in Sources(n)
  BY DEF Sources
<1>2. \A e \in graph.edges : e[2] = n => outputs'[e[1]] = outputs[e[1]]
  BY <1>1
<1>3. QED
  BY <1>2 DEF Skips

(* A step of n leaves what the others go by alone. *)
LEMMA OthersKeep ==
    ASSUME StateOK, NodesKept, NEW n \in Node, Alone(n),
           task[n] # "over" \/ (task'[n] = task[n] /\ outputs'[n] = outputs[n]),
           \A p \in Node : age[p] # Never => age'[p] # Never
    PROVE  \A m \in Node \ {n} : Owing(m)' /\ Started(m)' /\ Informed(m)'
<1> SUFFICES ASSUME NEW m \in Node \ {n} PROVE Owing(m)' /\ Started(m)' /\ Informed(m)'
  OBVIOUS
<1>1. /\ task'[m] = task[m] /\ attempt'[m] = attempt[m] /\ result'[m] = result[m]
      /\ outputs'[m] = outputs[m] /\ children'[m] = children[m]
      /\ attributed'[m] = attributed[m] /\ seen'[m] = seen[m]
      /\ graph' = graph /\ kind' = kind
  BY DEF Alone
<1>2. Owing(m) /\ Started(m) /\ Informed(m)
  BY DEF NodesKept
<1>3. Sources(m) \subseteq Node /\ Sources(m)' = Sources(m)
  <2>1. graph.edges \subseteq Node \X Node \X Condition
    BY StateIsTyped DEF GraphTyped
  <2>2. QED
    BY <1>1, <2>1 DEF Sources
<1>4. ASSUME NEW p \in Node, task[p] = "over" PROVE task'[p] = "over" /\ outputs'[p] = outputs[p]
  BY <1>4 DEF Alone
<1>5. Owing(m)'
  BY <1>1, <1>2 DEF Owing, IsParallel
<1>6. Started(m)'
  <2>1. task[m] # "idle" => \A p \in Sources(m) : task'[p] = "over" /\ outputs'[p] = outputs[p]
    BY <1>2, <1>3, <1>4 DEF Started
  <2>2. task[m] # "idle" => (Skips(m)' <=> Skips(m))
    BY <1>1, <2>1, SkipsBySources
  <2>3. QED
    BY <1>1, <1>2, <1>3, <2>1, <2>2 DEF Started, Allowed
<1>7. Informed(m)'
  <2> SUFFICES ASSUME task[m] = "acting", kind[m] = "think", NEW p \in Sources(m), LeftResult(p)'
               PROVE  p \in Range(seen[m].given) \/ seen[m].age[p] = HistoryCap
    BY <1>1, <1>3 DEF Informed
  <2>1. task[p] = "over" /\ p \in Node
    BY <1>2, <1>3 DEF Started
  <2>2. LeftResult(p)
    BY <1>1, <1>4, <2>1 DEF LeftResult
  <2>3. QED
    BY <1>2, <2>2 DEF Informed
<1>8. QED
  BY <1>5, <1>6, <1>7

(* An attempt that ends with o leaves a node that waits for another one or *)
(* has its result, attributed if it is an error.                           *)
LEMMA SettleEnds ==
    ASSUME StateOK, NEW n \in Node, Owing(n), task[n] = "acting",
           NEW o \in {"text", "tool", "match", "error", "panic"}, Settle(n, o)
    PROVE  /\ task' \in [Node -> Status] /\ result' \in [Node -> Result]
           /\ attributed' \in [Node -> Nat]
           /\ \A m \in Node \ {n} : /\ task'[m] = task[m] /\ result'[m] = result[m]
                                    /\ attributed'[m] = attributed[m]
           /\ task'[n] \in {"backoff", "finished"}
           /\ task'[n] = "backoff" => attempt[n] < MaxAttempts /\ result'[n] = "none"
           /\ task'[n] = "finished" => result'[n] = o
           /\ attributed'[n] = (IF result'[n] = "error" THEN 1 ELSE 0)
           /\ result'[n] = "error" => attempt[n] = MaxAttempts
<1>1. /\ task \in [Node -> Status] /\ result \in [Node -> Result]
      /\ attributed \in [Node -> Nat] /\ attempt[n] \in 0..MaxAttempts
  BY StateIsTyped DEF TasksTyped
<1>2. result[n] = "none" /\ attributed[n] = 0
  BY DEF Owing
<1>3. CASE o = "error" /\ attempt[n] < MaxAttempts
  BY <1>1, <1>2, <1>3 DEF Settle, Status
<1>4. CASE ~(o = "error" /\ attempt[n] < MaxAttempts)
  <2>1. /\ task' = [task EXCEPT ![n] = "finished"] /\ result' = [result EXCEPT ![n] = o]
        /\ attributed' = [attributed EXCEPT ![n] = IF o = "error" THEN @ + 1 ELSE @]
    BY <1>4 DEF Settle
  <2>2. o = "error" => attempt[n] = MaxAttempts
    BY <1>1, <1>4, BoundsAreNumbers
  <2>3. /\ task' \in [Node -> Status] /\ task'[n] = "finished"
        /\ result' \in [Node -> Result] /\ result'[n] = o
    BY <1>1, <2>1 DEF Status, Result
  <2>4. attributed' \in [Node -> Nat] /\ attributed'[n] = (IF o = "error" THEN 1 ELSE 0)
    BY <1>1, <1>2, <2>1
  <2>5. QED
    BY <1>1, <2>1, <2>2, <2>3, <2>4
<1>5. QED
  BY <1>3, <1>4

(* A result that was left is in the history, or as old as HistoryCap. *)
LEMMA LeftIsFound ==
    ASSUME StateOK, NodesKept, HistoryAged, NEW p \in Node, LeftResult(p)
    PROVE  p \in Range(history) \/ age[p] = HistoryCap
<1>1. Owing(p)
  BY DEF NodesKept
<1>2. outputs[p] = result[p]
  BY <1>1 DEF Owing, LeftResult
<1>3. age[p] # Never
  BY <1>1, <1>2 DEF Owing, LeftResult
<1>4. age[p] \in 0..Never /\ Never = HistoryCap + 1 /\ history \in Seq(Node)
  BY StateIsTyped DEF NotesTyped, Never
<1>5. CASE age[p] < HistoryCap
  <2>1. age[p] < Len(history) /\ history[Len(history) - age[p]] = p
    BY <1>5 DEF HistoryAged
  <2>2. DOMAIN history = 1..Len(history) /\ Len(history) \in Nat
    BY <1>4, LenProperties
  <2>3. Len(history) - age[p] \in DOMAIN history
    BY <1>4, <2>1, <2>2
  <2>4. QED
    BY <2>1, <2>3 DEF Range
<1>6. QED
  BY <1>3, <1>4, <1>5, BoundsAreNumbers

(* The steps of tasks keep the invariant if the node that moves does its   *)
(* part: what it owes, what it calls, and what a new attempt is given.     *)
LEMMA WorksKeeps ==
    ASSUME CoordinatorInvariant, NEW n \in Node, Works(n),
           StateOK', Owing(n)', NoPlannedWrite',
           task'[n] = "acting" /\ kind[n] = "think" =>
               \/ task[n] = "acting" /\ seen'[n] = seen[n]
               \/ seen'[n].given = history /\ seen'[n].age = age
    PROVE  CoordinatorInvariant'
<1>1. /\ StateOK /\ PlanKept /\ (Begun => WavesOrdered /\ Progress)
      /\ NodesKept /\ HistoryAged /\ FailuresTold
  BY DEF CoordinatorInvariant
<1>2. /\ kind' = kind /\ graph' = graph /\ waves' = waves /\ wave' = wave
      /\ phase' = phase /\ considered' = considered
      /\ outputs' = outputs /\ completed' = completed
      /\ Alone(n) /\ Noted
  <2>1. Alone(n) /\ UNCHANGED <<phase, considered, outputs, completed>>
    BY DEF Works
  <2>2. Noted /\ UNCHANGED <<kind, graph, waves, wave>>
    BY <2>1 DEF Alone
  <2>3. QED
    BY <2>1, <2>2
<1>3. \A m \in Node : /\ task'[m] = "over" <=> task[m] = "over"
                      /\ task'[m] = "idle" <=> task[m] = "idle"
  BY DEF Works, Alone, Busy
<1>4. task'[n] = task[n] \/ {task[n], task'[n]} \subseteq Busy
  BY DEF Works
<1>5. PlanKept'
  <2>1. Begun' <=> Begun
    BY <1>2 DEF Begun
  <2>2. \A m \in Node : Allowed(m)' <=> Allowed(m)
    BY <1>2 DEF Allowed
  <2>3. graph.nodes \subseteq Node
    BY <1>1, StateIsTyped DEF GraphTyped
  <2>4. QED
    BY <1>1, <1>2, <1>3, <2>1, <2>2, <2>3 DEF PlanKept
<1>6. ASSUME Begun' PROVE WavesOrdered' /\ Progress'
  <2>1. WavesOrdered /\ Progress
    BY <1>1, <1>2, <1>6 DEF Begun
  <2>2. waves \in Seq(SUBSET graph.nodes) /\ graph.nodes \subseteq Node
    BY <1>1, StateIsTyped DEF GraphTyped
  <2>3. \A k \in 1..PlanSize : waves[k] \subseteq Node
    <3>1. Len(waves) = PlanSize
      BY <2>1 DEF WavesOrdered
    <3>2. waves \in [1..PlanSize -> SUBSET graph.nodes]
      BY <2>2, <3>1, LenProperties
    <3>3. QED
      BY <2>2, <3>2
  <2>4. WavesOrdered'
    BY <1>2, <2>1 DEF WavesOrdered, Sources
  <2>5. Progress'
    BY <1>2, <1>3, <2>1, <2>2, <2>3 DEF Progress
  <2>6. QED
    BY <2>4, <2>5
<1>7. HistoryAged' /\ \A p \in Node : age[p] # Never => age'[p] # Never
  BY <1>1, <1>2, NotedKeeps
<1>8. \A m \in Node \ {n} : Owing(m)' /\ Started(m)' /\ Informed(m)'
  <2>1. task[n] # "over" \/ (task'[n] = task[n] /\ outputs'[n] = outputs[n])
    BY <1>2, <1>4 DEF Busy
  <2>2. QED
    BY <1>1, <1>2, <1>7, <2>1, OthersKeep
<1>9. Sources(n) \subseteq Node /\ Sources(n)' = Sources(n)
  <2>1. graph.edges \subseteq Node \X Node \X Condition
    BY <1>1, StateIsTyped DEF GraphTyped
  <2>2. QED
    BY <1>2, <2>1 DEF Sources
<1>10. Started(n)'
  <2>1. Skips(n)' <=> Skips(n)
    BY <1>2, SkipsBySources
  <2>2. Started(n)
    BY <1>1 DEF NodesKept
  <2>3. \A p \in Sources(n) : task[p] = "over" => task'[p] = "over"
    BY <1>3, <1>9
  <2>4. task'[n] \in Busy => task[n] \in Busy
    BY <1>4
  <2>5. task'[n] # "idle" => task[n] # "idle"
    BY <1>3
  <2>6. QED
    BY <1>2, <1>9, <2>1, <2>2, <2>3, <2>4, <2>5 DEF Started, Allowed, Busy
<1>11. Informed(n)'
  <2> SUFFICES ASSUME task'[n] = "acting", kind[n] = "think", NEW p \in Sources(n), LeftResult(p)'
               PROVE  p \in Range(seen'[n].given) \/ seen'[n].age[p] = HistoryCap
    BY <1>2, <1>9 DEF Informed
  <2>1. LeftResult(p) /\ p \in Node
    BY <1>2, <1>9 DEF LeftResult
  <2>2. CASE task[n] = "acting" /\ seen'[n] = seen[n]
    <3>1. Informed(n)
      BY <1>1 DEF NodesKept
    <3>2. QED
      BY <2>1, <2>2, <3>1 DEF Informed
  <2>3. CASE seen'[n].given = history /\ seen'[n].age = age
    <3>1. p \in Range(history) \/ age[p] = HistoryCap
      BY <1>1, <2>1, LeftIsFound
    <3>2. QED
      BY <2>3, <3>1
  <2>4. QED
    BY <2>2, <2>3
<1>12. FailuresTold'
  BY <1>1, <1>2, <1>3 DEF FailuresTold
<1>13. NodesKept'
  BY <1>1, <1>8, <1>10, <1>11 DEF NodesKept
<1>14. QED
  BY <1>5, <1>6, <1>7, <1>12, <1>13 DEF CoordinatorInvariant

LEMMA StateIsTypedNext ==
    TasksTyped' /\ NotesTyped' /\ GraphTyped' /\ OutputsTyped' => StateOK'
  BY Zenon DEF StateOK, TypeOK, TasksTyped, NotesTyped, GraphTyped, OutputsTyped,
               Kind, Status, Result, Output, ChildStatus

(* A step of a task keeps the invariant, piece by piece. *)
LEMMA WorkStepKeeps ==
    ASSUME CoordinatorInvariant, NEW n \in Node, Works(n), TasksTyped', ran' \subseteq {"tool"},
           seen' \in [Node -> [given : Seq(Node), age : [Node -> 0..Never]]],
           Owing(n)',
           task'[n] = "acting" /\ kind[n] = "think" =>
               \/ task[n] = "acting" /\ seen'[n] = seen[n]
               \/ seen'[n].given = history /\ seen'[n].age = age
    PROVE  CoordinatorInvariant'
<1>1. Alone(n) /\ UNCHANGED <<phase, considered, outputs, completed>>
  BY DEF Works
<1>2. UNCHANGED <<kind, wrote, hints, graph, waves, wave>> /\ Noted
  BY <1>1 DEF Alone
<1>3. StateOK /\ HistoryAged /\ GraphTyped /\ OutputsTyped
  BY StateIsTyped DEF CoordinatorInvariant
<1>4. NotesTyped'
  BY <1>2, <1>3, NotedKeeps DEF NotesTyped, Never
<1>5. GraphTyped'
  BY <1>1, <1>2, <1>3 DEF GraphTyped
<1>6. OutputsTyped'
  BY <1>1, <1>3 DEF OutputsTyped
<1>7. StateOK'
  BY <1>4, <1>5, <1>6, StateIsTypedNext
<1>8. NoPlannedWrite'
  BY DEF NoPlannedWrite
<1>9. QED
  BY <1>7, <1>8, WorksKeeps

LEMMA OnlyToolsRan == CoordinatorInvariant => ran \subseteq {"tool"}
  BY StateIsTyped DEF CoordinatorInvariant, OutputsTyped, NoPlannedWrite

(* An attempt ends; its node has no children any more. *)
LEMMA SettleKeeps ==
    ASSUME CoordinatorInvariant, NEW n \in Node, task[n] = "acting",
           NEW o \in {"text", "tool", "match", "error", "panic"}, Settle(n, o),
           UNCHANGED others, Noted, ran' \subseteq {"tool"},
           o = "match" \/ (kind[n] = "delegate" /\ o = "text") => age'[n] # Never,
           children' \in [Node -> [Child -> ChildStatus]], children'[n] = NoChildren,
           \A m \in Node \ {n} : children'[m] = children[m],
           strays' \subseteq Node \X Child
    PROVE  CoordinatorInvariant'
<1>1. StateOK /\ Owing(n) /\ TasksTyped /\ NotesTyped
  BY StateIsTyped DEF CoordinatorInvariant, NodesKept
<1>2. /\ kind' = kind /\ wrote' = wrote /\ hints' = hints /\ graph' = graph
      /\ waves' = waves /\ wave' = wave /\ phase' = phase /\ considered' = considered
      /\ outputs' = outputs /\ completed' = completed /\ attempt' = attempt /\ seen' = seen
  BY DEF others, plan
<1>3. /\ task' \in [Node -> Status] /\ result' \in [Node -> Result]
      /\ attributed' \in [Node -> Nat]
      /\ \A m \in Node \ {n} : /\ task'[m] = task[m] /\ result'[m] = result[m]
                               /\ attributed'[m] = attributed[m]
      /\ task'[n] \in {"backoff", "finished"}
      /\ task'[n] = "backoff" => attempt[n] < MaxAttempts /\ result'[n] = "none"
      /\ task'[n] = "finished" => result'[n] = o
      /\ attributed'[n] = (IF result'[n] = "error" THEN 1 ELSE 0)
      /\ result'[n] = "error" => attempt[n] = MaxAttempts
  BY <1>1, SettleEnds
<1>4. Works(n)
  <2>1. Alone(n)
    BY <1>2, <1>3 DEF Alone
  <2>2. {task[n], task'[n]} \subseteq Busy
    BY <1>3 DEF Busy
  <2>3. QED
    BY <1>2, <2>1, <2>2 DEF Works
<1>5. Owing(n)'
  BY <1>1, <1>2, <1>3 DEF Owing, IsParallel
<1>6. TasksTyped'
  BY <1>1, <1>2, <1>3 DEF TasksTyped
<1>7. QED
  BY <1>1, <1>2, <1>3, <1>4, <1>5, <1>6, WorkStepKeeps DEF NotesTyped

LEMMA NoChildrenButParallel ==
    ASSUME CoordinatorInvariant, NEW n \in Node, ~IsParallel(n)
    PROVE  children[n] = NoChildren
  BY DEF CoordinatorInvariant, NodesKept, Owing

LEMMA NoteIsNoted ==
    ASSUME CoordinatorInvariant, NEW n \in Node, Note(n)
    PROVE  Noted /\ age'[n] # Never
<1>1. age'[n] = 0
  BY NoteKeeps DEF CoordinatorInvariant
<1>2. QED
  BY <1>1, BoundsAreNumbers DEF Noted, Never

LEMMA ThinkKeeps ==
    ASSUME CoordinatorInvariant, NEW n \in Node, Think(n)
    PROVE  CoordinatorInvariant'
<1>1. PICK o \in {"text", "error", "panic"} : Settle(n, o)
  BY DEF Think
<1>2. /\ task[n] = "acting" /\ kind[n] = "think" /\ UNCHANGED others
      /\ children' = children /\ strays' = strays /\ Noted /\ ran' = ran
  BY DEF Think, Noted
<1>3. children[n] = NoChildren /\ TasksTyped
  BY <1>2, NoChildrenButParallel, StateIsTyped DEF IsParallel, CoordinatorInvariant
<1>4. ran' \subseteq {"tool"}
  BY <1>2, OnlyToolsRan
<1>5. QED
  BY <1>1, <1>2, <1>3, <1>4, SettleKeeps DEF TasksTyped

LEMMA CallToolKeeps ==
    ASSUME CoordinatorInvariant, NEW n \in Node, CallTool(n)
    PROVE  CoordinatorInvariant'
<1>1. /\ task[n] = "acting" /\ kind[n] \in {"tool", "write"} /\ UNCHANGED others
      /\ children' = children /\ strays' = strays
  BY DEF CallTool
<1>2. children[n] = NoChildren /\ TasksTyped
  BY <1>1, NoChildrenButParallel, StateIsTyped DEF IsParallel, CoordinatorInvariant
<1>3. kind[n] = "tool"
  BY <1>1 DEF CoordinatorInvariant, NodesKept, Started, Allowed
<1>4. CASE (\E o \in {"tool", "match", "error"} : Settle(n, o))
             /\ Note(n) /\ ran' = ran \cup {kind[n]}
  <2>1. PICK o \in {"tool", "match", "error"} : Settle(n, o)
    BY <1>4
  <2>2. Noted /\ age'[n] # Never
    BY <1>4, NoteIsNoted
  <2>3. ran' \subseteq {"tool"}
    BY <1>3, <1>4, OnlyToolsRan
  <2>4. QED
    BY <1>1, <1>2, <2>1, <2>2, <2>3, SettleKeeps DEF TasksTyped
<1>5. CASE \E o \in {"tool", "panic"} : Settle(n, o) /\ UNCHANGED <<history, age, ran>>
  <2>1. PICK o \in {"tool", "panic"} : Settle(n, o) /\ UNCHANGED <<history, age, ran>>
    BY <1>5
  <2>2. Noted /\ ran' \subseteq {"tool"}
    BY <2>1, OnlyToolsRan DEF Noted
  <2>3. QED
    BY <1>1, <1>2, <1>3, <2>1, <2>2, SettleKeeps DEF TasksTyped
<1>6. QED
  BY <1>4, <1>5 DEF CallTool

LEMMA DelegateKeeps ==
    ASSUME CoordinatorInvariant, NEW n \in Node, Delegate(n)
    PROVE  CoordinatorInvariant'
<1>1. /\ task[n] = "acting" /\ kind[n] = "delegate" /\ UNCHANGED others
      /\ children' = children /\ strays' = strays /\ ran' = ran
  BY DEF Delegate
<1>2. children[n] = NoChildren /\ TasksTyped
  BY <1>1, NoChildrenButParallel, StateIsTyped DEF IsParallel, CoordinatorInvariant
<1>3. ran' \subseteq {"tool"}
  BY <1>1, OnlyToolsRan
<1>4. CASE Settle(n, "text") /\ Note(n)
  <2>1. Noted /\ age'[n] # Never
    BY <1>4, NoteIsNoted
  <2>2. QED
    BY <1>1, <1>2, <1>3, <1>4, <2>1, SettleKeeps DEF TasksTyped
<1>5. CASE Settle(n, "error") /\ UNCHANGED <<history, age>>
  <2>1. Noted
    BY <1>5 DEF Noted
  <2>2. QED
    BY <1>1, <1>2, <1>3, <1>5, <2>1, SettleKeeps DEF TasksTyped
<1>6. QED
  BY <1>4, <1>5 DEF Delegate

(* The children that still run are aborted with the action. *)
LEMMA AbortsChildren ==
    ASSUME TasksTyped, NEW n \in Node, AbortChildren(n)
    PROVE  /\ children' \in [Node -> [Child -> ChildStatus]] /\ children'[n] = NoChildren
           /\ \A m \in Node \ {n} : children'[m] = children[m]
           /\ strays' \subseteq Node \X Child
<1>1. NoChildren \in [Child -> ChildStatus]
  BY DEF NoChildren, ChildStatus
<1>2. children \in [Node -> [Child -> ChildStatus]] /\ strays \subseteq Node \X Child
  BY DEF TasksTyped
<1>3. Running(n) \subseteq Child
  BY DEF Running
<1>4. children' = [children EXCEPT ![n] = NoChildren]
      /\ strays' = strays \cup {<<n, c>> : c \in Running(n)}
  BY DEF AbortChildren
<1>5. QED
  BY <1>1, <1>2, <1>3, <1>4

LEMMA ParallelKeeps ==
    ASSUME CoordinatorInvariant, NEW n \in Node, Parallel(n) \/ Timeout(n)
    PROVE  CoordinatorInvariant'
<1>1. /\ task[n] = "acting" /\ UNCHANGED others /\ AbortChildren(n)
      /\ Noted /\ ran' = ran
  BY DEF Parallel, Timeout, Noted
<1>2. PICK o \in {"error", "text"} : Settle(n, o) /\ (o = "text" => IsParallel(n))
  BY DEF Parallel, Timeout
<1>3. TasksTyped /\ ran' \subseteq {"tool"}
  BY <1>1, OnlyToolsRan, StateIsTyped DEF CoordinatorInvariant
<1>4. o = "text" => kind[n] # "delegate"
  BY <1>2 DEF IsParallel
<1>5. QED
  BY <1>1, <1>2, <1>3, <1>4, AbortsChildren, SettleKeeps

(* The steps of a task that go on: a child ends, an aborted one stops, the *)
(* next attempt begins.                                                    *)
LEMMA ChildEndsKeeps ==
    ASSUME CoordinatorInvariant, NEW n \in Node, NEW c \in Child, ChildEnds(n, c)
    PROVE  CoordinatorInvariant'
<1>1. /\ children[n][c] = "running" /\ UNCHANGED others
      /\ task' = task /\ result' = result /\ strays' = strays /\ attributed' = attributed
  BY DEF ChildEnds
<1>2. PICK how \in {"ok", "error", "panicked"} : children' = [children EXCEPT ![n][c] = how]
  BY DEF ChildEnds
<1>3. StateOK /\ Owing(n) /\ TasksTyped /\ NotesTyped /\ HistoryAged
  BY StateIsTyped DEF CoordinatorInvariant, NodesKept
<1>4. /\ kind' = kind /\ wrote' = wrote /\ hints' = hints /\ graph' = graph
      /\ waves' = waves /\ wave' = wave /\ phase' = phase /\ considered' = considered
      /\ outputs' = outputs /\ completed' = completed /\ attempt' = attempt /\ seen' = seen
  BY <1>1 DEF others, plan
<1>5. children[n] # NoChildren
  BY <1>1 DEF NoChildren
<1>6. task[n] = "acting" /\ IsParallel(n)
  BY <1>3, <1>5 DEF Owing
<1>7. kind[n] = "parallel"
  BY <1>6 DEF CoordinatorInvariant, NodesKept, Started, Allowed, IsParallel
<1>8. Noted /\ ran' \subseteq {"tool"}
  <2>1. CASE Note(n) /\ ran' = ran \cup {IF kind[n] = "parallel" THEN "tool" ELSE "write"}
    BY <1>7, <2>1, OnlyToolsRan DEF Noted
  <2>2. CASE UNCHANGED <<history, age, ran>>
    BY <2>2, OnlyToolsRan DEF Noted
  <2>3. QED
    BY <2>1, <2>2 DEF ChildEnds
<1>9. children' \in [Node -> [Child -> ChildStatus]] /\ \A m \in Node \ {n} : children'[m] = children[m]
  BY <1>2, <1>3 DEF TasksTyped, ChildStatus
<1>10. \A p \in Node : age[p] # Never => age'[p] # Never
  BY <1>3, <1>8, NotedKeeps
<1>11. Works(n)
  <2>1. Alone(n)
    BY <1>1, <1>4, <1>8, <1>9 DEF Alone
  <2>2. QED
    BY <1>1, <1>4, <2>1 DEF Works
<1>12. Owing(n)'
  BY <1>1, <1>3, <1>4, <1>6, <1>10 DEF Owing, IsParallel
<1>13. TasksTyped'
  BY <1>1, <1>3, <1>4, <1>9 DEF TasksTyped
<1>14. QED
  BY <1>1, <1>3, <1>4, <1>6, <1>8, <1>11, <1>12, <1>13, WorkStepKeeps DEF NotesTyped

LEMMA StrayStopsKeeps ==
    ASSUME CoordinatorInvariant, NEW n \in Node, NEW c \in Child, StrayStops(n, c)
    PROVE  CoordinatorInvariant'
<1>1. /\ UNCHANGED others /\ strays' \subseteq strays
      /\ task' = task /\ result' = result /\ children' = children /\ attributed' = attributed
      /\ ran' = ran
  BY DEF StrayStops
<1>2. Noted
  BY DEF StrayStops, Noted
<1>3. StateOK /\ Owing(n) /\ TasksTyped /\ NotesTyped /\ HistoryAged
  BY StateIsTyped DEF CoordinatorInvariant, NodesKept
<1>4. /\ kind' = kind /\ wrote' = wrote /\ hints' = hints /\ graph' = graph
      /\ waves' = waves /\ wave' = wave /\ phase' = phase /\ considered' = considered
      /\ outputs' = outputs /\ completed' = completed /\ attempt' = attempt /\ seen' = seen
  BY <1>1 DEF others, plan
<1>5. \A p \in Node : age[p] # Never => age'[p] # Never
  BY <1>2, <1>3, NotedKeeps
<1>6. Works(n)
  <2>1. Alone(n)
    BY <1>1, <1>2, <1>4 DEF Alone
  <2>2. QED
    BY <1>1, <1>4, <2>1 DEF Works
<1>7. Owing(n)'
  BY <1>1, <1>3, <1>4, <1>5 DEF Owing, IsParallel
<1>8. TasksTyped' /\ ran' \subseteq {"tool"}
  BY <1>1, <1>3, <1>4, OnlyToolsRan DEF TasksTyped
<1>9. QED
  BY <1>1, <1>3, <1>4, <1>6, <1>7, <1>8, WorkStepKeeps DEF NotesTyped

(* What an attempt starts with. *)
LEMMA ActStarts ==
    ASSUME StateOK, NEW n \in Node, Act(n), attempt[n] < MaxAttempts
    PROVE  /\ task' \in [Node -> Status] /\ task'[n] = "acting"
           /\ attempt' \in [Node -> 0..MaxAttempts]
           /\ children' \in [Node -> [Child -> ChildStatus]]
           /\ ~IsParallel(n) => children'[n] = children[n]
           /\ seen' \in [Node -> [given : Seq(Node), age : [Node -> 0..Never]]]
           /\ kind[n] = "think" => seen'[n].given = history /\ seen'[n].age = age
           /\ \A m \in Node \ {n} :
                /\ task'[m] = task[m] /\ attempt'[m] = attempt[m]
                /\ children'[m] = children[m] /\ seen'[m] = seen[m]
<1>1. TasksTyped /\ NotesTyped
  BY StateIsTyped
<1>2. task' \in [Node -> Status] /\ task'[n] = "acting" /\ \A m \in Node \ {n} : task'[m] = task[m]
  BY <1>1 DEF Act, TasksTyped, Status
<1>3. attempt' \in [Node -> 0..MaxAttempts] /\ \A m \in Node \ {n} : attempt'[m] = attempt[m]
  <2>1. attempt \in [Node -> 0..MaxAttempts] /\ attempt' = [attempt EXCEPT ![n] = @ + 1]
    BY <1>1 DEF Act, TasksTyped
  <2>2. attempt[n] + 1 \in 0..MaxAttempts
    BY <2>1, BoundsAreNumbers
  <2>3. QED
    BY <2>1, <2>2
<1>4. /\ children' \in [Node -> [Child -> ChildStatus]]
      /\ ~IsParallel(n) => children'[n] = children[n]
      /\ \A m \in Node \ {n} : children'[m] = children[m]
  <2>1. children \in [Node -> [Child -> ChildStatus]]
    BY <1>1 DEF TasksTyped
  <2>2. [c \in Child |-> "running"] \in [Child -> ChildStatus]
    BY DEF ChildStatus
  <2>3. PICK k \in [Child -> ChildStatus] :
          children' = [children EXCEPT ![n] = k] /\ (~IsParallel(n) => k = children[n])
    BY <2>1, <2>2 DEF Act
  <2>4. QED
    BY <2>1, <2>3
<1>5. /\ seen' \in [Node -> [given : Seq(Node), age : [Node -> 0..Never]]]
      /\ kind[n] = "think" => seen'[n].given = history /\ seen'[n].age = age
      /\ \A m \in Node \ {n} : seen'[m] = seen[m]
  BY <1>1 DEF Act, NotesTyped
<1>6. QED
  BY <1>2, <1>3, <1>4, <1>5

LEMMA RetryKeeps ==
    ASSUME CoordinatorInvariant, NEW n \in Node, Retry(n)
    PROVE  CoordinatorInvariant'
<1>1. /\ task[n] = "backoff" /\ Act(n) /\ considered' = considered
  BY DEF Retry
<1>2. /\ kind' = kind /\ wrote' = wrote /\ hints' = hints /\ graph' = graph
      /\ waves' = waves /\ wave' = wave /\ phase' = phase
      /\ outputs' = outputs /\ completed' = completed
      /\ result' = result /\ strays' = strays /\ attributed' = attributed
      /\ history' = history /\ age' = age /\ ran' = ran
  BY <1>1 DEF Act, plan
<1>3. StateOK /\ Owing(n) /\ TasksTyped
  BY StateIsTyped DEF CoordinatorInvariant, NodesKept
<1>4. attempt[n] < MaxAttempts
  BY <1>1, <1>3 DEF Owing
<1>5. /\ task' \in [Node -> Status] /\ task'[n] = "acting"
      /\ attempt' \in [Node -> 0..MaxAttempts]
      /\ children' \in [Node -> [Child -> ChildStatus]]
      /\ ~IsParallel(n) => children'[n] = children[n]
      /\ seen' \in [Node -> [given : Seq(Node), age : [Node -> 0..Never]]]
      /\ kind[n] = "think" => seen'[n].given = history /\ seen'[n].age = age
      /\ \A m \in Node \ {n} :
           /\ task'[m] = task[m] /\ attempt'[m] = attempt[m]
           /\ children'[m] = children[m] /\ seen'[m] = seen[m]
  BY <1>1, <1>3, <1>4, ActStarts
<1>6. Works(n)
  <2>1. Alone(n)
    BY <1>2, <1>5 DEF Alone, Noted
  <2>2. {task[n], task'[n]} \subseteq Busy
    BY <1>1, <1>5 DEF Busy
  <2>3. QED
    BY <1>1, <1>2, <2>1, <2>2 DEF Works
<1>7. Owing(n)'
  BY <1>1, <1>2, <1>3, <1>5 DEF Owing, IsParallel
<1>8. TasksTyped' /\ ran' \subseteq {"tool"}
  BY <1>2, <1>3, <1>5, OnlyToolsRan DEF TasksTyped
<1>9. QED
  BY <1>5, <1>6, <1>7, <1>8, WorkStepKeeps

-----------------------------------------------------------------------------
(* The executor. *)

LEMMA WavesOfNodes ==
    ASSUME CoordinatorInvariant, Begun, NEW k \in 1..PlanSize
    PROVE  waves[k] \subseteq graph.nodes /\ waves[k] \subseteq Node
<1>1. waves \in Seq(SUBSET graph.nodes) /\ graph.nodes \subseteq Node /\ Len(waves) = PlanSize
  BY StateIsTyped DEF CoordinatorInvariant, GraphTyped, WavesOrdered
<1>2. waves \in [1..PlanSize -> SUBSET graph.nodes]
  BY <1>1, LenProperties
<1>3. QED
  BY <1>1, <1>2

LEMMA SourcesAreNodes ==
    ASSUME StateOK, NEW n \in Node
    PROVE  Sources(n) \subseteq graph.nodes /\ Sources(n) \subseteq Node
<1>1. graph.nodes \subseteq Node /\ graph.edges \subseteq graph.nodes \X graph.nodes \X Condition
  BY StateIsTyped DEF GraphTyped
<1>2. QED
  BY <1>1 DEF Sources

(* A node whose turn has come has not been touched, and all its sources    *)
(* are decided.                                                            *)
LEMMA TurnHasCome ==
    ASSUME CoordinatorInvariant, phase = "running", NEW n \in waves[wave] \ considered
    PROVE  /\ n \in graph.nodes /\ n \in Node /\ Allowed(n) /\ task[n] = "idle"
           /\ \A p \in Sources(n) : task[p] = "over"
           /\ \A j \in 1..PlanSize : j # wave => n \notin waves[j]
<1>1. WavesOrdered /\ Progress /\ PlanKept /\ Begun
  BY DEF CoordinatorInvariant, Begun
<1>2. wave \in 1..PlanSize
  BY <1>1 DEF Progress
<1>3. n \in graph.nodes /\ n \in Node
  BY <1>1, <1>2, WavesOfNodes
<1>4. Allowed(n)
  BY <1>3, <1>1 DEF PlanKept
<1>5. task[n] = "idle"
  BY <1>1, <1>2 DEF Progress
<1>6. ASSUME NEW p \in Sources(n) PROVE task[p] = "over"
  <2>1. PICK j \in 1..(wave - 1) : p \in waves[j]
    BY <1>1, <1>2 DEF WavesOrdered
  <2>2. j \in 1..PlanSize /\ j < wave
    BY <1>2, BoundsAreNumbers
  <2>3. QED
    BY <1>1, <2>1, <2>2 DEF Progress
<1>7. ASSUME NEW j \in 1..PlanSize, j # wave, n \in waves[j] PROVE FALSE
  <2>1. waves[j] \cap waves[wave] = {}
    BY <1>1, <1>2, <1>7 DEF WavesOrdered
  <2>2. QED
    BY <1>7, <2>1
<1>8. QED
  BY <1>3, <1>4, <1>5, <1>6, <1>7


(* The order is one of the waves and the graph only. *)
LEMMA OrderKept ==
    ASSUME WavesOrdered, waves' = waves, graph' = graph
    PROVE  WavesOrdered'
  BY DEF WavesOrdered, Sources

(* A node enters its wave: it begins, or it is skipped. *)
LEMMA EnterKeeps ==
    ASSUME CoordinatorInvariant, phase = "running", NEW n \in Node, n \in waves[wave] \ considered,
           Alone(n), UNCHANGED <<phase, completed, history, age, ran>>,
           considered' = considered \cup {n},
           TasksTyped', outputs' \in [Node -> Output],
           seen' \in [Node -> [given : Seq(Node), age : [Node -> 0..Never]]],
           Owing(n)',
           \/ task'[n] = "acting" /\ ~Skips(n)
           \/ task'[n] = "over" /\ outputs'[n] = "skipped",
           task'[n] = "acting" /\ kind[n] = "think" =>
               seen'[n].given = history /\ seen'[n].age = age
    PROVE  CoordinatorInvariant'
<1>1. /\ StateOK /\ PlanKept /\ Begun /\ WavesOrdered /\ Progress
      /\ NodesKept /\ HistoryAged /\ FailuresTold /\ NoPlannedWrite
      /\ NotesTyped /\ GraphTyped /\ OutputsTyped
  BY StateIsTyped DEF CoordinatorInvariant, Begun
<1>2. /\ n \in graph.nodes /\ Allowed(n) /\ task[n] = "idle"
      /\ \A p \in Sources(n) : task[p] = "over"
      /\ \A j \in 1..PlanSize : j # wave => n \notin waves[j]
  BY TurnHasCome
<1>3. /\ kind' = kind /\ graph' = graph /\ waves' = waves /\ wave' = wave /\ phase' = phase
      /\ wrote' = wrote /\ hints' = hints /\ completed' = completed
      /\ history' = history /\ age' = age /\ ran' = ran
      /\ \A m \in Node \ {n} : task'[m] = task[m] /\ outputs'[m] = outputs[m]
  BY DEF Alone
<1>4. Sources(n) \subseteq Node \ {n}
  BY <1>1, <1>2, SourcesAreNodes
<1>5. StateOK'
  <2>1. GraphTyped'
    BY <1>1, <1>2, <1>3 DEF GraphTyped
  <2>2. NotesTyped'
    BY <1>1, <1>3 DEF NotesTyped, Never
  <2>3. OutputsTyped'
    BY <1>1, <1>3 DEF OutputsTyped
  <2>4. QED
    BY <2>1, <2>2, <2>3, StateIsTypedNext
<1>6. PlanKept'
  <2>1. \A m \in graph.nodes : Allowed(m)' <=> Allowed(m)
    BY <1>3 DEF Allowed
  <2>2. QED
    BY <1>1, <1>3, <2>1 DEF PlanKept, Begun
<1>7. WavesOrdered'
  BY <1>1, <1>3, OrderKept
<1>8. Progress'
  <2>1. wave' \in 1..PlanSize /\ considered' \subseteq waves'[wave']
    BY <1>1, <1>3 DEF Progress
  <2>2. ASSUME NEW j \in 1..PlanSize, NEW m \in waves[j]
        PROVE  /\ j < wave => task'[m] = "over"
               /\ j = wave => (task'[m] = "idle" <=> m \notin considered')
               /\ j > wave => task'[m] = "idle"
    <3>1. m \in Node
      BY <1>1, WavesOfNodes
    <3>2. CASE m = n
      BY <1>2, <2>1, <1>3, <3>2
    <3>3. CASE m # n
      BY <1>1, <1>3, <3>1, <3>3 DEF Progress
    <3>4. QED
      BY <3>2, <3>3
  <2>3. phase' # "done"
    BY <1>3
  <2>4. QED
    BY <1>3, <2>1, <2>2, <2>3 DEF Progress
<1>9. \A m \in Node \ {n} : Owing(m)' /\ Started(m)' /\ Informed(m)'
  BY <1>1, <1>2, <1>3, OthersKeep
<1>10. Started(n)'
  <2>1. Skips(n)' <=> Skips(n)
    BY <1>3, <1>4, SkipsBySources
  <2>2. Sources(n)' = Sources(n)
    BY <1>3 DEF Sources
  <2>3. QED
    BY <1>2, <1>3, <1>4, <2>1, <2>2 DEF Started, Allowed
<1>11. Informed(n)'
  <2> SUFFICES ASSUME task'[n] = "acting", kind[n] = "think", NEW p \in Sources(n), LeftResult(p)'
               PROVE  p \in Range(seen'[n].given) \/ seen'[n].age[p] = HistoryCap
    BY <1>3 DEF Informed, Sources
  <2>1. LeftResult(p) /\ p \in Node
    BY <1>3, <1>4 DEF LeftResult
  <2>2. p \in Range(history) \/ age[p] = HistoryCap
    BY <1>1, <2>1, LeftIsFound
  <2>3. QED
    BY <2>2
<1>12. FailuresTold'
  <2>1. \A m \in Node : (task'[m] = "over" => outputs'[m] \notin {"error", "open"})
                    <=> (task[m] = "over" => outputs[m] \notin {"error", "open"})
    BY <1>2, <1>3
  <2>2. QED
    BY <1>1, <1>3, <2>1 DEF FailuresTold
<1>13. NodesKept'
  BY <1>9, <1>10, <1>11 DEF NodesKept
<1>14. HistoryAged' /\ NoPlannedWrite'
  BY <1>1, <1>3 DEF HistoryAged, NoPlannedWrite
<1>15. QED
  BY <1>5, <1>6, <1>7, <1>8, <1>12, <1>13, <1>14 DEF CoordinatorInvariant

LEMMA BeginKeeps ==
    ASSUME CoordinatorInvariant, NEW n \in Node, Begin(n)
    PROVE  CoordinatorInvariant'
<1>1. /\ phase = "running" /\ n \in waves[wave] \ considered /\ ~Skips(n)
      /\ considered' = considered \cup {n} /\ Act(n)
  BY DEF Begin
<1>2. task[n] = "idle"
  BY <1>1, TurnHasCome
<1>3. StateOK /\ Owing(n) /\ TasksTyped /\ OutputsTyped
  BY StateIsTyped DEF CoordinatorInvariant, NodesKept
<1>4. attempt[n] = 0 /\ attempt[n] < MaxAttempts
  BY <1>2, <1>3, BoundsAreNumbers DEF Owing
<1>5. /\ kind' = kind /\ wrote' = wrote /\ hints' = hints /\ graph' = graph
      /\ waves' = waves /\ wave' = wave /\ phase' = phase
      /\ outputs' = outputs /\ completed' = completed
      /\ result' = result /\ strays' = strays /\ attributed' = attributed
      /\ history' = history /\ age' = age /\ ran' = ran
  BY <1>1 DEF Act, plan
<1>6. /\ task' \in [Node -> Status] /\ task'[n] = "acting"
      /\ attempt' \in [Node -> 0..MaxAttempts]
      /\ children' \in [Node -> [Child -> ChildStatus]]
      /\ ~IsParallel(n) => children'[n] = children[n]
      /\ seen' \in [Node -> [given : Seq(Node), age : [Node -> 0..Never]]]
      /\ kind[n] = "think" => seen'[n].given = history /\ seen'[n].age = age
      /\ \A m \in Node \ {n} :
           /\ task'[m] = task[m] /\ attempt'[m] = attempt[m]
           /\ children'[m] = children[m] /\ seen'[m] = seen[m]
  BY <1>1, <1>3, <1>4, ActStarts
<1>7. Alone(n)
  BY <1>5, <1>6 DEF Alone, Noted
<1>8. Owing(n)'
  BY <1>2, <1>3, <1>5, <1>6 DEF Owing, IsParallel
<1>9. TasksTyped' /\ outputs' \in [Node -> Output]
  BY <1>3, <1>5, <1>6 DEF TasksTyped, OutputsTyped
<1>10. QED
  BY <1>1, <1>5, <1>6, <1>7, <1>8, <1>9, EnterKeeps

LEMMA SkipKeeps ==
    ASSUME CoordinatorInvariant, NEW n \in Node, Skip(n)
    PROVE  CoordinatorInvariant'
<1>1. /\ phase = "running" /\ n \in waves[wave] \ considered
      /\ considered' = considered \cup {n}
      /\ outputs' = [outputs EXCEPT ![n] = "skipped"] /\ task' = [task EXCEPT ![n] = "over"]
  BY DEF Skip
<1>2. /\ kind' = kind /\ wrote' = wrote /\ hints' = hints /\ graph' = graph
      /\ waves' = waves /\ wave' = wave /\ phase' = phase /\ completed' = completed
      /\ attempt' = attempt /\ result' = result /\ children' = children /\ strays' = strays
      /\ attributed' = attributed /\ seen' = seen
      /\ history' = history /\ age' = age /\ ran' = ran
  BY DEF Skip, plan, notes
<1>3. task[n] = "idle"
  BY <1>1, TurnHasCome
<1>4. StateOK /\ Owing(n) /\ TasksTyped /\ NotesTyped /\ OutputsTyped
  BY StateIsTyped DEF CoordinatorInvariant, NodesKept
<1>5. /\ task' \in [Node -> Status] /\ task'[n] = "over"
      /\ outputs' \in [Node -> Output] /\ outputs'[n] = "skipped"
      /\ \A m \in Node \ {n} : task'[m] = task[m] /\ outputs'[m] = outputs[m]
  BY <1>1, <1>4 DEF TasksTyped, OutputsTyped, Status, Output
<1>6. Alone(n)
  BY <1>2, <1>5 DEF Alone, Noted
<1>7. Owing(n)'
  BY <1>2, <1>3, <1>4, <1>5 DEF Owing
<1>8. TasksTyped'
  BY <1>2, <1>4, <1>5 DEF TasksTyped
<1>9. QED
  BY <1>1, <1>2, <1>4, <1>5, <1>6, <1>7, <1>8, EnterKeeps DEF NotesTyped

(* A finished task is joined: what it left is its output, a panic leaves   *)
(* none.                                                                   *)
LEMMA JoinedKeeps ==
    ASSUME CoordinatorInvariant, phase = "running", NEW n \in Node, task[n] = "finished",
           UNCHANGED <<plan, graph, phase, waves, wave, considered, attempt, result, children, strays, notes>>,
           task' = [task EXCEPT ![n] = "over"],
           \/ result[n] = "panic" /\ outputs' = outputs /\ completed' = FALSE
           \/ /\ result[n] # "panic" /\ outputs' = [outputs EXCEPT ![n] = result[n]]
              /\ completed' = (completed /\ result[n] # "error")
    PROVE  CoordinatorInvariant'
<1>1. /\ StateOK /\ PlanKept /\ Begun /\ WavesOrdered /\ Progress
      /\ NodesKept /\ HistoryAged /\ FailuresTold /\ NoPlannedWrite
      /\ TasksTyped /\ NotesTyped /\ GraphTyped /\ OutputsTyped
  BY StateIsTyped DEF CoordinatorInvariant, Begun
<1>2. /\ kind' = kind /\ wrote' = wrote /\ hints' = hints /\ graph' = graph
      /\ waves' = waves /\ wave' = wave /\ phase' = phase /\ considered' = considered
      /\ attempt' = attempt /\ result' = result /\ children' = children /\ strays' = strays
      /\ attributed' = attributed /\ seen' = seen
      /\ history' = history /\ age' = age /\ ran' = ran
  BY DEF plan, notes
<1>3. Owing(n) /\ Started(n)
  BY <1>1 DEF NodesKept
<1>4. result[n] # "none" /\ outputs[n] = "open" /\ result[n] \in Result
  BY <1>1, <1>3 DEF Owing, TasksTyped
<1>5. /\ task' \in [Node -> Status] /\ task'[n] = "over"
      /\ \A m \in Node \ {n} : task'[m] = task[m]
  BY <1>1 DEF TasksTyped, Status
<1>6. /\ outputs' \in [Node -> Output] /\ \A m \in Node \ {n} : outputs'[m] = outputs[m]
      /\ outputs'[n] = (IF result[n] = "panic" THEN "open" ELSE result[n])
  <2>1. CASE result[n] = "panic"
    BY <1>1, <1>4, <2>1 DEF OutputsTyped
  <2>2. CASE result[n] # "panic"
    BY <1>1, <1>4, <2>2 DEF OutputsTyped, Output, Result
  <2>3. QED
    BY <2>1, <2>2
<1>7. completed' \in BOOLEAN /\ completed' = (completed /\ outputs'[n] \notin {"error", "open"})
  <2>1. CASE result[n] = "panic"
    BY <1>6, <2>1
  <2>2. CASE result[n] # "panic"
    BY <1>4, <1>6, <2>2 DEF Result
  <2>3. QED
    BY <2>1, <2>2
<1>8. StateOK'
  <2>1. GraphTyped'
    BY <1>1, <1>2 DEF GraphTyped
  <2>2. NotesTyped'
    BY <1>1, <1>2 DEF NotesTyped, Never
  <2>3. OutputsTyped'
    BY <1>1, <1>2, <1>6, <1>7 DEF OutputsTyped
  <2>4. TasksTyped'
    BY <1>1, <1>2, <1>5 DEF TasksTyped
  <2>5. QED
    BY <2>1, <2>2, <2>3, <2>4, StateIsTypedNext
<1>9. PlanKept'
  <2>1. \A m \in graph.nodes : Allowed(m)' <=> Allowed(m)
    BY <1>2 DEF Allowed
  <2>2. QED
    BY <1>1, <1>2, <2>1 DEF PlanKept, Begun
<1>10. WavesOrdered'
  BY <1>1, <1>2, OrderKept
<1>11. Progress'
  <2>1. wave' \in 1..PlanSize /\ considered' \subseteq waves'[wave']
    BY <1>1, <1>2 DEF Progress
  <2>2. ASSUME NEW j \in 1..PlanSize, NEW m \in waves[j]
        PROVE  /\ j < wave => task'[m] = "over"
               /\ j = wave => (task'[m] = "idle" <=> m \notin considered)
               /\ j > wave => task'[m] = "idle"
    <3>1. m \in Node
      BY <1>1, WavesOfNodes
    <3>2. CASE m = n
      BY <1>1, <1>5, <3>2 DEF Progress
    <3>3. CASE m # n
      BY <1>1, <1>5, <3>1, <3>3 DEF Progress
    <3>4. QED
      BY <3>2, <3>3
  <2>3. QED
    BY <1>2, <2>1, <2>2 DEF Progress
<1>12. Alone(n)
  BY <1>2, <1>5, <1>6 DEF Alone, Noted
<1>13. \A m \in Node \ {n} : Owing(m)' /\ Started(m)' /\ Informed(m)'
  BY <1>1, <1>2, <1>12, OthersKeep
<1>14. Owing(n)'
  BY <1>2, <1>3, <1>4, <1>5, <1>6 DEF Owing
<1>15. Started(n)' /\ Informed(n)'
  <2>1. Sources(n)' = Sources(n) /\ Sources(n) \subseteq Node \ {n}
    BY <1>1, <1>2, <1>3, SourcesAreNodes DEF Sources, Started
  <2>2. QED
    BY <1>2, <1>3, <1>5, <2>1 DEF Started, Informed, Allowed
<1>16. FailuresTold'
  <2>1. \A m \in Node \ {n} : (task'[m] = "over" => outputs'[m] \notin {"error", "open"})
                          <=> (task[m] = "over" => outputs[m] \notin {"error", "open"})
    BY <1>5, <1>6
  <2>2. completed <=> \A m \in Node : task[m] = "over" => outputs[m] \notin {"error", "open"}
    BY <1>1 DEF FailuresTold
  <2>3. QED
    BY <1>1, <1>5, <1>7, <2>1, <2>2 DEF FailuresTold, OutputsTyped
<1>17. NodesKept'
  BY <1>13, <1>14, <1>15 DEF NodesKept
<1>18. HistoryAged' /\ NoPlannedWrite'
  BY <1>1, <1>2 DEF HistoryAged, NoPlannedWrite
<1>19. QED
  BY <1>8, <1>9, <1>10, <1>11, <1>16, <1>17, <1>18 DEF CoordinatorInvariant

(* A step that leaves the nodes and their notes alone has the rest to keep. *)
LEMMA StandStill ==
    ASSUME CoordinatorInvariant, UNCHANGED <<plan, graph, tasks, outputs, completed, notes>>,
           GraphTyped', PlanKept', Begun' => WavesOrdered' /\ Progress'
    PROVE  CoordinatorInvariant'
<1>1. /\ kind' = kind /\ graph' = graph /\ outputs' = outputs /\ completed' = completed
      /\ task' = task /\ attempt' = attempt /\ result' = result /\ children' = children
      /\ strays' = strays /\ history' = history /\ age' = age /\ ran' = ran
      /\ seen' = seen /\ attributed' = attributed
  BY DEF plan, tasks, notes
<1>2. TasksTyped /\ NotesTyped /\ OutputsTyped /\ NodesKept /\ HistoryAged /\ FailuresTold
      /\ NoPlannedWrite
  BY StateIsTyped DEF CoordinatorInvariant
<1>3. TasksTyped' /\ NotesTyped' /\ OutputsTyped'
  BY <1>1, <1>2 DEF TasksTyped, NotesTyped, OutputsTyped, Never
<1>4. StateOK'
  BY <1>3, StateIsTypedNext
<1>5. NodesKept'
  <2> SUFFICES ASSUME NEW n \in Node PROVE Owing(n)' /\ Started(n)' /\ Informed(n)'
    BY DEF NodesKept
  <2>1. Owing(n) /\ Started(n) /\ Informed(n)
    BY <1>2 DEF NodesKept
  <2>2. Owing(n)'
    BY <1>1, <2>1 DEF Owing, IsParallel
  <2>3. Sources(n)' = Sources(n) /\ (Skips(n)' <=> Skips(n))
    BY <1>1 DEF Sources, Skips
  <2>4. Started(n)'
    BY <1>1, <2>1, <2>3 DEF Started, Allowed
  <2>5. Informed(n)'
    BY <1>1, <2>1, <2>3 DEF Informed, LeftResult
  <2>6. QED
    BY <2>2, <2>4, <2>5
<1>6. HistoryAged' /\ FailuresTold' /\ NoPlannedWrite'
  BY <1>1, <1>2 DEF HistoryAged, FailuresTold, NoPlannedWrite
<1>7. QED
  BY <1>4, <1>5, <1>6 DEF CoordinatorInvariant

(* After the last wave that holds a node, every node is through. *)
LEMMA LastWaveIsLast ==
    ASSUME WavesOrdered, Progress, \A n \in waves[wave] : task[n] = "over",
           wave = PlanSize \/ waves[wave + 1] = {}
    PROVE  \A n \in graph.nodes : task[n] = "over"
<1>1. wave \in 1..PlanSize
  BY DEF Progress
<1>2. \A k \in 1..PlanSize : k > wave => waves[k] = {}
  <2> DEFINE late == {k \in 1..PlanSize : k > wave /\ waves[k] # {}}
  <2> SUFFICES ASSUME late # {} PROVE FALSE
    OBVIOUS
  <2>1. PICK k \in late : \A b \in late : k <= b
    <3>1. late \in SUBSET Nat
      BY BoundsAreNumbers
    <3>2. QED
      BY <3>1, LeastExists
  <2>2. k # wave + 1
    BY <1>1, <2>1, BoundsAreNumbers
  <2>3. k - 1 \in 1..(PlanSize - 1) /\ k - 1 > wave /\ (k - 1) + 1 = k /\ k - 1 \notin late
    BY <1>1, <2>1, <2>2, BoundsAreNumbers
  <2>4. waves[k - 1] = {}
    BY <2>3, BoundsAreNumbers
  <2>5. waves[k] = {}
    BY <2>3, <2>4 DEF WavesOrdered
  <2>6. QED
    BY <2>1, <2>5
<1>3. SUFFICES ASSUME NEW n \in graph.nodes PROVE task[n] = "over"
  OBVIOUS
<1>4. PICK k \in 1..PlanSize : n \in waves[k]
  BY DEF WavesOrdered
<1>5. k <= wave
  BY <1>1, <1>2, <1>4, BoundsAreNumbers
<1>6. CASE k = wave
  BY <1>4, <1>6
<1>7. CASE k < wave
  BY <1>4, <1>7 DEF Progress
<1>8. QED
  BY <1>1, <1>5, <1>6, <1>7, BoundsAreNumbers

LEMMA JoinKeeps ==
    ASSUME CoordinatorInvariant, NEW n \in Node, Join(n)
    PROVE  CoordinatorInvariant'
<1>1. /\ phase = "running" /\ task[n] = "finished"
      /\ UNCHANGED <<plan, graph, waves, wave, considered, attempt, result, children, strays, notes>>
  BY DEF Join
<1>2. CASE phase' = "dead" /\ UNCHANGED <<task, outputs, completed>>
  <2>1. /\ UNCHANGED <<plan, graph, tasks, outputs, completed, notes>>
        /\ UNCHANGED <<waves, wave, considered>>
    BY <1>1, <1>2 DEF tasks
  <2>2. Begun /\ Begun' /\ GraphTyped /\ PlanKept /\ WavesOrdered /\ Progress
    BY <1>1, <1>2, StateIsTyped DEF Begun, CoordinatorInvariant
  <2>3. GraphTyped'
    BY <1>2, <2>1, <2>2 DEF GraphTyped, plan
  <2>4. PlanKept'
    <3>1. \A m \in graph.nodes : Allowed(m)' <=> Allowed(m)
      BY <2>1 DEF Allowed, plan
    <3>2. QED
      BY <1>1, <1>2, <2>1, <2>2, <3>1 DEF PlanKept
  <2>5. WavesOrdered' /\ Progress'
    <3>1. WavesOrdered'
      BY <2>1, <2>2, OrderKept
    <3>2. Progress'
      BY <1>1, <1>2, <2>1, <2>2 DEF Progress
    <3>3. QED
      BY <3>1, <3>2
  <2>6. QED
    BY <2>1, <2>3, <2>4, <2>5, StandStill
<1>3. CASE result[n] = "panic" /\ task' = [task EXCEPT ![n] = "over"] /\ completed' = FALSE
             /\ UNCHANGED <<phase, outputs>>
  BY <1>1, <1>3, JoinedKeeps
<1>4. CASE /\ result[n] # "panic"
           /\ outputs' = [outputs EXCEPT ![n] = result[n]] /\ task' = [task EXCEPT ![n] = "over"]
           /\ completed' = (completed /\ result[n] # "error")
           /\ UNCHANGED phase
  BY <1>1, <1>4, JoinedKeeps
<1>5. QED
  BY <1>2, <1>3, <1>4 DEF Join

LEMMA NextWaveKeeps ==
    ASSUME CoordinatorInvariant, NextWave
    PROVE  CoordinatorInvariant'
<1>1. /\ phase = "running" /\ \A n \in waves[wave] : task[n] = "over"
      /\ UNCHANGED <<plan, graph, waves, tasks, outputs, completed, notes>>
  BY DEF NextWave
<1>2. Begun /\ GraphTyped /\ PlanKept /\ WavesOrdered /\ Progress
  BY <1>1, StateIsTyped DEF Begun, CoordinatorInvariant
<1>3. WavesOrdered'
  BY <1>1, <1>2, OrderKept
<1>4. task' = task /\ graph' = graph /\ waves' = waves /\ kind' = kind
  BY <1>1 DEF tasks, plan
<1>5. wave \in 1..PlanSize
  BY <1>2 DEF Progress
<1>6. \A m \in graph.nodes : Allowed(m)' <=> Allowed(m)
  BY <1>4 DEF Allowed
<1>7. CASE (wave = PlanSize \/ waves[wave + 1] = {}) /\ phase' = "done" /\ UNCHANGED <<wave, considered>>
  <2>1. GraphTyped' /\ Begun'
    BY <1>1, <1>2, <1>7 DEF GraphTyped, plan, Begun
  <2>2. PlanKept'
    BY <1>1, <1>2, <1>4, <1>6, <1>7, <2>1 DEF PlanKept
  <2>3. Progress'
    <3>1. \A n \in graph.nodes : task[n] = "over"
      BY <1>1, <1>2, <1>7, LastWaveIsLast
    <3>2. QED
      BY <1>2, <1>4, <1>7, <3>1 DEF Progress
  <2>4. QED
    BY <1>1, <1>3, <2>1, <2>2, <2>3, StandStill
<1>8. CASE wave # PlanSize /\ wave' = wave + 1 /\ considered' = {} /\ UNCHANGED phase
  <2>1. wave' \in 1..PlanSize /\ wave' \in 0..PlanSize
    BY <1>5, <1>8, BoundsAreNumbers
  <2>2. GraphTyped' /\ Begun'
    BY <1>1, <1>2, <1>8, <2>1 DEF GraphTyped, plan, Begun
  <2>3. PlanKept'
    BY <1>1, <1>2, <1>4, <1>6, <1>8, <2>2 DEF PlanKept
  <2>4. Progress'
    <3>1. ASSUME NEW j \in 1..PlanSize, NEW m \in waves[j]
          PROVE  /\ j < wave + 1 => task[m] = "over"
                 /\ j = wave + 1 => task[m] = "idle"
                 /\ j > wave + 1 => task[m] = "idle"
      <4>1. /\ j < wave => task[m] = "over"
            /\ j > wave => task[m] = "idle"
        BY <1>2 DEF Progress
      <4>2. j = wave => task[m] = "over"
        BY <1>1
      <4>3. QED
        BY <1>5, <4>1, <4>2
    <3>2. phase' # "done"
      BY <1>1, <1>8
    <3>3. QED
      BY <1>4, <1>8, <2>1, <3>1, <3>2 DEF Progress
  <2>5. QED
    BY <1>1, <1>3, <2>2, <2>3, <2>4, StandStill
<1>9. QED
  BY <1>7, <1>8 DEF NextWave

LEMMA SortKeeps ==
    ASSUME CoordinatorInvariant, Sort
    PROVE  CoordinatorInvariant'
<1>1. /\ phase = "planned" /\ phase' = (IF Sortable THEN "running" ELSE "failed")
      /\ waves' = Waves /\ wave' = 1
      /\ UNCHANGED <<plan, graph, considered, tasks, outputs, completed, notes>>
  BY DEF Sort
<1>2. GraphTyped /\ PlanKept /\ ~Begun
  BY <1>1, StateIsTyped DEF Begun, CoordinatorInvariant
<1>3. /\ considered = {} /\ considered' = {} /\ task' = task /\ graph' = graph /\ kind' = kind
      /\ \A n \in Node : task[n] = "idle"
  BY <1>1, <1>2 DEF PlanKept, tasks, plan
<1>4. /\ Waves \in Seq(SUBSET graph.nodes) /\ Len(Waves) = PlanSize
      /\ \A i, j \in 1..PlanSize : i # j => Waves[i] \cap Waves[j] = {}
      /\ Sortable => \A n \in graph.nodes : \E k \in 1..PlanSize : n \in Waves[k]
      /\ \A k \in 1..PlanSize : \A n \in Waves[k] : \A p \in Sources(n) :
           \E j \in 1..(k - 1) : p \in Waves[j]
      /\ \A k \in 1..(PlanSize - 1) : Waves[k] = {} => Waves[k + 1] = {}
  BY WavesFromPlaced
<1>5. 1 \in 1..PlanSize /\ 1 \in 0..PlanSize
  BY BoundsAreNumbers
<1>6. GraphTyped'
  BY <1>1, <1>2, <1>3, <1>4, <1>5 DEF GraphTyped, plan
<1>7. PlanKept'
  <2>1. \A m \in graph.nodes : Allowed(m)' <=> Allowed(m)
    BY <1>3 DEF Allowed
  <2>2. QED
    BY <1>1, <1>2, <1>3, <2>1 DEF PlanKept
<1>8. ASSUME Begun' PROVE WavesOrdered' /\ Progress'
  <2>1. Sortable /\ phase' = "running"
    BY <1>1, <1>8 DEF Begun
  <2>2. WavesOrdered'
    <3>1. \A n : Sources(n)' = Sources(n)
      BY <1>3 DEF Sources
    <3>2. QED
      BY <1>1, <1>3, <1>4, <2>1, <3>1 DEF WavesOrdered
  <2>3. Progress'
    <3>1. \A j \in 1..PlanSize : waves'[j] \subseteq Node
      <4>1. Waves \in [1..PlanSize -> SUBSET graph.nodes] /\ graph.nodes \subseteq Node
        BY <1>2, <1>4, LenProperties DEF GraphTyped
      <4>2. QED
        BY <1>1, <4>1
    <3>2. \A j \in 1..PlanSize : ~(j < 1)
      OBVIOUS
    <3>3. QED
      BY <1>1, <1>3, <1>5, <2>1, <3>1, <3>2 DEF Progress
  <2>4. QED
    BY <2>2, <2>3
<1>9. QED
  BY <1>1, <1>6, <1>7, <1>8, StandStill

LEMMA NoPlanKeeps ==
    ASSUME CoordinatorInvariant, NoPlan
    PROVE  CoordinatorInvariant'
<1>1. /\ phase = "planning" /\ phase' = "failed"
      /\ UNCHANGED <<plan, graph, waves, wave, considered, tasks, outputs, completed, notes>>
  BY DEF NoPlan
<1>2. GraphTyped /\ PlanKept /\ ~Begun /\ ~Begun'
  BY <1>1, StateIsTyped DEF Begun, CoordinatorInvariant
<1>3. GraphTyped'
  BY <1>1, <1>2 DEF GraphTyped, plan
<1>4. PlanKept'
  BY <1>1, <1>2 DEF PlanKept, tasks
<1>5. QED
  BY <1>1, <1>2, <1>3, <1>4, StandStill

LEMMA StutterKeeps ==
    ASSUME CoordinatorInvariant, UNCHANGED vars
    PROVE  CoordinatorInvariant'
<1>1. UNCHANGED <<phase, waves, wave, considered, plan, graph, tasks, outputs, completed, notes>>
  BY DEF vars
<1>2. GraphTyped /\ PlanKept /\ (Begun => WavesOrdered /\ Progress)
  BY StateIsTyped DEF CoordinatorInvariant
<1>3. GraphTyped'
  BY <1>1, <1>2 DEF GraphTyped, plan
<1>4. PlanKept'
  <2>1. \A m \in graph.nodes : Allowed(m)' <=> Allowed(m)
    BY <1>1 DEF Allowed, plan
  <2>2. QED
    BY <1>1, <1>2, <2>1 DEF PlanKept, tasks, Begun
<1>5. Begun' => WavesOrdered' /\ Progress'
  <2>1. Begun' <=> Begun
    BY <1>1 DEF Begun
  <2>2. WavesOrdered => WavesOrdered'
    BY <1>1, OrderKept
  <2>3. Progress => Progress'
    BY <1>1 DEF Progress, tasks
  <2>4. QED
    BY <1>2, <2>1, <2>2, <2>3
<1>6. QED
  BY <1>1, <1>3, <1>4, <1>5, StandStill

-----------------------------------------------------------------------------
(* The plan. *)

LEMMA ParsedIsGraph ==
    ASSUME wrote \subseteq EdgeChoices, hints \subseteq HintChoices
    PROVE  /\ Parsed.nodes \subseteq Node /\ 1 \in Parsed.nodes
           /\ Parsed.edges \subseteq Parsed.nodes \X Parsed.nodes \X Condition
           /\ DOMAIN Parsed = {"nodes", "edges"}
<1> DEFINE kept == {n \in Node : n <= MaxNodes}
           fromHints == {<<h[1], h[2], "none">> :
                           h \in {h \in hints : \A e \in wrote : <<e[1], e[2]>> # h}}
           edges == {e \in wrote \cup fromHints : e[1] \in kept /\ e[2] \in kept}
<1>1. Parsed = [nodes |-> kept, edges |-> edges]
  BY DEF Parsed
<1>2. kept \subseteq Node /\ 1 \in kept
  BY BoundsAreNumbers
<1>3. wrote \cup fromHints \subseteq Node \X Node \X Condition
  <2>1. wrote \subseteq Node \X Node \X Condition /\ hints \subseteq Node \X Node
    BY PlanAssumption
  <2>2. ASSUME NEW h \in hints PROVE <<h[1], h[2], "none">> \in Node \X Node \X Condition
    BY <2>1 DEF Condition
  <2>3. QED
    BY <2>1, <2>2
<1>4. edges \subseteq kept \X kept \X Condition
  <2> SUFFICES ASSUME NEW e \in edges PROVE e \in kept \X kept \X Condition
    OBVIOUS
  <2>1. e \in Node \X Node \X Condition /\ e[1] \in kept /\ e[2] \in kept
    BY <1>3
  <2> HIDE DEF kept, edges
  <2>2. PICK a \in Node, b \in Node, c \in Condition : e = <<a, b, c>>
    BY <2>1
  <2>3. QED
    BY <2>1, <2>2
<1> HIDE DEF kept, edges
<1>5. QED
  BY <1>1, <1>2, <1>4

LEMMA PlanKeeps ==
    ASSUME CoordinatorInvariant, Plan
    PROVE  CoordinatorInvariant'
<1>1. /\ phase = "planning" /\ wrote' = {} /\ hints' = {}
      /\ UNCHANGED <<waves, wave, considered, tasks, outputs, completed, notes>>
  BY DEF Plan
<1>2. /\ waves' = waves /\ wave' = wave /\ considered' = considered
      /\ outputs' = outputs /\ completed' = completed
      /\ task' = task /\ attempt' = attempt /\ result' = result /\ children' = children
      /\ strays' = strays /\ history' = history /\ age' = age /\ ran' = ran
      /\ seen' = seen /\ attributed' = attributed
  BY <1>1 DEF tasks, notes
<1>3. /\ TasksTyped /\ NotesTyped /\ OutputsTyped /\ GraphTyped /\ PlanKept /\ NodesKept
      /\ HistoryAged /\ FailuresTold /\ NoPlannedWrite
  BY StateIsTyped DEF CoordinatorInvariant
<1>4. waves = <<>> /\ considered = {} /\ \A n \in Node : task[n] = "idle"
  BY <1>1, <1>3 DEF PlanKept, Begun
<1>5. /\ kind' \in [Node -> Kind]
      /\ graph'.nodes \subseteq Node /\ graph'.nodes # {}
      /\ graph'.edges \subseteq graph'.nodes \X graph'.nodes \X Condition
      /\ DOMAIN graph' = {"nodes", "edges"}
      /\ phase' \in {"planned", "failed"}
      /\ phase' = "planned" => \A n \in graph'.nodes : kind'[n] \notin {"write", "parallel write"}
  <2>1. CASE /\ graph' = Parsed /\ kind' = kind
             /\ phase' = IF \A n \in Parsed.nodes : Allowed(n) THEN "planned" ELSE "failed"
    <3>1. /\ Parsed.nodes \subseteq Node /\ 1 \in Parsed.nodes
          /\ Parsed.edges \subseteq Parsed.nodes \X Parsed.nodes \X Condition
          /\ DOMAIN Parsed = {"nodes", "edges"}
      BY <1>3, ParsedIsGraph DEF GraphTyped
    <3>2. kind' \in [Node -> Kind]
      BY <1>3, <2>1 DEF GraphTyped
    <3>3. phase' = "planned" => \A n \in Parsed.nodes : kind[n] \notin {"write", "parallel write"}
      BY <2>1 DEF Allowed
    <3>4. phase' \in {"planned", "failed"}
      BY <2>1
    <3>5. QED
      BY <2>1, <3>1, <3>2, <3>3, <3>4
  <2>2. CASE graph' = Fallback /\ kind' = [n \in Node |-> "think"] /\ phase' = "planned"
    <3>1. kind' \in [Node -> Kind]
      <4>1. "think" \in Kind
        BY DEF Kind
      <4>2. QED
        BY <2>2, <4>1
    <3>2. graph'.nodes = {1} /\ graph'.edges = {} /\ DOMAIN graph' = {"nodes", "edges"}
      BY <2>2 DEF Fallback
    <3>3. QED
      BY <2>2, <3>1, <3>2, BoundsAreNumbers
  <2>3. QED
    BY <2>1, <2>2 DEF Plan
<1>6. StateOK'
  <2>1. GraphTyped'
    <3>1. \A S : <<>> \in Seq(S)
      OBVIOUS
    <3>2. waves' \in Seq(SUBSET graph'.nodes) /\ considered' \subseteq graph'.nodes
      BY <1>2, <1>4, <3>1
    <3>3. wave' \in 0..PlanSize
      BY <1>2, <1>3 DEF GraphTyped
    <3>4. wrote' \subseteq EdgeChoices /\ hints' \subseteq HintChoices
      BY <1>1
    <3>5. QED
      BY <1>5, <3>2, <3>3, <3>4 DEF GraphTyped
  <2>2. TasksTyped' /\ NotesTyped' /\ OutputsTyped'
    BY <1>2, <1>3 DEF TasksTyped, NotesTyped, OutputsTyped, Never
  <2>3. QED
    BY <2>1, <2>2, StateIsTypedNext
<1>7. PlanKept'
  BY <1>2, <1>4, <1>5 DEF PlanKept, Begun, Allowed
<1>8. NodesKept'
  <2> SUFFICES ASSUME NEW n \in Node PROVE Owing(n)' /\ Started(n)' /\ Informed(n)'
    BY DEF NodesKept
  <2>1. Owing(n) /\ task[n] = "idle" /\ result[n] = "none"
    BY <1>3, <1>4 DEF NodesKept, Owing
  <2>2. Owing(n)'
    BY <1>2, <2>1 DEF Owing
  <2>3. Started(n)' /\ Informed(n)'
    BY <1>2, <2>1 DEF Started, Informed
  <2>4. QED
    BY <2>2, <2>3
<1>9. HistoryAged' /\ FailuresTold' /\ NoPlannedWrite'
  BY <1>2, <1>3 DEF HistoryAged, FailuresTold, NoPlannedWrite
<1>10. ~Begun'
  BY <1>5 DEF Begun
<1>11. QED
  BY <1>6, <1>7, <1>8, <1>9, <1>10 DEF CoordinatorInvariant

-----------------------------------------------------------------------------
(* The invariant holds when the planner is asked, and every step keeps it. *)

LEMMA CoordinatorStarts == Init => CoordinatorInvariant
<1> SUFFICES ASSUME Init PROVE CoordinatorInvariant
  OBVIOUS
<1>1. /\ kind \in [Node -> Kind] /\ wrote \subseteq EdgeChoices /\ hints \subseteq HintChoices
      /\ graph = [nodes |-> {}, edges |-> {}]
      /\ phase = "planning" /\ waves = <<>> /\ wave = 0 /\ considered = {}
  BY DEF Init, Kind
<1>2. /\ task = [n \in Node |-> "idle"] /\ attempt = [n \in Node |-> 0]
      /\ result = [n \in Node |-> "none"] /\ outputs = [n \in Node |-> "open"] /\ completed = TRUE
      /\ children = [n \in Node |-> NoChildren] /\ strays = {}
      /\ history = <<>> /\ age = [n \in Node |-> Never]
      /\ seen = [n \in Node |-> [given |-> <<>>, age |-> age]]
      /\ ran = {} /\ attributed = [n \in Node |-> 0]
  BY DEF Init
<1>3. Never \in 0..Never /\ ~(Never < HistoryCap) /\ 0 \in 0..MaxAttempts
  BY BoundsAreNumbers DEF Never
<1>4. GraphTyped
  BY <1>1, BoundsAreNumbers DEF GraphTyped
<1>5. TasksTyped
  <2>1. NoChildren \in [Child -> ChildStatus]
    BY DEF NoChildren, ChildStatus
  <2>2. QED
    BY <1>2, <1>3, <2>1 DEF TasksTyped, Status, Result
<1>6. NotesTyped
  <2>1. age \in [Node -> 0..Never]
    BY <1>2, <1>3
  <2>2. <<>> \in Seq(Node) /\ Len(<<>>) = 0
    BY EmptySeq
  <2>3. [given |-> <<>>, age |-> age] \in [given : Seq(Node), age : [Node -> 0..Never]]
    BY <2>1, <2>2
  <2>4. seen \in [Node -> [given : Seq(Node), age : [Node -> 0..Never]]]
    BY <1>2, <2>3
  <2>5. QED
    BY <1>2, <2>1, <2>2, <2>4, BoundsAreNumbers DEF NotesTyped
<1>7. OutputsTyped
  BY <1>2 DEF OutputsTyped, Output
<1>8. PlanKept /\ ~Begun
  BY <1>1, <1>2 DEF PlanKept, Begun
<1>9. NodesKept
  BY <1>2 DEF NodesKept, Owing, Started, Informed
<1>10. HistoryAged /\ FailuresTold /\ NoPlannedWrite
  BY <1>2, <1>3 DEF HistoryAged, FailuresTold, NoPlannedWrite
<1>11. QED
  BY <1>4, <1>5, <1>6, <1>7, <1>8, <1>9, <1>10, StateIsTyped DEF CoordinatorInvariant

LEMMA CoordinatorSteps ==
    ASSUME CoordinatorInvariant, [Next]_vars
    PROVE  CoordinatorInvariant'
<1>1. CASE Plan
  BY <1>1, PlanKeeps
<1>2. CASE NoPlan
  BY <1>2, NoPlanKeeps
<1>3. CASE Sort
  BY <1>3, SortKeeps
<1>4. CASE NextWave
  BY <1>4, NextWaveKeeps
<1>5. CASE \E n \in Node : Skip(n) \/ Begin(n) \/ Join(n)
  BY <1>5, SkipKeeps, BeginKeeps, JoinKeeps
<1>6. ASSUME NEW n \in Node, Task(n) PROVE CoordinatorInvariant'
  <2>1. CASE Retry(n) \/ Think(n) \/ CallTool(n) \/ Delegate(n) \/ Parallel(n) \/ Timeout(n)
    BY <2>1, RetryKeeps, ThinkKeeps, CallToolKeeps, DelegateKeeps, ParallelKeeps
  <2>2. CASE \E c \in Child : ChildEnds(n, c)
    BY <2>2, ChildEndsKeeps
  <2>3. QED
    BY <1>6, <2>1, <2>2 DEF Task
<1>7. ASSUME NEW n \in Node, NEW c \in Child, StrayStops(n, c) PROVE CoordinatorInvariant'
  BY <1>7, StrayStopsKeeps
<1>8. CASE UNCHANGED vars
  BY <1>8, StutterKeeps
<1>9. QED
  BY <1>1, <1>2, <1>3, <1>4, <1>5, <1>6, <1>7, <1>8 DEF Next, Executor

LEMMA CoordinatorInvariantAlways == Spec => []CoordinatorInvariant
<1>1. CoordinatorInvariant /\ [Next]_vars => CoordinatorInvariant'
  BY CoordinatorSteps
<1>2. QED
  BY <1>1, CoordinatorStarts, PTL DEF Spec

\* A tool that writes is never called for the planner, a child runs only under
\* an attempt of its node, and a node fails after all its attempts, is attributed
\* once and told of when the run is done.
THEOREM WavesStaySound == Spec => []WavesAreSound
<1>1. CoordinatorInvariant => WavesAreSound
  <2> SUFFICES ASSUME CoordinatorInvariant PROVE WavesAreSound
    OBVIOUS
  <2>1. TypeOK /\ NoPlannedWrite /\ NodesKept /\ FailuresTold
    BY DEF CoordinatorInvariant, StateOK
  <2>2. ChildrenOfLiveAttempt
    <3> SUFFICES ASSUME NEW n \in Node, NEW c \in Child, children[n][c] = "running"
                 PROVE  task[n] = "acting"
      BY DEF ChildrenOfLiveAttempt, Running
    <3>1. children[n] # NoChildren
      BY DEF NoChildren
    <3>2. QED
      BY <2>1, <3>1 DEF NodesKept, Owing
  <2>3. FailuresAreFinal
    <3>1. \A n \in Node : /\ attributed[n] = (IF result[n] = "error" THEN 1 ELSE 0)
                          /\ result[n] = "error" => attempt[n] = MaxAttempts
      BY <2>1 DEF NodesKept, Owing
    <3>2. ASSUME phase = "done"
          PROVE  completed <=> \A n \in graph.nodes : outputs[n] \notin {"error", "open"}
      <4>1. \A n \in graph.nodes : task[n] = "over"
        BY <3>2 DEF CoordinatorInvariant, Begun, Progress
      <4>2. \A n \in Node : task[n] = "over" => n \in graph.nodes
        BY <2>1 DEF NodesKept, Started
      <4>3. graph.nodes \subseteq Node
        BY StateIsTyped DEF CoordinatorInvariant, GraphTyped
      <4>4. QED
        BY <2>1, <4>1, <4>2, <4>3 DEF FailuresTold
    <3>3. QED
      BY <3>1, <3>2 DEF FailuresAreFinal
  <2>4. QED
    BY <2>1, <2>2, <2>3 DEF WavesAreSound
<1>2. QED
  BY <1>1, CoordinatorInvariantAlways, PTL

\* A step that thinks is always given the results it depends on, unless the
\* history has since been filled by others.
THEOREM StepsAlwaysSeeResults == Spec => []StepsSeeResults
<1>1. CoordinatorInvariant => StepsSeeResults
  <2> SUFFICES ASSUME CoordinatorInvariant PROVE StepsSeeResults
    OBVIOUS
  <2>1. NodesKept /\ graph.nodes \subseteq Node
    BY StateIsTyped DEF CoordinatorInvariant, GraphTyped
  <2>2. QED
    BY <2>1 DEF NodesKept, Informed, StepsSeeResults
<1>2. QED
  BY <1>1, CoordinatorInvariantAlways, PTL

-----------------------------------------------------------------------------
(* The waves implement the graph: each step decides a node, ends the run,  *)
(* or is none of the graph's business.                                     *)

(* What the graph sees of a node: "lost" is that of a task that panicked.  *)
Out == [n \in Node |-> IF outputs[n] # "open" THEN outputs[n]
                       ELSE IF task[n] = "over" THEN "lost" ELSE "open"]

GraphSees == <<graph.nodes, graph.edges, Out, phase = "done">>

Decided == {n \in Node : task[n] = "over"}

LEMMA OutOfNode ==
    ASSUME StateOK, NodesKept, NEW n \in Node
    PROVE  Out[n] = "open" <=> task[n] # "over"
<1>1. Owing(n) /\ result[n] \in Result
  BY StateIsTyped DEF NodesKept, TasksTyped
<1>2. Out[n] = (IF outputs[n] # "open" THEN outputs[n]
                ELSE IF task[n] = "over" THEN "lost" ELSE "open")
  BY DEF Out
<1>3. QED
  BY <1>1, <1>2 DEF Owing

(* A node is enabled in the graph exactly when the executor runs it. *)
LEMMA EnabledIfNotSkipped ==
    ASSUME StateOK, NEW n \in Node
    PROVE  Graph!Enabled(n) <=> ~Skips(n)
<1>1. graph.edges \subseteq Node \X Node \X Condition
  BY StateIsTyped DEF GraphTyped
<1>2. ASSUME NEW e \in graph.edges
      PROVE  Graph!Satisfies(Out[e[1]], e[3]) <=> Satisfies(outputs[e[1]], e[3])
  <2>1. e[1] \in Node
    BY <1>1
  <2>2. Out[e[1]] = outputs[e[1]] \/ (outputs[e[1]] = "open" /\ Out[e[1]] \in {"open", "lost"})
    BY <2>1 DEF Out
  <2>3. QED
    BY <2>2 DEF Satisfies, Graph!Satisfies
<1> DEFINE into == {e \in graph.edges : e[2] = n}
<1>3. Graph!Enabled(n) <=> into = {} \/ \E e \in into : Graph!Satisfies(Out[e[1]], e[3])
  BY DEF Graph!Enabled, Graph!Into, Out
<1>4. Skips(n) <=> into # {} /\ ~\E e \in into : Satisfies(outputs[e[1]], e[3])
  BY DEF Skips
<1>5. QED
  BY <1>2, <1>3, <1>4

(* A node that is entered in the outputs is decided in the graph. *)
LEMMA DecidesNode ==
    ASSUME StateOK, NodesKept, NEW n \in Node, n \in graph.nodes, task[n] # "over",
           phase # "done", phase' # "done", graph' = graph,
           \A p \in Sources(n) : task[p] = "over",
           NEW o \in {"text", "tool", "match", "error", "skipped", "lost"},
           (o = "skipped") <=> Skips(n),
           Out' = [Out EXCEPT ![n] = o]
    PROVE  Graph!Next
<1>1. Out[n] = "open"
  BY OutOfNode
<1>2. \A e \in Graph!Into(n) : Out[e[1]] # "open"
  <2> SUFFICES ASSUME NEW e \in graph.edges, e[2] = n PROVE Out[e[1]] # "open"
    BY DEF Graph!Into
  <2>1. e[1] \in Sources(n) /\ Sources(n) \subseteq Node
    BY SourcesAreNodes DEF Sources
  <2>2. QED
    BY <2>1, OutOfNode
<1>3. (o = "skipped") <=> ~Graph!Enabled(n)
  BY EnabledIfNotSkipped
<1>4. o \in Graph!Outputs \cup {"skipped", "lost"}
  BY DEF Graph!Outputs
<1>5. UNCHANGED <<graph.nodes, graph.edges, phase = "done">>
  BY Zenon
<1>6. Graph!Decide(n)
  BY <1>1, <1>2, <1>3, <1>4, <1>5 DEF Graph!Decide, Graph!Possible, Out
<1>7. QED
  BY <1>6 DEF Graph!Next

LEMMA SilentToGraph ==
    ASSUME UNCHANGED <<graph, outputs>>, Decided' = Decided, phase # "done", phase' # "done"
    PROVE  UNCHANGED GraphSees
<1>1. \A n \in Node : task'[n] = "over" <=> task[n] = "over"
  BY DEF Decided
<1>2. Out' = Out
  BY <1>1 DEF Out
<1>3. QED
  BY <1>2, Zenon DEF GraphSees

(* A task decides nothing until it is joined. *)
LEMMA TasksAreSilent ==
    ASSUME StateOK, NEW n \in Node, Task(n) \/ \E c \in Child : StrayStops(n, c)
    PROVE  UNCHANGED <<graph, outputs, phase>> /\ Decided' = Decided
<1>1. task \in [Node -> Status]
  BY StateIsTyped DEF TasksTyped
<1>2. UNCHANGED <<graph, outputs, phase>>
  BY DEF Task, Retry, Act, Think, CallTool, Delegate, Parallel, Timeout, ChildEnds,
         StrayStops, others
<1>3. \/ task' = task
      \/ \E to \in {"acting", "backoff", "finished"} :
           task[n] \in {"acting", "backoff"} /\ task' = [task EXCEPT ![n] = to]
  <2>1. CASE Retry(n)
    BY <2>1 DEF Retry, Act
  <2>2. CASE Think(n) \/ CallTool(n) \/ Delegate(n) \/ Parallel(n) \/ Timeout(n)
    <3>1. task[n] = "acting" /\ \E o \in {"text", "tool", "match", "error", "panic"} : Settle(n, o)
      BY <2>2 DEF Think, CallTool, Delegate, Parallel, Timeout
    <3>2. QED
      BY <3>1 DEF Settle
  <2>3. CASE \E c \in Child : ChildEnds(n, c) \/ StrayStops(n, c)
    BY <2>3 DEF ChildEnds, StrayStops
  <2>4. QED
    BY <2>1, <2>2, <2>3 DEF Task
<1>4. \A m \in Node : task'[m] = "over" <=> task[m] = "over"
  BY <1>1, <1>3
<1>5. QED
  BY <1>2, <1>4 DEF Decided

LEMMA PlanIsGraphs ==
    ASSUME CoordinatorInvariant, CoordinatorInvariant', Plan
    PROVE  Graph!Next
<1>1. phase = "planning" /\ UNCHANGED <<tasks, outputs>> /\ phase' \in {"planned", "failed"}
  BY DEF Plan
<1>2. graph.nodes = {} /\ phase # "done"
  BY <1>1 DEF CoordinatorInvariant, PlanKept
<1>3. /\ graph'.nodes \subseteq Node
      /\ graph'.edges \subseteq graph'.nodes \X graph'.nodes \X Condition
  BY DEF CoordinatorInvariant, StateOK, TypeOK
<1>4. graph'.nodes # {}
  <2>1. Parsed.nodes = {n \in Node : n <= MaxNodes} /\ Fallback.nodes = {1}
    BY DEF Parsed, Fallback
  <2>2. 1 \in Parsed.nodes
    BY <2>1, BoundsAreNumbers
  <2>3. QED
    BY <2>1, <2>2 DEF Plan
<1>5. Out' = Out
  BY <1>1 DEF Out, tasks
<1>6. UNCHANGED (phase = "done")
  BY <1>1, <1>2
<1>7. Graph!Plan
  <2>1. graph.nodes = {} /\ ~(phase = "done")
    BY <1>2
  <2>2. /\ graph'.nodes \in (SUBSET Node) \ {{}}
        /\ graph'.edges \in SUBSET (graph'.nodes \X graph'.nodes \X Condition)
    <3>1. graph'.nodes \in (SUBSET Node) \ {{}}
      BY <1>3, <1>4
    <3>2. graph'.edges \in SUBSET (graph'.nodes \X graph'.nodes \X Condition)
      BY <1>3, Zenon
    <3>3. QED
      BY <3>1, <3>2
  <2>3. UNCHANGED <<Out, phase = "done">>
    BY <1>5, <1>6
  <2>4. QED
    BY <2>1, <2>2, <2>3, Zenon DEF Graph!Plan, Out
<1>8. QED
  BY <1>7 DEF Graph!Next

LEMMA SkipIsGraphs ==
    ASSUME CoordinatorInvariant, NEW n \in Node, Skip(n)
    PROVE  Graph!Next
<1>1. /\ phase = "running" /\ n \in waves[wave] \ considered /\ Skips(n)
      /\ outputs' = [outputs EXCEPT ![n] = "skipped"] /\ task' = [task EXCEPT ![n] = "over"]
      /\ phase' = phase /\ graph' = graph
  BY DEF Skip
<1>2. /\ n \in graph.nodes /\ task[n] = "idle" /\ \A p \in Sources(n) : task[p] = "over"
  BY <1>1, TurnHasCome
<1>3. StateOK /\ NodesKept /\ TasksTyped /\ OutputsTyped
  BY StateIsTyped DEF CoordinatorInvariant
<1>4. Out' = [Out EXCEPT ![n] = "skipped"]
  BY <1>1, <1>3 DEF Out, TasksTyped, OutputsTyped
<1>5. QED
  BY <1>1, <1>2, <1>3, <1>4, DecidesNode

LEMMA JoinIsGraphs ==
    ASSUME CoordinatorInvariant, NEW n \in Node, Join(n)
    PROVE  Graph!Next \/ UNCHANGED GraphSees
<1>1. /\ phase = "running" /\ task[n] = "finished" /\ graph' = graph
  BY DEF Join
<1>2. StateOK /\ NodesKept /\ TasksTyped /\ OutputsTyped
  BY StateIsTyped DEF CoordinatorInvariant
<1>3. Owing(n) /\ Started(n)
  BY <1>2 DEF NodesKept
<1>4. /\ n \in graph.nodes /\ \A p \in Sources(n) : task[p] = "over"
      /\ ~Skips(n) /\ outputs[n] = "open" /\ result[n] # "none" /\ result[n] \in Result
  BY <1>1, <1>2, <1>3 DEF Started, Owing, TasksTyped
<1>5. CASE phase' = "dead" /\ UNCHANGED <<task, outputs, completed>>
  BY <1>1, <1>5, SilentToGraph DEF Decided
<1>6. CASE /\ phase' = phase /\ task' = [task EXCEPT ![n] = "over"]
           /\ \/ result[n] = "panic" /\ outputs' = outputs
              \/ result[n] # "panic" /\ outputs' = [outputs EXCEPT ![n] = result[n]]
  <2>1. PICK o \in {"text", "tool", "match", "error", "lost"} : Out' = [Out EXCEPT ![n] = o]
    <3>1. CASE result[n] = "panic" /\ outputs' = outputs
      <4>1. Out' = [Out EXCEPT ![n] = "lost"]
        BY <1>2, <1>4, <1>6, <3>1 DEF Out, TasksTyped, OutputsTyped
      <4>2. QED
        BY <4>1
    <3>2. CASE result[n] # "panic" /\ outputs' = [outputs EXCEPT ![n] = result[n]]
      <4>1. result[n] \in {"text", "tool", "match", "error"}
        BY <1>4, <3>2 DEF Result
      <4>2. Out' = [Out EXCEPT ![n] = result[n]]
        BY <1>2, <1>6, <3>2, <4>1 DEF Out, TasksTyped, OutputsTyped
      <4>3. QED
        BY <4>1, <4>2
    <3>3. QED
      BY <1>6, <3>1, <3>2
  <2>2. (o = "skipped") <=> Skips(n)
    BY <1>4
  <2>3. QED
    BY <1>1, <1>2, <1>4, <1>6, <2>1, <2>2, DecidesNode
<1>7. QED
  BY <1>5, <1>6 DEF Join

LEMMA NextWaveIsGraphs ==
    ASSUME CoordinatorInvariant, NextWave
    PROVE  Graph!Next \/ UNCHANGED GraphSees
<1>1. /\ phase = "running" /\ \A n \in waves[wave] : task[n] = "over"
      /\ graph' = graph /\ outputs' = outputs /\ task' = task
  BY DEF NextWave, tasks
<1>2. CASE (wave = PlanSize \/ waves[wave + 1] = {}) /\ phase' = "done"
  <2>1. WavesOrdered /\ Progress /\ StateOK /\ NodesKept /\ PlanKept
    BY <1>1 DEF CoordinatorInvariant, Begun
  <2>2. \A n \in graph.nodes : Out[n] # "open"
    <3>1. graph.nodes \subseteq Node
      BY <2>1, StateIsTyped DEF GraphTyped
    <3>2. \A n \in graph.nodes : task[n] = "over"
      BY <1>1, <1>2, <2>1, LastWaveIsLast
    <3>3. QED
      BY <2>1, <3>1, <3>2, OutOfNode
  <2>3. graph.nodes # {}
    BY <1>1, <2>1 DEF PlanKept
  <2>4. Out' = Out
    BY <1>1 DEF Out
  <2>5. Graph!End
    BY <1>1, <1>2, <2>2, <2>3, <2>4 DEF Graph!End, Out
  <2>6. QED
    BY <2>5 DEF Graph!Next
<1>3. CASE phase' = phase
  BY <1>1, <1>3, SilentToGraph DEF Decided
<1>4. QED
  BY <1>2, <1>3 DEF NextWave

LEMMA StepIsGraphs ==
    ASSUME CoordinatorInvariant, CoordinatorInvariant', [Next]_vars
    PROVE  Graph!Next \/ UNCHANGED GraphSees
<1>1. CASE Plan
  BY <1>1, PlanIsGraphs
<1>2. CASE NoPlan \/ Sort
  BY <1>2, SilentToGraph DEF NoPlan, Sort, Decided, tasks
<1>3. CASE NextWave
  BY <1>3, NextWaveIsGraphs
<1>4. ASSUME NEW n \in Node, Skip(n) \/ Join(n) PROVE Graph!Next \/ UNCHANGED GraphSees
  BY <1>4, SkipIsGraphs, JoinIsGraphs
<1>5. ASSUME NEW n \in Node, Begin(n) PROVE UNCHANGED GraphSees
  <2>1. phase = "running" /\ phase' = phase /\ UNCHANGED <<graph, outputs>>
        /\ task' = [task EXCEPT ![n] = "acting"]
    BY <1>5 DEF Begin, Act
  <2>2. task[n] = "idle" /\ task \in [Node -> Status]
    BY <1>5, TurnHasCome, StateIsTyped DEF Begin, CoordinatorInvariant, TasksTyped
  <2>3. Decided' = Decided
    BY <2>1, <2>2 DEF Decided
  <2>4. QED
    BY <2>1, <2>3, SilentToGraph
<1>6. ASSUME NEW n \in Node, Task(n) \/ \E c \in Child : StrayStops(n, c)
      PROVE  UNCHANGED GraphSees
  <2>1. UNCHANGED <<graph, outputs, phase>> /\ Decided' = Decided
    BY <1>6, TasksAreSilent DEF CoordinatorInvariant
  <2>2. Out' = Out
    <3>1. \A m \in Node : task'[m] = "over" <=> task[m] = "over"
      BY <2>1 DEF Decided
    <3>2. QED
      BY <2>1, <3>1 DEF Out
  <2>3. QED
    BY <2>1, <2>2, Zenon DEF GraphSees
<1>7. CASE UNCHANGED vars
  <2>1. graph' = graph /\ phase' = phase /\ Out' = Out
    BY <1>7 DEF vars, tasks, Out
  <2>2. QED
    BY <2>1, Zenon DEF GraphSees
<1>8. QED
  BY <1>1, <1>2, <1>3, <1>4, <1>5, <1>6, <1>7 DEF Next, Executor

\* The waves are a schedule and nothing more: the executor decides each node of
\* the plan once, after all its sources and from their final outputs, and ends
\* when every node is decided.  An edge without a condition from a source that
\* failed or was skipped is held to no reading.
THEOREM CoordinatorImplementsDataflow == Spec => DataflowSpec
<1>1. Init => Graph!Init
  <2> SUFFICES ASSUME Init PROVE Graph!Init
    OBVIOUS
  <2>1. /\ graph = [nodes |-> {}, edges |-> {}] /\ phase = "planning"
        /\ task = [n \in Node |-> "idle"] /\ outputs = [n \in Node |-> "open"]
    BY DEF Init
  <2>2. QED
    BY <2>1 DEF Graph!Init
<1>2. CoordinatorInvariant /\ CoordinatorInvariant' /\ [Next]_vars => [Graph!Next]_GraphSees
  BY StepIsGraphs
<1>3. QED
  BY <1>1, <1>2, CoordinatorInvariantAlways, PTL DEF Spec, DataflowSpec, Graph!Spec,
                                                     GraphSees, Out
=============================================================================
