------------------------- MODULE DelegateEngineProofs -------------------------
(***************************************************************************)
(* Proofs about DelegateEngine, for any number of delegations, permits,    *)
(* presets and retries, and for any depth limit, attribution budget and    *)
(* degrade map.                                                            *)
(*                                                                         *)
(* EngineInvariant relates what each delegation is told (its depth, its    *)
(* attempts) to where it stands and to the pool it shares with the others. *)
(* LimitsHold follows; the depth told is shown to be the real one by       *)
(* computing Level along the callers.                                      *)
(***************************************************************************)
EXTENDS DelegateEngine, FiniteSetTheorems, SequenceTheorems, WellFoundedInduction, TLAPS

Waiting == {d \in Id : phase[d] = "queued"}

(* A delegation is made by the main agent or by an earlier one, and told   *)
(* the depth that follows its caller's.                                    *)
DepthsTold ==
    \A d \in Id :
        /\ phase[d] = "none" => caller[d] = Main /\ starts[d] = 0
        /\ phase[d] # "none" =>
             \/ caller[d] = Main /\ depth[d] = 2
             \/ /\ caller[d] \in Id /\ caller[d] < d
                /\ phase[caller[d]] # "none" /\ depth[d] = depth[caller[d]] + 1
        /\ phase[d] \notin {"none", "refused"} => depth[d] <= MaxDepth
        /\ phase[d] # "none" => \A e \in Id : e < d => phase[e] # "none"

(* A task is alive while its delegation runs; one that outlives it winds   *)
(* down after the cancellation.                                            *)
TasksOwned ==
    \A d \in Id : /\ d \in task => phase[d] \in {"running", "dropped"}
                  /\ phase[d] = "running" => d \in task
                  /\ phase[d] = "dropped" => cancelled

(* The waiters are the queued delegations, once each.                      *)
QueueExact ==
    /\ \A i \in 1..Len(queue) : phase[queue[i]] = "queued"
    /\ \A i, j \in 1..Len(queue) : queue[i] = queue[j] => i = j
    /\ \A d \in Waiting : \E i \in 1..Len(queue) : queue[i] = d

PermitsExact == permits + Cardinality(Holders) = limit

(* What has been started and what may still be started.                    *)
AttemptsCounted ==
    \A d \in Id :
        /\ phase[d] \in Open => left[d] >= 1
        /\ phase[d] \in {"starting", "queued", "attributing"} =>
             starts[d] + left[d] <= MaxRetries + 1
        /\ phase[d] = "running" => starts[d] + left[d] <= MaxRetries + 2
        /\ starts[d] <= MaxRetries + 1
        /\ ~attribution => /\ starts[d] <= 1
                           /\ phase[d] \in {"starting", "queued", "attributing"} => starts[d] = 0

EngineInvariant ==
    /\ TypeOK
    /\ DepthsTold
    /\ TasksOwned
    /\ QueueExact
    /\ PermitsExact
    /\ AttemptsCounted

-----------------------------------------------------------------------------
(* Sets of delegations are finite.                                         *)
LEMMA DelegationsFinite ==
    ASSUME NEW S \in SUBSET Id
    PROVE  IsFiniteSet(S) /\ Cardinality(S) \in Nat
<1>1. IsFiniteSet(Id)
  BY FS_Interval, EngineAssumption DEF Id
<1>2. IsFiniteSet(S)
  BY <1>1, FS_Subset
<1>3. QED
  BY <1>2, FS_CardinalityType

(* The queue has as many places as there are waiters.                      *)
LEMMA QueueCounts ==
    ASSUME TypeOK, QueueExact
    PROVE  /\ Len(queue) = Cardinality(Waiting)
           /\ {queue[i] : i \in 1..Len(queue)} = Waiting
<1>1. Len(queue) \in Nat /\ DOMAIN queue = 1..Len(queue)
      /\ \A i \in 1..Len(queue) : queue[i] \in Waiting
  BY LenProperties, ElementOfSeq DEF TypeOK, QueueExact, Waiting
<1>2. queue \in [1..Len(queue) -> Waiting]
  BY <1>1, IsASeq, SeqDef DEF TypeOK
<1>3. queue \in Bijection(1..Len(queue), Waiting)
  BY <1>1, <1>2 DEF QueueExact, Bijection, Injection, Surjection, IsInjective
<1>4. ExistsBijection(1..Len(queue), Waiting)
  BY <1>3 DEF ExistsBijection
<1>5. QED
  BY <1>1, <1>4, FS_CountingElements DEF QueueExact

(* A delegation moves on to another phase.                                 *)
Moves(d, x) ==
    /\ phase' \in [Id -> Phase] /\ phase'[d] = x
    /\ \A e \in Id : e # d => phase'[e] = phase[e]

LEMMA PhaseMoves ==
    ASSUME TypeOK, NEW d \in Id, NEW x \in Phase, phase' = [phase EXCEPT ![d] = x]
    PROVE  Moves(d, x)
BY DEF TypeOK, Moves

(* The permits in use follow the delegations that run.                     *)
LEMMA HoldersCount ==
    ASSUME TypeOK, NEW d \in Id, NEW x \in Phase, Moves(d, x)
    PROVE  /\ Cardinality(Holders) \in Nat
           /\ (x = "running" <=> phase[d] = "running") =>
                Cardinality(Holders') = Cardinality(Holders)
           /\ x = "running" /\ phase[d] # "running" =>
                Cardinality(Holders') = Cardinality(Holders) + 1
           /\ x # "running" /\ phase[d] = "running" =>
                /\ Cardinality(Holders') = Cardinality(Holders) - 1
                /\ Cardinality(Holders) >= 1
<1> DEFINE H == Holders
<1>1. IsFiniteSet(H) /\ Cardinality(H) \in Nat /\ Cardinality(H \ {d}) \in Nat
  BY DelegationsFinite DEF Holders
<1>2. CASE x = "running"
  <2>1. Holders' = H \cup {d} /\ (d \in H <=> phase[d] = "running")
    BY <1>2 DEF Moves, Holders
  <2> HIDE DEF H
  <2>2. QED
    BY <1>1, <1>2, <2>1, FS_AddElement DEF H
<1>3. CASE x # "running"
  <2>1. Holders' = H \ {d} /\ (d \in H <=> phase[d] = "running")
    BY <1>3 DEF Moves, Holders
  <2> HIDE DEF H
  <2>2. Cardinality(H \ {d}) = IF d \in H THEN Cardinality(H) - 1 ELSE Cardinality(H)
    BY <1>1, FS_RemoveElement
  <2>3. QED
    BY <1>1, <1>3, <2>1, <2>2 DEF H
<1>4. QED
  BY <1>2, <1>3

-----------------------------------------------------------------------------
(* The queue. *)

(* A delegation joins its end.                                             *)
LEMMA QueueGrows ==
    ASSUME TypeOK, QueueExact, NEW d \in Id, phase[d] # "queued", Moves(d, "queued"),
           queue' = Append(queue, d)
    PROVE  QueueExact' /\ queue' \in Seq(Id)
<1> DEFINE n == Len(queue)
<1>1. queue \in Seq(Id) /\ n \in Nat /\ \A i \in 1..n : queue[i] \in Id
  BY LenProperties, ElementOfSeq DEF TypeOK
<1>2. /\ queue' \in Seq(Id) /\ Len(queue') = n + 1 /\ queue'[n + 1] = d
      /\ \A i \in 1..n : queue'[i] = queue[i]
  BY <1>1, AppendProperties
<1> HIDE DEF n
<1>3. \A i \in 1..n : phase[queue[i]] = "queued" /\ queue[i] # d
  BY DEF QueueExact, n
<1>4. \A i \in 1..n : phase'[queue'[i]] = "queued" /\ queue'[i] = queue[i] /\ queue'[i] # d
  BY <1>1, <1>2, <1>3 DEF Moves
<1>5. \A i \in 1..n + 1 : i \in 1..n \/ i = n + 1
  BY <1>1
<1>6. \A i \in 1..n + 1 : phase'[queue'[i]] = "queued"
  BY <1>2, <1>4, <1>5 DEF Moves
<1>7. \A i, j \in 1..n : queue[i] = queue[j] => i = j
  BY DEF QueueExact, n
<1>8. \A i, j \in 1..n + 1 : queue'[i] = queue'[j] => i = j
  BY <1>2, <1>4, <1>5, <1>7
<1>9. ASSUME NEW e \in Id, phase'[e] = "queued" PROVE \E i \in 1..n + 1 : queue'[i] = e
  <2>1. CASE e = d
    BY <1>1, <1>2, <2>1
  <2>2. CASE e # d
    <3>1. PICK i \in 1..n : queue[i] = e
      BY <1>9, <2>2 DEF Moves, QueueExact, Waiting, n
    <3>2. QED
      BY <1>1, <1>4, <3>1
  <2>3. QED
    BY <2>1, <2>2
<1>10. QED
  BY <1>2, <1>6, <1>8, <1>9 DEF QueueExact, Waiting

(* The k-th waiter leaves it.                                              *)
LEMMA QueueShrinks ==
    ASSUME TypeOK, QueueExact, NEW d \in Id, NEW x \in Phase, x # "queued", Moves(d, x),
           NEW k \in 1..Len(queue), queue[k] = d,
           queue' \in Seq(Id), Len(queue') = Len(queue) - 1,
           \A i \in 1..Len(queue) - 1 : queue'[i] = IF i < k THEN queue[i] ELSE queue[i + 1]
    PROVE  QueueExact'
<1> DEFINE n == Len(queue)
           old(i) == IF i < k THEN i ELSE i + 1
<1>1. n \in Nat /\ k \in 1..n /\ \A i \in 1..n : queue[i] \in Id
  BY LenProperties, ElementOfSeq DEF TypeOK
<1>2. /\ \A i \in 1..n - 1 : old(i) \in 1..n /\ old(i) # k /\ queue'[i] = queue[old(i)]
      /\ \A i, j \in 1..n - 1 : old(i) = old(j) => i = j
  BY <1>1
<1>3. \A j \in 1..n : j # k => \E i \in 1..n - 1 : old(i) = j
  <2> SUFFICES ASSUME NEW j \in 1..n, j # k PROVE \E i \in 1..n - 1 : old(i) = j
    OBVIOUS
  <2>1. CASE j < k
    <3>1. j \in 1..n - 1 /\ old(j) = j
      BY <1>1, <2>1
    <3>2. QED
      BY <3>1
  <2>2. CASE ~(j < k)
    <3>1. j - 1 \in 1..n - 1 /\ old(j - 1) = j
      BY <1>1, <2>2
    <3>2. QED
      BY <3>1
  <2>3. QED
    BY <2>1, <2>2
<1> HIDE DEF old
<1>4. /\ \A i \in 1..n : phase[queue[i]] = "queued"
      /\ \A i, j \in 1..n : queue[i] = queue[j] => i = j
      /\ \A e \in Waiting : \E i \in 1..n : queue[i] = e
      /\ Len(queue') = n - 1 /\ queue[k] = d
  BY DEF QueueExact
<1> HIDE DEF n
<1>5. \A i \in 1..n - 1 : queue'[i] \in Id /\ queue'[i] # d /\ phase'[queue'[i]] = "queued"
  BY <1>1, <1>2, <1>4 DEF Moves
<1>6. \A i, j \in 1..n - 1 : queue'[i] = queue'[j] => i = j
  BY <1>2, <1>4
<1>7. ASSUME NEW e \in Id, phase'[e] = "queued" PROVE \E i \in 1..n - 1 : queue'[i] = e
  <2>1. e # d /\ e \in Waiting
    BY <1>7 DEF Moves, Waiting
  <2>2. PICK j \in 1..n : queue[j] = e
    BY <1>4, <2>1
  <2>3. PICK i \in 1..n - 1 : old(i) = j
    BY <1>3, <1>4, <2>1, <2>2
  <2>4. QED
    BY <1>2, <2>2, <2>3
<1>8. QED
  BY <1>4, <1>5, <1>6, <1>7 DEF QueueExact, Waiting

(* Nobody joins or leaves it.                                              *)
LEMMA QueueStays ==
    ASSUME TypeOK, QueueExact, queue' = queue,
           NEW d \in Id, NEW x \in Phase, Moves(d, x), phase[d] # "queued", x # "queued"
    PROVE  QueueExact'
<1>1. \A i \in 1..Len(queue) : queue[i] \in Id
  BY LenProperties, ElementOfSeq DEF TypeOK
<1>2. \A i \in 1..Len(queue) : queue[i] # d /\ phase'[queue[i]] = "queued"
  BY <1>1 DEF QueueExact, Moves
<1>3. \A e \in Id : phase'[e] = "queued" <=> phase[e] = "queued"
  BY DEF Moves
<1>4. QED
  BY <1>2, <1>3 DEF QueueExact, Waiting

(* A waiter in the middle leaves, and so does the first one.               *)
LEMMA WithoutFacts ==
    ASSUME NEW q \in Seq(Id), NEW k \in 1..Len(q)
    PROVE  /\ Without(q, k) \in Seq(Id) /\ Len(Without(q, k)) = Len(q) - 1
           /\ \A i \in 1..Len(q) - 1 : Without(q, k)[i] = IF i < k THEN q[i] ELSE q[i + 1]
<1>1. Len(q) \in Nat /\ Len(q) - 1 \in Nat /\ \A i \in 1..Len(q) : q[i] \in Id
  BY LenProperties, ElementOfSeq
<1>2. \A i \in 1..Len(q) - 1 : (IF i < k THEN q[i] ELSE q[i + 1]) \in Id
  BY <1>1
<1>3. QED
  BY <1>1, <1>2, IsASeq DEF Without

-----------------------------------------------------------------------------
(* The steps. *)

LEMMA BoundsAreNumbers ==
    /\ MaxDepth \in Nat /\ MaxDepth >= 1 /\ MaxRetries \in Nat /\ MaxAttributions \in Nat
    /\ MaxConcurrent \in Nat /\ MaxConcurrent >= 1
    /\ Main \notin Id /\ \A d \in Id : d \in Nat /\ d >= 1
BY EngineAssumption DEF Id, Main

LEMMA EngineInvariantInit == Init => EngineInvariant
<1> SUFFICES ASSUME Init PROVE EngineInvariant
  OBVIOUS
<1>1. \E a \in Name : TRUE
  BY EngineAssumption
<1>2. (CHOOSE a \in Name : TRUE) \in Name
  BY <1>1
<1>3. TypeOK
  <2>1. /\ limit \in 1..MaxConcurrent /\ permits \in 0..limit
        /\ used \in 0..MaxAttributions /\ task \subseteq Id
    BY BoundsAreNumbers DEF Init
  <2>2. /\ depth \in [Id -> 0..MaxDepth + 1] /\ left \in [Id -> 0..MaxRetries + 1]
        /\ starts \in [Id -> Nat] /\ phase \in [Id -> Phase]
    BY BoundsAreNumbers DEF Init, Phase
  <2>3. agent \in [Id -> Name] /\ caller \in [Id -> {Main} \cup Id] /\ queue \in Seq(Id)
    BY <1>2, EmptySeq DEF Init
  <2>4. recursion \in BOOLEAN /\ attribution \in BOOLEAN /\ cancelled \in BOOLEAN
    BY DEF Init
  <2>5. QED
    BY <2>1, <2>2, <2>3, <2>4 DEF TypeOK
<1>4. Len(queue) = 0
  BY EmptySeq DEF Init
<1>5. QueueExact
  BY <1>4 DEF Init, QueueExact, Waiting
<1>6. Holders = {}
  BY DEF Init, Holders
<1>7. PermitsExact
  BY <1>6, FS_EmptySet, BoundsAreNumbers DEF Init, PermitsExact
<1>8. DepthsTold /\ TasksOwned /\ AttemptsCounted
  BY BoundsAreNumbers DEF Init, DepthsTold, TasksOwned, AttemptsCounted, Open
<1>9. QED
  BY <1>3, <1>5, <1>7, <1>8 DEF EngineInvariant

(* A delegation that was made keeps its caller and its depth.              *)
LEMMA DepthsKept ==
    ASSUME TypeOK, DepthsTold, NEW d \in Id, NEW x \in Phase \ {"none", "refused"}, Moves(d, x),
           phase[d] \in Open, UNCHANGED <<caller, depth>>,
           \A e \in Id : phase[e] = "none" => starts'[e] = starts[e]
    PROVE  DepthsTold'
<1>1. \A e \in Id : /\ phase'[e] = "none" <=> phase[e] = "none"
                    /\ phase'[e] \notin {"none", "refused"} => phase[e] \notin {"none", "refused"}
  BY DEF Moves, Open
<1>2. QED
  BY <1>1 DEF DepthsTold

LEMMA DelegateKeeps ==
    ASSUME EngineInvariant, NEW c \in {Main} \cup Id, NEW d \in Id, NEW a \in Name,
           Delegate(c, d, a)
    PROVE  EngineInvariant'
<1> USE DEF EngineInvariant
<1> DEFINE told == ContextDepth(c) + 1
<1>1. /\ phase[d] = "none" /\ \A e \in Id : e < d => phase[e] # "none"
      /\ caller' = [caller EXCEPT ![d] = c] /\ depth' = [depth EXCEPT ![d] = told]
      /\ agent' = [agent EXCEPT ![d] = a] /\ left' = [left EXCEPT ![d] = MaxRetries + 1]
      /\ UNCHANGED <<limit, recursion, attribution, task, queue, permits, starts, used, cancelled>>
  BY DEF Delegate, config, pool
<1>2. c # Main => c \in Id /\ phase[c] \in {"running", "dropped"} /\ depth[c] <= MaxDepth
  BY DEF Delegate, MayCall, TasksOwned, DepthsTold
<1>3. told \in 0..MaxDepth + 1
  <2>1. CASE c = Main
    BY <2>1, BoundsAreNumbers DEF ContextDepth
  <2>2. CASE c # Main
    <3>1. depth[c] \in Nat /\ told = depth[c] + 1
      BY <1>2, <2>2, BoundsAreNumbers DEF ContextDepth, TypeOK
    <3>2. QED
      BY <1>2, <2>2, <3>1, BoundsAreNumbers
  <2>3. QED
    BY <2>1, <2>2
<1>4. depth'[d] = told
  BY <1>1 DEF TypeOK
<1>5. PICK x \in Phase : x = (IF told > MaxDepth THEN "refused" ELSE "starting")
  BY DEF Phase, Open, Over
<1>6. Moves(d, x)
  <2>1. phase' = [phase EXCEPT ![d] = x]
    BY <1>4, <1>5 DEF Delegate
  <2>2. QED
    BY <2>1, PhaseMoves
<1>7. c # Main => c < d
  <2> SUFFICES ASSUME c # Main PROVE c < d
    OBVIOUS
  <2>1. ~(d < c) /\ c # d
    BY <1>1, <1>2 DEF DepthsTold
  <2>2. c \in Nat /\ d \in Nat
    BY <1>2, BoundsAreNumbers
  <2>3. QED
    BY <2>1, <2>2
<1>8. TypeOK'
  <2>1. depth' \in [Id -> 0..MaxDepth + 1] /\ left' \in [Id -> 0..MaxRetries + 1]
    BY <1>1, <1>3, BoundsAreNumbers DEF TypeOK
  <2>2. agent' \in [Id -> Name] /\ caller' \in [Id -> {Main} \cup Id]
    BY <1>1 DEF TypeOK
  <2>3. QED
    BY <1>1, <1>6, <2>1, <2>2 DEF TypeOK, Moves
<1>9. DepthsTold'
  <2>1. /\ depth' \in [Id -> Nat] /\ depth'[d] = told /\ caller'[d] = c
        /\ \A e \in Id : e # d => caller'[e] = caller[e] /\ depth'[e] = depth[e]
    BY <1>1, <1>8, BoundsAreNumbers DEF TypeOK
  <2>2. \A e \in Id : phase[e] # "none" => phase'[e] = phase[e] /\ e # d
    BY <1>1, <1>6 DEF Moves
  <2>3. \A e \in Id : e # d => phase'[e] = phase[e]
    BY <1>6 DEF Moves
  <2>4. phase'[d] = x /\ x \in {"refused", "starting"} /\ (x = "starting" => told <= MaxDepth)
    BY <1>3, <1>5, <1>6, BoundsAreNumbers DEF Moves
  <2>5. ASSUME NEW e \in Id, e # d, phase[e] # "none" PROVE e < d
    BY <1>1, <2>5, BoundsAreNumbers DEF DepthsTold
  <2>6. \/ c = Main /\ told = 2
        \/ /\ c \in Id /\ c < d /\ c # d /\ phase'[c] # "none"
           /\ depth'[c] = depth[c] /\ told = depth[c] + 1
    BY <1>2, <1>7, <2>1, <2>2 DEF ContextDepth
  <2>7. \A e \in Id : e # d /\ phase[e] # "none" =>
           \/ caller[e] = Main /\ depth[e] = 2
           \/ /\ caller[e] \in Id /\ caller[e] < e /\ phase[caller[e]] # "none"
              /\ depth[e] = depth[caller[e]] + 1
    BY DEF DepthsTold
  <2>8. \A e \in Id : e # d /\ phase[e] # "none" =>
           \/ caller'[e] = Main /\ depth'[e] = 2
           \/ /\ caller'[e] \in Id /\ caller'[e] < e /\ phase'[caller'[e]] # "none"
              /\ depth'[e] = depth'[caller'[e]] + 1
    BY <1>1, <2>1, <2>2, <2>7
  <2>9. \A e \in Id : phase'[e] # "none" => \A b \in Id : b < e => phase'[b] # "none"
    <3> SUFFICES ASSUME NEW e \in Id, phase'[e] # "none", NEW b \in Id, b < e
                 PROVE  phase'[b] # "none"
      OBVIOUS
    <3>1. CASE e = d
      BY <1>1, <2>2, <3>1
    <3>2. CASE e # d
      BY <2>2, <2>3, <3>2 DEF DepthsTold
    <3>3. QED
      BY <3>1, <3>2
  <2>10. \A e \in Id : phase'[e] = "none" => caller'[e] = Main /\ starts'[e] = 0
    BY <1>1, <2>1, <2>3, <2>4 DEF DepthsTold
  <2>11. \A e \in Id : phase'[e] \notin {"none", "refused"} => depth'[e] <= MaxDepth
    BY <2>1, <2>3, <2>4 DEF DepthsTold
  <2>12. \A e \in Id : phase'[e] # "none" =>
           \/ caller'[e] = Main /\ depth'[e] = 2
           \/ /\ caller'[e] \in Id /\ caller'[e] < e /\ phase'[caller'[e]] # "none"
              /\ depth'[e] = depth'[caller'[e]] + 1
    BY <2>1, <2>3, <2>6, <2>8
  <2>13. QED
    BY <2>9, <2>10, <2>11, <2>12 DEF DepthsTold
<1>10. TasksOwned'
  BY <1>1, <1>5, <1>6 DEF TasksOwned, Moves
<1>11. QueueExact'
  BY <1>1, <1>5, <1>6, QueueStays
<1>12. PermitsExact'
  BY <1>1, <1>5, <1>6, HoldersCount DEF PermitsExact
<1>13. AttemptsCounted'
  <2>1. starts[d] = 0 /\ left'[d] = MaxRetries + 1 /\ \A e \in Id : e # d => left'[e] = left[e]
    BY <1>1, BoundsAreNumbers DEF DepthsTold, TypeOK
  <2>2. QED
    BY <1>1, <1>5, <1>6, <2>1, BoundsAreNumbers DEF AttemptsCounted, Moves, Open
<1>14. QED
  BY <1>8, <1>9, <1>10, <1>11, <1>12, <1>13

(* A failed attempt costs one of those left, and is only followed by       *)
(* another one while there are some.                                       *)
LEMMA FailedFacts ==
    ASSUME TypeOK, NEW d \in Id, left[d] >= 1, Failed(d)
    PROVE  /\ used' \in 0..MaxAttributions
           /\ left' \in [Id -> 0..MaxRetries + 1] /\ left'[d] = left[d] - 1
           /\ \A e \in Id : e # d => left'[e] = left[e]
           /\ \E x \in {"err", "attributing", "starting"} :
                Moves(d, x) /\ (x # "err" => attribution /\ left'[d] >= 1)
<1>1. left[d] \in Nat /\ left[d] - 1 \in 0..MaxRetries + 1
  BY BoundsAreNumbers DEF TypeOK
<1>2. /\ left' \in [Id -> 0..MaxRetries + 1] /\ left'[d] = left[d] - 1
      /\ \A e \in Id : e # d => left'[e] = left[e]
  BY <1>1 DEF Failed, TypeOK
<1>3. used' \in 0..MaxAttributions
  BY BoundsAreNumbers DEF Failed, TypeOK
<1>4. \E x \in {"err", "attributing", "starting"} :
         phase' = [phase EXCEPT ![d] = x] /\ (x # "err" => attribution /\ left[d] > 1)
  BY DEF Failed
<1>5. PICK x \in {"err", "attributing", "starting"} :
         phase' = [phase EXCEPT ![d] = x] /\ (x # "err" => attribution /\ left[d] > 1)
  BY <1>4
<1>6. x \in Phase
  BY DEF Phase, Open, Over
<1>7. Moves(d, x)
  BY <1>5, <1>6, PhaseMoves
<1>8. QED
  BY <1>1, <1>2, <1>3, <1>5, <1>7

LEMMA BeginKeeps ==
    ASSUME EngineInvariant, NEW d \in Id, Begin(d)
    PROVE  EngineInvariant'
<1> USE DEF EngineInvariant
<1>1. /\ phase[d] = "starting" /\ left[d] >= 1
      /\ UNCHANGED <<limit, recursion, attribution, caller, depth, agent, task, permits, starts,
                     cancelled>>
  BY DEF Begin, config, AttemptsCounted, Open
<1>2. PICK x \in {"err", "attributing", "starting", "queued"} :
        /\ Moves(d, x)
        /\ used' \in 0..MaxAttributions
        /\ left' \in [Id -> 0..MaxRetries + 1] /\ left'[d] <= left[d]
        /\ x # "err" => left'[d] >= 1
        /\ \A e \in Id : e # d => left'[e] = left[e]
        /\ IF x = "queued" THEN queue' = Append(queue, d) ELSE queue' = queue
  <2>1. CASE agent[d] \notin Registered /\ Failed(d) /\ UNCHANGED queue
    <3>1. left[d] \in Nat
      BY BoundsAreNumbers DEF TypeOK
    <3>2. QED
      BY <1>1, <2>1, <3>1, FailedFacts
  <2>2. CASE phase' = [phase EXCEPT ![d] = "err"] /\ UNCHANGED <<left, used, queue>>
    <3>1. Moves(d, "err")
      BY <2>2, PhaseMoves DEF Phase, Over
    <3>2. left[d] \in Nat
      BY BoundsAreNumbers DEF TypeOK
    <3>3. QED
      BY <1>1, <2>2, <3>1, <3>2 DEF TypeOK
  <2>3. CASE /\ phase' = [phase EXCEPT ![d] = "queued"] /\ queue' = Append(queue, d)
             /\ UNCHANGED <<left, used>>
    <3>1. Moves(d, "queued")
      BY <2>3, PhaseMoves DEF Phase, Open
    <3>2. left[d] \in Nat
      BY BoundsAreNumbers DEF TypeOK
    <3>3. QED
      BY <1>1, <2>3, <3>1, <3>2 DEF TypeOK
  <2>4. QED
    BY <2>1, <2>2, <2>3 DEF Begin
<1>3. x \in Phase
  BY <1>2 DEF Phase, Open, Over
<1>4. QueueExact' /\ queue' \in Seq(Id)
  <2>1. CASE x = "queued"
    BY <1>1, <1>2, <2>1, QueueGrows
  <2>2. CASE x # "queued"
    BY <1>1, <1>2, <1>3, <2>2, QueueStays DEF TypeOK
  <2>3. QED
    BY <2>1, <2>2
<1>5. TypeOK'
  BY <1>1, <1>2, <1>4 DEF TypeOK, Moves
<1>6. DepthsTold'
  BY <1>1, <1>2, <1>3, DepthsKept DEF Open
<1>7. TasksOwned'
  BY <1>1, <1>2 DEF TasksOwned, Moves
<1>8. PermitsExact'
  BY <1>1, <1>2, <1>3, HoldersCount DEF PermitsExact
<1>9. AttemptsCounted'
  <2>1. /\ left[d] \in Nat /\ left'[d] \in Nat /\ starts[d] \in Nat
        /\ starts[d] + left[d] <= MaxRetries + 1
    BY <1>1, <1>2, BoundsAreNumbers DEF TypeOK, AttemptsCounted
  <2>2. starts[d] + left'[d] <= MaxRetries + 1
    BY <1>2, <2>1, BoundsAreNumbers
  <2>3. phase'[d] = x /\ \A e \in Id : e # d => phase'[e] = phase[e] /\ left'[e] = left[e]
    BY <1>2 DEF Moves
  <2>4. QED
    BY <1>1, <1>2, <2>2, <2>3 DEF AttemptsCounted, Open
<1>10. QED
  BY <1>4, <1>5, <1>6, <1>7, <1>8, <1>9

LEMMA AcquireKeeps ==
    ASSUME EngineInvariant, NEW d \in Id, Acquire(d)
    PROVE  EngineInvariant'
<1> USE DEF EngineInvariant
<1>1. /\ queue # <<>> /\ Head(queue) = d /\ permits > 0
      /\ queue' = Tail(queue) /\ permits' = permits - 1
      /\ task' = task \cup {d} /\ starts' = [starts EXCEPT ![d] = starts[d] + 1]
      /\ UNCHANGED <<limit, recursion, attribution, caller, depth, agent, left, used, cancelled>>
  BY DEF Acquire, config
<1>2. /\ Len(queue) \in Nat /\ Len(queue) >= 1 /\ queue[1] = d
      /\ queue' \in Seq(Id) /\ Len(queue') = Len(queue) - 1
      /\ \A i \in 1..Len(queue) - 1 : queue'[i] = queue[i + 1]
  BY <1>1, EmptySeq, LenProperties, HeadTailProperties DEF TypeOK
<1>3. phase[d] = "queued"
  BY <1>2 DEF QueueExact
<1>4. Moves(d, "running") /\ "running" \in Phase
  BY PhaseMoves DEF Acquire, Phase, Open
<1>5. QueueExact'
  <2>1. \A i \in 1..Len(queue) - 1 : queue'[i] = IF i < 1 THEN queue[i] ELSE queue[i + 1]
    BY <1>2
  <2>2. 1 \in 1..Len(queue)
    BY <1>2
  <2>3. QED
    BY <1>2, <1>4, <2>1, <2>2, QueueShrinks
<1>6. permits \in Nat /\ limit \in Nat /\ permits <= limit /\ permits - 1 \in 0..limit
  BY <1>1, BoundsAreNumbers DEF TypeOK
<1>7. starts' \in [Id -> Nat] /\ starts'[d] = starts[d] + 1
      /\ \A e \in Id : e # d => starts'[e] = starts[e]
  BY <1>1, SMTT(40) DEF TypeOK
<1>8. TypeOK'
  BY <1>1, <1>2, <1>4, <1>6, <1>7 DEF TypeOK, Moves
<1>9. DepthsTold'
  BY <1>1, <1>3, <1>4, <1>7, DepthsKept DEF Open
<1>10. TasksOwned'
  BY <1>1, <1>4 DEF TasksOwned, Moves
<1>11. PermitsExact'
  BY <1>1, <1>3, <1>4, <1>6, HoldersCount DEF PermitsExact
<1>12. AttemptsCounted'
  <2>1. /\ left[d] \in Nat /\ left[d] >= 1 /\ starts[d] \in Nat
        /\ starts[d] + left[d] <= MaxRetries + 1
        /\ ~attribution => starts[d] = 0
    BY <1>3, BoundsAreNumbers DEF TypeOK, AttemptsCounted, Open
  <2>2. /\ starts'[d] <= MaxRetries + 1 /\ starts'[d] + left[d] <= MaxRetries + 2
        /\ ~attribution => starts'[d] <= 1
    BY <1>7, <2>1, BoundsAreNumbers
  <2>3. phase'[d] = "running" /\ \A e \in Id : e # d => phase'[e] = phase[e]
    BY <1>4 DEF Moves
  <2>4. QED
    BY <1>1, <1>7, <2>1, <2>2, <2>3 DEF AttemptsCounted
<1>13. QED
  BY <1>5, <1>8, <1>9, <1>10, <1>11, <1>12

LEMMA TaskEndKeeps ==
    ASSUME EngineInvariant, NEW d \in Id, TaskEnds(d)
    PROVE  EngineInvariant'
<1> USE DEF EngineInvariant
<1>1. /\ d \in task /\ task' = task \ {d}
      /\ UNCHANGED <<limit, recursion, attribution, caller, depth, agent, queue, starts, cancelled>>
  BY DEF TaskEnds, config
<1>2. CASE phase[d] = "dropped" /\ UNCHANGED <<phase, left, permits, used>>
  <2>1. TypeOK'
    BY <1>1, <1>2 DEF TypeOK
  <2>2. DepthsTold'
    BY <1>1, <1>2 DEF DepthsTold
  <2>3. TasksOwned'
    BY <1>1, <1>2 DEF TasksOwned
  <2>4. QueueExact' /\ PermitsExact'
    BY <1>1, <1>2 DEF QueueExact, Waiting, PermitsExact, Holders
  <2>5. AttemptsCounted'
    BY <1>1, <1>2 DEF AttemptsCounted
  <2>6. QED
    BY <2>1, <2>2, <2>3, <2>4, <2>5
<1>3. CASE /\ phase[d] = "running" /\ permits' = permits + 1
           /\ \/ phase' = [phase EXCEPT ![d] = "ok"] /\ UNCHANGED <<left, used>>
              \/ Failed(d)
  <2>1. left[d] \in Nat /\ left[d] >= 1
    BY <1>3, BoundsAreNumbers DEF AttemptsCounted, Open, TypeOK
  <2>2. PICK x \in {"ok", "err", "attributing", "starting"} :
          /\ Moves(d, x)
          /\ used' \in 0..MaxAttributions /\ left' \in [Id -> 0..MaxRetries + 1]
          /\ x \notin {"ok", "err"} =>
               attribution /\ left'[d] >= 1 /\ left'[d] = left[d] - 1
          /\ \A e \in Id : e # d => left'[e] = left[e]
    <3>1. CASE phase' = [phase EXCEPT ![d] = "ok"] /\ UNCHANGED <<left, used>>
      <4>1. Moves(d, "ok")
        BY <3>1, PhaseMoves DEF Phase, Over
      <4>2. QED
        BY <3>1, <4>1 DEF TypeOK
    <3>2. CASE Failed(d)
      BY <2>1, <3>2, FailedFacts
    <3>3. QED
      BY <1>3, <3>1, <3>2
  <2>3. x \in Phase
    BY DEF Phase, Open, Over
  <2>4. permits \in Nat /\ limit \in Nat
    BY BoundsAreNumbers DEF TypeOK
  <2>5. PermitsExact' /\ permits + 1 <= limit
    BY <1>1, <1>3, <2>2, <2>3, <2>4, HoldersCount DEF PermitsExact
  <2>6. QueueExact'
    BY <1>1, <1>3, <2>2, <2>3, QueueStays
  <2>7. TypeOK'
    <3>1. permits' \in 0..limit'
      BY <1>1, <1>3, <2>4, <2>5
    <3>2. QED
      BY <1>1, <2>2, <3>1 DEF TypeOK, Moves
  <2>8. DepthsTold'
    BY <1>1, <1>3, <2>2, <2>3, DepthsKept DEF Open
  <2>9. TasksOwned'
    BY <1>1, <2>2 DEF TasksOwned, Moves
  <2>10. AttemptsCounted'
    <3>1. starts[d] \in Nat /\ starts[d] + left[d] <= MaxRetries + 2
      BY <1>3 DEF AttemptsCounted, TypeOK
    <3>2. x \notin {"ok", "err"} => attribution /\ starts[d] + left'[d] <= MaxRetries + 1
      BY <2>1, <2>2, <3>1, BoundsAreNumbers
    <3>3. phase'[d] = x /\ \A e \in Id : e # d => phase'[e] = phase[e]
      BY <2>2 DEF Moves
    <3>4. QED
      BY <1>1, <2>2, <3>2, <3>3 DEF AttemptsCounted, Open
  <2>11. QED
    BY <2>5, <2>6, <2>7, <2>8, <2>9, <2>10
<1>4. QED
  BY <1>2, <1>3 DEF TaskEnds

LEMMA AttributedKeeps ==
    ASSUME EngineInvariant, NEW d \in Id, Attributed(d)
    PROVE  EngineInvariant'
<1> USE DEF EngineInvariant
<1>1. /\ phase[d] = "attributing" /\ agent' \in [Id -> Name]
      /\ UNCHANGED <<limit, recursion, attribution, caller, depth, left, task, queue, permits,
                     starts, used, cancelled>>
  BY EngineAssumption DEF Attributed, config, pool, TypeOK
<1>2. PICK x \in {"starting", "err"} : Moves(d, x)
  <2>1. PICK y \in {"starting", "err"} : phase' = [phase EXCEPT ![d] = y]
    BY DEF Attributed
  <2>2. QED
    BY <2>1, PhaseMoves DEF Phase, Open, Over
<1>3. x \in Phase
  BY DEF Phase, Open, Over
<1>4. TypeOK'
  BY <1>1, <1>2 DEF TypeOK, Moves
<1>5. DepthsTold'
  BY <1>1, <1>2, <1>3, DepthsKept DEF Open
<1>6. TasksOwned'
  BY <1>1, <1>2 DEF TasksOwned, Moves
<1>7. QueueExact'
  BY <1>1, <1>2, <1>3, QueueStays
<1>8. PermitsExact'
  BY <1>1, <1>2, <1>3, HoldersCount DEF PermitsExact
<1>9. AttemptsCounted'
  BY <1>1, <1>2 DEF AttemptsCounted, Moves, Open
<1>10. QED
  BY <1>4, <1>5, <1>6, <1>7, <1>8, <1>9

LEMMA DropKeeps ==
    ASSUME EngineInvariant, NEW d \in Id, Drop(d)
    PROVE  EngineInvariant'
<1> USE DEF EngineInvariant
<1>1. /\ cancelled /\ phase[d] \in Open
      /\ permits' = IF phase[d] = "running" THEN permits + 1 ELSE permits
      /\ UNCHANGED <<limit, recursion, attribution, caller, depth, agent, left, task, starts, used,
                     cancelled>>
  BY DEF Drop, config
<1>2. Moves(d, "dropped") /\ "dropped" \in Phase
  BY PhaseMoves DEF Drop, Phase, Over
<1>3. QueueExact' /\ queue' \in Seq(Id)
  <2>1. CASE phase[d] = "queued"
    <3>1. PICK k \in 1..Len(queue) : queue[k] = d /\ queue' = Without(queue, k)
      BY <2>1 DEF Drop
    <3>2. queue \in Seq(Id)
      BY DEF TypeOK
    <3>3. /\ queue' \in Seq(Id) /\ Len(queue') = Len(queue) - 1
          /\ \A i \in 1..Len(queue) - 1 : queue'[i] = IF i < k THEN queue[i] ELSE queue[i + 1]
      BY <3>1, <3>2, WithoutFacts
    <3>4. QED
      BY <1>2, <3>1, <3>3, QueueShrinks
  <2>2. CASE phase[d] # "queued"
    <3>1. queue' = queue
      BY <2>2 DEF Drop
    <3>2. QED
      BY <1>2, <2>2, <3>1, QueueStays DEF TypeOK
  <2>3. QED
    BY <2>1, <2>2
<1>4. permits \in Nat /\ limit \in Nat /\ permits <= limit
  BY BoundsAreNumbers DEF TypeOK
<1>5. PermitsExact' /\ permits' \in 0..limit'
  <2>1. CASE phase[d] = "running"
    BY <1>1, <1>2, <1>4, <2>1, HoldersCount DEF PermitsExact
  <2>2. CASE phase[d] # "running"
    BY <1>1, <1>2, <1>4, <2>2, HoldersCount DEF PermitsExact
  <2>3. QED
    BY <2>1, <2>2
<1>6. TypeOK'
  BY <1>1, <1>2, <1>3, <1>5 DEF TypeOK, Moves
<1>7. DepthsTold'
  BY <1>1, <1>2, DepthsKept
<1>8. TasksOwned'
  BY <1>1, <1>2 DEF TasksOwned, Moves
<1>9. AttemptsCounted'
  BY <1>1, <1>2 DEF AttemptsCounted, Moves, Open
<1>10. QED
  BY <1>3, <1>5, <1>6, <1>7, <1>8, <1>9

(* What changes neither a delegation nor the pool.                         *)
LEMMA StillKeeps ==
    ASSUME EngineInvariant, UNCHANGED <<config, future, pool, used>>,
           cancelled' \in BOOLEAN, cancelled => cancelled'
    PROVE  EngineInvariant'
<1> USE DEF EngineInvariant, config, future, pool
<1>1. TypeOK'
  BY DEF TypeOK
<1>2. DepthsTold'
  BY DEF DepthsTold
<1>3. TasksOwned'
  BY DEF TasksOwned
<1>4. QueueExact' /\ PermitsExact'
  BY DEF QueueExact, Waiting, PermitsExact, Holders
<1>5. AttemptsCounted'
  BY DEF AttemptsCounted
<1>6. QED
  BY <1>1, <1>2, <1>3, <1>4, <1>5

LEMMA EngineInvariantStep == EngineInvariant /\ [Next]_vars => EngineInvariant'
<1> SUFFICES ASSUME EngineInvariant, [Next]_vars PROVE EngineInvariant'
  OBVIOUS
<1>1. ASSUME NEW c \in {Main} \cup Id, NEW d \in Id, NEW a \in Name, Delegate(c, d, a)
      PROVE  EngineInvariant'
  BY <1>1, DelegateKeeps
<1>2. ASSUME NEW d \in Id, Begin(d) PROVE EngineInvariant'
  BY <1>2, BeginKeeps
<1>3. ASSUME NEW d \in Id, Acquire(d) PROVE EngineInvariant'
  BY <1>3, AcquireKeeps
<1>4. ASSUME NEW d \in Id, TaskEnds(d) PROVE EngineInvariant'
  BY <1>4, TaskEndKeeps
<1>5. ASSUME NEW d \in Id, Attributed(d) PROVE EngineInvariant'
  BY <1>5, AttributedKeeps
<1>6. ASSUME NEW d \in Id, Drop(d) PROVE EngineInvariant'
  BY <1>6, DropKeeps
<1>7. CASE Cancel
  BY <1>7, StillKeeps DEF Cancel
<1>8. CASE UNCHANGED vars
  BY <1>8, StillKeeps DEF vars, EngineInvariant, TypeOK
<1>9. QED
  BY <1>1, <1>2, <1>3, <1>4, <1>5, <1>6, <1>7, <1>8 DEF Next, Progress

LEMMA EngineInvariantAlways == Spec => []EngineInvariant
  BY EngineInvariantInit, EngineInvariantStep, PTL DEF Spec

-----------------------------------------------------------------------------
(* What follows from it. *)

LEMMA LeastExists ==
    ASSUME NEW S \in SUBSET Nat, S # {}
    PROVE  \E i \in S : \A j \in S : i <= j
<1>1. PICK i \in S : \A j \in S : <<j, i>> \notin OpToRel(<, Nat)
  BY WFMin, NatLessThanWellFounded, Zenon
<1>2. \A j \in S : ~(j < i)
  BY <1>1, Zenon DEF OpToRel
<1>3. QED
  BY <1>2

(* The depth a delegation was told is its level below the main agent: some *)
(* function satisfies the equation of Level, and every one that does agrees *)
(* with the depths told.                                                   *)
LEMMA LevelIsDepth ==
    ASSUME TypeOK, DepthsTold, NEW d \in Id, phase[d] # "none"
    PROVE  Level[d] = depth[d]
<1> DEFINE F(f) == [e \in Id |-> IF caller[e] = Main \/ caller[e] >= e THEN 2
                                 ELSE f[caller[e]] + 1]
           told == [e \in Id |-> IF phase[e] = "none" THEN 2 ELSE depth[e]]
<1>1. \A e \in Id : phase[e] # "none" =>
        \/ caller[e] = Main /\ depth[e] = 2
        \/ /\ caller[e] # Main /\ caller[e] \in Id /\ ~(caller[e] >= e)
           /\ caller[e] < e
           /\ phase[caller[e]] # "none" /\ depth[e] = depth[caller[e]] + 1
  BY BoundsAreNumbers DEF DepthsTold
<1>2. \A e \in Id : phase[e] = "none" => caller[e] = Main
  BY DEF DepthsTold
<1>3. told = F(told)
  <2>1. \A e \in Id : told[e] = F(told)[e]
    BY <1>1, <1>2
  <2>2. QED
    BY <2>1
<1>4. Level = F(Level)
  <2>1. Level = CHOOSE f : f = F(f)
    BY DEF Level
  <2> HIDE DEF F, told
  <2>2. QED
    BY <1>3, <2>1
<1>5. \A e \in Id : Level[e] = IF caller[e] = Main \/ caller[e] >= e THEN 2
                               ELSE Level[caller[e]] + 1
  BY <1>4
<1> DEFINE wrong == {e \in Id : phase[e] # "none" /\ Level[e] # depth[e]}
<1>6. wrong = {}
  <2> SUFFICES ASSUME wrong # {} PROVE FALSE
    OBVIOUS
  <2>1. wrong \in SUBSET Nat
    BY BoundsAreNumbers
  <2>2. PICK e \in wrong : \A b \in wrong : e <= b
    BY <2>1, LeastExists
  <2>3. CASE caller[e] = Main
    BY <1>1, <1>5, <2>2, <2>3
  <2>4. CASE caller[e] # Main
    <3>1. /\ caller[e] \in Id /\ ~(caller[e] >= e) /\ caller[e] < e
          /\ phase[caller[e]] # "none" /\ depth[e] = depth[caller[e]] + 1
      BY <1>1, <2>2, <2>4
    <3>2. caller[e] \notin wrong
      BY <2>2, <3>1, BoundsAreNumbers
    <3>3. Level[caller[e]] = depth[caller[e]]
      BY <3>1, <3>2
    <3>4. QED
      BY <1>5, <2>2, <2>4, <3>1, <3>3
  <2>5. QED
    BY <2>3, <2>4
<1>7. QED
  BY <1>6

LEMMA LimitsFollow == EngineInvariant => LimitsHold
<1> SUFFICES ASSUME EngineInvariant PROVE LimitsHold
  OBVIOUS
<1> USE DEF EngineInvariant
<1>1. PermitsAccounted
  BY QueueCounts DEF PermitsAccounted, PermitsExact, Waiting
<1>2. ConcurrencyBound
  <2> SUFFICES ASSUME ~cancelled PROVE Cardinality(task) <= limit
    BY DEF ConcurrencyBound
  <2>1. task = Holders
    BY DEF TypeOK, TasksOwned, Holders
  <2>2. Cardinality(Holders) \in Nat /\ permits \in Nat /\ limit \in Nat
    BY DelegationsFinite, BoundsAreNumbers DEF Holders, TypeOK
  <2>3. QED
    BY <2>1, <2>2 DEF PermitsExact
<1>3. NestingBounded
  <2> SUFFICES ASSUME NEW d \in task PROVE Level[d] <= MaxDepth
    BY DEF NestingBounded
  <2>1. d \in Id /\ phase[d] \notin {"none", "refused"}
    BY DEF TypeOK, TasksOwned
  <2>2. QED
    BY <2>1, LevelIsDepth DEF DepthsTold
<1>4. AttemptsBounded
  BY DEF AttemptsBounded, AttemptsCounted
<1>5. QED
  BY <1>1, <1>2, <1>3, <1>4 DEF LimitsHold

(* Permits, concurrency, depth and retries stay within the configuration,  *)
(* whatever fails, is retried, nests or is dropped, and in whatever order. *)
THEOREM LimitsAlwaysHold == Spec => []LimitsHold
  BY EngineInvariantAlways, LimitsFollow, PTL

=============================================================================
