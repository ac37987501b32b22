--------------------------- MODULE AgentLoopProofs ---------------------------
(***************************************************************************)
(* Proofs about AgentLoop, for any set of profiles: any kinds of tools,    *)
(* any length of a turn, any numbers of steps, calls, cycles and           *)
(* approvals, with or without concurrency, cache, hooks and panics; then   *)
(* about the protocol gates (PhaseGates) and the messages (Conversation    *)
(* and AgentRun), for any levels and thresholds and any conversation that  *)
(* a run before may have written back.                                     *)
(***************************************************************************)
EXTENDS PhaseGates, FiniteSetTheorems, SequenceTheorems, WellFoundedInduction, TLAPS

CallRecord ==
  [kind : Kinds, block : {"unknown", "none", "blocked"}, vetoed : BOOLEAN,
   out : {"none", "ok", "error", "cached"}, val : {"none", "fresh", "stale"},
   tries : 0..MaxRetries]

Answered(i) == turn[i].out # "none"

(* TypeOK without the two counters that need an argument of their own. *)
Simple ==
  /\ profile \in Profiles /\ pc \in Places
  /\ step \in 0..MaxSteps
  /\ approval \in Approvals
  /\ cancel \in BOOLEAN /\ wrote \in BOOLEAN /\ blocked \in BOOLEAN
  /\ cache \in {"none", "fresh", "stale"}
  /\ vcycles \in Nat /\ rcycles \in Nat
  /\ unchecked \subseteq {"verify", "review"} /\ changed \in BOOLEAN
  /\ ended \in {"no", "done", "paused", "error", "silent"}
Shape ==
  /\ turn \in Seq(CallRecord) /\ Len(turn) <= MaxTurn
  /\ at \in 1..(Len(turn) + 1) /\ check \in 1..3
  /\ todo \subseteq 1..Len(turn) /\ batch \subseteq 1..Len(turn)
  /\ queue \subseteq batch /\ open \subseteq batch

(* Outside a turn nothing of one is left; before its segments begin no     *)
(* call of it is taken up; what runs does so while calls are executed.     *)
TurnPlaces == {"decide", "asking", "segments", "execute", "record"}
Idle == todo = {} /\ batch = {} /\ queue = {} /\ open = {}
Where ==
  /\ pc = "ended" <=> ended # "no"
  /\ pc \notin TurnPlaces \cup {"ended"} => turn = <<>> /\ at = 1 /\ Idle
  /\ pc = "ended" /\ ended # "silent" => turn = <<>>
  /\ pc \in {"decide", "asking"} => Idle /\ \A i \in 1..Len(turn) : ~Answered(i)
  /\ pc = "asking" => at <= Len(turn) /\ turn[at].block = "unknown"
  /\ pc \in {"segments", "record"} => queue = {} /\ open = {}

(* One result is owed for each call of the turn that is not recorded yet. *)
Owing ==
  /\ pc \in {"decide", "asking", "segments", "execute"} => owed = Len(turn)
  /\ pc = "record" => owed = Len(turn) + 1 - at
  /\ pc \notin TurnPlaces /\ ended # "silent" => owed = 0
  /\ owed \in 0..MaxTurn

(* A turn begins below the budget and counts one call at a time. *)
Counting ==
  /\ made \in Nat /\ made <= MaxToolCalls - 1 + MaxTurn
  /\ pc \notin {"boundary", "record", "ended"} => made < MaxToolCalls
  /\ pc = "record" => made <= MaxToolCalls - 1 + (at - 1)

(* Only a call that every check allowed is taken up or answered. *)
Allowed ==
  \A i \in 1..Len(turn) :
    /\ turn[i].vetoed => turn[i].block = "blocked"
    /\ i \in todo \cup batch \/ Answered(i) => turn[i].block = "none"

(* Segments take the calls in order; two calls of one segment share it. *)
InOrder ==
  /\ \A i \in todo, j \in 1..Len(turn) : j \in batch \/ Answered(j) => j < i
  /\ \A i \in batch, j \in 1..Len(turn) :
       i < j /\ (j \in batch \/ Answered(j)) =>
         turn[i].kind # "write" /\ turn[j].kind # "write"

(* While nothing but the tools writes, the cache is stale at most between  *)
(* the end of a writing call and the end of its segment.                   *)
Reading == \A i \in batch : turn[i].kind = "read"
Cached ==
  /\ ~ToolCache => cache = "none"
  /\ \A i \in 1..Len(turn) : turn[i].out = "cached" => i \notin batch
  /\ ~SideWrites =>
       /\ pc \notin {"execute", "ended"} => cache # "stale"
       /\ pc = "execute" /\ Reading =>
            /\ cache # "stale"
            /\ \A i \in batch : i \in open \/ turn[i].out = "ok" => turn[i].val = "fresh"
       /\ \A i \in 1..Len(turn) : turn[i].out = "cached" => turn[i].val = "fresh"

LoopInvariant == Simple /\ Shape /\ Where /\ Owing /\ Counting /\ Allowed /\ InOrder /\ Cached

(* A tool has been executed that declares that it writes: the loop knows   *)
(* of a write, or will when it records the call.                           *)
Unrecorded(i) ==
  /\ turn[i].kind = "write"
  /\ i \in open \/ turn[i].out \in {"ok", "error"}
  /\ pc = "record" => at <= i
WritesKnown ==
  pc # "ended" /\ changed => wrote \/ \E i \in 1..Len(turn) : Unrecorded(i)

VerifyLooked == changed /\ VerifyCycles # -1 => "verify" \notin unchecked
ReviewLooked == changed /\ ReviewCycles # -1 /\ (QualityHooks => blocked) => "review" \notin unchecked
VerifySeen == pc \in {"llm", "review", "done"} => VerifyLooked
ReviewSeen == pc = "done" => ReviewLooked
GatesSee == WritesKnown /\ VerifySeen /\ ReviewSeen /\ DoneIsChecked

LEMMA ProfileFacts ==
  ASSUME Simple
  PROVE  /\ MaxTurn \in Nat \ {0} /\ MaxSteps \in Nat \ {0} /\ MaxToolCalls \in Nat \ {0}
         /\ Kinds \subseteq {"read", "write", "delegate"}
         /\ VerifyCycles \in Nat \cup {-1} /\ ReviewCycles \in Nat \cup {-1}
BY ProfilesAssumption DEF Simple, Profile, MaxTurn, MaxSteps, MaxToolCalls, Kinds,
                          VerifyCycles, ReviewCycles

(* The configuration of a run never changes. *)
LEMMA SameProfile ==
  ASSUME profile' = profile
  PROVE  /\ Kinds' = Kinds /\ MaxTurn' = MaxTurn /\ MaxSteps' = MaxSteps /\ MaxToolCalls' = MaxToolCalls
         /\ CallRecord' = CallRecord /\ Approvals' = Approvals /\ ToolCache' = ToolCache /\ SideWrites' = SideWrites
BY DEF Kinds, MaxTurn, MaxSteps, MaxToolCalls, CallRecord, Approvals, ToolCache, SideWrites

(* A call of the turn is replaced. *)
LEMMA CallReplaced ==
  ASSUME NEW i \in 1..Len(turn), NEW c \in CallRecord, turn \in Seq(CallRecord),
         NEW t, t = [turn EXCEPT ![i] = c]
  PROVE  /\ t \in Seq(CallRecord) /\ Len(t) = Len(turn)
         /\ \A j \in 1..Len(turn) : t[j] = IF j = i THEN c ELSE turn[j]
BY ExceptSeq

LEMMA TurnFunction ==
  ASSUME NEW n \in Nat, DOMAIN turn' = 1..n, turn' = [i \in 1..n |-> turn'[i]],
         \A i \in 1..n : turn'[i] \in CallRecord
  PROVE  turn' \in Seq(CallRecord) /\ Len(turn') = n
<1>1. turn' \in [1..n -> CallRecord]
  OBVIOUS
<1>2. turn' \in Seq(CallRecord)
  BY <1>1, SeqDef
<1>3. QED
  BY <1>1, <1>2, LenProperties

LEMMA RefuseTurn ==
  ASSUME Simple, Shape, at <= Len(turn), Refuse
  PROVE  /\ turn' \in Seq(CallRecord) /\ Len(turn') = Len(turn)
         /\ \A i \in 1..Len(turn) : i # at => turn'[i] = turn[i]
         /\ turn'[at].block = "blocked" /\ turn'[at].vetoed
         /\ turn'[at].out = turn[at].out /\ turn'[at].kind = turn[at].kind
<1>1. turn[at] \in CallRecord
  BY DEF Shape
<1> DEFINE c == [turn[at] EXCEPT !.block = "blocked", !.vetoed = TRUE]
<1>2. c \in CallRecord /\ c.block = "blocked" /\ c.vetoed
        /\ c.out = turn[at].out /\ c.kind = turn[at].kind
  BY <1>1 DEF CallRecord
<1>3. turn' = [turn EXCEPT ![at] = c]
  BY DEF Refuse, Shape
<1> HIDE DEF c
<1>4. QED
  BY <1>2, <1>3, CallReplaced DEF Shape

LEMMA AllowTurn ==
  ASSUME Simple, Shape, at <= Len(turn), turn' = [turn EXCEPT ![at].block = "none"]
  PROVE  /\ turn' \in Seq(CallRecord) /\ Len(turn') = Len(turn)
         /\ \A i \in 1..Len(turn) : i # at => turn'[i] = turn[i]
         /\ turn'[at].block = "none" /\ turn'[at].vetoed = turn[at].vetoed
         /\ turn'[at].out = turn[at].out /\ turn'[at].kind = turn[at].kind
<1>1. turn[at] \in CallRecord
  BY DEF Shape
<1> DEFINE c == [turn[at] EXCEPT !.block = "none"]
<1>2. c \in CallRecord /\ c.block = "none" /\ c.vetoed = turn[at].vetoed
        /\ c.out = turn[at].out /\ c.kind = turn[at].kind
  BY <1>1 DEF CallRecord
<1>3. turn' = [turn EXCEPT ![at] = c]
  BY DEF Shape
<1> HIDE DEF c
<1>4. QED
  BY <1>2, <1>3, CallReplaced DEF Shape

LEMMA LeastExists ==
  ASSUME NEW S \in SUBSET Nat, S # {}
  PROVE  \E i \in S : \A j \in S : i <= j
<1>1. PICK i \in S : \A j \in S : <<j, i>> \notin OpToRel(<, Nat)
  BY WFMin, NatLessThanWellFounded, Zenon
<1>2. \A j \in S : ~(j < i)
  BY <1>1, Zenon DEF OpToRel
<1>3. QED
  BY <1>2

LEMMA GreatestExists ==
  ASSUME NEW n \in Nat, NEW S \in SUBSET (1..n), S # {}
  PROVE  \E i \in S : \A j \in S : j <= i
<1> DEFINE T == {k \in 0..n : n - k \in S}
<1>1. T \in SUBSET Nat /\ T # {}
  <2>1. PICK s \in S : TRUE
    OBVIOUS
  <2>2. n - s \in T
    BY <2>1
  <2>3. T \in SUBSET Nat
    OBVIOUS
  <2>4. QED
    BY <2>2, <2>3, Zenon
<1>2. PICK k \in T : \A l \in T : k <= l
  BY <1>1, LeastExists
<1>3. n - k \in S /\ \A j \in S : n - j \in T
  BY <1>2
<1>4. \A j \in S : j <= n - k
  BY <1>2, <1>3
<1>5. QED
  BY <1>3, <1>4

(* A segment is what comes first of the calls that are left, and more than *)
(* one call only when none of them writes.                                 *)
LEMMA SegmentFacts ==
  ASSUME Shape, todo # {}
  PROVE  /\ NextSegment \subseteq todo
         /\ \A i \in NextSegment, j \in todo \ NextSegment : i < j
         /\ \A i, j \in NextSegment : i # j => Shareable(turn[i].kind) /\ Shareable(turn[j].kind)
<1> DEFINE IsFirst(i) == i \in todo /\ \A j \in todo : i <= j
           first == CHOOSE i \in todo : \A j \in todo : i <= j
<1>1. todo \in SUBSET Nat
  BY LenProperties DEF Shape
<1>2. first \in todo /\ \A j \in todo : first <= j
  BY <1>1, LeastExists, Zenon
<1>3. NextSegment = IF Shareable(turn[first].kind)
                    THEN {i \in todo : \A j \in todo : j <= i => Shareable(turn[j].kind)}
                    ELSE {first}
  BY DEF NextSegment
<1> HIDE DEF first
<1>4. CASE Shareable(turn[first].kind)
  BY <1>1, <1>2, <1>3, <1>4
<1>5. CASE ~Shareable(turn[first].kind)
  BY <1>1, <1>2, <1>3, <1>5
<1>6. QED
  BY <1>4, <1>5

(* What a file change does to the turn. *)
LEMMA WrittenTurn ==
  ASSUME NEW t \in Seq(CallRecord), Written(t)
  PROVE  /\ turn' \in Seq(CallRecord) /\ Len(turn') = Len(t)
         /\ \A j \in 1..Len(t) :
              /\ turn'[j].kind = t[j].kind /\ turn'[j].block = t[j].block
              /\ turn'[j].vetoed = t[j].vetoed /\ turn'[j].out = t[j].out
              /\ t[j].out # "ok" /\ j \notin open => turn'[j].val = t[j].val
<1>1. PICK old \in SUBSET open :
        turn' = [i \in DOMAIN t |->
                   IF t[i].out = "ok" \/ i \in old THEN [t[i] EXCEPT !.val = Aged(@)] ELSE t[i]]
  BY DEF Written
<1>2. DOMAIN t = 1..Len(t) /\ Len(t) \in Nat
  BY LenProperties
<1> DEFINE e(j) == [t[j] EXCEPT !.val = Aged(@)]
<1>3. \A j \in 1..Len(t) : t[j] \in CallRecord /\ e(j) \in CallRecord
        /\ e(j).kind = t[j].kind /\ e(j).block = t[j].block /\ e(j).vetoed = t[j].vetoed /\ e(j).out = t[j].out
  <2> TAKE j \in 1..Len(t)
  <2>1. t[j] \in CallRecord
    BY ElementOfSeq
  <2> DEFINE v == Aged(t[j].val)
  <2>2. v \in {"none", "fresh", "stale"}
    BY DEF Aged
  <2> HIDE DEF v
  <2>3. e(j) = [t[j] EXCEPT !.val = v]
    BY <2>1 DEF v, CallRecord
  <2>4. QED
    BY <2>1, <2>2, <2>3 DEF CallRecord
<1>4. \A j \in 1..Len(t) : turn'[j] = IF t[j].out = "ok" \/ j \in old THEN e(j) ELSE t[j]
  BY <1>1, <1>2
<1>5. turn' = [j \in 1..Len(t) |-> turn'[j]] /\ DOMAIN turn' = 1..Len(t)
  BY <1>1, <1>2
<1> HIDE DEF e
<1>6. \A j \in 1..Len(t) : turn'[j] \in CallRecord
  BY <1>3, <1>4
<1>7. turn' \in Seq(CallRecord) /\ Len(turn') = Len(t)
  BY <1>2, <1>5, <1>6, TurnFunction
<1>8. QED
  BY <1>3, <1>4, <1>7

(* A call returns. *)
LEMMA FinishTurn ==
  ASSUME Shape, NEW i \in open, NEW o \in {"ok", "error"}, Finish(i, o)
  PROVE  /\ turn' \in Seq(CallRecord) /\ Len(turn') = Len(turn)
         /\ \A j \in 1..Len(turn) :
              /\ turn'[j].kind = turn[j].kind /\ turn'[j].block = turn[j].block
              /\ turn'[j].vetoed = turn[j].vetoed
              /\ turn'[j].out = IF j = i THEN o ELSE turn[j].out
              /\ turn[i].kind = "read" \/ (j \notin open /\ turn'[j].out # "ok") =>
                   turn'[j].val = turn[j].val
<1>1. i \in 1..Len(turn) /\ turn[i] \in CallRecord
  BY DEF Shape
<1> DEFINE c == [turn[i] EXCEPT !.out = o]
           t == [turn EXCEPT ![i].out = o]
<1>2. /\ c \in CallRecord /\ c.out = o /\ c.kind = turn[i].kind
      /\ c.block = turn[i].block /\ c.vetoed = turn[i].vetoed /\ c.val = turn[i].val
  BY <1>1 DEF CallRecord
<1>3. t = [turn EXCEPT ![i] = c]
  BY <1>1 DEF Shape
<1>4. (turn[i].kind # "read" /\ Written(t)) \/ turn' = t
  BY DEF Finish
<1> HIDE DEF c, t
<1>5. /\ t \in Seq(CallRecord) /\ Len(t) = Len(turn)
      /\ \A j \in 1..Len(turn) : t[j] = IF j = i THEN c ELSE turn[j]
  BY <1>1, <1>2, <1>3, CallReplaced DEF Shape
<1>6. CASE turn' = t
  BY <1>2, <1>5, <1>6
<1>7. CASE turn[i].kind # "read" /\ Written(t)
  BY <1>1, <1>2, <1>5, <1>7, WrittenTurn
<1>8. QED
  BY <1>4, <1>6, <1>7

(* A call is executed again. *)
LEMMA RetryTurn ==
  ASSUME Shape, NEW i \in open, Retry(i)
  PROVE  /\ turn' \in Seq(CallRecord) /\ Len(turn') = Len(turn)
         /\ \A j \in 1..Len(turn) :
              /\ turn'[j].kind = turn[j].kind /\ turn'[j].block = turn[j].block
              /\ turn'[j].vetoed = turn[j].vetoed /\ turn'[j].out = turn[j].out
              /\ turn[i].kind = "read" \/ (j \notin open /\ turn'[j].out # "ok") =>
                   turn'[j].val = IF j = i THEN "fresh" ELSE turn[j].val
<1>1. i \in 1..Len(turn) /\ turn[i] \in CallRecord
  BY DEF Shape
<1> DEFINE c == [turn[i] EXCEPT !.tries = @ + 1, !.val = "fresh"]
           t == [turn EXCEPT ![i].tries = @ + 1, ![i].val = "fresh"]
<1>2. /\ c \in CallRecord /\ c.out = turn[i].out /\ c.kind = turn[i].kind
      /\ c.block = turn[i].block /\ c.vetoed = turn[i].vetoed /\ c.val = "fresh"
  <2>1. turn[i].tries < 2
    BY DEF Retry, MaxRetries
  <2>2. turn[i].tries + 1 \in 0..MaxRetries
    BY <1>1, <2>1 DEF CallRecord, MaxRetries
  <2>3. QED
    BY <1>1, <2>2 DEF CallRecord
<1>3. t = [turn EXCEPT ![i] = c]
  BY <1>1 DEF Shape
<1>4. (turn[i].kind # "read" /\ Written(t)) \/ turn' = t
  BY DEF Retry
<1> HIDE DEF c, t
<1>5. /\ t \in Seq(CallRecord) /\ Len(t) = Len(turn)
      /\ \A j \in 1..Len(turn) : t[j] = IF j = i THEN c ELSE turn[j]
  BY <1>1, <1>2, <1>3, CallReplaced DEF Shape
<1>6. CASE turn' = t
  BY <1>2, <1>5, <1>6
<1>7. CASE turn[i].kind # "read" /\ Written(t)
  BY <1>1, <1>2, <1>5, <1>7, WrittenTurn
<1>8. QED
  BY <1>4, <1>6, <1>7

(* A call is started. *)
LEMMA StartTurn ==
  ASSUME Shape, NEW i \in queue, Start(i)
  PROVE  /\ turn' \in Seq(CallRecord) /\ Len(turn') = Len(turn)
         /\ \A j \in 1..Len(turn) :
              /\ turn'[j].kind = turn[j].kind /\ turn'[j].block = turn[j].block
              /\ turn'[j].vetoed = turn[j].vetoed /\ turn'[j].out = turn[j].out
              /\ turn'[j].val = IF j = i THEN "fresh" ELSE turn[j].val
<1>1. i \in 1..Len(turn) /\ turn[i] \in CallRecord
  BY DEF Shape
<1> DEFINE c == [turn[i] EXCEPT !.val = "fresh"]
<1>2. /\ c \in CallRecord /\ c.out = turn[i].out /\ c.kind = turn[i].kind
      /\ c.block = turn[i].block /\ c.vetoed = turn[i].vetoed /\ c.val = "fresh"
  BY <1>1 DEF CallRecord
<1>3. turn' = [turn EXCEPT ![i] = c]
  BY <1>1 DEF Shape, Start
<1> HIDE DEF c
<1>4. QED
  BY <1>1, <1>2, <1>3, CallReplaced DEF Shape

(* A segment begins: its cached reads are answered. *)
LEMMA SegmentTurn ==
  ASSUME Shape, BeginSegment, cache \in {"none", "fresh", "stale"}
  PROVE  /\ turn' \in Seq(CallRecord) /\ Len(turn') = Len(turn)
         /\ \A j \in 1..Len(turn) :
              /\ turn'[j].kind = turn[j].kind /\ turn'[j].block = turn[j].block
              /\ turn'[j].vetoed = turn[j].vetoed
              /\ turn'[j].out = IF j \in Hits(NextSegment) THEN "cached" ELSE turn[j].out
              /\ turn'[j].val = IF j \in Hits(NextSegment) THEN cache
                                ELSE IF j \in open' THEN "fresh" ELSE turn[j].val
<1> DEFINE hit(j) == [turn[j] EXCEPT !.out = "cached", !.val = cache]
           new(j) == [turn[j] EXCEPT !.val = "fresh"]
<1>1. /\ DOMAIN turn = 1..Len(turn) /\ Len(turn) \in Nat
      /\ \A j \in 1..Len(turn) : turn[j] \in CallRecord
  BY LenProperties, ElementOfSeq DEF Shape
<1>2. turn' = [j \in 1..Len(turn) |-> IF j \in Hits(NextSegment) THEN hit(j)
                                       ELSE IF j \in open' THEN new(j) ELSE turn[j]]
  BY <1>1 DEF BeginSegment
<1>3. \A j \in 1..Len(turn) :
        /\ hit(j) \in CallRecord /\ hit(j).out = "cached" /\ hit(j).val = cache
        /\ hit(j).kind = turn[j].kind /\ hit(j).block = turn[j].block /\ hit(j).vetoed = turn[j].vetoed
  BY <1>1 DEF CallRecord
<1>4. \A j \in 1..Len(turn) :
        /\ new(j) \in CallRecord /\ new(j).out = turn[j].out /\ new(j).val = "fresh"
        /\ new(j).kind = turn[j].kind /\ new(j).block = turn[j].block /\ new(j).vetoed = turn[j].vetoed
  BY <1>1 DEF CallRecord
<1> HIDE DEF hit, new
<1>5. \A j \in 1..Len(turn) : turn'[j] \in CallRecord
  BY <1>1, <1>2, <1>3, <1>4
<1>6. turn' = [j \in 1..Len(turn) |-> turn'[j]] /\ DOMAIN turn' = 1..Len(turn)
  BY <1>2
<1>7. turn' \in Seq(CallRecord) /\ Len(turn') = Len(turn)
  BY <1>1, <1>5, <1>6, TurnFunction
<1>8. QED
  BY <1>2, <1>3, <1>4, <1>7

(* What the cache holds when a segment has ended. *)
LEMMA CacheAfterSegment ==
  ASSUME Shape
  PROVE  \/ CacheAfter(batch) = "none"
         \/ Reading /\ \E i \in batch : turn[i].out = "ok" /\ CacheAfter(batch) = turn[i].val
         \/ Reading /\ CacheAfter(batch) = cache
<1> DEFINE S == {i \in batch : turn[i].out = "ok"}
<1>1. CASE \E i \in batch : turn[i].kind # "read"
  BY <1>1 DEF CacheAfter
<1>2. CASE Reading /\ S = {}
  BY <1>2 DEF CacheAfter, Reading
<1>3. CASE Reading /\ S # {}
  <2> DEFINE latest == CHOOSE i \in batch : /\ turn[i].out = "ok"
                                            /\ \A j \in batch : turn[j].out = "ok" => j <= i
  <2>1. Len(turn) \in Nat /\ S \in SUBSET (1..Len(turn))
    BY LenProperties DEF Shape
  <2>2. \E i \in batch : turn[i].out = "ok" /\ \A j \in batch : turn[j].out = "ok" => j <= i
    BY <1>3, <2>1, GreatestExists
  <2>3. latest \in batch /\ turn[latest].out = "ok"
    BY <2>2, Zenon
  <2>4. CacheAfter(batch) = turn[latest].val
    BY <1>3 DEF CacheAfter, Reading
  <2> HIDE DEF latest
  <2>5. QED
    BY <1>3, <2>3, <2>4
<1>4. QED
  BY <1>1, <1>2, <1>3 DEF Reading

(* A turn begins. *)
LEMMA CallsTurn ==
  ASSUME NEW kinds \in Turns, NEW b \in BOOLEAN, ToolCalls(kinds, b), MaxTurn \in Nat
  PROVE  /\ turn' \in Seq(CallRecord) /\ Len(turn') = Len(kinds) /\ Len(kinds) \in 1..MaxTurn
         /\ \A i \in 1..Len(turn') :
              turn'[i].out = "none" /\ (turn'[i].vetoed => turn'[i].block = "blocked")
<1>1. PICK n \in 1..MaxTurn : kinds \in [1..n -> Kinds]
  BY DEF Turns
<1>2. n \in Nat /\ Len(kinds) = n /\ DOMAIN kinds = 1..n
  BY <1>1
<1> DEFINE c(i) == [Call(kinds[i]) EXCEPT !.block = IF b THEN "blocked" ELSE @, !.vetoed = b]
<1>3. turn' = [i \in 1..n |-> c(i)]
  BY <1>2 DEF ToolCalls
<1>5. \A i \in 1..n : c(i) \in CallRecord
  <2> TAKE i \in 1..n
  <2>1. kinds[i] \in Kinds
    BY <1>1
  <2>2. Call(kinds[i]) \in CallRecord
    BY <2>1 DEF Call, CallRecord, MaxRetries
  <2>3. QED
    BY <2>2 DEF CallRecord
<1>6. \A i \in 1..n : c(i).out = "none" /\ (c(i).vetoed => c(i).block = "blocked")
  BY DEF Call
<1> HIDE DEF c
<1>7. /\ DOMAIN turn' = 1..n /\ turn' = [i \in 1..n |-> turn'[i]]
      /\ \A i \in 1..n : turn'[i] = c(i)
  BY <1>3
<1>8. \A i \in 1..n : turn'[i] \in CallRecord
  BY <1>5, <1>7
<1>9. turn' \in Seq(CallRecord) /\ Len(turn') = n
  BY <1>2, <1>7, <1>8, TurnFunction
<1>10. QED
  BY <1>2, <1>6, <1>7, <1>9

(* A check refuses the call, or lets it pass. *)
LEMMA RefuseKeeps ==
  ASSUME LoopInvariant, profile' = profile, approval' = approval, pc \in {"decide", "asking"},
         at <= Len(turn), turn[at].block = "unknown", Refuse
  PROVE  LoopInvariant'
<1> USE ProfileFacts, SameProfile DEF LoopInvariant
<1>1. pc' = "decide" /\ at' = at + 1 /\ check' = 1 /\ UNCHANGED decideFrame
  BY DEF Refuse
<1>2. /\ turn' \in Seq(CallRecord) /\ Len(turn') = Len(turn)
      /\ \A i \in 1..Len(turn) : i # at => turn'[i] = turn[i]
      /\ turn'[at].block = "blocked" /\ turn'[at].vetoed
      /\ turn'[at].out = turn[at].out /\ turn'[at].kind = turn[at].kind
  BY RefuseTurn
<1> USE <1>1, <1>2 DEF decideFrame, gateVars, dirty
<1>3. Simple'
  BY DEF Simple, Places
<1>4. Shape'
  BY DEF Shape, Where, Idle, TurnPlaces
<1>5. Where'
  BY DEF Shape, Where, Idle, TurnPlaces, Answered
<1>6. Owing'
  BY DEF Shape, Where, Owing, Idle, TurnPlaces
<1>7. Counting'
  BY DEF Simple, Shape, Where, Counting, Idle, TurnPlaces
<1>8. Allowed'
  BY DEF Shape, Where, Allowed, Idle, TurnPlaces, Answered
<1>9. InOrder'
  BY DEF Shape, Where, InOrder, Idle, TurnPlaces, Answered
<1>10. Cached'
  BY DEF Simple, Shape, Where, InOrder, Cached, Reading, Idle, TurnPlaces, Answered
<1>11. QED
  BY <1>3, <1>4, <1>5, <1>6, <1>7, <1>8, <1>9, <1>10
(* A check lets the call pass. *)
LEMMA PassKeeps ==
  ASSUME LoopInvariant, profile' = profile, approval' = approval, pc \in {"decide", "asking"},
         at <= Len(turn), turn[at].block = "unknown", Pass
  PROVE  LoopInvariant'
<1> USE ProfileFacts, SameProfile DEF LoopInvariant
<1>1. /\ pc' = "decide" /\ UNCHANGED decideFrame
      /\ \/ check' \in 2..3 /\ at' = at
         \/ check' = 1 /\ at' = at + 1
  BY DEF Pass, Checks, Shape
<1>2. /\ turn' \in Seq(CallRecord) /\ Len(turn') = Len(turn)
      /\ \A i \in 1..Len(turn) : i # at => turn'[i] = turn[i]
      /\ turn'[at].block \in {"none", turn[at].block} /\ turn'[at].vetoed = turn[at].vetoed
      /\ turn'[at].out = turn[at].out /\ turn'[at].kind = turn[at].kind
  <2>1. CASE UNCHANGED <<turn, at>>
    BY <2>1 DEF Shape
  <2>2. CASE turn' = [turn EXCEPT ![at].block = "none"]
    BY <2>2, AllowTurn
  <2>3. QED
    BY <2>1, <2>2 DEF Pass
<1> USE <1>1, <1>2 DEF decideFrame, gateVars, dirty
<1>3. Simple'
  BY DEF Simple, Places
<1>4. Shape'
  BY DEF Shape, Where, Idle, TurnPlaces
<1>5. Where'
  BY DEF Shape, Where, Idle, TurnPlaces, Answered
<1>6. Owing'
  BY DEF Shape, Where, Owing, Idle, TurnPlaces
<1>7. Counting'
  BY DEF Simple, Shape, Where, Counting, Idle, TurnPlaces
<1>8. Allowed'
  BY DEF Shape, Where, Allowed, Idle, TurnPlaces, Answered
<1>9. InOrder'
  BY DEF Shape, Where, InOrder, Idle, TurnPlaces, Answered
<1>10. Cached'
  BY DEF Simple, Shape, Where, InOrder, Cached, Reading, Idle, TurnPlaces, Answered
<1>11. QED
  BY <1>3, <1>4, <1>5, <1>6, <1>7, <1>8, <1>9, <1>10

LEMMA LoopInvariantStep ==
  ASSUME LoopInvariant, profile' = profile, approval' = approval, Next
  PROVE  LoopInvariant'
<1> USE ProfileFacts, SameProfile DEF LoopInvariant, callVars, gateVars, dirty
<1>1. CASE Cancel
  <2> USE <1>1 DEF Cancel
  <2>1. Simple'
    BY DEF Simple, Places
  <2>2. Shape'
    BY DEF Shape, Where, Idle, TurnPlaces
  <2>3. Where'
    BY DEF Shape, Where, Idle, TurnPlaces, Answered
  <2>4. Owing'
    BY DEF Shape, Where, Owing, Idle, TurnPlaces
  <2>5. Counting'
    BY DEF Simple, Shape, Where, Counting, Idle, TurnPlaces
  <2>6. Allowed'
    BY DEF Shape, Where, Allowed, Idle, TurnPlaces, Answered
  <2>7. InOrder'
    BY DEF Shape, Where, InOrder, Idle, TurnPlaces, Answered
  <2>8. Cached'
    BY DEF Simple, Shape, Where, InOrder, Cached, Reading, Idle, TurnPlaces, Answered
  <2>9. QED
    BY <2>1, <2>2, <2>3, <2>4, <2>5, <2>6, <2>7, <2>8
<1>2. CASE Boundary
  <2> USE <1>2 DEF Boundary, End, OutOfSteps
  <2>1. Simple'
    <3>1. step' \in 0..MaxSteps'
      BY DEF Simple
    <3>2. ended' \in {"no", "done", "paused", "error", "silent"}
      BY DEF Simple
    <3>3. QED
      BY <3>1, <3>2 DEF Simple, Places
  <2>2. Shape'
    BY DEF Shape, Where, Idle, TurnPlaces
  <2>3. Where'
    BY DEF Shape, Where, Idle, TurnPlaces, Answered
  <2>4. Owing'
    BY DEF Shape, Where, Owing, Idle, TurnPlaces
  <2>5. Counting'
    BY DEF Simple, Shape, Where, Counting, Idle, TurnPlaces
  <2>6. Allowed'
    BY DEF Shape, Where, Allowed, Idle, TurnPlaces, Answered
  <2>7. InOrder'
    BY DEF Shape, Where, InOrder, Idle, TurnPlaces, Answered
  <2>8. Cached'
    BY DEF Simple, Shape, Where, InOrder, Cached, Reading, Idle, TurnPlaces, Answered
  <2>9. QED
    BY <2>1, <2>2, <2>3, <2>4, <2>5, <2>6, <2>7, <2>8
<1>3. CASE ProviderFails
  <2> USE <1>3 DEF ProviderFails, End
  <2>1. Simple'
    BY DEF Simple, Places
  <2>2. Shape'
    BY DEF Shape, Where, Idle, TurnPlaces
  <2>3. Where'
    BY DEF Shape, Where, Idle, TurnPlaces, Answered
  <2>4. Owing'
    BY DEF Shape, Where, Owing, Idle, TurnPlaces
  <2>5. Counting'
    BY DEF Simple, Shape, Where, Counting, Idle, TurnPlaces
  <2>6. Allowed'
    BY DEF Shape, Where, Allowed, Idle, TurnPlaces, Answered
  <2>7. InOrder'
    BY DEF Shape, Where, InOrder, Idle, TurnPlaces, Answered
  <2>8. Cached'
    BY DEF Simple, Shape, Where, InOrder, Cached, Reading, Idle, TurnPlaces, Answered
  <2>9. QED
    BY <2>1, <2>2, <2>3, <2>4, <2>5, <2>6, <2>7, <2>8
<1>4. CASE Complete
  <2> USE <1>4 DEF Complete
  <2>1. Simple'
    BY DEF Simple, Places
  <2>2. Shape'
    BY DEF Shape, Where, Idle, TurnPlaces
  <2>3. Where'
    BY DEF Shape, Where, Idle, TurnPlaces, Answered
  <2>4. Owing'
    BY DEF Shape, Where, Owing, Idle, TurnPlaces
  <2>5. Counting'
    BY DEF Simple, Shape, Where, Counting, Idle, TurnPlaces
  <2>6. Allowed'
    BY DEF Shape, Where, Allowed, Idle, TurnPlaces, Answered
  <2>7. InOrder'
    BY DEF Shape, Where, InOrder, Idle, TurnPlaces, Answered
  <2>8. Cached'
    BY DEF Simple, Shape, Where, InOrder, Cached, Reading, Idle, TurnPlaces, Answered
  <2>9. QED
    BY <2>1, <2>2, <2>3, <2>4, <2>5, <2>6, <2>7, <2>8
<1>5. CASE NoOutput
  <2> USE <1>5 DEF NoOutput, End, OutOfSteps
  <2>1. Simple'
    BY DEF Simple, Places
  <2>2. Shape'
    BY DEF Shape, Where, Idle, TurnPlaces
  <2>3. Where'
    BY DEF Shape, Where, Idle, TurnPlaces, Answered
  <2>4. Owing'
    BY DEF Shape, Where, Owing, Idle, TurnPlaces
  <2>5. Counting'
    BY DEF Simple, Shape, Where, Counting, Idle, TurnPlaces
  <2>6. Allowed'
    BY DEF Shape, Where, Allowed, Idle, TurnPlaces, Answered
  <2>7. InOrder'
    BY DEF Shape, Where, InOrder, Idle, TurnPlaces, Answered
  <2>8. Cached'
    BY DEF Simple, Shape, Where, InOrder, Cached, Reading, Idle, TurnPlaces, Answered
  <2>9. QED
    BY <2>1, <2>2, <2>3, <2>4, <2>5, <2>6, <2>7, <2>8
<1>6. ASSUME NEW kinds \in Turns, NEW b \in BOOLEAN, ToolCalls(kinds, b)
      PROVE  LoopInvariant'
  <2>0. /\ turn' \in Seq(CallRecord) /\ Len(turn') = Len(kinds) /\ Len(kinds) \in 1..MaxTurn
        /\ \A i \in 1..Len(turn') :
             turn'[i].out = "none" /\ (turn'[i].vetoed => turn'[i].block = "blocked")
    BY <1>6, CallsTurn
  <2>00. /\ pc = "request" /\ pc' = "decide" /\ at' = 1 /\ check' = 1 /\ owed' = owed + Len(kinds)
         /\ UNCHANGED <<step, cancel, made, todo, batch, queue, open, cache, gateVars, unchecked, changed, ended>>
    BY <1>6 DEF ToolCalls
  <2> USE <2>00 DEF gateVars
  <2>1. Simple'
    BY <2>0 DEF Simple, Places
  <2>2. Shape'
    BY <2>0 DEF Shape, Where, Idle, TurnPlaces
  <2>3. Where'
    BY <2>0 DEF Shape, Where, Idle, TurnPlaces, Answered
  <2>4. Owing'
    BY <2>0 DEF Shape, Where, Owing, Idle, TurnPlaces
  <2>5. Counting'
    BY <2>0 DEF Simple, Shape, Where, Counting, Idle, TurnPlaces
  <2>6. Allowed'
    BY <2>0 DEF Shape, Where, Allowed, Idle, TurnPlaces, Answered
  <2>7. InOrder'
    BY <2>0 DEF Shape, Where, InOrder, Idle, TurnPlaces, Answered
  <2>8. Cached'
    BY <2>0 DEF Simple, Shape, Where, InOrder, Cached, Reading, Idle, TurnPlaces, Answered
  <2>9. QED
    BY <2>1, <2>2, <2>3, <2>4, <2>5, <2>6, <2>7, <2>8
<1>7. CASE Skip
  <2> USE <1>7 DEF Skip, Deciding, decideFrame
  <2>1. Simple'
    BY DEF Simple, Places
  <2>2. Shape'
    BY DEF Shape, Where, Idle, TurnPlaces
  <2>3. Where'
    BY DEF Shape, Where, Idle, TurnPlaces, Answered
  <2>4. Owing'
    BY DEF Shape, Where, Owing, Idle, TurnPlaces
  <2>5. Counting'
    BY DEF Simple, Shape, Where, Counting, Idle, TurnPlaces
  <2>6. Allowed'
    BY DEF Shape, Where, Allowed, Idle, TurnPlaces, Answered
  <2>7. InOrder'
    BY DEF Shape, Where, InOrder, Idle, TurnPlaces, Answered
  <2>8. Cached'
    BY DEF Simple, Shape, Where, InOrder, Cached, Reading, Idle, TurnPlaces, Answered
  <2>9. QED
    BY <2>1, <2>2, <2>3, <2>4, <2>5, <2>6, <2>7, <2>8
<1>8. CASE CheckAllows
  BY <1>8, PassKeeps DEF CheckAllows, Unblocked, Deciding
<1>9. CASE CheckDenies
  BY <1>9, RefuseKeeps DEF CheckDenies, Unblocked, Deciding
<1>10. CASE CheckAsks
  <2>1. CASE approval = "human"
    <3> USE <1>10, <2>1 DEF CheckAsks, Unblocked, Deciding, decideFrame
    <3>1. Simple'
      BY DEF Simple, Places
    <3>2. Shape'
      BY DEF Shape, Where, Idle, TurnPlaces
    <3>3. Where'
      BY DEF Shape, Where, Idle, TurnPlaces, Answered
    <3>4. Owing'
      BY DEF Shape, Where, Owing, Idle, TurnPlaces
    <3>5. Counting'
      BY DEF Simple, Shape, Where, Counting, Idle, TurnPlaces
    <3>6. Allowed'
      BY DEF Shape, Where, Allowed, Idle, TurnPlaces, Answered
    <3>7. InOrder'
      BY DEF Shape, Where, InOrder, Idle, TurnPlaces, Answered
    <3>8. Cached'
      BY DEF Simple, Shape, Where, InOrder, Cached, Reading, Idle, TurnPlaces, Answered
    <3>9. QED
      BY <3>1, <3>2, <3>3, <3>4, <3>5, <3>6, <3>7, <3>8
  <2>2. CASE approval = "deny"
    BY <1>10, <2>2, RefuseKeeps DEF CheckAsks, Unblocked, Deciding
  <2>3. CASE approval = "allow"
    BY <1>10, <2>3, PassKeeps DEF CheckAsks, Unblocked, Deciding
  <2>4. QED
    BY <2>1, <2>2, <2>3, ProfilesAssumption DEF Simple, Profile, Approvals
<1>11. CASE AskCancelled
  BY <1>11, RefuseKeeps DEF AskCancelled, LoopInvariant, Where
<1>12. ASSUME NEW yes \in BOOLEAN, Answer(yes)
      PROVE  LoopInvariant'
  BY <1>12, PassKeeps, RefuseKeeps DEF Answer, LoopInvariant, Where
<1>13. CASE Dispatch
  <2> USE <1>13 DEF Dispatch
  <2>1. Simple'
    BY DEF Simple, Places
  <2>2. Shape'
    BY DEF Shape, Where, Idle, TurnPlaces
  <2>3. Where'
    BY DEF Shape, Where, Idle, TurnPlaces, Answered
  <2>4. Owing'
    BY DEF Shape, Where, Owing, Idle, TurnPlaces
  <2>5. Counting'
    BY DEF Simple, Shape, Where, Counting, Idle, TurnPlaces
  <2>6. Allowed'
    BY DEF Shape, Where, Allowed, Idle, TurnPlaces, Answered
  <2>7. InOrder'
    BY DEF Shape, Where, InOrder, Idle, TurnPlaces, Answered
  <2>8. Cached'
    BY DEF Simple, Shape, Where, InOrder, Cached, Reading, Idle, TurnPlaces, Answered
  <2>9. QED
    BY <2>1, <2>2, <2>3, <2>4, <2>5, <2>6, <2>7, <2>8
<1>14. CASE BeginSegment
  <2>0. /\ NextSegment \subseteq todo /\ Hits(NextSegment) \subseteq NextSegment
        /\ \A i \in NextSegment, j \in todo \ NextSegment : i < j
        /\ \A i, j \in NextSegment : i # j => turn[i].kind # "write" /\ turn[j].kind # "write"
        /\ turn' \in Seq(CallRecord) /\ Len(turn') = Len(turn)
        /\ \A j \in 1..Len(turn) :
              /\ turn'[j].kind = turn[j].kind /\ turn'[j].block = turn[j].block
              /\ turn'[j].vetoed = turn[j].vetoed
              /\ turn'[j].out = IF j \in Hits(NextSegment) THEN "cached" ELSE turn[j].out
              /\ turn'[j].val = IF j \in Hits(NextSegment) THEN cache
                                ELSE IF j \in open' THEN "fresh" ELSE turn[j].val
    <3>1. todo # {} /\ cache \in {"none", "fresh", "stale"}
      BY <1>14 DEF BeginSegment, Simple
    <3>2. QED
      BY <1>14, <3>1, SegmentTurn, SegmentFacts DEF Hits, Shareable
  <2>00. /\ pc = "segments" /\ pc' = "execute" /\ todo # {} /\ todo' = todo \ NextSegment
         /\ batch' = NextSegment \ Hits(NextSegment)
         /\ (queue' = batch' /\ open' = {}) \/ (queue' = {} /\ open' = batch')
         /\ UNCHANGED <<step, cancel, made, at, check, owed, cache, gateVars, unchecked, changed, ended>>
    <3>1. /\ pc = "segments" /\ pc' = "execute" /\ todo # {}
          /\ UNCHANGED <<step, cancel, made, at, check, owed, cache, gateVars, unchecked, changed, ended>>
      BY <1>14 DEF BeginSegment
    <3>2. todo' = todo \ NextSegment /\ batch' = NextSegment \ Hits(NextSegment)
      BY <1>14 DEF BeginSegment
    <3>3. (queue' = batch' /\ open' = {}) \/ (queue' = {} /\ open' = batch')
      <4> DEFINE together == ConcurrentTools /\ Cardinality(NextSegment \ Hits(NextSegment)) > 1
      <4>1. CASE together
        BY <1>14, <3>2, <4>1 DEF BeginSegment
      <4>2. CASE ~together
        BY <1>14, <3>2, <4>2 DEF BeginSegment
      <4>3. QED
        BY <4>1, <4>2
    <3>4. QED
      BY <3>1, <3>2, <3>3
  <2>000. \A i \in Hits(NextSegment) : ToolCache /\ cache # "none"
    BY DEF Hits
  <2> USE <2>00 DEF gateVars
  <2>1. Simple'
    BY <2>0 DEF Simple, Places
  <2>2. Shape'
    BY <2>0 DEF Shape, Where, Idle, TurnPlaces
  <2>3. Where'
    BY <2>0 DEF Shape, Where, Idle, TurnPlaces, Answered
  <2>4. Owing'
    BY <2>0 DEF Shape, Where, Owing, Idle, TurnPlaces
  <2>5. Counting'
    BY <2>0 DEF Simple, Shape, Where, Counting, Idle, TurnPlaces
  <2>6. Allowed'
    BY <2>0, SMTT(40) DEF Shape, Where, Allowed, Idle, TurnPlaces, Answered
  <2>7. InOrder'
    <3>1. Len(turn') = Len(turn) /\ Len(turn) \in Nat
      BY <2>0, LenProperties
    <3>2. \A j \in 1..Len(turn) : turn'[j].kind = turn[j].kind
      BY <2>0
    <3>3. \A j \in 1..Len(turn) : turn'[j].out # "none" => turn[j].out # "none" \/ j \in NextSegment
      BY <2>0
    <3>4. \A i \in todo, j \in 1..Len(turn) : turn[j].out # "none" => j < i
      BY DEF InOrder, Answered
    <3>5. \A i \in todo', j \in 1..Len(turn) : j \in NextSegment \/ turn[j].out # "none" => j < i
      BY <2>0, <3>4
    <3>6. \A i \in NextSegment, j \in 1..Len(turn) :
            i < j /\ (j \in NextSegment \/ turn[j].out # "none") =>
              turn[i].kind # "write" /\ turn[j].kind # "write"
      <4> TAKE i \in NextSegment, j \in 1..Len(turn)
      <4>1. i \in Nat /\ j \in Nat /\ i \in todo
        BY <2>0, <3>1 DEF Shape
      <4>2. i < j => turn[j].out = "none" /\ i # j
        BY <3>4, <4>1
      <4>3. QED
        BY <2>0, <4>2
    <3>7. batch' \subseteq NextSegment /\ batch' \subseteq 1..Len(turn)
      BY <2>0 DEF Shape
    <3>8. QED
      BY <3>1, <3>2, <3>3, <3>5, <3>6, <3>7 DEF InOrder, Answered
  <2>8. Cached'
    <3>1. ~ToolCache' => cache' = "none"
      BY DEF Cached
    <3>2. \A j \in 1..Len(turn') : turn'[j].out = "cached" => j \notin batch'
      <4> TAKE j \in 1..Len(turn')
      <4>1. CASE j \in Hits(NextSegment)
        BY <4>1
      <4>2. CASE turn[j].out = "cached"
        BY <2>0, <4>2 DEF InOrder, Answered, Shape
      <4>3. QED
        BY <2>0, <4>1, <4>2
    <3>3. ~SideWrites' => cache' # "stale"
      BY DEF Cached
    <3>4. ASSUME NEW j \in batch', j \in open' \/ turn'[j].out = "ok"
          PROVE  turn'[j].val = "fresh"
      <4>1. j \in 1..Len(turn) /\ j \in todo /\ j \notin Hits(NextSegment)
        BY <2>0 DEF Shape
      <4>2. turn[j].out = "none"
        BY <4>1 DEF InOrder, Answered, Shape
      <4>3. QED
        BY <2>0, <3>4, <4>1, <4>2
    <3>5. ASSUME ~SideWrites', NEW j \in 1..Len(turn'), turn'[j].out = "cached"
          PROVE  turn'[j].val = "fresh"
      <4>1. CASE j \in Hits(NextSegment)
        BY <2>0, <2>000, <3>3, <3>5, <4>1 DEF Simple
      <4>2. CASE j \notin Hits(NextSegment)
        <5>1. turn[j].out = "cached" /\ j \in 1..Len(turn)
          BY <2>0, <3>5, <4>2
        <5>2. j \notin open'
          BY <3>2, <3>5
        <5>3. QED
          BY <2>0, <3>5, <4>2, <5>1, <5>2 DEF Cached
      <4>3. QED
        BY <4>1, <4>2
    <3>6. QED
      BY <3>1, <3>2, <3>3, <3>4, <3>5 DEF Cached
  <2>9. QED
    BY <2>1, <2>2, <2>3, <2>4, <2>5, <2>6, <2>7, <2>8
<1>15. CASE EndSegments
  <2> USE <1>15 DEF EndSegments
  <2>1. Simple'
    BY DEF Simple, Places
  <2>2. Shape'
    BY DEF Shape, Where, Idle, TurnPlaces
  <2>3. Where'
    BY DEF Shape, Where, Idle, TurnPlaces, Answered
  <2>4. Owing'
    BY DEF Shape, Where, Owing, Idle, TurnPlaces
  <2>5. Counting'
    BY DEF Simple, Shape, Where, Counting, Idle, TurnPlaces
  <2>6. Allowed'
    BY DEF Shape, Where, Allowed, Idle, TurnPlaces, Answered
  <2>7. InOrder'
    BY DEF Shape, Where, InOrder, Idle, TurnPlaces, Answered
  <2>8. Cached'
    BY DEF Simple, Shape, Where, InOrder, Cached, Reading, Idle, TurnPlaces, Answered
  <2>9. QED
    BY <2>1, <2>2, <2>3, <2>4, <2>5, <2>6, <2>7, <2>8
<1>16. CASE EndSegment
  <2>0. \/ CacheAfter(batch) = "none"
        \/ Reading /\ \E i \in batch : turn[i].out = "ok" /\ CacheAfter(batch) = turn[i].val
        \/ Reading /\ CacheAfter(batch) = cache
    BY CacheAfterSegment
  <2> USE <1>16 DEF EndSegment
  <2>1. Simple'
    <3>1. \A i \in batch : turn[i].val \in {"none", "fresh", "stale"}
      <4> TAKE i \in batch
      <4>1. turn[i] \in CallRecord
        BY DEF Shape
      <4>2. QED
        BY <4>1 DEF CallRecord
    <3>2. QED
      BY <2>0, <3>1 DEF Simple, Places
  <2>2. Shape'
    BY <2>0 DEF Shape, Where, Idle, TurnPlaces
  <2>3. Where'
    BY <2>0 DEF Shape, Where, Idle, TurnPlaces, Answered
  <2>4. Owing'
    BY <2>0 DEF Shape, Where, Owing, Idle, TurnPlaces
  <2>5. Counting'
    BY <2>0 DEF Simple, Shape, Where, Counting, Idle, TurnPlaces
  <2>6. Allowed'
    BY <2>0 DEF Shape, Where, Allowed, Idle, TurnPlaces, Answered
  <2>7. InOrder'
    BY <2>0 DEF Shape, Where, InOrder, Idle, TurnPlaces, Answered
  <2>8. Cached'
    BY <2>0 DEF Simple, Shape, Where, InOrder, Cached, Reading, Idle, TurnPlaces, Answered
  <2>9. QED
    BY <2>1, <2>2, <2>3, <2>4, <2>5, <2>6, <2>7, <2>8
<1>17. CASE Record
  <2> USE <1>17 DEF Record, Executed, Declared, Aged
  <2>1. Simple'
    BY DEF Simple, Places
  <2>2. Shape'
    BY DEF Shape, Where, Idle, TurnPlaces
  <2>3. Where'
    BY DEF Shape, Where, Idle, TurnPlaces, Answered
  <2>4. Owing'
    <3>1. owed = Len(turn) + 1 - at /\ at \in 1..Len(turn)
      BY DEF Owing, Shape
    <3>2. owed' = owed - 1 /\ at' = at + 1 /\ turn' = turn
      OBVIOUS
    <3>3. QED
      BY <3>1, <3>2 DEF Shape, Owing, TurnPlaces
  <2>5. Counting'
    BY SMTT(40) DEF Simple, Shape, Where, Counting, Idle, TurnPlaces
  <2>6. Allowed'
    BY DEF Shape, Where, Allowed, Idle, TurnPlaces, Answered
  <2>7. InOrder'
    BY DEF Shape, Where, InOrder, Idle, TurnPlaces, Answered
  <2>8. Cached'
    BY DEF Simple, Shape, Where, InOrder, Cached, Reading, Idle, TurnPlaces, Answered
  <2>9. QED
    BY <2>1, <2>2, <2>3, <2>4, <2>5, <2>6, <2>7, <2>8
<1>18. CASE Continue
  <2> USE <1>18 DEF Continue, NoTurn
  <2>1. Simple'
    BY DEF Simple, Places
  <2>2. Shape'
    BY DEF Shape, Where, Idle, TurnPlaces
  <2>3. Where'
    BY DEF Shape, Where, Idle, TurnPlaces, Answered
  <2>4. Owing'
    BY DEF Shape, Where, Owing, Idle, TurnPlaces
  <2>5. Counting'
    BY DEF Simple, Shape, Where, Counting, Idle, TurnPlaces
  <2>6. Allowed'
    BY DEF Shape, Where, Allowed, Idle, TurnPlaces, Answered
  <2>7. InOrder'
    BY DEF Shape, Where, InOrder, Idle, TurnPlaces, Answered
  <2>8. Cached'
    BY DEF Simple, Shape, Where, InOrder, Cached, Reading, Idle, TurnPlaces, Answered
  <2>9. QED
    BY <2>1, <2>2, <2>3, <2>4, <2>5, <2>6, <2>7, <2>8
<1>19. ASSUME NEW i \in DOMAIN turn, Start(i)
      PROVE  LoopInvariant'
  <2>0. /\ turn' \in Seq(CallRecord) /\ Len(turn') = Len(turn)
        /\ \A j \in 1..Len(turn) :
              /\ turn'[j].kind = turn[j].kind /\ turn'[j].block = turn[j].block
              /\ turn'[j].vetoed = turn[j].vetoed /\ turn'[j].out = turn[j].out
              /\ turn'[j].val = IF j = i THEN "fresh" ELSE turn[j].val
    BY <1>19, StartTurn DEF Start
  <2>00. /\ pc = "execute" /\ open = {} /\ i \in queue /\ i \in batch /\ i \in 1..Len(turn)
         /\ queue' = queue \ {i} /\ open' = {i}
         /\ UNCHANGED <<pc, step, cancel, made, at, check, todo, batch, owed, cache, gateVars,
                        unchecked, changed, ended>>
    BY <1>19 DEF Start, Shape
  <2> USE <2>00 DEF gateVars
  <2>1. Simple'
    BY <2>0 DEF Simple, Places
  <2>2. Shape'
    BY <2>0 DEF Shape, Where, Idle, TurnPlaces
  <2>3. Where'
    BY <2>0 DEF Shape, Where, Idle, TurnPlaces, Answered
  <2>4. Owing'
    BY <2>0 DEF Shape, Where, Owing, Idle, TurnPlaces
  <2>5. Counting'
    BY <2>0 DEF Simple, Shape, Where, Counting, Idle, TurnPlaces
  <2>6. Allowed'
    BY <2>0 DEF Shape, Where, Allowed, Idle, TurnPlaces, Answered
  <2>7. InOrder'
    <3>1. \A j \in 1..Len(turn) : turn'[j].kind = turn[j].kind /\ (turn'[j].out # "none" => j = i \/ turn[j].out # "none")
      BY <2>0
    <3>2. Len(turn') = Len(turn)
      BY <2>0
    <3>3. QED
      BY <3>1, <3>2 DEF Shape, InOrder, Answered
  <2>8. Cached'
    <3>1. ~ToolCache' => cache' = "none"
      BY DEF Cached
    <3>2. \A j \in 1..Len(turn') : turn'[j].out = "cached" => j \notin batch'
      BY <2>0 DEF Shape, Cached
    <3>3. ~SideWrites' /\ pc' \notin {"execute", "ended"} => cache' # "stale"
      BY DEF Cached, Reading
    <3>4. ASSUME ~SideWrites', pc' = "execute", Reading'
          PROVE  /\ cache' # "stale"
                 /\ \A j \in batch' : j \in open' \/ turn'[j].out = "ok" => turn'[j].val = "fresh"
      <4>1. \A j \in batch : turn[j].kind = "read"
        BY <2>0, <3>4 DEF Shape, Reading
      <4>2. cache # "stale" /\ \A j \in batch : j \in open \/ turn[j].out = "ok" => turn[j].val = "fresh"
        BY <3>4, <4>1 DEF Cached, Reading
      <4>3. turn[i].kind = "read"
        BY <4>1
      <4>4. \A j \in 1..Len(turn) : turn'[j].val \in {"fresh", turn[j].val}
        BY <2>0, <4>3
      <4>5. cache' = cache /\ batch' = batch /\ \A j \in batch : j \in 1..Len(turn) /\ (j \in open' => j \in open \/ j = i)
        BY <4>3 DEF Shape
      <4>6. \A j \in batch : turn'[j].out = "ok" => turn[j].out = "ok" \/ j \in open \/ turn'[j].val = "fresh"
        BY <2>0, <4>5
      <4>7. QED
        BY <4>2, <4>4, <4>5, <4>6, <2>0
    <3>5. ASSUME ~SideWrites', NEW j \in 1..Len(turn'), turn'[j].out = "cached"
          PROVE  turn'[j].val = "fresh"
      <4>1. j \in 1..Len(turn) /\ turn[j].out = "cached" /\ j \notin batch
        BY <2>0, <3>5 DEF Cached
      <4>2. turn'[j].val = turn[j].val
        BY <2>0, <3>5, <4>1 DEF Shape
      <4>3. QED
        BY <3>5, <4>1, <4>2 DEF Cached
    <3>6. QED
      BY <3>1, <3>2, <3>3, <3>4, <3>5 DEF Cached
  <2>9. QED
    BY <2>1, <2>2, <2>3, <2>4, <2>5, <2>6, <2>7, <2>8
<1>20. ASSUME NEW i \in DOMAIN turn, Retry(i)
      PROVE  LoopInvariant'
  <2>0. /\ turn' \in Seq(CallRecord) /\ Len(turn') = Len(turn)
        /\ \A j \in 1..Len(turn) :
              /\ turn'[j].kind = turn[j].kind /\ turn'[j].block = turn[j].block
              /\ turn'[j].vetoed = turn[j].vetoed /\ turn'[j].out = turn[j].out
              /\ turn[i].kind = "read" \/ (j \notin open /\ turn'[j].out # "ok") =>
                   turn'[j].val = IF j = i THEN "fresh" ELSE turn[j].val
    BY <1>20, RetryTurn DEF Retry
  <2>00. /\ pc = "execute" /\ i \in open /\ i \in batch /\ i \in 1..Len(turn)
         /\ \/ turn[i].kind # "read" /\ cache' = Aged(cache) /\ Changes(turn[i].kind)
            \/ UNCHANGED <<cache, unchecked, changed>>
         /\ UNCHANGED <<pc, step, cancel, made, at, check, todo, batch, queue, open, owed,
                        gateVars, ended>>
    BY <1>20 DEF Retry, Shape, Written
  <2> USE DEF Aged, Changes, Declared
  <2> USE <2>00 DEF gateVars
  <2>1. Simple'
    BY <2>0 DEF Simple, Places
  <2>2. Shape'
    BY <2>0 DEF Shape, Where, Idle, TurnPlaces
  <2>3. Where'
    BY <2>0 DEF Shape, Where, Idle, TurnPlaces, Answered
  <2>4. Owing'
    BY <2>0 DEF Shape, Where, Owing, Idle, TurnPlaces
  <2>5. Counting'
    BY <2>0 DEF Simple, Shape, Where, Counting, Idle, TurnPlaces
  <2>6. Allowed'
    BY <2>0 DEF Shape, Where, Allowed, Idle, TurnPlaces, Answered
  <2>7. InOrder'
    <3>1. \A j \in 1..Len(turn) : turn'[j].kind = turn[j].kind /\ (turn'[j].out # "none" => j = i \/ turn[j].out # "none")
      BY <2>0
    <3>2. Len(turn') = Len(turn)
      BY <2>0
    <3>3. QED
      BY <3>1, <3>2 DEF Shape, InOrder, Answered
  <2>8. Cached'
    <3>1. ~ToolCache' => cache' = "none"
      BY DEF Cached
    <3>2. \A j \in 1..Len(turn') : turn'[j].out = "cached" => j \notin batch'
      BY <2>0 DEF Shape, Cached
    <3>3. ~SideWrites' /\ pc' \notin {"execute", "ended"} => cache' # "stale"
      BY DEF Cached, Reading
    <3>4. ASSUME ~SideWrites', pc' = "execute", Reading'
          PROVE  /\ cache' # "stale"
                 /\ \A j \in batch' : j \in open' \/ turn'[j].out = "ok" => turn'[j].val = "fresh"
      <4>1. \A j \in batch : turn[j].kind = "read"
        BY <2>0, <3>4 DEF Shape, Reading
      <4>2. cache # "stale" /\ \A j \in batch : j \in open \/ turn[j].out = "ok" => turn[j].val = "fresh"
        BY <3>4, <4>1 DEF Cached, Reading
      <4>3. turn[i].kind = "read"
        BY <4>1
      <4>4. \A j \in 1..Len(turn) : turn'[j].val \in {"fresh", turn[j].val}
        BY <2>0, <4>3
      <4>5. cache' = cache /\ batch' = batch /\ \A j \in batch : j \in 1..Len(turn) /\ (j \in open' => j \in open \/ j = i)
        BY <4>3 DEF Shape
      <4>6. \A j \in batch : turn'[j].out = "ok" => turn[j].out = "ok" \/ j \in open \/ turn'[j].val = "fresh"
        BY <2>0, <4>5
      <4>7. QED
        BY <4>2, <4>4, <4>5, <4>6, <2>0
    <3>5. ASSUME ~SideWrites', NEW j \in 1..Len(turn'), turn'[j].out = "cached"
          PROVE  turn'[j].val = "fresh"
      <4>1. j \in 1..Len(turn) /\ turn[j].out = "cached" /\ j \notin batch
        BY <2>0, <3>5 DEF Cached
      <4>2. turn'[j].val = turn[j].val
        BY <2>0, <3>5, <4>1 DEF Shape
      <4>3. QED
        BY <3>5, <4>1, <4>2 DEF Cached
    <3>6. QED
      BY <3>1, <3>2, <3>3, <3>4, <3>5 DEF Cached
  <2>9. QED
    BY <2>1, <2>2, <2>3, <2>4, <2>5, <2>6, <2>7, <2>8
<1>21. ASSUME NEW i \in DOMAIN turn, Panic(i)
      PROVE  LoopInvariant'
  <2>0. /\ turn' \in Seq(CallRecord) /\ Len(turn') = Len(turn)
        /\ \A j \in 1..Len(turn) :
              /\ turn'[j].kind = turn[j].kind /\ turn'[j].block = turn[j].block
              /\ turn'[j].vetoed = turn[j].vetoed /\ turn'[j].out = turn[j].out
              /\ turn[i].kind = "read" \/ (j \notin open /\ turn'[j].out # "ok") =>
                   turn'[j].val = turn[j].val
    <3>1. CASE UNCHANGED turn
      BY <3>1 DEF Shape
    <3>2. CASE turn[i].kind # "read" /\ Written(turn)
      BY <3>2, WrittenTurn DEF Shape
    <3>3. QED
      BY <1>21, <3>1, <3>2 DEF Panic, End, callVars
  <2>00. /\ pc = "execute" /\ i \in open /\ i \in batch /\ i \in 1..Len(turn)
         /\ \/ pc' = pc /\ open' = open \ {i} /\ UNCHANGED ended
            \/ pc' = "ended" /\ ended' = "silent" /\ UNCHANGED <<open, cache, unchecked, changed>>
         /\ \/ turn[i].kind # "read" /\ cache' = Aged(cache) /\ Changes(turn[i].kind)
            \/ UNCHANGED <<cache, unchecked, changed>>
         /\ UNCHANGED <<step, cancel, made, at, check, todo, batch, queue, owed, gateVars>>
    BY <1>21 DEF Panic, Shape, Written, End, callVars
  <2> USE DEF Aged, Changes, Declared
  <2> USE <2>00 DEF gateVars
  <2>1. Simple'
    BY <2>0 DEF Simple, Places
  <2>2. Shape'
    BY <2>0 DEF Shape, Where, Idle, TurnPlaces
  <2>3. Where'
    BY <2>0 DEF Shape, Where, Idle, TurnPlaces, Answered
  <2>4. Owing'
    BY <2>0 DEF Shape, Where, Owing, Idle, TurnPlaces
  <2>5. Counting'
    BY <2>0 DEF Simple, Shape, Where, Counting, Idle, TurnPlaces
  <2>6. Allowed'
    BY <2>0 DEF Shape, Where, Allowed, Idle, TurnPlaces, Answered
  <2>7. InOrder'
    <3>1. \A j \in 1..Len(turn) : turn'[j].kind = turn[j].kind /\ (turn'[j].out # "none" => j = i \/ turn[j].out # "none")
      BY <2>0
    <3>2. Len(turn') = Len(turn)
      BY <2>0
    <3>3. QED
      BY <3>1, <3>2 DEF Shape, InOrder, Answered
  <2>8. Cached'
    <3>1. ~ToolCache' => cache' = "none"
      BY DEF Cached
    <3>2. \A j \in 1..Len(turn') : turn'[j].out = "cached" => j \notin batch'
      BY <2>0 DEF Shape, Cached
    <3>3. ~SideWrites' /\ pc' \notin {"execute", "ended"} => cache' # "stale"
      BY DEF Cached, Reading
    <3>4. ASSUME ~SideWrites', pc' = "execute", Reading'
          PROVE  /\ cache' # "stale"
                 /\ \A j \in batch' : j \in open' \/ turn'[j].out = "ok" => turn'[j].val = "fresh"
      <4>1. \A j \in batch : turn[j].kind = "read"
        BY <2>0, <3>4 DEF Shape, Reading
      <4>2. cache # "stale" /\ \A j \in batch : j \in open \/ turn[j].out = "ok" => turn[j].val = "fresh"
        BY <3>4, <4>1 DEF Cached, Reading
      <4>3. turn[i].kind = "read"
        BY <4>1
      <4>4. \A j \in 1..Len(turn) : turn'[j].val \in {"fresh", turn[j].val}
        BY <2>0, <4>3
      <4>5. cache' = cache /\ batch' = batch /\ \A j \in batch : j \in 1..Len(turn) /\ (j \in open' => j \in open \/ j = i)
        BY <4>3 DEF Shape
      <4>6. \A j \in batch : turn'[j].out = "ok" => turn[j].out = "ok" \/ j \in open \/ turn'[j].val = "fresh"
        BY <2>0, <4>5
      <4>7. QED
        BY <4>2, <4>4, <4>5, <4>6, <2>0
    <3>5. ASSUME ~SideWrites', NEW j \in 1..Len(turn'), turn'[j].out = "cached"
          PROVE  turn'[j].val = "fresh"
      <4>1. j \in 1..Len(turn) /\ turn[j].out = "cached" /\ j \notin batch
        BY <2>0, <3>5 DEF Cached
      <4>2. turn'[j].val = turn[j].val
        BY <2>0, <3>5, <4>1 DEF Shape
      <4>3. QED
        BY <3>5, <4>1, <4>2 DEF Cached
    <3>6. QED
      BY <3>1, <3>2, <3>3, <3>4, <3>5 DEF Cached
  <2>9. QED
    BY <2>1, <2>2, <2>3, <2>4, <2>5, <2>6, <2>7, <2>8
<1>22. ASSUME NEW i \in DOMAIN turn, NEW o \in {"ok", "error"}, Finish(i, o)
      PROVE  LoopInvariant'
  <2>0. /\ turn' \in Seq(CallRecord) /\ Len(turn') = Len(turn)
        /\ \A j \in 1..Len(turn) :
              /\ turn'[j].kind = turn[j].kind /\ turn'[j].block = turn[j].block
              /\ turn'[j].vetoed = turn[j].vetoed
              /\ turn'[j].out = IF j = i THEN o ELSE turn[j].out
              /\ turn[i].kind = "read" \/ (j \notin open /\ turn'[j].out # "ok") =>
                   turn'[j].val = turn[j].val
    <3>1. i \in open
      BY <1>22 DEF Finish
    <3>2. QED
      BY <1>22, <3>1, FinishTurn
  <2>00. /\ pc = "execute" /\ i \in open /\ i \in batch /\ i \in 1..Len(turn) /\ open' = open \ {i}
         /\ \/ turn[i].kind # "read" /\ cache' = Aged(cache) /\ Changes(turn[i].kind)
            \/ UNCHANGED <<cache, unchecked, changed>>
         /\ UNCHANGED <<pc, step, cancel, made, at, check, todo, batch, queue, owed,
                        gateVars, ended>>
    BY <1>22 DEF Finish, Shape, Written
  <2> USE DEF Aged, Changes, Declared
  <2> USE <2>00 DEF gateVars
  <2>1. Simple'
    BY <2>0 DEF Simple, Places
  <2>2. Shape'
    BY <2>0 DEF Shape, Where, Idle, TurnPlaces
  <2>3. Where'
    BY <2>0 DEF Shape, Where, Idle, TurnPlaces, Answered
  <2>4. Owing'
    BY <2>0 DEF Shape, Where, Owing, Idle, TurnPlaces
  <2>5. Counting'
    BY <2>0 DEF Simple, Shape, Where, Counting, Idle, TurnPlaces
  <2>6. Allowed'
    BY <2>0 DEF Shape, Where, Allowed, Idle, TurnPlaces, Answered
  <2>7. InOrder'
    <3>1. \A j \in 1..Len(turn) : turn'[j].kind = turn[j].kind /\ (turn'[j].out # "none" => j = i \/ turn[j].out # "none")
      BY <2>0
    <3>2. Len(turn') = Len(turn)
      BY <2>0
    <3>3. QED
      BY <3>1, <3>2 DEF Shape, InOrder, Answered
  <2>8. Cached'
    <3>1. ~ToolCache' => cache' = "none"
      BY DEF Cached
    <3>2. \A j \in 1..Len(turn') : turn'[j].out = "cached" => j \notin batch'
      BY <2>0 DEF Shape, Cached
    <3>3. ~SideWrites' /\ pc' \notin {"execute", "ended"} => cache' # "stale"
      BY DEF Cached, Reading
    <3>4. ASSUME ~SideWrites', pc' = "execute", Reading'
          PROVE  /\ cache' # "stale"
                 /\ \A j \in batch' : j \in open' \/ turn'[j].out = "ok" => turn'[j].val = "fresh"
      <4>1. \A j \in batch : turn[j].kind = "read"
        BY <2>0, <3>4 DEF Shape, Reading
      <4>2. cache # "stale" /\ \A j \in batch : j \in open \/ turn[j].out = "ok" => turn[j].val = "fresh"
        BY <3>4, <4>1 DEF Cached, Reading
      <4>3. turn[i].kind = "read"
        BY <4>1
      <4>4. \A j \in 1..Len(turn) : turn'[j].val \in {"fresh", turn[j].val}
        BY <2>0, <4>3
      <4>5. cache' = cache /\ batch' = batch /\ \A j \in batch : j \in 1..Len(turn) /\ (j \in open' => j \in open \/ j = i)
        BY <4>3 DEF Shape
      <4>6. \A j \in batch : turn'[j].out = "ok" => turn[j].out = "ok" \/ j \in open \/ turn'[j].val = "fresh"
        BY <2>0, <4>5
      <4>7. QED
        BY <4>2, <4>4, <4>5, <4>6, <2>0
    <3>5. ASSUME ~SideWrites', NEW j \in 1..Len(turn'), turn'[j].out = "cached"
          PROVE  turn'[j].val = "fresh"
      <4>1. j \in 1..Len(turn) /\ turn[j].out = "cached" /\ j \notin batch
        BY <2>0, <3>5 DEF Cached
      <4>2. turn'[j].val = turn[j].val
        BY <2>0, <3>5, <4>1 DEF Shape
      <4>3. QED
        BY <3>5, <4>1, <4>2 DEF Cached
    <3>6. QED
      BY <3>1, <3>2, <3>3, <3>4, <3>5 DEF Cached
  <2>9. QED
    BY <2>1, <2>2, <2>3, <2>4, <2>5, <2>6, <2>7, <2>8
<1>23. ASSUME NEW o \in Outcomes, Verify(o)
      PROVE  LoopInvariant'
  <2> USE <1>23 DEF Verify, Looked, RetryOrPause, Aged
  <2>1. Simple'
    <3>1. vcycles' \in Nat /\ rcycles' \in Nat
      BY DEF Simple
    <3>2. unchecked' \subseteq {"verify", "review"} /\ changed' \in BOOLEAN /\ cache' \in {"none", "fresh", "stale"}
      BY DEF Simple
    <3>3. pc' \in Places /\ ended' \in {"no", "done", "paused", "error", "silent"}
      BY DEF Simple, Places
    <3>4. QED
      BY <3>1, <3>2, <3>3 DEF Simple
  <2>2. Shape'
    BY DEF Shape, Where, Idle, TurnPlaces
  <2>3. Where'
    BY DEF Shape, Where, Idle, TurnPlaces, Answered
  <2>4. Owing'
    BY DEF Shape, Where, Owing, Idle, TurnPlaces
  <2>5. Counting'
    BY DEF Simple, Shape, Where, Counting, Idle, TurnPlaces
  <2>6. Allowed'
    BY DEF Shape, Where, Allowed, Idle, TurnPlaces, Answered
  <2>7. InOrder'
    BY DEF Shape, Where, InOrder, Idle, TurnPlaces, Answered
  <2>8. Cached'
    BY DEF Simple, Shape, Where, InOrder, Cached, Reading, Idle, TurnPlaces, Answered
  <2>9. QED
    BY <2>1, <2>2, <2>3, <2>4, <2>5, <2>6, <2>7, <2>8
<1>24. ASSUME NEW o \in Outcomes, LlmVerify(o)
      PROVE  LoopInvariant'
  <2> USE <1>24 DEF LlmVerify, RetryOrPause
  <2>1. Simple'
    BY DEF Simple, Places
  <2>2. Shape'
    BY DEF Shape, Where, Idle, TurnPlaces
  <2>3. Where'
    BY DEF Shape, Where, Idle, TurnPlaces, Answered
  <2>4. Owing'
    BY DEF Shape, Where, Owing, Idle, TurnPlaces
  <2>5. Counting'
    BY DEF Simple, Shape, Where, Counting, Idle, TurnPlaces
  <2>6. Allowed'
    BY DEF Shape, Where, Allowed, Idle, TurnPlaces, Answered
  <2>7. InOrder'
    BY DEF Shape, Where, InOrder, Idle, TurnPlaces, Answered
  <2>8. Cached'
    BY DEF Simple, Shape, Where, InOrder, Cached, Reading, Idle, TurnPlaces, Answered
  <2>9. QED
    BY <2>1, <2>2, <2>3, <2>4, <2>5, <2>6, <2>7, <2>8
<1>25. ASSUME NEW o \in Outcomes, Review(o)
      PROVE  LoopInvariant'
  <2> USE <1>25 DEF Review, Looked, RetryOrPause
  <2>1. Simple'
    <3>1. vcycles' \in Nat /\ rcycles' \in Nat
      BY DEF Simple
    <3>2. unchecked' \subseteq {"verify", "review"} /\ changed' \in BOOLEAN /\ cache' \in {"none", "fresh", "stale"}
      BY DEF Simple
    <3>3. pc' \in Places /\ ended' \in {"no", "done", "paused", "error", "silent"}
      BY DEF Simple, Places
    <3>4. QED
      BY <3>1, <3>2, <3>3 DEF Simple
  <2>2. Shape'
    BY DEF Shape, Where, Idle, TurnPlaces
  <2>3. Where'
    BY DEF Shape, Where, Idle, TurnPlaces, Answered
  <2>4. Owing'
    BY DEF Shape, Where, Owing, Idle, TurnPlaces
  <2>5. Counting'
    BY DEF Simple, Shape, Where, Counting, Idle, TurnPlaces
  <2>6. Allowed'
    BY DEF Shape, Where, Allowed, Idle, TurnPlaces, Answered
  <2>7. InOrder'
    BY DEF Shape, Where, InOrder, Idle, TurnPlaces, Answered
  <2>8. Cached'
    BY DEF Simple, Shape, Where, InOrder, Cached, Reading, Idle, TurnPlaces, Answered
  <2>9. QED
    BY <2>1, <2>2, <2>3, <2>4, <2>5, <2>6, <2>7, <2>8
<1>26. CASE Done
  <2> USE <1>26 DEF Done, End
  <2>1. Simple'
    BY DEF Simple, Places
  <2>2. Shape'
    BY DEF Shape, Where, Idle, TurnPlaces
  <2>3. Where'
    BY DEF Shape, Where, Idle, TurnPlaces, Answered
  <2>4. Owing'
    BY DEF Shape, Where, Owing, Idle, TurnPlaces
  <2>5. Counting'
    BY DEF Simple, Shape, Where, Counting, Idle, TurnPlaces
  <2>6. Allowed'
    BY DEF Shape, Where, Allowed, Idle, TurnPlaces, Answered
  <2>7. InOrder'
    BY DEF Shape, Where, InOrder, Idle, TurnPlaces, Answered
  <2>8. Cached'
    BY DEF Simple, Shape, Where, InOrder, Cached, Reading, Idle, TurnPlaces, Answered
  <2>9. QED
    BY <2>1, <2>2, <2>3, <2>4, <2>5, <2>6, <2>7, <2>8
<1>99. QED
  BY <1>1, <1>2, <1>3, <1>4, <1>5, <1>6, <1>7, <1>8, <1>9, <1>10, <1>11, <1>12, <1>13, <1>14, <1>15, <1>16, <1>17, <1>18, <1>19, <1>20, <1>21, <1>22, <1>23, <1>24, <1>25, <1>26
    DEF Next, Loop, Human, Gates, Turn

LEMMA NextFrame == Next => profile' = profile /\ approval' = approval
BY DEF Next, Loop, Human

LEMMA LoopInvariantInit == Init => LoopInvariant
<1> SUFFICES ASSUME Init PROVE LoopInvariant
  OBVIOUS
<1> USE DEF Init, callVars, gateVars, NoTurn
<1>1. Simple
  <2>1. MaxSteps \in Nat
    BY ProfilesAssumption DEF Profile, MaxSteps
  <2>2. step \in 0..MaxSteps
    BY <2>1
  <2>3. cancel \in BOOLEAN /\ wrote \in BOOLEAN /\ blocked \in BOOLEAN
    OBVIOUS
  <2>4. vcycles \in Nat /\ rcycles \in Nat /\ unchecked \subseteq {"verify", "review"} /\ changed \in BOOLEAN
    OBVIOUS
  <2>5. pc \in Places /\ cache \in {"none", "fresh", "stale"}
        /\ ended \in {"no", "done", "paused", "error", "silent"}
    BY DEF Places
  <2>6. QED
    BY <2>2, <2>3, <2>4, <2>5 DEF Simple
<1>2. Shape
  <2>1. MaxTurn \in Nat /\ <<>> \in Seq(CallRecord) /\ Len(<<>>) = 0
    BY <1>1, EmptySeq, ProfileFacts
  <2>2. QED
    BY <2>1 DEF Shape
<1>3. Where /\ Allowed /\ InOrder
  <2>1. turn = <<>> /\ Len(<<>>) = 0
    OBVIOUS
  <2>2. QED
    BY <2>1 DEF Where, TurnPlaces, Idle, Allowed, InOrder, Answered
<1>4. Owing /\ Counting
  BY <1>1, ProfileFacts DEF Owing, Counting, TurnPlaces
<1>5. Cached
  BY DEF Cached, Reading
<1>6. QED
  BY <1>1, <1>2, <1>3, <1>4, <1>5 DEF LoopInvariant

LEMMA LoopInvariantAlways == Spec => []LoopInvariant
<1>1. LoopInvariant /\ [Next]_vars => LoopInvariant'
  <2> SUFFICES ASSUME LoopInvariant, [Next]_vars PROVE LoopInvariant'
    OBVIOUS
  <2>1. CASE Next
    <3>1. profile' = profile /\ approval' = approval
      BY <2>1, NextFrame
    <3>2. QED
      BY <2>1, <3>1, LoopInvariantStep
  <2>2. CASE UNCHANGED vars
    BY <2>2, SMTT(40)
       DEF vars, callVars, gateVars, dirty, LoopInvariant, Simple, Shape, Where, Owing, Counting,
                Allowed, InOrder, Cached, Reading, Idle, Answered, Places, TurnPlaces, Kinds, MaxTurn, MaxSteps,
                MaxToolCalls, CallRecord, Approvals, ToolCache, SideWrites
  <2>3. QED
    BY <2>1, <2>2
<1>2. QED
  BY <1>1, LoopInvariantInit, PTL DEF Spec

-----------------------------------------------------------------------------
(* TypeOK and HistoryComplete: whatever was denied, cancelled, lost to a   *)
(* panic or answered from the cache, a request that is sent and a history  *)
(* that is written back hold one result for every call.                    *)
THEOREM EveryCallAnswered == Spec => []CallsAnswered
<1>1. LoopInvariant => TypeOK
  <2> SUFFICES ASSUME LoopInvariant PROVE TypeOK
    OBVIOUS
  <2>1. MaxTurn \in Nat /\ MaxToolCalls \in Nat /\ Len(turn) \in Nat /\ DOMAIN turn = 1..Len(turn)
    BY ProfileFacts, LenProperties DEF LoopInvariant, Shape
  <2>2. at \in 1..(MaxTurn + 1) /\ check \in 1..Len(Checks)
    BY <2>1 DEF LoopInvariant, Shape, Checks
  <2>3. made \in 0..(MaxToolCalls + MaxTurn) /\ owed \in 0..MaxTurn
    <3>1. made \in Nat /\ made <= MaxToolCalls - 1 + MaxTurn /\ owed \in 0..MaxTurn
      BY DEF LoopInvariant, Counting, Owing
    <3>2. QED
      BY <2>1, <3>1
  <2>4. {todo, batch, queue, open} \subseteq SUBSET DOMAIN turn
    BY <2>1 DEF LoopInvariant, Shape
  <2>5. \A i \in DOMAIN turn : turn[i] \in CallRecord
    BY <2>1, ElementOfSeq DEF LoopInvariant, Shape
  <2>6. QED
    BY <2>2, <2>3, <2>4, <2>5 DEF LoopInvariant, Simple, Shape, TypeOK, CallRecord
<1>2. LoopInvariant => HistoryComplete
  BY DEF LoopInvariant, Where, Owing, HistoryComplete, TurnPlaces
<1>3. QED
  BY <1>1, <1>2, LoopInvariantAlways, PTL DEF CallsAnswered

(* Whatever the checks decide, the model asks for and the tools do, calls  *)
(* keep their order around a write, a cached read is current, a refused    *)
(* call is not run, and the call budget is exceeded by less than a turn.   *)
THEOREM SegmentsStaySound == Spec => []SegmentsAreSound
<1>1. LoopInvariant => SegmentsAreSound
  <2> SUFFICES ASSUME LoopInvariant PROVE SegmentsAreSound
    OBVIOUS
  <2>1. Len(turn) \in Nat /\ DOMAIN turn = 1..Len(turn)
    BY LenProperties DEF LoopInvariant, Shape
  <2>2. WritesInOrder
    <3> SUFFICES ASSUME NEW i \in DOMAIN turn, NEW j \in DOMAIN turn, i < j,
                        turn[i].block = "none", "write" \in {turn[i].kind, turn[j].kind},
                        j \in open \/ turn[j].out # "none"
                 PROVE  i \notin open \cup queue \cup todo
      BY DEF WritesInOrder
    <3>1. i \in 1..Len(turn) /\ j \in 1..Len(turn) /\ (j \in batch \/ Answered(j))
      BY <2>1 DEF LoopInvariant, Shape, Answered
    <3>2. i \notin todo
      BY <3>1 DEF LoopInvariant, InOrder
    <3>3. i \notin batch
      BY <3>1 DEF LoopInvariant, InOrder
    <3>4. QED
      BY <3>2, <3>3 DEF LoopInvariant, Shape
  <2>3. CacheFresh
    BY <2>1 DEF LoopInvariant, Cached, CacheFresh
  <2>4. RefusedNeverRuns
    BY <2>1 DEF LoopInvariant, Shape, Allowed, Answered, RefusedNeverRuns
  <2>5. BudgetOvershoot
    BY DEF LoopInvariant, Counting, BudgetOvershoot
  <2>6. QED
    BY <2>2, <2>3, <2>4, <2>5 DEF SegmentsAreSound
<1>2. QED
  BY <1>1, LoopInvariantAlways, PTL

-----------------------------------------------------------------------------
(* The gates. *)

LEMMA GatesConstant ==
  ASSUME profile' = profile
  PROVE  /\ Kinds' = Kinds /\ VerifyCycles' = VerifyCycles /\ ReviewCycles' = ReviewCycles
         /\ QualityHooks' = QualityHooks
BY DEF Kinds, VerifyCycles, ReviewCycles, QualityHooks

LEMMA CallKind ==
  ASSUME Simple, Shape, NEW i \in 1..Len(turn)
  PROVE  turn[i].kind \in Kinds
<1>1. turn[i] \in CallRecord
  BY DEF Shape
<1>2. QED
  BY <1>1 DEF CallRecord

LEMMA EmptyTurn ==
  ASSUME turn = <<>>
  PROVE  ~\E i \in 1..Len(turn) : Unrecorded(i)
OBVIOUS

LEMMA GatesStep ==
  ASSUME LoopInvariant, GatesSee,
         profile' = profile, approval' = approval, Next
  PROVE  GatesSee'
<1> USE GatesConstant DEF LoopInvariant, callVars, gateVars, dirty
<1>0. changed \in BOOLEAN /\ wrote \in BOOLEAN
  BY DEF Simple
<1>1. CASE Cancel
  <2> USE <1>1 DEF Cancel
  <2>1. WritesKnown'
    BY DEF GatesSee, WritesKnown, Unrecorded, Where, Shape, TurnPlaces
  <2>2. VerifySeen'
    BY DEF GatesSee, WritesKnown, Unrecorded, VerifySeen, VerifyLooked, Where, TurnPlaces
  <2>3. ReviewSeen'
    BY DEF GatesSee, WritesKnown, Unrecorded, ReviewSeen, ReviewLooked, Where, TurnPlaces
  <2>4. DoneIsChecked'
    BY DEF GatesSee, DoneIsChecked, VerifySeen, ReviewSeen, VerifyLooked, ReviewLooked,
           Where
  <2>5. QED
    BY <2>1, <2>2, <2>3, <2>4 DEF GatesSee
<1>2. CASE Boundary
  <2> USE <1>2 DEF Boundary, End, OutOfSteps
  <2>1. WritesKnown'
    BY DEF GatesSee, WritesKnown, Unrecorded, Where, Shape, TurnPlaces
  <2>2. VerifySeen'
    BY DEF GatesSee, WritesKnown, Unrecorded, VerifySeen, VerifyLooked, Where, TurnPlaces
  <2>3. ReviewSeen'
    BY DEF GatesSee, WritesKnown, Unrecorded, ReviewSeen, ReviewLooked, Where, TurnPlaces
  <2>4. DoneIsChecked'
    BY DEF GatesSee, DoneIsChecked, VerifySeen, ReviewSeen, VerifyLooked, ReviewLooked,
           Where
  <2>5. QED
    BY <2>1, <2>2, <2>3, <2>4 DEF GatesSee
<1>3. CASE ProviderFails
  <2> USE <1>3 DEF ProviderFails, End
  <2>1. WritesKnown'
    BY DEF GatesSee, WritesKnown, Unrecorded, Where, Shape, TurnPlaces
  <2>2. VerifySeen'
    BY DEF GatesSee, WritesKnown, Unrecorded, VerifySeen, VerifyLooked, Where, TurnPlaces
  <2>3. ReviewSeen'
    BY DEF GatesSee, WritesKnown, Unrecorded, ReviewSeen, ReviewLooked, Where, TurnPlaces
  <2>4. DoneIsChecked'
    BY DEF GatesSee, DoneIsChecked, VerifySeen, ReviewSeen, VerifyLooked, ReviewLooked,
           Where
  <2>5. QED
    BY <2>1, <2>2, <2>3, <2>4 DEF GatesSee
<1>4. CASE Complete
  <2> USE <1>4 DEF Complete
  <2>1. WritesKnown'
    BY DEF GatesSee, WritesKnown, Unrecorded, Where, Shape, TurnPlaces
  <2>2. VerifySeen'
    BY DEF GatesSee, WritesKnown, Unrecorded, VerifySeen, VerifyLooked, Where, TurnPlaces
  <2>3. ReviewSeen'
    BY DEF GatesSee, WritesKnown, Unrecorded, ReviewSeen, ReviewLooked, Where, TurnPlaces
  <2>4. DoneIsChecked'
    BY DEF GatesSee, DoneIsChecked, VerifySeen, ReviewSeen, VerifyLooked, ReviewLooked,
           Where
  <2>5. QED
    BY <2>1, <2>2, <2>3, <2>4 DEF GatesSee
<1>5. CASE NoOutput
  <2> USE <1>5 DEF NoOutput, End, OutOfSteps
  <2>1. WritesKnown'
    BY DEF GatesSee, WritesKnown, Unrecorded, Where, Shape, TurnPlaces
  <2>2. VerifySeen'
    BY DEF GatesSee, WritesKnown, Unrecorded, VerifySeen, VerifyLooked, Where, TurnPlaces
  <2>3. ReviewSeen'
    BY DEF GatesSee, WritesKnown, Unrecorded, ReviewSeen, ReviewLooked, Where, TurnPlaces
  <2>4. DoneIsChecked'
    BY DEF GatesSee, DoneIsChecked, VerifySeen, ReviewSeen, VerifyLooked, ReviewLooked,
           Where
  <2>5. QED
    BY <2>1, <2>2, <2>3, <2>4 DEF GatesSee
<1>6. ASSUME NEW kinds \in Turns, NEW b \in BOOLEAN, ToolCalls(kinds, b)
      PROVE  GatesSee'
  <2>1. /\ pc = "request" /\ pc' = "decide" /\ UNCHANGED <<unchecked, changed, wrote, ended>>
    BY <1>6 DEF ToolCalls
  <2>2. changed => wrote
    BY <2>1 DEF GatesSee, WritesKnown, Where, TurnPlaces
  <2>3. QED
    BY <2>1, <2>2 DEF GatesSee, WritesKnown, VerifySeen, ReviewSeen, DoneIsChecked, Where
<1>7. CASE Skip
  <2>0. /\ pc \in {"decide", "asking"} /\ pc' \in {"decide", "asking"}
        /\ open = {} /\ UNCHANGED <<unchecked, changed, wrote, ended>>
    BY <1>7 DEF Skip, Deciding, decideFrame, Where, Idle
  <2>1. WritesKnown'
    <3>1. changed => wrote
      BY <2>0 DEF GatesSee, WritesKnown, Unrecorded, Where, Answered
    <3>2. QED
      BY <2>0, <3>1 DEF WritesKnown
  <2>2. VerifySeen' /\ ReviewSeen' /\ DoneIsChecked'
    BY <2>0 DEF VerifySeen, ReviewSeen, DoneIsChecked, Where
  <2>3. QED
    BY <2>1, <2>2 DEF GatesSee
<1>8. CASE CheckAllows
  <2>0. /\ pc \in {"decide", "asking"} /\ pc' \in {"decide", "asking"}
        /\ open = {} /\ UNCHANGED <<unchecked, changed, wrote, ended>>
    BY <1>8 DEF CheckAllows, Unblocked, Deciding, Pass, decideFrame, Where, Idle
  <2>1. WritesKnown'
    <3>1. changed => wrote
      BY <2>0 DEF GatesSee, WritesKnown, Unrecorded, Where, Answered
    <3>2. QED
      BY <2>0, <3>1 DEF WritesKnown
  <2>2. VerifySeen' /\ ReviewSeen' /\ DoneIsChecked'
    BY <2>0 DEF VerifySeen, ReviewSeen, DoneIsChecked, Where
  <2>3. QED
    BY <2>1, <2>2 DEF GatesSee
<1>9. CASE CheckDenies
  <2>0. /\ pc \in {"decide", "asking"} /\ pc' \in {"decide", "asking"}
        /\ open = {} /\ UNCHANGED <<unchecked, changed, wrote, ended>>
    BY <1>9 DEF CheckDenies, Unblocked, Deciding, Refuse, decideFrame, Where, Idle
  <2>1. WritesKnown'
    <3>1. changed => wrote
      BY <2>0 DEF GatesSee, WritesKnown, Unrecorded, Where, Answered
    <3>2. QED
      BY <2>0, <3>1 DEF WritesKnown
  <2>2. VerifySeen' /\ ReviewSeen' /\ DoneIsChecked'
    BY <2>0 DEF VerifySeen, ReviewSeen, DoneIsChecked, Where
  <2>3. QED
    BY <2>1, <2>2 DEF GatesSee
<1>10. CASE CheckAsks
  <2>0. /\ pc \in {"decide", "asking"} /\ pc' \in {"decide", "asking"}
        /\ open = {} /\ UNCHANGED <<unchecked, changed, wrote, ended>>
    BY <1>10, ProfilesAssumption DEF Simple, Profile, Approvals, CheckAsks, Unblocked,
                                     Deciding, Pass, Refuse, decideFrame, Where, Idle
  <2>1. WritesKnown'
    <3>1. changed => wrote
      BY <2>0 DEF GatesSee, WritesKnown, Unrecorded, Where, Answered
    <3>2. QED
      BY <2>0, <3>1 DEF WritesKnown
  <2>2. VerifySeen' /\ ReviewSeen' /\ DoneIsChecked'
    BY <2>0 DEF VerifySeen, ReviewSeen, DoneIsChecked, Where
  <2>3. QED
    BY <2>1, <2>2 DEF GatesSee
<1>11. CASE AskCancelled
  <2>0. /\ pc \in {"decide", "asking"} /\ pc' \in {"decide", "asking"}
        /\ open = {} /\ UNCHANGED <<unchecked, changed, wrote, ended>>
    BY <1>11 DEF AskCancelled, Refuse, decideFrame, Where, Idle
  <2>1. WritesKnown'
    <3>1. changed => wrote
      BY <2>0 DEF GatesSee, WritesKnown, Unrecorded, Where, Answered
    <3>2. QED
      BY <2>0, <3>1 DEF WritesKnown
  <2>2. VerifySeen' /\ ReviewSeen' /\ DoneIsChecked'
    BY <2>0 DEF VerifySeen, ReviewSeen, DoneIsChecked, Where
  <2>3. QED
    BY <2>1, <2>2 DEF GatesSee
<1>12. ASSUME NEW yes \in BOOLEAN, Answer(yes)
      PROVE  GatesSee'
  <2>0. /\ pc \in {"decide", "asking"} /\ pc' \in {"decide", "asking"}
        /\ open = {} /\ UNCHANGED <<unchecked, changed, wrote, ended>>
    BY <1>12 DEF Answer, Pass, Refuse, decideFrame, Where, Idle
  <2>1. WritesKnown'
    <3>1. changed => wrote
      BY <2>0 DEF GatesSee, WritesKnown, Unrecorded, Where, Answered
    <3>2. QED
      BY <2>0, <3>1 DEF WritesKnown
  <2>2. VerifySeen' /\ ReviewSeen' /\ DoneIsChecked'
    BY <2>0 DEF VerifySeen, ReviewSeen, DoneIsChecked, Where
  <2>3. QED
    BY <2>1, <2>2 DEF GatesSee
<1>13. CASE Dispatch
  <2> USE <1>13 DEF Dispatch
  <2>1. WritesKnown'
    BY DEF GatesSee, WritesKnown, Unrecorded, Where, Shape, TurnPlaces
  <2>2. VerifySeen'
    BY DEF GatesSee, WritesKnown, Unrecorded, VerifySeen, VerifyLooked, Where, TurnPlaces
  <2>3. ReviewSeen'
    BY DEF GatesSee, WritesKnown, Unrecorded, ReviewSeen, ReviewLooked, Where, TurnPlaces
  <2>4. DoneIsChecked'
    BY DEF GatesSee, DoneIsChecked, VerifySeen, ReviewSeen, VerifyLooked, ReviewLooked,
           Where
  <2>5. QED
    BY <2>1, <2>2, <2>3, <2>4 DEF GatesSee
<1>14. CASE BeginSegment
  <2>0. /\ pc = "segments" /\ pc' = "execute" /\ open = {} /\ UNCHANGED <<unchecked, changed, wrote, ended>>
    BY <1>14 DEF BeginSegment, Where
  <2>1. /\ Len(turn') = Len(turn)
        /\ \A j \in 1..Len(turn) : /\ turn'[j].kind = turn[j].kind
                                   /\ turn[j].out # "none" => turn'[j].out = turn[j].out
    <3>1. cache \in {"none", "fresh", "stale"} /\ todo # {}
      BY <1>14 DEF Simple, BeginSegment
    <3>2. \A j \in Hits(NextSegment) : turn[j].out = "none"
      <4> TAKE j \in Hits(NextSegment)
      <4>1. j \in todo /\ j \in 1..Len(turn) /\ Len(turn) \in Nat
        BY <3>1, SegmentFacts, LenProperties DEF Hits, Shape
      <4>2. QED
        BY <4>1 DEF InOrder, Answered
    <3>3. QED
      BY <1>14, <3>1, <3>2, SegmentTurn
  <2>2. WritesKnown'
    BY <2>0, <2>1 DEF GatesSee, WritesKnown, Unrecorded
  <2>3. VerifySeen' /\ ReviewSeen' /\ DoneIsChecked'
    BY <2>0 DEF VerifySeen, ReviewSeen, DoneIsChecked, Where
  <2>4. QED
    BY <2>2, <2>3 DEF GatesSee
<1>15. CASE EndSegments
  <2> USE <1>15 DEF EndSegments
  <2>1. WritesKnown'
    BY DEF GatesSee, WritesKnown, Unrecorded, Where, Shape, TurnPlaces
  <2>2. VerifySeen'
    BY DEF GatesSee, WritesKnown, Unrecorded, VerifySeen, VerifyLooked, Where, TurnPlaces
  <2>3. ReviewSeen'
    BY DEF GatesSee, WritesKnown, Unrecorded, ReviewSeen, ReviewLooked, Where, TurnPlaces
  <2>4. DoneIsChecked'
    BY DEF GatesSee, DoneIsChecked, VerifySeen, ReviewSeen, VerifyLooked, ReviewLooked,
           Where
  <2>5. QED
    BY <2>1, <2>2, <2>3, <2>4 DEF GatesSee
<1>16. CASE EndSegment
  <2> USE <1>16 DEF EndSegment
  <2>1. WritesKnown'
    BY DEF GatesSee, WritesKnown, Unrecorded, Where, Shape, TurnPlaces
  <2>2. VerifySeen'
    BY DEF GatesSee, WritesKnown, Unrecorded, VerifySeen, VerifyLooked, Where, TurnPlaces
  <2>3. ReviewSeen'
    BY DEF GatesSee, WritesKnown, Unrecorded, ReviewSeen, ReviewLooked, Where, TurnPlaces
  <2>4. DoneIsChecked'
    BY DEF GatesSee, DoneIsChecked, VerifySeen, ReviewSeen, VerifyLooked, ReviewLooked,
           Where
  <2>5. QED
    BY <2>1, <2>2, <2>3, <2>4 DEF GatesSee
<1>17. CASE Record
  <2> USE <1>17 DEF Record, Executed, Declared, Aged
  <2>1. WritesKnown'
    <3>1. /\ pc = "record" /\ pc' = pc /\ turn' = turn /\ open' = open /\ changed' = changed
          /\ at \in 1..Len(turn) /\ at' = at + 1 /\ Len(turn) \in Nat
          /\ wrote' = (wrote \/ (turn[at].out \in {"ok", "error"} /\ turn[at].kind = "write"))
      BY LenProperties DEF Shape
    <3>2. open = {}
      BY <3>1 DEF Where
    <3>3. ASSUME ~wrote', NEW j \in 1..Len(turn), Unrecorded(j)
          PROVE  j # at
      BY <3>1, <3>2, <3>3 DEF Unrecorded
    <3>4. ASSUME ~wrote', changed'
          PROVE  \E j \in 1..Len(turn) : Unrecorded(j)'
      <4>0. pc # "ended" /\ changed /\ ~wrote
        BY <1>0, <3>1, <3>4
      <4>1. PICK j \in 1..Len(turn) : Unrecorded(j)
        BY <4>0, Zenon DEF GatesSee, WritesKnown
      <4>2. at <= j /\ j # at
        BY <3>1, <3>3, <3>4, <4>1 DEF Unrecorded
      <4>3. Unrecorded(j)'
        BY <3>1, <4>1, <4>2 DEF Unrecorded
      <4>4. QED
        BY <4>3
    <3>5. QED
      BY <3>1, <3>4 DEF WritesKnown
  <2>2. VerifySeen'
    BY DEF GatesSee, WritesKnown, Unrecorded, VerifySeen, VerifyLooked, Where, TurnPlaces
  <2>3. ReviewSeen'
    BY DEF GatesSee, WritesKnown, Unrecorded, ReviewSeen, ReviewLooked, Where, TurnPlaces
  <2>4. DoneIsChecked'
    BY DEF GatesSee, DoneIsChecked, VerifySeen, ReviewSeen, VerifyLooked, ReviewLooked,
           Where
  <2>5. QED
    BY <2>1, <2>2, <2>3, <2>4 DEF GatesSee
<1>18. CASE Continue
  <2> USE <1>18 DEF Continue, NoTurn
  <2>1. WritesKnown'
    BY DEF GatesSee, WritesKnown, Unrecorded, Where, Shape, TurnPlaces
  <2>2. VerifySeen'
    BY DEF GatesSee, WritesKnown, Unrecorded, VerifySeen, VerifyLooked, Where, TurnPlaces
  <2>3. ReviewSeen'
    BY DEF GatesSee, WritesKnown, Unrecorded, ReviewSeen, ReviewLooked, Where, TurnPlaces
  <2>4. DoneIsChecked'
    BY DEF GatesSee, DoneIsChecked, VerifySeen, ReviewSeen, VerifyLooked, ReviewLooked,
           Where
  <2>5. QED
    BY <2>1, <2>2, <2>3, <2>4 DEF GatesSee
<1>19. ASSUME NEW i \in DOMAIN turn, Start(i)
      PROVE  GatesSee'
  <2>0. /\ pc = "execute" /\ pc' = pc /\ i \in queue /\ open = {} /\ open' = {i}
        /\ UNCHANGED <<unchecked, changed, wrote, ended>>
    BY <1>19 DEF Start
  <2>1. /\ Len(turn') = Len(turn)
        /\ \A j \in 1..Len(turn) : turn'[j].kind = turn[j].kind /\ turn'[j].out = turn[j].out
    BY <1>19, <2>0, StartTurn
  <2>2. WritesKnown'
    BY <2>0, <2>1 DEF GatesSee, WritesKnown, Unrecorded
  <2>3. VerifySeen' /\ ReviewSeen' /\ DoneIsChecked'
    BY <2>0 DEF VerifySeen, ReviewSeen, DoneIsChecked, Where
  <2>4. QED
    BY <2>2, <2>3 DEF GatesSee
<1>20. ASSUME NEW i \in DOMAIN turn, Retry(i)
      PROVE  GatesSee'
  <2>0. /\ pc = "execute" /\ pc' = pc /\ i \in open /\ i \in 1..Len(turn) /\ open' = open
        /\ turn[i].kind # "write" => changed' = changed
        /\ UNCHANGED <<wrote, ended>>
    BY <1>0, <1>20 DEF Retry, Shape, Changes, Declared
  <2>1. /\ Len(turn') = Len(turn)
        /\ \A j \in 1..Len(turn) : turn'[j].kind = turn[j].kind /\ turn'[j].out = turn[j].out
    BY <1>20, <2>0, RetryTurn
  <2>2. WritesKnown'
    <3>1. CASE turn[i].kind = "write"
      BY <2>0, <2>1, <3>1 DEF WritesKnown, Unrecorded
    <3>2. CASE turn[i].kind # "write"
      BY <2>0, <2>1, <3>2 DEF GatesSee, WritesKnown, Unrecorded
    <3>3. QED
      BY <3>1, <3>2
  <2>3. VerifySeen' /\ ReviewSeen' /\ DoneIsChecked'
    BY <2>0 DEF VerifySeen, ReviewSeen, DoneIsChecked, Where
  <2>4. QED
    BY <2>2, <2>3 DEF GatesSee
<1>21. ASSUME NEW i \in DOMAIN turn, Panic(i)
      PROVE  GatesSee'
  <2>1. CASE End("silent")
    BY <2>1 DEF End, GatesSee, WritesKnown, VerifySeen, ReviewSeen, DoneIsChecked
  <2>2. CASE ~End("silent")
    <3>1. /\ pc = "execute" /\ pc' = pc /\ i \in open /\ open' = open \ {i}
          /\ Cardinality(batch) > 1
          /\ turn[i].kind # "write" => changed' = changed
          /\ UNCHANGED <<wrote, ended>>
      BY <1>0, <1>21, <2>2 DEF Panic, Changes, Declared
    <3>2. turn[i].kind # "write"
      <4>1. i \in batch /\ batch \subseteq 1..Len(turn) /\ Len(turn) \in Nat
        BY <3>1, LenProperties DEF Shape
      <4>2. batch # {i}
        <5>1. Cardinality({i}) = 1
          BY FS_Singleton
        <5>2. QED
          BY <3>1, <5>1
      <4>3. PICK j \in batch : j # i
        BY <4>1, <4>2
      <4>4. QED
        BY <4>1, <4>3 DEF InOrder
    <3>6. /\ Len(turn') = Len(turn)
          /\ \A j \in 1..Len(turn) : turn'[j].kind = turn[j].kind /\ turn'[j].out = turn[j].out
      <4>1. CASE UNCHANGED turn
        BY <4>1
      <4>2. CASE turn[i].kind # "read" /\ Written(turn)
        BY <4>2, WrittenTurn DEF Shape
      <4>3. QED
        BY <1>21, <2>2, <4>1, <4>2 DEF Panic
    <3>3. WritesKnown'
      BY <3>1, <3>2, <3>6 DEF GatesSee, WritesKnown, Unrecorded
    <3>4. VerifySeen' /\ ReviewSeen' /\ DoneIsChecked'
      BY <3>1 DEF VerifySeen, ReviewSeen, DoneIsChecked, Where
    <3>5. QED
      BY <3>3, <3>4 DEF GatesSee
  <2>3. QED
    BY <2>1, <2>2
<1>22. ASSUME NEW i \in DOMAIN turn, NEW o \in {"ok", "error"}, Finish(i, o)
      PROVE  GatesSee'
  <2>0. /\ pc = "execute" /\ pc' = pc /\ i \in open /\ i \in 1..Len(turn) /\ open' = open \ {i}
        /\ turn[i].kind # "write" => changed' = changed
        /\ UNCHANGED <<wrote, ended>>
    BY <1>0, <1>22 DEF Finish, Shape, Changes, Declared
  <2>1. /\ Len(turn') = Len(turn)
        /\ \A j \in 1..Len(turn) : /\ turn'[j].kind = turn[j].kind
                                   /\ turn'[j].out = IF j = i THEN o ELSE turn[j].out
    BY <1>22, <2>0, FinishTurn
  <2>2. WritesKnown'
    <3>1. CASE turn[i].kind = "write"
      BY <2>0, <2>1, <3>1 DEF WritesKnown, Unrecorded
    <3>2. CASE turn[i].kind # "write"
      BY <2>0, <2>1, <3>2 DEF GatesSee, WritesKnown, Unrecorded
    <3>3. QED
      BY <3>1, <3>2
  <2>3. VerifySeen' /\ ReviewSeen' /\ DoneIsChecked'
    BY <2>0 DEF VerifySeen, ReviewSeen, DoneIsChecked, Where
  <2>4. QED
    BY <2>2, <2>3 DEF GatesSee
<1>23. ASSUME NEW o \in Outcomes, Verify(o)
      PROVE  GatesSee'
  <2>2. VerifySeen'
    <3>0. pc = "verify"
      BY <1>23 DEF Verify
    <3>1. changed => wrote
      <4>1. turn = <<>>
        BY <3>0 DEF Where, TurnPlaces
      <4>2. QED
        BY <3>0, <4>1, EmptyTurn, Zenon DEF GatesSee, WritesKnown
    <3>2. CASE VerifyCycles = -1 \/ ~wrote
      BY <1>0, <1>23, <3>0, <3>1, <3>2 DEF Verify, VerifySeen, VerifyLooked
    <3>3. CASE ~(VerifyCycles = -1 \/ ~wrote)
      <4>1. unchecked' = unchecked \ {"verify"}
        BY <1>23, <3>3 DEF Verify, Looked
      <4>2. QED
        BY <4>1 DEF VerifySeen, VerifyLooked
    <3>4. QED
      BY <3>2, <3>3
  <2> USE <1>23 DEF Verify, Looked, RetryOrPause, Aged
  <2>1. WritesKnown'
    BY DEF GatesSee, WritesKnown, Unrecorded, Where, Shape, TurnPlaces
  <2>3. ReviewSeen'
    BY DEF GatesSee, WritesKnown, Unrecorded, ReviewSeen, ReviewLooked, Where, TurnPlaces
  <2>4. DoneIsChecked'
    BY DEF GatesSee, DoneIsChecked, VerifySeen, ReviewSeen, VerifyLooked, ReviewLooked,
           Where
  <2>5. QED
    BY <2>1, <2>2, <2>3, <2>4 DEF GatesSee
<1>24. ASSUME NEW o \in Outcomes, LlmVerify(o)
      PROVE  GatesSee'
  <2> USE <1>24 DEF LlmVerify, RetryOrPause
  <2>1. WritesKnown'
    BY DEF GatesSee, WritesKnown, Unrecorded, Where, Shape, TurnPlaces
  <2>2. VerifySeen'
    BY DEF GatesSee, WritesKnown, Unrecorded, VerifySeen, VerifyLooked, Where, TurnPlaces
  <2>3. ReviewSeen'
    BY DEF GatesSee, WritesKnown, Unrecorded, ReviewSeen, ReviewLooked, Where, TurnPlaces
  <2>4. DoneIsChecked'
    BY DEF GatesSee, DoneIsChecked, VerifySeen, ReviewSeen, VerifyLooked, ReviewLooked,
           Where
  <2>5. QED
    BY <2>1, <2>2, <2>3, <2>4 DEF GatesSee
<1>25. ASSUME NEW o \in Outcomes, Review(o)
      PROVE  GatesSee'
  <2>3. ReviewSeen'
    <3>0. pc = "review"
      BY <1>25 DEF Review
    <3>1. changed => wrote
      <4>1. turn = <<>>
        BY <3>0 DEF Where, TurnPlaces
      <4>2. QED
        BY <3>0, <4>1, EmptyTurn, Zenon DEF GatesSee, WritesKnown
    <3>2. CASE ReviewCycles = -1 \/ ~wrote \/ (QualityHooks /\ ~blocked)
      <4>1. unchecked' = unchecked /\ changed' = changed /\ blocked' = blocked
        BY <1>25, <3>2 DEF Review
      <4>2. ReviewCycles' = ReviewCycles /\ QualityHooks' = QualityHooks
        OBVIOUS
      <4>3. ASSUME changed', ReviewCycles' # -1, QualityHooks' => blocked'
            PROVE  FALSE
        <5>1. ReviewCycles # -1 /\ wrote /\ (QualityHooks => blocked)
          BY <3>1, <4>1, <4>2, <4>3, Zenon
        <5>2. QED
          BY <3>2, <5>1
      <4>4. QED
        BY <4>3, Zenon DEF ReviewSeen, ReviewLooked
    <3>3. CASE ~(ReviewCycles = -1 \/ ~wrote \/ (QualityHooks /\ ~blocked))
      <4>1. unchecked' = unchecked \ {"review"}
        BY <1>25, <3>3 DEF Review, Looked
      <4>2. QED
        BY <4>1 DEF ReviewSeen, ReviewLooked
    <3>4. QED
      BY <3>2, <3>3
  <2> USE <1>25 DEF Review, Looked, RetryOrPause
  <2>1. WritesKnown'
    BY DEF GatesSee, WritesKnown, Unrecorded, Where, Shape, TurnPlaces
  <2>2. VerifySeen'
    BY DEF GatesSee, WritesKnown, Unrecorded, VerifySeen, VerifyLooked, Where, TurnPlaces
  <2>4. DoneIsChecked'
    BY DEF GatesSee, DoneIsChecked, VerifySeen, ReviewSeen, VerifyLooked, ReviewLooked,
           Where
  <2>5. QED
    BY <2>1, <2>2, <2>3, <2>4 DEF GatesSee
<1>26. CASE Done
  <2> USE <1>26 DEF Done, End
  <2>1. WritesKnown'
    BY DEF GatesSee, WritesKnown, Unrecorded, Where, Shape, TurnPlaces
  <2>2. VerifySeen'
    BY DEF GatesSee, WritesKnown, Unrecorded, VerifySeen, VerifyLooked, Where, TurnPlaces
  <2>3. ReviewSeen'
    BY DEF GatesSee, WritesKnown, Unrecorded, ReviewSeen, ReviewLooked, Where, TurnPlaces
  <2>4. DoneIsChecked'
    BY DEF GatesSee, DoneIsChecked, VerifySeen, ReviewSeen, VerifyLooked, ReviewLooked,
           Where
  <2>5. QED
    BY <2>1, <2>2, <2>3, <2>4 DEF GatesSee
<1>99. QED
  BY <1>1, <1>2, <1>3, <1>4, <1>5, <1>6, <1>7, <1>8, <1>9, <1>10, <1>11, <1>12, <1>13, <1>14, <1>15, <1>16, <1>17, <1>18, <1>19, <1>20, <1>21, <1>22, <1>23, <1>24, <1>25, <1>26
    DEF Next, Loop, Human, Gates, Turn

LEMMA GatesSeeAlways == Spec => []GatesSee
<1>1. Init => GatesSee
  BY DEF Init, GatesSee, WritesKnown, VerifySeen, ReviewSeen, DoneIsChecked
<1>2. LoopInvariant /\ GatesSee /\ [Next]_vars => GatesSee'
  <2> SUFFICES ASSUME LoopInvariant, GatesSee, [Next]_vars PROVE GatesSee'
    OBVIOUS
  <2>1. CASE Next
    <3>1. profile' = profile /\ approval' = approval
      BY <2>1, NextFrame
    <3>2. QED
      BY <2>1, <3>1, GatesStep
  <2>2. CASE UNCHANGED vars
    BY <2>2 DEF vars, callVars, gateVars, dirty, GatesSee, WritesKnown, Unrecorded, VerifySeen,
                ReviewSeen, VerifyLooked, ReviewLooked, DoneIsChecked, VerifyCycles, ReviewCycles,
                QualityHooks
  <2>3. QED
    BY <2>1, <2>2
<1>3. QED
  BY <1>1, <1>2, LoopInvariantAlways, PTL DEF Spec

(* However often gates send the loop back, calls are retried, fail or      *)
(* panic, and whatever delegates do beside it: once a tool that declares   *)
(* that it writes has been executed, a run that is not cancelled says Done *)
(* only when each configured gate has looked at the files after the last   *)
(* change any tool made to them.                                           *)
THEOREM DoneMeansChecked == Spec => []DoneIsChecked
<1>1. GatesSee => DoneIsChecked
  BY DEF GatesSee
<1>2. QED
  BY <1>1, GatesSeeAlways, PTL

-----------------------------------------------------------------------------
(* The messages and the protocol gates only add to the steps of the loop. *)
LEMMA GatedImpliesSpec == GatedSpec => Spec
<1>1. GatedInit => Init
  BY DEF GatedInit, RunInit
<1>2. [GatedNext]_gatedVars => [Next]_vars
  BY DEF GatedNext, gatedVars, runVars
<1>3. QED
  BY <1>1, <1>2, PTL DEF GatedSpec, Spec

(* The same of a run with its messages and under the protocol gates. *)
COROLLARY GatedRunsAreSound == GatedSpec => [](CallsAnswered /\ SegmentsAreSound)
BY GatedImpliesSpec, EveryCallAnswered, SegmentsStaySound, PTL


-----------------------------------------------------------------------------
(* The members of a sequence that are picked by their indices. *)

Picks(rs, S, f) ==
  /\ DOMAIN f = 0..Len(rs) /\ f[0] = <<>>
  /\ \A i \in 1..Len(rs) : f[i] = IF i \in S THEN Append(f[i - 1], rs[i]) ELSE f[i - 1]

(* Picking can be done one member at a time. *)
LEMMA PickedEquation ==
  ASSUME NEW T, NEW rs \in Seq(T), NEW S
  PROVE  \E f : /\ Picks(rs, S, f) /\ Picked(rs, S) = f[Len(rs)]
                /\ \A i \in 0..Len(rs) : f[i] \in Seq(T)
<1> DEFINE n == Len(rs)
           Next1(f, i) == IF i \in S THEN Append(f[i - 1], rs[i]) ELSE f[i - 1]
           Good(m, f) == /\ f \in [0..m -> Seq(T)] /\ f[0] = <<>>
                         /\ \A i \in 1..m : f[i] = Next1(f, i)
           F(f) == [i \in 0..n |-> IF i = 0 THEN <<>> ELSE Next1(f, i)]
           bad == {m \in 0..n : ~\E f : Good(m, f)}
<1>1. n \in Nat /\ <<>> \in Seq(T)
  OBVIOUS
<1>2. bad = {}
  <2> SUFFICES ASSUME bad # {} PROVE FALSE
    OBVIOUS
  <2>1. PICK m \in bad : \A b \in bad : m <= b
    <3> HIDE DEF Good, n
    <3>1. bad \in SUBSET Nat
      BY <1>1
    <3>2. QED
      BY <3>1, LeastExists
  <2>2. CASE m = 0
    <3>1. Good(0, [k \in 0..0 |-> <<>>])
      BY <1>1
    <3>2. QED
      BY <2>1, <2>2, <3>1
  <2>3. CASE m # 0
    <3>1. m \in 1..n /\ m - 1 \in Nat /\ m - 1 \in 0..n /\ m - 1 \notin bad
      <4> HIDE DEF Good, n
      <4>1. QED
        BY <1>1, <2>1, <2>3
    <3>2. PICK f : Good(m - 1, f)
      <4> HIDE DEF Good, n
      <4>1. QED
        BY <3>1
    <3> DEFINE g == [k \in 0..m |-> IF k = m THEN Next1(f, m) ELSE f[k]]
    <3>3. \A k \in 0..(m - 1) : g[k] = f[k] /\ f[k] \in Seq(T)
      <4> HIDE DEF Next1, n
      <4>1. QED
        BY <1>1, <3>1, <3>2
    <3>4. g[m] = Next1(f, m) /\ Next1(f, m) \in Seq(T)
      <4>1. m \in 0..m /\ m - 1 \in 0..(m - 1) /\ rs[m] \in T
        BY <1>1, <3>1
      <4>2. f[m - 1] \in Seq(T)
        BY <3>3, <4>1
      <4>3. QED
        BY <4>1, <4>2
    <3>5. g \in [0..m -> Seq(T)]
      <4> HIDE DEF Next1, n
      <4>1. \A k \in 0..m : k = m \/ k \in 0..(m - 1)
        BY <1>1, <3>1
      <4>2. \A k \in 0..m : (IF k = m THEN Next1(f, m) ELSE f[k]) \in Seq(T)
        BY <3>3, <3>4, <4>1
      <4>3. QED
        BY <4>2
    <3>6. \A k \in 1..m : g[k] = Next1(g, k)
      <4> SUFFICES ASSUME NEW k \in 1..m PROVE g[k] = Next1(g, k)
        OBVIOUS
      <4>1. k - 1 \in 0..(m - 1) /\ g[k - 1] = f[k - 1]
        <5> HIDE DEF g, n
        <5>1. QED
          BY <1>1, <3>1, <3>3
      <4>2. CASE k = m
        <5> HIDE DEF g
        <5>1. QED
          BY <3>4, <4>1, <4>2
      <4>3. CASE k # m
        <5>1. k \in 1..(m - 1) /\ k \in 0..(m - 1)
          BY <1>1, <3>1, <4>3
        <5>2. f[k] = Next1(f, k)
          BY <3>2, <5>1
        <5> HIDE DEF g
        <5>3. QED
          BY <3>3, <4>1, <5>1, <5>2
      <4>4. QED
        BY <4>2, <4>3
    <3>7. g[0] = <<>>
      <4> HIDE DEF n
      <4>1. 0 \in 0..(m - 1)
        BY <1>1, <3>1
      <4>2. f[0] = <<>>
        BY <3>2
      <4> HIDE DEF g
      <4>3. QED
        BY <3>3, <4>1, <4>2
    <3> HIDE DEF g
    <3>8. Good(m, g)
      BY <3>5, <3>6, <3>7
    <3> HIDE DEF Good
    <3>9. QED
      BY <2>1, <3>8
  <2>4. QED
    BY <2>2, <2>3
<1>3. PICK f : Good(n, f)
  <2> HIDE DEF Good, n
  <2>1. n \in 0..n
    BY <1>1
  <2>2. n \notin bad
    BY <1>2
  <2>3. QED
    BY <2>1, <2>2
<1>4. f = F(f)
  <2> HIDE DEF n
  <2>1. \A k \in 0..n : f[k] = F(f)[k]
    <3> HIDE DEF Next1
    <3>1. \A k \in 0..n : k = 0 \/ k \in 1..n
      BY <1>1
    <3>2. QED
      BY <1>3, <3>1
  <2> HIDE DEF Next1
  <2>2. QED
    BY <1>3, <2>1
<1> DEFINE g == CHOOSE h : h = F(h)
<1>5. Picked(rs, S) = g[n]
  BY DEF Picked
<1>6. g = F(g)
  <2> HIDE DEF F
  <2>1. QED
    BY <1>4
<1> HIDE DEF g
<1>7. g = f
  <2> DEFINE apart == {k \in 0..n : g[k] # f[k]}
  <2>1. ASSUME NEW k \in 0..n
        PROVE  /\ g[k] = IF k = 0 THEN <<>> ELSE Next1(g, k)
               /\ f[k] = IF k = 0 THEN <<>> ELSE Next1(f, k)
    <3> HIDE DEF n, Next1
    <3>1. QED
      BY <1>4, <1>6
  <2>2. apart = {}
    <3> SUFFICES ASSUME apart # {} PROVE FALSE
      OBVIOUS
    <3>1. apart \in SUBSET Nat
      BY <1>1
    <3>2. PICK k \in apart : \A m \in apart : k <= m
      BY <3>1, LeastExists
    <3>3. k \in 0..n /\ g[k] # f[k]
      OBVIOUS
    <3>4. k # 0
      BY <2>1, <3>3
    <3> HIDE DEF n
    <3>5. k - 1 \in 0..n /\ k - 1 \notin apart
      BY <1>1, <3>2, <3>3, <3>4
    <3>6. g[k - 1] = f[k - 1]
      BY <3>5
    <3>7. QED
      BY <2>1, <3>3, <3>4, <3>6
  <2>3. g = [k \in 0..n |-> g[k]] /\ f = [k \in 0..n |-> f[k]]
    <3> HIDE DEF n, Next1
    <3>1. QED
      BY <1>4, <1>6
  <2> HIDE DEF n
  <2>4. QED
    BY <2>2, <2>3
<1>8. Picks(rs, S, f)
  <2> HIDE DEF Next1
  <2>1. DOMAIN f = 0..n /\ f[0] = <<>> /\ \A i \in 1..n : f[i] = Next1(f, i)
    BY <1>3
  <2>2. QED
    BY <2>1 DEF Picks, Next1
<1>9. QED
  <2> HIDE DEF Next1
  <2>1. \A i \in 0..n : f[i] \in Seq(T)
    BY <1>3
  <2>2. QED
    BY <1>5, <1>7, <1>8, <2>1

(* Two ways to pick the same members are one. *)
LEMMA PicksAreOne ==
  ASSUME NEW T, NEW rs \in Seq(T), NEW S, NEW f, Picks(rs, S, f)
  PROVE  Picked(rs, S) = f[Len(rs)]
<1>1. PICK g : Picks(rs, S, g) /\ Picked(rs, S) = g[Len(rs)]
  BY PickedEquation
<1> DEFINE apart == {k \in 0..Len(rs) : g[k] # f[k]}
<1>2. apart = {}
  <2> SUFFICES ASSUME apart # {} PROVE FALSE
    OBVIOUS
  <2>1. apart \in SUBSET Nat /\ Len(rs) \in Nat
    OBVIOUS
  <2>2. PICK k \in apart : \A m \in apart : k <= m
    BY <2>1, LeastExists
  <2>3. k \in 0..Len(rs) /\ g[k] # f[k]
    OBVIOUS
  <2>4. k # 0
    BY <1>1, <2>3 DEF Picks
  <2>5. k - 1 \in 0..Len(rs) /\ k - 1 \notin apart /\ k \in 1..Len(rs)
    BY <2>1, <2>2, <2>3, <2>4
  <2>6. g[k - 1] = f[k - 1]
    BY <2>5
  <2>7. QED
    BY <1>1, <2>3, <2>5, <2>6 DEF Picks
<1>3. QED
  BY <1>1, <1>2

(* What one more member does to what is picked. *)
LEMMA PickedAppend ==
  ASSUME NEW T, NEW rs \in Seq(T), NEW e \in T, NEW S, NEW R,
         \A i \in 1..Len(rs) : i \in R <=> i \in S
  PROVE  /\ Picked(rs, S) \in Seq(T)
         /\ Picked(Append(rs, e), R) = IF Len(rs) + 1 \in R THEN Append(Picked(rs, S), e)
                                       ELSE Picked(rs, S)
<1> DEFINE n == Len(rs)
           more == Append(rs, e)
<1>1. PICK f : /\ Picks(rs, S, f) /\ Picked(rs, S) = f[n]
               /\ \A i \in 0..n : f[i] \in Seq(T)
  BY PickedEquation
<1>2. /\ n \in Nat /\ more \in Seq(T) /\ Len(more) = n + 1 /\ more[n + 1] = e
      /\ \A i \in 1..n : more[i] = rs[i]
  OBVIOUS
<1> DEFINE last1 == IF n + 1 \in R THEN Append(f[n], e) ELSE f[n]
           g == [k \in 0..(n + 1) |-> IF k = n + 1 THEN last1 ELSE f[k]]
<1> HIDE DEF n, more, last1
<1>3. g[n + 1] = last1 /\ \A k \in 0..n : g[k] = f[k]
  BY <1>2
<1>4. DOMAIN g = 0..(n + 1)
  OBVIOUS
<1> HIDE DEF g
<1>5. \A i \in 1..(n + 1) : g[i] = IF i \in R THEN Append(g[i - 1], more[i]) ELSE g[i - 1]
  <2> SUFFICES ASSUME NEW i \in 1..(n + 1)
               PROVE  g[i] = IF i \in R THEN Append(g[i - 1], more[i]) ELSE g[i - 1]
    OBVIOUS
  <2>1. i - 1 \in 0..n /\ g[i - 1] = f[i - 1]
    BY <1>2, <1>3
  <2>2. CASE i = n + 1
    <3>1. i - 1 = n
      BY <1>2, <2>2
    <3>2. QED
      BY <1>2, <1>3, <2>1, <2>2, <3>1 DEF last1
  <2>3. CASE i # n + 1
    <3>1. i \in 1..n /\ i \in 0..n
      BY <1>2, <2>3
    <3>2. f[i] = IF i \in S THEN Append(f[i - 1], rs[i]) ELSE f[i - 1]
      BY <1>1, <3>1 DEF Picks, n
    <3>3. i \in R <=> i \in S
      BY <3>1 DEF n
    <3>4. QED
      BY <1>2, <1>3, <2>1, <3>1, <3>2, <3>3
  <2>4. QED
    BY <2>2, <2>3
<1>6. g[0] = <<>>
  BY <1>1, <1>2, <1>3 DEF Picks
<1>7. Picks(more, R, g)
  BY <1>2, <1>4, <1>5, <1>6 DEF Picks
<1>8. Picked(more, R) = g[n + 1]
  BY <1>2, <1>7, PicksAreOne
<1>9. n \in 0..n
  BY <1>2
<1>10. QED
  BY <1>1, <1>3, <1>8, <1>9 DEF last1, n, more

-----------------------------------------------------------------------------
(* Drifts. *)

ResultRecord == [family : Families, ok : BOOLEAN, turn : Nat]

(* A sequence of results ends with a streak of k failures. *)
EndsWith(s, k) ==
  /\ k \in 0..Len(s)
  /\ \A j \in (Len(s) - k + 1)..Len(s) : ~s[j].ok
  /\ k < Len(s) => s[Len(s) - k].ok

LEMMA FailingIsStreak ==
  ASSUME NEW s \in Seq(ResultRecord), NEW k, EndsWith(s, k)
  PROVE  Failing(s, Len(s)) <=> k >= DriftThreshold
<1>1. Len(s) \in Nat /\ k \in Nat /\ k <= Len(s) /\ DriftThreshold \in Nat \ {0}
  BY GatesAssumption DEF EndsWith
<1>2. CASE k >= DriftThreshold
  <2>1. Len(s) >= DriftThreshold
    BY <1>1, <1>2
  <2>2. \A j \in (Len(s) - DriftThreshold + 1)..Len(s) : j \in (Len(s) - k + 1)..Len(s)
    BY <1>1, <1>2
  <2>3. QED
    BY <1>2, <2>1, <2>2 DEF Failing, EndsWith
<1>3. CASE k < DriftThreshold /\ Len(s) >= DriftThreshold
  <2>1. k < Len(s) /\ Len(s) - k \in (Len(s) - DriftThreshold + 1)..Len(s)
    BY <1>1, <1>3
  <2>2. QED
    BY <1>1, <1>3, <2>1 DEF Failing, EndsWith
<1>4. CASE Len(s) < DriftThreshold
  BY <1>1, <1>4 DEF Failing
<1>5. QED
  BY <1>1, <1>2, <1>3, <1>4

(* One more result: the streak goes on or is over, and the threshold is    *)
(* crossed when the streak is just that long.                              *)
LEMMA CrossingsGrow ==
  ASSUME NEW s \in Seq(ResultRecord), NEW e \in ResultRecord, NEW k, EndsWith(s, k),
         NEW l, l = IF e.ok THEN 0 ELSE k + 1
  PROVE  /\ EndsWith(Append(s, e), l)
         /\ Len(s) + 1 \notin Crossings(s)
         /\ Crossings(Append(s, e)) =
              Crossings(s) \cup (IF l = DriftThreshold THEN {Len(s) + 1} ELSE {})
<1> DEFINE n == Len(s)
           t == Append(s, e)
<1>1. /\ n \in Nat /\ Len(t) = n + 1 /\ t[n + 1] = e /\ t \in Seq(ResultRecord)
      /\ \A i \in 1..n : t[i] = s[i]
      /\ DOMAIN s = 1..n /\ DOMAIN t = 1..(n + 1)
  OBVIOUS
<1>2. DriftThreshold \in Nat \ {0} /\ k \in Nat /\ k <= n
  BY GatesAssumption DEF EndsWith
<1>3. (\A j \in (n - k + 1)..n : ~s[j].ok) /\ (k < n => s[n - k].ok)
  BY DEF EndsWith
<1> HIDE DEF n, t
<1>4. EndsWith(t, l)
  <2>1. CASE e.ok
    BY <1>1, <1>2, <2>1 DEF EndsWith
  <2>2. CASE ~e.ok
    <3>1. l = k + 1 /\ l \in 0..Len(t) /\ Len(t) - l = n - k
      BY <1>1, <1>2, <2>2
    <3>2. ASSUME NEW j \in (n - k + 1)..(n + 1) PROVE ~t[j].ok
      <4>1. CASE j = n + 1
        BY <1>1, <2>2, <4>1
      <4>2. CASE j # n + 1
        <5>1. j \in (n - k + 1)..n /\ j \in 1..n
          BY <1>1, <1>2, <4>2
        <5>2. QED
          BY <1>1, <1>3, <5>1
      <4>3. QED
        BY <4>1, <4>2
    <3>3. k < n => t[n - k].ok
      <4>1. k < n => n - k \in 1..n
        BY <1>1, <1>2
      <4>2. QED
        BY <1>1, <1>3, <4>1
    <3>4. QED
      BY <1>1, <1>2, <3>1, <3>2, <3>3 DEF EndsWith
  <2>3. QED
    BY <2>1, <2>2
<1>5. n + 1 \notin Crossings(s)
  BY <1>1 DEF Crossings
<1>6. ASSUME NEW i \in 1..n
      PROVE  i \in Crossings(t) <=> i \in Crossings(s)
  <2>1. Failing(t, i) <=> Failing(s, i)
    <3>1. CASE i >= DriftThreshold
      <4>1. \A j \in (i - DriftThreshold + 1)..i : j \in 1..n
        BY <1>1, <1>2, <3>1
      <4>2. \A j \in (i - DriftThreshold + 1)..i : t[j] = s[j]
        BY <1>1, <4>1
      <4>3. QED
        BY <4>2 DEF Failing
    <3>2. CASE ~(i >= DriftThreshold)
      BY <3>2 DEF Failing
    <3>3. QED
      BY <3>1, <3>2
  <2>2. Failing(s, i) /\ i # DriftThreshold => i - DriftThreshold \in 1..n
    BY <1>1, <1>2 DEF Failing
  <2>3. QED
    BY <1>1, <2>1, <2>2 DEF Crossings
<1>7. n + 1 \in Crossings(t) <=> l = DriftThreshold
  <2>1. Failing(t, n + 1) <=> l >= DriftThreshold
    BY <1>1, <1>4, FailingIsStreak
  <2>2. n + 1 \in Crossings(t) <=>
          l >= DriftThreshold /\ (n + 1 = DriftThreshold \/ t[n + 1 - DriftThreshold].ok)
    <3>1. n + 1 \in DOMAIN t
      BY <1>1
    <3>2. \A i \in DOMAIN t :
            i \in Crossings(t) <=> Failing(t, i) /\ (i = DriftThreshold \/ t[i - DriftThreshold].ok)
      BY DEF Crossings
    <3>3. QED
      BY <1>1, <1>2, <2>1, <3>1, <3>2
  <2>3. l \in 0..(n + 1) /\ (l < n + 1 => t[n + 1 - l].ok)
        /\ \A j \in (n + 1 - l + 1)..(n + 1) : ~t[j].ok
    BY <1>1, <1>4 DEF EndsWith
  <2>4. CASE l = DriftThreshold
    BY <1>1, <1>2, <2>2, <2>3, <2>4
  <2>5. CASE l > DriftThreshold
    <3>1. n + 1 # DriftThreshold /\ n + 1 - DriftThreshold \in (n + 1 - l + 1)..(n + 1)
      BY <1>1, <1>2, <2>3, <2>5
    <3>2. QED
      BY <1>2, <2>2, <2>3, <2>5, <3>1
  <2>6. CASE l < DriftThreshold
    BY <1>2, <2>2, <2>3, <2>6
  <2>7. QED
    BY <1>2, <2>3, <2>4, <2>5, <2>6
<1>8. Crossings(s) \subseteq 1..n /\ Crossings(t) \subseteq 1..(n + 1)
  BY <1>1 DEF Crossings
<1>9. Crossings(t) = Crossings(s) \cup (IF l = DriftThreshold THEN {n + 1} ELSE {})
  <2>1. \A i \in 1..(n + 1) : i \in 1..n \/ i = n + 1
    BY <1>1
  <2>2. QED
    BY <1>5, <1>6, <1>7, <1>8, <2>1
<1>10. QED
  BY <1>4, <1>5, <1>9 DEF n, t

LEMMA CrossingsCounted ==
  ASSUME NEW s \in Seq(ResultRecord), NEW e \in ResultRecord, NEW k, EndsWith(s, k),
         NEW l, l = IF e.ok THEN 0 ELSE k + 1
  PROVE  Cardinality(Crossings(Append(s, e))) = Cardinality(Crossings(s)) + Count(l = DriftThreshold)
<1>1. IsFiniteSet(Crossings(s))
  <2>1. Crossings(s) \subseteq 1..Len(s) /\ IsFiniteSet(1..Len(s))
    BY FS_Interval DEF Crossings
  <2>2. QED
    BY <2>1, FS_Subset
<1>2. Cardinality(Crossings(s)) \in Nat
  BY <1>1, FS_CardinalityType
<1>3. CASE l = DriftThreshold
  <2>1. Crossings(Append(s, e)) = Crossings(s) \cup {Len(s) + 1} /\ Len(s) + 1 \notin Crossings(s)
    BY <1>3, CrossingsGrow
  <2>2. QED
    BY <1>1, <1>3, <2>1, FS_AddElement DEF Count
<1>4. CASE l # DriftThreshold
  <2>1. Crossings(Append(s, e)) = Crossings(s) \cup {}
    BY <1>4, CrossingsGrow
  <2>2. QED
    BY <1>2, <1>4, <2>1 DEF Count
<1>5. QED
  BY <1>3, <1>4

-----------------------------------------------------------------------------
(* The inductive invariant of a run under the gates. *)

Runner ==
  [transitions : Nat, violations : Nat, passed : Nat, failed : Nat, calls : Nat,
   streak : [Families -> Nat], reported : [Families -> Nat], planText : BOOLEAN, lesson : BOOLEAN]

RunnerKnown ==
  /\ runner \in Runner /\ levels \in Levels /\ results \in Seq(ResultRecord)
  /\ ~IsGated => results = <<>>

(* The runner's streak of a tool is the one its results end with. *)
DriftsKnown ==
  On("drift") => \A f \in Families :
    /\ EndsWith(Of(f, results), runner.streak[f])
    /\ runner.reported[f] = Cardinality(Crossings(Of(f, results)))

TurnsKnown ==
  \A i \in 1..Len(results) : results[i].turn <= step /\ (pc = "request" => results[i].turn < step)

(* After the turns before turn n no tool was in a streak of failures. *)
EarlierOf(rs, f, n) ==
  LET earlier == {j \in DOMAIN rs : rs[j].turn < n} IN {j \in earlier : rs[j].family = f}
Clear(rs, n) ==
  \A f \in Families :
    LET before == Picked(rs, EarlierOf(rs, f, n)) IN ~Failing(before, Len(before))

(* A turn that a hard gate let begin found no streak before it. *)
Barred == \A i \in 1..Len(turn) : turn[i].block = "blocked"
TurnIsClear ==
  IsGated /\ levels.drift = "hard" /\ pc \in TurnPlaces => Barred \/ Clear(results, step)
ResultsAreClear ==
  levels.drift = "hard" => \A i \in 1..Len(results) : Clear(results, results[i].turn)

(* What the commands decided about the text that is on its way to Done. *)
Evidence == decided => last = "passed" /\ runner.passed # 0
EvidenceKnown ==
  IsGated /\ Configured /\ (pc = "llm" \/ (wrote /\ pc \in {"review", "done"})) => Evidence

PhasesInvariant ==
  /\ RunnerKnown /\ DriftsKnown /\ TurnsKnown /\ TurnIsClear /\ ResultsAreClear
  /\ EvidenceKnown /\ EvidenceIsLatest

-----------------------------------------------------------------------------
(* What a step of the loop may do that the gates take part in. *)

WalkOfPlaces ==
  /\ pc # "ended"
  /\ step' = step \/ (pc = "boundary" /\ pc' = "request" /\ step' = step + 1)
  /\ pc' = "request" => pc = "request" \/ (pc = "boundary" /\ step' = step + 1)
  /\ wrote' = wrote \/ pc = "record"
  /\ pc = "record" => pc' \in {"record", "boundary"}
  /\ pc' = "llm" => pc \in {"llm", "verify"}
  /\ pc' = "review" => pc \in {"review", "llm"} \/ (pc = "verify" /\ (~Configured \/ ~wrote))
  /\ pc' = "done" => pc \in {"done", "review"}
  /\ ended' = "done" /\ ~cancel' => pc = "done" /\ pc' = "ended" /\ ~cancel
  /\ ended' = "done" => pc' = "ended"
  /\ pc' \in TurnPlaces => pc \in TurnPlaces \/ (pc = "request" /\ pc' = "decide")

WalkOfTurn ==
  /\ pc \in TurnPlaces /\ pc' \in TurnPlaces =>
       /\ Len(turn') = Len(turn)
       /\ \A i \in 1..Len(turn) : turn[i].block = "blocked" => turn'[i].block = "blocked"
  /\ pc = "request" /\ pc' = "decide" =>
       \E b \in BOOLEAN : \A i \in 1..Len(turn') :
         turn'[i].vetoed = b /\ (b => turn'[i].block = "blocked")
  /\ pc = "request" /\ pc' = "decide" => 1 \in 1..Len(turn')

LEMMA LoopWalksPlaces ==
  ASSUME LoopInvariant, Next
  PROVE  WalkOfPlaces
<1> USE DEF LoopInvariant, callVars, gateVars, WalkOfPlaces, TurnPlaces, Configured
<1>0. (pc = "ended" <=> ended # "no") /\ cancel \in BOOLEAN
  BY DEF Where, Simple
<1>12. approval \in {"human", "deny", "allow"}
  BY ProfilesAssumption DEF Simple, Approvals, Profile
<1>1. CASE Cancel
  BY <1>0, <1>1 DEF Cancel
<1>2. CASE Boundary
  BY <1>0, <1>2 DEF Boundary, End, OutOfSteps
<1>3. CASE ProviderFails \/ Complete \/ NoOutput \/ Done
  BY <1>0, <1>3 DEF ProviderFails, Complete, NoOutput, Done, End, OutOfSteps
<1>4. CASE \E kinds \in Turns, block \in BOOLEAN : ToolCalls(kinds, block)
  BY <1>0, <1>4 DEF ToolCalls
<1>5. CASE Skip \/ CheckAllows \/ CheckDenies \/ CheckAsks \/ AskCancelled
           \/ \E yes \in BOOLEAN : Answer(yes)
  <2>1. /\ pc \in {"decide", "asking"} /\ pc' \in {"decide", "asking"}
        /\ UNCHANGED <<step, wrote, cancel, ended>>
    BY <1>5, <1>12 DEF Skip, CheckAllows, CheckDenies, CheckAsks, AskCancelled, Answer, Unblocked,
                       Deciding, Pass, Refuse, decideFrame
  <2>2. QED
    BY <1>0, <2>1
<1>6. CASE Dispatch \/ BeginSegment \/ EndSegments \/ EndSegment
  BY <1>0, <1>6 DEF Dispatch, BeginSegment, EndSegments, EndSegment
<1>7. CASE Record \/ Continue
  BY <1>0, <1>7 DEF Record, Continue
<1>8. CASE \E i \in DOMAIN turn : Start(i) \/ Retry(i) \/ \E o \in {"ok", "error"} : Finish(i, o)
  BY <1>0, <1>8 DEF Start, Retry, Finish
<1>9. CASE \E i \in DOMAIN turn : Panic(i)
  BY <1>0, <1>9 DEF Panic, End
<1>10. CASE Gates
  <2> USE DEF RetryOrPause
  <2>1. CASE \E o \in Outcomes : Verify(o)
    BY <1>0, <2>1 DEF Verify
  <2>2. CASE \E o \in Outcomes : LlmVerify(o)
    BY <1>0, <2>2 DEF LlmVerify
  <2>3. CASE \E o \in Outcomes : Review(o)
    BY <1>0, <2>3 DEF Review
  <2>4. QED
    BY <1>10, <2>1, <2>2, <2>3 DEF Gates
<1>11. QED
  BY <1>1, <1>2, <1>3, <1>4, <1>5, <1>6, <1>7, <1>8, <1>9, <1>10 DEF Next, Loop, Human, Turn

(* A refused call stays refused; the calls of a turn begin refused by the  *)
(* gates or not, all of them.                                              *)
LEMMA LoopWalksTurn ==
  ASSUME LoopInvariant, Next
  PROVE  WalkOfTurn
<1> USE DEF LoopInvariant, WalkOfTurn
<1>1. CASE \E kinds \in Turns, block \in BOOLEAN : ToolCalls(kinds, block)
  <2>1. PICK kinds \in Turns, b \in BOOLEAN : ToolCalls(kinds, b)
    BY <1>1
  <2>2. /\ Len(turn') \in Nat /\ Len(turn') >= 1 /\ DOMAIN turn' = 1..Len(turn')
        /\ \A i \in 1..Len(turn') : turn'[i].vetoed => turn'[i].block = "blocked"
    BY <2>1, CallsTurn, ProfileFacts
  <2>3. pc = "request" /\ \A i \in DOMAIN turn' : turn'[i].vetoed = b
    BY <2>1 DEF ToolCalls, Call
  <2>4. QED
    BY <2>2, <2>3 DEF TurnPlaces
<1>2. CASE Cancel \/ Boundary \/ ProviderFails \/ Complete \/ NoOutput \/ Done \/ Gates
  <2>1. turn' = turn /\ ~(pc = "request" /\ pc' = "decide")
    BY <1>2 DEF Cancel, Boundary, ProviderFails, Complete, NoOutput, Done, Gates, Verify,
                LlmVerify, Review, End, OutOfSteps, RetryOrPause, callVars
  <2>2. QED
    BY <2>1
<1>3. CASE Skip \/ Dispatch \/ EndSegments \/ EndSegment \/ Record \/ Continue
  <2>1. (turn' = turn \/ pc' = "boundary") /\ pc # "request"
    BY <1>3 DEF Skip, Deciding, Dispatch, EndSegments, EndSegment, Record, Continue
  <2>2. QED
    BY <2>1 DEF TurnPlaces
<1>4. ASSUME pc \in {"decide", "asking"}, at <= Len(turn), turn[at].block = "unknown",
             Pass \/ Refuse \/ UNCHANGED turn
      PROVE  WalkOfTurn
  <2>1. CASE Refuse
    BY <1>4, <2>1, RefuseTurn
  <2>2. CASE turn' = [turn EXCEPT ![at].block = "none"]
    BY <1>4, <2>2, AllowTurn
  <2>3. CASE turn' = turn
    BY <1>4, <2>3
  <2>4. QED
    BY <1>4, <2>1, <2>2, <2>3 DEF Pass
<1>5. CASE CheckAllows \/ CheckDenies \/ CheckAsks
  <2>1. approval \in {"human", "deny", "allow"}
    BY ProfilesAssumption DEF Simple, Approvals, Profile
  <2>2. QED
    BY <1>4, <1>5, <2>1 DEF CheckAllows, CheckDenies, CheckAsks, Unblocked, Deciding
<1>6. CASE AskCancelled \/ \E yes \in BOOLEAN : Answer(yes)
  BY <1>4, <1>6 DEF AskCancelled, Answer, Where
<1>7. CASE BeginSegment
  <2>1. pc # "request"
    BY <1>7 DEF BeginSegment
  <2>2. QED
    BY <1>7, <2>1, SegmentTurn DEF Simple
<1>8. ASSUME NEW i \in DOMAIN turn, Start(i) \/ Retry(i) \/ Panic(i) \/ \E o \in {"ok", "error"} : Finish(i, o)
      PROVE  WalkOfTurn
  <2>1. pc # "request"
    BY <1>8 DEF Start, Retry, Panic, Finish
  <2>2. CASE Start(i)
    <3>1. i \in queue
      BY <2>2 DEF Start
    <3>2. QED
      BY <2>1, <2>2, <3>1, StartTurn
  <2>3. CASE Retry(i)
    <3>1. i \in open
      BY <2>3 DEF Retry
    <3>2. QED
      BY <2>1, <2>3, <3>1, RetryTurn
  <2>4. CASE \E o \in {"ok", "error"} : Finish(i, o)
    <3>1. i \in open
      BY <2>4 DEF Finish
    <3>2. QED
      BY <2>1, <2>4, <3>1, FinishTurn
  <2>5. CASE Panic(i)
    <3>1. CASE Written(turn)
      BY <2>1, <3>1, WrittenTurn DEF Shape
    <3>2. CASE turn' = turn
      BY <2>1, <3>2
    <3>3. QED
      BY <2>5, <3>1, <3>2 DEF Panic, End, callVars
  <2>6. QED
    BY <1>8, <2>2, <2>3, <2>4, <2>5
<1>9. QED
  BY <1>1, <1>2, <1>3, <1>5, <1>6, <1>7, <1>8 DEF Next, Loop, Human, Turn

-----------------------------------------------------------------------------
(* What a step of the gates does. *)

LEMMA TransitionKeeps ==
  ASSUME NEW r \in Runner, NEW v \in Nat
  PROVE  /\ Transition(r, v) \in Runner /\ Transition(r, v).streak = r.streak
         /\ Transition(r, v).reported = r.reported /\ Transition(r, v).passed = r.passed
<1>1. r.transitions + 1 \in Nat /\ r.violations + v \in Nat
  BY DEF Runner
<1> DEFINE a == r.transitions + 1
           b == r.violations + v
<1>2. Transition(r, v) = [r EXCEPT !.transitions = a, !.violations = b]
  BY DEF Transition
<1> HIDE DEF a, b
<1>3. a \in Nat /\ b \in Nat
  BY <1>1 DEF a, b
<1>4. QED
  BY <1>2, <1>3 DEF Runner

LEMMA ViolationsAreCounted ==
  ASSUME NEW r \in Runner
  PROVE  AtExecute(r) \in Nat /\ AtDistill(r) \in Nat
<1>1. \A b : Count(b) \in Nat
  BY DEF Count
<1>2. IsFiniteSet(Families)
  <2>1. Families = {"read"} \cup ({"write"} \cup {"delegate"})
    BY DEF Families
  <2>2. IsFiniteSet({"write"} \cup {"delegate"})
    BY FS_Singleton, FS_Union
  <2>3. QED
    BY <2>1, <2>2, FS_Singleton, FS_Union
<1>3. Cardinality(DriftedAgain(r)) \in Nat
  BY <1>2, FS_Subset, FS_CardinalityType DEF DriftedAgain, Drifted
<1>4. QED
  BY <1>1, <1>3 DEF AtExecute, AtDistill

(* The runner's counts of drifts and of evidence are left alone. *)
SameCounts(r) ==
  r \in Runner /\ r.streak = runner.streak /\ r.reported = runner.reported /\ r.passed = runner.passed

Told ==
  \E i \in Returned :
    /\ runner' = NoteToolFailure(runner, turn[i].kind, turn'[i].out = "ok")
    /\ results' = Append(results, [family |-> turn[i].kind, ok |-> turn'[i].out = "ok", turn |-> step])

Observed ==
  /\ runner' \in Runner /\ runner'.streak = runner.streak /\ runner'.reported = runner.reported
  /\ results' = results /\ pc \in {"verify", "llm"}
  /\ pc' = "llm" => pc = "verify" /\ (decided' => last' = "passed" /\ runner'.passed # 0)
  /\ pc' = "review" => /\ pc = "llm" /\ decided' = decided
                       /\ last' = "passed" /\ runner'.passed # 0
  /\ unverified' = unverified /\ pc' \in {"llm", "review", "boundary", "ended"}

WalkOfGates ==
  /\ levels' = levels
  /\ \/ /\ SameCounts(runner') /\ UNCHANGED <<results, last, decided>>
        /\ ~Moves("verify", "llm")
     \/ Told /\ UNCHANGED <<last, decided, unverified>>
     \/ Observed
  /\ pc = "request" /\ pc' = "decide" =>
       turn'[1].vetoed \/ (levels.drift = "hard" => Drifted(runner) = {})
  /\ pc = "done" /\ pc' = "ended" /\ ~cancel => unverified' = (Configured /\ runner.passed = 0)

LEMMA ObserveWalks ==
  ASSUME NEW passed \in BOOLEAN, NEW r, SameCounts(r), ObserveVerify(passed, r)
  PROVE  /\ runner' \in Runner /\ runner'.streak = runner.streak /\ runner'.reported = runner.reported
         /\ passed => last' = "passed" /\ runner'.passed # 0
         /\ results' = results /\ levels' = levels /\ unverified' = unverified
BY DEF ObserveVerify, SameCounts, Runner, Stay

LEMMA GatesWalk ==
  ASSUME RunnerKnown, LoopInvariant, Phases
  PROVE  WalkOfGates
<1> USE DEF RunnerKnown, WalkOfGates
<1>1. SameCounts(runner)
  BY DEF SameCounts
<1>2. CASE Moves("boundary", "request") /\ BeforeRequest
  <2>1. SameCounts(runner')
    BY <1>2, TransitionKeeps DEF BeforeRequest, SameCounts
  <2>2. QED
    BY <1>2, <2>1 DEF BeforeRequest, Stay, Moves
<1>3. CASE Moves("request", "decide") /\ BeforeCalls
  <2>1. PICK text \in BOOLEAN :
          LET r == [runner EXCEPT !.planText = @ \/ text]
          IN  /\ turn'[1].vetoed = Blocking(r)
              /\ runner' = Transition(r, AtExecute(r))
              /\ Stay /\ UNCHANGED <<results, last, decided>>
    BY <1>3 DEF BeforeCalls
  <2> DEFINE r == [runner EXCEPT !.planText = @ \/ text]
  <2>2. SameCounts(r)
    BY DEF SameCounts, Runner
  <2>3. turn'[1].vetoed = Blocking(r) /\ runner' = Transition(r, AtExecute(r))
        /\ Stay /\ UNCHANGED <<results, last, decided>>
    BY <2>1
  <2> HIDE DEF r
  <2>4. SameCounts(runner')
    BY <2>2, <2>3, TransitionKeeps, ViolationsAreCounted DEF SameCounts
  <2>5. turn'[1].vetoed \/ (levels.drift = "hard" => Drifted(runner) = {})
    BY <2>2, <2>3 DEF Blocking, DriftDetection, On, Drifted, SameCounts
  <2>6. QED
    BY <1>3, <2>3, <2>4, <2>5 DEF Stay, Moves
<1>4. CASE Returned # {} /\ CallReturned
  <2>1. pc = "execute"
    BY <1>4 DEF Returned
  <2>2. QED
    BY <1>4, <2>1 DEF CallReturned, Told, Stay
<1>5. \A r \in Reflected(runner) : SameCounts(r)
  BY <1>1 DEF Reflected, SameCounts, Runner
<1>6. CASE pc = "verify" /\ pc' \in {"boundary", "ended"} /\ VerifyFailed
  BY <1>5, <1>6, ObserveWalks DEF VerifyFailed, Observed
<1>7. CASE Moves("verify", "llm") /\ VerifyLetsPass
  <2>1. SameCounts(Transition(runner, 0))
    BY <1>1, TransitionKeeps DEF SameCounts
  <2>2. QED
    BY <1>1, <1>7, <2>1, ObserveWalks DEF VerifyLetsPass, Observed, Moves, Stay, SameCounts
<1>8. CASE pc = "llm" /\ pc' \in {"boundary", "ended"} /\ ObserveVerify(FALSE, runner) /\ UNCHANGED decided
  BY <1>1, <1>8, ObserveWalks DEF Observed
<1>9. CASE Moves("llm", "review") /\ LlmLetsPass
  BY <1>1, <1>9, ObserveWalks DEF LlmLetsPass, Observed, Moves, gateState
<1>10. CASE Moves("review", "boundary") /\ ReviewSendsBack
  BY <1>5, <1>10 DEF ReviewSendsBack, Stay, Moves
<1>11. CASE Moves("done", "ended") /\ AtTheEnd
  <2>1. SameCounts(runner')
    <3>1. cancel => runner' = runner
      BY <1>11 DEF AtTheEnd
    <3>2. ~cancel => runner' = Transition(runner, AtDistill(runner))
      BY <1>11 DEF AtTheEnd
    <3>3. SameCounts(Transition(runner, AtDistill(runner)))
      BY <1>1, TransitionKeeps, ViolationsAreCounted DEF SameCounts
    <3>4. QED
      BY <1>1, <3>1, <3>2, <3>3 DEF SameCounts
  <2>2. UNCHANGED <<levels, results, last, decided>>
    BY <1>11 DEF AtTheEnd
  <2>3. ~cancel => unverified' = (Configured /\ runner.passed = 0)
    BY <1>11 DEF AtTheEnd
  <2>4. QED
    BY <1>11, <2>1, <2>2, <2>3 DEF Moves
<1>12. CASE /\ UNCHANGED gateState
            /\ ~Moves("request", "decide") /\ ~Moves("done", "ended") /\ ~Moves("verify", "llm")
  BY <1>1, <1>12 DEF gateState, Moves
<1>13. \/ Moves("boundary", "request") /\ BeforeRequest
       \/ Moves("request", "decide") /\ BeforeCalls
       \/ Returned # {} /\ CallReturned
       \/ pc = "verify" /\ pc' \in {"boundary", "ended"} /\ VerifyFailed
       \/ Moves("verify", "llm") /\ VerifyLetsPass
       \/ pc = "llm" /\ pc' \in {"boundary", "ended"} /\ ObserveVerify(FALSE, runner) /\ UNCHANGED decided
       \/ Moves("llm", "review") /\ LlmLetsPass
       \/ Moves("review", "boundary") /\ ReviewSendsBack
       \/ Moves("done", "ended") /\ AtTheEnd
       \/ /\ UNCHANGED gateState
          /\ ~Moves("request", "decide") /\ ~Moves("done", "ended") /\ ~Moves("verify", "llm")
  <2> HIDE DEF RunnerKnown, WalkOfGates
  <2>1. QED
    BY DEF Phases
<1>14. QED
  <2> HIDE DEF RunnerKnown, WalkOfGates
  <2>1. QED
    BY <1>2, <1>3, <1>4, <1>6, <1>7, <1>8, <1>9, <1>10, <1>11, <1>12, <1>13, Zenon

LEMMA OfAppend ==
  ASSUME NEW rs \in Seq(ResultRecord), NEW e \in ResultRecord, NEW f
  PROVE  /\ Of(f, rs) \in Seq(ResultRecord)
         /\ Of(f, Append(rs, e)) = IF e.family = f THEN Append(Of(f, rs), e) ELSE Of(f, rs)
<1> DEFINE S == {i \in DOMAIN rs : rs[i].family = f}
           more == Append(rs, e)
           R == {i \in DOMAIN more : more[i].family = f}
<1>1. /\ Len(rs) \in Nat /\ DOMAIN rs = 1..Len(rs) /\ DOMAIN more = 1..(Len(rs) + 1)
      /\ more[Len(rs) + 1] = e /\ \A i \in 1..Len(rs) : more[i] = rs[i]
  OBVIOUS
<1> HIDE DEF more
<1>2. \A i \in 1..Len(rs) : i \in R <=> i \in S
  BY <1>1
<1>3. Len(rs) + 1 \in R <=> e.family = f
  BY <1>1
<1> HIDE DEF S, R
<1>4. /\ Picked(rs, S) \in Seq(ResultRecord)
      /\ Picked(more, R) = IF Len(rs) + 1 \in R THEN Append(Picked(rs, S), e) ELSE Picked(rs, S)
  BY <1>2, PickedAppend DEF more
<1>5. Of(f, rs) = Picked(rs, S) /\ Of(f, more) = Picked(more, R)
  BY DEF Of, S, R
<1>6. QED
  BY <1>3, <1>4, <1>5 DEF more

(* What a later result adds is not of the turns before. *)
LEMMA ClearStays ==
  ASSUME NEW rs \in Seq(ResultRecord), NEW e \in ResultRecord, NEW n \in Nat, n <= e.turn
  PROVE  Clear(rs, n) <=> Clear(Append(rs, e), n)
<1> DEFINE more == Append(rs, e)
<1>1. /\ Len(rs) \in Nat /\ DOMAIN rs = 1..Len(rs) /\ DOMAIN more = 1..(Len(rs) + 1)
      /\ more[Len(rs) + 1] = e /\ \A i \in 1..Len(rs) : more[i] = rs[i]
  OBVIOUS
<1> HIDE DEF more
<1>2. ASSUME NEW f PROVE Picked(more, EarlierOf(more, f, n)) = Picked(rs, EarlierOf(rs, f, n))
  <2>1. \A i \in 1..Len(rs) : i \in EarlierOf(more, f, n) <=> i \in EarlierOf(rs, f, n)
    BY <1>1 DEF EarlierOf
  <2>2. Len(rs) + 1 \notin EarlierOf(more, f, n)
    BY <1>1 DEF EarlierOf, ResultRecord
  <2>3. QED
    BY <2>1, <2>2, PickedAppend DEF more
<1>3. QED
  BY <1>2 DEF Clear, more

LEMMA NothingPicked ==
  ASSUME NEW S PROVE Picked(<<>>, S) = <<>>
<1> DEFINE f == [i \in 0..0 |-> <<>>]
<1>1. Picks(<<>>, S, f)
  BY DEF Picks
<1>2. <<>> \in Seq({}) /\ f[Len(<<>>)] = <<>>
  OBVIOUS
<1> HIDE DEF f
<1>3. QED
  BY <1>1, <1>2, PicksAreOne

LEMMA NoteFacts ==
  ASSUME NEW r \in Runner, NEW f \in Families, NEW ok \in BOOLEAN,
         NEW l, l = IF ok THEN 0 ELSE r.streak[f] + 1
  PROVE  /\ NoteToolFailure(r, f, ok) \in Runner
         /\ NoteToolFailure(r, f, ok).passed = r.passed
         /\ On("drift") =>
              \A g \in Families :
                /\ NoteToolFailure(r, f, ok).streak[g] = IF g = f THEN l ELSE r.streak[g]
                /\ NoteToolFailure(r, f, ok).reported[g] =
                     r.reported[g] + (IF g = f THEN Count(l = DriftThreshold) ELSE 0)
<1> DEFINE counted == [r EXCEPT !.calls = @ + 1]
           m == r.reported[f] + Count(l = DriftThreshold)
<1>1. /\ counted \in Runner /\ counted.passed = r.passed
      /\ counted.streak = r.streak /\ counted.reported = r.reported
      /\ r.streak \in [Families -> Nat] /\ r.reported \in [Families -> Nat]
  <2>1. r.calls + 1 \in Nat
    BY DEF Runner
  <2> DEFINE c == r.calls + 1
  <2>2. counted = [r EXCEPT !.calls = c]
    OBVIOUS
  <2> HIDE DEF c, counted
  <2>3. c \in Nat
    BY <2>1 DEF c
  <2>4. QED
    BY <2>2, <2>3 DEF Runner
<1>2. l \in Nat /\ m \in Nat /\ r.reported[f] \in Nat
  <2>1. r.streak[f] \in Nat /\ r.reported[f] \in Nat
    BY <1>1
  <2>2. Count(l = DriftThreshold) \in {0, 1}
    BY DEF Count
  <2>3. QED
    BY <2>1, <2>2
<1>3. CASE ~On("drift")
  BY <1>1, <1>3 DEF NoteToolFailure
<1>4. CASE On("drift")
  <2>1. NoteToolFailure(r, f, ok) = [counted EXCEPT !.streak[f] = l, !.reported[f] = @ + Count(l = DriftThreshold)]
    BY <1>4 DEF NoteToolFailure
  <2> DEFINE st == [r.streak EXCEPT ![f] = l]
             re == [r.reported EXCEPT ![f] = m]
  <2>2. st \in [Families -> Nat] /\ re \in [Families -> Nat]
    <3> HIDE DEF m
    <3>1. QED
      BY <1>1, <1>2
  <2>3. /\ \A g \in Families : st[g] = IF g = f THEN l ELSE r.streak[g]
        /\ \A g \in Families : re[g] = IF g = f THEN m ELSE r.reported[g]
    BY <1>1
  <2> HIDE DEF counted
  <2>4. NoteToolFailure(r, f, ok) = [counted EXCEPT !.streak = st, !.reported = re]
    BY <1>1, <2>1 DEF Runner
  <2> HIDE DEF st, re
  <2>5. /\ NoteToolFailure(r, f, ok) \in Runner /\ NoteToolFailure(r, f, ok).passed = r.passed
        /\ NoteToolFailure(r, f, ok).streak = st /\ NoteToolFailure(r, f, ok).reported = re
    BY <1>1, <2>2, <2>4 DEF Runner
  <2>6. \A g \in Families : r.reported[g] \in Nat
    BY <1>1
  <2>7. QED
    BY <2>3, <2>5, <2>6
<1>5. QED
  BY <1>3, <1>4

-----------------------------------------------------------------------------
(* The invariant of the phases is preserved. *)

(* A step with the gates, or without them: then nothing is counted. *)
WalkOfPhases ==
  \/ IsGated /\ WalkOfGates
  \/ ~IsGated /\ UNCHANGED gateState

LEMMA ResultTold ==
  ASSUME LoopInvariant, RunnerKnown, NEW i \in Returned
  PROVE  /\ turn[i].kind \in Families /\ i \in 1..Len(turn) /\ turn[i].block = "none"
         /\ \A ok \in BOOLEAN : [family |-> turn[i].kind, ok |-> ok, turn |-> step] \in ResultRecord
<1> USE DEF LoopInvariant
<1>1. i \in batch /\ i \in 1..Len(turn) /\ turn[i] \in CallRecord
  BY DEF Returned, Shape
<1>2. turn[i].kind \in Families
  BY <1>1, ProfileFacts DEF CallRecord, Families
<1>3. turn[i].block = "none"
  BY <1>1 DEF Allowed
<1>4. step \in Nat
  BY ProfileFacts DEF Simple
<1>5. QED
  BY <1>1, <1>2, <1>3, <1>4 DEF ResultRecord

LEMMA RunnerStaysKnown ==
  ASSUME LoopInvariant, RunnerKnown, profile' = profile, WalkOfPhases
  PROVE  RunnerKnown'
<1>1. IsGated' = IsGated
  BY DEF IsGated
<1>2. CASE UNCHANGED gateState
  BY <1>1, <1>2 DEF RunnerKnown, gateState
<1>3. CASE IsGated /\ levels' = levels /\ runner' \in Runner /\ results' = results
  BY <1>1, <1>3 DEF RunnerKnown
<1>4. CASE IsGated /\ levels' = levels /\ Told
  <2>1. PICK i \in Returned :
          /\ runner' = NoteToolFailure(runner, turn[i].kind, turn'[i].out = "ok")
          /\ results' = Append(results, [family |-> turn[i].kind, ok |-> turn'[i].out = "ok", turn |-> step])
    BY <1>4 DEF Told
  <2>2. runner' \in Runner
    <3> DEFINE ok == turn'[i].out = "ok"
               f == turn[i].kind
    <3>1. ok \in BOOLEAN /\ f \in Families /\ runner' = NoteToolFailure(runner, f, ok)
      BY <2>1, ResultTold
    <3> HIDE DEF ok, f
    <3>2. \A l : l = (IF ok THEN 0 ELSE runner.streak[f] + 1) => NoteToolFailure(runner, f, ok) \in Runner
      BY <3>1, NoteFacts DEF RunnerKnown
    <3>3. QED
      BY <3>1, <3>2
  <2>3. results' \in Seq(ResultRecord)
    BY <2>1, ResultTold, AppendProperties DEF RunnerKnown
  <2>4. QED
    BY <1>1, <1>4, <2>2, <2>3 DEF RunnerKnown
<1>5. QED
  BY <1>2, <1>3, <1>4 DEF WalkOfPhases, WalkOfGates, SameCounts, Observed

LEMMA DriftsStayKnown ==
  ASSUME LoopInvariant, RunnerKnown, DriftsKnown, profile' = profile, WalkOfPhases
  PROVE  DriftsKnown'
<1>1. CASE UNCHANGED <<levels, results, runner>>
  BY <1>1 DEF DriftsKnown, On
<1>2. CASE levels' = levels /\ results' = results /\ runner'.streak = runner.streak
           /\ runner'.reported = runner.reported
  BY <1>2 DEF DriftsKnown, On
<1>3. CASE levels' = levels /\ Told
  <2>1. PICK i \in Returned :
          /\ runner' = NoteToolFailure(runner, turn[i].kind, turn'[i].out = "ok")
          /\ results' = Append(results, [family |-> turn[i].kind, ok |-> turn'[i].out = "ok", turn |-> step])
    BY <1>3 DEF Told
  <2> DEFINE ok == turn'[i].out = "ok"
             f == turn[i].kind
             e == [family |-> f, ok |-> ok, turn |-> step]
             l == IF ok THEN 0 ELSE runner.streak[f] + 1
  <2>2. ok \in BOOLEAN /\ f \in Families /\ e \in ResultRecord /\ e.family = f /\ e.ok = ok
    BY ResultTold
  <2>3. l = IF ok THEN 0 ELSE runner.streak[f] + 1
    OBVIOUS
  <2>4. runner' = NoteToolFailure(runner, f, ok) /\ results' = Append(results, e)
    BY <2>1
  <2> HIDE DEF ok, f, e, l
  <2>5. SUFFICES ASSUME On("drift"), NEW g \in Families
                 PROVE  /\ EndsWith(Of(g, results'), runner'.streak[g])
                        /\ runner'.reported[g] = Cardinality(Crossings(Of(g, results')))
    BY <1>3 DEF DriftsKnown, On
  <2>6. /\ runner'.streak[g] = IF g = f THEN l ELSE runner.streak[g]
        /\ runner'.reported[g] = runner.reported[g] + (IF g = f THEN Count(l = DriftThreshold) ELSE 0)
    BY <2>2, <2>3, <2>4, <2>5, NoteFacts DEF RunnerKnown
  <2>7. /\ Of(g, results) \in Seq(ResultRecord)
        /\ Of(g, results') = IF f = g THEN Append(Of(g, results), e) ELSE Of(g, results)
    BY <2>2, <2>4, OfAppend DEF RunnerKnown
  <2>8. /\ EndsWith(Of(g, results), runner.streak[g])
        /\ runner.reported[g] = Cardinality(Crossings(Of(g, results)))
    BY <2>5 DEF DriftsKnown
  <2>9. CASE g = f
    <3>1. l = IF e.ok THEN 0 ELSE runner.streak[g] + 1
      BY <2>2, <2>3, <2>9
    <3>2. EndsWith(Append(Of(g, results), e), l)
      BY <2>2, <2>7, <2>8, <3>1, CrossingsGrow
    <3>3. Cardinality(Crossings(Append(Of(g, results), e))) =
            Cardinality(Crossings(Of(g, results))) + Count(l = DriftThreshold)
      BY <2>2, <2>7, <2>8, <3>1, CrossingsCounted
    <3>4. QED
      BY <2>6, <2>7, <2>8, <2>9, <3>2, <3>3
  <2>10. CASE g # f
    <3>1. runner.reported[g] \in Nat
      BY DEF RunnerKnown, Runner
    <3>2. QED
      BY <2>6, <2>7, <2>8, <2>10, <3>1
  <2>11. QED
    BY <2>9, <2>10
<1>4. QED
  BY <1>1, <1>2, <1>3 DEF WalkOfPhases, WalkOfGates, SameCounts, Observed, gateState

LEMMA TurnsStayKnown ==
  ASSUME LoopInvariant, RunnerKnown, TurnsKnown, WalkOfPlaces, WalkOfPhases
  PROVE  TurnsKnown'
<1>1. step \in Nat /\ step' \in Nat /\ step <= step'
  BY ProfileFacts DEF LoopInvariant, Simple, WalkOfPlaces
<1>2. \A i \in 1..Len(results) : results[i].turn \in Nat
  <2>1. \A i \in 1..Len(results) : results[i] \in ResultRecord
    BY ElementOfSeq DEF RunnerKnown
  <2>2. QED
    BY <2>1 DEF ResultRecord
<1>3. CASE results' = results
  BY <1>1, <1>2, <1>3 DEF TurnsKnown, WalkOfPlaces
<1>4. CASE Told
  <2>1. PICK e : results' = Append(results, e) /\ e.turn = step
    BY <1>4 DEF Told
  <2>2. /\ Len(results') = Len(results) + 1 /\ Len(results) \in Nat
        /\ results'[Len(results) + 1] = e
        /\ \A i \in 1..Len(results) : results'[i] = results[i]
    BY <2>1 DEF RunnerKnown
  <2>3. pc = "execute"
    BY <1>4 DEF Told, Returned
  <2>4. \A i \in 1..Len(results') : i \in 1..Len(results) \/ i = Len(results) + 1
    BY <2>2
  <2>5. pc' # "request"
    BY <2>3 DEF WalkOfPlaces
  <2>6. \A i \in 1..Len(results') : results'[i].turn <= step'
    BY <1>1, <1>2, <2>1, <2>2, <2>4 DEF TurnsKnown
  <2>7. QED
    BY <2>5, <2>6 DEF TurnsKnown
<1>5. QED
  BY <1>3, <1>4 DEF WalkOfPhases, WalkOfGates, Observed, gateState

LEMMA TurnStaysClear ==
  ASSUME LoopInvariant, RunnerKnown, DriftsKnown, TurnsKnown, TurnIsClear,
         WalkOfPlaces, WalkOfTurn, WalkOfPhases, LoopInvariant', profile' = profile
  PROVE  TurnIsClear'
<1> SUFFICES ASSUME IsGated', levels'.drift = "hard", pc' \in TurnPlaces, ~Barred'
             PROVE  Clear(results', step')
  BY DEF TurnIsClear
<1>1. IsGated /\ WalkOfGates /\ levels.drift = "hard"
  BY DEF WalkOfPhases, WalkOfGates, IsGated
<1>2. step' = step /\ step \in Nat
  BY ProfileFacts DEF WalkOfPlaces, TurnPlaces, LoopInvariant, Simple
<1>3. CASE pc \in TurnPlaces
  <2>1. ~Barred /\ Clear(results, step)
    BY <1>1, <1>3 DEF WalkOfTurn, Barred, TurnIsClear
  <2>2. CASE results' = results
    BY <1>2, <2>1, <2>2
  <2>3. CASE Told
    <3>1. PICK i \in Returned :
            results' = Append(results, [family |-> turn[i].kind, ok |-> turn'[i].out = "ok", turn |-> step])
      BY <2>3 DEF Told
    <3> DEFINE e == [family |-> turn[i].kind, ok |-> turn'[i].out = "ok", turn |-> step]
    <3>2. e \in ResultRecord /\ e.turn = step
      BY ResultTold
    <3>3. results' = Append(results, e)
      BY <3>1
    <3> HIDE DEF e
    <3>4. QED
      BY <1>2, <2>1, <3>2, <3>3, ClearStays DEF RunnerKnown
  <2>4. QED
    BY <1>1, <2>2, <2>3 DEF WalkOfGates, Observed
<1>4. CASE pc \notin TurnPlaces
  <2>1. pc = "request" /\ pc' = "decide"
    BY <1>4 DEF WalkOfPlaces
  <2>2. ~turn'[1].vetoed
    <3>1. PICK b \in BOOLEAN : \A i \in 1..Len(turn') :
                 turn'[i].vetoed = b /\ (b => turn'[i].block = "blocked")
      BY <2>1 DEF WalkOfTurn
    <3>2. 1 \in 1..Len(turn')
      BY <2>1 DEF WalkOfTurn
    <3>3. QED
      BY <3>1, <3>2 DEF Barred
  <2>3. Drifted(runner) = {}
    BY <1>1, <2>1, <2>2 DEF WalkOfGates
  <2>4. On("drift")
    BY <1>1 DEF On
  <2>5. results' = results
    BY <1>1, <2>1 DEF WalkOfGates, Told, Returned, Observed
  <2>6. ASSUME NEW f \in Families
        PROVE  ~Failing(Of(f, results), Len(Of(f, results)))
    <3>1. EndsWith(Of(f, results), runner.streak[f]) /\ Of(f, results) \in Seq(ResultRecord)
      <4>1. Of(f, results) \in Seq(ResultRecord)
        BY PickedEquation DEF Of, RunnerKnown
      <4>2. QED
        BY <2>4, <4>1 DEF DriftsKnown
    <3>2. ~(runner.streak[f] >= DriftThreshold)
      BY <2>3 DEF Drifted
    <3>3. QED
      BY <3>1, <3>2, FailingIsStreak
  <2>7. ASSUME NEW f PROVE Picked(results, EarlierOf(results, f, step)) = Of(f, results)
    <3>1. \A j \in DOMAIN results : results[j].turn < step
      BY <2>1 DEF TurnsKnown, RunnerKnown
    <3>2. EarlierOf(results, f, step) = {j \in DOMAIN results : results[j].family = f}
      BY <3>1 DEF EarlierOf
    <3>3. QED
      BY <3>2 DEF Of
  <2>8. QED
    BY <1>2, <2>5, <2>6, <2>7 DEF Clear
<1>5. QED
  BY <1>3, <1>4

LEMMA ResultsStayClear ==
  ASSUME LoopInvariant, RunnerKnown, TurnsKnown, TurnIsClear, ResultsAreClear, WalkOfPhases
  PROVE  ResultsAreClear'
<1> SUFFICES ASSUME levels'.drift = "hard", NEW k \in 1..Len(results')
             PROVE  Clear(results', results'[k].turn)
  BY DEF ResultsAreClear
<1>1. levels' = levels
  BY DEF WalkOfPhases, WalkOfGates, gateState
<1>2. CASE results' = results
  BY <1>1, <1>2 DEF ResultsAreClear
<1>3. CASE IsGated /\ Told
  <2>1. PICK i \in Returned :
          results' = Append(results, [family |-> turn[i].kind, ok |-> turn'[i].out = "ok", turn |-> step])
    BY <1>3 DEF Told
  <2> DEFINE e == [family |-> turn[i].kind, ok |-> turn'[i].out = "ok", turn |-> step]
  <2>2. e \in ResultRecord /\ e.turn = step
    BY ResultTold
  <2>3. results' = Append(results, e)
    BY <2>1
  <2> HIDE DEF e
  <2>4. /\ Len(results') = Len(results) + 1 /\ Len(results) \in Nat
        /\ results'[Len(results) + 1] = e
        /\ \A j \in 1..Len(results) : results'[j] = results[j] /\ results[j] \in ResultRecord
    BY <2>2, <2>3 DEF RunnerKnown
  <2>5. CASE k = Len(results) + 1
    <3>1. pc \in TurnPlaces /\ ~Barred
      BY ResultTold DEF Returned, TurnPlaces, Barred
    <3>2. Clear(results, step) /\ step \in Nat
      BY <1>1, <1>3, <3>1, ProfileFacts DEF TurnIsClear, LoopInvariant, Simple
    <3>3. Clear(results', step)
      BY <2>2, <2>3, <3>2, ClearStays DEF RunnerKnown
    <3>4. QED
      BY <2>2, <2>4, <2>5, <3>3
  <2>6. CASE k \in 1..Len(results)
    <3>1. Clear(results, results[k].turn) /\ results[k].turn \in Nat /\ results[k].turn <= e.turn
      BY <1>1, <2>2, <2>4, <2>6 DEF ResultsAreClear, TurnsKnown, ResultRecord
    <3>2. Clear(results', results[k].turn)
      BY <2>2, <2>3, <3>1, ClearStays DEF RunnerKnown
    <3>3. QED
      BY <2>4, <2>6, <3>2
  <2>7. QED
    BY <2>4, <2>5, <2>6
<1>4. QED
  BY <1>2, <1>3 DEF WalkOfPhases, WalkOfGates, Observed, gateState

LEMMA EvidenceStaysKnown ==
  ASSUME LoopInvariant, RunnerKnown, EvidenceKnown, WalkOfPlaces, WalkOfPhases, profile' = profile
  PROVE  EvidenceKnown'
<1> SUFFICES ASSUME IsGated', Configured', pc' = "llm" \/ (wrote' /\ pc' \in {"review", "done"})
             PROVE  Evidence'
  BY DEF EvidenceKnown
<1>1. IsGated /\ Configured /\ WalkOfGates
  BY DEF WalkOfPhases, IsGated, Configured, VerifyCycles
<1>2. pc \in {"verify", "llm", "review", "done"} /\ wrote' = wrote
  BY DEF WalkOfPlaces
<1>3. CASE /\ SameCounts(runner') /\ UNCHANGED <<results, last, decided>>
           /\ ~Moves("verify", "llm")
  <2>1. CASE pc # "verify"
    <3>1. pc = "llm" \/ (wrote /\ pc \in {"review", "done"})
      BY <1>2, <2>1 DEF WalkOfPlaces
    <3>2. QED
      BY <1>1, <1>3, <3>1 DEF EvidenceKnown, Evidence, SameCounts
  <2>2. CASE pc = "verify"
    BY <1>1, <1>2, <1>3, <2>2 DEF WalkOfPlaces, Moves
  <2>3. QED
    BY <2>1, <2>2
<1>4. CASE Observed
  <2>1. pc' \in {"llm", "review"}
    BY <1>4 DEF Observed
  <2>2. QED
    BY <1>4, <2>1 DEF Observed, Evidence
<1>5. CASE Told
  BY <1>2, <1>5 DEF Told, Returned
<1>6. QED
  BY <1>1, <1>3, <1>4, <1>5 DEF WalkOfGates

LEMMA EvidenceStaysLatest ==
  ASSUME LoopInvariant, RunnerKnown, EvidenceKnown, WalkOfPlaces, WalkOfPhases, profile' = profile
  PROVE  EvidenceIsLatest'
<1> SUFFICES ASSUME IsGated', ended' = "done", ~cancel', Configured'
             PROVE  /\ wrote' /\ decided' => last' = "passed" /\ ~unverified'
                    /\ runner'.passed = 0 => unverified'
  BY DEF EvidenceIsLatest
<1>1. IsGated /\ Configured /\ Configured' = Configured /\ WalkOfGates
  BY DEF WalkOfPhases, IsGated, Configured, VerifyCycles
<1>2. pc = "done" /\ pc' = "ended" /\ ~cancel /\ wrote' = wrote
  BY DEF WalkOfPlaces
<1>3. SameCounts(runner') /\ UNCHANGED <<results, last, decided>>
  BY <1>1, <1>2 DEF WalkOfGates, Told, Returned, Observed
<1>4. unverified' = (Configured /\ runner.passed = 0)
  BY <1>1, <1>2 DEF WalkOfGates
<1>5. QED
  BY <1>1, <1>2, <1>3, <1>4 DEF EvidenceKnown, Evidence, SameCounts

LEMMA PhasesInvariantInit == GatedInit => PhasesInvariant
<1> SUFFICES ASSUME GatedInit PROVE PhasesInvariant
  OBVIOUS
<1>1. /\ levels \in Levels /\ runner = NewRunner /\ results = <<>> /\ decided = FALSE
      /\ pc = "boundary" /\ ended = "no"
  BY GatesAssumption DEF GatedInit, RunInit, Init
<1>2. /\ runner \in Runner /\ Len(results) = 0 /\ results \in Seq(ResultRecord)
      /\ \A f \in Families : runner.streak[f] = 0 /\ runner.reported[f] = 0
  BY <1>1 DEF NewRunner, Runner
<1>3. DriftsKnown
  <2>1. \A f : Of(f, results) = <<>>
    BY <1>1, NothingPicked DEF Of
  <2>2. EndsWith(<<>>, 0)
    BY DEF EndsWith
  <2>3. Cardinality(Crossings(<<>>)) = 0
    <3>1. Crossings(<<>>) = {}
      BY DEF Crossings
    <3>2. QED
      BY <3>1, FS_EmptySet
  <2>4. QED
    BY <1>2, <2>1, <2>2, <2>3 DEF DriftsKnown
<1>4. QED
  BY <1>1, <1>2, <1>3 DEF PhasesInvariant, RunnerKnown, TurnsKnown, TurnIsClear, TurnPlaces,
                          ResultsAreClear, EvidenceKnown, EvidenceIsLatest

LEMMA PhasesInvariantAlways == GatedSpec => []PhasesInvariant
<1>1. ASSUME LoopInvariant, LoopInvariant', PhasesInvariant, GatedNext PROVE PhasesInvariant'
  <2>1. profile' = profile /\ WalkOfPlaces /\ WalkOfTurn
    BY <1>1, NextFrame, LoopWalksPlaces, LoopWalksTurn DEF GatedNext
  <2>2. WalkOfPhases
    BY <1>1, GatesWalk DEF GatedNext, WithGates, WalkOfPhases, PhasesInvariant
  <2>3. RunnerKnown' /\ DriftsKnown' /\ TurnsKnown'
    BY <1>1, <2>1, <2>2, RunnerStaysKnown, DriftsStayKnown, TurnsStayKnown DEF PhasesInvariant
  <2>4. TurnIsClear' /\ ResultsAreClear'
    BY <1>1, <2>1, <2>2, TurnStaysClear, ResultsStayClear DEF PhasesInvariant
  <2>5. EvidenceKnown' /\ EvidenceIsLatest'
    BY <1>1, <2>1, <2>2, EvidenceStaysKnown, EvidenceStaysLatest DEF PhasesInvariant
  <2>6. QED
    BY <2>3, <2>4, <2>5 DEF PhasesInvariant
<1>2. PhasesInvariant /\ UNCHANGED gatedVars => PhasesInvariant'
  BY DEF gatedVars, runVars, vars, callVars, gateVars, gateState, PhasesInvariant, RunnerKnown,
         DriftsKnown, TurnsKnown, TurnIsClear, Barred, ResultsAreClear, EvidenceKnown, Evidence,
         EvidenceIsLatest, IsGated, On, Configured, VerifyCycles
<1>3. QED
  <2>1. GatedSpec => []LoopInvariant
    BY GatedImpliesSpec, LoopInvariantAlways, PTL
  <2>2. LoopInvariant /\ LoopInvariant' /\ PhasesInvariant /\ [GatedNext]_gatedVars => PhasesInvariant'
    BY <1>1, <1>2
  <2>3. QED
    BY <2>1, <2>2, PhasesInvariantInit, PTL DEF GatedSpec

(* Whatever order calls return in and however often gates send the run     *)
(* back: a drift is reported once for each streak, for every threshold; a  *)
(* hard gate lets no call run after a turn that left a tool in a streak;   *)
(* and a run that changed files says Done, and is not called unverified,   *)
(* only when the commands passed on its final text.                        *)
THEOREM PhasesStayTrue == GatedSpec => []PhasesAreTrue
<1>1. PhasesInvariant => PhasesAreTrue
  <2> SUFFICES ASSUME PhasesInvariant PROVE PhasesAreTrue
    OBVIOUS
  <2>1. DriftsTold
    BY DEF PhasesInvariant, DriftsKnown, DriftsTold
  <2>2. HardDriftHolds
    <3> SUFFICES ASSUME levels.drift = "hard", NEW i \in DOMAIN results, NEW f \in Families
                 PROVE  LET b == Picked(results, EarlierOf(results, f, results[i].turn))
                        IN  ~Failing(b, Len(b))
      BY DEF HardDriftHolds, EarlierOf
    <3>1. i \in 1..Len(results)
      BY DEF PhasesInvariant, RunnerKnown
    <3>2. Clear(results, results[i].turn)
      BY <3>1 DEF PhasesInvariant, ResultsAreClear
    <3>3. QED
      BY <3>2 DEF Clear
  <2>3. QED
    BY <2>1, <2>2 DEF PhasesInvariant, PhasesAreTrue
<1>2. QED
  BY <1>1, PhasesInvariantAlways, PTL

-----------------------------------------------------------------------------
(* The messages: what is known of them at every step of a run.             *)

(* Calls and results in order, but for the results that are still due. *)
Exchanges(msgs, due) ==
  /\ Close(msgs)
  /\ \A i \in 1..Len(msgs) :
       /\ \A id \in msgs[i].calls \ due :
            \E j \in i + 1..i + Cardinality(msgs[i].calls) : j <= Len(msgs) /\ msgs[j].call = id
       /\ msgs[i].call # 0 =>
            /\ \E j \in 1..i - 1 : msgs[i].call \in msgs[j].calls
            /\ \A j \in 1..Len(msgs) : msgs[j].call = msgs[i].call => j = i
Orderly(msgs) == Exchanges(msgs, {})

(* Behind the same system messages, the end of the log but for what was cut.*)
LeadIs(msgs, h) ==
  /\ h \in 0..Len(msgs)
  /\ \A i \in 1..h : msgs[i].role = "system"
  /\ h < Len(msgs) => msgs[h + 1].role # "system"
Later(msgs, all, h) ==
  /\ LeadIs(msgs, h) /\ Len(msgs) <= Len(all)
  /\ \A i \in h + 1..Len(msgs) : Whole(msgs[i]) = Whole(all[i + Len(all) - Len(msgs)])
Shortened ==
  \E h \in Nat : LeadIs(log, h) /\ Later(Messages, log, h) /\ (sent # <<>> => Later(sent, log, h))

(* What was cut of a result is kept. *)
CutKnown(mem, e) ==
  \A i \in 1..Len(mem.messages) :
    /\ mem.messages[i].cut <= e
    /\ mem.messages[i].cut = e =>
         /\ mem.messages[i].call \in mem.shrunk \cap DOMAIN mem.full /\ mem.messages[i].call # 0
         /\ mem.full[mem.messages[i].call] = "whole"

(* The last calls of a turn and the results recorded so far. *)
Numbered(msgs, n) == \A i \in 1..Len(msgs) : \A id \in IdsOf(msgs[i]) : id <= n
Recorded == IF pc = "record" THEN at - 1 ELSE 0
Earlier == ids - Len(turn)
(* The calls a + 1..b stand at c, and r of their results behind them. *)
Answering(s, c, a, b, r) ==
  /\ c \in 1..Len(s) /\ Len(s) = c + r
  /\ s[c].calls = a + 1..b
  /\ \A k \in 1..r : s[c + k].call = a + k
  /\ \A i \in 1..c - 1 : \A id \in IdsOf(s[i]) : id <= a

OpenTurn ==
  /\ Len(turn) >= 1 /\ Earlier >= 0
  /\ Exchanges(Messages, Earlier + Recorded + 1..ids)
  /\ \E c \in 1..Len(Messages) : Answering(Messages, c, Earlier, ids, Recorded)

MemoryType ==
  [messages : Seq(MessageType), shrunk : SUBSET Nat,
   full : UNION {[S -> {"whole", "rest"}] : S \in SUBSET Nat}]
ConversationTyped ==
  /\ habit \in Habits /\ memory \in MemoryType
  /\ stored \in Seq(MessageType) /\ sent \in Seq(MessageType) /\ log \in Seq(MessageType)
  /\ ids \in Nat /\ era \in Nat /\ era >= 2

MessagesSound ==
  /\ ConversationTyped
  /\ Orderly(sent) /\ Orderly(stored) /\ Numbered(Messages, ids)
  /\ Shortened /\ CutKnown(memory, era)

ConversationInvariant ==
  /\ MessagesSound
  /\ Talks /\ pc \in TurnPlaces => OpenTurn
  /\ Talks /\ pc \notin TurnPlaces \cup {"ended"} => Orderly(Messages)

-----------------------------------------------------------------------------
(* Where the members that are picked come from. *)

Maps(rs, S, n, s, e) ==
  /\ \A k \in 1..Len(s) : e[k] \in 1..n /\ e[k] \in S /\ s[k] = rs[e[k]]
  /\ \A k, l \in 1..Len(s) : k < l => l - k <= e[l] - e[k]
  /\ \A j \in 1..n : j \in S => \E k \in 1..Len(s) : e[k] = j

LEMMA MapsGrow ==
  ASSUME NEW T, NEW rs \in Seq(T), NEW S, NEW i \in 1..Len(rs), NEW s \in Seq(T), NEW e,
         Maps(rs, S, i - 1, s, e)
  PROVE  \E d : Maps(rs, S, i, IF i \in S THEN Append(s, rs[i]) ELSE s, d)
<1>1. i \in Nat /\ i >= 1 /\ Len(s) \in Nat /\ \A j \in 1..i : j = i \/ j \in 1..i - 1
  BY LenProperties
<1>2. CASE i \notin S
  <2>1. \A k \in 1..Len(s) : e[k] \in 1..i
    BY <1>1 DEF Maps
  <2>2. Maps(rs, S, i, s, e)
    BY <1>1, <1>2, <2>1 DEF Maps
  <2>3. QED
    BY <1>2, <2>2
<1>3. CASE i \in S
  <2>1. PICK m \in Nat : m = Len(s)
    BY <1>1
  <2>2. PICK t : t = Append(s, rs[i])
    OBVIOUS
  <2>3. /\ Len(t) = m + 1 /\ t[m + 1] = rs[i] /\ \A k \in 1..m : t[k] = s[k]
        /\ \A k \in 1..m + 1 : k = m + 1 \/ k \in 1..m
    <3>1. rs[i] \in T
      BY ElementOfSeq
    <3>2. QED
      BY <2>1, <2>2, <3>1, AppendProperties
  <2>4. PICK d : d = [k \in 1..m + 1 |-> IF k = m + 1 THEN i ELSE e[k]]
    OBVIOUS
  <2>5. d[m + 1] = i /\ \A k \in 1..m : d[k] = e[k]
    BY <2>1, <2>4
  <2>6. \A k \in 1..m : e[k] \in 1..i - 1 /\ e[k] \in S /\ s[k] = rs[e[k]]
    BY <2>1 DEF Maps
  <2>7. \A k \in 1..m + 1 : d[k] \in 1..i /\ d[k] \in S /\ t[k] = rs[d[k]]
    <3>1. \A j \in 1..i - 1 : j \in 1..i
      BY <1>1
    <3>2. i \in 1..i
      BY <1>1
    <3>3. \A k \in 1..m : d[k] \in 1..i /\ d[k] \in S /\ t[k] = rs[d[k]]
      BY <2>3, <2>5, <2>6, <3>1
    <3>4. d[m + 1] \in 1..i /\ d[m + 1] \in S /\ t[m + 1] = rs[d[m + 1]]
      BY <1>3, <2>3, <2>5, <3>2
    <3>5. QED
      BY <2>3, <3>3, <3>4
  <2>8. \A k, l \in 1..m + 1 : k < l => l - k <= d[l] - d[k]
    <3> SUFFICES ASSUME NEW k \in 1..m + 1, NEW l \in 1..m + 1, k < l PROVE l - k <= d[l] - d[k]
      OBVIOUS
    <3>1. k \in 1..m
      BY <2>1
    <3>2. CASE l = m + 1
      <4>1. CASE k = m
        BY <1>1, <2>1, <2>5, <2>6, <3>1, <3>2, <4>1
      <4>2. CASE k # m
        <5>1. m \in 1..m /\ k < m
          BY <3>1, <4>2
        <5>2. m - k <= e[m] - e[k]
          BY <2>1, <3>1, <5>1 DEF Maps
        <5>3. e[m] \in 1..i - 1 /\ e[k] \in 1..i - 1
          BY <2>6, <3>1, <5>1
        <5>4. m + 1 - k <= i - e[k]
          BY <1>1, <5>2, <5>3
        <5>5. QED
          BY <2>5, <3>1, <3>2, <5>4
      <4>3. QED
        BY <4>1, <4>2
    <3>3. CASE l # m + 1
      <4>1. l \in 1..m
        BY <2>3, <3>3
      <4>2. l - k <= e[l] - e[k]
        BY <2>1, <3>1, <4>1 DEF Maps
      <4>3. QED
        BY <2>5, <3>1, <4>1, <4>2
    <3>4. QED
      BY <3>2, <3>3
  <2>9. \A j \in 1..i : j \in S => \E k \in 1..m + 1 : d[k] = j
    <3> SUFFICES ASSUME NEW j \in 1..i, j \in S PROVE \E k \in 1..m + 1 : d[k] = j
      OBVIOUS
    <3>1. CASE j = i
      BY <2>1, <2>5, <3>1
    <3>2. CASE j # i
      <4>1. PICK k \in 1..m : e[k] = j
        BY <1>1, <2>1, <3>2 DEF Maps
      <4>2. k \in 1..m + 1 /\ d[k] = j
        BY <2>5, <4>1
      <4>3. QED
        BY <4>2
    <3>3. QED
      BY <3>1, <3>2
  <2>10. Maps(rs, S, i, t, d)
    BY <2>3, <2>7, <2>8, <2>9 DEF Maps
  <2>11. QED
    BY <1>3, <2>2, <2>10
<1>4. QED
  BY <1>2, <1>3

LEMMA PickedMaps ==
  ASSUME NEW T, NEW rs \in Seq(T), NEW S
  PROVE  Picked(rs, S) \in Seq(T) /\ \E e : Maps(rs, S, Len(rs), Picked(rs, S), e)
<1>1. PICK f : /\ Picks(rs, S, f) /\ Picked(rs, S) = f[Len(rs)]
               /\ \A i \in 0..Len(rs) : f[i] \in Seq(T)
  BY PickedEquation
<1>2. Len(rs) \in Nat
  BY LenProperties
<1> DEFINE lost == {i \in 0..Len(rs) : ~\E e : Maps(rs, S, i, f[i], e)}
<1>3. lost = {}
  <2> SUFFICES ASSUME lost # {} PROVE FALSE
    OBVIOUS
  <2>1. lost \in SUBSET Nat
    BY <1>2
  <2>2. PICK i \in lost : \A j \in lost : i <= j
    BY <2>1, LeastExists
  <2>3. i \in 0..Len(rs) /\ ~\E e : Maps(rs, S, i, f[i], e)
    OBVIOUS
  <2>4. i # 0
    <3>1. ASSUME i = 0 PROVE FALSE
      <4>1. Len(f[i]) = 0
        BY <1>1, <3>1 DEF Picks
      <4>2. Maps(rs, S, i, f[i], <<>>)
        BY <3>1, <4>1 DEF Maps
      <4>3. QED
        BY <2>3, <4>2
    <3>2. QED
      BY <3>1
  <2>5. i \in 1..Len(rs) /\ i - 1 \in 0..Len(rs) /\ ~(i <= i - 1)
    BY <1>2, <2>3, <2>4
  <2>6. i - 1 \notin lost
    BY <2>2, <2>5
  <2>7. PICK e : Maps(rs, S, i - 1, f[i - 1], e)
    BY <2>5, <2>6
  <2>8. PICK s \in Seq(T) : s = f[i - 1]
    BY <1>1, <2>5
  <2>9. \E d : Maps(rs, S, i, IF i \in S THEN Append(s, rs[i]) ELSE s, d)
    BY <2>5, <2>7, <2>8, MapsGrow
  <2>10. f[i] = IF i \in S THEN Append(s, rs[i]) ELSE s
    BY <1>1, <2>5, <2>8 DEF Picks
  <2>11. QED
    BY <2>3, <2>9, <2>10
<1>4. Len(rs) \in 0..Len(rs) /\ Len(rs) \notin lost
  BY <1>2, <1>3
<1> HIDE DEF lost
<1>5. \E e : Maps(rs, S, Len(rs), f[Len(rs)], e)
  BY <1>4 DEF lost
<1>6. QED
  BY <1>1, <1>4, <1>5

(* Who picks all gets all. *)
LEMMA AllPicked ==
  ASSUME NEW T, NEW rs \in Seq(T), NEW S, 1..Len(rs) \subseteq S
  PROVE  Picked(rs, S) = rs
<1>1. PICK p \in Seq(T) : p = Picked(rs, S)
  BY PickedMaps
<1>2. PICK e : Maps(rs, S, Len(rs), p, e)
  BY <1>1, PickedMaps
<1>3. PICK m \in Nat, n \in Nat : m = Len(p) /\ n = Len(rs)
  BY LenProperties
<1>4. /\ \A k \in 1..m : e[k] \in 1..n /\ p[k] = rs[e[k]]
      /\ \A k, l \in 1..m : k < l => l - k <= e[l] - e[k]
      /\ \A j \in 1..n : \E k \in 1..m : e[k] = j
  BY <1>2, <1>3 DEF Maps
<1> DEFINE moved == {k \in 1..m : e[k] # k}
<1>5. moved = {}
  <2> SUFFICES ASSUME moved # {} PROVE FALSE
    OBVIOUS
  <2>1. moved \in SUBSET Nat
    OBVIOUS
  <2>2. PICK k \in moved : \A j \in moved : k <= j
    BY <2>1, LeastExists
  <2>3. k \in 1..m /\ e[k] # k /\ e[k] \in 1..n
    BY <1>4
  <2>4. \A j \in 1..k - 1 : j \in 1..m /\ e[j] = j
    <3> SUFFICES ASSUME NEW j \in 1..k - 1 PROVE j \in 1..m /\ e[j] = j
      OBVIOUS
    <3>1. j \in 1..m /\ ~(k <= j)
      BY <2>3
    <3>2. QED
      BY <2>2, <3>1
  <2>5. e[k] > k
    <3>1. CASE e[k] < k
      <4>1. e[k] \in 1..k - 1 /\ e[k] < k
        BY <2>3, <3>1
      <4>2. PICK j \in 1..k - 1 : j = e[k]
        BY <4>1
      <4>3. j \in 1..m /\ e[j] = j /\ j < k
        BY <2>3, <2>4, <4>2
      <4>4. k - j <= e[k] - e[j]
        BY <1>4, <2>3, <4>3
      <4>5. QED
        BY <2>3, <4>2, <4>3, <4>4
    <3>2. QED
      BY <2>3, <3>1
  <2>6. k \in 1..n
    BY <2>3, <2>5
  <2>7. PICK l \in 1..m : e[l] = k
    BY <1>4, <2>6
  <2>8. CASE l < k
    <3>1. l \in 1..k - 1
      BY <2>3, <2>8
    <3>2. e[l] = l
      BY <2>4, <3>1
    <3>3. QED
      BY <2>3, <2>7, <2>8, <3>2
  <2>9. CASE l > k
    <3>1. l - k <= e[l] - e[k]
      BY <1>4, <2>3, <2>9
    <3>2. QED
      BY <2>3, <2>5, <2>7, <2>9, <3>1
  <2>10. CASE l = k
    BY <2>3, <2>7, <2>10
  <2>11. QED
    BY <2>3, <2>8, <2>9, <2>10
<1>6. \A k \in 1..m : e[k] = k
  BY <1>5
<1> HIDE DEF moved
<1>7. m = n
  <2>1. m <= n
    <3>1. CASE m = 0
      BY <3>1
    <3>2. CASE m # 0
      <4>1. m \in 1..m
        BY <3>2
      <4>2. e[m] = m /\ e[m] \in 1..n
        BY <1>4, <1>6, <4>1
      <4>3. QED
        BY <4>2
    <3>3. QED
      BY <3>1, <3>2
  <2>2. n <= m
    <3>1. CASE n = 0
      BY <3>1
    <3>2. CASE n # 0
      <4>1. n \in 1..n
        BY <3>2
      <4>2. PICK k \in 1..m : e[k] = n
        BY <1>4, <4>1
      <4>3. k = n
        BY <1>6, <4>2
      <4>4. QED
        BY <4>3
    <3>3. QED
      BY <3>1, <3>2
  <2>3. QED
    BY <2>1, <2>2
<1>8. \A k \in 1..m : p[k] = rs[k]
  BY <1>4, <1>6
<1>9. p = rs
  BY <1>3, <1>7, <1>8, SeqEqual
<1>10. QED
  BY <1>1, <1>9

-----------------------------------------------------------------------------
(* Messages that are kept together with their calls and results. *)

Alike(m, n) == m.role = n.role /\ m.calls = n.calls /\ m.call = n.call /\ m.large = n.large
Plain(m) == m.calls = {} /\ m.call = 0 /\ ~m.large

Embedded(t, s, e) ==
  /\ \A k \in 1..Len(t) : e[k] \in 1..Len(s) /\ Alike(t[k], s[e[k]])
  /\ \A k, l \in 1..Len(t) : k < l => l - k <= e[l] - e[k]
  /\ \A k \in 1..Len(t), j \in 1..Len(s) :
       s[j].call \in s[e[k]].calls \/ s[e[k]].call \in s[j].calls =>
         \E l \in 1..Len(t) : e[l] = j

LEMMA NoCallIsZero ==
  ASSUME NEW s \in Seq(MessageType), NEW i \in 1..Len(s)
  PROVE  /\ 0 \notin s[i].calls /\ s[i].call \in Nat /\ s[i].calls \in SUBSET Nat
         /\ s[i].large \in BOOLEAN /\ s[i].cut \in Nat
<1>1. s[i] \in MessageType
  BY ElementOfSeq
<1>2. QED
  BY <1>1 DEF MessageType

LEMMA CallsCounted ==
  ASSUME NEW s \in Seq(MessageType), Close(s), NEW i \in 1..Len(s), s[i].calls # {}
  PROVE  /\ Cardinality(s[i].calls) \in Nat /\ IsFiniteSet(s[i].calls)
         /\ s[i].role = "assistant" /\ s[i].call = 0
<1>1. i \in DOMAIN s
  BY LenProperties
<1>2. IsFiniteSet(s[i].calls) /\ s[i].role = "assistant" /\ s[i].call = 0
  BY <1>1 DEF Close
<1>3. QED
  BY <1>2, FS_CardinalityType

(* A message and the result of one of its calls, from the end of a result. *)
LEMMA ExchangesCarried ==
  ASSUME NEW s \in Seq(MessageType), NEW t \in Seq(MessageType), NEW e, NEW due,
         Exchanges(s, due), Embedded(t, s, e)
  PROVE  Exchanges(t, due)
<1>1. PICK n \in Nat, m \in Nat : n = Len(s) /\ m = Len(t) /\ DOMAIN s = 1..n /\ DOMAIN t = 1..m
  BY LenProperties
<1>2. \A k \in 1..m : /\ e[k] \in 1..n /\ t[k].role = s[e[k]].role /\ t[k].calls = s[e[k]].calls
                      /\ t[k].call = s[e[k]].call /\ t[k].large = s[e[k]].large
  BY <1>1 DEF Embedded, Alike
<1>3. \A k, l \in 1..m : k < l => l - k <= e[l] - e[k]
  BY <1>1 DEF Embedded
<1>4. \A k, l \in 1..m : /\ k < l => e[k] < e[l]
                         /\ e[k] < e[l] => k < l
                         /\ e[k] = e[l] => k = l
  <2> SUFFICES ASSUME NEW k \in 1..m, NEW l \in 1..m
               PROVE  (k < l => e[k] < e[l]) /\ (e[k] < e[l] => k < l) /\ (e[k] = e[l] => k = l)
    OBVIOUS
  <2>1. e[k] \in 1..n /\ e[l] \in 1..n
    BY <1>2
  <2>2. (k < l => l - k <= e[l] - e[k]) /\ (l < k => k - l <= e[k] - e[l])
    BY <1>3
  <2>3. QED
    BY <2>1, <2>2
<1>5. \A k \in 1..m, j \in 1..n :
        s[j].call \in s[e[k]].calls \/ s[e[k]].call \in s[j].calls => \E l \in 1..m : e[l] = j
  BY <1>1 DEF Embedded
<1>6. Close(t)
  <2> SUFFICES ASSUME NEW i \in 1..m
               PROVE  /\ \A j \in 1..i - 1 : t[i].call \in t[j].calls =>
                           \A k \in j + 1..i : t[k].call \in t[j].calls
                      /\ t[i].calls # {} =>
                           t[i].role = "assistant" /\ t[i].call = 0 /\ IsFiniteSet(t[i].calls)
                      /\ t[i].call # 0 => t[i].role = "tool"
                      /\ t[i].large => t[i].call # 0
    BY <1>1 DEF Close
  <2>1. e[i] \in DOMAIN s
    BY <1>1, <1>2
  <2>2. ASSUME NEW j \in 1..i - 1, t[i].call \in t[j].calls, NEW k \in j + 1..i
        PROVE  t[k].call \in t[j].calls
    <3>1. j \in 1..m /\ k \in 1..m /\ j < i /\ j < k /\ (k < i \/ k = i)
      BY <1>1, <2>2
    <3>2. e[j] < e[i] /\ e[j] < e[k] /\ (e[k] < e[i] \/ e[k] = e[i])
      BY <1>4, <3>1
    <3>3. e[i] \in 1..n /\ e[j] \in 1..n /\ e[k] \in 1..n
      BY <1>2, <3>1
    <3>4. e[j] \in 1..e[i] - 1 /\ e[k] \in e[j] + 1..e[i]
      BY <3>2, <3>3
    <3>5. s[e[i]].call \in s[e[j]].calls
      BY <1>2, <2>2, <3>1
    <3>6. s[e[k]].call \in s[e[j]].calls
      BY <2>1, <3>4, <3>5 DEF Exchanges, Close
    <3>7. QED
      BY <1>2, <3>1, <3>6
  <2>3. /\ s[e[i]].calls # {} =>
             s[e[i]].role = "assistant" /\ s[e[i]].call = 0 /\ IsFiniteSet(s[e[i]].calls)
        /\ s[e[i]].call # 0 => s[e[i]].role = "tool"
        /\ s[e[i]].large => s[e[i]].call # 0
    BY <2>1 DEF Exchanges, Close
  <2>4. QED
    BY <1>2, <2>2, <2>3
<1>7. ASSUME NEW i \in 1..m, NEW id \in t[i].calls \ due
      PROVE  \E j \in i + 1..i + Cardinality(t[i].calls) : j <= m /\ t[j].call = id
  <2>1. PICK x \in 1..n : x = e[i] /\ t[i].calls = s[x].calls
    BY <1>2
  <2>2. PICK c \in Nat : c = Cardinality(s[x].calls)
    <3>1. s[x].calls # {}
      BY <1>7, <2>1
    <3>2. QED
      BY <1>1, <3>1, CallsCounted DEF Exchanges
  <2>3. PICK y \in x + 1..x + c : y <= n /\ s[y].call = id
    BY <1>1, <1>7, <2>1, <2>2 DEF Exchanges
  <2>4. y \in 1..n /\ x < y /\ y - x <= c
    BY <1>1, <2>2, <2>3
  <2>5. s[y].call \in s[x].calls
    BY <1>7, <2>1, <2>3
  <2>6. PICK l \in 1..m : e[l] = y
    BY <1>5, <2>1, <2>4, <2>5
  <2>7. i < l /\ l - i <= y - x
    BY <1>3, <1>4, <2>1, <2>4, <2>6
  <2>8. l \in i + 1..i + c /\ l <= m
    BY <1>1, <2>2, <2>4, <2>7
  <2>9. t[l].call = id
    BY <1>2, <2>3, <2>6
  <2>10. QED
    BY <2>1, <2>2, <2>8, <2>9
<1>8. ASSUME NEW i \in 1..m, t[i].call # 0
      PROVE  /\ \E j \in 1..i - 1 : t[i].call \in t[j].calls
             /\ \A j \in 1..m : t[j].call = t[i].call => j = i
  <2>1. PICK x \in 1..n : x = e[i] /\ t[i].call = s[x].call
    BY <1>2
  <2>2. \A j \in 1..n : s[j].call = s[x].call => j = x
    BY <1>1, <1>8, <2>1 DEF Exchanges
  <2>3. ASSUME NEW j \in 1..m, t[j].call = t[i].call PROVE j = i
    <3>1. e[j] \in 1..n /\ s[e[j]].call = s[x].call
      BY <1>2, <2>1, <2>3
    <3>2. e[j] = e[i]
      BY <2>1, <2>2, <3>1
    <3>3. QED
      BY <1>4, <3>2
  <2>4. PICK y \in 1..x - 1 : s[x].call \in s[y].calls
    BY <1>1, <1>8, <2>1 DEF Exchanges
  <2>5. y \in 1..n /\ y < x
    BY <1>1, <2>4
  <2>6. PICK l \in 1..m : e[l] = y
    BY <1>5, <2>1, <2>4, <2>5
  <2>7. l < i
    BY <1>4, <2>1, <2>5, <2>6
  <2>8. l \in 1..i - 1 /\ t[i].call \in t[l].calls
    BY <1>1, <1>2, <2>1, <2>4, <2>6, <2>7
  <2>9. QED
    BY <2>3, <2>8
<1>9. QED
  BY <1>1, <1>6, <1>7, <1>8 DEF Exchanges

(* Messages that are not part of an exchange may stand before and after. *)
LEMMA PlainAround ==
  ASSUME NEW s \in Seq(MessageType), NEW u \in Seq(MessageType), NEW a \in Nat, NEW due,
         Exchanges(s, due), a + Len(s) <= Len(u),
         \A i \in 1..Len(s) : u[i + a] = s[i],
         \A i \in 1..Len(u) : i \in a + 1..a + Len(s) \/ Plain(u[i])
  PROVE  Exchanges(u, due)
<1>1. PICK n \in Nat, m \in Nat : n = Len(s) /\ m = Len(u) /\ DOMAIN s = 1..n /\ DOMAIN u = 1..m
  BY LenProperties
<1>2. \A i \in 1..m : (i - a \in 1..n /\ u[i] = s[i - a]) \/ Plain(u[i])
  <2> SUFFICES ASSUME NEW i \in 1..m, ~Plain(u[i]) PROVE i - a \in 1..n /\ u[i] = s[i - a]
    OBVIOUS
  <2>1. i \in a + 1..a + n
    BY <1>1
  <2>2. i - a \in 1..n /\ (i - a) + a = i
    BY <2>1
  <2>3. QED
    BY <1>1, <2>2
<1>3. Close(u)
  <2> SUFFICES ASSUME NEW i \in 1..m, ~Plain(u[i])
               PROVE  /\ \A j \in 1..i - 1 : u[i].call \in u[j].calls =>
                           \A k \in j + 1..i : u[k].call \in u[j].calls
                      /\ u[i].calls # {} =>
                           u[i].role = "assistant" /\ u[i].call = 0 /\ IsFiniteSet(u[i].calls)
                      /\ u[i].call # 0 => u[i].role = "tool"
                      /\ u[i].large => u[i].call # 0
    <3>1. ASSUME NEW i \in 1..m, Plain(u[i]), NEW j \in 1..i - 1
          PROVE  u[i].call \notin u[j].calls
      <4>1. j \in 1..Len(u)
        BY <1>1
      <4>2. QED
        BY <3>1, <4>1, NoCallIsZero DEF Plain
    <3>2. QED
      BY <1>1, <3>1 DEF Close, Plain
  <2>1. i - a \in 1..n /\ u[i] = s[i - a]
    BY <1>2
  <2>2. ASSUME NEW j \in 1..i - 1, u[i].call \in u[j].calls, NEW k \in j + 1..i
        PROVE  u[k].call \in u[j].calls
    <3>1. j \in 1..m /\ k \in 1..m
      BY <1>1
    <3>2. j - a \in 1..n /\ u[j] = s[j - a]
      BY <1>2, <2>2, <3>1 DEF Plain
    <3>3. k - a \in 1..n /\ (k - a) + a = k
      <4>1. j - a >= 1 /\ i - a <= n /\ j < k /\ k <= i
        BY <2>1, <3>2
      <4>2. QED
        BY <1>1, <3>1, <4>1
    <3>4. u[k] = s[k - a]
      BY <1>1, <3>3
    <3>5. j - a \in 1..(i - a) - 1 /\ k - a \in (j - a) + 1..i - a
      BY <2>1, <3>2, <3>3
    <3>6. s[i - a].call \in s[j - a].calls
      BY <2>1, <2>2, <3>2
    <3>7. s[k - a].call \in s[j - a].calls
      <4>1. PICK x, y, z : x = i - a /\ y = j - a /\ z = k - a
        OBVIOUS
      <4>2. x \in DOMAIN s /\ y \in 1..x - 1 /\ z \in y + 1..x /\ s[x].call \in s[y].calls
        BY <1>1, <2>1, <3>5, <3>6, <4>1
      <4>3. s[z].call \in s[y].calls
        BY <4>2 DEF Exchanges, Close
      <4>4. QED
        BY <4>1, <4>3
    <3>8. QED
      BY <3>2, <3>4, <3>7
  <2>3. PICK x \in 1..n : x = i - a /\ u[i] = s[x]
    BY <2>1
  <2>4. /\ s[x].calls # {} => s[x].role = "assistant" /\ s[x].call = 0 /\ IsFiniteSet(s[x].calls)
        /\ s[x].call # 0 => s[x].role = "tool"
        /\ s[x].large => s[x].call # 0
    BY <1>1 DEF Exchanges, Close
  <2>5. QED
    BY <2>2, <2>3, <2>4
<1>4. ASSUME NEW i \in 1..m, NEW id \in u[i].calls \ due
      PROVE  \E j \in i + 1..i + Cardinality(u[i].calls) : j <= m /\ u[j].call = id
  <2>1. i - a \in 1..n /\ u[i] = s[i - a]
    BY <1>2, <1>4 DEF Plain
  <2>2. PICK x \in 1..n : x = i - a /\ u[i] = s[x]
    BY <2>1
  <2>3. s[x].calls # {}
    BY <1>4, <2>2
  <2>4. PICK c \in Nat : c = Cardinality(s[x].calls)
    BY <1>1, <2>3, CallsCounted DEF Exchanges
  <2>5. PICK y \in x + 1..x + c : y <= n /\ s[y].call = id
    BY <1>1, <1>4, <2>2, <2>4 DEF Exchanges
  <2>6. y \in 1..n
    BY <2>4, <2>5
  <2>7. y + a \in i + 1..i + c /\ y + a <= m
    BY <1>1, <2>2, <2>4, <2>5
  <2>8. u[y + a].call = id
    BY <1>1, <2>5, <2>6
  <2>9. QED
    BY <2>2, <2>4, <2>7, <2>8
<1>5. ASSUME NEW i \in 1..m, u[i].call # 0
      PROVE  /\ \E j \in 1..i - 1 : u[i].call \in u[j].calls
             /\ \A j \in 1..m : u[j].call = u[i].call => j = i
  <2>1. i - a \in 1..n /\ u[i] = s[i - a]
    BY <1>2, <1>5 DEF Plain
  <2>2. PICK x \in 1..n : x = i - a /\ u[i] = s[x]
    BY <2>1
  <2>3. /\ \E y \in 1..x - 1 : s[x].call \in s[y].calls
        /\ \A y \in 1..n : s[y].call = s[x].call => y = x
    BY <1>1, <1>5, <2>2 DEF Exchanges
  <2>4. PICK y \in 1..x - 1 : s[x].call \in s[y].calls
    BY <2>3
  <2>5. y \in 1..n /\ y + a \in 1..i - 1
    BY <2>2, <2>4
  <2>6. u[i].call \in u[y + a].calls
    BY <1>1, <2>2, <2>4, <2>5
  <2>7. ASSUME NEW j \in 1..m, u[j].call = u[i].call PROVE j = i
    <3>1. j - a \in 1..n /\ u[j] = s[j - a]
      BY <1>2, <1>5, <2>7 DEF Plain
    <3>2. j - a = x
      BY <2>2, <2>3, <2>7, <3>1
    <3>3. QED
      BY <2>2, <3>2
  <2>8. QED
    BY <2>5, <2>6, <2>7
<1>6. QED
  BY <1>1, <1>3, <1>4, <1>5 DEF Exchanges

-----------------------------------------------------------------------------
(* What is added at the end. *)

Said(m) == m.role # "system" /\ m.cut = 0
Adds(add) == add \in Seq(MessageType) /\ \A i \in 1..Len(add) : Said(add[i])
Remarks(add) == Adds(add) /\ \A i \in 1..Len(add) : Plain(add[i])

LEMMA Joined ==
  ASSUME NEW s \in Seq(MessageType), NEW t \in Seq(MessageType)
  PROVE  /\ s \o t \in Seq(MessageType) /\ Len(s \o t) = Len(s) + Len(t)
         /\ Len(s) \in Nat /\ Len(t) \in Nat
         /\ \A i \in 1..Len(s) : (s \o t)[i] = s[i]
         /\ \A i \in Len(s) + 1..Len(s) + Len(t) : (s \o t)[i] = t[i - Len(s)]
         /\ \A i \in 1..Len(s) + Len(t) :
              i \in 1..Len(s) \/ (i \in Len(s) + 1..Len(s) + Len(t) /\ i - Len(s) \in 1..Len(t))
<1>1. Len(s) \in Nat /\ Len(t) \in Nat
  BY LenProperties
<1>2. s \o t \in Seq(MessageType) /\ Len(s \o t) = Len(s) + Len(t)
  BY ConcatProperties
<1>3. \A i \in 1..Len(s) + Len(t) : (s \o t)[i] = IF i <= Len(s) THEN s[i] ELSE t[i - Len(s)]
  BY ConcatProperties
<1>4. QED
  BY <1>1, <1>2, <1>3

LEMMA OneMessage ==
  ASSUME NEW m \in MessageType, NEW b
  PROVE  /\ If(b, m) \in Seq(MessageType) /\ \A i \in 1..Len(If(b, m)) : If(b, m)[i] = m
         /\ Len(If(b, m)) = IF b THEN 1 ELSE 0
         /\ <<m>> \in Seq(MessageType) /\ Len(<<m>>) = 1 /\ \A i \in 1..1 : <<m>>[i] = m
BY DEF If

LEMMA MessagesTyped ==
  ASSUME NEW role \in {"system", "user", "assistant", "tool"}, NEW text \in Texts
  PROVE  /\ Message(role, text) \in MessageType /\ Plain(Message(role, text))
         /\ Message(role, text).cut = 0 /\ Message(role, text).role = role
BY DEF Message, MessageType, Plain

LEMMA RemarksSaid ==
  ASSUME NEW m \in {Recall, Feedback, Text}, NEW b
  PROVE  Remarks(If(b, m)) /\ Remarks(<<m>>)
<1>1. m \in MessageType /\ Plain(m) /\ Said(m)
  <2> DEFINE Roles == {"system", "user", "assistant", "tool"}
  <2>1. /\ "user" \in Roles /\ "assistant" \in Roles /\ "user" # "system" /\ "assistant" # "system"
        /\ "recall" \in Texts /\ "feedback" \in Texts /\ "text" \in Texts
    BY DEF Texts
  <2>2. CASE m = Recall
    <3>1. PICK r \in Roles, t \in Texts : r = "user" /\ t = "recall" /\ r # "system"
      BY <2>1
    <3>2. m = Message(r, t)
      BY <2>2, <3>1 DEF Recall
    <3>3. QED
      BY <3>1, <3>2, MessagesTyped DEF Said
  <2>3. CASE m = Feedback
    <3>1. PICK r \in Roles, t \in Texts : r = "user" /\ t = "feedback" /\ r # "system"
      BY <2>1
    <3>2. m = Message(r, t)
      BY <2>3, <3>1 DEF Feedback
    <3>3. QED
      BY <3>1, <3>2, MessagesTyped DEF Said
  <2>4. CASE m = Text
    <3>1. PICK r \in Roles, t \in Texts : r = "assistant" /\ t = "text" /\ r # "system"
      BY <2>1
    <3>2. m = Message(r, t)
      BY <2>4, <3>1 DEF Text
    <3>3. QED
      BY <3>1, <3>2, MessagesTyped DEF Said
  <2>5. QED
    BY <2>2, <2>3, <2>4
<1>2. QED
  BY <1>1, OneMessage DEF Remarks, Adds

LEMMA PlainKeepsExchanges ==
  ASSUME NEW s \in Seq(MessageType), NEW add \in Seq(MessageType), \A i \in 1..Len(add) : Plain(add[i]),
         NEW due, Exchanges(s, due)
  PROVE  Exchanges(s \o add, due)
<1>1. add \in Seq(MessageType) /\ \A i \in 1..Len(add) : Plain(add[i])
  OBVIOUS
<1>2. PICK u : u = s \o add
  OBVIOUS
<1>3. /\ u \in Seq(MessageType) /\ Len(u) = Len(s) + Len(add) /\ Len(s) \in Nat /\ Len(add) \in Nat
      /\ \A i \in 1..Len(s) : u[i] = s[i]
      /\ \A i \in Len(s) + 1..Len(s) + Len(add) : u[i] = add[i - Len(s)]
      /\ \A i \in 1..Len(s) + Len(add) :
           i \in 1..Len(s) \/ (i \in Len(s) + 1..Len(s) + Len(add) /\ i - Len(s) \in 1..Len(add))
  BY <1>1, <1>2, Joined
<1>4. 0 + Len(s) <= Len(u) /\ \A i \in 1..Len(s) : u[i + 0] = s[i]
  BY <1>3
<1>5. \A i \in 1..Len(u) : i \in 0 + 1..0 + Len(s) \/ Plain(u[i])
  BY <1>1, <1>3
<1>6. Exchanges(u, due)
  BY <1>3, <1>4, <1>5, PlainAround
<1>7. QED
  BY <1>2, <1>6

LEMMA RemarksKeepExchanges ==
  ASSUME NEW s \in Seq(MessageType), NEW add, Remarks(add), NEW due, Exchanges(s, due)
  PROVE  Exchanges(s \o add, due)
BY PlainKeepsExchanges DEF Remarks, Adds

(* The same is added to what is left and to the log. *)
LEMMA AddedAfterLead ==
  ASSUME NEW s \in Seq(MessageType), NEW add, Adds(add), NEW h \in Nat, LeadIs(s, h)
  PROVE  LeadIs(s \o add, h)
<1>1. add \in Seq(MessageType) /\ \A i \in 1..Len(add) : add[i].role # "system"
  BY DEF Adds, Said
<1>2. PICK u : u = s \o add
  OBVIOUS
<1>3. /\ Len(u) = Len(s) + Len(add) /\ Len(s) \in Nat /\ Len(add) \in Nat
      /\ \A i \in 1..Len(s) : u[i] = s[i]
      /\ \A i \in Len(s) + 1..Len(s) + Len(add) : u[i] = add[i - Len(s)]
  BY <1>1, <1>2, Joined
<1>4. h < Len(u) => u[h + 1].role # "system"
  <2>1. CASE h < Len(s)
    <3>1. h + 1 \in 1..Len(s)
      BY <1>3, <2>1
    <3>2. QED
      BY <1>3, <2>1, <3>1 DEF LeadIs
  <2>2. CASE h = Len(s)
    <3> SUFFICES ASSUME h < Len(u) PROVE u[h + 1].role # "system"
      OBVIOUS
    <3>1. h + 1 \in Len(s) + 1..Len(s) + Len(add) /\ (h + 1) - Len(s) = 1 /\ 1 \in 1..Len(add)
      BY <1>3, <2>2
    <3>2. QED
      BY <1>1, <1>3, <3>1
  <2>3. QED
    BY <1>3, <2>1, <2>2 DEF LeadIs
<1>5. \A i \in 1..h : i \in 1..Len(s)
  BY <1>3 DEF LeadIs
<1>6. LeadIs(u, h)
  BY <1>3, <1>4, <1>5 DEF LeadIs
<1>7. QED
  BY <1>2, <1>6

LEMMA AddedToBoth ==
  ASSUME NEW s \in Seq(MessageType), NEW all \in Seq(MessageType), NEW add, Adds(add),
         NEW h \in Nat, Later(s, all, h)
  PROVE  Later(s \o add, all \o add, h)
<1>1. add \in Seq(MessageType)
  BY DEF Adds
<1>2. PICK u, v : u = s \o add /\ v = all \o add
  OBVIOUS
<1>3. PICK a \in Nat, b \in Nat, d \in Nat : a = Len(s) /\ b = Len(all) /\ d = Len(add)
  BY <1>1, LenProperties
<1>4. /\ Len(u) = a + d /\ Len(v) = b + d
      /\ \A i \in 1..a : u[i] = s[i]
      /\ \A i \in a + 1..a + d : u[i] = add[i - a]
      /\ \A i \in 1..b : v[i] = all[i]
      /\ \A i \in b + 1..b + d : v[i] = add[i - b]
  BY <1>1, <1>2, <1>3, Joined
<1>5. LeadIs(u, h) /\ a <= b
  BY <1>2, <1>3, AddedAfterLead DEF Later
<1>6. ASSUME NEW i \in h + 1..a + d PROVE Whole(u[i]) = Whole(v[i + (b + d) - (a + d)])
  <2>1. PICK x \in Nat : x = i + b - a
    <3>1. h >= 0 /\ i >= h + 1 /\ a <= b /\ i \in Int
      BY <1>5
    <3>2. i + b - a \in Nat
      BY <3>1
    <3>3. QED
      BY <3>2
  <2>2. i + (b + d) - (a + d) = x
    BY <2>1
  <2>3. CASE i <= a
    <3>1. i \in h + 1..a /\ i \in 1..a /\ x \in 1..b
      BY <1>5, <2>1, <2>3
    <3>2. Whole(s[i]) = Whole(all[x])
      BY <1>3, <2>1, <3>1 DEF Later
    <3>3. QED
      BY <1>4, <2>2, <3>1, <3>2
  <2>4. CASE i > a
    <3>1. i \in a + 1..a + d /\ x \in b + 1..b + d /\ x - b = i - a
      BY <1>5, <2>1, <2>4
    <3>2. QED
      BY <1>4, <2>2, <3>1
  <2>5. QED
    BY <2>3, <2>4
<1>7. Later(u, v, h)
  BY <1>4, <1>5, <1>6 DEF Later
<1>8. QED
  BY <1>2, <1>7

LEMMA LaterStill ==
  ASSUME NEW s \in Seq(MessageType), NEW t \in Seq(MessageType), NEW all \in Seq(MessageType),
         NEW h \in Nat, Later(s, all, h), Later(t, s, h)
  PROVE  Later(t, all, h)
<1>1. PICK a \in Nat, b \in Nat, d \in Nat : a = Len(s) /\ b = Len(all) /\ d = Len(t)
  BY LenProperties
<1>2. a <= b /\ d <= a
  BY <1>1 DEF Later
<1>3. ASSUME NEW i \in h + 1..d PROVE Whole(t[i]) = Whole(all[i + b - d])
  <2>1. PICK x \in Nat : x = i + a - d
    BY <1>2
  <2>2. x \in h + 1..a /\ x + b - a = i + b - d
    BY <1>2, <2>1
  <2>3. Whole(t[i]) = Whole(s[x])
    BY <1>1, <2>1 DEF Later
  <2>4. Whole(s[x]) = Whole(all[x + b - a])
    BY <1>1, <2>2 DEF Later
  <2>5. QED
    BY <2>2, <2>3, <2>4
<1>4. LeadIs(t, h) /\ d <= b
  BY <1>2 DEF Later
<1>5. QED
  BY <1>1, <1>3, <1>4 DEF Later

LEMMA WithMemory ==
  ASSUME NEW mem \in MemoryType, NEW add \in Seq(MessageType)
  PROVE  /\ With(mem, add) \in MemoryType /\ With(mem, add).messages = mem.messages \o add
         /\ With(mem, add).full = mem.full /\ With(mem, add).shrunk = mem.shrunk
         /\ mem.messages \in Seq(MessageType)
<1>1. PICK s \in Seq(MessageType) : s = mem.messages
  BY DEF MemoryType
<1>2. s \o add \in Seq(MessageType)
  BY Joined
<1>3. With(mem, add) = [mem EXCEPT !.messages = s \o add]
  BY <1>1 DEF With
<1>4. QED
  BY <1>1, <1>2, <1>3 DEF MemoryType

LEMMA CutsStayKnown ==
  ASSUME NEW mem \in MemoryType, NEW add \in Seq(MessageType),
         \A i \in 1..Len(add) : add[i].cut = 0, NEW e \in Nat, e >= 1, CutKnown(mem, e)
  PROVE  CutKnown(With(mem, add), e)
<1>1. add \in Seq(MessageType) /\ \A i \in 1..Len(add) : add[i].cut = 0
  OBVIOUS
<1>2. PICK u, s : u = With(mem, add) /\ s = mem.messages
  OBVIOUS
<1>3. u.messages = s \o add /\ u.full = mem.full /\ u.shrunk = mem.shrunk /\ s \in Seq(MessageType)
  BY <1>1, <1>2, WithMemory
<1>4. PICK v : v = u.messages
  OBVIOUS
<1>5. /\ Len(v) = Len(s) + Len(add) /\ \A i \in 1..Len(s) : v[i] = s[i]
      /\ \A i \in Len(s) + 1..Len(s) + Len(add) : v[i] = add[i - Len(s)]
      /\ \A i \in 1..Len(s) + Len(add) :
              i \in 1..Len(s) \/ (i \in Len(s) + 1..Len(s) + Len(add) /\ i - Len(s) \in 1..Len(add))
  BY <1>1, <1>3, <1>4, Joined
<1>6. ASSUME NEW i \in 1..Len(v)
      PROVE  /\ v[i].cut <= e
             /\ v[i].cut = e =>
                  /\ v[i].call \in mem.shrunk \cap DOMAIN mem.full /\ v[i].call # 0
                  /\ mem.full[v[i].call] = "whole"
  <2>1. CASE i \in 1..Len(s)
    BY <1>2, <1>5, <2>1 DEF CutKnown
  <2>2. CASE i \in Len(s) + 1..Len(s) + Len(add) /\ i - Len(s) \in 1..Len(add)
    <3>1. v[i].cut = 0
      BY <1>1, <1>5, <2>2
    <3>2. QED
      BY <3>1
  <2>3. QED
    BY <1>5, <2>1, <2>2
<1>7. CutKnown(u, e)
  BY <1>3, <1>4, <1>6 DEF CutKnown
<1>8. QED
  BY <1>2, <1>7

LEMMA NumbersAdded ==
  ASSUME NEW s \in Seq(MessageType), NEW add \in Seq(MessageType), NEW n, Numbered(s, n), Numbered(add, n)
  PROVE  Numbered(s \o add, n)
<1>1. PICK v : v = s \o add
  OBVIOUS
<1>2. /\ Len(v) = Len(s) + Len(add) /\ \A i \in 1..Len(s) : v[i] = s[i]
      /\ \A i \in Len(s) + 1..Len(s) + Len(add) : v[i] = add[i - Len(s)]
      /\ \A i \in 1..Len(s) + Len(add) :
              i \in 1..Len(s) \/ (i \in Len(s) + 1..Len(s) + Len(add) /\ i - Len(s) \in 1..Len(add))
  BY <1>1, Joined
<1>3. ASSUME NEW i \in 1..Len(v) PROVE \A id \in IdsOf(v[i]) : id <= n
  <2>1. CASE i \in 1..Len(s)
    BY <1>2, <2>1 DEF Numbered
  <2>2. CASE i \in Len(s) + 1..Len(s) + Len(add) /\ i - Len(s) \in 1..Len(add)
    BY <1>2, <2>2 DEF Numbered
  <2>3. QED
    BY <1>2, <2>1, <2>2
<1>4. QED
  BY <1>1, <1>3 DEF Numbered

LEMMA PlainNumbered ==
  ASSUME NEW add, \A i \in 1..Len(add) : Plain(add[i]), NEW n
  PROVE  Numbered(add, n)
BY DEF Plain, Numbered, IdsOf

-----------------------------------------------------------------------------
(* Cutting the large results. *)

LEMMA CutMessage ==
  ASSUME NEW m \in MessageType, era \in Nat
  PROVE  /\ [m EXCEPT !.cut = era] \in MessageType /\ [m EXCEPT !.cut = era].cut = era
         /\ Alike([m EXCEPT !.cut = era], m) /\ Whole([m EXCEPT !.cut = era]) = Whole(m)
BY DEF MessageType, Alike, Whole

LEMMA MessagesCut ==
  ASSUME NEW mem \in MemoryType, era \in Nat,
         NEW s, s = mem.messages, NEW t, t = Shrink(mem).messages
  PROVE  /\ s \in Seq(MessageType) /\ t \in Seq(MessageType) /\ Len(t) = Len(s)
         /\ \A i \in 1..Len(s) :
              /\ Alike(t[i], s[i]) /\ Whole(t[i]) = Whole(s[i])
              /\ t[i].cut = IF i \in Cuttable(mem) /\ s[i].cut = 0 THEN era ELSE s[i].cut
<1>1. s \in Seq(MessageType)
  BY DEF MemoryType
<1>2. PICK n \in Nat : n = Len(s) /\ DOMAIN s = 1..n
  BY <1>1, LenProperties
<1>3. t = [i \in 1..n |-> IF i \in Cuttable(mem) /\ s[i].cut = 0 THEN [s[i] EXCEPT !.cut = era] ELSE s[i]]
  BY <1>2 DEF Shrink
<1>4. \A i \in 1..n : s[i] \in MessageType
  BY <1>1, <1>2, ElementOfSeq
<1>5. ASSUME NEW i \in 1..n
      PROVE  /\ t[i] \in MessageType /\ Alike(t[i], s[i]) /\ Whole(t[i]) = Whole(s[i])
             /\ t[i].cut = IF i \in Cuttable(mem) /\ s[i].cut = 0 THEN era ELSE s[i].cut
  <2>1. CASE i \in Cuttable(mem) /\ s[i].cut = 0
    <3>1. t[i] = [s[i] EXCEPT !.cut = era]
      BY <1>3, <2>1
    <3>2. QED
      BY <1>4, <2>1, <3>1, CutMessage
  <2>2. CASE ~(i \in Cuttable(mem) /\ s[i].cut = 0)
    <3>1. t[i] = s[i]
      BY <1>3, <2>2
    <3>2. QED
      BY <1>4, <2>2, <3>1 DEF Alike
  <2>3. QED
    BY <2>1, <2>2
<1>6. t \in [1..n -> MessageType]
  BY <1>3, <1>5
<1>7. t \in Seq(MessageType)
  BY <1>6, SeqDef
<1>8. Len(t) = n
  BY <1>6, <1>7, LenProperties
<1>9. QED
  BY <1>1, <1>2, <1>5, <1>7, <1>8

CutCalls(mem) == {mem.messages[i].call : i \in Cuttable(mem)}

LEMMA TextsKept ==
  ASSUME NEW mem \in MemoryType
  PROVE  /\ Shrink(mem).shrunk = mem.shrunk \cup CutCalls(mem)
         /\ DOMAIN Shrink(mem).full = CutCalls(mem) \cup DOMAIN mem.full
         /\ \A id \in CutCalls(mem) : \E i \in Cuttable(mem) :
              mem.messages[i].call = id /\ Shrink(mem).full[id] = Kept(mem.messages[i])
         /\ \A id \in DOMAIN mem.full \ CutCalls(mem) : Shrink(mem).full[id] = mem.full[id]
         /\ Shrink(mem) = [messages |-> Shrink(mem).messages, full |-> Shrink(mem).full,
                           shrunk |-> Shrink(mem).shrunk]
         /\ Shrink(mem).full = [id \in CutCalls(mem) \cup DOMAIN mem.full |-> Shrink(mem).full[id]]
<1> PICK s, calls : s = mem.messages /\ calls = CutCalls(mem)
  OBVIOUS
<1>0. calls = {s[i].call : i \in Cuttable(mem)}
  BY DEF CutCalls
<1> DEFINE cutOf(id) == CHOOSE i \in Cuttable(mem) : s[i].call = id
<1>1. \A id \in calls : cutOf(id) \in Cuttable(mem) /\ s[cutOf(id)].call = id
  BY <1>0
<1>2. Shrink(mem).full = [id \in calls \cup DOMAIN mem.full |->
                            IF id \in calls THEN Kept(s[cutOf(id)]) ELSE mem.full[id]]
  BY <1>0 DEF Shrink
<1>3. \A id \in calls : Shrink(mem).full[id] = Kept(s[cutOf(id)])
  BY <1>2
<1> HIDE DEF cutOf
<1>4. \A id \in calls : \E i \in Cuttable(mem) : s[i].call = id /\ Shrink(mem).full[id] = Kept(s[i])
  BY <1>1, <1>3
<1>5. /\ DOMAIN Shrink(mem).full = calls \cup DOMAIN mem.full
      /\ \A id \in DOMAIN mem.full \ calls : Shrink(mem).full[id] = mem.full[id]
      /\ Shrink(mem).full = [id \in calls \cup DOMAIN mem.full |-> Shrink(mem).full[id]]
  BY <1>2
<1>6. Shrink(mem).shrunk = mem.shrunk \cup calls
  BY <1>0 DEF Shrink
<1>7. Shrink(mem) = [messages |-> Shrink(mem).messages, full |-> Shrink(mem).full,
                     shrunk |-> Shrink(mem).shrunk]
  BY DEF Shrink
<1>8. QED
  BY <1>4, <1>5, <1>6, <1>7

LEMMA ShrinkTyped ==
  ASSUME NEW mem \in MemoryType, era \in Nat
  PROVE  Shrink(mem) \in MemoryType
<1>1. PICK s, calls : s = mem.messages /\ calls = CutCalls(mem)
  OBVIOUS
<1>2. s \in Seq(MessageType) /\ Shrink(mem).messages \in Seq(MessageType)
  BY <1>1, MessagesCut
<1>3. /\ Shrink(mem).shrunk = mem.shrunk \cup calls
      /\ \A id \in calls : \E i \in Cuttable(mem) :
           s[i].call = id /\ Shrink(mem).full[id] = Kept(s[i])
      /\ \A id \in DOMAIN mem.full \ calls : Shrink(mem).full[id] = mem.full[id]
      /\ Shrink(mem) = [messages |-> Shrink(mem).messages, full |-> Shrink(mem).full,
                        shrunk |-> Shrink(mem).shrunk]
      /\ Shrink(mem).full = [id \in calls \cup DOMAIN mem.full |-> Shrink(mem).full[id]]
  BY <1>1, TextsKept
<1>4. calls \subseteq Nat
  <2>1. \A i \in Cuttable(mem) : i \in 1..Len(s)
    BY <1>1, <1>2, LenProperties DEF Cuttable
  <2>2. QED
    BY <1>1, <1>2, <2>1, NoCallIsZero DEF CutCalls
<1>5. PICK S \in SUBSET Nat : mem.full \in [S -> {"whole", "rest"}]
  BY DEF MemoryType
<1>6. DOMAIN mem.full = S /\ \A id \in S : mem.full[id] \in {"whole", "rest"}
  BY <1>5
<1>7. \A id \in calls \cup S : Shrink(mem).full[id] \in {"whole", "rest"}
  BY <1>3, <1>6 DEF Kept
<1>8. Shrink(mem).full \in [calls \cup S -> {"whole", "rest"}]
  BY <1>3, <1>6, <1>7
<1>9. PICK U \in SUBSET Nat : U = calls \cup S
  BY <1>4
<1>10. Shrink(mem).full \in UNION {[V -> {"whole", "rest"}] : V \in SUBSET Nat}
  BY <1>8, <1>9
<1>11. Shrink(mem).shrunk \in SUBSET Nat
  BY <1>3, <1>4 DEF MemoryType
<1>12. QED
  BY <1>2, <1>3, <1>10, <1>11 DEF MemoryType

(* The whole text of what is cut now is kept, and that of what was cut     *)
(* before is not replaced.                                                 *)
LEMMA ShrinkKeepsTexts ==
  ASSUME NEW mem \in MemoryType, era \in Nat, era >= 2, CutKnown(mem, era), Orderly(mem.messages)
  PROVE  CutKnown(Shrink(mem), era)
<1>1. PICK s, calls, t, cut : /\ s = mem.messages /\ calls = CutCalls(mem)
                              /\ t = Shrink(mem).messages /\ cut = Cuttable(mem)
  OBVIOUS
<1>2. /\ s \in Seq(MessageType) /\ t \in Seq(MessageType) /\ Len(t) = Len(s)
      /\ \A i \in 1..Len(s) : /\ Alike(t[i], s[i])
                              /\ t[i].cut = IF i \in cut /\ s[i].cut = 0 THEN era ELSE s[i].cut
  BY <1>1, MessagesCut
<1>3. /\ Shrink(mem).shrunk = mem.shrunk \cup calls
      /\ DOMAIN Shrink(mem).full = calls \cup DOMAIN mem.full
      /\ \A id \in calls : \E i \in cut : s[i].call = id /\ Shrink(mem).full[id] = Kept(s[i])
      /\ \A id \in DOMAIN mem.full \ calls : Shrink(mem).full[id] = mem.full[id]
  <2>1. /\ Shrink(mem).shrunk = mem.shrunk \cup calls
        /\ DOMAIN Shrink(mem).full = calls \cup DOMAIN mem.full
        /\ \A id \in calls : \E i \in Cuttable(mem) :
             s[i].call = id /\ Shrink(mem).full[id] = Kept(s[i])
        /\ \A id \in DOMAIN mem.full \ calls : Shrink(mem).full[id] = mem.full[id]
    <3>1. s = mem.messages /\ calls = CutCalls(mem)
      BY <1>1
    <3>2. Shrink(mem).shrunk = mem.shrunk \cup calls
      BY <3>1, TextsKept
    <3>3. DOMAIN Shrink(mem).full = calls \cup DOMAIN mem.full
      BY <3>1, TextsKept
    <3>4. \A id \in calls : \E i \in Cuttable(mem) :
             s[i].call = id /\ Shrink(mem).full[id] = Kept(s[i])
      <4>1. \A id \in CutCalls(mem) : \E i \in Cuttable(mem) :
              mem.messages[i].call = id /\ Shrink(mem).full[id] = Kept(mem.messages[i])
        BY TextsKept
      <4>2. QED
        BY <3>1, <4>1
    <3>5. \A id \in DOMAIN mem.full \ calls : Shrink(mem).full[id] = mem.full[id]
      BY <3>1, TextsKept
    <3>6. QED
      BY <3>2, <3>3, <3>4, <3>5
  <2>2. QED
    BY <1>1, <2>1
<1>4. \A i \in 1..Len(s) : s[i].call # 0 => \A j \in 1..Len(s) : s[j].call = s[i].call => j = i
  BY <1>1 DEF Orderly, Exchanges
<1>5. \A i \in cut : i \in 1..Len(s) /\ s[i].call # 0 /\ s[i].call \notin mem.shrunk
  <2>1. \A i \in cut : i \in DOMAIN s /\ s[i].large /\ s[i].call \notin mem.shrunk
    BY <1>1 DEF Cuttable
  <2>2. QED
    BY <1>1, <1>2, <2>1, LenProperties DEF Orderly, Exchanges, Close
<1>6. ASSUME NEW i \in 1..Len(t)
      PROVE  /\ t[i].cut <= era
             /\ t[i].cut = era =>
                  /\ t[i].call \in Shrink(mem).shrunk \cap DOMAIN Shrink(mem).full /\ t[i].call # 0
                  /\ Shrink(mem).full[t[i].call] = "whole"
  <2>1. i \in 1..Len(s) /\ t[i].call = s[i].call
    BY <1>2 DEF Alike
  <2>2. /\ s[i].cut <= era
        /\ s[i].cut = era => /\ s[i].call \in mem.shrunk \cap DOMAIN mem.full /\ s[i].call # 0
                             /\ mem.full[s[i].call] = "whole"
    BY <1>1, <2>1 DEF CutKnown
  <2>3. CASE i \in cut /\ s[i].cut = 0
    <3>1. t[i].cut = era /\ s[i].call \in calls /\ s[i].call # 0
      BY <1>1, <1>2, <1>5, <2>1, <2>3 DEF CutCalls
    <3>2. PICK j \in cut : s[j].call = s[i].call /\ Shrink(mem).full[s[i].call] = Kept(s[j])
      BY <1>3, <3>1
    <3>3. j = i
      BY <1>4, <1>5, <2>1, <3>1, <3>2
    <3>4. Shrink(mem).full[s[i].call] = "whole"
      BY <2>3, <3>2, <3>3 DEF Kept
    <3>5. QED
      BY <1>3, <2>1, <3>1, <3>4
  <2>4. CASE ~(i \in cut /\ s[i].cut = 0)
    <3>1. t[i].cut = s[i].cut
      BY <1>2, <2>1, <2>4
    <3>2. CASE s[i].cut = era
      <4>1. s[i].call \notin calls
        BY <1>1, <1>5, <2>2, <3>2 DEF CutCalls
      <4>2. Shrink(mem).full[s[i].call] = "whole"
        BY <1>3, <2>2, <3>2, <4>1
      <4>3. QED
        BY <1>3, <2>1, <2>2, <3>1, <3>2, <4>2
    <3>3. QED
      BY <2>2, <3>1, <3>2
  <2>5. QED
    BY <2>3, <2>4
<1>7. QED
  BY <1>1, <1>6 DEF CutKnown

LEMMA ShrinkKeepsOrder ==
  ASSUME NEW mem \in MemoryType, era \in Nat, Orderly(mem.messages)
  PROVE  Orderly(Shrink(mem).messages)
<1>1. PICK s, t : s = mem.messages /\ t = Shrink(mem).messages
  OBVIOUS
<1>2. /\ s \in Seq(MessageType) /\ t \in Seq(MessageType) /\ Len(t) = Len(s)
      /\ \A i \in 1..Len(s) : Alike(t[i], s[i])
  BY <1>1, MessagesCut
<1>3. PICK n \in Nat : n = Len(s)
  BY <1>2, LenProperties
<1>4. PICK e : e = [i \in 1..n |-> i]
  OBVIOUS
<1>5. \A i \in 1..n : e[i] = i
  BY <1>4
<1>6. Embedded(t, s, e)
  BY <1>2, <1>3, <1>5 DEF Embedded
<1>7. QED
  BY <1>1, <1>2, <1>6, ExchangesCarried DEF Orderly

LEMMA ShrinkKeepsNumbers ==
  ASSUME NEW mem \in MemoryType, era \in Nat, NEW n, Numbered(mem.messages, n)
  PROVE  Numbered(Shrink(mem).messages, n)
<1>1. PICK s, t : s = mem.messages /\ t = Shrink(mem).messages
  OBVIOUS
<1>2. Len(t) = Len(s) /\ \A i \in 1..Len(s) : Alike(t[i], s[i])
  BY <1>1, MessagesCut
<1>3. QED
  BY <1>1, <1>2 DEF Numbered, Alike, IdsOf

LEMMA ShrinkKeepsAll ==
  ASSUME NEW mem \in MemoryType, era \in Nat, NEW all \in Seq(MessageType), NEW h \in Nat,
         Later(mem.messages, all, h)
  PROVE  Later(Shrink(mem).messages, all, h)
<1>1. PICK s, t : s = mem.messages /\ t = Shrink(mem).messages
  OBVIOUS
<1>2. /\ s \in Seq(MessageType) /\ t \in Seq(MessageType) /\ Len(t) = Len(s)
      /\ \A i \in 1..Len(s) : t[i].role = s[i].role /\ Whole(t[i]) = Whole(s[i])
  BY <1>1, MessagesCut DEF Alike
<1>3. PICK n \in Nat : n = Len(s)
  BY <1>2, LenProperties
<1>4. LeadIs(t, h)
  <2>1. LeadIs(s, h)
    BY <1>1 DEF Later
  <2>2. \A i \in 1..h : i \in 1..n
    BY <1>3, <2>1 DEF LeadIs
  <2>3. h < n => h + 1 \in 1..n
    BY <1>3
  <2>4. QED
    BY <1>2, <1>3, <2>1, <2>2, <2>3 DEF LeadIs
<1>5. \A i \in h + 1..n : i \in 1..n
  BY <1>3
<1>6. Later(t, all, h)
  BY <1>1, <1>2, <1>3, <1>4, <1>5 DEF Later
<1>7. QED
  BY <1>1, <1>6

-----------------------------------------------------------------------------
(* Dropping the oldest. *)

LEMMA LeadCounted ==
  ASSUME NEW s \in Seq(MessageType), NEW h \in Nat, LeadIs(s, h)
  PROVE  SystemPrefix(s) = 1..h /\ Lead(s) = h
<1>1. PICK n \in Nat : n = Len(s) /\ DOMAIN s = 1..n
  BY LenProperties
<1>2. h <= n /\ \A i \in 1..h : s[i].role = "system"
  BY <1>1 DEF LeadIs
<1>3. \A i \in 1..h : i \in SystemPrefix(s)
  <2> SUFFICES ASSUME NEW i \in 1..h PROVE i \in 1..n /\ \A j \in 1..i : s[j].role = "system"
    BY <1>1 DEF SystemPrefix
  <2>1. \A j \in 1..i : j \in 1..h
    OBVIOUS
  <2>2. QED
    BY <1>2, <2>1
<1>4. \A i \in SystemPrefix(s) : i \in 1..h
  <2> SUFFICES ASSUME NEW i \in SystemPrefix(s), i \notin 1..h PROVE FALSE
    OBVIOUS
  <2>1. i \in 1..n /\ \A j \in 1..i : s[j].role = "system"
    BY <1>1 DEF SystemPrefix
  <2>2. h + 1 \in 1..i /\ h < n
    BY <2>1
  <2>3. QED
    BY <1>1, <2>1, <2>2 DEF LeadIs
<1>5. SystemPrefix(s) = 1..h
  BY <1>3, <1>4
<1>6. 1 \in Int /\ h \in Int
  OBVIOUS
<1>7. Cardinality(1..h) = h
  BY <1>6, FS_Interval
<1>8. QED
  BY <1>5, <1>7 DEF Lead

(* The first message that is left was said by the user. *)
LEMMA FirstLeftIs ==
  ASSUME NEW s \in Seq(MessageType), NEW h \in Nat, LeadIs(s, h)
  PROVE  /\ FirstLeft(s) \in Nat /\ h < FirstLeft(s) /\ FirstLeft(s) <= Len(s) + 1
         /\ FirstLeft(s) <= Len(s) => s[FirstLeft(s)].role = "user"
<1>1. Lead(s) = h
  BY LeadCounted
<1>2. PICK n \in Nat : n = Len(s)
  BY LenProperties
<1>3. h <= n
  BY <1>2 DEF LeadIs
<1>4. CASE Stops(s) = {}
  <2>1. FirstLeft(s) = n + 1
    BY <1>2, <1>4 DEF FirstLeft
  <2>2. QED
    BY <1>2, <1>3, <2>1
<1>5. CASE Stops(s) # {}
  <2>1. \A i \in Stops(s) : i \in h + 1..n /\ s[i].role = "user"
    BY <1>1, <1>2 DEF Stops
  <2>2. Stops(s) \in SUBSET Nat
    BY <2>1
  <2>3. PICK f \in Stops(s) : \A j \in Stops(s) : f <= j
    BY <1>5, <2>2, LeastExists
  <2>4. Min(Stops(s)) \in Stops(s)
    BY <2>3 DEF Min
  <2>5. FirstLeft(s) \in Stops(s)
    BY <1>5, <2>4 DEF FirstLeft
  <2>6. QED
    BY <1>2, <2>1, <2>5
<1>6. QED
  BY <1>4, <1>5

(* Who speaks stands outside every exchange. *)
LEMMA SpeakerParts ==
  ASSUME NEW s \in Seq(MessageType), Orderly(s), NEW f \in 1..Len(s), s[f].role # "tool",
         NEW j \in 1..Len(s), NEW i \in 1..Len(s), s[i].call \in s[j].calls
  PROVE  j < i /\ (f <= j \/ i < f)
<1>1. PICK n \in Nat : n = Len(s) /\ DOMAIN s = 1..n
  BY LenProperties
<1>2. PICK c \in Nat : c = Cardinality(s[j].calls)
  BY CallsCounted DEF Orderly, Exchanges
<1>3. s[i].call # 0
  BY NoCallIsZero
<1>4. j < i
  <2>0. j \in 1..Len(s) /\ s[i].call \in s[j].calls \ {}
    OBVIOUS
  <2>1. PICK k \in j + 1..j + c : k <= n /\ s[k].call = s[i].call
    <3>1. \E k \in j + 1..j + Cardinality(s[j].calls) : k <= Len(s) /\ s[k].call = s[i].call
      BY <2>0 DEF Orderly, Exchanges
    <3>2. QED
      BY <1>1, <1>2, <3>1
  <2>2. k \in 1..n /\ j < k
    BY <1>1, <1>2, <2>1
  <2>3. k = i
    BY <1>1, <1>3, <2>1, <2>2 DEF Orderly, Exchanges
  <2>4. QED
    BY <2>2, <2>3
<1>5. ASSUME j < f, f <= i PROVE FALSE
  <2>1. i \in DOMAIN s /\ j \in 1..i - 1 /\ f \in j + 1..i
    BY <1>1, <1>4, <1>5
  <2>2. s[f].call \in s[j].calls
    BY <2>1 DEF Orderly, Exchanges, Close
  <2>3. s[f].call # 0
    BY <2>2, NoCallIsZero
  <2>4. f \in DOMAIN s
    BY <1>1
  <2>5. QED
    BY <2>3, <2>4 DEF Orderly, Exchanges, Close
<1>6. QED
  BY <1>1, <1>4, <1>5

LEMMA EndOf ==
  ASSUME NEW s \in Seq(MessageType), NEW f \in Nat, f >= 1, f <= Len(s) + 1
  PROVE  /\ SubSeq(s, f, Len(s)) \in Seq(MessageType)
         /\ Len(SubSeq(s, f, Len(s))) = Len(s) + 1 - f
         /\ \A i \in 1..Len(s) + 1 - f : SubSeq(s, f, Len(s))[i] = s[i + f - 1]
<1>1. PICK n \in Nat : n = Len(s)
  BY LenProperties
<1>2. f \in 1..n + 1 /\ n \in 0..n /\ f \in Int
  BY <1>1
<1>3. /\ SubSeq(s, f, n) \in Seq(MessageType)
      /\ Len(SubSeq(s, f, n)) = IF f <= n THEN n - f + 1 ELSE 0
      /\ \A i \in 1..n - f + 1 : SubSeq(s, f, n)[i] = s[f + i - 1]
  <2>1. f \in 1..Len(s) + 1 /\ n \in 0..Len(s)
    BY <1>1, <1>2
  <2>2. QED
    BY <1>1, <2>1, SubSeqProperties
<1>4. n + 1 - f = n - f + 1 /\ (f > n => n + 1 - f = 0) /\ \A i \in Int : i + f - 1 = f + i - 1
  BY <1>1, <1>2
<1>5. QED
  BY <1>1, <1>2, <1>3, <1>4

(* No result is left behind without its call. *)
LEMMA NothingUncalled ==
  ASSUME NEW s \in Seq(MessageType), Orderly(s), NEW f \in Nat, f >= 1, f <= Len(s) + 1,
         f <= Len(s) => s[f].role = "user"
  PROVE  Called(SubSeq(s, f, Len(s))) = SubSeq(s, f, Len(s))
<1>1. PICK n \in Nat : n = Len(s)
  BY LenProperties
<1>2. PICK rest : rest = SubSeq(s, f, Len(s))
  OBVIOUS
<1>3. /\ rest \in Seq(MessageType) /\ Len(rest) = n + 1 - f
      /\ \A i \in 1..n + 1 - f : rest[i] = s[i + f - 1]
  BY <1>1, <1>2, EndOf
<1>4. DOMAIN rest = 1..n + 1 - f
  BY <1>3, LenProperties
<1>5. PICK called : called = UNION {m.calls : m \in ToSet(rest)}
  OBVIOUS
<1>6. \A i \in 1..n + 1 - f : rest[i].calls \subseteq called
  <2>1. \A i \in 1..n + 1 - f : rest[i] \in ToSet(rest)
    BY <1>4 DEF ToSet
  <2>2. QED
    BY <1>5, <2>1
<1>7. ASSUME NEW i \in 1..n + 1 - f, rest[i].call # 0
      PROVE  rest[i].call \in called
  <2>1. PICK x \in 1..n : x = i + f - 1
    BY <1>1, <1>7
  <2>2. rest[i] = s[x] /\ f \in 1..n /\ f <= x
    BY <1>1, <1>3, <1>7, <2>1
  <2>3. PICK j \in 1..x - 1 : s[x].call \in s[j].calls
    BY <1>1, <1>7, <2>2 DEF Orderly, Exchanges
  <2>4. j \in 1..n
    BY <2>1, <2>3
  <2>5. s[f].role # "tool"
    BY <1>1, <2>2
  <2>6. f <= j \/ x < f
    BY <1>1, <2>2, <2>3, <2>4, <2>5, SpeakerParts
  <2>7. PICK k \in 1..n + 1 - f : k = j + 1 - f
    BY <1>1, <2>2, <2>4, <2>6
  <2>8. k + f - 1 = j
    BY <1>1, <2>4, <2>7
  <2>9. rest[k] = s[j]
    BY <1>3, <2>8
  <2>10. QED
    BY <1>6, <2>2, <2>3, <2>9
<1>8. \A i \in 1..n + 1 - f : IdsOf(rest[i]) \subseteq called
  BY <1>6, <1>7 DEF IdsOf
<1>9. PICK S : S = {i \in DOMAIN rest : IdsOf(rest[i]) \subseteq called}
  OBVIOUS
<1>10. 1..Len(rest) \subseteq S
  BY <1>3, <1>4, <1>8, <1>9
<1>11. Called(rest) = Picked(rest, S)
  BY <1>5, <1>9 DEF Called
<1>12. QED
  BY <1>2, <1>3, <1>10, <1>11, AllPicked

Left(s, h, f) == SubSeq(s, 1, h) \o SubSeq(s, f, Len(s))
Gone(s, h, f) == UNION {IdsOf(s[i]) : i \in h + 1..f - 1}

LEMMA SlideIs ==
  ASSUME NEW mem \in MemoryType, Orderly(mem.messages), NEW h \in Nat, LeadIs(mem.messages, h)
  PROVE  \E f \in Nat :
           /\ h < f /\ f <= Len(mem.messages) + 1
           /\ f <= Len(mem.messages) => mem.messages[f].role = "user"
           /\ Slide(mem).messages = Left(mem.messages, h, f)
           /\ Slide(mem).full = [id \in DOMAIN mem.full \ Gone(mem.messages, h, f) |-> mem.full[id]]
           /\ Slide(mem).shrunk = mem.shrunk \ Gone(mem.messages, h, f)
           /\ Slide(mem) = [messages |-> Slide(mem).messages, full |-> Slide(mem).full,
                            shrunk |-> Slide(mem).shrunk]
<1>1. PICK s : s = mem.messages
  OBVIOUS
<1>2. s \in Seq(MessageType) /\ Lead(s) = h
  BY <1>1, LeadCounted DEF MemoryType
<1>3. PICK f \in Nat : f = FirstLeft(s) /\ h < f /\ f <= Len(s) + 1 /\ (f <= Len(s) => s[f].role = "user")
  BY <1>1, <1>2, FirstLeftIs
<1>4. Called(SubSeq(s, f, Len(s))) = SubSeq(s, f, Len(s))
  <2>1. f >= 1
    BY <1>3
  <2>2. QED
    BY <1>1, <1>2, <1>3, <2>1, NothingUncalled
<1>5. PICK dropped, full : /\ dropped = UNION {IdsOf(s[i]) : i \in h + 1..f - 1}
                           /\ full = [id \in DOMAIN mem.full \ dropped |-> mem.full[id]]
  OBVIOUS
<1>6. Slide(mem) = [messages |-> SubSeq(s, 1, h) \o Called(SubSeq(s, f, Len(s))),
                    full |-> full, shrunk |-> mem.shrunk \ dropped]
  BY <1>1, <1>2, <1>3, <1>5 DEF Slide
<1>7. dropped = Gone(s, h, f)
  BY <1>5 DEF Gone
<1>8. /\ Slide(mem).messages = Left(s, h, f)
      /\ Slide(mem).full = full /\ Slide(mem).shrunk = mem.shrunk \ dropped
      /\ Slide(mem) = [messages |-> Slide(mem).messages, full |-> Slide(mem).full,
                       shrunk |-> Slide(mem).shrunk]
  <2>1. PICK msgs, shrunk : msgs = Left(s, h, f) /\ shrunk = mem.shrunk \ dropped
    OBVIOUS
  <2>2. Slide(mem) = [messages |-> msgs, full |-> full, shrunk |-> shrunk]
    BY <1>4, <1>6, <2>1 DEF Left
  <2>3. QED
    BY <2>1, <2>2
<1>9. /\ f \in Nat /\ h < f /\ f <= Len(mem.messages) + 1
      /\ f <= Len(mem.messages) => mem.messages[f].role = "user"
  BY <1>1, <1>3
<1>10. full = [id \in DOMAIN mem.full \ Gone(s, h, f) |-> mem.full[id]]
  BY <1>5, <1>7
<1>11. QED
  BY <1>1, <1>7, <1>8, <1>9, <1>10

LEMMA LeftIs ==
  ASSUME NEW s \in Seq(MessageType), NEW h \in Nat, LeadIs(s, h), NEW f \in Nat, h < f, f <= Len(s) + 1
  PROVE  /\ Left(s, h, f) \in Seq(MessageType) /\ Len(Left(s, h, f)) = h + Len(s) + 1 - f
         /\ \A i \in 1..h : Left(s, h, f)[i] = s[i]
         /\ \A i \in h + 1..h + Len(s) + 1 - f : Left(s, h, f)[i] = s[i + f - 1 - h]
<1>1. PICK n \in Nat : n = Len(s) /\ DOMAIN s = 1..n
  BY LenProperties
<1>2. h <= n
  BY <1>1 DEF LeadIs
<1>3. PICK a, b : a = SubSeq(s, 1, h) /\ b = SubSeq(s, f, Len(s))
  OBVIOUS
<1>4. a \in Seq(MessageType) /\ Len(a) = h /\ \A i \in 1..h : a[i] = s[i]
  <2>1. 1 \in Int /\ h \in Int /\ \A i \in 1..h : s[i] \in MessageType
    <3>1. \A i \in 1..h : i \in 1..Len(s)
      BY <1>1, <1>2
    <3>2. QED
      BY <3>1, ElementOfSeq
  <2>2. /\ SubSeq(s, 1, h) \in Seq(MessageType)
        /\ Len(SubSeq(s, 1, h)) = IF 1 <= h THEN h - 1 + 1 ELSE 0
        /\ \A i \in 1..h - 1 + 1 : SubSeq(s, 1, h)[i] = s[1 + i - 1]
    BY <2>1, SubSeqProperties
  <2>3. h - 1 + 1 = h /\ (h < 1 => h = 0) /\ \A i \in 1..h : 1 + i - 1 = i
    OBVIOUS
  <2>4. QED
    BY <1>3, <2>2, <2>3
<1>5. /\ b \in Seq(MessageType) /\ Len(b) = n + 1 - f
      /\ \A i \in 1..n + 1 - f : b[i] = s[i + f - 1]
  BY <1>1, <1>3, EndOf
<1>6. PICK u : u = Left(s, h, f) /\ u = a \o b
  BY <1>3 DEF Left
<1>7. /\ u \in Seq(MessageType) /\ Len(u) = h + (n + 1 - f)
      /\ \A i \in 1..h : u[i] = a[i]
      /\ \A i \in h + 1..h + (n + 1 - f) : u[i] = b[i - h]
  <2>1. /\ u \in Seq(MessageType) /\ Len(u) = Len(a) + Len(b)
        /\ \A i \in 1..Len(a) : u[i] = a[i]
        /\ \A i \in Len(a) + 1..Len(a) + Len(b) : u[i] = b[i - Len(a)]
    <3>1. u = a \o b /\ a \in Seq(MessageType) /\ b \in Seq(MessageType)
      BY <1>4, <1>5, <1>6
    <3>2. QED
      BY <3>1, Joined
  <2>2. QED
    BY <1>4, <1>5, <2>1
<1>8. ASSUME NEW i \in h + 1..h + n + 1 - f PROVE u[i] = s[i + f - 1 - h]
  <2>1. PICK x \in 1..n + 1 - f : x = i - h
    BY <1>1
  <2>2. x + f - 1 = i + f - 1 - h
    BY <1>1, <2>1
  <2>3. i \in h + 1..h + (n + 1 - f)
    BY <1>1
  <2>4. u[i] = b[x]
    BY <1>7, <2>1, <2>3
  <2>5. QED
    BY <1>5, <2>2, <2>4
<1>9. h + (n + 1 - f) = h + n + 1 - f
  BY <1>1
<1>10. QED
  BY <1>1, <1>4, <1>6, <1>7, <1>8, <1>9

(* What is left is complete and in order, and the end of what was there.   *)
LEMMA LeftInOrder ==
  ASSUME NEW s \in Seq(MessageType), Orderly(s), NEW h \in Nat, LeadIs(s, h),
         NEW f \in Nat, h < f, f <= Len(s) + 1, f <= Len(s) => s[f].role = "user"
  PROVE  Orderly(Left(s, h, f))
<1>1. PICK n \in Nat : n = Len(s) /\ DOMAIN s = 1..n
  BY LenProperties
<1>2. PICK u, m : u = Left(s, h, f) /\ m = h + n + 1 - f
  OBVIOUS
<1>3. /\ u \in Seq(MessageType) /\ Len(u) = m
      /\ \A i \in 1..h : u[i] = s[i]
      /\ \A i \in h + 1..m : u[i] = s[i + f - 1 - h]
  <2>1. /\ Left(s, h, f) \in Seq(MessageType) /\ Len(Left(s, h, f)) = h + Len(s) + 1 - f
        /\ \A i \in 1..h : Left(s, h, f)[i] = s[i]
        /\ \A i \in h + 1..h + Len(s) + 1 - f : Left(s, h, f)[i] = s[i + f - 1 - h]
    BY LeftIs
  <2>2. QED
    BY <1>1, <1>2, <2>1
<1>4. m \in Nat /\ h <= n /\ f <= n + 1 /\ m <= n
  BY <1>1, <1>2 DEF LeadIs
<1>5. PICK e : e = [i \in 1..m |-> IF i <= h THEN i ELSE i + f - 1 - h]
  OBVIOUS
<1>6. \A i \in 1..m : /\ i <= h => e[i] = i /\ e[i] < f
                      /\ i > h => e[i] = i + f - 1 - h /\ e[i] >= f
  BY <1>4, <1>5
<1>7. \A i \in 1..m : e[i] \in 1..n
  <2> SUFFICES ASSUME NEW i \in 1..m PROVE e[i] \in 1..n
    OBVIOUS
  <2>1. CASE i <= h
    BY <1>4, <1>6, <2>1
  <2>2. CASE i > h
    <3>1. e[i] = i + f - 1 - h /\ i <= h + n + 1 - f
      BY <1>2, <1>6, <2>2
    <3>2. i + f - 1 - h \in 1..n
      BY <1>4, <2>2, <3>1
    <3>3. QED
      BY <3>1, <3>2
  <2>3. QED
    BY <1>4, <2>1, <2>2
<1>8. \A i \in 1..m : u[i] = s[e[i]]
  BY <1>3, <1>4, <1>6
<1>9. \A k, l \in 1..m : k < l => l - k <= e[l] - e[k]
  <2> SUFFICES ASSUME NEW k \in 1..m, NEW l \in 1..m, k < l PROVE l - k <= e[l] - e[k]
    OBVIOUS
  <2>1. CASE l <= h
    <3>1. e[l] = l /\ e[k] = k
      BY <1>4, <1>6, <2>1
    <3>2. QED
      BY <3>1
  <2>2. CASE l > h /\ k <= h
    <3>1. e[l] = l + f - 1 - h /\ e[k] = k
      BY <1>6, <2>2
    <3>2. QED
      BY <1>4, <3>1
  <2>3. CASE l > h /\ k > h
    <3>1. e[l] = l + f - 1 - h /\ e[k] = k + f - 1 - h
      BY <1>6, <2>3
    <3>2. QED
      BY <1>4, <3>1
  <2>4. QED
    BY <1>4, <2>1, <2>2, <2>3
<1>10. ASSUME NEW k \in 1..m, NEW j \in 1..n,
              s[j].call \in s[e[k]].calls \/ s[e[k]].call \in s[j].calls
       PROVE  \E l \in 1..m : e[l] = j
  <2>1. PICK x \in 1..n : x = e[k]
    BY <1>7
  <2>2. x > h
    <3>1. ASSUME x <= h PROVE FALSE
      <4>1. s[x].role = "system"
        BY <1>1, <2>1, <3>1 DEF LeadIs
      <4>2. s[x].calls = {} /\ s[x].call = 0
        BY <1>1, <4>1 DEF Orderly, Exchanges, Close
      <4>3. 0 \notin s[j].calls
        BY <1>1, NoCallIsZero
      <4>4. QED
        BY <1>10, <2>1, <4>2, <4>3
    <3>2. QED
      BY <3>1, <2>1, <1>4
  <2>3. k > h /\ x >= f /\ f <= n
    BY <1>4, <1>6, <2>1, <2>2
  <2>4. f \in 1..Len(s) /\ s[f].role # "tool"
    BY <1>1, <1>4, <2>3
  <2>5. j >= f
    <3>1. CASE s[j].call \in s[x].calls
      <4>1. x < j
        BY <1>1, <2>4, <3>1, SpeakerParts
      <4>2. QED
        BY <2>3, <4>1
    <3>2. CASE s[x].call \in s[j].calls
      <4>1. f <= j \/ x < f
        BY <1>1, <2>4, <3>2, SpeakerParts
      <4>2. QED
        BY <2>1, <2>3, <4>1
    <3>3. QED
      BY <1>10, <2>1, <3>1, <3>2
  <2>6. PICK l \in 1..m : l = j - f + 1 + h
    BY <1>2, <1>4, <2>5
  <2>7. l > h /\ l + f - 1 - h = j
    BY <1>4, <2>5, <2>6
  <2>8. QED
    BY <1>6, <2>7
<1>11. Embedded(u, s, e)
  BY <1>1, <1>3, <1>7, <1>8, <1>9, <1>10 DEF Embedded, Alike
<1>12. QED
  BY <1>2, <1>3, <1>11, ExchangesCarried DEF Orderly

LEMMA LeftIsLater ==
  ASSUME NEW s \in Seq(MessageType), NEW h \in Nat, LeadIs(s, h),
         NEW f \in Nat, h < f, f <= Len(s) + 1, f <= Len(s) => s[f].role = "user"
  PROVE  Later(Left(s, h, f), s, h)
<1>1. PICK n \in Nat : n = Len(s) /\ DOMAIN s = 1..n
  BY LenProperties
<1>2. PICK u, m : u = Left(s, h, f) /\ m = h + n + 1 - f
  OBVIOUS
<1>3. /\ u \in Seq(MessageType) /\ Len(u) = m
      /\ \A i \in 1..h : u[i] = s[i]
      /\ \A i \in h + 1..m : u[i] = s[i + f - 1 - h]
  <2>1. /\ Left(s, h, f) \in Seq(MessageType) /\ Len(Left(s, h, f)) = h + Len(s) + 1 - f
        /\ \A i \in 1..h : Left(s, h, f)[i] = s[i]
        /\ \A i \in h + 1..h + Len(s) + 1 - f : Left(s, h, f)[i] = s[i + f - 1 - h]
    BY LeftIs
  <2>2. QED
    BY <1>1, <1>2, <2>1
<1>4. m \in Nat /\ h <= n /\ f <= n + 1 /\ m <= n /\ h <= m
  BY <1>1, <1>2 DEF LeadIs
<1>5. h < m => u[h + 1].role # "system"
  <2> SUFFICES ASSUME h < m PROVE u[h + 1].role # "system"
    OBVIOUS
  <2>1. f <= n /\ h + 1 \in h + 1..m /\ h + 1 + f - 1 - h = f
    BY <1>1, <1>2
  <2>2. u[h + 1] = s[f]
    BY <1>3, <2>1
  <2>3. QED
    BY <1>1, <2>1, <2>2
<1>6. LeadIs(u, h)
  BY <1>3, <1>4, <1>5 DEF LeadIs
<1>7. ASSUME NEW i \in h + 1..m PROVE Whole(u[i]) = Whole(s[i + n - m])
  <2>1. i + n - m = i + f - 1 - h
    BY <1>1, <1>2
  <2>2. QED
    BY <1>3, <2>1
<1>8. QED
  BY <1>1, <1>2, <1>3, <1>4, <1>6, <1>7 DEF Later

LEMMA LeadExists ==
  ASSUME NEW s \in Seq(MessageType)
  PROVE  \E h \in Nat : LeadIs(s, h)
<1>1. PICK n \in Nat : n = Len(s)
  BY LenProperties
<1>2. PICK S : S = {i \in 1..n : s[i].role # "system"}
  OBVIOUS
<1>3. CASE S = {}
  <2>1. n \in 0..n /\ \A i \in 1..n : s[i].role = "system"
    BY <1>2, <1>3
  <2>2. LeadIs(s, n)
    BY <1>1, <2>1 DEF LeadIs
  <2>3. QED
    BY <2>2
<1>4. CASE S # {}
  <2>1. S \in SUBSET Nat
    BY <1>2
  <2>2. PICK i \in S : \A j \in S : i <= j
    BY <1>4, <2>1, LeastExists
  <2>3. i \in 1..n /\ s[i].role # "system"
    BY <1>2
  <2>4. PICK h \in Nat : h = i - 1
    BY <2>3
  <2>5. h \in 0..n /\ h + 1 = i
    BY <2>3, <2>4
  <2>6. \A j \in 1..h : s[j].role = "system"
    <3> SUFFICES ASSUME NEW j \in 1..h, s[j].role # "system" PROVE FALSE
      OBVIOUS
    <3>1. j \in 1..n /\ ~(i <= j)
      BY <2>3, <2>4
    <3>2. QED
      BY <1>2, <2>2, <3>1
  <2>7. LeadIs(s, h)
    BY <1>1, <2>3, <2>5, <2>6 DEF LeadIs
  <2>8. QED
    BY <2>7
<1>5. QED
  BY <1>3, <1>4

(* Every message that is left is one that was there. *)
LEMMA LeftWasThere ==
  ASSUME NEW s \in Seq(MessageType), NEW h \in Nat, LeadIs(s, h),
         NEW f \in Nat, h < f, f <= Len(s) + 1, NEW i \in 1..Len(Left(s, h, f))
  PROVE  \E x \in 1..Len(s) : Left(s, h, f)[i] = s[x] /\ (x <= h \/ f <= x)
<1>1. PICK n \in Nat : n = Len(s)
  BY LenProperties
<1>2. PICK u, m : u = Left(s, h, f) /\ m = h + n + 1 - f
  OBVIOUS
<1>3. /\ Len(u) = m
      /\ \A j \in 1..h : u[j] = s[j]
      /\ \A j \in h + 1..m : u[j] = s[j + f - 1 - h]
  <2>1. /\ Len(u) = h + Len(s) + 1 - f
        /\ \A j \in 1..h : u[j] = s[j]
        /\ \A j \in h + 1..h + Len(s) + 1 - f : u[j] = s[j + f - 1 - h]
    BY <1>2, LeftIs
  <2>2. QED
    BY <1>1, <1>2, <2>1
<1>4. h <= n /\ f <= n + 1 /\ i \in 1..m /\ m \in Int
  BY <1>1, <1>2, <1>3 DEF LeadIs
<1>5. CASE i <= h
  <2>1. i \in 1..n /\ i \in 1..h
    BY <1>4, <1>5
  <2>2. QED
    BY <1>1, <1>2, <1>3, <1>5, <2>1
<1>6. CASE i > h
  <2>1. i \in h + 1..m /\ i <= h + n + 1 - f
    BY <1>2, <1>4, <1>6
  <2>2. i + f - 1 - h \in 1..n /\ f <= i + f - 1 - h
    BY <1>1, <1>4, <2>1
  <2>3. u[i] = s[i + f - 1 - h]
    BY <1>3, <2>1
  <2>4. QED
    BY <1>1, <1>2, <2>2, <2>3
<1>7. QED
  BY <1>4, <1>5, <1>6

LEMMA SlideTyped ==
  ASSUME NEW mem \in MemoryType, Orderly(mem.messages)
  PROVE  Slide(mem) \in MemoryType
<1>1. PICK s \in Seq(MessageType) : s = mem.messages
  BY DEF MemoryType
<1>2. PICK h \in Nat : LeadIs(s, h)
  BY LeadExists
<1>3. PICK f \in Nat :
        /\ h < f /\ f <= Len(s) + 1
        /\ Slide(mem).messages = Left(s, h, f)
        /\ Slide(mem).full = [id \in DOMAIN mem.full \ Gone(s, h, f) |-> mem.full[id]]
        /\ Slide(mem).shrunk = mem.shrunk \ Gone(s, h, f)
        /\ Slide(mem) = [messages |-> Slide(mem).messages, full |-> Slide(mem).full,
                         shrunk |-> Slide(mem).shrunk]
  BY <1>1, <1>2, SlideIs
<1>4. Slide(mem).messages \in Seq(MessageType)
  BY <1>2, <1>3, LeftIs
<1>5. PICK S \in SUBSET Nat : mem.full \in [S -> {"whole", "rest"}]
  BY DEF MemoryType
<1>6. PICK V \in SUBSET Nat : V = S \ Gone(s, h, f)
  BY <1>5
<1>7. Slide(mem).full \in [V -> {"whole", "rest"}]
  BY <1>3, <1>5, <1>6
<1>8. Slide(mem).full \in UNION {[U -> {"whole", "rest"}] : U \in SUBSET Nat}
  BY <1>7
<1>9. Slide(mem).shrunk \in SUBSET Nat
  BY <1>3 DEF MemoryType
<1>10. QED
  BY <1>3, <1>4, <1>8, <1>9 DEF MemoryType

(* What is forgotten with the messages that go belongs to none of those    *)
(* that are left.                                                          *)
LEMMA SlideKeepsTexts ==
  ASSUME NEW mem \in MemoryType, era \in Nat, era >= 2, Orderly(mem.messages), CutKnown(mem, era)
  PROVE  CutKnown(Slide(mem), era)
<1>1. PICK s \in Seq(MessageType) : s = mem.messages
  BY DEF MemoryType
<1>2. PICK h \in Nat : LeadIs(s, h)
  BY LeadExists
<1>3. PICK f \in Nat :
        /\ h < f /\ f <= Len(s) + 1 /\ (f <= Len(s) => s[f].role = "user")
        /\ Slide(mem).messages = Left(s, h, f)
        /\ Slide(mem).full = [id \in DOMAIN mem.full \ Gone(s, h, f) |-> mem.full[id]]
        /\ Slide(mem).shrunk = mem.shrunk \ Gone(s, h, f)
  BY <1>1, <1>2, SlideIs
<1>4. PICK n \in Nat : n = Len(s) /\ DOMAIN s = 1..n
  BY <1>1, LenProperties
<1>5. PICK u, gone : u = Left(s, h, f) /\ gone = Gone(s, h, f)
  OBVIOUS
<1>6. \A i \in 1..Len(Left(s, h, f)) :
        \E x \in 1..Len(s) : Left(s, h, f)[i] = s[x] /\ (x <= h \/ f <= x)
  BY <1>2, <1>3, LeftWasThere
<1>7. ASSUME NEW i \in 1..Len(u)
      PROVE  /\ u[i].cut <= era
             /\ u[i].cut = era =>
                  /\ u[i].call \in Slide(mem).shrunk \cap DOMAIN Slide(mem).full /\ u[i].call # 0
                  /\ Slide(mem).full[u[i].call] = "whole"
  <2>1. PICK x \in 1..n : u[i] = s[x] /\ (x <= h \/ f <= x)
    <3>1. i \in 1..Len(Left(s, h, f))
      BY <1>5
    <3>2. \E x \in 1..Len(s) : Left(s, h, f)[i] = s[x] /\ (x <= h \/ f <= x)
      BY <1>6, <3>1
    <3>3. QED
      BY <1>4, <1>5, <3>2
  <2>2. /\ s[x].cut <= era
        /\ s[x].cut = era => /\ s[x].call \in mem.shrunk \cap DOMAIN mem.full /\ s[x].call # 0
                             /\ mem.full[s[x].call] = "whole"
    BY <1>1, <1>4 DEF CutKnown
  <2>3. CASE s[x].cut = era
    <3>1. s[x].role = "tool" /\ s[x].call # 0
      BY <1>1, <1>4, <2>2, <2>3 DEF Orderly, Exchanges, Close
    <3>2. f <= x /\ f \in 1..n /\ s[f].role # "tool"
      <4>1. x \in 1..h => s[x].role = "system"
        BY <1>2 DEF LeadIs
      <4>2. f <= x
        BY <2>1, <3>1, <4>1
      <4>3. f \in 1..n
        BY <1>3, <1>4, <4>2
      <4>4. QED
        BY <1>3, <1>4, <4>2, <4>3
    <3>3. s[x].call \notin gone
      <4> SUFFICES ASSUME s[x].call \in gone PROVE FALSE
        OBVIOUS
      <4>1. PICK j \in h + 1..f - 1 : s[x].call \in IdsOf(s[j])
        BY <1>5 DEF Gone
      <4>2. j \in 1..n /\ j < f
        BY <3>2, <4>1
      <4>3. CASE s[x].call \in s[j].calls
        <5>1. f <= j \/ x < f
          BY <1>1, <1>4, <3>2, <4>2, <4>3, SpeakerParts
        <5>2. QED
          BY <3>2, <4>2, <5>1
      <4>4. CASE s[j].call = s[x].call
        <5>1. j = x
          BY <1>1, <1>4, <3>1, <4>2, <4>4 DEF Orderly, Exchanges
        <5>2. QED
          BY <3>2, <4>2, <5>1
      <4>5. QED
        BY <4>1, <4>3, <4>4 DEF IdsOf
    <3>4. s[x].call \in Slide(mem).shrunk /\ s[x].call \in DOMAIN mem.full \ gone
      BY <1>3, <1>5, <2>2, <2>3, <3>3
    <3>5. s[x].call \in DOMAIN Slide(mem).full /\ Slide(mem).full[s[x].call] = "whole"
      BY <1>3, <1>5, <2>2, <2>3, <3>4
    <3>6. QED
      BY <2>1, <2>2, <3>1, <3>4, <3>5
  <2>4. CASE s[x].cut # era
    BY <2>1, <2>2, <2>4
  <2>5. QED
    BY <2>3, <2>4
<1>8. QED
  BY <1>3, <1>5, <1>7 DEF CutKnown

LEMMA SlideKeepsOrder ==
  ASSUME NEW mem \in MemoryType, Orderly(mem.messages)
  PROVE  /\ Orderly(Slide(mem).messages)
         /\ \A n : Numbered(mem.messages, n) => Numbered(Slide(mem).messages, n)
         /\ \A h \in Nat : LeadIs(mem.messages, h) => Later(Slide(mem).messages, mem.messages, h)
<1>1. PICK s \in Seq(MessageType) : s = mem.messages
  BY DEF MemoryType
<1>2. ASSUME NEW h \in Nat, LeadIs(s, h)
      PROVE  /\ Orderly(Slide(mem).messages) /\ Later(Slide(mem).messages, s, h)
             /\ \A n : Numbered(s, n) => Numbered(Slide(mem).messages, n)
  <2>1. PICK f \in Nat :
          /\ h < f /\ f <= Len(s) + 1 /\ (f <= Len(s) => s[f].role = "user")
          /\ Slide(mem).messages = Left(s, h, f)
    BY <1>1, <1>2, SlideIs
  <2>2. Orderly(Left(s, h, f)) /\ Later(Left(s, h, f), s, h)
    BY <1>1, <1>2, <2>1, LeftInOrder, LeftIsLater
  <2>3. \A i \in 1..Len(Left(s, h, f)) : \E x \in 1..Len(s) : Left(s, h, f)[i] = s[x]
    BY <1>1, <1>2, <2>1, LeftWasThere
  <2>4. \A n : Numbered(s, n) => Numbered(Left(s, h, f), n)
    <3>1. PICK u : u = Left(s, h, f)
      OBVIOUS
    <3>2. QED
      BY <2>3, <3>1 DEF Numbered
  <2>5. QED
    BY <2>1, <2>2, <2>4
<1>3. \E h \in Nat : LeadIs(s, h)
  BY LeadExists
<1>4. QED
  BY <1>1, <1>2, <1>3

-----------------------------------------------------------------------------
(* Replacing everything but the last units by a digest. *)

(* From a call to each of its results the last to speak is the caller. *)
LEMMA CallerSpoke ==
  ASSUME NEW s \in Seq(MessageType), Orderly(s),
         NEW j \in 1..Len(s), NEW i \in 1..Len(s), s[i].call \in s[j].calls
  PROVE  /\ j < i /\ ~InExchange(s, j)
         /\ \A k \in j + 1..i : InExchange(s, k) /\ (s[k].call \in s[j].calls => Owned(s, k))
<1>1. PICK n \in Nat : n = Len(s) /\ DOMAIN s = 1..n
  BY LenProperties
<1>2. s[j].role = "assistant"
  BY CallsCounted DEF Orderly, Exchanges
<1>3. j < i
  BY <1>2, SpeakerParts
<1>4. ASSUME NEW k \in j + 1..i PROVE s[k].role = "tool"
  <2>1. i \in DOMAIN s /\ j \in 1..i - 1
    BY <1>1, <1>3
  <2>2. s[k].call \in s[j].calls
    BY <1>4, <2>1 DEF Orderly, Exchanges, Close
  <2>3. s[k].call # 0
    BY <2>2, NoCallIsZero
  <2>4. k \in DOMAIN s
    BY <1>1, <1>4
  <2>5. QED
    BY <2>3, <2>4 DEF Orderly, Exchanges, Close
<1>5. ASSUME NEW k \in j + 1..i
      PROVE  InExchange(s, k) /\ (s[k].call \in s[j].calls => Owned(s, k))
  <2>1. j \in Speakers(s, k)
    BY <1>1, <1>2, <1>5 DEF Speakers
  <2>2. ASSUME NEW l \in Speakers(s, k) PROVE l \in Int /\ l <= j
    <3>1. l \in 1..k - 1 /\ s[l].role # "tool"
      BY DEF Speakers
    <3>2. l \notin j + 1..i
      BY <1>4, <3>1
    <3>3. QED
      BY <1>1, <1>5, <3>1, <3>2
  <2>3. Max(Speakers(s, k)) = j
    <3>1. PICK S : S = Speakers(s, k)
      OBVIOUS
    <3>2. j \in S /\ \A l \in S : l \in Int /\ l <= j
      BY <2>1, <2>2, <3>1
    <3>3. \A x \in S : (\A y \in S : x >= y) => x = j
      BY <3>2
    <3>4. \A y \in S : j >= y
      BY <3>2
    <3>5. Max(S) = j
      BY <3>2, <3>3, <3>4 DEF Max
    <3>6. QED
      BY <3>1, <3>5
  <2>4. s[j].calls # {}
    OBVIOUS
  <2>5. s[k].role = "tool"
    BY <1>4, <1>5
  <2>6. InExchange(s, k)
    BY <2>1, <2>3, <2>4, <2>5 DEF InExchange
  <2>7. QED
    BY <2>3, <2>6 DEF Owned
<1>6. ~InExchange(s, j)
  BY <1>2 DEF InExchange
<1>7. QED
  BY <1>3, <1>5, <1>6

(* Neither a call is kept without its results nor a result without it. *)
LEMMA RecentInOrder ==
  ASSUME NEW s \in Seq(MessageType), Orderly(s)
  PROVE  /\ Recent(s) \in Seq(MessageType) /\ Orderly(Recent(s))
         /\ \A i \in 1..Len(Recent(s)) : \E x \in 1..Len(s) : Recent(s)[i] = s[x]
<1>1. PICK n \in Nat : n = Len(s) /\ DOMAIN s = 1..n
  BY LenProperties
<1>2. PICK first : first = {i \in Units(s) : Cardinality({j \in Units(s) : j >= i}) <= KeepRecentUnits}
  OBVIOUS
<1>3. PICK kept : kept = {i \in 1..n : /\ \E f \in first : f <= i
                                       /\ InExchange(s, i) => Owned(s, i)}
  OBVIOUS
<1>4. Recent(s) = Picked(s, kept)
  BY <1>1, <1>2, <1>3 DEF Recent
<1>5. \A f \in first : f \in 1..n /\ ~InExchange(s, f)
  BY <1>1, <1>2 DEF Units
<1> PICK u : u = Recent(s)
  OBVIOUS
<1>6. u \in Seq(MessageType) /\ \E e : Maps(s, kept, n, u, e)
  BY <1>1, <1>4, PickedMaps
<1>7. PICK e : Maps(s, kept, n, u, e)
  BY <1>6
<1>8. PICK m \in Nat : m = Len(u)
  BY <1>6, LenProperties
<1>9. /\ \A k \in 1..m : e[k] \in 1..n /\ e[k] \in kept /\ u[k] = s[e[k]]
      /\ \A k, l \in 1..m : k < l => l - k <= e[l] - e[k]
      /\ \A j \in 1..n : j \in kept => \E k \in 1..m : e[k] = j
  BY <1>7, <1>8 DEF Maps
<1>10. ASSUME NEW i \in kept, NEW j \in 1..n, s[j].call \in s[i].calls \/ s[i].call \in s[j].calls
       PROVE  j \in kept
  <2>1. PICK f \in first : f <= i
    BY <1>3
  <2>2. i \in 1..n /\ f \in 1..n /\ ~InExchange(s, f)
    BY <1>3, <1>5
  <2>3. CASE s[j].call \in s[i].calls
    <3>1. i < j /\ \A k \in i + 1..j : InExchange(s, k) /\ (s[k].call \in s[i].calls => Owned(s, k))
      BY <1>1, <2>2, <2>3, CallerSpoke
    <3>2. j \in i + 1..j /\ f <= j
      BY <2>1, <2>2, <3>1
    <3>3. Owned(s, j)
      BY <2>3, <3>1, <3>2
    <3>4. QED
      BY <1>3, <3>2, <3>3
  <2>4. CASE s[i].call \in s[j].calls
    <3>1. j < i /\ ~InExchange(s, j) /\ \A k \in j + 1..i : InExchange(s, k)
      BY <1>1, <2>2, <2>4, CallerSpoke
    <3>2. f \notin j + 1..i
      BY <2>2, <3>1
    <3>3. f <= j
      BY <2>1, <2>2, <3>2
    <3>4. QED
      BY <1>3, <3>1, <3>3
  <2>5. QED
    BY <1>10, <2>3, <2>4
<1>11. ASSUME NEW k \in 1..m, NEW j \in 1..n,
              s[j].call \in s[e[k]].calls \/ s[e[k]].call \in s[j].calls
       PROVE  \E l \in 1..m : e[l] = j
  <2>1. PICK i \in kept : i = e[k]
    BY <1>9
  <2>2. j \in kept
    BY <1>10, <1>11, <2>1
  <2>3. QED
    BY <1>9, <2>2
<1>12. Embedded(u, s, e)
  BY <1>1, <1>8, <1>9, <1>11 DEF Embedded, Alike
<1>13. Orderly(u)
  BY <1>6, <1>12, ExchangesCarried DEF Orderly
<1>14. QED
  BY <1>1, <1>6, <1>8, <1>9, <1>13

(* The digest and what is added around the last units are plain. *)
Framed(before, s, after) == before \o s \o after

LEMMA FramedInOrder ==
  ASSUME NEW before \in Seq(MessageType), NEW s \in Seq(MessageType), NEW after \in Seq(MessageType),
         Orderly(s), \A i \in 1..Len(before) : Plain(before[i]), \A i \in 1..Len(after) : Plain(after[i])
  PROVE  /\ Framed(before, s, after) \in Seq(MessageType) /\ Orderly(Framed(before, s, after))
         /\ Len(Framed(before, s, after)) = Len(before) + Len(s) + Len(after)
         /\ \A i \in 1..Len(before) : Framed(before, s, after)[i] = before[i]
         /\ \A i \in 1..Len(Framed(before, s, after)) :
              \/ \E x \in 1..Len(before) : Framed(before, s, after)[i] = before[x]
              \/ \E x \in 1..Len(s) : Framed(before, s, after)[i] = s[x]
              \/ \E x \in 1..Len(after) : Framed(before, s, after)[i] = after[x]
<1>1. PICK a \in Nat, b \in Nat, c \in Nat : a = Len(before) /\ b = Len(s) /\ c = Len(after)
  BY LenProperties
<1>2. PICK v : v = before \o s
  OBVIOUS
<1>3. /\ v \in Seq(MessageType) /\ Len(v) = a + b
      /\ \A i \in 1..a : v[i] = before[i]
      /\ \A i \in a + 1..a + b : v[i] = s[i - a]
  BY <1>1, <1>2, Joined
<1>4. PICK w : w = v \o after
  OBVIOUS
<1>5. /\ w \in Seq(MessageType) /\ Len(w) = a + b + c
      /\ \A i \in 1..a + b : w[i] = v[i]
      /\ \A i \in a + b + 1..a + b + c : w[i] = after[i - (a + b)]
  <2>1. /\ w \in Seq(MessageType) /\ Len(w) = Len(v) + Len(after)
        /\ \A i \in 1..Len(v) : w[i] = v[i]
        /\ \A i \in Len(v) + 1..Len(v) + Len(after) : w[i] = after[i - Len(v)]
    BY <1>3, <1>4, Joined
  <2>2. QED
    BY <1>1, <1>3, <2>1
<1>6. w = Framed(before, s, after)
  BY <1>2, <1>4 DEF Framed
<1>7. \A i \in 1..a : w[i] = before[i]
  BY <1>3, <1>5
<1>8. \A i \in a + 1..a + b : w[i] = s[i - a] /\ i - a \in 1..b
  BY <1>3, <1>5
<1>9. \A i \in a + b + 1..a + b + c : w[i] = after[i - (a + b)] /\ i - (a + b) \in 1..c
  <2>1. \A i \in a + b + 1..a + b + c : i - (a + b) \in 1..c
    OBVIOUS
  <2>2. QED
    BY <1>5, <2>1
<1>10. \A i \in 1..a + b + c : i \in 1..a \/ i \in a + 1..a + b \/ i \in a + b + 1..a + b + c
  OBVIOUS
<1>11. \A i \in 1..b : w[i + a] = s[i]
  <2> SUFFICES ASSUME NEW i \in 1..b PROVE w[i + a] = s[i]
    OBVIOUS
  <2>1. i + a \in a + 1..a + b /\ (i + a) - a = i
    OBVIOUS
  <2>2. QED
    BY <1>8, <2>1
<1>12. \A i \in 1..a + b + c : i \in a + 1..a + b \/ Plain(w[i])
  BY <1>1, <1>7, <1>9, <1>10
<1>13. Orderly(w)
  <2>1. a + Len(s) <= Len(w) /\ \A i \in 1..Len(s) : w[i + a] = s[i]
    BY <1>1, <1>5, <1>11
  <2>2. \A i \in 1..Len(w) : i \in a + 1..a + Len(s) \/ Plain(w[i])
    BY <1>1, <1>5, <1>12
  <2>3. QED
    BY <1>5, <2>1, <2>2, PlainAround DEF Orderly
<1>14. ASSUME NEW i \in 1..a + b + c
       PROVE  \/ \E x \in 1..a : w[i] = before[x]
              \/ \E x \in 1..b : w[i] = s[x]
              \/ \E x \in 1..c : w[i] = after[x]
  <2>1. CASE i \in 1..a
    BY <1>7, <2>1
  <2>2. CASE i \in a + 1..a + b
    BY <1>8, <2>2
  <2>3. CASE i \in a + b + 1..a + b + c
    BY <1>9, <2>3
  <2>4. QED
    BY <1>10, <2>1, <2>2, <2>3
<1>15. QED
  <2>1. /\ w \in Seq(MessageType) /\ Orderly(w) /\ Len(w) = Len(before) + Len(s) + Len(after)
        /\ \A i \in 1..Len(before) : w[i] = before[i]
    BY <1>1, <1>5, <1>7, <1>13
  <2>2. \A i \in 1..Len(w) :
          \/ \E x \in 1..Len(before) : w[i] = before[x]
          \/ \E x \in 1..Len(s) : w[i] = s[x]
          \/ \E x \in 1..Len(after) : w[i] = after[x]
    BY <1>1, <1>5, <1>14
  <2>3. QED
    BY <1>6, <2>1, <2>2

LEMMA DigestIs ==
  ASSUME NEW mem \in MemoryType, Orderly(mem.messages), era \in Nat, CutKnown(mem, era)
  PROVE  /\ Digest(mem) \in MemoryType /\ Orderly(Digest(mem).messages)
         /\ Digest(mem).shrunk = {} /\ Digest(mem).full = mem.full
         /\ LeadIs(Digest(mem).messages, 0)
         /\ \A i \in 1..Len(Digest(mem).messages) : Digest(mem).messages[i].cut <= era
         /\ \A n \in Nat : Numbered(mem.messages, n) => Numbered(Digest(mem).messages, n)
<1>1. PICK s \in Seq(MessageType) : s = mem.messages
  BY DEF MemoryType
<1>2. PICK n \in Nat : n = Len(s) /\ DOMAIN s = 1..n
  BY LenProperties
<1>3. PICK d, t : d = Message("tool", "digest") /\ t = Message("user", "touched")
  OBVIOUS
<1>4. /\ d \in MessageType /\ Plain(d) /\ d.cut = 0 /\ d.role = "tool"
      /\ t \in MessageType /\ Plain(t) /\ t.cut = 0
  <2> DEFINE Roles == {"system", "user", "assistant", "tool"}
  <2>1. "tool" \in Roles /\ "user" \in Roles /\ "digest" \in Texts /\ "touched" \in Texts
    BY DEF Texts
  <2>2. /\ Message("tool", "digest") \in MessageType /\ Plain(Message("tool", "digest"))
        /\ Message("tool", "digest").cut = 0 /\ Message("tool", "digest").role = "tool"
    BY <2>1, MessagesTyped
  <2>3. /\ Message("user", "touched") \in MessageType /\ Plain(Message("user", "touched"))
        /\ Message("user", "touched").cut = 0
    BY <2>1, MessagesTyped
  <2>4. QED
    BY <1>3, <2>2, <2>3
<1>5. PICK touched : touched = If(\E m \in ToSet(s) : m.files, t)
  OBVIOUS
<1>6. touched \in Seq(MessageType) /\ \A i \in 1..Len(touched) : touched[i] = t
  <2>1. PICK b : b = \E m \in ToSet(s) : m.files
    OBVIOUS
  <2>2. touched = If(b, t)
    BY <1>5, <2>1
  <2>3. QED
    BY <1>4, <2>2, OneMessage
<1>7. PICK before : before = <<d>> \o touched
  OBVIOUS
<1>8. /\ before \in Seq(MessageType) /\ before[1] = d /\ Len(before) >= 1
      /\ \A i \in 1..Len(before) : before[i] = d \/ before[i] = t
  <2>1. <<d>> \in Seq(MessageType) /\ Len(<<d>>) = 1 /\ \A i \in 1..1 : <<d>>[i] = d
    BY <1>4, OneMessage
  <2>2. PICK one : one = <<d>>
    OBVIOUS
  <2>3. /\ before \in Seq(MessageType) /\ Len(before) = Len(one) + Len(touched) /\ Len(touched) \in Nat
        /\ \A i \in 1..Len(one) : before[i] = one[i]
        /\ \A i \in Len(one) + 1..Len(one) + Len(touched) : before[i] = touched[i - Len(one)]
        /\ \A i \in 1..Len(one) + Len(touched) :
             \/ i \in 1..Len(one)
             \/ i \in Len(one) + 1..Len(one) + Len(touched) /\ i - Len(one) \in 1..Len(touched)
    BY <1>6, <1>7, <2>1, <2>2, Joined
  <2>4. Len(one) = 1 /\ \A i \in 1..1 : one[i] = d
    BY <2>1, <2>2
  <2>5. \A i \in 1..Len(before) : i \in 1..1 \/ (i \in 1 + 1..1 + Len(touched) /\ i - 1 \in 1..Len(touched))
    BY <2>3, <2>4
  <2>6. before[1] = d /\ \A i \in 1 + 1..1 + Len(touched) : before[i] = touched[i - 1]
    BY <2>3, <2>4
  <2>7. \A i \in 1..Len(before) : before[i] = d \/ before[i] = t
    BY <1>6, <2>5, <2>6
  <2>8. QED
    BY <2>3, <2>4, <2>6, <2>7
<1>9. PICK units : units = Recent(s)
  OBVIOUS
<1>10. /\ units \in Seq(MessageType) /\ Orderly(units)
       /\ \A i \in 1..Len(units) : \E x \in 1..n : units[i] = s[x]
  BY <1>1, <1>2, <1>9, RecentInOrder
<1>11. PICK user : user = s[Max(Intents(s))]
  OBVIOUS
<1>12. PICK asked : asked = (Intents(s) # {} /\ \A m \in ToSet(before \o units) : ~Same(m, user))
  OBVIOUS
<1>13. PICK after : after = If(asked, user)
  OBVIOUS
<1>14. Intents(s) # {} => \E x \in 1..n : user = s[x] /\ s[x].role = "user"
  <2> SUFFICES ASSUME Intents(s) # {} PROVE \E x \in 1..n : user = s[x] /\ s[x].role = "user"
    OBVIOUS
  <2>1. \A x \in Intents(s) : x \in 1..n /\ s[x].role = "user"
    BY <1>2 DEF Intents
  <2>2. Intents(s) \in SUBSET (1..n)
    BY <2>1
  <2>3. PICK x \in Intents(s) : \A y \in Intents(s) : y <= x
    BY <2>2, GreatestExists
  <2>4. \A y \in Intents(s) : x >= y
    BY <2>1, <2>3
  <2>5. Max(Intents(s)) \in Intents(s)
    BY <2>4 DEF Max
  <2>6. QED
    BY <1>11, <2>1, <2>5
<1>15. /\ after \in Seq(MessageType)
       /\ \A i \in 1..Len(after) : Plain(after[i]) /\ \E x \in 1..n : after[i] = s[x]
  <2>1. CASE asked
    <3>1. PICK x \in 1..n : user = s[x] /\ s[x].role = "user"
      BY <1>12, <1>14, <2>1
    <3>2. user \in MessageType
      BY <1>2, <3>1, ElementOfSeq
    <3>3. s[x].large \in BOOLEAN
      BY <1>2, NoCallIsZero
    <3>4. Plain(s[x])
      BY <1>1, <1>2, <3>1, <3>3 DEF Plain, Orderly, Exchanges, Close
    <3>5. after \in Seq(MessageType) /\ \A i \in 1..Len(after) : after[i] = user
      BY <1>13, <3>2, OneMessage
    <3>6. QED
      BY <3>1, <3>4, <3>5
  <2>2. CASE ~asked
    <3>1. after = <<>>
      BY <1>13, <2>2 DEF If
    <3>2. QED
      BY <3>1
  <2>3. QED
    BY <2>1, <2>2
<1>16. PICK w : w = Framed(before, units, after)
  OBVIOUS
<1>17. Digest(mem) = [mem EXCEPT !.shrunk = {}, !.messages = w]
  <2>1. w = (before \o units) \o If(asked, user)
    BY <1>13, <1>16 DEF Framed
  <2>2. QED
    BY <1>1, <1>3, <1>5, <1>7, <1>9, <1>11, <1>12, <2>1 DEF Digest
<1>18. /\ w \in Seq(MessageType) /\ Orderly(w)
       /\ Len(w) = Len(before) + Len(units) + Len(after)
       /\ \A i \in 1..Len(before) : w[i] = before[i]
       /\ \A i \in 1..Len(w) :
            \/ \E x \in 1..Len(before) : w[i] = before[x]
            \/ \E x \in 1..Len(units) : w[i] = units[x]
            \/ \E x \in 1..Len(after) : w[i] = after[x]
  <2>1. \A i \in 1..Len(before) : Plain(before[i])
    BY <1>4, <1>8
  <2>2. QED
    <3>1. \A i \in 1..Len(after) : Plain(after[i])
      BY <1>15
    <3>2. /\ Framed(before, units, after) \in Seq(MessageType) /\ Orderly(Framed(before, units, after))
          /\ Len(Framed(before, units, after)) = Len(before) + Len(units) + Len(after)
          /\ \A i \in 1..Len(before) : Framed(before, units, after)[i] = before[i]
          /\ \A i \in 1..Len(Framed(before, units, after)) :
               \/ \E x \in 1..Len(before) : Framed(before, units, after)[i] = before[x]
               \/ \E x \in 1..Len(units) : Framed(before, units, after)[i] = units[x]
               \/ \E x \in 1..Len(after) : Framed(before, units, after)[i] = after[x]
      BY <1>8, <1>10, <1>15, <2>1, <3>1, FramedInOrder
    <3>3. QED
      BY <1>16, <3>2
<1>19. Len(before) \in Nat /\ Len(units) \in Nat /\ Len(after) \in Nat
  BY <1>8, <1>10, <1>15, LenProperties
<1>20. Digest(mem) \in MemoryType /\ Digest(mem).messages = w /\ Digest(mem).shrunk = {}
       /\ Digest(mem).full = mem.full
  <2>1. {} \in SUBSET Nat
    OBVIOUS
  <2>2. QED
    BY <1>17, <1>18, <2>1 DEF MemoryType
<1>21. LeadIs(w, 0)
  <2>1. 1 \in 1..Len(before) /\ 0 + 1 = 1
    BY <1>8, <1>19
  <2>2. w[1].role # "system"
    BY <1>4, <1>8, <1>18, <2>1
  <2>3. 0 \in 0..Len(w)
    BY <1>18, <1>19
  <2>4. QED
    BY <2>2, <2>3 DEF LeadIs
<1>22. \A i \in 1..Len(w) : w[i] = d \/ w[i] = t \/ \E x \in 1..n : w[i] = s[x]
  <2> SUFFICES ASSUME NEW i \in 1..Len(w) PROVE w[i] = d \/ w[i] = t \/ \E x \in 1..n : w[i] = s[x]
    OBVIOUS
  <2>1. CASE \E x \in 1..Len(before) : w[i] = before[x]
    BY <1>8, <2>1
  <2>2. CASE \E x \in 1..Len(units) : w[i] = units[x]
    BY <1>10, <2>2
  <2>3. CASE \E x \in 1..Len(after) : w[i] = after[x]
    BY <1>15, <2>3
  <2>4. QED
    BY <1>18, <2>1, <2>2, <2>3
<1>23. \A i \in 1..Len(w) : w[i].cut <= era
  <2>1. \A x \in 1..n : s[x].cut <= era
    BY <1>1, <1>2 DEF CutKnown
  <2>2. QED
    BY <1>4, <1>22, <2>1
<1>24. ASSUME NEW k \in Nat, Numbered(s, k) PROVE Numbered(w, k)
  <2>1. \A x \in 1..n : \A id \in IdsOf(s[x]) : id <= k
    BY <1>2, <1>24 DEF Numbered
  <2>2. IdsOf(d) = {} /\ IdsOf(t) = {}
    BY <1>4 DEF Plain, IdsOf
  <2>3. QED
    BY <1>22, <2>1, <2>2 DEF Numbered
<1>25. QED
  BY <1>1, <1>18, <1>20, <1>21, <1>23, <1>24

-----------------------------------------------------------------------------
(* The calls of a turn and their results, one after the other. *)

LEMMA OneMore ==
  ASSUME NEW s \in Seq(MessageType), NEW m \in MessageType
  PROVE  /\ Append(s, m) = s \o <<m>> /\ Append(s, m) \in Seq(MessageType)
         /\ Len(s) \in Nat /\ Len(Append(s, m)) = Len(s) + 1
         /\ \A i \in 1..Len(s) : Append(s, m)[i] = s[i]
         /\ Append(s, m)[Len(s) + 1] = m
         /\ \A i \in 1..Len(s) + 1 : i \in 1..Len(s) \/ i = Len(s) + 1
<1>1. Len(s) \in Nat
  BY LenProperties
<1>2. Append(s, m) = s \o <<m>>
  BY AppendIsConcat
<1>3. QED
  BY <1>1, <1>2, AppendProperties

LEMMA CallsSpoken ==
  ASSUME NEW s \in Seq(MessageType), Orderly(s), NEW n \in Nat, NEW k \in Nat, NEW m \in MessageType,
         m.calls = n + 1..n + k, m.role = "assistant", m.call = 0, ~m.large
  PROVE  Exchanges(Append(s, m), n + 1..n + k)
<1>1. PICK c \in Nat : c = Len(s) /\ DOMAIN s = 1..c
  BY LenProperties
<1>2. PICK u : u = Append(s, m)
  OBVIOUS
<1>3. /\ u \in Seq(MessageType) /\ Len(u) = c + 1 /\ u[c + 1] = m
      /\ \A i \in 1..c : u[i] = s[i]
      /\ \A i \in 1..c + 1 : i \in 1..c \/ i = c + 1
  BY <1>1, <1>2, OneMore
<1>4. DOMAIN u = 1..c + 1
  BY <1>3, LenProperties
<1>5. ASSUME NEW i \in 1..c
      PROVE  /\ \A j \in 1..i - 1 : u[i].call \in u[j].calls =>
                  \A l \in j + 1..i : u[l].call \in u[j].calls
             /\ u[i].calls # {} =>
                  u[i].role = "assistant" /\ u[i].call = 0 /\ IsFiniteSet(u[i].calls)
             /\ u[i].call # 0 => u[i].role = "tool"
             /\ u[i].large => u[i].call # 0
  <2>1. \A j \in 1..i : u[j] = s[j] /\ j \in 1..c
    BY <1>3
  <2>2. i \in DOMAIN s /\ i \in 1..i
    BY <1>1
  <2>3. ASSUME NEW j \in 1..i - 1, u[i].call \in u[j].calls, NEW l \in j + 1..i
        PROVE  u[l].call \in u[j].calls
    <3>1. j \in 1..i /\ l \in 1..i
      OBVIOUS
    <3>2. s[i].call \in s[j].calls
      BY <2>1, <2>2, <2>3, <3>1
    <3>3. s[l].call \in s[j].calls
      BY <2>2, <3>2 DEF Orderly, Exchanges, Close
    <3>4. QED
      BY <2>1, <3>1, <3>3
  <2>4. QED
    BY <2>1, <2>2, <2>3 DEF Orderly, Exchanges, Close
<1>6. \A j \in 1..c : m.call \notin u[j].calls
  BY <1>1, <1>3, NoCallIsZero
<1>7. IsFiniteSet(m.calls)
  <2>1. n + 1 \in Int /\ n + k \in Int
    OBVIOUS
  <2>2. QED
    BY <2>1, FS_Interval
<1>8. Close(u)
  <2>1. (c + 1) - 1 = c
    BY <1>1
  <2>2. QED
    BY <1>3, <1>4, <1>5, <1>6, <1>7, <2>1 DEF Close
<1>9. ASSUME NEW i \in 1..c, NEW id \in u[i].calls \ (n + 1..n + k)
      PROVE  \E j \in i + 1..i + Cardinality(u[i].calls) : j <= c + 1 /\ u[j].call = id
  <2>1. u[i] = s[i] /\ id \in s[i].calls \ {}
    BY <1>3, <1>9
  <2>2. PICK d \in Nat : d = Cardinality(s[i].calls)
    BY <1>1, <2>1, CallsCounted DEF Orderly, Exchanges
  <2>3. PICK j \in i + 1..i + d : j <= c /\ s[j].call = id
    BY <1>1, <2>1, <2>2 DEF Orderly, Exchanges
  <2>4. j \in 1..c /\ j <= c + 1
    BY <2>2, <2>3
  <2>5. u[j].call = id
    BY <1>3, <2>3, <2>4
  <2>6. QED
    BY <2>1, <2>2, <2>4, <2>5
<1>10. ASSUME NEW i \in 1..c, u[i].call # 0
       PROVE  /\ \E j \in 1..i - 1 : u[i].call \in u[j].calls
              /\ \A j \in 1..c + 1 : u[j].call = u[i].call => j = i
  <2>1. u[i] = s[i]
    BY <1>3
  <2>2. /\ \E j \in 1..i - 1 : s[i].call \in s[j].calls
        /\ \A j \in 1..c : s[j].call = s[i].call => j = i
    BY <1>1, <1>10, <2>1 DEF Orderly, Exchanges
  <2>3. \A j \in 1..i - 1 : j \in 1..c
    OBVIOUS
  <2>4. QED
    BY <1>3, <1>10, <2>1, <2>2, <2>3
<1>11. \A i \in 1..c + 1 :
         /\ \A id \in u[i].calls \ (n + 1..n + k) :
              \E j \in i + 1..i + Cardinality(u[i].calls) : j <= c + 1 /\ u[j].call = id
         /\ u[i].call # 0 =>
              /\ \E j \in 1..i - 1 : u[i].call \in u[j].calls
              /\ \A j \in 1..c + 1 : u[j].call = u[i].call => j = i
  <2>1. m.calls \ (n + 1..n + k) = {}
    OBVIOUS
  <2>2. QED
    BY <1>3, <1>9, <1>10, <2>1
<1>12. Exchanges(u, n + 1..n + k)
  <2>1. PICK due, z : due = n + 1..n + k /\ z = c + 1 /\ z = Len(u)
    BY <1>3
  <2>2. \A i \in 1..z :
         /\ \A id \in u[i].calls \ due :
              \E j \in i + 1..i + Cardinality(u[i].calls) : j <= z /\ u[j].call = id
         /\ u[i].call # 0 =>
              /\ \E j \in 1..i - 1 : u[i].call \in u[j].calls
              /\ \A j \in 1..z : u[j].call = u[i].call => j = i
    BY <1>11, <2>1
  <2>3. Exchanges(u, due)
    BY <1>8, <2>1, <2>2 DEF Exchanges
  <2>4. QED
    BY <2>1, <2>3
<1>13. QED
  BY <1>2, <1>12

LEMMA ResultSpoken ==
  ASSUME NEW s \in Seq(MessageType), NEW a \in Nat, NEW b \in Nat, NEW r \in Nat, NEW c,
         a + r < b, Exchanges(s, a + r + 1..b), Answering(s, c, a, b, r),
         NEW m \in MessageType, m.calls = {}, m.role = "tool", m.call = a + r + 1
  PROVE  Exchanges(Append(s, m), a + r + 2..b) /\ Answering(Append(s, m), c, a, b, r + 1)
<1>1. PICK n \in Nat : n = Len(s) /\ DOMAIN s = 1..n
  BY LenProperties
<1>2. c \in 1..n /\ n = c + r
  BY <1>1 DEF Answering
<1>3. PICK u : u = Append(s, m)
  OBVIOUS
<1>4. /\ u \in Seq(MessageType) /\ Len(u) = n + 1 /\ u[n + 1] = m
      /\ \A i \in 1..n : u[i] = s[i]
      /\ \A i \in 1..n + 1 : i \in 1..n \/ i = n + 1
  BY <1>1, <1>3, OneMore
<1>5. DOMAIN u = 1..n + 1
  BY <1>4, LenProperties
<1>6. \A i \in 1..n : i < c \/ i = c \/ \E k \in 1..r : i = c + k
  <2> SUFFICES ASSUME NEW i \in 1..n, i > c PROVE \E k \in 1..r : i = c + k
    BY <1>2
  <2>1. PICK k \in 1..r : k = i - c
    BY <1>2
  <2>2. i = c + k
    BY <1>2, <2>1
  <2>3. QED
    BY <2>2
<1>7. \A k \in 1..r : c + k \in 1..n /\ s[c + k].call = a + k /\ s[c + k].calls = {}
  <2> SUFFICES ASSUME NEW k \in 1..r PROVE c + k \in 1..n /\ s[c + k].call = a + k /\ s[c + k].calls = {}
    OBVIOUS
  <2>1. c + k \in 1..n /\ s[c + k].call = a + k /\ a + k # 0
    BY <1>2 DEF Answering
  <2>2. QED
    BY <1>1, <2>1 DEF Exchanges, Close
<1>8. s[c].call = 0 /\ s[c].calls = a + 1..b
  <2>1. a + 1 \in s[c].calls /\ s[c].calls = a + 1..b
    BY DEF Answering
  <2>2. QED
    BY <1>1, <1>2, <2>1 DEF Exchanges, Close
<1>9. \A i \in 1..n : i < c => (\A id \in s[i].calls : id <= a) /\ s[i].call <= a
  <2> SUFFICES ASSUME NEW i \in 1..n, i < c PROVE (\A id \in s[i].calls : id <= a) /\ s[i].call <= a
    OBVIOUS
  <2>1. i \in 1..c - 1
    BY <1>2
  <2>2. \A id \in IdsOf(s[i]) : id <= a
    BY <2>1 DEF Answering
  <2>3. s[i].call \in Nat
    BY <1>1, NoCallIsZero
  <2>4. QED
    BY <2>2, <2>3 DEF IdsOf
<1>10. \A i \in 1..n : (a + r + 1 \in s[i].calls => i = c) /\ s[i].call # a + r + 1
  <2> SUFFICES ASSUME NEW i \in 1..n
               PROVE  (a + r + 1 \in s[i].calls => i = c) /\ s[i].call # a + r + 1
    OBVIOUS
  <2>1. CASE i < c
    BY <1>9, <2>1
  <2>2. CASE i = c
    BY <1>8, <2>2
  <2>3. CASE \E k \in 1..r : i = c + k
    <3>1. PICK k \in 1..r : i = c + k
      BY <2>3
    <3>2. s[i].call = a + k /\ s[i].calls = {}
      BY <1>7, <3>1
    <3>3. a + k # a + r + 1
      BY <3>1
    <3>4. QED
      BY <3>2, <3>3
  <2>4. QED
    BY <1>6, <2>1, <2>2, <2>3
<1>11. a + r + 1 \in a + 1..b
  OBVIOUS
<1>12. \A l \in c + 1..n + 1 : u[l].call \in a + 1..b
  <2> SUFFICES ASSUME NEW l \in c + 1..n + 1 PROVE u[l].call \in a + 1..b
    OBVIOUS
  <2>1. CASE l = n + 1
    BY <1>4, <1>11, <2>1
  <2>2. CASE l # n + 1
    <3>1. l \in 1..n /\ l > c
      BY <1>2, <2>2
    <3>2. PICK k \in 1..r : l = c + k
      BY <1>2, <1>6, <3>1
    <3>3. u[l].call = a + k
      BY <1>4, <1>7, <3>1, <3>2
    <3>4. QED
      BY <3>3
  <2>3. QED
    BY <2>1, <2>2
<1>13. ASSUME NEW i \in 1..n
       PROVE  /\ \A j \in 1..i - 1 : u[i].call \in u[j].calls =>
                   \A l \in j + 1..i : u[l].call \in u[j].calls
              /\ u[i].calls # {} =>
                   u[i].role = "assistant" /\ u[i].call = 0 /\ IsFiniteSet(u[i].calls)
              /\ u[i].call # 0 => u[i].role = "tool"
              /\ u[i].large => u[i].call # 0
  <2>1. \A j \in 1..i : u[j] = s[j] /\ j \in 1..n
    BY <1>4
  <2>2. i \in DOMAIN s /\ i \in 1..i
    BY <1>1
  <2>3. ASSUME NEW j \in 1..i - 1, u[i].call \in u[j].calls, NEW l \in j + 1..i
        PROVE  u[l].call \in u[j].calls
    <3>1. j \in 1..i /\ l \in 1..i
      OBVIOUS
    <3>2. s[i].call \in s[j].calls
      BY <2>1, <2>2, <2>3, <3>1
    <3>3. s[l].call \in s[j].calls
      BY <2>2, <3>2 DEF Exchanges, Close
    <3>4. QED
      BY <2>1, <3>1, <3>3
  <2>4. QED
    BY <2>1, <2>2, <2>3 DEF Exchanges, Close
<1>14. \A j \in 1..n : m.call \in u[j].calls => \A l \in j + 1..n + 1 : u[l].call \in u[j].calls
  <2> SUFFICES ASSUME NEW j \in 1..n, m.call \in u[j].calls
               PROVE  \A l \in j + 1..n + 1 : u[l].call \in u[j].calls
    OBVIOUS
  <2>1. j = c /\ u[j].calls = a + 1..b
    BY <1>4, <1>8, <1>10
  <2>2. QED
    BY <1>12, <2>1
<1>15. Close(u)
  <2>1. (n + 1) - 1 = n /\ m.call # 0
    BY <1>1
  <2>2. QED
    BY <1>4, <1>5, <1>13, <1>14, <2>1 DEF Close
<1>16. ASSUME NEW i \in 1..n, NEW id \in u[i].calls \ (a + r + 2..b)
       PROVE  \E j \in i + 1..i + Cardinality(u[i].calls) : j <= n + 1 /\ u[j].call = id
  <2>1. u[i] = s[i] /\ id \in s[i].calls
    BY <1>4, <1>16
  <2>2. CASE id = a + r + 1
    <3>1. i = c /\ u[i].calls = a + 1..b
      BY <1>8, <1>10, <2>1, <2>2
    <3>2. Cardinality(a + 1..b) = b - a
      <4>1. a + 1 \in Int /\ b \in Int /\ ~(a + 1 > b)
        OBVIOUS
      <4>2. Cardinality(a + 1..b) = b - (a + 1) + 1
        BY <4>1, FS_Interval
      <4>3. QED
        BY <4>2
    <3>3. n + 1 \in i + 1..i + (b - a)
      BY <1>2, <3>1
    <3>4. u[n + 1].call = id
      BY <1>4, <2>2
    <3>5. n + 1 <= n + 1
      OBVIOUS
    <3>6. QED
      BY <3>1, <3>2, <3>3, <3>4, <3>5
  <2>3. CASE id # a + r + 1
    <3>1. id \in Nat
      BY <1>1, <2>1, NoCallIsZero
    <3>2. id \in s[i].calls \ (a + r + 1..b)
      BY <1>16, <2>1, <2>3, <3>1
    <3>3. PICK d \in Nat : d = Cardinality(s[i].calls)
      BY <1>1, <2>1, CallsCounted DEF Exchanges
    <3>4. PICK j \in i + 1..i + d : j <= n /\ s[j].call = id
      BY <1>1, <3>2, <3>3 DEF Exchanges
    <3>5. j \in 1..n /\ j <= n + 1
      BY <3>3, <3>4
    <3>6. u[j].call = id
      BY <1>4, <3>4, <3>5
    <3>7. QED
      BY <2>1, <3>3, <3>5, <3>6
  <2>4. QED
    BY <2>2, <2>3
<1>17. ASSUME NEW i \in 1..n, u[i].call # 0
       PROVE  /\ \E j \in 1..i - 1 : u[i].call \in u[j].calls
              /\ \A j \in 1..n + 1 : u[j].call = u[i].call => j = i
  <2>1. u[i] = s[i]
    BY <1>4
  <2>2. /\ \E j \in 1..i - 1 : s[i].call \in s[j].calls
        /\ \A j \in 1..n : s[j].call = s[i].call => j = i
    BY <1>1, <1>17, <2>1 DEF Exchanges
  <2>3. \A j \in 1..i - 1 : j \in 1..n
    OBVIOUS
  <2>4. s[i].call # m.call
    BY <1>10
  <2>5. QED
    BY <1>4, <2>1, <2>2, <2>3, <2>4
<1>18. /\ \E j \in 1..(n + 1) - 1 : m.call \in u[j].calls
       /\ \A j \in 1..n + 1 : u[j].call = m.call => j = n + 1
  <2>1. c \in 1..(n + 1) - 1 /\ m.call \in u[c].calls
    BY <1>2, <1>4, <1>8, <1>11
  <2>2. \A j \in 1..n : u[j].call # m.call
    BY <1>4, <1>10
  <2>3. QED
    BY <1>4, <2>1, <2>2
<1>19. Exchanges(u, a + r + 2..b)
  <2>1. PICK due, z : due = a + r + 2..b /\ z = n + 1 /\ z = Len(u)
    BY <1>4
  <2>2. ASSUME NEW i \in 1..z
        PROVE  /\ \A id \in u[i].calls \ due :
                    \E j \in i + 1..i + Cardinality(u[i].calls) : j <= z /\ u[j].call = id
               /\ u[i].call # 0 =>
                    /\ \E j \in 1..i - 1 : u[i].call \in u[j].calls
                    /\ \A j \in 1..z : u[j].call = u[i].call => j = i
    <3>1. CASE i \in 1..n
      BY <1>16, <1>17, <2>1, <3>1
    <3>2. CASE i = n + 1
      <4>1. u[i] = m
        BY <1>4, <3>2
      <4>2. QED
        BY <1>18, <2>1, <3>2, <4>1
    <3>3. QED
      BY <1>4, <2>1, <3>1, <3>2
  <2>3. Exchanges(u, due)
    BY <1>15, <2>1, <2>2 DEF Exchanges
  <2>4. QED
    BY <2>1, <2>3
<1>20. Answering(u, c, a, b, r + 1)
  <2>1. c \in 1..n + 1 /\ n + 1 = c + (r + 1) /\ u[c].calls = a + 1..b
    <3>1. u[c].calls = s[c].calls
      BY <1>2, <1>4
    <3>2. c \in 1..n + 1 /\ n + 1 = c + (r + 1)
      BY <1>2
    <3>3. QED
      BY <1>8, <3>1, <3>2
  <2>2. \A k \in 1..r + 1 : u[c + k].call = a + k
    <3> SUFFICES ASSUME NEW k \in 1..r + 1 PROVE u[c + k].call = a + k
      OBVIOUS
    <3>1. CASE k = r + 1
      <4>1. c + k = n + 1 /\ a + k = a + r + 1
        BY <1>2, <3>1
      <4>2. QED
        BY <1>4, <4>1
    <3>2. CASE k # r + 1
      <4>1. k \in 1..r
        BY <3>2
      <4>2. QED
        BY <1>4, <1>7, <4>1
    <3>3. QED
      BY <3>1, <3>2
  <2>3. \A i \in 1..c - 1 : \A id \in IdsOf(u[i]) : id <= a
    <3>1. \A i \in 1..c - 1 : i \in 1..n
      BY <1>2
    <3>2. QED
      BY <1>4, <3>1 DEF Answering
  <2>4. QED
    BY <1>4, <2>1, <2>2, <2>3 DEF Answering
<1>21. QED
  BY <1>3, <1>19, <1>20

-----------------------------------------------------------------------------
(* What the steps do to the messages. *)

LEMMA RebuiltKeeps ==
  ASSUME MessagesSound, NEW mem \in MemoryType, NEW base \in Seq(MessageType), NEW e \in Nat, e >= 2,
         era' = e, Orderly(mem.messages), Numbered(mem.messages, ids), CutKnown(mem, e),
         NEW h \in Nat, LeadIs(base, h), Later(mem.messages, base, h), Rebuilt(mem, base)
  PROVE  MessagesSound' /\ Orderly(Messages)'
<1>1. PICK add : add = If(habit.recalls /\ Intents(mem.messages) # {}, Recall)
  OBVIOUS
<1>2. Remarks(add)
  <2>1. PICK b : b = (habit.recalls /\ Intents(mem.messages) # {})
    OBVIOUS
  <2>2. add = If(b, Recall) /\ Recall \in {Recall, Feedback, Text}
    BY <1>1, <2>1
  <2>3. QED
    BY <2>2, RemarksSaid
<1>3. Adds(add) /\ add \in Seq(MessageType)
  BY <1>2 DEF Remarks, Adds
<1>4. /\ memory' = With(mem, add) /\ sent' = mem.messages \o add /\ log' = base \o add
      /\ habit' = habit /\ stored' = stored /\ ids' = ids
  BY <1>1 DEF Rebuilt
<1>5. PICK s \in Seq(MessageType) : s = mem.messages
  BY DEF MemoryType
<1>6. PICK t, w, l : t = s \o add /\ w = With(mem, add) /\ l = base \o add
  OBVIOUS
<1>7. w \in MemoryType /\ w.messages = t
  BY <1>3, <1>5, <1>6, WithMemory
<1>8. t \in Seq(MessageType) /\ l \in Seq(MessageType)
  BY <1>3, <1>5, <1>6, Joined
<1>9. Orderly(t)
  BY <1>2, <1>5, <1>6, RemarksKeepExchanges DEF Orderly
<1>10. Numbered(t, ids)
  BY <1>2, <1>3, <1>5, <1>6, NumbersAdded, PlainNumbered DEF Remarks
<1>11. CutKnown(w, e)
  <2>1. e >= 1
    OBVIOUS
  <2>2. QED
    BY <1>3, <1>6, <2>1, CutsStayKnown DEF Adds, Said
<1>12. LeadIs(l, h) /\ Later(t, l, h)
  BY <1>3, <1>5, <1>6, AddedAfterLead, AddedToBoth
<1>13. memory' = w /\ sent' = t /\ log' = l
  BY <1>4, <1>5, <1>6
<1>14. ConversationTyped'
  BY <1>4, <1>7, <1>8, <1>13 DEF MessagesSound, ConversationTyped
<1>15. Orderly(sent)' /\ Orderly(stored)' /\ Orderly(Messages)' /\ Numbered(Messages, ids)'
  BY <1>4, <1>7, <1>9, <1>10, <1>13 DEF MessagesSound, Messages
<1>16. CutKnown(memory, era)'
  BY <1>11, <1>13
<1>17. Shortened'
  BY <1>7, <1>12, <1>13 DEF Shortened, Messages
<1>18. QED
  BY <1>14, <1>15, <1>16, <1>17 DEF MessagesSound

(* The memory after the cuts, or after the oldest is dropped as well. *)
SoundMemory(mem) ==
  /\ mem \in MemoryType /\ Orderly(mem.messages) /\ Numbered(mem.messages, ids) /\ CutKnown(mem, era)
  /\ \A h \in Nat : LeadIs(Messages, h) /\ Later(Messages, log, h) => Later(mem.messages, log, h)

LEMMA MemoryIsSound ==
  ASSUME MessagesSound, Orderly(Messages)
  PROVE  SoundMemory(memory)
BY DEF MessagesSound, ConversationTyped, SoundMemory, Messages

LEMMA ShrunkIsSound ==
  ASSUME MessagesSound, Orderly(Messages)
  PROVE  SoundMemory(Shrink(memory))
<1>1. PICK m \in MemoryType : m = memory
  BY DEF MessagesSound, ConversationTyped
<1>2. /\ Orderly(m.messages) /\ Numbered(m.messages, ids) /\ CutKnown(m, era)
      /\ era \in Nat /\ era >= 2 /\ log \in Seq(MessageType) /\ Messages = m.messages
  BY <1>1 DEF MessagesSound, ConversationTyped, Messages
<1>3. Shrink(m) \in MemoryType /\ CutKnown(Shrink(m), era)
  BY <1>2, ShrinkTyped, ShrinkKeepsTexts
<1>4. Orderly(Shrink(m).messages) /\ Numbered(Shrink(m).messages, ids)
  BY <1>2, ShrinkKeepsOrder, ShrinkKeepsNumbers
<1>5. \A h \in Nat : Later(m.messages, log, h) => Later(Shrink(m).messages, log, h)
  <2>1. PICK all \in Seq(MessageType) : all = log
    BY <1>2
  <2>2. \A h \in Nat : Later(m.messages, all, h) => Later(Shrink(m).messages, all, h)
    BY <1>2, ShrinkKeepsAll
  <2>3. QED
    BY <2>1, <2>2
<1>6. QED
  BY <1>1, <1>2, <1>3, <1>4, <1>5 DEF SoundMemory

LEMMA SlidIsSound ==
  ASSUME MessagesSound, Orderly(Messages)
  PROVE  SoundMemory(Slid)
<1>1. SoundMemory(Shrink(memory))
  BY ShrunkIsSound
<1>2. PICK m \in MemoryType : m = Shrink(memory)
  BY <1>1 DEF SoundMemory
<1>3. /\ Orderly(m.messages) /\ Numbered(m.messages, ids) /\ CutKnown(m, era)
      /\ era \in Nat /\ era >= 2 /\ log \in Seq(MessageType)
      /\ \A h \in Nat : LeadIs(Messages, h) /\ Later(Messages, log, h) => Later(m.messages, log, h)
  BY <1>1, <1>2 DEF SoundMemory, MessagesSound, ConversationTyped
<1>4. Slide(m) \in MemoryType /\ CutKnown(Slide(m), era)
  BY <1>3, SlideTyped, SlideKeepsTexts
<1>5. /\ Orderly(Slide(m).messages) /\ Numbered(Slide(m).messages, ids)
      /\ \A h \in Nat : LeadIs(m.messages, h) => Later(Slide(m).messages, m.messages, h)
  BY <1>3, SlideKeepsOrder
<1>6. ASSUME NEW h \in Nat, LeadIs(Messages, h), Later(Messages, log, h)
      PROVE  Later(Slide(m).messages, log, h)
  <2>1. PICK all \in Seq(MessageType), s \in Seq(MessageType), t \in Seq(MessageType) :
          all = log /\ s = m.messages /\ t = Slide(m).messages
    BY <1>3, <1>4 DEF MemoryType
  <2>2. Later(s, all, h)
    BY <1>3, <1>6, <2>1
  <2>3. LeadIs(s, h)
    BY <2>2 DEF Later
  <2>4. Later(t, s, h)
    BY <1>5, <2>1, <2>3
  <2>5. Later(t, all, h)
    BY <2>2, <2>4, LaterStill
  <2>6. QED
    BY <2>1, <2>5
<1>7. Slid = Slide(m)
  BY <1>2 DEF Slid
<1>8. QED
  BY <1>4, <1>5, <1>6, <1>7 DEF SoundMemory

LEMMA PrepareKeeps ==
  ASSUME MessagesSound, Orderly(Messages), Prepare
  PROVE  MessagesSound' /\ Orderly(Messages)'
<1>1. PICK h \in Nat : LeadIs(log, h) /\ Later(Messages, log, h)
  BY DEF MessagesSound, Shortened
<1>2. LeadIs(Messages, h)
  BY <1>1 DEF Later
<1>3. SoundMemory(memory) /\ SoundMemory(Shrink(memory)) /\ SoundMemory(Slid)
  BY MemoryIsSound, ShrunkIsSound, SlidIsSound
<1>4. /\ era \in Nat /\ era >= 2 /\ log \in Seq(MessageType) /\ Messages \in Seq(MessageType)
      /\ ids \in Nat /\ strikes = strikes
  BY DEF MessagesSound, ConversationTyped, Messages, MemoryType
<1>5. ASSUME NEW m, SoundMemory(m), Rebuilt(m, log), era' = era
      PROVE  MessagesSound' /\ Orderly(Messages)'
  <2>1. PICK base \in Seq(MessageType), e \in Nat : base = log /\ e = era
    BY <1>4
  <2>2. m \in MemoryType /\ Orderly(m.messages) /\ Numbered(m.messages, ids) /\ CutKnown(m, e)
    BY <1>5, <2>1 DEF SoundMemory
  <2>3. LeadIs(base, h) /\ Later(m.messages, base, h)
    BY <1>1, <1>2, <1>5, <2>1 DEF SoundMemory
  <2>4. e >= 2 /\ era' = e /\ Rebuilt(m, base)
    BY <1>4, <1>5, <2>1
  <2>5. QED
    BY <2>2, <2>3, <2>4, RebuiltKeeps
<1>6. CASE OnlyCut
  <2>1. PICK m : m = IF habit.cuts THEN Shrink(memory) ELSE memory
    OBVIOUS
  <2>2. SoundMemory(m)
    BY <1>3, <2>1
  <2>3. PICK s, e, all, n : s = Messages /\ e = era /\ all = log /\ n = ids
    OBVIOUS
  <2>4. /\ memory' = m /\ sent' = s /\ habit' = habit /\ stored' = stored /\ ids' = n /\ log' = all
        /\ era' = e
    BY <1>6, <2>1, <2>3 DEF OnlyCut
  <2>5. /\ m \in MemoryType /\ Orderly(m.messages) /\ Numbered(m.messages, n) /\ CutKnown(m, e)
        /\ Later(m.messages, all, h) /\ Later(s, all, h) /\ LeadIs(all, h)
    BY <1>1, <1>2, <2>2, <2>3 DEF SoundMemory
  <2>6. ConversationTyped'
    BY <1>4, <2>3, <2>4, <2>5 DEF MessagesSound, ConversationTyped
  <2>7. Orderly(s) /\ Orderly(stored)
    BY <2>3 DEF MessagesSound
  <2>8. Orderly(sent)' /\ Orderly(stored)' /\ Orderly(Messages)' /\ Numbered(Messages, ids)'
    BY <2>4, <2>5, <2>7 DEF Messages
  <2>9. Shortened' /\ CutKnown(memory, era)'
    BY <2>4, <2>5 DEF Shortened, Messages
  <2>10. QED
    BY <2>6, <2>8, <2>9 DEF MessagesSound
<1>7. CASE CompactCut
  <2>1. PICK m : m = Shrink(memory)
    OBVIOUS
  <2>2. SoundMemory(m) /\ Rebuilt(m, log) /\ era' = era
    BY <1>3, <1>7, <2>1 DEF CompactCut
  <2>3. QED
    BY <1>5, <2>2
<1>8. CASE CompactSlide \/ DigestFails
  <2>1. PICK m : m = Slid
    OBVIOUS
  <2>2. SoundMemory(m) /\ Rebuilt(m, log) /\ era' = era
    BY <1>3, <1>8, <2>1 DEF CompactSlide, DigestFails
  <2>3. QED
    BY <1>5, <2>2
<1>9. CASE CompactDigest
  <2>1. PICK m \in MemoryType : m = Slid
    BY <1>3 DEF SoundMemory
  <2>2. Orderly(m.messages) /\ Numbered(m.messages, ids) /\ CutKnown(m, era)
    BY <1>3, <2>1 DEF SoundMemory
  <2>3. PICK d : d = Digest(m)
    OBVIOUS
  <2>4. /\ d \in MemoryType /\ Orderly(d.messages) /\ LeadIs(d.messages, 0)
        /\ \A i \in 1..Len(d.messages) : d.messages[i].cut <= era
        /\ Numbered(d.messages, ids)
    BY <1>4, <2>2, <2>3, DigestIs
  <2>5. PICK base \in Seq(MessageType), e \in Nat : base = d.messages /\ e = era + 1
    BY <1>4, <2>4 DEF MemoryType
  <2>6. e >= 2 /\ era' = e /\ Rebuilt(d, base)
    BY <1>4, <1>9, <2>1, <2>3, <2>5 DEF CompactDigest
  <2>7. CutKnown(d, e)
    <3>1. \A i \in 1..Len(d.messages) : d.messages[i].cut \in Nat
      BY <2>5, NoCallIsZero
    <3>2. \A i \in 1..Len(d.messages) : d.messages[i].cut <= e /\ d.messages[i].cut # e
      BY <1>4, <2>4, <2>5, <3>1
    <3>3. QED
      BY <3>2 DEF CutKnown
  <2>8. Later(base, base, 0)
    <3>1. PICK n \in Nat : n = Len(base)
      BY LenProperties
    <3>2. \A i \in 0 + 1..n : i + n - n = i
      OBVIOUS
    <3>3. LeadIs(base, 0)
      BY <2>4, <2>5
    <3>4. QED
      BY <3>1, <3>2, <3>3 DEF Later
  <2>9. 0 \in Nat /\ LeadIs(base, 0) /\ Later(d.messages, base, 0)
    BY <2>4, <2>5, <2>8
  <2>10. QED
    BY <2>4, <2>6, <2>7, <2>9, RebuiltKeeps
<1>10. QED
  BY <1>6, <1>7, <1>8, <1>9 DEF Prepare

LEMMA AppendKeeps ==
  ASSUME MessagesSound, NEW m \in MessageType, Said(m), NEW n \in Nat, ids' = n, ids <= n,
         \A id \in IdsOf(m) : id <= n, Append1(m)
  PROVE  MessagesSound' /\ Messages' = Append(Messages, m)
<1>1. PICK mem \in MemoryType, s \in Seq(MessageType), all \in Seq(MessageType), e \in Nat, k \in Nat :
        mem = memory /\ s = mem.messages /\ all = log /\ e = era /\ k = ids
  BY DEF MessagesSound, ConversationTyped, MemoryType
<1>2. PICK add : add = <<m>>
  OBVIOUS
<1>3. Adds(add) /\ add \in Seq(MessageType) /\ Numbered(add, n)
  BY <1>2, OneMessage DEF Adds, Numbered
<1>4. PICK w, t, l : w = With(mem, add) /\ t = s \o add /\ l = all \o add
  OBVIOUS
<1>5. w \in MemoryType /\ w.messages = t
  BY <1>1, <1>3, <1>4, WithMemory
<1>6. t = Append(s, m) /\ l = Append(all, m) /\ l \in Seq(MessageType)
  BY <1>1, <1>2, <1>4, OneMore
<1>7. /\ memory' = w /\ log' = l /\ sent' = <<>> /\ habit' = habit /\ stored' = stored /\ era' = e
  BY <1>1, <1>2, <1>4, <1>6 DEF Append1
<1>8. PICK h \in Nat : LeadIs(all, h) /\ Later(s, all, h)
  BY <1>1 DEF MessagesSound, Shortened, Messages
<1>9. LeadIs(l, h) /\ Later(t, l, h)
  BY <1>1, <1>3, <1>4, <1>8, AddedAfterLead, AddedToBoth
<1>10. Numbered(t, n)
  <2>1. \A i \in 1..Len(s) : \A id \in IdsOf(s[i]) : id \in Nat
    BY <1>1, NoCallIsZero DEF IdsOf
  <2>2. \A i \in 1..Len(s) : \A id \in IdsOf(s[i]) : id <= k
    BY <1>1 DEF MessagesSound, Numbered, Messages
  <2>3. Numbered(s, n)
    <3>1. \A x \in Nat : x <= k => x <= n
      BY <1>1
    <3>2. \A i \in 1..Len(s) : \A id \in IdsOf(s[i]) : id <= n
      BY <2>1, <2>2, <3>1
    <3>3. QED
      BY <3>2 DEF Numbered
  <2>4. QED
    BY <1>1, <1>3, <1>4, <2>3, NumbersAdded
<1>11. CutKnown(w, e)
  <2>1. CutKnown(mem, e) /\ e >= 1
    BY <1>1 DEF MessagesSound, ConversationTyped
  <2>2. QED
    BY <1>1, <1>3, <1>4, <2>1, CutsStayKnown DEF Adds, Said
<1>12. ConversationTyped'
  BY <1>1, <1>5, <1>6, <1>7 DEF MessagesSound, ConversationTyped
<1>13. Orderly(sent)' /\ Orderly(stored)'
  <2>1. Orderly(stored)
    BY DEF MessagesSound
  <2>2. \A q : q = <<>> => Orderly(q)
    BY DEF Orderly, Exchanges, Close
  <2>3. QED
    BY <1>7, <2>1, <2>2
<1>14. Numbered(Messages, ids)' /\ CutKnown(memory, era)'
  BY <1>5, <1>7, <1>10, <1>11 DEF Messages
<1>15. Shortened'
  BY <1>5, <1>7, <1>9 DEF Shortened, Messages
<1>16. Messages' = Append(Messages, m)
  BY <1>1, <1>5, <1>6, <1>7 DEF Messages
<1>17. QED
  BY <1>12, <1>13, <1>14, <1>15, <1>16 DEF MessagesSound

LEMMA StoreKeeps ==
  ASSUME MessagesSound, NEW mem, SoundMemory(mem), Store(mem)
  PROVE  MessagesSound'
<1>1. PICK all, n, e : all = log /\ n = ids /\ e = era
  OBVIOUS
<1>2. PICK h \in Nat : LeadIs(all, h) /\ Later(Messages, log, h)
  BY <1>1 DEF MessagesSound, Shortened
<1>3. LeadIs(Messages, h)
  BY <1>2 DEF Later
<1>4. /\ mem \in MemoryType /\ Orderly(mem.messages) /\ Numbered(mem.messages, n) /\ CutKnown(mem, e)
      /\ Later(mem.messages, all, h)
  BY <1>1, <1>2, <1>3 DEF SoundMemory
<1>5. /\ memory' = mem /\ stored' = mem.messages /\ sent' = <<>> /\ habit' = habit
      /\ ids' = n /\ log' = all /\ era' = e
  BY <1>1 DEF Store
<1>6. ConversationTyped'
  BY <1>1, <1>4, <1>5 DEF MessagesSound, ConversationTyped, MemoryType
<1>7. Orderly(sent)' /\ Orderly(stored)'
  <2>1. \A q : q = <<>> => Orderly(q)
    BY DEF Orderly, Exchanges, Close
  <2>2. QED
    BY <1>4, <1>5, <2>1
<1>8. Numbered(Messages, ids)' /\ CutKnown(memory, era)' /\ Shortened'
  BY <1>2, <1>4, <1>5 DEF Messages, Shortened
<1>9. QED
  BY <1>6, <1>7, <1>8 DEF MessagesSound

LEMMA NothingSaid ==
  ASSUME MessagesSound, UNCHANGED <<habit, memory, stored, ids, log, era>>, sent' = sent \/ sent' = <<>>
  PROVE  MessagesSound' /\ Messages' = Messages
<1>1. ConversationTyped'
  <2>1. ConversationTyped /\ sent \in Seq(MessageType) /\ <<>> \in Seq(MessageType)
    BY DEF MessagesSound, ConversationTyped
  <2>2. sent' \in Seq(MessageType)
    BY <2>1
  <2>3. QED
    BY <2>1, <2>2 DEF ConversationTyped
<1>2. Orderly(sent)' /\ Orderly(stored)'
  <2>1. \A q : q = <<>> => Orderly(q)
    BY DEF Orderly, Exchanges, Close
  <2>2. Orderly(sent) /\ Orderly(stored)
    BY DEF MessagesSound
  <2>3. CASE sent' = sent
    BY <2>2, <2>3
  <2>4. CASE sent' = <<>>
    BY <2>1, <2>2, <2>4
  <2>5. QED
    BY <2>3, <2>4
<1>3. Numbered(Messages, ids)' /\ CutKnown(memory, era)'
  BY DEF MessagesSound, Messages
<1>4. Shortened'
  BY DEF MessagesSound, Shortened, Messages
<1>5. QED
  BY <1>1, <1>2, <1>3, <1>4 DEF MessagesSound, Messages

-----------------------------------------------------------------------------
(* The messages of a whole run. *)

WalkOfTalk ==
  /\ pc' = "record" => pc = "record" \/ (pc = "segments" /\ at' = 1)
  /\ pc = "record" /\ pc' = "record" /\ at' # at => at' = at + 1 /\ at <= Len(turn)
  /\ pc \in TurnPlaces /\ pc' \notin TurnPlaces =>
       pc' = "ended" \/ (pc = "record" /\ pc' = "boundary" /\ at = Len(turn) + 1)

LEMMA LoopWalksTalk ==
  ASSUME LoopInvariant, Next
  PROVE  WalkOfTalk
<1> USE DEF callVars, WalkOfTalk, TurnPlaces
<1>1. /\ Len(turn) \in Nat /\ at \in Nat /\ at <= Len(turn) + 1
      /\ approval \in {"human", "deny", "allow"}
  <2>1. turn \in Seq(CallRecord) /\ at \in 1..Len(turn) + 1
    BY DEF LoopInvariant, Shape
  <2>2. QED
    BY <2>1, LenProperties, ProfilesAssumption DEF LoopInvariant, Simple, Approvals, Profile
<1>2. CASE Cancel \/ Boundary \/ ProviderFails \/ Complete \/ NoOutput \/ Done
  BY <1>2 DEF Cancel, Boundary, ProviderFails, Complete, NoOutput, Done, End, OutOfSteps
<1>3. CASE Gates \/ \E kinds \in Turns, block \in BOOLEAN : ToolCalls(kinds, block)
  BY <1>3 DEF Gates, Verify, LlmVerify, Review, RetryOrPause, ToolCalls
<1>4. CASE Skip \/ CheckAllows \/ CheckDenies \/ CheckAsks \/ AskCancelled
           \/ \E yes \in BOOLEAN : Answer(yes)
  <2>1. pc \in {"decide", "asking"} /\ pc' \in {"decide", "asking"}
    BY <1>1, <1>4 DEF Skip, CheckAllows, CheckDenies, CheckAsks, AskCancelled, Answer, Unblocked,
                       Deciding, Pass, Refuse, decideFrame
  <2>2. QED
    BY <2>1
<1>5. CASE Dispatch \/ BeginSegment \/ EndSegments \/ EndSegment
  BY <1>5 DEF Dispatch, BeginSegment, EndSegments, EndSegment
<1>6. CASE Record \/ Continue
  <2>1. at > Len(turn) => at = Len(turn) + 1
    BY <1>1
  <2>2. QED
    BY <1>6, <2>1 DEF Record, Continue
<1>7. CASE \E i \in DOMAIN turn : Start(i) \/ Retry(i) \/ Panic(i) \/ \E o \in {"ok", "error"} : Finish(i, o)
  BY <1>7 DEF Start, Retry, Panic, Finish, End
<1>8. QED
  BY <1>2, <1>3, <1>4, <1>5, <1>6, <1>7 DEF Next, Loop, Human, Turn

(* What a text or a gate adds. *)
LEMMA RemarkSpoken ==
  ASSUME MessagesSound, Orderly(Messages), NEW m \in {Text, Feedback}, Append1(m), UNCHANGED ids
  PROVE  MessagesSound' /\ Orderly(Messages)'
<1>1. m \in MessageType /\ Said(m) /\ IdsOf(m) = {}
  <2>1. Remarks(<<m>>) /\ Len(<<m>>) = 1 /\ <<m>>[1] = m
    BY RemarksSaid
  <2>2. Adds(<<m>>) /\ Plain(m)
    BY <2>1 DEF Remarks, Adds
  <2>3. m \in MessageType /\ Said(m)
    BY <2>1, <2>2 DEF Adds
  <2>4. QED
    BY <2>2, <2>3 DEF Plain, IdsOf
<1>2. PICK n \in Nat : n = ids
  BY DEF MessagesSound, ConversationTyped
<1>3. MessagesSound' /\ Messages' = Append(Messages, m)
  BY <1>1, <1>2, AppendKeeps
<1>4. PICK s \in Seq(MessageType) : s = Messages
  BY DEF MessagesSound, ConversationTyped, Messages, MemoryType
<1>5. Orderly(Append(s, m))
  <2>1. Remarks(<<m>>) /\ Append(s, m) = s \o <<m>> /\ Exchanges(s, {})
    BY <1>1, <1>4, RemarksSaid, OneMore DEF Orderly
  <2>2. QED
    BY <2>1, RemarksKeepExchanges DEF Orderly
<1>6. QED
  BY <1>3, <1>4, <1>5

LEMMA CallsAre ==
  ASSUME NEW k \in Nat, NEW n \in Nat, n = ids, NEW files \in BOOLEAN, habit \in Habits
  PROVE  /\ Calls(k, files) \in MessageType /\ Said(Calls(k, files))
         /\ Calls(k, files).calls = n + 1..n + k /\ Calls(k, files).role = "assistant"
         /\ Calls(k, files).call = 0 /\ ~Calls(k, files).large
<1>1. habit.thinks \in BOOLEAN
  BY HabitsAssumption DEF Habit
<1>2. PICK b \in BOOLEAN : b = habit.thinks
  BY <1>1
<1>3. PICK d \in SUBSET (Nat \ {0}) : d = n + 1..n + k
  OBVIOUS
<1>4. PICK m : m = [Message("assistant", "calls") EXCEPT !.calls = d, !.files = files, !.thought = b]
  OBVIOUS
<1>5. m = [role |-> "assistant", text |-> "calls", calls |-> d, call |-> 0, files |-> files,
           large |-> FALSE, cut |-> 0, thought |-> b]
  BY <1>4 DEF Message
<1>6. m \in MessageType
  BY <1>5 DEF MessageType, Texts
<1>7. Calls(k, files) = m
  BY <1>2, <1>3, <1>4 DEF Calls
<1>8. m.calls = d /\ m.role = "assistant" /\ m.call = 0 /\ ~m.large /\ m.cut = 0
  BY <1>5
<1>9. QED
  BY <1>3, <1>6, <1>7, <1>8 DEF Said

LEMMA ResultIs ==
  ASSUME NEW id \in Nat, NEW large \in BOOLEAN
  PROVE  /\ Result(id, large) \in MessageType /\ Said(Result(id, large))
         /\ Result(id, large).calls = {} /\ Result(id, large).role = "tool"
         /\ Result(id, large).call = id
<1>1. PICK m : m = Result(id, large)
  OBVIOUS
<1>2. m = [role |-> "tool", text |-> "result", calls |-> {}, call |-> id, files |-> FALSE,
           large |-> large, cut |-> 0, thought |-> FALSE]
  BY <1>1 DEF Result, Message
<1>3. m \in MessageType
  BY <1>2 DEF MessageType, Texts
<1>4. m.calls = {} /\ m.role = "tool" /\ m.call = id /\ m.cut = 0
  BY <1>2
<1>5. QED
  BY <1>1, <1>3, <1>4 DEF Said

LEMMA CallsKeep ==
  ASSUME MessagesSound, Orderly(Messages), pc' = "decide", NEW k \in Nat, k >= 1, Len(turn') = k,
         NEW files \in BOOLEAN, Append1(Calls(k, files)), ids' = ids + k
  PROVE  MessagesSound' /\ OpenTurn'
<1>1. PICK n \in Nat, s \in Seq(MessageType) : n = ids /\ s = Messages /\ Len(s) \in Nat
  BY LenProperties DEF MessagesSound, ConversationTyped, Messages, MemoryType
<1>2. PICK m \in MessageType : m = Calls(k, files)
  BY <1>1, CallsAre DEF MessagesSound, ConversationTyped
<1>3. /\ Said(m) /\ m.calls = n + 1..n + k /\ m.role = "assistant" /\ m.call = 0 /\ ~m.large
  <2>1. habit \in Habits
    BY DEF MessagesSound, ConversationTyped
  <2>2. /\ Said(Calls(k, files)) /\ Calls(k, files).calls = n + 1..n + k
        /\ Calls(k, files).role = "assistant" /\ Calls(k, files).call = 0 /\ ~Calls(k, files).large
    BY <1>1, <2>1, CallsAre
  <2>3. QED
    BY <1>2, <2>2
<1>4. PICK l \in Nat : l = n + k /\ n <= l /\ ids' = l
  BY <1>1
<1>5. \A id \in IdsOf(m) : id <= l
  BY <1>3, <1>4 DEF IdsOf
<1>6. MessagesSound' /\ Messages' = Append(s, m)
  BY <1>1, <1>2, <1>3, <1>4, <1>5, AppendKeeps
<1>7. Exchanges(Append(s, m), n + 1..n + k)
  BY <1>1, <1>3, CallsSpoken
<1>8. PICK c \in Nat : c = Len(s) + 1
  BY <1>1
<1>9. PICK t \in Seq(MessageType) : t = Append(s, m)
  BY OneMore
<1>10. /\ Len(t) = c /\ t[c] = m /\ \A i \in 1..c - 1 : t[i] = s[i] /\ i \in 1..Len(s)
  BY <1>1, <1>8, <1>9, OneMore
<1>11. Answering(t, c, n, l, 0)
  <2>1. c \in 1..c /\ c = c + 0 /\ 1..0 = {}
    BY <1>1, <1>8
  <2>2. \A i \in 1..c - 1 : \A id \in IdsOf(t[i]) : id <= n
    BY <1>1, <1>10 DEF MessagesSound, Numbered
  <2>3. t[c].calls = n + 1..l
    BY <1>3, <1>4, <1>10
  <2>4. QED
    BY <1>10, <2>1, <2>2, <2>3 DEF Answering
<1>12. Recorded' = 0 /\ Earlier' = n
  <2>1. Earlier' = l - k
    BY <1>4 DEF Earlier
  <2>2. QED
    BY <1>4, <2>1 DEF Recorded
<1>13. Messages' = t /\ ids' = l /\ Len(turn') >= 1 /\ n + 0 + 1 = n + 1 /\ n >= 0
  BY <1>4, <1>6, <1>9
<1>14. Exchanges(t, n + 0 + 1..l)
  BY <1>4, <1>7, <1>9, <1>13
<1>15. c \in 1..Len(t)
  BY <1>8, <1>10, <1>1
<1>16. QED
  BY <1>6, <1>11, <1>12, <1>13, <1>14, <1>15 DEF OpenTurn

LEMMA LastCallsAre ==
  ASSUME NEW s \in Seq(MessageType), s = Messages, NEW due, Exchanges(s, due),
         NEW a \in Nat, NEW b \in Nat, NEW r \in Nat, NEW c, a < b, Answering(s, c, a, b, r)
  PROVE  Min(LastCalls) = a + 1
<1>1. /\ c \in 1..Len(s) /\ Len(s) = c + r /\ s[c].calls = a + 1..b
      /\ \A k \in 1..r : s[c + k].call = a + k
  BY DEF Answering
<1>2. PICK n \in Nat : n = Len(s)
  BY LenProperties
<1>3. \A i \in 1..n : i > c => s[i].calls = {}
  <2> SUFFICES ASSUME NEW i \in 1..n, i > c PROVE s[i].calls = {}
    OBVIOUS
  <2>1. PICK k \in 1..r : i = c + k
    <3>1. i - c \in 1..r /\ i = c + (i - c)
      BY <1>1, <1>2
    <3>2. QED
      BY <3>1
  <2>2. s[i].call = a + k /\ a + k # 0
    BY <1>1, <2>1
  <2>3. s[i].calls # {} => s[i].call = 0
    BY <1>2, CallsCounted DEF Exchanges
  <2>4. QED
    BY <2>2, <2>3
<1>4. PICK S : S = {i \in 1..n : s[i].calls # {}}
  OBVIOUS
<1>5. c \in S /\ \A i \in S : i \in Nat /\ i <= c
  <2>1. a + 1 \in a + 1..b
    OBVIOUS
  <2>2. c \in S
    BY <1>1, <1>2, <1>4, <2>1
  <2>3. c \in Nat
    BY <1>1, <1>2
  <2>4. \A i \in S : i \in Nat /\ ~(i > c)
    BY <1>3, <1>4
  <2>5. QED
    BY <2>2, <2>3, <2>4
<1>6. Max(S) = c
  <2>1. \A x \in S : (\A y \in S : x >= y) => x = c
    BY <1>5
  <2>2. \A y \in S : c >= y
    BY <1>5
  <2>3. QED
    BY <1>5, <2>1, <2>2 DEF Max
<1>7. LastCalls = a + 1..b
  <2>1. DOMAIN Messages = 1..n
    BY <1>2
  <2>2. S = {i \in DOMAIN Messages : Messages[i].calls # {}}
    BY <1>4, <2>1
  <2>3. QED
    BY <1>1, <1>6, <2>2 DEF LastCalls
<1>8. QED
  <2>1. a + 1 \in a + 1..b /\ \A y \in a + 1..b : a + 1 <= y /\ y \in Nat
    OBVIOUS
  <2>2. \A x \in a + 1..b : (\A y \in a + 1..b : x <= y) => x = a + 1
    BY <2>1
  <2>3. Min(a + 1..b) = a + 1
    BY <2>1, <2>2 DEF Min
  <2>4. QED
    BY <1>7, <2>3

LEMMA ResultKeeps ==
  ASSUME MessagesSound, OpenTurn, pc = "record", pc' = "record", at' = at + 1, NEW k \in Nat,
         Len(turn) = k, Len(turn') = k, at \in 1..k,
         Append1(Result(Min(LastCalls) + at - 1, Long(turn[at]))), UNCHANGED ids
  PROVE  MessagesSound' /\ OpenTurn'
<1>1. PICK a \in Nat, b \in Nat, r \in Nat, s \in Seq(MessageType), n \in Nat :
        /\ b = ids /\ a = Earlier /\ r = Recorded /\ s = Messages /\ n = Len(s)
        /\ r = at - 1 /\ a + k = b
  <2>1. ids \in Nat /\ Messages \in Seq(MessageType)
    BY DEF MessagesSound, ConversationTyped, Messages, MemoryType
  <2>2. Earlier = ids - k /\ Earlier >= 0 /\ Recorded = at - 1
    BY DEF OpenTurn, Earlier, Recorded
  <2>3. Earlier \in Nat /\ Recorded \in Nat /\ Earlier + k = ids
    BY <2>1, <2>2
  <2>4. QED
    BY <2>1, <2>2, <2>3, LenProperties
<1>2. Exchanges(s, a + r + 1..b)
  BY <1>1 DEF OpenTurn
<1>3. PICK c \in Nat : Answering(s, c, a, b, r)
  <2>1. \E c \in 1..n : Answering(s, c, a, b, r)
    BY <1>1 DEF OpenTurn
  <2>2. QED
    BY <2>1
<1>4. a < b /\ a + r < b /\ r + 1 = at /\ a + r + 1 \in Nat /\ at' = r + 2
  BY <1>1
<1>5. Min(LastCalls) = a + 1
  BY <1>1, <1>2, <1>3, <1>4, LastCallsAre
<1>6. Min(LastCalls) + at - 1 = a + r + 1
  BY <1>1, <1>4, <1>5
<1>7. PICK l \in BOOLEAN : l = Long(turn[at])
  BY DEF Long
<1>8. PICK id \in Nat : id = a + r + 1
  BY <1>4
<1>9. PICK m \in MessageType : m = Result(id, l)
  BY ResultIs
<1>10. Said(m) /\ m.calls = {} /\ m.role = "tool" /\ m.call = id
  BY <1>9, ResultIs
<1>11. Append1(m) /\ ids' = b /\ ids <= b
  BY <1>1, <1>6, <1>7, <1>8, <1>9
<1>12. \A x \in IdsOf(m) : x <= b
  BY <1>4, <1>8, <1>10 DEF IdsOf
<1>13. MessagesSound' /\ Messages' = Append(s, m)
  BY <1>1, <1>10, <1>11, <1>12, AppendKeeps
<1>14. PICK t \in Seq(MessageType), q \in Nat : t = Append(s, m) /\ q = Len(t)
  BY OneMore, LenProperties
<1>15. Exchanges(t, a + r + 2..b) /\ Answering(t, c, a, b, r + 1)
  BY <1>2, <1>3, <1>4, <1>8, <1>10, <1>14, ResultSpoken
<1>16. Recorded' = r + 1 /\ Earlier' = a
  <2>1. Earlier' = b - k /\ Recorded' = r + 2 - 1
    BY <1>4, <1>11 DEF Earlier, Recorded
  <2>2. QED
    BY <1>1, <2>1
<1>17. a + (r + 1) + 1 = a + r + 2 /\ a >= 0 /\ Len(turn') >= 1
  BY <1>1
<1>18. Exchanges(t, a + (r + 1) + 1..b)
  BY <1>15, <1>17
<1>19. \E x \in 1..Len(t) : Answering(t, x, a, b, r + 1)
  BY <1>15 DEF Answering
<1>20. Messages' = t
  BY <1>13, <1>14
<1>21. QED
  BY <1>11, <1>13, <1>16, <1>17, <1>18, <1>19, <1>20 DEF OpenTurn

LEMMA ConversationStep ==
  ASSUME LoopInvariant, LoopInvariant', ConversationInvariant, Next, WithMessages
  PROVE  ConversationInvariant'
<1>1. /\ Talks' = Talks /\ WalkOfTalk /\ pc # "ended"
      /\ pc' \in TurnPlaces => pc \in TurnPlaces \/ Moves("request", "decide")
      /\ pc = "record" => pc' \in {"record", "boundary"}
      /\ pc \in TurnPlaces /\ pc' \in TurnPlaces => Len(turn') = Len(turn)
      /\ Moves("request", "decide") => 1 \in 1..Len(turn')
  <2>1. profile' = profile /\ WalkOfPlaces /\ WalkOfTurn /\ WalkOfTalk
    BY NextFrame, LoopWalksPlaces, LoopWalksTurn, LoopWalksTalk
  <2>2. QED
    BY <2>1 DEF WalkOfPlaces, WalkOfTurn, Talks, Moves
<1>2. MessagesSound /\ (Talks /\ pc \in TurnPlaces => OpenTurn)
      /\ (Talks /\ pc \notin TurnPlaces \cup {"ended"} => Orderly(Messages))
  BY DEF ConversationInvariant
<1>3. CASE ~Talks
  <2>1. UNCHANGED <<habit, memory, stored, ids, log, era>> /\ sent' = sent
    BY <1>3 DEF WithMessages, conversation
  <2>2. MessagesSound'
    BY <1>2, <2>1, NothingSaid
  <2>3. QED
    BY <1>1, <1>3, <2>2 DEF ConversationInvariant
<1>4. ASSUME Talks, pc \notin TurnPlaces PROVE Orderly(Messages)
  BY <1>1, <1>2, <1>4
<1>5. ASSUME MessagesSound', pc' = "ended" PROVE ConversationInvariant'
  BY <1>5 DEF ConversationInvariant, TurnPlaces
<1>6. ASSUME MessagesSound', Orderly(Messages)', pc' \notin TurnPlaces PROVE ConversationInvariant'
  BY <1>6 DEF ConversationInvariant
<1>7. ASSUME MessagesSound', OpenTurn', pc' \in TurnPlaces PROVE ConversationInvariant'
  BY <1>7 DEF ConversationInvariant
<1>8. CASE Talks
  <2>1. Spoken
    BY <1>8 DEF WithMessages
  <2>2. CASE Moves("boundary", "request") /\ Prepare
    <3>1. pc \notin TurnPlaces /\ pc' \notin TurnPlaces
      BY <2>2 DEF Moves, TurnPlaces
    <3>2. MessagesSound' /\ Orderly(Messages)'
      BY <1>2, <1>4, <1>8, <2>2, <3>1, PrepareKeeps
    <3>3. QED
      BY <1>6, <3>1, <3>2
  <2>3. ASSUME pc \notin TurnPlaces, pc' = "ended", Store(memory) \/ Store(Shrink(memory))
        PROVE  ConversationInvariant'
    <3>1. SoundMemory(memory) /\ SoundMemory(Shrink(memory))
      BY <1>2, <1>4, <1>8, <2>3, MemoryIsSound, ShrunkIsSound
    <3>2. PICK mem : mem \in {memory, Shrink(memory)} /\ Store(mem)
      BY <2>3
    <3>3. SoundMemory(mem)
      BY <3>1, <3>2
    <3>4. MessagesSound'
      BY <1>2, <3>2, <3>3, StoreKeeps
    <3>5. QED
      BY <1>5, <2>3, <3>4
  <2>4. CASE Moves("request", "verify") /\ ( \/ Append1(Text) /\ UNCHANGED ids
                                             \/ UNCHANGED <<habit, memory, stored, strikes, ids, log, era>> /\ sent' = <<>>)
    <3>1. pc \notin TurnPlaces /\ pc' \notin TurnPlaces
      BY <2>4 DEF Moves, TurnPlaces
    <3>2. Orderly(Messages)
      BY <1>4, <1>8, <3>1
    <3>3. CASE Append1(Text) /\ UNCHANGED ids
      BY <1>2, <1>6, <3>1, <3>2, <3>3, RemarkSpoken
    <3>4. CASE UNCHANGED <<habit, memory, stored, strikes, ids, log, era>> /\ sent' = <<>>
      <4>1. MessagesSound' /\ Messages' = Messages
        BY <1>2, <3>4, NothingSaid
      <4>2. QED
        BY <1>6, <3>1, <3>2, <4>1
    <3>5. QED
      BY <2>4, <3>3, <3>4
  <2>5. CASE /\ Moves("request", "decide")
             /\ Append1(Calls(Len(turn'), \E i \in DOMAIN turn' : turn'[i].kind = "write"))
             /\ ids' = ids + Len(turn')
    <3>1. pc \notin TurnPlaces /\ pc' \in TurnPlaces /\ pc' = "decide"
      BY <2>5 DEF Moves, TurnPlaces
    <3>2. PICK k \in Nat : k >= 1 /\ k = Len(turn')
      <4>1. turn' \in Seq(CallRecord')
        BY DEF LoopInvariant, Shape
      <4>2. Len(turn') \in Nat
        BY <4>1, LenProperties
      <4>3. QED
        BY <1>1, <2>5, <4>2
    <3>3. PICK files \in BOOLEAN : files = (\E i \in DOMAIN turn' : turn'[i].kind = "write")
      OBVIOUS
    <3>4. Append1(Calls(k, files)) /\ ids' = ids + k
      BY <2>5, <3>2, <3>3
    <3>5. MessagesSound' /\ OpenTurn'
      BY <1>2, <1>4, <1>8, <3>1, <3>2, <3>4, CallsKeep
    <3>6. QED
      BY <1>7, <3>1, <3>5
  <2>6. CASE /\ Moves("record", "record") /\ at' # at
             /\ Append1(Result(Min(LastCalls) + at - 1, Long(turn[at]))) /\ UNCHANGED ids
    <3>1. pc = "record" /\ pc' = "record" /\ pc \in TurnPlaces /\ pc' \in TurnPlaces
      BY <2>6 DEF Moves, TurnPlaces
    <3>2. PICK k \in Nat : k = Len(turn) /\ at \in 1..k /\ Len(turn') = k /\ at' = at + 1
      <4>1. turn \in Seq(CallRecord) /\ at \in 1..Len(turn) + 1
        BY DEF LoopInvariant, Shape
      <4>2. Len(turn) \in Nat
        BY <4>1, LenProperties
      <4>3. at' = at + 1 /\ at <= Len(turn) /\ Len(turn') = Len(turn)
        BY <1>1, <2>6, <3>1 DEF WalkOfTalk
      <4>4. at \in 1..Len(turn)
        BY <4>1, <4>2, <4>3
      <4>5. QED
        BY <4>2, <4>3, <4>4
    <3>3. OpenTurn
      BY <1>2, <1>8, <3>1
    <3>4. MessagesSound' /\ OpenTurn'
      BY <1>2, <2>6, <3>1, <3>2, <3>3, ResultKeeps
    <3>5. QED
      BY <1>7, <3>1, <3>4
  <2>7. CASE /\ pc \in {"verify", "llm", "review"} /\ pc' = "boundary"
             /\ Append1(Feedback) /\ UNCHANGED ids
    <3>1. pc \notin TurnPlaces /\ pc' \notin TurnPlaces
      BY <2>7 DEF TurnPlaces
    <3>2. MessagesSound' /\ Orderly(Messages)'
      BY <1>2, <1>4, <1>8, <2>7, <3>1, RemarkSpoken
    <3>3. QED
      BY <1>6, <3>1, <3>2
  <2>8. CASE Quiet /\ UNCHANGED conversation
    <3>1. UNCHANGED <<habit, memory, stored, ids, log, era>> /\ sent' = sent
      BY <2>8 DEF conversation
    <3>2. MessagesSound' /\ Messages' = Messages
      BY <1>2, <3>1, NothingSaid
    <3>3. CASE pc \notin TurnPlaces
      <4>1. pc' \notin TurnPlaces
        BY <1>1, <2>8, <3>3 DEF Quiet, Moves, TurnPlaces
      <4>2. Orderly(Messages)'
        BY <1>4, <1>8, <3>2, <3>3
      <4>3. QED
        BY <1>6, <3>2, <4>1, <4>2
    <3>4. CASE pc \in TurnPlaces /\ pc' = "ended"
      BY <1>5, <3>2, <3>4
    <3>5. CASE pc \in TurnPlaces /\ pc' \in TurnPlaces
      <4>1. Recorded' = Recorded
        BY <1>1, <2>8, <3>5 DEF Quiet, Moves, TurnPlaces, WalkOfTalk, Recorded
      <4>2. PICK k, b, r, s : k = Len(turn) /\ b = ids /\ r = Recorded /\ s = Messages
        OBVIOUS
      <4>3. /\ k >= 1 /\ b - k >= 0 /\ Exchanges(s, b - k + r + 1..b)
            /\ \E c \in 1..Len(s) : Answering(s, c, b - k, b, r)
        BY <1>2, <1>8, <3>5, <4>2 DEF OpenTurn, Earlier
      <4>4. Len(turn') = k /\ ids' = b /\ Recorded' = r /\ Messages' = s
        BY <1>1, <3>1, <3>2, <3>5, <4>1, <4>2
      <4>5. OpenTurn'
        BY <4>3, <4>4 DEF OpenTurn, Earlier
      <4>6. QED
        BY <1>7, <3>2, <3>5, <4>5
    <3>6. CASE pc \in TurnPlaces /\ pc' \notin TurnPlaces /\ pc' # "ended"
      <4>1. pc = "record" /\ pc' = "boundary" /\ at = Len(turn) + 1
        BY <1>1, <3>6 DEF WalkOfTalk
      <4>2. PICK n \in Nat : n = ids /\ Len(turn) \in Nat
        <5>1. turn \in Seq(CallRecord)
          BY DEF LoopInvariant, Shape
        <5>2. QED
          BY <1>2, <5>1, LenProperties DEF MessagesSound, ConversationTyped
      <4>3. Earlier + Recorded + 1..ids = {}
        <5>1. Earlier + Recorded + 1 = n + 1
          BY <4>1, <4>2 DEF Earlier, Recorded
        <5>2. QED
          BY <4>2, <5>1
      <4>4. Orderly(Messages)
        BY <1>2, <1>8, <3>6, <4>3 DEF OpenTurn, Orderly
      <4>5. Orderly(Messages)'
        BY <3>2, <4>4
      <4>6. QED
        BY <1>6, <3>2, <3>6, <4>5
    <3>7. QED
      BY <3>3, <3>4, <3>5, <3>6
  <2>9. CASE /\ Moves("boundary", "ended")
             /\ \/ Store(memory)
                \/ habit.cuts /\ ended' = "paused" /\ step < MaxSteps /\ Store(Shrink(memory))
    <3>1. pc \notin TurnPlaces /\ pc' = "ended"
      BY <2>9 DEF Moves, TurnPlaces
    <3>2. QED
      BY <2>3, <2>9, <3>1
  <2>10. CASE pc \in {"request", "verify", "llm", "review", "done"} /\ pc' = "ended" /\ Store(memory)
    <3>1. pc \notin TurnPlaces
      BY <2>10 DEF TurnPlaces
    <3>2. QED
      BY <2>3, <2>10, <3>1
  <2>11. QED
    BY <2>1, <2>2, <2>4, <2>5, <2>6, <2>7, <2>8, <2>9, <2>10 DEF Spoken
<1>9. QED
  BY <1>3, <1>8

-----------------------------------------------------------------------------
(* The beginning of a run: what the run before wrote back, and the prompt. *)

LEMMA ValuesBounded ==
  ASSUME NEW n \in Nat, NEW f \in [1..n -> Nat]
  PROVE  \E b \in Nat : \A i \in 1..n : f[i] <= b
<1>1. PICK S \in SUBSET Nat : S = {k \in 0..n : ~\E b \in Nat : \A i \in 1..k : f[i] <= b}
  <2>1. {k \in 0..n : ~\E b \in Nat : \A i \in 1..k : f[i] <= b} \in SUBSET Nat
    OBVIOUS
  <2>2. QED
    BY <2>1
<1>2. CASE S = {}
  <2>1. n \notin S /\ n \in 0..n
    BY <1>2
  <2>2. QED
    BY <1>1, <2>1
<1>3. CASE S # {}
  <2>1. PICK k \in S : \A j \in S : k <= j
    BY <1>3, LeastExists
  <2>2. k \in 0..n /\ ~\E b \in Nat : \A i \in 1..k : f[i] <= b
    BY <1>1, <2>1
  <2>3. k # 0
    <3>1. 1..0 = {} /\ 0 \in Nat
      OBVIOUS
    <3>2. QED
      BY <2>2, <3>1
  <2>4. k - 1 \in 0..n /\ k - 1 \notin S /\ k \in 1..n
    BY <2>1, <2>2, <2>3
  <2>5. PICK b \in Nat : \A i \in 1..k - 1 : f[i] <= b
    BY <1>1, <2>4
  <2>6. f[k] \in Nat /\ \A i \in 1..k : i \in 1..k - 1 \/ i = k
    BY <2>4
  <2>7. PICK c \in Nat : b <= c /\ f[k] <= c
    <3>1. b + f[k] \in Nat /\ b <= b + f[k] /\ f[k] <= b + f[k]
      BY <2>6
    <3>2. QED
      BY <3>1
  <2>8. \A i \in 1..k - 1 : f[i] \in Nat
    BY <2>4
  <2>9. \A i \in 1..k : f[i] <= c
    BY <2>5, <2>6, <2>7, <2>8
  <2>10. QED
    BY <2>2, <2>9
<1>4. QED
  BY <1>2, <1>3

LEMMA FiniteBounded ==
  ASSUME NEW S \in SUBSET Nat, IsFiniteSet(S)
  PROVE  \E b \in Nat : \A x \in S : x <= b
<1>1. PICK n \in Nat : ExistsBijection(1..n, S)
  BY FS_CardinalityType
<1>0. PICK f : f \in Bijection(1..n, S)
  BY <1>1 DEF ExistsBijection
<1>2. f \in [1..n -> S] /\ \A x \in S : \E i \in 1..n : f[i] = x
  BY <1>0 DEF Bijection, Surjection
<1>3. f \in [1..n -> Nat]
  BY <1>2
<1>4. PICK b \in Nat : \A i \in 1..n : f[i] <= b
  BY <1>3, ValuesBounded
<1>5. QED
  BY <1>2, <1>4

LEMMA GreatestOf ==
  ASSUME NEW S \in SUBSET Nat, S # {}, NEW b \in Nat, \A x \in S : x <= b
  PROVE  Max(S) \in S /\ \A x \in S : x <= Max(S)
<1>1. PICK B \in SUBSET Nat : B = {x \in Nat : \A y \in S : y <= x}
  <2>1. {x \in Nat : \A y \in S : y <= x} \in SUBSET Nat
    OBVIOUS
  <2>2. QED
    BY <2>1
<1>2. B # {}
  BY <1>1
<1>3. PICK m \in B : \A x \in B : m <= x
  BY <1>2, LeastExists
<1>4. m \in Nat /\ \A y \in S : y \in Nat /\ y <= m
  BY <1>1, <1>3
<1>5. m \in S
  <2> SUFFICES ASSUME m \notin S PROVE FALSE
    OBVIOUS
  <2>1. \A y \in S : y <= m - 1 /\ y >= 0
    BY <1>4
  <2>2. m # 0
    <3>1. PICK y : y \in S
      OBVIOUS
    <3>2. y <= m - 1 /\ y >= 0 /\ y \in Nat
      BY <1>4, <2>1, <3>1
    <3>3. QED
      BY <1>4, <3>2
  <2>3. m - 1 \in B
    BY <1>1, <1>4, <2>1, <2>2
  <2>4. QED
    BY <1>3, <1>4, <2>3
<1>6. \A y \in S : m >= y
  BY <1>4
<1>7. Max(S) = m
  <2>1. \A x \in S : (\A y \in S : x >= y) => x = m
    BY <1>4, <1>5
  <2>2. QED
    BY <1>5, <1>6, <2>1 DEF Max
<1>8. QED
  BY <1>4, <1>5, <1>7

CallsOf(s) == {0} \cup UNION {m.calls : m \in ToSet(s)}

LEMMA CallsOfNumbers ==
  ASSUME NEW s \in Seq(MessageType), Orderly(s)
  PROVE  Max(CallsOf(s)) \in Nat /\ Numbered(s, Max(CallsOf(s)))
<1>1. PICK n \in Nat : n = Len(s)
  BY LenProperties
<1>2. ToSet(s) = {s[i] : i \in 1..n}
  BY <1>1 DEF ToSet
<1>3. \A x \in CallsOf(s) : x = 0 \/ \E i \in 1..n : x \in s[i].calls
  BY <1>2 DEF CallsOf
<1>4. \A i \in 1..n : \A x \in s[i].calls : x \in CallsOf(s)
  BY <1>2 DEF CallsOf
<1>5. \A i \in 1..n : s[i].calls \in SUBSET Nat
  BY <1>1, NoCallIsZero
<1>6. CallsOf(s) \in SUBSET Nat /\ CallsOf(s) # {} /\ 0 \in CallsOf(s)
  <2>1. 0 \in CallsOf(s)
    BY DEF CallsOf
  <2>2. \A x \in CallsOf(s) : x \in Nat
    BY <1>3, <1>5
  <2>3. QED
    BY <2>1, <2>2
<1>7. \A i \in 1..n : \E b \in Nat : \A x \in s[i].calls : x <= b
  <2> SUFFICES ASSUME NEW i \in 1..n PROVE \E b \in Nat : \A x \in s[i].calls : x <= b
    OBVIOUS
  <2>1. CASE s[i].calls = {}
    <3>1. 0 \in Nat
      OBVIOUS
    <3>2. QED
      BY <2>1, <3>1
  <2>2. CASE s[i].calls # {}
    <3>1. IsFiniteSet(s[i].calls)
      BY <1>1, <2>2, CallsCounted DEF Orderly, Exchanges
    <3>2. QED
      BY <1>5, <3>1, FiniteBounded
  <2>3. QED
    BY <2>1, <2>2
<1>8. PICK f : f = [i \in 1..n |-> CHOOSE b \in Nat : \A x \in s[i].calls : x <= b]
  OBVIOUS
<1>9. f \in [1..n -> Nat] /\ \A i \in 1..n : \A x \in s[i].calls : x <= f[i]
  BY <1>7, <1>8
<1>10. PICK b \in Nat : \A i \in 1..n : f[i] <= b
  BY <1>9, ValuesBounded
<1>11. \A x \in CallsOf(s) : x <= b
  <2> SUFFICES ASSUME NEW x \in CallsOf(s) PROVE x <= b
    OBVIOUS
  <2>1. CASE x = 0
    BY <2>1
  <2>2. CASE \E i \in 1..n : x \in s[i].calls
    <3>1. PICK i \in 1..n : x \in s[i].calls
      BY <2>2
    <3>2. x \in Nat /\ f[i] \in Nat /\ x <= f[i] /\ f[i] <= b
      BY <1>6, <1>9, <1>10, <3>1
    <3>3. QED
      BY <3>2
  <2>3. QED
    BY <1>3, <2>1, <2>2
<1>12. Max(CallsOf(s)) \in CallsOf(s) /\ \A x \in CallsOf(s) : x <= Max(CallsOf(s))
  BY <1>6, <1>11, GreatestOf
<1>13. \A i \in 1..n : s[i].call # 0 => s[i].call \in CallsOf(s)
  <2> SUFFICES ASSUME NEW i \in 1..n, s[i].call # 0 PROVE s[i].call \in CallsOf(s)
    OBVIOUS
  <2>1. PICK j \in 1..i - 1 : s[i].call \in s[j].calls
    BY <1>1 DEF Orderly, Exchanges
  <2>2. j \in 1..n
    BY <2>1
  <2>3. QED
    BY <1>4, <2>1, <2>2
<1>14. \A i \in 1..n : \A id \in IdsOf(s[i]) : id \in CallsOf(s)
  BY <1>4, <1>13 DEF IdsOf
<1>15. QED
  BY <1>1, <1>6, <1>12, <1>14 DEF Numbered

(* What a run starts with is plain, and none of it has been cut. *)
Opening(s, n) ==
  /\ s \in Seq(MessageType) /\ Orderly(s) /\ Numbered(s, n)
  /\ \A i \in 1..Len(s) : s[i].cut <= 1

LEMMA OpeningAdded ==
  ASSUME NEW s, NEW n, Opening(s, n), NEW m \in MessageType, Plain(m), m.cut = 0, NEW b
  PROVE  Opening(s \o If(b, m), n) /\ Opening(s \o <<m>>, n)
<1>1. ASSUME NEW add \in Seq(MessageType), \A i \in 1..Len(add) : add[i] = m
      PROVE  Opening(s \o add, n)
  <2>1. PICK t \in Seq(MessageType) : t = s \o add
    BY Joined DEF Opening
  <2>2. s \in Seq(MessageType) /\ Orderly(s) /\ Numbered(s, n) /\ \A i \in 1..Len(s) : s[i].cut <= 1
    BY DEF Opening
  <2>3. \A i \in 1..Len(add) : Plain(add[i])
    BY <1>1
  <2>4. Orderly(t)
    BY <2>1, <2>2, <2>3, PlainKeepsExchanges DEF Orderly
  <2>5. Numbered(t, n)
    BY <2>1, <2>2, <2>3, PlainNumbered, NumbersAdded
  <2>6. \A i \in 1..Len(t) : t[i].cut <= 1
    <3>1. PICK k \in Nat, l \in Nat : k = Len(s) /\ l = Len(add)
      BY <2>2, LenProperties
    <3>2. /\ Len(t) = k + l /\ \A i \in 1..k : t[i] = s[i]
          /\ \A i \in k + 1..k + l : t[i] = add[i - k]
          /\ \A i \in 1..k + l : i \in 1..k \/ (i \in k + 1..k + l /\ i - k \in 1..l)
      BY <2>1, <2>2, <3>1, Joined
    <3>3. \A i \in 1..l : add[i].cut = 0
      BY <1>1, <3>1
    <3>4. \A i \in 1..k + l : t[i].cut <= 1
      <4>1. \A i \in 1..k : t[i].cut <= 1
        BY <2>2, <3>1, <3>2
      <4>2. \A i \in k + 1..k + l : i - k \in 1..l => t[i].cut = 0
        BY <3>2, <3>3
      <4>3. QED
        BY <3>2, <4>1, <4>2
    <3>5. QED
      BY <3>2, <3>4
  <2>7. QED
    BY <2>1, <2>4, <2>5, <2>6 DEF Opening
<1>2. /\ If(b, m) \in Seq(MessageType) /\ \A i \in 1..Len(If(b, m)) : If(b, m)[i] = m
      /\ <<m>> \in Seq(MessageType) /\ Len(<<m>>) = 1 /\ \A i \in 1..1 : <<m>>[i] = m
  BY OneMessage
<1>3. QED
  BY <1>1, <1>2

LEMMA ConversationInit == GatedInit => ConversationInvariant
<1> SUFFICES ASSUME GatedInit PROVE ConversationInvariant
  OBVIOUS
<1>1. Open /\ pc = "boundary"
  BY DEF GatedInit, RunInit, Init
<1>2. habit \in Habits /\ habit.prior \in Seq(MessageType)
  BY <1>1, HabitsAssumption DEF Open, Habit
<1>3. PICK s \in Seq(MessageType) : s = stored /\ s = habit.prior
  BY <1>1, <1>2 DEF Open
<1>4. Paired(s) /\ Close(s) /\ \A i \in DOMAIN s : s[i].cut <= 1
  BY <1>2, <1>3, PriorAssumption
<1>5. DOMAIN s = 1..Len(s)
  OBVIOUS
<1>6. Orderly(s) /\ \A i \in 1..Len(s) : s[i].cut <= 1
  <2>1. \A i \in 1..Len(s) : s[i].calls \ {} = s[i].calls
    OBVIOUS
  <2>2. QED
    BY <1>4, <1>5, <2>1 DEF Orderly, Exchanges, Paired
<1>7. PICK n \in Nat : n = ids /\ Numbered(s, n)
  <2>1. ids = Max(CallsOf(s))
    BY <1>1, <1>3 DEF Open, CallsOf
  <2>2. QED
    BY <2>1, <1>6, CallsOfNumbers
<1>8. Opening(s, n)
  BY <1>6, <1>7 DEF Opening
<1>9. PICK p, u : p = Message("system", "prefix") /\ u = Message("user", "prompt")
  OBVIOUS
<1>10. p \in MessageType /\ Plain(p) /\ p.cut = 0 /\ u \in MessageType /\ Plain(u) /\ u.cut = 0
  BY <1>9, MessagesTyped DEF Texts
<1>11. Recall \in MessageType /\ Plain(Recall) /\ Recall.cut = 0
  BY MessagesTyped DEF Recall, Texts
<1>12. PICK a, c : a = (s = <<>>) /\ c = habit.recalls
  OBVIOUS
<1>13. PICK v : v = s \o If(a, p) /\ Opening(v, n)
  BY <1>8, <1>10, OpeningAdded
<1>14. PICK w : w = v \o If(c, Recall) /\ Opening(w, n)
  BY <1>11, <1>13, OpeningAdded
<1>15. PICK t : t = w \o <<u>> /\ Opening(t, n)
  BY <1>10, <1>14, OpeningAdded
<1>16. t = stored \o If(stored = <<>>, Message("system", "prefix")) \o If(habit.recalls, Recall)
           \o <<Message("user", "prompt")>>
  BY <1>3, <1>9, <1>12, <1>13, <1>14, <1>15
<1>17. memory = Fresh(t) /\ log = t /\ sent = <<>> /\ era = 2
  BY <1>1, <1>16 DEF Open, Fresh
<1>18. memory = [messages |-> t, full |-> <<>>, shrunk |-> {}] /\ Messages = t
  BY <1>17 DEF Fresh, Messages
<1>19. /\ t \in Seq(MessageType) /\ Orderly(t) /\ Numbered(t, n)
       /\ \A i \in 1..Len(t) : t[i].cut <= 1
  BY <1>15 DEF Opening
<1>20. memory \in MemoryType
  <2>1. <<>> \in [{} -> {"whole", "rest"}] /\ {} \in SUBSET Nat
    OBVIOUS
  <2>2. <<>> \in UNION {[S -> {"whole", "rest"}] : S \in SUBSET Nat}
    BY <2>1
  <2>3. QED
    BY <1>18, <1>19, <2>1, <2>2 DEF MemoryType
<1>21. CutKnown(memory, era)
  <2>1. \A i \in 1..Len(t) : t[i].cut \in Nat
    BY <1>19, NoCallIsZero
  <2>2. memory.messages = t
    BY <1>18
  <2>3. \A i \in 1..Len(t) : t[i].cut <= 2 /\ t[i].cut # 2
    BY <1>19, <2>1
  <2>4. QED
    BY <1>17, <2>2, <2>3 DEF CutKnown
<1>22. Shortened
  <2>1. PICK h \in Nat : LeadIs(t, h)
    BY <1>19, LeadExists
  <2>2. PICK k \in Nat : k = Len(t)
    BY <1>19, LenProperties
  <2>3. \A i \in h + 1..k : i + k - k = i
    OBVIOUS
  <2>4. Later(t, t, h)
    BY <2>1, <2>2, <2>3 DEF Later
  <2>5. QED
    BY <1>17, <1>18, <2>1, <2>4 DEF Shortened
<1>23. ConversationTyped
  BY <1>2, <1>3, <1>7, <1>17, <1>19, <1>20 DEF ConversationTyped
<1>24. Orderly(sent) /\ Orderly(stored)
  <2>1. \A q : q = <<>> => Orderly(q)
    BY DEF Orderly, Exchanges, Close
  <2>2. QED
    BY <1>3, <1>6, <1>17, <2>1
<1>25. MessagesSound
  BY <1>7, <1>18, <1>19, <1>21, <1>22, <1>23, <1>24 DEF MessagesSound
<1>26. QED
  BY <1>1, <1>18, <1>19, <1>25 DEF ConversationInvariant, TurnPlaces

LEMMA ConversationInvariantAlways == GatedSpec => []ConversationInvariant
<1>1. ASSUME LoopInvariant, LoopInvariant', ConversationInvariant, GatedNext
      PROVE  ConversationInvariant'
  BY <1>1, ConversationStep DEF GatedNext
<1>2. ConversationInvariant /\ UNCHANGED gatedVars => ConversationInvariant'
  BY DEF gatedVars, runVars, vars, callVars, conversation, ConversationInvariant, MessagesSound,
         ConversationTyped, Shortened, OpenTurn, Earlier, Recorded, Messages, Talks
<1>3. QED
  <2>1. GatedSpec => []LoopInvariant
    BY GatedImpliesSpec, LoopInvariantAlways, PTL
  <2>2. LoopInvariant /\ LoopInvariant' /\ ConversationInvariant /\ [GatedNext]_gatedVars =>
          ConversationInvariant'
    BY <1>1, <1>2
  <2>3. QED
    BY <2>1, <2>2, ConversationInit, PTL DEF GatedSpec

(* For any conversation, any number of turns and any sizes of them: what   *)
(* the loop sends the provider, and what it writes back for the next run,  *)
(* holds one result behind every call, in a row, and no result alone,      *)
(* however often the boundary cut, dropped and digested in between.        *)
THEOREM RequestsStayReplayable == GatedSpec => []RequestsReplayable
<1>1. ASSUME NEW s \in Seq(MessageType), Orderly(s) PROVE Paired(s)
  <2>1. DOMAIN s = 1..Len(s) /\ \A i \in 1..Len(s) : s[i].calls \ {} = s[i].calls
    OBVIOUS
  <2>2. QED
    BY <1>1, <2>1 DEF Orderly, Exchanges, Paired
<1>2. ConversationInvariant => Paired(sent) /\ Paired(stored)
  BY <1>1 DEF ConversationInvariant, MessagesSound, ConversationTyped
<1>3. CallsAnswered /\ SegmentsAreSound /\ ConversationInvariant => RequestsReplayable
  BY <1>2 DEF RequestsReplayable
<1>4. QED
  BY <1>3, GatedRunsAreSound, ConversationInvariantAlways, PTL

(* Likewise: until a digest replaces it, the conversation is shortened     *)
(* only at its old end, behind the same system messages, and the text of   *)
(* every result that was cut since can be fetched whole.                   *)
THEOREM HistoryStaysKept == GatedSpec => []HistoryKept
<1>1. ConversationInvariant => OnlyOldIsDropped
  <2> SUFFICES ASSUME ConversationInvariant, NEW msgs \in {Messages, sent}, msgs # <<>>
               PROVE  /\ Lead(msgs) = Lead(log) /\ Len(msgs) <= Len(log)
                      /\ \A i \in Lead(msgs) + 1..Len(msgs) :
                           Whole(msgs[i]) = Whole(log[i + Len(log) - Len(msgs)])
    BY DEF OnlyOldIsDropped
  <2>1. PICK h \in Nat : LeadIs(log, h) /\ Later(msgs, log, h)
    BY DEF ConversationInvariant, MessagesSound, Shortened
  <2>2. msgs \in Seq(MessageType) /\ log \in Seq(MessageType)
    BY DEF ConversationInvariant, MessagesSound, ConversationTyped, MemoryType, Messages
  <2>3. Lead(log) = h
    BY <2>1, <2>2, LeadCounted
  <2>4. Lead(msgs) = h
    BY <2>1, <2>2, LeadCounted DEF Later
  <2>5. QED
    BY <2>1, <2>3, <2>4 DEF Later
<1>2. ConversationInvariant => CutIsFetchable
  <2> SUFFICES ASSUME ConversationInvariant, NEW m \in ToSet(Messages), m.cut = era
               PROVE  m.call \in DOMAIN memory.full /\ memory.full[m.call] = "whole"
    BY DEF CutIsFetchable
  <2>1. Messages \in Seq(MessageType) /\ Messages = memory.messages /\ CutKnown(memory, era)
    BY DEF ConversationInvariant, MessagesSound, ConversationTyped, MemoryType, Messages
  <2>2. PICK i \in 1..Len(Messages) : m = Messages[i]
    BY <2>1 DEF ToSet
  <2>3. QED
    BY <2>1, <2>2 DEF CutKnown
<1>3. ConversationInvariant => HistoryKept
  BY <1>1, <1>2 DEF HistoryKept
<1>4. QED
  BY <1>3, ConversationInvariantAlways, PTL

=============================================================================
