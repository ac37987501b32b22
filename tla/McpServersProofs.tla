-------------------------- MODULE McpServersProofs --------------------------
(***************************************************************************)
(* Proofs about McpServers, for any versions on either side, any number of *)
(* requests and callers, any capacities and any bounds on what goes wrong. *)
(*                                                                         *)
(* StdioInvariant follows the lines through the channel and the pipes      *)
(* (StdioTyped) and the two requests of the negotiation (Negotiates,       *)
(* AnswerAgrees, Offers); RequestsMatched follows.  HttpInvariant says     *)
(* where each request stands (Placed), how often the server may have       *)
(* carried it out (Executed), what the handshakes run and still to come    *)
(* are owed to (HandshakesPaid), and where a request stands that comes     *)
(* alone while one session ends (Lone); ExpiryHandled follows.             *)
(***************************************************************************)
EXTENDS McpServers, SequenceTheorems, FiniteSetTheorems, WellFoundedInduction, TLAPS

LEMMA LeastExists ==
    ASSUME NEW S \in SUBSET Nat, S # {}
    PROVE  \E i \in S : \A j \in S : i <= j
<1>1. PICK i \in S : \A j \in S : <<j, i>> \notin OpToRel(<, Nat)
  BY WFMin, NatLessThanWellFounded, Zenon
<1>2. \A j \in S : ~(j < i)
  BY <1>1, Zenon DEF OpToRel
<1>3. QED
  BY <1>2

(* The newest of a finite set of versions: the one with the fewest above it. *)
LEMMA MaxIsNewest ==
    ASSUME NEW S \in SUBSET Nat, S # {}, IsFiniteSet(S)
    PROVE  Max(S) \in S /\ \A v \in S : v =< Max(S)
<1> DEFINE Above(x) == {y \in S : y > x}
           T == {Cardinality(Above(x)) : x \in S}
<1>1. \A x \in S : IsFiniteSet(Above(x)) /\ Cardinality(Above(x)) \in Nat
  BY FS_Subset, FS_CardinalityType
<1>2. T \in SUBSET Nat /\ T # {}
  BY <1>1
<1>3. PICK t \in T : \A u \in T : t <= u
  BY <1>2, LeastExists
<1>4. PICK x \in S : t = Cardinality(Above(x))
  BY <1>3
<1>5. ASSUME NEW y \in S, y > x
      PROVE  FALSE
  <2>0. \A v \in S : v \in Nat
    OBVIOUS
  <2>1. \A v \in S : v > y => v > x
    BY <1>5, <2>0
  <2>4. Above(y) \in SUBSET Above(x) /\ y \in Above(x)
    BY <1>5, <2>1
  <2>5. y \notin Above(y)
    BY <2>0
  <2>2. Cardinality(Above(y)) =< Cardinality(Above(x)) /\ Cardinality(Above(y)) # Cardinality(Above(x))
    BY <1>1, <2>4, <2>5, FS_Subset
  <2>3. Cardinality(Above(x)) =< Cardinality(Above(y))
    BY <1>3, <1>4
  <2>6. Cardinality(Above(x)) \in Nat /\ Cardinality(Above(y)) \in Nat
    BY <1>1
  <2> HIDE DEF Above, T
  <2>7. QED
    BY <2>2, <2>3, <2>6
<1>6. \A y \in S : x >= y
  BY <1>5
<1>7. \E z \in S : \A y \in S : z >= y
  BY <1>6
<1> HIDE DEF Above, T
<1>8. Max(S) \in S /\ \A y \in S : Max(S) >= y
  BY <1>7 DEF Max
<1>9. QED
  BY <1>8

-----------------------------------------------------------------------------
(* A child process.                                                        *)

\* The lines to the server and from it, when n - 1 requests were registered;
\* an answer to the last of them while it negotiates says the version is known.
Outgoing(n) == {l \in Lines : l.kind = "request" => l.id \in 1..n - 1}
Incoming(n, asked, known) ==
    {l \in Lines :
       /\ l.kind \in {"answer", "counter", "error", "mismatch", "ask", "junk"}
       /\ l.kind \notin {"ask", "junk"} => l.id \in 1..n - 1
       /\ l.kind = "answer" /\ asked /\ l.id = n - 1 => known}

StdioTyped ==
    /\ StdioTypeOK
    /\ supported \in ServerVersions
    /\ channel \in Seq(Outgoing(nextId)) /\ stdin \in Seq(Outgoing(nextId)) /\ writing \in Outgoing(nextId)
    /\ accepted \subseteq 1..nextId - 1
    /\ stdout \in Seq(Incoming(nextId, phase = "negotiating", offer \in supported))

(* Nothing is known of a request that was not made. *)
Unused ==
    /\ \A i \in Id : i >= nextId => call[i] = "none" /\ reply[i] = Nothing
    /\ pending \subseteq 1..nextId - 1

(* The negotiation has one request at a time, and nothing else runs beside it. *)
Negotiates ==
    Connecting =>
      \A i \in Id : Live(i) \/ i \in pending => phase = "negotiating" /\ i = nextId - 1

AnswerAgrees ==
    phase = "negotiating" =>
      \A i \in Id : i = nextId - 1 /\ reply[i].kind = "answer" => offer \in supported

FirstOffer == offer = Max(Versions)
SecondOffer == Versions \cap supported # {} /\ offer = Max(Versions \cap supported)

Offers ==
    /\ phase = "offering" => (nextId = 1 /\ FirstOffer) \/ (nextId = 2 /\ SecondOffer)
    /\ phase = "negotiating" => (nextId = 2 /\ FirstOffer) \/ (nextId = 3 /\ SecondOffer)
    /\ phase = "notifying" => nextId =< 3
    /\ phase \in {"notifying", "ready"} =>
         spoken # "none" /\ (spoken = "offered" => offer \in supported) /\ (FirstOffer \/ SecondOffer)

Matched == AnswersMatch /\ PendingAccounted /\ Unused
Negotiation == Negotiates /\ AnswerAgrees /\ Offers

StdioInvariant == StdioTyped /\ Matched /\ Negotiation

LEMMA VersionsAreNumbers ==
    ASSUME StdioTyped
    PROVE  /\ Versions \in SUBSET Nat /\ Versions # {} /\ IsFiniteSet(Versions)
           /\ Versions \cap supported \in SUBSET Versions /\ IsFiniteSet(Versions \cap supported)
           /\ MaxId \in Nat \ {0} /\ Cap \in Nat \ {0} /\ PipeCap \in Nat \ {0} /\ MaxAsks \in Nat
<1>1. Versions \in SUBSET Nat /\ Versions # {} /\ IsFiniteSet(Versions) /\ MaxAsks \in Nat
      /\ {MaxId, Cap, PipeCap} \subseteq Nat \ {0}
  BY StdioAssumption
<1>2. MaxId \in Nat \ {0} /\ Cap \in Nat \ {0} /\ PipeCap \in Nat \ {0}
  BY <1>1
<1>3. IsFiniteSet(Versions \cap supported)
  BY <1>1, FS_Subset
<1>4. QED
  BY <1>1, <1>2, <1>3

LEMMA RangeGrows ==
    ASSUME NEW n \in Nat, NEW m \in Nat, n =< m
    PROVE  1..n - 1 \subseteq 1..m - 1
OBVIOUS

LEMMA OutgoingGrows ==
    ASSUME NEW n \in Nat, NEW m \in Nat, n =< m
    PROVE  Outgoing(n) \subseteq Outgoing(m) /\ Seq(Outgoing(n)) \subseteq Seq(Outgoing(m))
<1>1. Outgoing(n) \subseteq Outgoing(m)
  BY DEF Outgoing
<1>2. QED
  BY <1>1, SeqMonotonic

LEMMA IncomingGrows ==
    ASSUME NEW n \in Nat, NEW m \in Nat, NEW a \in BOOLEAN, NEW b \in BOOLEAN,
           NEW k \in BOOLEAN, NEW l \in BOOLEAN,
           n =< m, b => n < m \/ (a /\ (k => l))
    PROVE  Seq(Incoming(n, a, k)) \subseteq Seq(Incoming(m, b, l))
<1>1. Incoming(n, a, k) \subseteq Incoming(m, b, l)
  BY DEF Incoming
<1>2. QED
  BY <1>1, SeqMonotonic

LEMMA LinesAreLines ==
    ASSUME NEW n \in Nat, MaxId \in Nat
    PROVE  /\ Outgoing(n) \subseteq Lines /\ Seq(Outgoing(n)) \subseteq Seq(Lines)
           /\ \A a, k \in BOOLEAN : Incoming(n, a, k) \subseteq Lines
           /\ Nothing \in Outgoing(n) /\ Line("initialized", 0) \in Outgoing(n) /\ Line("reply", 0) \in Outgoing(n)
           /\ \A i \in Id : i < n => Line("request", i) \in Outgoing(n)
           /\ \A i \in Id : Line("closed", i) \in Lines
<1>1. Outgoing(n) \subseteq Lines /\ \A a, k \in BOOLEAN : Incoming(n, a, k) \subseteq Lines
  BY DEF Outgoing, Incoming
<1>2. Nothing \in Outgoing(n) /\ Line("initialized", 0) \in Outgoing(n) /\ Line("reply", 0) \in Outgoing(n)
  BY DEF Outgoing, Nothing, Line, Lines
<1>3. \A i \in Id : i < n => Line("request", i) \in Outgoing(n)
  BY DEF Outgoing, Line, Lines, Id
<1>4. \A i \in Id : Line("closed", i) \in Lines
  BY DEF Line, Lines, Id
<1>5. QED
  BY <1>1, <1>2, <1>3, <1>4, SeqMonotonic

(* Types: the lines of the connection come from where they should. *)
LEMMA StdioTypedInit ==
    ASSUME StdioInit
    PROVE  StdioTyped
<1>1. Versions \in SUBSET Nat /\ Versions # {} /\ IsFiniteSet(Versions)
      /\ {MaxId, Cap, PipeCap} \subseteq Nat \ {0} /\ MaxAsks \in Nat
  BY StdioAssumption
<1>2. offer \in Versions
  BY <1>1, MaxIsNewest DEF StdioInit
<1>3. MaxId \in Nat \ {0} /\ Cap \in Nat \ {0} /\ PipeCap \in Nat \ {0}
  BY <1>1
<1>4. Nothing \in Outgoing(1) /\ Nothing \in Lines
  BY <1>3, LinesAreLines DEF StdioInit
<1>5. StdioTypeOK
  BY <1>1, <1>2, <1>3, <1>4 DEF StdioInit, StdioTypeOK
<1>6. QED
  BY <1>4, <1>5 DEF StdioInit, StdioTyped

(* The requests and the connection go on; no line moves. *)
LEMMA CallersKeepTypes ==
    ASSUME StdioTyped,
           nextId' \in {nextId, nextId + 1}, nextId' =< MaxId + 1,
           phase' \in {"offering", "negotiating", "notifying", "ready", "failed", "shutting", "closed"},
           offer' \in Versions, spoken' \in {"none", "offered", "other"},
           phase' = "negotiating" => nextId' = nextId + 1 \/ (phase = "negotiating" /\ offer' = offer),
           pending' \subseteq Id,
           call' \in [Id -> {"none", "sending", "waiting", "done", "dropped"}],
           channel' = channel \/ channel' = <<>>
             \/ (Len(channel) < Cap /\ \E l \in Outgoing(nextId) : channel' = Append(channel, l)),
           writing' \in {writing, Nothing}, writer' \in {"on", "off"},
           UNCHANGED <<reply, stdin, stdout, accepted, supported, asks, reader>>
    PROVE  StdioTyped'
<1>1. nextId \in Nat /\ nextId' \in 1..(MaxId + 1) /\ nextId =< nextId' /\ nextId' \in Nat
  <2>1. nextId \in 1..(MaxId + 1)
    BY DEF StdioTyped, StdioTypeOK
  <2>2. MaxId \in Nat
    BY StdioAssumption
  <2>3. QED
    BY <2>1, <2>2
<1> USE VersionsAreNumbers
<1>2. channel' \in Seq(Outgoing(nextId)) /\ Len(channel') =< Cap
  <2>1. channel \in Seq(Outgoing(nextId)) /\ Len(channel) =< Cap /\ Len(channel) \in Nat
    BY LenProperties DEF StdioTyped, StdioTypeOK
  <2>2. CASE channel' = <<>>
    BY <2>2, EmptySeq
  <2>3. CASE Len(channel) < Cap /\ \E l \in Outgoing(nextId) : channel' = Append(channel, l)
    BY <2>1, <2>3, AppendProperties
  <2>4. QED
    BY <2>1, <2>2, <2>3
<1>3. writing' \in Outgoing(nextId)
  BY <1>1, LinesAreLines DEF StdioTyped
<1>4. channel' \in Seq(Outgoing(nextId')) /\ writing' \in Outgoing(nextId') /\ stdin' \in Seq(Outgoing(nextId'))
  BY <1>1, <1>2, <1>3, OutgoingGrows DEF StdioTyped
<1>5. channel' \in Seq(Lines) /\ writing' \in Lines
  BY <1>1, <1>4, LinesAreLines
<1>6. stdout' \in Seq(Incoming(nextId', phase' = "negotiating", offer' \in supported'))
  <2>1. Seq(Incoming(nextId, phase = "negotiating", offer \in supported))
        \subseteq Seq(Incoming(nextId', phase' = "negotiating", offer' \in supported'))
    <3> DEFINE a == phase = "negotiating"
               b == phase' = "negotiating"
               k == offer \in supported
               l == offer' \in supported'
    <3>1. a \in BOOLEAN /\ b \in BOOLEAN /\ k \in BOOLEAN /\ l \in BOOLEAN
      OBVIOUS
    <3>2. b => nextId < nextId' \/ (a /\ (k => l))
      BY <1>1
    <3> HIDE DEF a, b, k, l
    <3>3. Seq(Incoming(nextId, a, k)) \subseteq Seq(Incoming(nextId', b, l))
      BY <1>1, <3>1, <3>2, IncomingGrows
    <3>4. QED
      BY <3>3 DEF a, b, k, l
  <2>2. QED
    BY <2>1 DEF StdioTyped
<1>7. accepted' \subseteq 1..nextId' - 1
  <2>1. accepted \subseteq 1..nextId - 1 /\ accepted' = accepted
    BY DEF StdioTyped
  <2>2. 1..nextId - 1 \subseteq 1..nextId' - 1
    BY <1>1, RangeGrows
  <2>3. QED
    BY <2>1, <2>2
<1>8. StdioTypeOK'
  BY <1>1, <1>2, <1>5 DEF StdioTyped, StdioTypeOK
<1>9. QED
  BY <1>4, <1>6, <1>7, <1>8 DEF StdioTyped

(* The lines move; the requests and the connection stand still. *)
LEMMA PipesKeepTypes ==
    ASSUME StdioTyped, UNCHANGED <<phase, offer, spoken, nextId, call, supported>>,
           pending' \subseteq Id, reply' \in [Id -> Lines],
           channel' \in Seq(Outgoing(nextId)), Len(channel') =< Cap, writing' \in Outgoing(nextId),
           stdin' \in Seq(Outgoing(nextId)), Len(stdin') =< PipeCap,
           stdout' \in Seq(Incoming(nextId, phase = "negotiating", offer \in supported)), Len(stdout') =< PipeCap,
           writer' \in {"on", "off"}, reader' \in {"on", "leaving", "off"},
           accepted' \subseteq 1..nextId - 1, asks' \in 0..MaxAsks
    PROVE  StdioTyped'
<1>1. nextId \in 1..MaxId + 1 /\ MaxId \in Nat
  BY VersionsAreNumbers DEF StdioTyped, StdioTypeOK
<1>2. channel' \in Seq(Lines) /\ writing' \in Lines
  BY <1>1, LinesAreLines
<1>3. accepted' \subseteq Id
  BY <1>1 DEF Id
<1>4. StdioTypeOK'
  BY <1>2, <1>3 DEF StdioTyped, StdioTypeOK
<1>5. QED
  BY <1>4 DEF StdioTyped

(* The pipes are sequences of lines, whose heads and tails are what they were. *)
LEMMA PipesAreSequences ==
    ASSUME StdioTyped
    PROVE  /\ nextId \in 1..MaxId + 1 /\ MaxId \in Nat /\ Nothing \in Outgoing(nextId)
           /\ channel \in Seq(Outgoing(nextId)) /\ Len(channel) \in Nat /\ Len(channel) =< Cap
           /\ stdin \in Seq(Outgoing(nextId)) /\ Len(stdin) \in Nat /\ Len(stdin) =< PipeCap
           /\ stdout \in Seq(Incoming(nextId, phase = "negotiating", offer \in supported))
           /\ Len(stdout) \in Nat /\ Len(stdout) =< PipeCap
           /\ channel # <<>> => /\ Head(channel) \in Outgoing(nextId) /\ Tail(channel) \in Seq(Outgoing(nextId))
                               /\ Len(Tail(channel)) =< Cap
           /\ stdin # <<>> => /\ Head(stdin) \in Outgoing(nextId) /\ Tail(stdin) \in Seq(Outgoing(nextId))
                             /\ Len(Tail(stdin)) =< PipeCap
           /\ stdout # <<>> =>
                /\ Head(stdout) \in Incoming(nextId, phase = "negotiating", offer \in supported)
                /\ Tail(stdout) \in Seq(Incoming(nextId, phase = "negotiating", offer \in supported))
                /\ Len(Tail(stdout)) =< PipeCap
<1>1. /\ nextId \in 1..MaxId + 1 /\ MaxId \in Nat /\ Cap \in Nat /\ PipeCap \in Nat
      /\ Len(channel) =< Cap /\ Len(stdin) =< PipeCap /\ Len(stdout) =< PipeCap
      /\ channel \in Seq(Outgoing(nextId)) /\ stdin \in Seq(Outgoing(nextId))
      /\ stdout \in Seq(Incoming(nextId, phase = "negotiating", offer \in supported))
  BY VersionsAreNumbers DEF StdioTyped, StdioTypeOK
<1>2. ASSUME NEW S, NEW q \in Seq(S), NEW n \in Nat, Len(q) =< n
      PROVE  /\ Len(q) \in Nat
             /\ q # <<>> => Head(q) \in S /\ Tail(q) \in Seq(S) /\ Len(Tail(q)) =< n
  BY <1>2, HeadTailProperties, LenProperties
<1>3. Nothing \in Outgoing(nextId)
  BY <1>1, LinesAreLines
<1>4. Len(channel) \in Nat
      /\ (channel # <<>> => /\ Head(channel) \in Outgoing(nextId) /\ Tail(channel) \in Seq(Outgoing(nextId))
                            /\ Len(Tail(channel)) =< Cap)
  BY <1>1, <1>2
<1>5. Len(stdin) \in Nat
      /\ (stdin # <<>> => /\ Head(stdin) \in Outgoing(nextId) /\ Tail(stdin) \in Seq(Outgoing(nextId))
                          /\ Len(Tail(stdin)) =< PipeCap)
  BY <1>1, <1>2
<1> DEFINE I == Incoming(nextId, phase = "negotiating", offer \in supported)
<1>6. stdout \in Seq(I)
  BY <1>1
<1> HIDE DEF I
<1>7. Len(stdout) \in Nat
      /\ (stdout # <<>> => Head(stdout) \in I /\ Tail(stdout) \in Seq(I) /\ Len(Tail(stdout)) =< PipeCap)
  BY <1>1, <1>2, <1>6
<1>8. QED
  BY <1>1, <1>3, <1>4, <1>5, <1>7 DEF I

LEMMA StdioTypedStep ==
    ASSUME StdioTyped, Unused, StdioNext
    PROVE  StdioTyped'
<1> USE DEF caller, talk, tasks, child
<1>0. /\ phase \in {"offering", "negotiating", "notifying", "ready", "failed", "shutting", "closed"}
      /\ offer \in Versions /\ spoken \in {"none", "offered", "other"} /\ nextId \in 1..(MaxId + 1) /\ pending \subseteq Id
      /\ call \in [Id -> {"none", "sending", "waiting", "done", "dropped"}]
      /\ reply \in [Id -> Lines] /\ writing \in Outgoing(nextId)
      /\ writer \in {"on", "off"} /\ reader \in {"on", "leaving", "off"}
      /\ accepted \subseteq 1..nextId - 1 /\ asks \in 0..MaxAsks /\ MaxId \in Nat /\ MaxAsks \in Nat
  BY VersionsAreNumbers DEF StdioTyped, StdioTypeOK
<1>1. ASSUME Register, (phase' = phase /\ phase # "negotiating") \/ phase' = "negotiating", UNCHANGED child
      PROVE  StdioTyped'
  <2>1. /\ nextId' = nextId + 1 /\ nextId' =< MaxId + 1 /\ pending' \subseteq Id
        /\ call' \in [Id -> {"none", "sending", "waiting", "done", "dropped"}]
    BY <1>0, <1>1 DEF Register, Id
  <2>2. QED
    BY <1>0, <1>1, <2>1, CallersKeepTypes DEF Register
<1>2. ASSUME NEW i \in Id, NEW kind, Finish(i, kind), UNCHANGED reply
      PROVE  StdioTyped'
  <2>1. /\ call' \in [Id -> {"none", "sending", "waiting", "done", "dropped"}]
        /\ pending' \subseteq Id
    BY <1>0, <1>2 DEF Finish, Unregister
  <2>2. NextOffer # 0 => NextOffer \in Versions
    BY VersionsAreNumbers, MaxIsNewest DEF NextOffer
  <2>3. Conclude(kind) =>
          /\ phase' \in {"offering", "negotiating", "notifying", "ready", "failed", "shutting", "closed"}
          /\ offer' \in Versions /\ spoken' \in {"none", "offered", "other"}
          /\ phase' = "negotiating" => phase = "negotiating" /\ offer' = offer
          /\ UNCHANGED <<stdin, stdout, accepted, supported, asks>>
    BY <1>0, <2>2 DEF Conclude, Lost
  <2>4. QED
    BY <1>0, <1>2, <2>1, <2>3, CallersKeepTypes DEF Finish
<1>3. CASE Offer \/ Start
  BY <1>1, <1>3 DEF Offer, Start
<1>4. CASE ConnectTimeout
  <2>1. call' \in [Id -> {"none", "sending", "waiting", "done", "dropped"}]
    BY <1>0, <1>4 DEF ConnectTimeout
  <2>2. QED
    BY <1>0, <1>4, <2>1, CallersKeepTypes DEF ConnectTimeout, Lost
<1>5. CASE Initialized
  <2>1. Line("initialized", 0) \in Outgoing(nextId)
    BY <1>0, LinesAreLines
  <2>2. QED
    BY <1>0, <1>5, <2>1, CallersKeepTypes DEF Initialized, Room
<1>6. CASE Shutdown
  BY <1>0, <1>6, CallersKeepTypes DEF Shutdown
<1>7. CASE ShutDown
  BY <1>0, <1>7, CallersKeepTypes DEF ShutDown, WriterGone
<1>8. ASSUME NEW i \in Id, Enqueue(i)
      PROVE  StdioTyped'
  <2>1. call' \in [Id -> {"none", "sending", "waiting", "done", "dropped"}]
    BY <1>0, <1>8 DEF Enqueue
  <2>2. Line("request", i) \in Outgoing(nextId)
    <3>1. call[i] = "sending"
      BY <1>8 DEF Enqueue
    <3>2. i < nextId
      BY <1>0, <3>1 DEF Id, Unused
    <3>3. QED
      BY <1>0, <3>2, LinesAreLines
  <2>3. QED
    BY <1>0, <1>8, <2>1, <2>2, CallersKeepTypes DEF Enqueue, Room
<1>9. ASSUME NEW i \in Id, Receive(i) \/ SendFails(i) \/ Timeout(i)
      PROVE  StdioTyped'
  BY <1>2, <1>9 DEF Receive, SendFails, Timeout
<1>10. ASSUME NEW i \in Id, Drop(i)
       PROVE  StdioTyped'
  <2>1. call' \in [Id -> {"none", "sending", "waiting", "done", "dropped"}]
    BY <1>0, <1>10 DEF Drop
  <2>2. QED
    BY <1>0, <1>10, <2>1, CallersKeepTypes DEF Drop
<1>11. CASE WriterTakes
  BY <1>0, <1>11, PipesAreSequences, PipesKeepTypes DEF WriterTakes
<1>12. CASE WriterPuts
  <2>1. stdin' \in Seq(Outgoing(nextId)) /\ Len(stdin') =< PipeCap
    BY <1>0, <1>12, PipesAreSequences, AppendProperties, VersionsAreNumbers DEF WriterPuts
  <2>2. QED
    BY <1>0, <1>12, <2>1, PipesAreSequences, PipesKeepTypes DEF WriterPuts
<1>13. CASE WriterBreaks
  <2>1. channel' \in Seq(Outgoing(nextId)) /\ Len(channel') =< Cap
    BY <1>13, EmptySeq, VersionsAreNumbers DEF WriterBreaks, WriterGone
  <2>2. QED
    BY <1>0, <1>13, <2>1, PipesAreSequences, PipesKeepTypes DEF WriterBreaks, WriterGone
<1>14. CASE ReaderTakes
  <2>1. /\ pending' \subseteq Id /\ reply' \in [Id -> Lines] /\ reader' \in {"on", "leaving", "off"}
        /\ channel' \in Seq(Outgoing(nextId)) /\ Len(channel') =< Cap
    <3>1. Head(stdout) \in Lines
      <4> DEFINE a == phase = "negotiating"
                 k == offer \in supported
      <4>1. a \in BOOLEAN /\ k \in BOOLEAN
        OBVIOUS
      <4>2. Head(stdout) \in Incoming(nextId, a, k)
        BY <1>14, PipesAreSequences DEF ReaderTakes
      <4> HIDE DEF a, k
      <4>3. QED
        BY <1>0, <4>1, <4>2, LinesAreLines
    <3>2. ASSUME Answer
          PROVE  /\ channel' \in Seq(Outgoing(nextId)) /\ Len(channel') =< Cap
                 /\ reader' \in {"on", "leaving", "off"} /\ UNCHANGED <<pending, reply>>
      <4>1. Line("reply", 0) \in Outgoing(nextId)
        BY <1>0, LinesAreLines
      <4>2. /\ channel \in Seq(Outgoing(nextId)) /\ Len(channel) \in Nat /\ Len(channel) =< Cap /\ Cap \in Nat
        BY PipesAreSequences, VersionsAreNumbers
      <4>3. CASE UNCHANGED channel
        BY <1>0, <3>2, <4>2, <4>3 DEF Answer
      <4>4. CASE Len(channel) < Cap /\ channel' = Append(channel, Line("reply", 0)) /\ UNCHANGED reader
        BY <1>0, <3>2, <4>1, <4>2, <4>4, AppendProperties DEF Answer
      <4>5. QED
        BY <3>2, <4>3, <4>4 DEF Answer, Room
    <3>3. ASSUME Forward(Head(stdout))
          PROVE  reply' \in [Id -> Lines] /\ pending' \subseteq Id /\ UNCHANGED <<channel, reader>>
      BY <1>0, <3>1, <3>3 DEF Forward, Demux
    <3>4. QED
      BY <1>0, <1>14, <3>2, <3>3, PipesAreSequences DEF ReaderTakes
  <2>2. QED
    BY <1>0, <1>14, <2>1, PipesAreSequences, PipesKeepTypes DEF ReaderTakes
<1>15. CASE ReaderEnds
  BY <1>0, <1>15, PipesAreSequences, PipesKeepTypes DEF ReaderEnds
<1>16. CASE Drain
  <2>1. reply' \in [Id -> Lines]
    BY <1>0, <1>16, LinesAreLines DEF Drain
  <2>2. QED
    BY <1>0, <1>16, <2>1, PipesAreSequences, PipesKeepTypes DEF Drain
<1>17. CASE ServerReads
  <2>1. accepted' \subseteq 1..nextId - 1
    BY <1>0, <1>17, PipesAreSequences DEF ServerReads, Outgoing
  <2>2. QED
    BY <1>0, <1>17, <2>1, PipesAreSequences, PipesKeepTypes DEF ServerReads
<1>18. ASSUME NEW line \in Incoming(nextId, phase = "negotiating", offer \in supported), ServerPuts(line),
              asks' \in 0..MaxAsks
       PROVE  StdioTyped'
  <2> DEFINE I == Incoming(nextId, phase = "negotiating", offer \in supported)
  <2>1. line \in I /\ stdout \in Seq(I) /\ stdout' = Append(stdout, line)
    BY <1>18, PipesAreSequences DEF ServerPuts
  <2> HIDE DEF I
  <2>2. stdout' \in Seq(I) /\ Len(stdout') =< PipeCap
    BY <1>18, <2>1, PipesAreSequences, AppendProperties, VersionsAreNumbers DEF ServerPuts
  <2>3. stdout' \in Seq(Incoming(nextId, phase = "negotiating", offer \in supported))
    BY <2>2 DEF I
  <2>4. QED
    BY <1>0, <1>18, <2>2, <2>3, PipesAreSequences, PipesKeepTypes DEF ServerPuts
<1>19. CASE ServerAnswers
  <2>1. PICK i \in accepted, v \in Verdicts : ServerPuts(Line(v, i)) /\ UNCHANGED asks
    BY <1>19 DEF ServerAnswers
  <2>2. Line(v, i) \in Incoming(nextId, phase = "negotiating", offer \in supported)
    BY <1>0 DEF Verdicts, Line, Lines, Incoming
  <2>3. QED
    BY <1>0, <1>18, <2>1, <2>2
<1>20. CASE ServerSpeaks
  <2>1. PICK kind \in {"ask", "junk"} : ServerPuts(Line(kind, 0))
    BY <1>20 DEF ServerSpeaks
  <2>2. Line(kind, 0) \in Incoming(nextId, phase = "negotiating", offer \in supported)
    BY <1>0 DEF Line, Lines, Incoming
  <2>3. asks' \in 0..MaxAsks
    BY <1>0, <1>20 DEF ServerSpeaks
  <2>4. QED
    BY <1>18, <2>1, <2>2, <2>3
<1>21. CASE ServerDies
  BY <1>0, <1>21, PipesAreSequences, PipesKeepTypes DEF ServerDies
<1>22. QED
  BY <1>3, <1>4, <1>5, <1>6, <1>7, <1>8, <1>9, <1>10, <1>11, <1>12, <1>13, <1>14, <1>15, <1>16,
     <1>17, <1>19, <1>20, <1>21 DEF StdioNext, Tasks

(* A line the reader forwards goes to the request of its id, which is still  *)
(* registered; an answer to the negotiation is one to its last request.      *)
LEMMA ForwardedIsMatched ==
    ASSUME StdioTyped, ReaderTakes
    PROVE  \/ UNCHANGED <<pending, reply>>
           \/ \E line \in Lines :
                /\ line.kind \in {"answer", "counter", "error", "mismatch"}
                /\ line.id \in Id /\ line.id < nextId
                /\ phase = "negotiating" /\ line.id = nextId - 1 /\ line.kind = "answer" => offer \in supported
                /\ line.id \in pending
                /\ pending' = pending \ {line.id} /\ reply' = [reply EXCEPT ![line.id] = line]
<1>0. nextId \in 1..MaxId + 1 /\ MaxId \in Nat /\ stdout # <<>> /\ pending \subseteq Id
  BY PipesAreSequences DEF ReaderTakes, StdioTyped, StdioTypeOK
<1> DEFINE line == Head(stdout)
<1>1. line \in Incoming(nextId, phase = "negotiating", offer \in supported)
  BY <1>0, PipesAreSequences
<1>2. /\ line \in Lines /\ line.kind \in {"answer", "counter", "error", "mismatch", "ask", "junk"}
      /\ line.kind \notin {"ask", "junk"} => line.id \in 1..nextId - 1
      /\ phase = "negotiating" /\ line.id = nextId - 1 /\ line.kind = "answer" => offer \in supported
  BY <1>1 DEF Incoming
<1>3. CASE line.kind \in {"ask", "junk"}
  BY <1>3 DEF ReaderTakes, Answer
<1>4. CASE line.kind \notin {"ask", "junk"}
  <2>1. Forward(line) /\ line.id \in 1..nextId - 1
    BY <1>2, <1>4 DEF ReaderTakes
  <2>2. line.id \in Id /\ line.id < nextId /\ line.id # 0 /\ line.kind \in {"answer", "counter", "error", "mismatch"}
    BY <1>0, <1>2, <1>4, <2>1 DEF Id
  <2> HIDE DEF line
  <2>3. CASE line.id \in pending
    BY <1>2, <2>1, <2>2, <2>3 DEF Forward, Demux
  <2>4. CASE line.id \notin pending
    <3>1. 0 \notin pending
      BY <1>0 DEF Id
    <3>2. UNCHANGED <<pending, reply>>
      BY <2>1, <2>4, <3>1 DEF Forward, Demux
    <3>3. QED
      BY <3>2
  <2>5. QED
    BY <2>3, <2>4
<1>5. QED
  BY <1>3, <1>4

LEMMA MatchedStep ==
    ASSUME StdioTyped, Matched, StdioNext
    PROVE  Matched'
<1> USE DEF caller, tasks, child, Matched, AnswersMatch, PendingAccounted, Unused, Live
<1>0. /\ nextId \in 1..(MaxId + 1) /\ nextId \in Nat /\ pending \subseteq Id
      /\ call \in [Id -> {"none", "sending", "waiting", "done", "dropped"}]
      /\ reply \in [Id -> Lines] /\ MaxId \in Nat
  BY PipesAreSequences DEF StdioTyped, StdioTypeOK
<1>1. CASE Register
  <2>1. nextId \in Id /\ nextId' = nextId + 1 /\ pending' = pending \union {nextId}
        /\ call' = [call EXCEPT ![nextId] = "sending"] /\ reply' = reply
    BY <1>1 DEF Register
  <2>2. Unused'
    BY <1>0, <2>1 DEF Id
  <2>3. PendingAccounted'
    BY <1>0, <2>1
  <2>4. QED
    BY <2>1, <2>2, <2>3
<1>2. ASSUME NEW i \in Id, NEW kind, Live(i), Finish(i, kind), UNCHANGED reply
      PROVE  Matched'
  BY <1>0, <1>2 DEF Finish, Unregister
<1>3. ASSUME NEW i \in Id, Enqueue(i) \/ Drop(i)
      PROVE  Matched'
  <2>1. PICK w \in {"waiting", "dropped"} : call' = [call EXCEPT ![i] = w]
    BY <1>3 DEF Enqueue, Drop
  <2>2. Live(i) /\ UNCHANGED <<pending, reply, nextId>>
    BY <1>3 DEF Enqueue, Drop
  <2>3. PendingAccounted'
    BY <1>0, <2>1, <2>2
  <2>4. Unused'
    BY <1>0, <2>1, <2>2
  <2>5. QED
    BY <2>2, <2>3, <2>4
<1>4. ASSUME NEW i \in Id, Receive(i) \/ SendFails(i) \/ Timeout(i)
      PROVE  Matched'
  BY <1>2, <1>4 DEF Receive, SendFails, Timeout
<1>5. CASE ConnectTimeout
  BY <1>0, <1>5 DEF ConnectTimeout
<1>6. CASE UNCHANGED <<call, pending, reply, nextId>>
  BY <1>6
<1>7. CASE ReaderTakes
  <2>1. UNCHANGED <<call, nextId>>
    BY <1>7 DEF ReaderTakes
  <2>2. CASE UNCHANGED <<pending, reply>>
    BY <1>6, <2>1, <2>2
  <2>3. ASSUME NEW line \in Lines, line.kind \in {"answer", "counter", "error", "mismatch"},
               line.id \in Id, line.id < nextId,
               pending' = pending \ {line.id}, reply' = [reply EXCEPT ![line.id] = line]
        PROVE  Matched'
    <3>1. line # Nothing
      BY <2>3 DEF Nothing, Line
    <3>2. AnswersMatch'
      BY <1>0, <2>3
    <3>3. PendingAccounted'
      BY <1>0, <2>1, <2>3, <3>1
    <3>4. \A i \in Id : i >= nextId => call'[i] = "none" /\ reply'[i] = Nothing
      <4>1. \A i \in Id : i >= nextId => i # line.id
        BY <1>0, <2>3 DEF Id
      <4>2. QED
        BY <1>0, <2>1, <2>3, <4>1
    <3>5. pending' \subseteq 1..nextId' - 1
      BY <2>1, <2>3
    <3>6. QED
      BY <2>1, <3>2, <3>3, <3>4, <3>5
  <2>4. QED
    BY <1>7, <2>2, <2>3, ForwardedIsMatched
<1>8. CASE Drain
  <2>1. \A i \in Id : Line("closed", i) # Nothing /\ Line("closed", i).id = i
    BY DEF Line, Nothing
  <2>2. /\ UNCHANGED <<call, nextId>> /\ pending' = {}
        /\ reply' = [i \in Id |-> IF i \in pending THEN Line("closed", i) ELSE reply[i]]
    BY <1>8 DEF Drain
  <2>3. \A i \in pending : i < nextId
    BY <1>0
  <2>4. QED
    BY <1>0, <2>1, <2>2, <2>3
<1>9. QED
  BY <1>1, <1>3, <1>4, <1>5, <1>6, <1>7, <1>8
     DEF StdioNext, Offer, Start, Initialized, Shutdown, ShutDown, Tasks, WriterTakes, WriterPuts, WriterBreaks,
         ReaderEnds, ServerReads, ServerAnswers, ServerSpeaks, ServerPuts, ServerDies

LEMMA NegotiationStep ==
    ASSUME StdioTyped, Matched, Negotiation, StdioNext
    PROVE  Negotiation'
<1> USE DEF caller, talk, tasks, child, Negotiation, Negotiates, AnswerAgrees, Connecting, Live
<1>0. /\ nextId \in 1..(MaxId + 1) /\ nextId \in Nat /\ MaxId \in Nat
      /\ call \in [Id -> {"none", "sending", "waiting", "done", "dropped"}]
      /\ reply \in [Id -> Lines] /\ pending \subseteq Id
  <2>1. nextId \in 1..(MaxId + 1) /\ MaxId \in Nat
    BY PipesAreSequences
  <2>2. /\ call \in [Id -> {"none", "sending", "waiting", "done", "dropped"}]
        /\ reply \in [Id -> Lines] /\ pending \subseteq Id
    BY DEF StdioTyped, StdioTypeOK
  <2>3. nextId \in Nat
    BY <2>1
  <2>4. QED
    BY <2>1, <2>2, <2>3
<1>1. CASE Offer
  <2>1. /\ phase = "offering" /\ phase' = "negotiating" /\ nextId \in Id /\ nextId' = nextId + 1
        /\ UNCHANGED <<offer, supported, reply>>
        /\ call' = [call EXCEPT ![nextId] = "sending"] /\ pending' = pending \union {nextId}
    BY <1>1 DEF Offer, Register
  <2>2. Negotiates'
    BY <1>0, <2>1
  <2>3. reply[nextId] = Nothing
    BY <1>0, <2>1 DEF Matched, Unused
  <2>4. AnswerAgrees'
    BY <1>0, <2>1, <2>3 DEF Nothing, Line
  <2>5. Offers'
    BY <1>0, <2>1 DEF Offers, FirstOffer, SecondOffer
  <2>6. QED
    BY <2>2, <2>4, <2>5
<1>2. CASE Start \/ Shutdown \/ ShutDown \/ ConnectTimeout
  <2>1. /\ phase' \in {"ready", "shutting", "closed", "failed"} /\ (phase' = "ready" => phase = "ready")
        /\ UNCHANGED <<offer, spoken, supported>>
    BY <1>2 DEF Start, Register, Shutdown, ShutDown, ConnectTimeout, Lost
  <2>2. QED
    BY <2>1 DEF Offers, FirstOffer, SecondOffer
<1>3. CASE Initialized
  <2>1. phase = "notifying" /\ phase' = "ready" /\ UNCHANGED <<offer, spoken, supported>>
    BY <1>3 DEF Initialized
  <2>2. QED
    BY <2>1 DEF Offers, FirstOffer, SecondOffer
<1>4. ASSUME NEW i \in Id, Enqueue(i) \/ Drop(i)
      PROVE  Negotiation'
  <2>1. /\ UNCHANGED <<phase, offer, spoken, supported, nextId, pending, reply>>
        /\ Connecting => Enqueue(i)
    BY <1>4 DEF Enqueue, Drop
  <2>2. Connecting => \A j \in Id : Live(j)' => Live(j)
    BY <1>0, <2>1 DEF Enqueue
  <2>3. Offers'
    BY <2>1 DEF Offers, FirstOffer, SecondOffer
  <2>4. QED
    BY <1>0, <2>1, <2>2, <2>3
<1>5. ASSUME NEW i \in Id, NEW kind, Live(i), Finish(i, kind), UNCHANGED reply,
             kind = "answer" => reply[i].kind = "answer"
      PROVE  Negotiation'
  <2>1. /\ call' = [call EXCEPT ![i] = "done"] /\ pending' = pending \ {i} /\ Conclude(kind)
        /\ UNCHANGED <<nextId, reply>>
    BY <1>5 DEF Finish, Unregister
  <2>2. \A j \in Id : Live(j)' \/ j \in pending' => j # i /\ (Live(j) \/ j \in pending)
    BY <1>0, <2>1
  <2>3. CASE phase # "negotiating"
    <3>1. UNCHANGED <<phase, offer, spoken, supported>>
      BY <2>1, <2>3 DEF Conclude
    <3>2. QED
      BY <1>0, <2>1, <2>2, <2>3, <3>1 DEF Offers, FirstOffer, SecondOffer
  <2>4. CASE phase = "negotiating" /\ kind \in {"answer", "counter"}
    <3>1. /\ phase' = "notifying" /\ UNCHANGED <<offer, supported>>
          /\ spoken' = IF kind = "answer" THEN "offered" ELSE "other"
      BY <2>1, <2>4 DEF Conclude
    <3>2. i = nextId - 1 /\ (kind = "answer" => offer \in supported)
      BY <1>5, <2>4
    <3>3. Negotiates'
      BY <2>1, <2>2, <2>4, <3>2
    <3>4. spoken' # "none" /\ (spoken' = "offered" => offer' \in supported')
      BY <3>1, <3>2
    <3>5. Offers'
      BY <2>1, <2>4, <3>1, <3>4 DEF Offers, FirstOffer, SecondOffer
    <3>6. QED
      BY <3>1, <3>3, <3>5
  <2>5. CASE phase = "negotiating" /\ kind = "mismatch" /\ NextOffer # 0
    <3>1. phase' = "offering" /\ offer' = NextOffer /\ UNCHANGED supported
      BY <2>1, <2>5 DEF Conclude
    <3>2. i = nextId - 1
      BY <1>5, <2>5
    <3>3. Negotiates'
      BY <2>1, <2>2, <2>5, <3>2
    <3>4. Versions \cap supported # {} /\ offer # Max(Versions \cap supported)
          /\ offer' = Max(Versions \cap supported)
      BY <2>5, <3>1 DEF NextOffer
    <3>5. Offers'
      BY <2>1, <2>5, <3>1, <3>4 DEF Offers, SecondOffer
    <3>6. QED
      BY <3>1, <3>3, <3>5
  <2>6. CASE phase = "negotiating" /\ kind \notin {"answer", "counter"} /\ ~(kind = "mismatch" /\ NextOffer # 0)
    <3>1. Lost
      BY <2>1, <2>6 DEF Conclude
    <3>2. QED
      BY <3>1 DEF Lost, Offers
  <2>7. QED
    BY <2>3, <2>4, <2>5, <2>6
<1>6. ASSUME NEW i \in Id, Receive(i) \/ SendFails(i) \/ Timeout(i)
      PROVE  Negotiation'
  BY <1>5, <1>6 DEF Receive, SendFails, Timeout
<1>7. ASSUME UNCHANGED <<phase, offer, spoken, supported, nextId, call>>, pending' \subseteq pending,
             \A i \in Id : phase = "negotiating" /\ i = nextId - 1 /\ reply'[i].kind = "answer" =>
                reply[i].kind = "answer" \/ offer \in supported
      PROVE  Negotiation'
  <2>1. Offers'
    BY <1>7 DEF Offers, FirstOffer, SecondOffer
  <2>2. QED
    BY <1>7, <2>1
<1>8. CASE ReaderTakes
  <2>1. UNCHANGED <<phase, offer, spoken, supported, nextId, call>>
    BY <1>8 DEF ReaderTakes
  <2>2. ASSUME NEW line \in Lines, line.id \in Id,
               phase = "negotiating" /\ line.id = nextId - 1 /\ line.kind = "answer" => offer \in supported,
               pending' = pending \ {line.id}, reply' = [reply EXCEPT ![line.id] = line]
        PROVE  Negotiation'
    BY <1>0, <1>7, <2>1, <2>2
  <2>3. CASE UNCHANGED <<pending, reply>>
    BY <1>7, <2>1, <2>3
  <2>4. QED
    BY <1>8, <2>2, <2>3, ForwardedIsMatched
<1>9. CASE Drain
  <2>1. \A i \in Id : reply'[i].kind = "answer" => reply[i].kind = "answer"
    BY <1>0, <1>9 DEF Drain, Line
  <2>2. QED
    BY <1>7, <1>9, <2>1 DEF Drain
<1>10. CASE UNCHANGED <<phase, offer, spoken, supported, nextId, call, pending, reply>>
  BY <1>7, <1>10
<1>11. QED
  BY <1>1, <1>2, <1>3, <1>4, <1>6, <1>8, <1>9, <1>10
     DEF StdioNext, Tasks, WriterTakes, WriterPuts, WriterBreaks,
         ReaderEnds, ServerReads, ServerAnswers, ServerSpeaks, ServerPuts, ServerDies

LEMMA StdioInvariantInit == StdioInit => StdioInvariant
<1> SUFFICES ASSUME StdioInit PROVE StdioInvariant
  OBVIOUS
<1>1. StdioTyped
  BY StdioTypedInit
<1>2. Matched
  BY DEF StdioInit, Matched, AnswersMatch, PendingAccounted, Unused, Live
<1>3. Negotiation
  BY DEF StdioInit, Negotiation, Negotiates, AnswerAgrees, Offers, FirstOffer, Live
<1>4. QED
  BY <1>1, <1>2, <1>3 DEF StdioInvariant

LEMMA StdioInvariantStep == StdioInvariant /\ [StdioNext]_svars => StdioInvariant'
<1> SUFFICES ASSUME StdioInvariant, [StdioNext]_svars PROVE StdioInvariant'
  OBVIOUS
<1>1. CASE StdioNext
  BY <1>1, StdioTypedStep, MatchedStep, NegotiationStep DEF StdioInvariant, Matched
<1>2. CASE UNCHANGED svars
  <2>1. UNCHANGED <<phase, offer, spoken, nextId, call, pending, reply, channel, writing, writer, reader, drained,
                    alive, stdin, stdout, accepted, supported, asks>>
    BY <1>2 DEF svars, caller, talk, tasks, child
  <2>2. StdioTyped'
    BY <2>1 DEF StdioInvariant, StdioTyped, StdioTypeOK
  <2>3. Matched' /\ Negotiation'
    BY <2>1 DEF StdioInvariant, Matched, AnswersMatch, PendingAccounted, Unused, Live, Negotiation,
                Negotiates, AnswerAgrees, Offers, FirstOffer, SecondOffer, Connecting
  <2>4. QED
    BY <2>2, <2>3 DEF StdioInvariant
<1>3. QED
  BY <1>1, <1>2

LEMMA StdioInvariantFits == StdioInvariant => RequestsMatched
<1> SUFFICES ASSUME StdioInvariant PROVE RequestsMatched
  OBVIOUS
<1>1. Negotiated
  <2>1. nextId \in Nat /\ Versions \in SUBSET Nat
    BY PipesAreSequences, VersionsAreNumbers DEF StdioInvariant
  <2>2. FirstOffer \/ SecondOffer => \A v \in Versions \cap supported : v =< offer
    BY VersionsAreNumbers, MaxIsNewest DEF FirstOffer, SecondOffer, StdioInvariant
  <2>3. Connecting => nextId =< 3
    BY <2>1 DEF StdioInvariant, Negotiation, Offers, Connecting
  <2>4. QED
    BY <2>2, <2>3 DEF Negotiated, StdioInvariant, Negotiation, Offers
<1>2. QED
  BY <1>1 DEF StdioInvariant, StdioTyped, Matched, RequestsMatched

-----------------------------------------------------------------------------
(* A server over HTTP.                                                     *)

Ids == First..MaxSession
Responses == [status : {"none", "ok", "stream", "404", "400"}, header : {None, Empty} \cup Ids]

HttpTyped ==
    /\ step \in [Callers -> {"idle", "posting", "flying", "answered", "locking", "done"}]
    /\ post \in [Callers -> {"call", "answer", "initialize", "initialized"}]
    /\ attempt \in [Callers -> 0..2] /\ gen \in [Callers -> Nat]
    /\ sent \in [Callers -> {None} \cup Ids] /\ response \in [Callers -> Responses]
    /\ outcome \in [Callers -> {"none", "ok", "failed", "dropped"}]
    /\ session \in {None} \cup Ids /\ lock \in Callers \cup {"free"} /\ generation \in Nat
    /\ live \in {None} \cup Ids /\ issued \in Ids
    /\ runs \in [Callers -> Nat] /\ expiries \in Nat /\ rotations \in Nat /\ faults \in Nat

Handshaking(c) == Active(c) /\ post[c] \in {"initialize", "initialized"}

(* Where a request stands: what it may be in the middle of, the lock it has, *)
(* the generation it knows, and the response in its hands.                   *)
Placed(c) ==
    /\ step[c] = "idle" => post[c] = "call" /\ attempt[c] = 0
    /\ Active(c) => attempt[c] \in {1, 2}
    /\ step[c] = "locking" => post[c] = "call" /\ attempt[c] = 1
    /\ Handshaking(c) => attempt[c] = 1 /\ gen[c] = generation
    /\ Handshaking(c) <=> lock = c
    /\ gen[c] =< generation /\ (attempt[c] = 2 => gen[c] # generation)
    /\ step[c] \in {"posting", "flying"} /\ post[c] = "answer" => response[c].status # "404"
    /\ step[c] = "answered" => response[c].status # "none"
    /\ step[c] = "answered" /\ response[c].status \in {"stream", "400"} => response[c].header = None
    /\ step[c] = "answered" /\ post[c] = "initialize" /\ response[c].status = "ok" => response[c].header \in Ids

EachPlaced == \A c \in Callers : Placed(c)

(* A step of request c: nothing of another request moves with it. *)
Alone(c) ==
    /\ \A d \in Callers \ {c} :
         /\ step'[d] = step[d] /\ post'[d] = post[d] /\ attempt'[d] = attempt[d] /\ gen'[d] = gen[d]
         /\ sent'[d] = sent[d] /\ response'[d] = response[d] /\ outcome'[d] = outcome[d] /\ runs'[d] = runs[d]
         /\ d \in cut' <=> d \in cut
    /\ lock' = lock \/ (lock = c /\ lock' = "free") \/ (lock = "free" /\ lock' = c)
    /\ generation' = generation \/ (generation' = generation + 1 /\ Handshaking(c))

StepOf(c) ==
    \/ Begin(c) \/ Post(c) \/ Take(c) \/ Reconnect(c)
    \/ Serve(c) \/ Refuse(c) \/ Initialize(c)
    \/ PostFails(c) \/ Abandon(c)

LEMMA SessionsAreNumbers ==
    /\ MaxSession \in Nat /\ First \in Ids /\ Ids \subseteq Nat \ {0, 1}
    /\ None \notin Ids /\ Empty \notin Ids /\ None # Empty /\ "free" \notin Callers
    /\ NoResponse \in Responses /\ NoResponse.status = "none" /\ NoResponse.header = None
BY HttpAssumption DEF Ids, First, None, Empty, Responses, NoResponse, Response

LEMMA HttpTypedInit == HttpInit => HttpTyped /\ EachPlaced
<1> SUFFICES ASSUME HttpInit PROVE HttpTyped /\ EachPlaced
  OBVIOUS
<1>1. HttpTyped
  BY SessionsAreNumbers DEF HttpInit, HttpTyped
<1>2. EachPlaced
  BY SessionsAreNumbers DEF HttpInit, EachPlaced, Placed, Handshaking, Active
<1>3. QED
  BY <1>1, <1>2

LEMMA HeldIsTyped ==
    ASSUME NEW r \in Responses, HttpTyped
    PROVE  Held(r) \in {None} \cup Ids /\ Kept(r) \in {None} \cup Ids
BY SessionsAreNumbers DEF Held, Kept, Responses, HttpTyped

LEMMA HttpTypedStep ==
    ASSUME HttpTyped, HttpNext
    PROVE  HttpTyped'
<1> USE DEF HttpTyped, request, shared, server, history
<1>1. ASSUME NEW c \in Callers, Begin(c) \/ Post(c)
      PROVE  HttpTyped'
  BY <1>1, SessionsAreNumbers DEF Begin, Post
<1>2. ASSUME NEW c \in Callers, Take(c)
      PROVE  HttpTyped'
  <2>1. response[c] \in Responses
    OBVIOUS
  <2>2. session' \in {None} \cup Ids
    BY <1>2, <2>1, HeldIsTyped DEF Take, TakeCall, TakeAnswer, TakeInitialize, TakeInitialized
  <2>3. CASE TakeCall(c)
    BY <1>2, <2>2, <2>3 DEF Take, TakeCall, End, Send
  <2>4. CASE TakeAnswer(c)
    BY <1>2, <2>2, <2>4 DEF Take, TakeAnswer, End
  <2>5. CASE TakeInitialize(c)
    BY <1>2, <2>2, <2>5 DEF Take, TakeInitialize, End, Send, Fails, Unlock
  <2>6. CASE TakeInitialized(c)
    BY <1>2, <2>2, <2>6 DEF Take, TakeInitialized, Send, Unlock
  <2>7. QED
    BY <1>2, <2>3, <2>4, <2>5, <2>6 DEF Take
<1>3. ASSUME NEW c \in Callers, Reconnect(c)
      PROVE  HttpTyped'
  BY <1>3 DEF Reconnect, Send
<1>4. ASSUME NEW c \in Callers, PostFails(c) \/ Abandon(c)
      PROVE  HttpTyped'
  BY <1>4 DEF PostFails, Abandon, Fault, End, Fails, Unlock
<1>5. ASSUME NEW c \in Callers, NEW r \in Responses, Respond(c, r),
             live' \in {None} \cup Ids, issued' \in Ids,
             runs' \in [Callers -> Nat], expiries' \in Nat, rotations' \in Nat, faults' \in Nat
      PROVE  HttpTyped'
  BY <1>5 DEF Respond
<1>6. issued < MaxSession => issued + 1 \in Ids
  BY SessionsAreNumbers DEF Ids, First
<1>7. \A s \in {"ok", "stream", "404", "400"}, h \in {None, Empty} \cup Ids : Response(s, h) \in Responses
  BY DEF Response, Responses
<1>8. ASSUME NEW c \in Callers, Serve(c)
      PROVE  HttpTyped'
  <2>1. runs' \in [Callers -> Nat]
    BY <1>8 DEF Serve, Executes
  <2>2. CASE \E s \in {"ok", "stream"} : Respond(c, Response(s, None)) /\ UNCHANGED <<server, expiries, rotations, faults>>
    BY <1>5, <1>7, <2>1, <2>2
  <2>3. CASE /\ rotations' = rotations + 1 /\ issued' = issued + 1 /\ live' = issued + 1 /\ issued < MaxSession
             /\ Respond(c, Response("ok", issued + 1)) /\ UNCHANGED <<expiries, faults>>
    BY <1>5, <1>6, <1>7, <2>1, <2>3
  <2>4. CASE /\ expiries' = expiries + 1 /\ live' = None
             /\ Respond(c, Response("ok", Empty)) /\ UNCHANGED <<issued, rotations, faults>>
    BY <1>5, <1>7, <2>1, <2>4
  <2>5. QED
    BY <1>8, <2>2, <2>3, <2>4 DEF Serve
<1>9. ASSUME NEW c \in Callers, Refuse(c)
      PROVE  HttpTyped'
  <2>1. Response("404", sent[c]) \in Responses
    BY <1>7
  <2>2. faults' \in Nat /\ UNCHANGED <<server, expiries, rotations, runs>>
    BY <1>9 DEF Refuse, Fault
  <2>3. Respond(c, Response("404", sent[c])) \/ Respond(c, Response("404", None)) \/ Respond(c, Response("400", None))
    BY <1>9 DEF Refuse
  <2>4. QED
    BY <1>5, <1>7, <2>1, <2>2, <2>3
<1>10. ASSUME NEW c \in Callers, Initialize(c)
       PROVE  HttpTyped'
  <2>1. /\ issued' = issued + 1 /\ live' = issued + 1 /\ issued < MaxSession
        /\ Respond(c, Response("ok", issued + 1)) /\ UNCHANGED <<expiries, rotations, faults, runs>>
    BY <1>10 DEF Initialize
  <2>2. QED
    BY <1>5, <1>6, <1>7, <2>1
<1>11. CASE Expire
  BY <1>11 DEF Expire
<1>12. QED
  BY <1>1, <1>2, <1>3, <1>4, <1>8, <1>9, <1>10, <1>11 DEF HttpNext

LEMMA StepsAreAlone ==
    ASSUME HttpTyped, EachPlaced, NEW c \in Callers, StepOf(c)
    PROVE  Alone(c)
<1> USE DEF HttpTyped, request, shared, server, history, Alone
<1>1. CASE Begin(c) \/ Post(c)
  BY <1>1 DEF Begin, Post
<1>2. CASE Take(c)
  <2>1. CASE TakeCall(c) \/ TakeAnswer(c)
    BY <1>2, <2>1 DEF Take, TakeCall, TakeAnswer, End, Send
  <2>2. CASE TakeInitialize(c)
    BY <1>2, <2>2 DEF Take, TakeInitialize, End, Send, Fails, Unlock
  <2>3. CASE TakeInitialized(c)
    <3>1. Handshaking(c)
      BY <1>2, <2>3 DEF Handshaking, Active, Take, TakeInitialized
    <3>2. QED
      BY <1>2, <2>3, <3>1 DEF Take, TakeInitialized, Send, Unlock
  <2>4. QED
    BY <1>2, <2>1, <2>2, <2>3 DEF Take
<1>3. CASE Reconnect(c)
  BY <1>3 DEF Reconnect, Send
<1>4. CASE PostFails(c) \/ Abandon(c)
  BY <1>4 DEF PostFails, Abandon, End, Fails, Unlock
<1>5. CASE Serve(c)
  BY <1>5 DEF Serve, Respond, Executes
<1>6. CASE Refuse(c)
  BY <1>6 DEF Refuse, Respond
<1>7. CASE Initialize(c)
  BY <1>7 DEF Initialize, Respond
<1>8. QED
  BY <1>1, <1>2, <1>3, <1>4, <1>5, <1>6, <1>7 DEF StepOf

(* The others stand where they stood, and so do their locks and generations. *)
LEMMA OthersStayPlaced ==
    ASSUME HttpTyped, EachPlaced, NEW c \in Callers, Alone(c), NEW d \in Callers \ {c}
    PROVE  Placed(d)'
<1>1. Placed(d) /\ Placed(c) /\ d # "free" /\ gen[d] \in Nat /\ generation \in Nat
  BY SessionsAreNumbers DEF EachPlaced, HttpTyped
<1>2. /\ step'[d] = step[d] /\ post'[d] = post[d] /\ attempt'[d] = attempt[d] /\ gen'[d] = gen[d]
      /\ response'[d] = response[d]
      /\ lock' = lock \/ (lock = c /\ lock' = "free") \/ (lock = "free" /\ lock' = c)
      /\ generation' = generation \/ (generation' = generation + 1 /\ Handshaking(c))
  BY DEF Alone
<1>3. Handshaking(d)' <=> Handshaking(d)
  BY <1>2 DEF Handshaking, Active
<1>4. lock' = d <=> lock = d
  BY <1>1, <1>2
<1>5. Handshaking(d) => generation' = generation
  BY <1>1, <1>2 DEF Placed
<1>6. generation =< generation' /\ generation' \in Nat
  BY <1>1, <1>2
<1> DEFINE h == Handshaking(d)
           hh == Handshaking(d)'
<1>7. (h => attempt[d] = 1 /\ gen[d] = generation) /\ (h <=> lock = d) /\ (hh <=> h)
      /\ (h => generation' = generation)
  BY <1>1, <1>3, <1>5 DEF Placed
<1> HIDE DEF h, hh
<1>8. (hh => attempt'[d] = 1 /\ gen'[d] = generation') /\ (hh <=> lock' = d)
  BY <1>2, <1>4, <1>7
<1>9. gen'[d] =< generation' /\ (attempt'[d] = 2 => gen'[d] # generation')
  BY <1>1, <1>2, <1>6 DEF Placed
<1>10. QED
  BY <1>1, <1>2, <1>8, <1>9 DEF Placed, Active, h, hh

LEMMA ActorStaysPlaced ==
    ASSUME HttpTyped, EachPlaced, NEW c \in Callers, StepOf(c)
    PROVE  Placed(c)'
<1> USE DEF HttpTyped, request, shared, server, history, Handshaking, Active
<1>0. Placed(c) /\ c # "free"
  BY SessionsAreNumbers DEF EachPlaced
<1>1. CASE Begin(c)
  BY <1>0, <1>1 DEF Begin, Placed
<1>2. CASE Post(c)
  BY <1>0, <1>2, SessionsAreNumbers DEF Post, Placed
<1>3. CASE Take(c) /\ TakeCall(c)
  <2>1. step[c] = "answered" /\ post[c] = "call" /\ lock' = lock /\ generation' = generation
    BY <1>3 DEF Take, TakeCall
  <2>2. CASE /\ Expired(response[c]) /\ attempt[c] = 1 /\ step' = [step EXCEPT ![c] = "locking"]
             /\ UNCHANGED <<post, attempt, gen, sent, response, outcome>>
    BY <1>0, <2>1, <2>2 DEF Placed
  <2>3. CASE \E how \in {"ok", "failed"} : End(c, how)
    BY <1>0, <2>1, <2>3 DEF Placed, End
  <2>4. CASE response[c].status = "stream" /\ Send(c, "answer") /\ UNCHANGED attempt
    BY <1>0, <2>1, <2>4 DEF Placed, Send
  <2>5. QED
    BY <1>3, <2>2, <2>3, <2>4 DEF TakeCall
<1>4. CASE Take(c) /\ TakeAnswer(c)
  BY <1>0, <1>4 DEF Take, TakeAnswer, End, Placed
<1>5. CASE Take(c) /\ TakeInitialize(c)
  <2>1. step[c] = "answered" /\ post[c] = "initialize" /\ generation' = generation /\ lock = c
    BY <1>0, <1>5 DEF Take, TakeInitialize, Placed
  <2>2. CASE Fails(c)
    BY <1>0, <2>1, <2>2 DEF Placed, Fails, End, Unlock
  <2>3. CASE Send(c, "initialized") /\ UNCHANGED <<attempt, lock>>
    BY <1>0, <2>1, <2>3 DEF Placed, Send
  <2>4. QED
    BY <1>5, <2>2, <2>3 DEF TakeInitialize
<1>6. CASE Take(c) /\ TakeInitialized(c)
  <2>1. step[c] = "answered" /\ post[c] = "initialized" /\ generation' = generation + 1 /\ lock' = "free"
        /\ Send(c, "call") /\ attempt' = [attempt EXCEPT ![c] = 2]
    BY <1>0, <1>6 DEF Take, TakeInitialized, Placed, Unlock
  <2>2. QED
    BY <1>0, <2>1 DEF Placed, Send
<1>7. CASE Reconnect(c)
  <2>1. CASE ~Reconnected(c) /\ lock' = c /\ Send(c, "initialize") /\ UNCHANGED attempt
    BY <1>0, <1>7, <2>1 DEF Reconnect, Reconnected, Send, Placed
  <2>2. CASE Reconnected(c) /\ UNCHANGED lock /\ Send(c, "call") /\ attempt' = [attempt EXCEPT ![c] = 2]
    BY <1>0, <1>7, <2>2 DEF Reconnect, Reconnected, Send, Placed
  <2>3. QED
    BY <1>7, <2>1, <2>2 DEF Reconnect
<1>8. CASE PostFails(c) \/ Abandon(c)
  <2>1. /\ Active(c) /\ generation' = generation
        /\ \E how \in {"ok", "failed", "dropped"} : End(c, how)
        /\ Unlock(c) \/ (UNCHANGED lock /\ post[c] = "answer")
    BY <1>8 DEF PostFails, Abandon, Fails
  <2>2. QED
    BY <1>0, <2>1 DEF End, Unlock, Placed
<1>9. ASSUME NEW r \in Responses, Respond(c, r), step[c] = "flying", r.status # "none",
             r.status \in {"stream", "400"} => r.header = None,
             post[c] = "initialize" /\ r.status = "ok" => r.header \in Ids
      PROVE  Placed(c)'
  BY <1>0, <1>9 DEF Respond, Placed
<1>10. \A s \in {"ok", "stream", "404", "400"}, h \in {None, Empty} \cup Ids :
         Response(s, h) \in Responses /\ Response(s, h).status = s /\ Response(s, h).header = h
  BY DEF Response, Responses
<1>11. issued < MaxSession => issued + 1 \in Ids
  BY SessionsAreNumbers DEF Ids, First
<1>12. CASE Serve(c)
  <2>1. step[c] = "flying" /\ post[c] # "initialize"
    BY <1>12 DEF Serve, Arrived
  <2>2. \/ \E s \in {"ok", "stream"} : Respond(c, Response(s, None))
        \/ issued < MaxSession /\ Respond(c, Response("ok", issued + 1))
        \/ Respond(c, Response("ok", Empty))
    BY <1>12 DEF Serve
  <2>3. QED
    BY <1>9, <1>10, <1>11, <2>1, <2>2
<1>13. CASE Refuse(c)
  <2>1. step[c] = "flying"
    BY <1>13 DEF Refuse, Arrived
  <2>2. Respond(c, Response("404", sent[c])) \/ Respond(c, Response("404", None)) \/ Respond(c, Response("400", None))
    BY <1>13 DEF Refuse
  <2>3. QED
    BY <1>9, <1>10, <2>1, <2>2
<1>14. CASE Initialize(c)
  <2>1. step[c] = "flying" /\ issued < MaxSession /\ Respond(c, Response("ok", issued + 1))
    BY <1>14 DEF Initialize, Arrived
  <2>2. QED
    BY <1>9, <1>10, <1>11, <2>1
<1>15. QED
  BY <1>1, <1>2, <1>3, <1>4, <1>5, <1>6, <1>7, <1>8, <1>12, <1>13, <1>14 DEF StepOf, Take

LEMMA PlacedStep ==
    ASSUME HttpTyped, EachPlaced, HttpNext
    PROVE  EachPlaced'
<1>1. ASSUME NEW c \in Callers, StepOf(c)
      PROVE  EachPlaced'
  BY <1>1, StepsAreAlone, OthersStayPlaced, ActorStaysPlaced DEF EachPlaced
<1>2. CASE Expire
  BY <1>2 DEF Expire, EachPlaced, Placed, Handshaking, Active, request, shared
<1>3. QED
  BY <1>1, <1>2 DEF HttpNext, StepOf

-----------------------------------------------------------------------------
(* How often a request is executed.                                        *)

Once(c) == IF c \in cut THEN 1 ELSE 0

(* How often a request may have been executed where it stands. *)
Executed(c) ==
    /\ runs[c] =< 1 + Once(c)
    /\ Active(c) /\ ~(step[c] = "answered" /\ post[c] = "call") /\ post[c] # "answer" => runs[c] =< Once(c)
    /\ step[c] \in {"idle", "posting", "flying"} /\ post[c] = "call" /\ attempt[c] < 2 => runs[c] = 0
    /\ step[c] = "answered" /\ post[c] = "call" /\ attempt[c] = 1 /\ Expired(response[c]) => runs[c] =< Once(c)

EachExecuted == \A c \in Callers : Executed(c)

LEMMA ExecutedStep ==
    ASSUME HttpTyped, EachPlaced, EachExecuted, HttpNext
    PROVE  EachExecuted'
<1> USE DEF HttpTyped, request, shared, server, history, Once, Active
<1>1. ASSUME NEW c \in Callers, Alone(c), Executed(c)'
      PROVE  EachExecuted'
  BY <1>1 DEF Alone, EachExecuted, Executed
<1>2. ASSUME NEW c \in Callers, StepOf(c), Executed(c)'
      PROVE  EachExecuted'
  BY <1>1, <1>2, StepsAreAlone
<1>3. ASSUME NEW c \in Callers
      PROVE  Executed(c) /\ Placed(c) /\ runs[c] \in Nat /\ Once(c) \in {0, 1} /\ attempt[c] \in 0..2
  BY <1>3 DEF EachExecuted, EachPlaced
<1>4. ASSUME NEW c \in Callers, Begin(c) \/ Post(c)
      PROVE  Executed(c)'
  BY <1>3, <1>4 DEF Begin, Post, Executed, Placed
<1>5. ASSUME NEW c \in Callers, Take(c)
      PROVE  Executed(c)'
  <2>1. step[c] = "answered" /\ UNCHANGED <<runs, cut>>
    BY <1>5 DEF Take
  <2>2. CASE \E how \in {"ok", "failed"} : End(c, how)
    BY <1>3, <2>1, <2>2 DEF End, Executed
  <2>3. CASE TakeCall(c) /\ ~\E how \in {"ok", "failed"} : End(c, how)
    BY <1>3, <2>1, <2>3 DEF TakeCall, Send, Executed
  <2>4. CASE TakeInitialize(c)
    BY <1>3, <2>1, <2>4 DEF TakeInitialize, Send, Executed, Fails, End
  <2>5. CASE TakeInitialized(c)
    BY <1>3, <2>1, <2>5 DEF TakeInitialized, Send, Executed
  <2>6. QED
    BY <1>5, <2>2, <2>3, <2>4, <2>5 DEF Take, TakeAnswer
<1>6. ASSUME NEW c \in Callers, Reconnect(c)
      PROVE  Executed(c)'
  BY <1>3, <1>6 DEF Reconnect, Send, Executed, Placed
<1>7. ASSUME NEW c \in Callers, PostFails(c) \/ Abandon(c)
      PROVE  Executed(c)'
  BY <1>3, <1>7 DEF PostFails, Abandon, Fails, End, Executed
<1>8. ASSUME NEW c \in Callers, NEW r, Respond(c, r), step[c] = "flying", UNCHANGED <<runs, cut>>
      PROVE  Executed(c)'
  BY <1>3, <1>8 DEF Respond, Executed
<1>9. ASSUME NEW c \in Callers, Refuse(c) \/ Initialize(c)
      PROVE  Executed(c)'
  BY <1>8, <1>9 DEF Refuse, Initialize, Arrived
<1>10. ASSUME NEW c \in Callers, Serve(c)
       PROVE  Executed(c)'
  <2>1. /\ step[c] = "flying" /\ step'[c] = "answered" /\ UNCHANGED <<post, attempt>>
        /\ runs'[c] = runs[c] + (IF post[c] = "call" THEN 1 ELSE 0)
    BY <1>10 DEF Serve, Arrived, Respond, Executes
  <2>2. \/ Expired(response'[c]) /\ cut' = IF post[c] = "call" THEN cut \union {c} ELSE cut
        \/ ~Expired(response'[c]) /\ cut' = cut
    <3>1. issued + 1 # Empty
      BY SessionsAreNumbers DEF Empty
    <3>2. QED
      BY <1>10, <3>1, SessionsAreNumbers DEF Serve, Respond, Expired, Response
  <2>3. QED
    BY <1>3, <2>1, <2>2 DEF Executed
<1>11. CASE Expire
  BY <1>11 DEF Expire, EachExecuted, Executed
<1>12. QED
  BY <1>2, <1>4, <1>5, <1>6, <1>7, <1>9, <1>10, <1>11 DEF HttpNext, StepOf

-----------------------------------------------------------------------------
(* What the handshakes are run for.                                        *)

Stale(id) == id \notin {None, live}
Heard(r) == r.header \notin {None, Empty}

(* A request that runs a handshake unless another one has. *)
Wants(c) ==
    /\ Active(c) /\ gen[c] = generation
    /\ \/ post[c] \in {"initialize", "initialized"}
       \/ post[c] = "call" /\ step[c] = "flying" /\ Stale(sent[c])
       \/ post[c] = "call" /\ step[c] = "answered" /\ Expired(response[c])
       \/ step[c] = "locking"

(* A response under way that will bring an id. *)
Bears(c) ==
    /\ step[c] = "answered" /\ Heard(response[c])
    /\ post[c] = "answer" \/ (post[c] = "call" /\ response[c].status # "404")

Relapsed(c) == post[c] = "answer" /\ response[c].status = "404" /\ response[c].header # None

(* A handshake that has its new session, and one whose session is over before *)
(* it has come back.                                                          *)
Settles(c) == Active(c) /\ post[c] = "initialized"
Outdated(c) ==
    /\ step[c] = "answered" /\ post[c] = "initialize" /\ response[c].status = "ok"
    /\ Stale(response[c].header)

Bearers == {c \in Callers : Bears(c)}
Wanted == \E c \in Callers : Wants(c)
Settling == \E c \in Callers : Settles(c)
Overtaken == \E c \in Callers : Outdated(c)

Count(b) == IF b THEN 1 ELSE 0

(* The handshakes still to come: one for whoever wants it or an old id the   *)
(* client holds, and one more for an id that is old when it is brought back. *)
Due(settling, wanted, stale, overtaken) ==
    IF settling THEN 1 + Count(stale) ELSE Count(wanted \/ stale) + Count(overtaken)

Owing == generation + Due(Settling, Wanted, Stale(session), Overtaken) + Cardinality(Bearers)
Earned == expiries + 2 * rotations + Cardinality(Relapses)

HandshakesPaid == Owing =< Earned

LEMMA SetsAreFinite ==
    /\ IsFiniteSet(Bearers) /\ Cardinality(Bearers) \in Nat
    /\ IsFiniteSet(Relapses) /\ Cardinality(Relapses) \in Nat
    /\ IsFiniteSet(Bearers') /\ Cardinality(Bearers') \in Nat
    /\ IsFiniteSet(Relapses') /\ Cardinality(Relapses') \in Nat
<1>1. IsFiniteSet(Callers)
  BY HttpAssumption
<1>2. /\ Bearers \in SUBSET Callers /\ Relapses \in SUBSET Callers
      /\ Bearers' \in SUBSET Callers /\ Relapses' \in SUBSET Callers
  BY DEF Bearers, Relapses
<1>3. \A S \in SUBSET Callers : IsFiniteSet(S) /\ Cardinality(S) \in Nat
  BY <1>1, FS_Subset, FS_CardinalityType
<1>4. QED
  BY <1>2, <1>3

(* One more, one less, none more. *)
LEMMA OneMore ==
    ASSUME NEW S, NEW T, NEW c, IsFiniteSet(S), IsFiniteSet(T)
    PROVE  /\ T \subseteq S => Cardinality(T) =< Cardinality(S)
           /\ T \subseteq S \cup {c} => Cardinality(T) =< Cardinality(S) + 1
           /\ c \in S /\ T \subseteq S \ {c} => Cardinality(T) =< Cardinality(S) - 1
           /\ c \notin T /\ T \cup {c} \subseteq S => Cardinality(T) + 1 =< Cardinality(S)
<1>0. Cardinality(S) \in Nat /\ Cardinality(T) \in Nat
  BY FS_CardinalityType
<1>1. ASSUME T \subseteq S \cup {c}
      PROVE  Cardinality(T) =< Cardinality(S) + 1
  <2>1. IsFiniteSet(S \cup {c}) /\ Cardinality(S \cup {c}) \in {Cardinality(S), Cardinality(S) + 1}
    BY FS_AddElement
  <2>2. Cardinality(T) =< Cardinality(S \cup {c})
    BY <1>1, <2>1, FS_Subset
  <2>3. QED
    BY <1>0, <2>1, <2>2
<1>2. ASSUME c \in S, T \subseteq S \ {c}
      PROVE  Cardinality(T) =< Cardinality(S) - 1
  <2>1. IsFiniteSet(S \ {c}) /\ Cardinality(S \ {c}) = Cardinality(S) - 1
    BY <1>2, FS_RemoveElement
  <2>2. Cardinality(T) =< Cardinality(S \ {c})
    BY <1>2, <2>1, FS_Subset
  <2>3. QED
    BY <2>1, <2>2
<1>3. ASSUME c \notin T, T \cup {c} \subseteq S
      PROVE  Cardinality(T) + 1 =< Cardinality(S)
  <2>1. IsFiniteSet(T \cup {c}) /\ Cardinality(T \cup {c}) = Cardinality(T) + 1
    BY <1>3, FS_AddElement
  <2>2. Cardinality(T \cup {c}) =< Cardinality(S)
    BY <1>3, <2>1, FS_Subset
  <2>3. QED
    BY <2>1, <2>2
<1>4. T \subseteq S => Cardinality(T) =< Cardinality(S)
  BY FS_Subset
<1>5. QED
  BY <1>1, <1>2, <1>3, <1>4

(* The sum before and after a step, as numbers. *)
DueNow == Due(Settling, Wanted, Stale(session), Overtaken)

LEMMA HandshakesAreCounted ==
    ASSUME HttpTyped, HttpTyped', HandshakesPaid,
           generation' + DueNow' + Cardinality(Bearers') + (expiries + 2 * rotations + Cardinality(Relapses))
             =< generation + DueNow + Cardinality(Bearers) + (expiries' + 2 * rotations' + Cardinality(Relapses'))
    PROVE  HandshakesPaid'
<1>1. /\ Cardinality(Bearers) \in Nat /\ Cardinality(Relapses) \in Nat
      /\ Cardinality(Bearers') \in Nat /\ Cardinality(Relapses') \in Nat
  BY SetsAreFinite
<1>2. /\ generation \in Nat /\ expiries \in Nat /\ rotations \in Nat
      /\ generation' \in Nat /\ expiries' \in Nat /\ rotations' \in Nat
  BY DEF HttpTyped
<1>3. DueNow \in Nat /\ DueNow' \in Nat
  BY DEF DueNow, Due, Count
<1>4. generation + DueNow + Cardinality(Bearers) =< expiries + 2 * rotations + Cardinality(Relapses)
  BY DEF HandshakesPaid, Owing, Earned, DueNow
<1>5. generation' + DueNow' + Cardinality(Bearers') =< expiries' + 2 * rotations' + Cardinality(Relapses')
  BY <1>1, <1>2, <1>3, <1>4
<1>6. QED
  BY <1>5 DEF HandshakesPaid, Owing, Earned, DueNow

LEMMA OthersWait ==
    ASSUME NEW c \in Callers, Alone(c)
    PROVE  /\ Settling' => Settling \/ Settles(c)'
           /\ ~Settles(c) /\ Settling => Settling'
           /\ live' = live => (Overtaken' => Overtaken \/ Outdated(c)')
           /\ live' = live /\ generation' = generation => (Wanted' => Wanted \/ Wants(c)')
           /\ Bearers' \subseteq Bearers \cup {c} /\ (~Bears(c)' => Bearers' \subseteq Bearers \ {c})
           /\ Relapses \subseteq Relapses' \cup {c} /\ (~Relapsed(c) => Relapses \subseteq Relapses')
           /\ Bears(c) => c \in Bearers
           /\ Relapsed(c)' => c \in Relapses'
<1>1. \A d \in Callers \ {c} :
         /\ step'[d] = step[d] /\ post'[d] = post[d] /\ gen'[d] = gen[d]
         /\ sent'[d] = sent[d] /\ response'[d] = response[d]
  BY DEF Alone
<1>2. \A d \in Callers \ {c} :
         /\ Settles(d)' <=> Settles(d)
         /\ Bears(d)' <=> Bears(d)
         /\ Relapsed(d)' <=> Relapsed(d)
         /\ live' = live => (Outdated(d)' <=> Outdated(d))
         /\ live' = live /\ generation' = generation => (Wants(d)' <=> Wants(d))
  BY <1>1 DEF Settles, Bears, Relapsed, Outdated, Wants, Stale, Active
<1>3. (Settling' => Settling \/ Settles(c)') /\ (~Settles(c) /\ Settling => Settling')
  BY <1>2 DEF Settling
<1>4. live' = live => (Overtaken' => Overtaken \/ Outdated(c)')
  BY <1>2 DEF Overtaken
<1>5. live' = live /\ generation' = generation => (Wanted' => Wanted \/ Wants(c)')
  BY <1>2 DEF Wanted
<1>6. /\ Bearers' \subseteq Bearers \cup {c} /\ (~Bears(c)' => Bearers' \subseteq Bearers \ {c})
      /\ Bears(c) => c \in Bearers
  BY <1>2 DEF Bearers
<1>7. /\ Relapses \subseteq Relapses' \cup {c} /\ (~Relapsed(c) => Relapses \subseteq Relapses')
      /\ Relapsed(c)' => c \in Relapses'
  BY <1>2 DEF Relapses, Relapsed
<1>8. QED
  BY <1>3, <1>4, <1>5, <1>6, <1>7

(* There is one handshake at a time, and who runs it wants it. *)
LEMMA OneHandshake ==
    ASSUME EachPlaced
    PROVE  /\ Overtaken => Wanted
           /\ Settling => ~Overtaken
           /\ \A c \in Callers : Handshaking(c) =>
                /\ Wants(c) /\ Wanted
                /\ \A d \in Callers : d # c => ~Settles(d) /\ ~Outdated(d)
<1>1. \A c \in Callers : Settles(c) \/ Outdated(c) => Handshaking(c)
  BY DEF Settles, Outdated, Handshaking, Active
<1>2. \A c \in Callers : Handshaking(c) => Wants(c) /\ lock = c
  BY DEF EachPlaced, Placed, Handshaking, Wants
<1>3. \A c \in Callers : ~(Settles(c) /\ Outdated(c))
  BY DEF Settles, Outdated
<1>4. QED
  BY <1>1, <1>2, <1>3 DEF Overtaken, Wanted, Settling

LEMMA Flags ==
    /\ Settling \in BOOLEAN /\ Wanted \in BOOLEAN /\ Stale(session) \in BOOLEAN /\ Overtaken \in BOOLEAN
    /\ Settling' \in BOOLEAN /\ Wanted' \in BOOLEAN /\ Stale(session)' \in BOOLEAN /\ Overtaken' \in BOOLEAN
BY DEF Settling, Wanted, Stale, Overtaken

(* How the sum moves: what becomes old, and how a handshake goes on. *)
LEMMA DueNowMoves ==
    /\ DueNow \in 0..2 /\ DueNow' \in 0..2
    /\ (Settling' <=> Settling) /\ (Wanted' => Wanted \/ Stale(session)) /\ (Stale(session)' => Stale(session))
       /\ (Overtaken' => Overtaken) => DueNow' =< DueNow
    /\ ~Settling /\ ~Settling' /\ Wanted /\ ~Overtaken' => DueNow' =< DueNow
    /\ (Settling' <=> Settling) /\ (Overtaken' => Wanted) => DueNow' =< DueNow + 1
    /\ Settling /\ ~Settling' /\ ~Overtaken' => DueNow' =< DueNow
    /\ ~Settling /\ Settling' /\ Wanted /\ (Stale(session)' => Overtaken) => DueNow' =< DueNow
    /\ Settling /\ ~Settling' /\ ~Overtaken' /\ ~Wanted' /\ (Stale(session)' => Stale(session))
         => DueNow' < DueNow
<1> DEFINE h == Settling
           w == Wanted
           s == Stale(session)
           o == Overtaken
           hh == Settling'
           ww == Wanted'
           ss == Stale(session)'
           oo == Overtaken'
<1>1. /\ h \in BOOLEAN /\ w \in BOOLEAN /\ s \in BOOLEAN /\ o \in BOOLEAN
      /\ hh \in BOOLEAN /\ ww \in BOOLEAN /\ ss \in BOOLEAN /\ oo \in BOOLEAN
  BY Flags
<1>2. DueNow = Due(h, w, s, o) /\ DueNow' = Due(hh, ww, ss, oo)
  BY DEF DueNow
<1> SUFFICES
      /\ DueNow \in 0..2 /\ DueNow' \in 0..2
      /\ (hh <=> h) /\ (ww => w \/ s) /\ (ss => s) /\ (oo => o) => DueNow' =< DueNow
      /\ ~h /\ ~hh /\ w /\ ~oo => DueNow' =< DueNow
      /\ (hh <=> h) /\ (oo => w) => DueNow' =< DueNow + 1
      /\ h /\ ~hh /\ ~oo => DueNow' =< DueNow
      /\ ~h /\ hh /\ w /\ (ss => o) => DueNow' =< DueNow
      /\ h /\ ~hh /\ ~oo /\ ~ww /\ (ss => s) => DueNow' < DueNow
  OBVIOUS
<1> HIDE DEF h, w, s, o, hh, ww, ss, oo
<1>3. (hh <=> h) => hh = h
  BY <1>1
<1> DEFINE x == Due(h, w, s, o)
           y == Due(hh, ww, ss, oo)
<1>4. /\ x \in 0..2 /\ y \in 0..2
      /\ hh = h /\ (ww => w \/ s) /\ (ss => s) /\ (oo => o) => y =< x
      /\ ~h /\ ~hh /\ w /\ ~oo => y =< x
      /\ hh = h /\ (oo => w) => y =< x + 1
      /\ h /\ ~hh /\ ~oo => y =< x
      /\ ~h /\ hh /\ w /\ (ss => o) => y =< x
      /\ h /\ ~hh /\ ~oo /\ ~ww /\ (ss => s) => y < x
  BY <1>1 DEF Due, Count
<1>5. DueNow = x /\ DueNow' = y
  BY <1>2
<1> HIDE DEF x, y
<1>6. QED
  BY <1>3, <1>4, <1>5

(* A step of a request that makes no id old. *)
LEMMA PaidByNobody ==
    ASSUME HttpTyped, HttpTyped', EachPlaced, HandshakesPaid, NEW c \in Callers, Alone(c),
           UNCHANGED <<generation, live, expiries, rotations>>,
           Wants(c)' => Wants(c) \/ Stale(session), Outdated(c)' => Outdated(c),
           Settles(c)' => Settles(c), Stale(session)' => Stale(session),
           Bears(c)' => Bears(c), Relapsed(c) => Relapsed(c)'
    PROVE  HandshakesPaid'
<1>1. /\ Settling' => Settling
      /\ Wanted' => Wanted \/ Stale(session)
      /\ Overtaken' => Overtaken
      /\ Bearers' \subseteq Bearers /\ Relapses \subseteq Relapses'
  BY OthersWait DEF Settling, Wanted, Overtaken
<1>2. Settling /\ ~Settling' => ~Overtaken'
  BY <1>1, OneHandshake
<1>3. DueNow' =< DueNow /\ DueNow \in Nat /\ DueNow' \in Nat
  BY <1>1, <1>2, DueNowMoves
<1>4. Cardinality(Bearers') =< Cardinality(Bearers) /\ Cardinality(Relapses) =< Cardinality(Relapses')
  BY <1>1, SetsAreFinite, OneMore
<1>5. QED
  BY <1>3, <1>4, SetsAreFinite, HandshakesAreCounted DEF HttpTyped

(* A step that makes an id old is paid for by a rotation or an expiry, or by *)
(* the response that brought the id back.                                    *)
LEMMA PaidForOne ==
    ASSUME HttpTyped, HttpTyped', EachPlaced, EachPlaced', HandshakesPaid, NEW c \in Callers, Alone(c),
           UNCHANGED generation, Settles(c)' <=> Settles(c), Outdated(c)' => Outdated(c),
           Relapsed(c) => Relapsed(c)',
           \/ Bears(c) /\ ~Bears(c)' /\ UNCHANGED <<live, expiries, rotations>>
           \/ ~Bears(c)' /\ expiries' = expiries + 1 /\ rotations' = rotations
           \/ expiries' = expiries /\ rotations' = rotations + 1
    PROVE  HandshakesPaid'
<1>1. Relapses \subseteq Relapses' /\ (Settling' <=> Settling)
      /\ Bearers' \subseteq Bearers \cup {c} /\ (~Bears(c)' => Bearers' \subseteq Bearers \ {c})
      /\ (Bears(c) => c \in Bearers)
  BY OthersWait DEF Settling
<1>2. Overtaken' => Wanted
  <2>1. ASSUME NEW d \in Callers, Outdated(d)'
        PROVE  Handshaking(d)
    <3>1. CASE d = c
      BY <2>1, <3>1 DEF Outdated, Handshaking, Active
    <3>2. CASE d # c
      BY <2>1, <3>2 DEF Outdated, Handshaking, Active, Alone
    <3>3. QED
      BY <3>1, <3>2
  <2>2. QED
    BY <2>1, OneHandshake DEF Overtaken
<1>3. DueNow' =< DueNow + 1 /\ DueNow \in Nat /\ DueNow' \in Nat
  BY <1>1, <1>2, DueNowMoves
<1>4. /\ Cardinality(Relapses) =< Cardinality(Relapses')
      /\ Cardinality(Bearers') =< Cardinality(Bearers) + 1
      /\ ~Bears(c)' => Cardinality(Bearers') =< Cardinality(Bearers)
      /\ Bears(c) /\ ~Bears(c)' => Cardinality(Bearers') =< Cardinality(Bearers) - 1
  <2>1. ~Bears(c)' => Bearers' \subseteq Bearers
    BY <1>1
  <2>2. QED
    BY <1>1, <2>1, SetsAreFinite, OneMore
<1>5. QED
  BY <1>3, <1>4, SetsAreFinite, HandshakesAreCounted DEF HttpTyped

LEMMA HandshakesPaidStep ==
    ASSUME HttpTyped, HttpTyped', EachPlaced, EachPlaced', HandshakesPaid, HttpNext
    PROVE  HandshakesPaid'
<1> USE DEF request, shared, server, history, Active
<1>0. ASSUME NEW c \in Callers
      PROVE  Placed(c) /\ Placed(c)' /\ response[c] \in Responses /\ (StepOf(c) => Alone(c))
  BY StepsAreAlone DEF EachPlaced, HttpTyped
<1>1. ASSUME NEW c \in Callers, Begin(c)
      PROVE  HandshakesPaid'
  <2>1. /\ UNCHANGED <<generation, live, expiries, rotations, session, post, response>>
        /\ step[c] = "idle" /\ step'[c] = "posting" /\ post[c] = "call"
    BY <1>0, <1>1 DEF Begin, HttpTyped, Placed
  <2>2. QED
    BY <1>0, <1>1, <2>1, PaidByNobody DEF Wants, Outdated, Settles, Stale, Bears, Relapsed, StepOf
<1>2. ASSUME NEW c \in Callers, Post(c)
      PROVE  HandshakesPaid'
  <2>1. /\ UNCHANGED <<generation, live, expiries, rotations, session, post, gen>>
        /\ step[c] = "posting" /\ step'[c] = "flying" /\ sent'[c] = session
    BY <1>2 DEF Post, HttpTyped
  <2>2. ~Relapsed(c)
    BY <1>0, <2>1 DEF Relapsed, Placed
  <2>3. QED
    BY <1>0, <1>2, <2>1, <2>2, PaidByNobody DEF Wants, Outdated, Settles, Stale, Bears, StepOf
<1>3. ASSUME NEW c \in Callers, Take(c), TakeCall(c)
      PROVE  HandshakesPaid'
  <2>1. /\ UNCHANGED <<generation, live, expiries, rotations, gen, response>> /\ session' = Held(response[c])
        /\ step[c] = "answered" /\ post[c] = "call"
        /\ \/ Expired(response[c]) /\ step'[c] = "locking" /\ post'[c] = "call"
           \/ step'[c] = "done" /\ post'[c] = "call"
           \/ step'[c] = "posting" /\ post'[c] = "answer" /\ response[c].status = "stream"
    BY <1>3 DEF Take, TakeCall, End, Send, HttpTyped
  <2>2. ~Settles(c) /\ ~Settles(c)' /\ ~Outdated(c)' /\ ~Bears(c)' /\ ~Relapsed(c)
    BY <2>1 DEF Settles, Outdated, Bears, Relapsed
  <2>3. CASE Bears(c)
    BY <1>0, <1>3, <2>1, <2>2, <2>3, PaidForOne DEF StepOf
  <2>4. CASE ~Bears(c)
    <3>1. Stale(session)' => Stale(session)
      BY <2>1, <2>4 DEF Bears, Heard, Held, Stale
    <3>2. Wants(c)' => Wants(c)
      BY <2>1 DEF Wants
    <3>3. QED
      BY <1>0, <1>3, <2>1, <2>2, <3>1, <3>2, PaidByNobody DEF StepOf
  <2>5. QED
    BY <2>3, <2>4
<1>4. ASSUME NEW c \in Callers, Take(c), TakeAnswer(c)
      PROVE  HandshakesPaid'
  <2>1. /\ UNCHANGED <<generation, live, expiries, rotations, response, post>> /\ session' = Kept(response[c])
        /\ step[c] = "answered" /\ post[c] = "answer" /\ step'[c] = "done"
    BY <1>4 DEF Take, TakeAnswer, End, HttpTyped
  <2>2. ~Settles(c) /\ ~Settles(c)' /\ ~Outdated(c)' /\ ~Bears(c)' /\ (Relapsed(c) => Relapsed(c)') /\ ~Wants(c)'
    BY <2>1 DEF Settles, Outdated, Bears, Relapsed, Wants
  <2>3. CASE Bears(c)
    BY <1>0, <1>4, <2>1, <2>2, <2>3, PaidForOne DEF StepOf
  <2>4. CASE ~Bears(c)
    <3>1. Stale(session)' => Stale(session)
      BY <2>1, <2>4 DEF Bears, Heard, Kept, Stale
    <3>2. QED
      BY <1>0, <1>4, <2>1, <2>2, <3>1, PaidByNobody DEF StepOf
  <2>5. QED
    BY <2>3, <2>4
<1>5. ASSUME NEW c \in Callers, Take(c), TakeInitialize(c)
      PROVE  HandshakesPaid'
  <2>1. /\ UNCHANGED <<generation, live, expiries, rotations, gen, response>> /\ session' = Held(response[c])
        /\ step[c] = "answered" /\ post[c] = "initialize"
    BY <1>5 DEF Take, TakeInitialize, End, Send, Fails
  <2>2. ~Bears(c) /\ ~Relapsed(c) /\ ~Settles(c)
    BY <2>1 DEF Settles, Bears, Relapsed
  <2>3. CASE (Expired(response[c]) \/ response[c].status # "ok") /\ Fails(c)
    <3>1. step'[c] = "done" /\ post' = post
      BY <2>3 DEF Fails, End, HttpTyped
    <3>2. Stale(session)' => Stale(session)
      BY <1>0, <2>1, <2>3 DEF Expired, Held, Stale, Placed, Responses
    <3>3. ~Settles(c)' /\ ~Outdated(c)' /\ ~Bears(c)' /\ ~Wants(c)'
      BY <3>1 DEF Settles, Outdated, Bears, Wants
    <3>4. QED
      BY <1>0, <1>5, <2>1, <2>2, <3>2, <3>3, PaidByNobody DEF StepOf
  <2>4. CASE /\ ~Expired(response[c]) /\ response[c].status = "ok"
             /\ Send(c, "initialized") /\ UNCHANGED <<attempt, lock>>
    <3>1. step'[c] = "posting" /\ post'[c] = "initialized"
      BY <2>4 DEF Send, HttpTyped
    <3>2. ~Settling /\ Wanted
      BY <2>1, <2>2, OneHandshake DEF Handshaking, Settling
    <3>3. Settling' /\ Settles(c)' /\ ~Bears(c)' /\ ~Relapsed(c)'
      BY <3>1 DEF Settles, Settling, Bears, Relapsed
    <3>4. Stale(session)' => Outdated(c)
      BY <1>0, <2>1, <2>4, SessionsAreNumbers DEF Stale, Held, Outdated, Placed
    <3>5. DueNow' =< DueNow /\ DueNow \in Nat /\ DueNow' \in Nat
      BY <3>2, <3>3, <3>4, DueNowMoves DEF Overtaken
    <3>6. Bearers' \subseteq Bearers /\ Relapses \subseteq Relapses'
      BY <1>0, <1>5, <2>2, <3>3, OthersWait DEF StepOf
    <3>7. Cardinality(Bearers') =< Cardinality(Bearers) /\ Cardinality(Relapses) =< Cardinality(Relapses')
      BY <3>6, SetsAreFinite, OneMore
    <3>8. QED
      BY <2>1, <3>5, <3>7, SetsAreFinite, HandshakesAreCounted DEF HttpTyped
  <2>5. QED
    BY <1>5, <2>3, <2>4 DEF TakeInitialize
<1>6. ASSUME NEW c \in Callers, Take(c), TakeInitialized(c)
      PROVE  HandshakesPaid'
  <2>1. /\ UNCHANGED <<live, expiries, rotations, gen, response, session>> /\ generation' = generation + 1
        /\ step[c] = "answered" /\ post[c] = "initialized" /\ step'[c] = "posting" /\ post'[c] = "call"
    BY <1>6 DEF Take, TakeInitialized, Send, HttpTyped
  <2>2. Alone(c) /\ Handshaking(c) /\ Settles(c) /\ Settling
    BY <1>0, <1>6, <2>1 DEF Handshaking, Settles, Settling, StepOf
  <2>3. ~Settles(c)' /\ ~Outdated(c)' /\ ~Bears(c)' /\ ~Relapsed(c)
    BY <2>1 DEF Settles, Outdated, Bears, Relapsed
  <2>4. \A d \in Callers : d # c => ~Settles(d) /\ ~Outdated(d)
    BY <2>2, OneHandshake
  <2>5. ~Settling' /\ ~Overtaken'
    BY <2>1, <2>2, <2>3, <2>4 DEF Settling, Overtaken, Settles, Outdated, Alone, Stale
  <2>6. ~Wanted'
    <3>1. \A d \in Callers : gen[d] \in Nat /\ gen[d] =< generation /\ generation \in Nat
      BY <1>0 DEF Placed, HttpTyped
    <3>2. \A d \in Callers : gen'[d] # generation'
      BY <2>1, <3>1
    <3>3. QED
      BY <3>2 DEF Wanted, Wants
  <2>7. Stale(session)' => Stale(session)
    BY <2>1 DEF Stale
  <2>8. Settling /\ ~Settling' /\ ~Overtaken' /\ ~Wanted' /\ (Stale(session)' => Stale(session))
    BY <2>2, <2>5, <2>6, <2>7
  <2>12. DueNow \in Nat /\ DueNow' \in Nat /\ DueNow' < DueNow
    <3>1. DueNow \in 0..2 /\ DueNow' \in 0..2
      BY DueNowMoves
    <3>2. DueNow' < DueNow
      BY <2>8, DueNowMoves
    <3>3. QED
      BY <3>1, <3>2
  <2>9. Bearers' \subseteq Bearers /\ Relapses \subseteq Relapses'
    BY <2>2, <2>3, OthersWait
  <2>10. Cardinality(Bearers') =< Cardinality(Bearers) /\ Cardinality(Relapses) =< Cardinality(Relapses')
    BY <2>9, SetsAreFinite, OneMore
  <2>11. generation \in Nat /\ expiries \in Nat /\ rotations \in Nat
         /\ Cardinality(Bearers) \in Nat /\ Cardinality(Bearers') \in Nat
         /\ Cardinality(Relapses) \in Nat /\ Cardinality(Relapses') \in Nat
    BY SetsAreFinite DEF HttpTyped
  <2>13. generation' + DueNow' + Cardinality(Bearers') + (expiries + 2 * rotations + Cardinality(Relapses))
          =< generation + DueNow + Cardinality(Bearers) + (expiries' + 2 * rotations' + Cardinality(Relapses'))
    <3>1. generation' = generation + 1 /\ expiries' = expiries /\ rotations' = rotations
      BY <2>1
    <3>2. ASSUME NEW x \in Nat, NEW y \in Nat, NEW b \in Nat, NEW bb \in Nat, NEW r \in Nat, NEW rr \in Nat,
                 NEW g \in Nat, NEW e \in Nat, NEW n \in Nat, y < x, bb =< b, r =< rr
          PROVE  (g + 1) + y + bb + (e + 2 * n + r) =< g + x + b + (e + 2 * n + rr)
      BY <3>2
    <3>3. QED
      BY <3>1, <3>2, <2>10, <2>11, <2>12
  <2>14. QED
    BY <2>13, HandshakesAreCounted
<1>7. ASSUME NEW c \in Callers, Reconnect(c)
      PROVE  HandshakesPaid'
  <2>1. /\ UNCHANGED <<generation, live, expiries, rotations, session, gen, response>>
        /\ step[c] = "locking" /\ step'[c] = "posting"
        /\ \/ gen[c] = generation /\ post'[c] = "initialize"
           \/ gen[c] # generation /\ post'[c] = "call"
    BY <1>7 DEF Reconnect, Send, Reconnected, HttpTyped
  <2>2. post[c] = "call"
    BY <1>0, <2>1 DEF Placed
  <2>3. QED
    BY <1>0, <1>7, <2>1, <2>2, PaidByNobody DEF Wants, Outdated, Settles, Stale, Bears, Relapsed, StepOf
<1>8. ASSUME NEW c \in Callers, PostFails(c) \/ Abandon(c)
      PROVE  HandshakesPaid'
  <2>1. /\ UNCHANGED <<generation, live, expiries, rotations, session, post, response>>
        /\ step'[c] = "done"
    BY <1>8 DEF PostFails, Abandon, Fails, End, HttpTyped
  <2>2. QED
    BY <1>0, <1>8, <2>1, PaidByNobody DEF Wants, Outdated, Settles, Stale, Bears, Relapsed, StepOf
<1>9. ASSUME NEW c \in Callers, NEW r, Respond(c, r), step[c] = "flying"
      PROVE  /\ UNCHANGED <<generation, session, post, gen>> /\ step'[c] = "answered" /\ response'[c] = r
             /\ (Settles(c)' <=> Settles(c)) /\ ~Bears(c) /\ ~Outdated(c)
  BY <1>9 DEF Respond, Settles, Bears, Outdated, HttpTyped
<1>10. ASSUME NEW c \in Callers, Serve(c)
       PROVE  HandshakesPaid'
  <2>1. /\ step[c] = "flying" /\ post[c] # "initialize" /\ Alone(c)
    BY <1>0, <1>10 DEF Serve, Arrived, StepOf
  <2>2. ~Relapsed(c)
    BY <1>0, <2>1 DEF Relapsed, Placed
  <2>3. CASE /\ \E s \in {"ok", "stream"} : Respond(c, Response(s, None))
             /\ UNCHANGED <<server, expiries, rotations>>
    <3>1. PICK s \in {"ok", "stream"} : Respond(c, Response(s, None))
      BY <2>3
    <3>2. ~Bears(c)' /\ ~Outdated(c)' /\ (Wants(c)' => Wants(c)) /\ (Settles(c)' <=> Settles(c))
          /\ UNCHANGED <<generation, session>>
      BY <1>9, <2>1, <3>1, SessionsAreNumbers DEF Bears, Heard, Response, Outdated, Wants, Expired
    <3>3. Stale(session)' => Stale(session)
      BY <2>3, <3>2 DEF Stale
    <3>4. QED
      BY <2>1, <2>2, <2>3, <3>2, <3>3, PaidByNobody
  <2>4. CASE /\ rotations' = rotations + 1 /\ expiries' = expiries /\ Respond(c, Response("ok", issued + 1))
    <3>1. UNCHANGED <<generation, post>> /\ (Settles(c)' <=> Settles(c))
      BY <1>9, <2>1, <2>4
    <3>2. ~Outdated(c)'
      BY <2>1, <3>1 DEF Outdated
    <3>3. QED
      BY <2>1, <2>2, <2>4, <3>1, <3>2, PaidForOne
  <2>5. CASE /\ expiries' = expiries + 1 /\ rotations' = rotations /\ Respond(c, Response("ok", Empty))
    <3>1. /\ UNCHANGED <<generation, post>> /\ (Settles(c)' <=> Settles(c))
          /\ response'[c] = Response("ok", Empty)
      BY <1>9, <2>1, <2>5
    <3>2. ~Bears(c)' /\ ~Outdated(c)'
      BY <2>1, <3>1 DEF Bears, Heard, Response, Outdated
    <3>3. QED
      BY <2>1, <2>2, <2>5, <3>1, <3>2, PaidForOne
  <2>6. QED
    BY <1>10, <2>3, <2>4, <2>5 DEF Serve
<1>11. ASSUME NEW c \in Callers, Refuse(c)
       PROVE  HandshakesPaid'
  <2>1. /\ step[c] = "flying" /\ Alone(c) /\ UNCHANGED <<live, expiries, rotations>>
    BY <1>0, <1>11 DEF Refuse, Arrived, StepOf
  <2>2. ~Relapsed(c)
    BY <1>0, <2>1 DEF Relapsed, Placed
  <2>3. CASE sent[c] \notin {None, live} /\ Respond(c, Response("404", sent[c]))
    <3>1. /\ UNCHANGED <<generation, session, post, gen>> /\ step'[c] = "answered"
          /\ response'[c].status = "404" /\ response'[c].header = sent[c]
          /\ (Settles(c)' <=> Settles(c))
      <4> DEFINE r == Response("404", sent[c])
      <4>1. Respond(c, r) /\ r.status = "404" /\ r.header = sent[c]
        BY <2>3 DEF Response
      <4> HIDE DEF r
      <4>2. /\ UNCHANGED <<generation, session, post, gen>> /\ step'[c] = "answered" /\ response'[c] = r
            /\ (Settles(c)' <=> Settles(c))
        BY <1>9, <2>1, <4>1
      <4>3. QED
        BY <4>1, <4>2
    <3>2. ~Outdated(c)' /\ (Wants(c)' => Wants(c)) /\ (Stale(session)' => Stale(session))
      BY <2>1, <2>3, <3>1 DEF Outdated, Wants, Stale
    <3>3. CASE post[c] # "answer"
      <4>1. ~Bears(c)'
        BY <3>1, <3>3 DEF Bears
      <4>2. QED
        BY <2>1, <2>2, <3>1, <3>2, <4>1, PaidByNobody
    <3>4. CASE post[c] = "answer"
      <4>1. Relapsed(c)' /\ c \in Relapses' /\ c \notin Relapses
        BY <2>1, <2>2, <2>3, <3>1, <3>4, OthersWait DEF Relapsed, Relapses
      <4>2. /\ Settling' <=> Settling
            /\ Overtaken' => Overtaken
            /\ Wanted' => Wanted
            /\ Bearers' \subseteq Bearers \cup {c} /\ Relapses \subseteq Relapses'
        BY <2>1, <2>2, <3>1, <3>2, OthersWait DEF Settling, Overtaken, Wanted
      <4>3. DueNow' =< DueNow /\ DueNow \in Nat /\ DueNow' \in Nat
        BY <3>2, <4>2, DueNowMoves
      <4>4. /\ Cardinality(Bearers') =< Cardinality(Bearers) + 1
            /\ Cardinality(Relapses) + 1 =< Cardinality(Relapses')
        <5>1. Relapses \cup {c} \subseteq Relapses'
          BY <4>1, <4>2
        <5>2. Cardinality(Bearers') =< Cardinality(Bearers) + 1
          BY <4>2, SetsAreFinite, OneMore
        <5>3. Cardinality(Relapses) + 1 =< Cardinality(Relapses')
          BY <4>1, <5>1, SetsAreFinite, OneMore
        <5>4. QED
          BY <5>2, <5>3
      <4>5. QED
        BY <2>1, <3>1, <4>3, <4>4, SetsAreFinite, HandshakesAreCounted DEF HttpTyped
    <3>5. QED
      BY <3>3, <3>4
  <2>4. CASE \E s \in {"404", "400"} : Respond(c, Response(s, None))
    <3>1. PICK s \in {"404", "400"} : Respond(c, Response(s, None))
      BY <2>4
    <3>2. ~Bears(c)' /\ ~Outdated(c)' /\ (Wants(c)' => Wants(c)) /\ (Settles(c)' <=> Settles(c))
          /\ UNCHANGED <<generation, session>>
      BY <1>9, <2>1, <3>1, SessionsAreNumbers DEF Bears, Heard, Response, Outdated, Wants, Expired
    <3>3. Stale(session)' => Stale(session)
      BY <2>1, <3>2 DEF Stale
    <3>4. QED
      BY <2>1, <2>2, <3>2, <3>3, PaidByNobody
  <2>5. QED
    BY <1>11, <2>3, <2>4 DEF Refuse
<1>12. ASSUME NEW c \in Callers, Initialize(c)
       PROVE  HandshakesPaid'
  <2>1. /\ step[c] = "flying" /\ post[c] = "initialize" /\ Alone(c) /\ UNCHANGED <<expiries, rotations>>
        /\ live' = issued + 1 /\ Respond(c, Response("ok", issued + 1))
    BY <1>0, <1>12 DEF Initialize, Arrived, StepOf
  <2>2. /\ UNCHANGED <<generation, post>> /\ step'[c] = "answered" /\ response'[c].header = live'
        /\ (Settles(c)' <=> Settles(c))
    <3> DEFINE r == Response("ok", issued + 1)
    <3>1. Respond(c, r) /\ r.header = issued + 1
      BY <2>1 DEF Response
    <3> HIDE DEF r
    <3>2. /\ UNCHANGED <<generation, post>> /\ step'[c] = "answered" /\ response'[c] = r
          /\ (Settles(c)' <=> Settles(c))
      BY <1>9, <2>1, <3>1
    <3>3. QED
      BY <2>1, <3>1, <3>2
  <2>3. Handshaking(c) /\ ~Settles(c) /\ ~Outdated(c)' /\ ~Bears(c)' /\ ~Relapsed(c)
    BY <2>1, <2>2 DEF Handshaking, Settles, Outdated, Bears, Relapsed, Stale
  <2>4. Wanted /\ \A d \in Callers : d # c => ~Settles(d) /\ ~Outdated(d)
    BY <2>3, OneHandshake
  <2>5. \A d \in Callers : d # c => ~Handshaking(d)
    BY <1>0, <2>3 DEF Placed
  <2>6. ~Settling /\ ~Settling' /\ ~Overtaken'
    <3>1. \A d \in Callers : d # c => ~Settles(d)' /\ ~Outdated(d)'
      BY <2>1, <2>5 DEF Handshaking, Settles, Outdated, Alone
    <3>2. QED
      BY <2>2, <2>3, <2>4, <3>1 DEF Settling, Overtaken
  <2>7. DueNow' =< DueNow /\ DueNow \in Nat /\ DueNow' \in Nat
    BY <2>4, <2>6, DueNowMoves
  <2>8. Bearers' \subseteq Bearers /\ Relapses \subseteq Relapses'
    BY <2>1, <2>3, OthersWait
  <2>9. Cardinality(Bearers') =< Cardinality(Bearers) /\ Cardinality(Relapses) =< Cardinality(Relapses')
    BY <2>8, SetsAreFinite, OneMore
  <2>10. QED
    BY <2>1, <2>2, <2>7, <2>9, SetsAreFinite, HandshakesAreCounted DEF HttpTyped
<1>13. CASE Expire
  <2>1. /\ expiries' = expiries + 1 /\ UNCHANGED <<rotations, generation, session, post, step, response, gen>>
    BY <1>13 DEF Expire
  <2>2. Settling' <=> Settling
    BY <2>1 DEF Settling, Settles
  <2>3. Overtaken' => Wanted
    <3>1. \A d \in Callers : Outdated(d)' => Handshaking(d)
      BY <2>1 DEF Outdated, Handshaking
    <3>2. QED
      BY <3>1, OneHandshake DEF Overtaken
  <2>4. DueNow' =< DueNow + 1 /\ DueNow \in Nat /\ DueNow' \in Nat
    BY <2>2, <2>3, DueNowMoves
  <2>5. Bearers' = Bearers /\ Relapses' = Relapses
    BY <2>1 DEF Bearers, Bears, Heard, Relapses
  <2>6. QED
    BY <2>1, <2>4, <2>5, SetsAreFinite, HandshakesAreCounted DEF HttpTyped
<1>14. QED
  BY <1>1, <1>2, <1>3, <1>4, <1>5, <1>6, <1>7, <1>8, <1>10, <1>11, <1>12, <1>13 DEF HttpNext, Take

LEMMA HandshakesPaidInit == HttpInit => HandshakesPaid
<1> SUFFICES ASSUME HttpInit PROVE HandshakesPaid
  OBVIOUS
<1>1. \A c \in Callers : ~Active(c) /\ post[c] = "call"
  BY DEF HttpInit, Active
<1>2. ~Settling /\ ~Wanted /\ ~Overtaken /\ ~Stale(session)
  BY <1>1 DEF Settling, Settles, Wanted, Wants, Overtaken, Outdated, Active, Stale, HttpInit
<1>3. Bearers = {} /\ Relapses = {}
  BY <1>1 DEF Bearers, Bears, Relapses, Active
<1>4. Cardinality(Bearers) = 0 /\ Cardinality(Relapses) = 0
  BY <1>3, FS_EmptySet
<1>5. DueNow = 0
  BY <1>2 DEF DueNow, Due, Count
<1>6. generation = 0 /\ expiries = 0 /\ rotations = 0
  BY DEF HttpInit
<1>7. QED
  BY <1>4, <1>5, <1>6 DEF HandshakesPaid, Owing, Earned, DueNow

-----------------------------------------------------------------------------
(* Requests that come one at a time.                                       *)

Quiet == OneExpiry /\ ~overlapped

(* The session is over, the id is still good or will be found out, the id is *)
(* that of the session that came after.                                      *)
Over == live = None /\ expiries = 1
Fresh(id) == id \notin {None, Empty} /\ (id = live \/ Over)
Current(id) == id # None /\ id = live /\ expiries = 1

Comes(r) == r.status \in {"ok", "stream"} /\ r.header # Empty /\ Fresh(Kept(r))

(* Where a request that comes alone stands. *)
Lone(c) ==
    /\ attempt[c] = 1 => gen[c] = generation
    /\ step[c] = "locking" => session = None /\ Over
    /\ post[c] \in {"call", "answer"} /\ step[c] = "posting" => Fresh(session)
    /\ post[c] \in {"call", "answer"} /\ step[c] = "flying" => Fresh(sent[c]) /\ session = sent[c]
    /\ post[c] = "call" /\ step[c] \in {"posting", "flying"} /\ attempt[c] = 2 => Current(session)
    /\ post[c] = "call" /\ step[c] = "answered" =>
         Comes(response[c]) \/ (attempt[c] = 1 /\ Over /\ Expired(response[c]))
    /\ post[c] = "answer" /\ step[c] = "answered" => Fresh(Kept(response[c]))
    /\ post[c] = "initialize" /\ step[c] = "posting" => session = None /\ Over
    /\ post[c] = "initialize" /\ step[c] = "flying" => sent[c] = None /\ Over
    /\ post[c] = "initialize" /\ step[c] = "answered" => response[c].status = "ok" /\ Current(response[c].header)
    /\ post[c] = "initialized" => Current(session)
    /\ post[c] = "initialized" /\ step[c] = "flying" => sent[c] = session

NothingSeen ==
    Quiet =>
      /\ AllOk
      /\ \A c, d \in Callers : Active(c) /\ Active(d) => c = d
      /\ \A c \in Callers : Active(c) => Lone(c)
      /\ (\A c \in Callers : ~Active(c)) => Fresh(session)

LEMMA NothingSeenInit == HttpInit => NothingSeen
BY SessionsAreNumbers DEF HttpInit, NothingSeen, Active, AllOk, Fresh

LEMMA QuietBefore ==
    ASSUME HttpTyped, HttpTyped', HttpNext, Quiet'
    PROVE  Quiet /\ faults' = faults /\ (expiries' = expiries \/ (expiries = 0 /\ expiries' = 1))
<1> USE DEF HttpTyped, Quiet, OneExpiry, request, shared, server, history
<1>1. /\ faults' = 0 /\ expiries' =< 1 /\ ~unheard' /\ ~overlapped'
      /\ faults \in Nat /\ expiries \in Nat /\ expiries' \in Nat
  OBVIOUS
<1> SUFFICES /\ faults' = faults \/ faults' = faults + 1
             /\ expiries' = expiries \/ expiries' = expiries + 1
             /\ unheard => unheard'
             /\ overlapped => overlapped'
  BY <1>1
<1>2. ASSUME NEW c \in Callers, Begin(c) \/ Post(c) \/ Take(c) \/ Reconnect(c)
      PROVE  UNCHANGED <<faults, expiries, unheard>> /\ (overlapped => overlapped')
  <2>1. CASE Begin(c)
    <3>1. UNCHANGED <<faults, expiries, unheard>>
      BY <2>1 DEF Begin
    <3>2. overlapped => overlapped'
      BY <2>1, Zenon DEF Begin
    <3>3. QED
      BY <3>1, <3>2
  <2>2. CASE Post(c) \/ Take(c) \/ Reconnect(c)
    BY <2>2 DEF Post, Take, Reconnect
  <2>3. QED
    BY <1>2, <2>1, <2>2
<1>3. ASSUME NEW c \in Callers, PostFails(c) \/ Abandon(c)
      PROVE  faults' = faults + 1 /\ UNCHANGED <<expiries, unheard, overlapped>>
  BY <1>3 DEF PostFails, Abandon, Fault
<1>4. ASSUME NEW c \in Callers, Serve(c)
      PROVE  /\ faults' = faults /\ (expiries' = expiries \/ expiries' = expiries + 1)
             /\ (unheard => unheard') /\ overlapped' = overlapped
  <2>1. /\ faults' = faults /\ overlapped' = overlapped
        /\ expiries' = expiries \/ expiries' = expiries + 1
    BY <1>4 DEF Serve, Respond
  <2>2. \/ unheard' = unheard
        \/ unheard' = (unheard \/ post[c] = "initialized")
        \/ unheard' = (unheard \/ post[c] # "call")
    BY <1>4 DEF Serve
  <2>3. unheard => unheard'
    BY <2>2, Zenon
  <2>4. QED
    BY <2>1, <2>3
<1>5. ASSUME NEW c \in Callers, Refuse(c) \/ Initialize(c)
      PROVE  (faults' = faults \/ faults' = faults + 1) /\ UNCHANGED <<expiries, unheard, overlapped>>
  BY <1>5 DEF Refuse, Initialize, Fault, Respond
<1>6. CASE Expire
  BY <1>6 DEF Expire
<1>7. QED
  BY <1>2, <1>3, <1>4, <1>5, <1>6 DEF HttpNext

(* The step of the one request that is under way. *)
LEMMA LoneSteps ==
    ASSUME HttpTyped, NothingSeen, Quiet, NEW c \in Callers, Alone(c),
           \A d \in Callers : Active(d) => d = c,
           step'[c] # "idle", Active(c)' => Lone(c)',
           step'[c] = "done" => outcome'[c] = "ok" /\ Fresh(session)'
    PROVE  NothingSeen'
<1>1. \A d \in Callers \ {c} : step'[d] = step[d] /\ outcome'[d] = outcome[d] /\ ~Active(d) /\ ~Active(d)'
  BY DEF Alone, Active
<1>2. AllOk
  BY DEF NothingSeen
<1>3. AllOk'
  BY <1>1, <1>2 DEF AllOk
<1>4. \A d \in Callers : Active(d)' => d = c /\ Lone(d)'
  BY <1>1
<1>5. (\A d \in Callers : ~Active(d)') => Fresh(session)'
  BY DEF Active
<1>6. QED
  BY <1>3, <1>4, <1>5 DEF NothingSeen

LEMMA NothingSeenStep ==
    ASSUME HttpTyped, HttpTyped', EachPlaced, EachPlaced', NothingSeen, HttpNext
    PROVE  NothingSeen'
<1> SUFFICES ASSUME Quiet' PROVE NothingSeen'
  BY DEF NothingSeen
<1> USE DEF HttpTyped, request, shared, server, history
<1>0. Quiet /\ faults' = faults /\ (expiries' = expiries \/ (expiries = 0 /\ expiries' = 1)) /\ ~unheard' /\ ~overlapped'
  BY QuietBefore DEF Quiet, OneExpiry
<1>1. ASSUME NEW c \in Callers, StepOf(c), Active(c), Active(c)' => Lone(c)',
             step'[c] = "done" => outcome'[c] = "ok" /\ Fresh(session)', step'[c] # "idle"
      PROVE  NothingSeen'
  <2>1. \A d \in Callers : Active(d) => d = c
    BY <1>0, <1>1 DEF NothingSeen
  <2>2. QED
    BY <1>0, <1>1, <2>1, StepsAreAlone, LoneSteps
<1>2. ASSUME NEW c \in Callers, Active(c)
      PROVE  Lone(c) /\ Placed(c) /\ response[c] \in Responses
  BY <1>0, <1>2 DEF NothingSeen, EachPlaced
<1>3. ASSUME NEW c \in Callers, Begin(c)
      PROVE  NothingSeen'
  <2>1. /\ step[c] = "idle" /\ step'[c] = "posting" /\ post'[c] = post[c] /\ attempt'[c] = 1 /\ gen'[c] = generation
        /\ UNCHANGED <<session, generation, live, expiries>>
        /\ overlapped' = (overlapped \/ \E d \in Callers : Active(d))
    BY <1>3 DEF Begin
  <2>2. \A d \in Callers : ~Active(d)
    BY <1>0, <2>1, Zenon
  <2>3. Fresh(session) /\ post[c] = "call"
    BY <1>0, <2>1, <2>2 DEF NothingSeen, EachPlaced, Placed
  <2>4. Lone(c)'
    BY <2>1, <2>3 DEF Lone, Fresh, Over
  <2>5. Alone(c)
    BY <1>3, StepsAreAlone DEF StepOf
  <2>6. QED
    BY <1>0, <2>1, <2>2, <2>4, <2>5, LoneSteps
<1>4. ASSUME NEW c \in Callers, Post(c)
      PROVE  NothingSeen'
  <2>1. /\ step[c] = "posting" /\ step'[c] = "flying" /\ sent'[c] = session
        /\ UNCHANGED <<post, attempt, gen, session, generation, live, expiries>>
    BY <1>4 DEF Post
  <2>2. Lone(c) /\ Active(c)
    BY <1>2, <2>1 DEF Active
  <2>3. Lone(c)'
    BY <2>1, <2>2 DEF Lone, Fresh, Over, Current
  <2>4. QED
    BY <1>1, <1>4, <2>1, <2>2, <2>3 DEF StepOf
<1>5. ASSUME NEW c \in Callers, Take(c), TakeCall(c)
      PROVE  NothingSeen'
  <2>1. /\ step[c] = "answered" /\ post[c] = "call" /\ session' = Held(response[c])
        /\ UNCHANGED <<generation, live, expiries>>
    BY <1>5 DEF Take, TakeCall
  <2>2. Lone(c) /\ Active(c) /\ response[c] \in Responses
    BY <1>2, <2>1 DEF Active
  <2>3. CASE Expired(response[c])
    <3>1. attempt[c] = 1 /\ Over
      BY <2>1, <2>2, <2>3, SessionsAreNumbers DEF Lone, Comes, Expired
    <3>2. step'[c] = "locking" /\ UNCHANGED <<post, attempt, gen>>
      BY <1>5, <2>3, <3>1 DEF TakeCall
    <3>3. session' = None
      BY <2>1, <2>3 DEF Held, Expired
    <3>4. Lone(c)'
      BY <2>1, <2>2, <3>1, <3>2, <3>3 DEF Lone, Over
    <3>5. QED
      BY <1>1, <1>5, <2>2, <3>2, <3>4 DEF StepOf
  <2>4. CASE ~Expired(response[c])
    <3>1. Comes(response[c])
      BY <2>1, <2>2, <2>4 DEF Lone
    <3>2. Fresh(session)'
      BY <2>1, <3>1 DEF Comes, Held, Kept, Fresh, Over
    <3>3. CASE response[c].status = "ok"
      <4>1. End(c, "ok")
        BY <1>5, <2>4, <3>3 DEF TakeCall
      <4>2. step'[c] = "done" /\ outcome'[c] = "ok"
        BY <4>1 DEF End
      <4>3. QED
        BY <1>1, <1>5, <2>2, <3>2, <4>2 DEF StepOf, Active
    <3>4. CASE response[c].status = "stream"
      <4>1. Send(c, "answer") /\ UNCHANGED attempt
        BY <1>5, <2>4, <3>4 DEF TakeCall
      <4>2. step'[c] = "posting" /\ post'[c] = "answer" /\ attempt'[c] = attempt[c] /\ gen'[c] = gen[c]
        BY <4>1 DEF Send
      <4>3. Lone(c)'
        BY <2>1, <2>2, <3>2, <4>2 DEF Lone
      <4>4. QED
        BY <1>1, <1>5, <2>2, <4>2, <4>3 DEF StepOf
    <3>5. QED
      BY <3>1, <3>3, <3>4 DEF Comes
  <2>5. QED
    BY <2>3, <2>4
<1>6. ASSUME NEW c \in Callers, Take(c), TakeAnswer(c)
      PROVE  NothingSeen'
  <2>1. /\ step[c] = "answered" /\ post[c] = "answer" /\ session' = Kept(response[c])
        /\ step'[c] = "done" /\ outcome'[c] = "ok" /\ UNCHANGED <<live, expiries>>
    BY <1>6 DEF Take, TakeAnswer, End
  <2>2. Lone(c) /\ Active(c)
    BY <1>2, <2>1 DEF Active
  <2>3. Fresh(session)'
    BY <2>1, <2>2 DEF Lone, Fresh, Over
  <2>4. QED
    BY <1>1, <1>6, <2>1, <2>2, <2>3 DEF StepOf, Active
<1>7. ASSUME NEW c \in Callers, Take(c), TakeInitialize(c)
      PROVE  NothingSeen'
  <2>1. /\ step[c] = "answered" /\ post[c] = "initialize" /\ session' = Held(response[c])
        /\ UNCHANGED <<generation, live, expiries>>
    BY <1>7 DEF Take, TakeInitialize
  <2>2. Lone(c) /\ Placed(c) /\ Active(c) /\ response[c] \in Responses
    BY <1>2, <2>1 DEF Active
  <2>3. response[c].status = "ok" /\ Current(response[c].header) /\ response[c].header \in Ids
    BY <2>1, <2>2 DEF Lone, Placed
  <2>4. ~Expired(response[c]) /\ session' = response[c].header
    BY <2>1, <2>3, SessionsAreNumbers DEF Expired, Held
  <2>5. step'[c] = "posting" /\ post'[c] = "initialized" /\ UNCHANGED <<attempt, gen>>
    BY <1>7, <2>3, <2>4 DEF TakeInitialize, Send
  <2>6. Lone(c)'
    BY <2>1, <2>2, <2>3, <2>4, <2>5 DEF Lone, Current
  <2>7. QED
    BY <1>1, <1>7, <2>2, <2>5, <2>6 DEF StepOf
<1>8. ASSUME NEW c \in Callers, Take(c), TakeInitialized(c)
      PROVE  NothingSeen'
  <2>1. /\ step[c] = "answered" /\ post[c] = "initialized" /\ UNCHANGED <<session, live, expiries>>
        /\ step'[c] = "posting" /\ post'[c] = "call" /\ attempt'[c] = 2
    BY <1>8 DEF Take, TakeInitialized, Send
  <2>2. Lone(c) /\ Active(c)
    BY <1>2, <2>1 DEF Active
  <2>3. Current(session) /\ Current(session)' /\ session \in {None} \cup Ids
    BY <2>1, <2>2 DEF Lone, Current
  <2>4. Fresh(session)'
    BY <2>3, SessionsAreNumbers DEF Fresh, Current, None
  <2>5. Lone(c)'
    BY <2>1, <2>3, <2>4 DEF Lone
  <2>6. QED
    BY <1>1, <1>8, <2>1, <2>2, <2>5 DEF StepOf
<1>9. ASSUME NEW c \in Callers, Reconnect(c)
      PROVE  NothingSeen'
  <2>1. step[c] = "locking" /\ UNCHANGED <<session, generation, live, expiries>>
    BY <1>9 DEF Reconnect
  <2>2. Lone(c) /\ Placed(c) /\ Active(c)
    BY <1>2, <2>1 DEF Active
  <2>3. attempt[c] = 1 /\ gen[c] = generation /\ session = None /\ Over
    BY <2>1, <2>2 DEF Lone, Placed
  <2>4. step'[c] = "posting" /\ post'[c] = "initialize" /\ UNCHANGED <<attempt, gen>>
    BY <1>9, <2>3 DEF Reconnect, Reconnected, Send
  <2>5. Lone(c)'
    BY <2>1, <2>3, <2>4 DEF Lone, Over
  <2>6. QED
    BY <1>1, <1>9, <2>2, <2>4, <2>5 DEF StepOf
<1>10. ASSUME NEW c \in Callers, PostFails(c) \/ Abandon(c)
       PROVE  NothingSeen'
  BY <1>0, <1>10 DEF PostFails, Abandon, Fault
<1>11. ASSUME NEW c \in Callers, NEW r \in Responses, StepOf(c), step[c] = "flying", Respond(c, r),
              post[c] = "call" => Comes(r)' \/ (attempt[c] = 1 /\ Over' /\ Expired(r)),
              post[c] = "answer" => Fresh(Kept(r))',
              post[c] = "initialize" => r.status = "ok" /\ Current(r.header)',
              post[c] = "initialized" => Current(session)'
       PROVE  NothingSeen'
  <2>1. /\ step'[c] = "answered" /\ response'[c] = r
        /\ UNCHANGED <<post, attempt, gen, sent, session, generation>>
    BY <1>11 DEF Respond
  <2>2. Lone(c) /\ Active(c)
    BY <1>2, <1>11 DEF Active
  <2>3. Lone(c)'
    <3>1. attempt'[c] = 1 => gen'[c] = generation'
      BY <2>1, <2>2 DEF Lone
    <3>2. (post[c] = "call" => Comes(response[c]) \/ (attempt[c] = 1 /\ Over /\ Expired(response[c])))'
      BY <1>11, <2>1 DEF Comes, Fresh, Kept, Over, Expired
    <3>3. (post[c] = "answer" => Fresh(Kept(response[c])))'
      BY <1>11, <2>1 DEF Fresh, Kept, Over
    <3>4. (post[c] = "initialize" => response[c].status = "ok" /\ Current(response[c].header))'
      BY <1>11, <2>1 DEF Current
    <3>5. (post[c] = "initialized" => Current(session))'
      BY <1>11, <2>1
    <3>6. QED
      BY <2>1, <3>1, <3>2, <3>3, <3>4, <3>5 DEF Lone
  <2>4. QED
    BY <1>1, <1>11, <2>1, <2>2, <2>3
<1>12. ASSUME NEW c \in Callers, step[c] = "flying"
       PROVE  Lone(c) /\ Placed(c) /\ Active(c)
  BY <1>2, <1>12 DEF Active
<1>13. \A s \in {"ok", "stream", "404", "400"}, h \in {None, Empty} \cup Ids :
         Response(s, h) \in Responses /\ Response(s, h).status = s /\ Response(s, h).header = h
  BY DEF Response, Responses
<1>14. ASSUME NEW c \in Callers, Serve(c)
       PROVE  NothingSeen'
  <2>1. /\ step[c] = "flying" /\ post[c] # "initialize" /\ sent[c] # None /\ sent[c] = live
        /\ UNCHANGED <<post, attempt, session>>
    BY <1>14 DEF Serve, Arrived, Respond
  <2>2. /\ Lone(c) /\ StepOf(c) /\ sent[c] \in {None} \cup Ids /\ session = sent[c]
    BY <1>12, <1>14, <2>1 DEF StepOf, Lone
  <2>3. CASE /\ \E s \in IF post[c] = "call" THEN {"ok", "stream"} ELSE {"ok"} : Respond(c, Response(s, None))
             /\ UNCHANGED <<server, expiries, rotations, cut, unheard>>
    <3>1. PICK s \in {"ok", "stream"} : Respond(c, Response(s, None))
      BY <2>3
    <3> DEFINE r == Response(s, None)
    <3>2. r \in Responses /\ r.status = s /\ r.header = None /\ Respond(c, r)
      BY <1>13, <3>1
    <3> HIDE DEF r
    <3>3. Fresh(session)'
      BY <2>1, <2>2, <2>3, SessionsAreNumbers DEF Fresh, Empty
    <3>4. Comes(r)' /\ Fresh(Kept(r))'
      BY <3>2, <3>3, SessionsAreNumbers DEF Comes, Kept
    <3>5. post[c] = "initialized" => Current(session)'
      BY <2>1, <2>2, <2>3 DEF Lone, Current
    <3>6. QED
      BY <1>11, <2>1, <2>2, <3>2, <3>4, <3>5
  <2>4. CASE /\ issued < MaxSession /\ live' = issued + 1 /\ expiries' = expiries
             /\ unheard' = (unheard \/ post[c] = "initialized")
             /\ Respond(c, Response("ok", issued + 1))
    <3>1. issued + 1 \in Ids
      BY <2>4, SessionsAreNumbers DEF Ids, First
    <3>2. PICK r \in Responses : r.status = "ok" /\ r.header = live' /\ Respond(c, r) /\ live' \in Ids
      BY <1>13, <2>4, <3>1
    <3>3. Fresh(r.header)' /\ r.header \notin {None, Empty}
      BY <3>2, SessionsAreNumbers DEF Fresh
    <3>4. Comes(r)' /\ Fresh(Kept(r))'
      BY <3>2, <3>3, SessionsAreNumbers DEF Comes, Kept
    <3>5. post[c] # "initialized"
      BY <1>0, <2>4, Zenon
    <3>6. QED
      BY <1>11, <2>1, <2>2, <3>2, <3>4, <3>5
  <2>5. CASE /\ expiries' = expiries + 1 /\ live' = None
             /\ unheard' = (unheard \/ post[c] # "call")
             /\ Respond(c, Response("ok", Empty))
    <3> DEFINE r == Response("ok", Empty)
    <3>1. r \in Responses /\ r.header = Empty /\ Respond(c, r)
      BY <1>13, <2>5
    <3> HIDE DEF r
    <3>2. post[c] = "call"
      BY <1>0, <2>5, Zenon
    <3>3. expiries = 0 /\ expiries' = 1
      BY <1>0, <2>5
    <3>4. attempt[c] = 1
      BY <1>12, <2>1, <2>2, <3>2, <3>3 DEF Lone, Current, Placed
    <3>5. Over' /\ Expired(r)
      BY <2>5, <3>1, <3>3 DEF Over, Expired
    <3>6. QED
      BY <1>11, <2>1, <2>2, <3>1, <3>2, <3>4, <3>5
  <2>6. QED
    BY <1>14, <2>3, <2>4, <2>5 DEF Serve
<1>15. ASSUME NEW c \in Callers, Refuse(c)
       PROVE  NothingSeen'
  <2>1. /\ step[c] = "flying" /\ UNCHANGED <<post, attempt, session, live, expiries>>
    BY <1>15 DEF Refuse, Arrived, Respond
  <2>2. /\ Lone(c) /\ StepOf(c) /\ sent[c] \in {None} \cup Ids
    BY <1>12, <1>15, <2>1 DEF StepOf
  <2>3. sent[c] \notin {None, live} /\ Respond(c, Response("404", sent[c]))
    <3>1. post[c] # "initialize" => sent[c] # None
      BY <2>1, <2>2 DEF Lone, Fresh, Current
    <3>2. QED
      BY <1>0, <1>15, <3>1 DEF Refuse, Fault
  <2>4. PICK r \in Responses : r.status = "404" /\ r.header = sent[c] /\ Respond(c, r)
    BY <1>13, <2>2, <2>3
  <2>5. post[c] \in {"call", "answer"}
    BY <2>1, <2>2, <2>3 DEF Lone, Current
  <2>6. Fresh(sent[c]) /\ session = sent[c] /\ Over
    BY <2>1, <2>2, <2>3, <2>5 DEF Lone, Fresh
  <2>7. post[c] = "call" => attempt[c] = 1
    BY <1>12, <2>1, <2>2, <2>3, <2>6 DEF Lone, Current, Placed
  <2>8. Over' /\ Expired(r)
    BY <2>1, <2>3, <2>4, <2>6 DEF Over, Expired
  <2>9. Fresh(Kept(r))'
    BY <2>1, <2>3, <2>4, <2>6 DEF Fresh, Kept, Over
  <2>10. QED
    BY <1>11, <2>1, <2>2, <2>4, <2>5, <2>7, <2>8, <2>9
<1>16. ASSUME NEW c \in Callers, Initialize(c)
       PROVE  NothingSeen'
  <2>1. /\ step[c] = "flying" /\ post[c] = "initialize" /\ issued < MaxSession
        /\ live' = issued + 1 /\ expiries' = expiries /\ Respond(c, Response("ok", issued + 1))
    BY <1>16 DEF Initialize, Arrived
  <2>2. Lone(c) /\ StepOf(c)
    BY <1>12, <1>16, <2>1 DEF StepOf
  <2>3. issued + 1 \in Ids
    BY <2>1, SessionsAreNumbers DEF Ids, First
  <2>4. PICK r \in Responses : r.status = "ok" /\ r.header = live' /\ Respond(c, r) /\ live' \in Ids
    BY <1>13, <2>1, <2>3
  <2>5. Current(r.header)'
    BY <2>1, <2>2, <2>4, SessionsAreNumbers DEF Lone, Over, Current
  <2>6. QED
    BY <1>11, <2>1, <2>2, <2>4, <2>5
<1>17. CASE Expire
  <2>1. /\ live # None /\ live' = None /\ expiries' = expiries + 1
        /\ UNCHANGED <<step, post, attempt, gen, sent, response, outcome, session, generation>>
    BY <1>17 DEF Expire
  <2>2. expiries = 0 /\ expiries' = 1
    BY <1>0, <2>1
  <2>3. Over' /\ ~Over /\ \A id : ~Current(id)
    BY <2>1, <2>2 DEF Over, Current
  <2>4. ASSUME NEW id, Fresh(id)
        PROVE  Fresh(id)'
    BY <2>3, <2>4 DEF Fresh
  <2>5. ASSUME NEW c \in Callers, Active(c)'
        PROVE  Lone(c)'
    <3>1. Active(c) /\ Lone(c)
      BY <1>2, <2>1, <2>5 DEF Active
    <3>2. Comes(response[c]) => Comes(response[c])'
      BY <2>1, <2>3 DEF Comes, Fresh, Kept
    <3>3. QED
      BY <2>1, <2>3, <3>1, <3>2 DEF Lone, Fresh, Kept
  <2>6. QED
    BY <1>0, <2>1, <2>3, <2>5 DEF NothingSeen, AllOk, Active, Fresh
<1>18. QED
  BY <1>3, <1>4, <1>5, <1>6, <1>7, <1>8, <1>9, <1>10, <1>14, <1>15, <1>16, <1>17 DEF HttpNext, Take

-----------------------------------------------------------------------------
(* The invariant over HTTP.                                                *)

HttpInvariant ==
    /\ HttpTyped
    /\ EachPlaced
    /\ EachExecuted
    /\ HandshakesPaid
    /\ NothingSeen

LEMMA HttpInvariantInit == HttpInit => HttpInvariant
<1> SUFFICES ASSUME HttpInit PROVE HttpInvariant
  OBVIOUS
<1>1. EachExecuted
  BY DEF HttpInit, EachExecuted, Executed, Once, Active
<1>2. QED
  BY <1>1, HttpTypedInit, HandshakesPaidInit, NothingSeenInit DEF HttpInvariant

LEMMA HttpInvariantStep == HttpInvariant /\ [HttpNext]_hvars => HttpInvariant'
<1> SUFFICES ASSUME HttpInvariant, [HttpNext]_hvars PROVE HttpInvariant'
  OBVIOUS
<1>1. CASE HttpNext
  <2>1. HttpTyped' /\ EachPlaced' /\ EachExecuted'
    BY <1>1, HttpTypedStep, PlacedStep, ExecutedStep DEF HttpInvariant
  <2>2. HandshakesPaid' /\ NothingSeen'
    BY <1>1, <2>1, HandshakesPaidStep, NothingSeenStep DEF HttpInvariant
  <2>3. QED
    BY <2>1, <2>2 DEF HttpInvariant
<1>2. CASE UNCHANGED hvars
  <2>1. UNCHANGED <<step, post, attempt, gen, sent, response, outcome, session, lock, generation, live, issued,
                    expiries, rotations, faults, runs, cut, overlapped, unheard>>
    BY <1>2 DEF hvars, request, shared, server, history
  <2>2. HttpTyped' /\ EachPlaced' /\ EachExecuted'
    BY <2>1 DEF HttpInvariant, HttpTyped, EachPlaced, Placed, Handshaking, EachExecuted, Executed, Once, Active
  <2>3. Owing' = Owing /\ Earned' = Earned
    <3>1. (Settling' <=> Settling) /\ (Wanted' <=> Wanted) /\ (Overtaken' <=> Overtaken)
      BY <2>1 DEF Settling, Settles, Wanted, Wants, Overtaken, Outdated, Stale, Active
    <3>2. Bearers' = Bearers /\ Relapses' = Relapses
      BY <2>1 DEF Bearers, Bears, Heard, Relapses
    <3>3. (Stale(session)' <=> Stale(session)) /\ UNCHANGED <<generation, expiries, rotations>>
      BY <2>1 DEF Stale
    <3>4. DueNow' = DueNow
      BY <3>1, <3>3 DEF DueNow, Due, Count
    <3>5. QED
      BY <3>2, <3>3, <3>4 DEF Owing, Earned, DueNow
  <2>4. HandshakesPaid'
    BY <2>3 DEF HttpInvariant, HandshakesPaid
  <2>5. NothingSeen'
    BY <2>1 DEF HttpInvariant, NothingSeen, Quiet, OneExpiry, AllOk, Active, Lone, Fresh, Over, Current, Comes, Kept
  <2>6. QED
    BY <2>2, <2>4, <2>5 DEF HttpInvariant
<1>3. QED
  BY <1>1, <1>2

LEMMA HttpInvariantFits == HttpInvariant => ExpiryHandled
<1> SUFFICES ASSUME HttpInvariant PROVE ExpiryHandled
  OBVIOUS
<1>1. HttpTypeOK
  BY DEF HttpInvariant, HttpTyped, HttpTypeOK, Ids
<1>2. ExecutedOnce
  BY DEF HttpInvariant, EachExecuted, Executed, Once, ExecutedOnce
<1>3. SequentialExpiryInvisible
  BY DEF HttpInvariant, NothingSeen, Quiet, SequentialExpiryInvisible
<1>4. OneHandshakePerExpiry
  <2>1. DueNow \in 0..2
    BY DueNowMoves
  <2>2. Cardinality(Bearers) \in Nat /\ Cardinality(Relapses) \in Nat
    BY SetsAreFinite
  <2>3. generation \in Nat /\ expiries \in Nat /\ rotations \in Nat
    BY DEF HttpInvariant, HttpTyped
  <2>4. generation + DueNow + Cardinality(Bearers) =< expiries + 2 * rotations + Cardinality(Relapses)
    BY DEF HttpInvariant, HandshakesPaid, Owing, Earned, DueNow
  <2>5. QED
    BY <2>1, <2>2, <2>3, <2>4 DEF OneHandshakePerExpiry
<1>5. QED
  BY <1>1, <1>2, <1>3, <1>4 DEF ExpiryHandled

-----------------------------------------------------------------------------
(* Over a child process, whatever the order of its answers and whichever of *)
(* the tasks, the child and the callers stops first: a caller gets an       *)
(* answer to its own request, an entry of the pending map belongs to a      *)
(* request that waits or was dropped, and a negotiation ends with a result, *)
(* after at most two offers, the last as new as any version both sides know *)
(* and known to both if the result names it; for any versions and           *)
(* capacities.                                                              *)
THEOREM RequestsStayMatched == Spec => []RequestsMatched
<1>1. Init => StdioInvariant
  BY StdioInvariantInit DEF Init
<1>2. StdioInvariant /\ [Next]_vars => StdioInvariant'
  <2>1. [Next]_vars => [StdioNext]_svars
    BY DEF Next, vars
  <2>2. QED
    BY <2>1, StdioInvariantStep
<1>3. QED
  BY <1>1, <1>2, StdioInvariantFits, PTL DEF Spec

(* Over HTTP, for any number of concurrent requests and of sessions that     *)
(* end or are replaced: the server carries a request out once, and twice     *)
(* only when the first result came with the end of the session; the          *)
(* handshakes are paid for by expiries, rotations and relapses; and one      *)
(* expiry shows to no request that comes alone.                              *)
THEOREM ExpiryStaysHandled == Spec => []ExpiryHandled
<1>1. Init => HttpInvariant
  BY HttpInvariantInit DEF Init
<1>2. HttpInvariant /\ [Next]_vars => HttpInvariant'
  <2>1. [Next]_vars => [HttpNext]_hvars
    BY DEF Next, vars
  <2>2. QED
    BY <2>1, HttpInvariantStep
<1>3. QED
  BY <1>1, <1>2, HttpInvariantFits, PTL DEF Spec

=============================================================================
