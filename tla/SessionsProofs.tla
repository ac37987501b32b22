----------------------------- MODULE SessionsProofs -----------------------------
(***************************************************************************)
(* Proofs about the sessions of the HTTP server and of the terminal:       *)
(* ServeSessions, for any sessions and requests, any number of live        *)
(* sessions and of crashes, and with appends that may fail, and TuiRuns,   *)
(* for any number of prompts, questions and sessions.                      *)
(*                                                                         *)
(* FlagInvariant: a request past the claim holds the busy flag of its      *)
(* object, and that object is the one SessionManager.live names for its    *)
(* session, unless a delete raced.  BusyExcludes and DeletedStays follow.  *)
(*                                                                         *)
(* StoryInvariant, above it: how the turns in the file, the turn number    *)
(* and the history of a live session relate while a prompt is under way.   *)
(* HistoryRestored follows.                                                *)
(*                                                                         *)
(* SessionsInvariant: where each event of a run of the terminal is on its  *)
(* way to the screen, who may still say or write something (the run on the *)
(* screen and cancelled ones), and what the history was begun from.        *)
(* SessionsAreTrue follows.                                                *)
(***************************************************************************)
EXTENDS ServeSessions, TuiRuns, FiniteSetTheorems, SequenceTheorems, TLAPS

Messages == Requests \cup {System}
ObjType == [busy : BOOLEAN, turn : Nat, history : Seq(Messages)]
TurnType == [turn : Nat, prompt : Requests, end : {"done", "silent"}]
ReqType == [pc : Holding \cup {"unsent", "claiming", "over"},
            id : Ids \cup {None}, obj : Objects \cup {None},
            memory : Seq(Messages), end : Outcome \cup {"none"}]

Working == {q \in Requests : req[q].pc \in Holding \cup {"claiming"}}

(* TypeOK, with what is a sequence said to be one. *)
StateOK ==
  /\ store \in [Ids -> {"new", "present", "torn", "deleted"}]
  /\ turns \in [Ids -> Seq(TurnType)]
  /\ object \in Seq(ObjType) /\ Len(object) <= MaxLive
  /\ live \in [Ids -> Objects \cup {None}]
  /\ \A i \in Ids : live[i] # None => live[i] \in DOMAIN object
  /\ req \in [Requests -> ReqType]
  /\ crashes \in 0..MaxCrashes
  /\ raced \subseteq Ids /\ unsaved \subseteq Ids

(* A request at work is about a session and one of its live objects. *)
Linked ==
  \A q \in Requests :
    /\ q \in Working => req[q].id \in Ids /\ req[q].obj \in DOMAIN object
    /\ q \notin Working => req[q].id = None /\ req[q].obj = None
    /\ req[q].pc = "appending" => req[q].end \in {"done", "silent"}
    /\ req[q].pc # "running" => req[q].memory = <<>>

(* The busy flag is up while a request holds it, and one request holds it. *)
HoldsBusy == \A q \in Requests : req[q].pc \in Holding => object[req[q].obj].busy

Exclusive ==
  \A p, q \in Requests :
    p # q /\ req[p].pc \in Holding /\ req[q].pc \in Holding => req[p].obj # req[q].obj

(* The object of a request at work is the live one of its session. *)
Current == \A q \in Working : req[q].id \notin raced => live[req[q].id] = req[q].obj

(* A session without a file has no live object. *)
DeletedIdle == \A i \in Ids \ raced : store[i] \in {"new", "deleted"} => live[i] = None

FlagInvariant ==
  /\ StateOK
  /\ Linked
  /\ HoldsBusy
  /\ Exclusive
  /\ Current
  /\ DeletedIdle

(* What FileInHistory asks of a history, with the turns of a file and those *)
(* of them it shows.                                                       *)
Told(h, file, shown) ==
  /\ \A a, b \in DOMAIN h : h[a] = h[b] => a = b
  /\ \A k \in shown : \E a \in DOMAIN h : h[a] = file[k].prompt
  /\ \A k, l \in shown : k < l => Remembered(h, file[k], file[l])


-----------------------------------------------------------------------------
(* Objects are numbered in the order in which they were built. *)
LEMMA ObjectsAreNumbered ==
  ASSUME StateOK
  PROVE  /\ Len(object) \in Nat
         /\ DOMAIN object = 1..Len(object)
         /\ DOMAIN object \subseteq Objects
         /\ \A o \in DOMAIN object : o # None /\ object[o] \in ObjType
         /\ None \notin Objects
<1>1. Len(object) \in Nat /\ DOMAIN object = 1..Len(object)
  BY LenProperties DEF StateOK
<1>2. DOMAIN object \subseteq Objects /\ None \notin Objects
  BY <1>1, NoneAssumption, BoundsAssumption DEF StateOK, Objects
<1>3. \A o \in DOMAIN object : object[o] \in ObjType
  BY ElementOfSeq, <1>1 DEF StateOK
<1>4. QED
  BY <1>1, <1>2, <1>3

(* One object is replaced. *)
Touched(o, c) ==
  /\ object' \in Seq(ObjType) /\ Len(object') = Len(object)
  /\ DOMAIN object' = DOMAIN object
  /\ \A x \in DOMAIN object : x # o => object'[x] = object[x]
  /\ object'[o] = c

LEMMA ObjectReplaced ==
  ASSUME StateOK, NEW o \in DOMAIN object, NEW c \in ObjType,
         object' = [object EXCEPT ![o] = c]
  PROVE  Touched(o, c)
BY ExceptSeq, LenProperties DEF StateOK, Touched

(* A request is replaced. *)
Turned(q) ==
  /\ req' \in [Requests -> ReqType]
  /\ \A p \in Requests : p # q => req'[p] = req[p]

(* It answers, with or without the flag given back. *)
Leaves(q) ==
  /\ Turned(q)
  /\ req'[q].pc = "over" /\ req'[q].id = None /\ req'[q].obj = None
  /\ req'[q].memory = <<>>

(* It goes on, with what it is about. *)
GoesOn(q, pc) ==
  /\ Turned(q)
  /\ req'[q].pc = pc /\ req'[q].id = req[q].id /\ req'[q].obj = req[q].obj

-----------------------------------------------------------------------------
(* What the actions do to the request and to the object it is about. *)

LEMMA RequestReplaced ==
  ASSUME StateOK, NEW q \in Requests, NEW c \in ReqType, req' = [req EXCEPT ![q] = c]
  PROVE  Turned(q) /\ req'[q] = c
BY DEF StateOK, Turned

LEMMA RequestLeaves ==
  ASSUME StateOK, NEW q \in Requests, req' = [req EXCEPT ![q] = Over]
  PROVE  Leaves(q)
<1>1. /\ Over.pc = "over" /\ Over.id = None /\ Over.obj = None
      /\ Over.memory = <<>> /\ Over.end = "none"
      /\ Over \in ReqType
  <2>1. Idle \in ReqType
    BY EmptySeq DEF Idle, ReqType, Messages
  <2>2. QED
    BY <2>1 DEF Over, Idle, ReqType
<1>2. QED
  BY <1>1, RequestReplaced DEF Leaves

LEMMA RequestMoves ==
  ASSUME StateOK, NEW q \in Requests,
         NEW pc \in Holding, req' = [req EXCEPT ![q].pc = pc]
  PROVE  /\ GoesOn(q, pc)
         /\ req'[q].memory = req[q].memory /\ req'[q].end = req[q].end
<1>1. req[q] \in ReqType /\ req' = [req EXCEPT ![q] = [req[q] EXCEPT !.pc = pc]]
  BY DEF StateOK
<1>2. [req[q] EXCEPT !.pc = pc] \in ReqType
  BY <1>1 DEF ReqType
<1>3. Turned(q) /\ req'[q] = [req[q] EXCEPT !.pc = pc]
  BY <1>1, <1>2, RequestReplaced
<1>4. QED
  BY <1>1, <1>3 DEF GoesOn, ReqType

LEMMA RequestFinishes ==
  ASSUME StateOK, NEW q \in Requests, NEW end \in Outcome, Finish(q, end)
  PROVE  /\ GoesOn(q, "recording")
         /\ req'[q].memory = <<>> /\ req'[q].end = end
<1> DEFINE c == [req[q] EXCEPT !.pc = "recording", !.end = end, !.memory = <<>>]
<1>1. req[q] \in ReqType /\ req' = [req EXCEPT ![q] = c]
  BY DEF StateOK, Finish
<1>2. /\ c \in ReqType /\ c.pc = "recording" /\ c.end = end /\ c.memory = <<>>
      /\ c.id = req[q].id /\ c.obj = req[q].obj
  BY <1>1, EmptySeq DEF ReqType, Holding
<1> HIDE DEF c
<1>3. QED
  BY <1>1, <1>2, RequestReplaced DEF GoesOn

LEMMA RequestClaims ==
  ASSUME StateOK, NEW q \in Requests, NEW i \in Ids, NEW o \in Objects,
         req' = [req EXCEPT ![q].pc = "claiming", ![q].id = i, ![q].obj = o]
  PROVE  /\ Turned(q)
         /\ req'[q].pc = "claiming" /\ req'[q].id = i /\ req'[q].obj = o
         /\ req'[q].memory = req[q].memory
<1> DEFINE c == [req[q] EXCEPT !.pc = "claiming", !.id = i, !.obj = o]
<1>1. req[q] \in ReqType /\ req' = [req EXCEPT ![q] = c]
  BY DEF StateOK
<1>2. /\ c \in ReqType /\ c.pc = "claiming" /\ c.id = i /\ c.obj = o
      /\ c.memory = req[q].memory
  BY <1>1 DEF ReqType
<1> HIDE DEF c
<1>3. QED
  BY <1>1, <1>2, RequestReplaced

(* The agent's memory: what the session remembers, or the system prompt,   *)
(* and the prompt.                                                         *)
Seeded(q) == IF object[req[q].obj].history = <<>> THEN <<System>>
             ELSE object[req[q].obj].history

LEMMA RequestBegins ==
  ASSUME StateOK, Linked, NEW q \in Requests, Begin(q)
  PROVE  /\ req[q].pc = "starting" /\ GoesOn(q, "running")
         /\ req'[q].memory = Append(Seeded(q), q)
         /\ Seeded(q) \in Seq(Messages)
         /\ UNCHANGED <<store, turns, live, object, crashes, raced, unsaved>>
<1> DEFINE c == [req[q] EXCEPT !.pc = "running", !.memory = Append(Seeded(q), q)]
<1>1. req[q] \in ReqType /\ req' = [req EXCEPT ![q] = c] /\ req[q].pc = "starting"
  BY DEF StateOK, Begin, Seeded
<1>2. req[q].obj \in DOMAIN object
  BY <1>1 DEF Linked, Working, Holding
<1>3. Seeded(q) \in Seq(Messages)
  <2>1. object[req[q].obj].history \in Seq(Messages)
    BY <1>2, ObjectsAreNumbered DEF ObjType
  <2>2. <<System>> \in Seq(Messages)
    BY DEF Messages
  <2>3. QED
    BY <2>1, <2>2 DEF Seeded
<1>4. Append(Seeded(q), q) \in Seq(Messages)
  BY <1>3, AppendProperties DEF Messages
<1>5. /\ c \in ReqType /\ c.pc = "running" /\ c.memory = Append(Seeded(q), q)
      /\ c.id = req[q].id /\ c.obj = req[q].obj
  BY <1>1, <1>4 DEF ReqType, Holding
<1> HIDE DEF c
<1>6. Turned(q) /\ req'[q] = c
  BY <1>1, <1>5, RequestReplaced
<1>7. QED
  BY <1>1, <1>3, <1>5, <1>6 DEF GoesOn, Begin

(* One field of an object is set. *)
LEMMA FlagSet ==
  ASSUME StateOK, NEW o \in DOMAIN object, NEW b \in BOOLEAN,
         object' = [object EXCEPT ![o].busy = b]
  PROVE  \E c \in ObjType : /\ Touched(o, c) /\ c.busy = b
                            /\ c.turn = object[o].turn /\ c.history = object[o].history
<1> DEFINE c == [object[o] EXCEPT !.busy = b]
<1>1. object[o] \in ObjType /\ object' = [object EXCEPT ![o] = c]
  BY ObjectsAreNumbered
<1>2. /\ c \in ObjType /\ c.busy = b
      /\ c.turn = object[o].turn /\ c.history = object[o].history
  BY <1>1 DEF ObjType
<1> HIDE DEF c
<1>3. QED
  BY <1>1, <1>2, ObjectReplaced

LEMMA HistorySet ==
  ASSUME StateOK, NEW o \in DOMAIN object, NEW h \in Seq(Messages),
         object' = [object EXCEPT ![o].history = h]
  PROVE  \E c \in ObjType : /\ Touched(o, c) /\ c.history = h
                            /\ c.busy = object[o].busy /\ c.turn = object[o].turn
<1> DEFINE c == [object[o] EXCEPT !.history = h]
<1>1. object[o] \in ObjType /\ object' = [object EXCEPT ![o] = c]
  BY ObjectsAreNumbered
<1>2. /\ c \in ObjType /\ c.history = h
      /\ c.busy = object[o].busy /\ c.turn = object[o].turn
  BY <1>1 DEF ObjType
<1> HIDE DEF c
<1>3. QED
  BY <1>1, <1>2, ObjectReplaced

LEMMA TurnCounted ==
  ASSUME StateOK, NEW o \in DOMAIN object,
         object' = [object EXCEPT ![o].turn = @ + 1]
  PROVE  \E c \in ObjType : /\ Touched(o, c) /\ c.turn = object[o].turn + 1
                            /\ c.busy = object[o].busy /\ c.history = object[o].history
<1> DEFINE c == [object[o] EXCEPT !.turn = object[o].turn + 1]
<1>1. object[o] \in ObjType /\ object' = [object EXCEPT ![o] = c]
  BY ObjectsAreNumbered
<1>2. /\ c \in ObjType /\ c.turn = object[o].turn + 1
      /\ c.busy = object[o].busy /\ c.history = object[o].history
  BY <1>1 DEF ObjType
<1> HIDE DEF c
<1>3. QED
  BY <1>1, <1>2, ObjectReplaced

(* A live object is built from the file. *)
LEMMA ObjectRestored ==
  ASSUME StateOK, NEW i \in Ids, Len(object) < MaxLive,
         object' = Append(object, Restore(i))
  PROVE  /\ Restore(i) \in ObjType
         /\ object' \in Seq(ObjType) /\ Len(object') = Len(object) + 1
         /\ DOMAIN object' = DOMAIN object \cup {Len(object) + 1}
         /\ \A o \in DOMAIN object : object'[o] = object[o]
         /\ object'[Len(object) + 1] = Restore(i)
         /\ Len(object) + 1 \in Objects /\ Len(object) + 1 \notin DOMAIN object
<1>1. turns[i] \in Seq(TurnType) /\ Len(turns[i]) \in Nat
      /\ DOMAIN turns[i] = 1..Len(turns[i])
  BY LenProperties DEF StateOK
<1>2. Replayed(i) \in Seq(Messages)
  <2>1. ASSUME NEW k \in 1..Len(turns[i]) PROVE turns[i][k].prompt \in Messages
    <3>1. turns[i][k] \in TurnType
      BY <1>1, ElementOfSeq
    <3>2. QED
      BY <3>1 DEF TurnType, Messages
  <2>2. QED
    BY <1>1, <2>1, IsASeq DEF Replayed
<1>3. Restore(i) \in ObjType
  BY <1>1, <1>2 DEF Restore, ObjType
<1>4. Len(object) \in Nat /\ DOMAIN object = 1..Len(object)
  BY ObjectsAreNumbered
<1>5. /\ object' \in Seq(ObjType) /\ Len(object') = Len(object) + 1
      /\ \A o \in 1..Len(object) : object'[o] = object[o]
      /\ object'[Len(object) + 1] = Restore(i)
  BY <1>3, <1>4, AppendProperties DEF StateOK
<1>6. DOMAIN object' = 1..(Len(object) + 1)
  BY <1>5, LenProperties
<1>7. QED
  BY <1>3, <1>4, <1>5, <1>6, BoundsAssumption DEF Objects

-----------------------------------------------------------------------------
(* FlagInvariant *)

LEMMA FlagInvariantInit == Init => FlagInvariant
<1> SUFFICES ASSUME Init PROVE FlagInvariant
  OBVIOUS
<1> USE DEF Init
<1>1. Idle \in ReqType
  BY EmptySeq DEF Idle, ReqType
<1>2. StateOK
  <2>1. <<>> \in Seq(TurnType) /\ <<>> \in Seq(ObjType) /\ Len(<<>>) = 0
    BY EmptySeq
  <2>2. QED
    BY <1>1, <2>1, BoundsAssumption DEF StateOK
<1>3. \A q \in Requests : /\ req[q].pc = "unsent" /\ req[q].id = None /\ req[q].obj = None
                          /\ req[q].memory = <<>>
  BY DEF Idle
<1>4. QED
  BY <1>2, <1>3 DEF FlagInvariant, Linked, HoldsBusy, Exclusive, Current, DeletedIdle,
                    Working, Holding

(* A step of a request that holds the flag and goes on holding it. *)
HeldMoves(q) ==
  /\ req[q].pc \in Holding
  /\ \E pc \in Holding : GoesOn(q, pc)
  /\ req'[q].pc = "appending" => req'[q].end \in {"done", "silent"}
  /\ req'[q].pc # "running" => req'[q].memory = <<>>
  /\ \/ object' = object
     \/ \E c \in ObjType : Touched(req[q].obj, c) /\ c.busy = object[req[q].obj].busy
  /\ live' = live /\ raced' = raced /\ crashes' = crashes
  /\ turns' \in [Ids -> Seq(TurnType)] /\ unsaved' \subseteq Ids
  /\ store' \in [Ids -> {"new", "present", "torn", "deleted"}]
  /\ \A i \in Ids : store'[i] = store[i] \/ (i = req[q].id /\ store'[i] = "present")

LEMMA HeldMovesKeeps ==
  ASSUME FlagInvariant, NEW q \in Requests, HeldMoves(q)
  PROVE  FlagInvariant'
<1> USE DEF FlagInvariant
<1>1. PICK pc \in Holding : GoesOn(q, pc)
  BY DEF HeldMoves
<1>2. /\ req' \in [Requests -> ReqType]
      /\ \A p \in Requests : p # q => req'[p] = req[p]
      /\ req'[q].pc \in Holding /\ req'[q].id = req[q].id /\ req'[q].obj = req[q].obj
      /\ req[q].pc \in Holding
  BY <1>1 DEF GoesOn, Turned, HeldMoves
<1>3. req[q].id \in Ids /\ req[q].obj \in DOMAIN object
  BY <1>2 DEF Linked, Working
<1>4. /\ object' \in Seq(ObjType) /\ Len(object') = Len(object)
      /\ DOMAIN object' = DOMAIN object
      /\ \A o \in DOMAIN object : object'[o].busy = object[o].busy
  BY <1>3 DEF HeldMoves, Touched, StateOK
<1>5. StateOK'
  BY <1>2, <1>4 DEF StateOK, HeldMoves
<1>6. Linked'
  BY <1>2, <1>3, <1>4 DEF Linked, HeldMoves, Working
<1>7. HoldsBusy'
  BY <1>2, <1>3, <1>4 DEF HoldsBusy, Linked, Working
<1>8. Exclusive'
  BY <1>2 DEF Exclusive
<1>9. Current'
  BY <1>2 DEF Current, HeldMoves, Working
<1>10. DeletedIdle'
  BY DEF DeletedIdle, HeldMoves
<1>11. QED
  BY <1>5, <1>6, <1>7, <1>8, <1>9, <1>10

LEMMA TaskHolds ==
  ASSUME FlagInvariant, NEW q \in Requests,
         \/ Begin(q) \/ BeginFails(q) \/ (\E end \in Outcome : End(q, end)) \/ AgentPanics(q)
         \/ SkipRecord(q) \/ NumberTurn(q) \/ AppendTurn(q)
  PROVE  HeldMoves(q)
<1> USE DEF FlagInvariant
<1>0. req[q].pc \in Holding
  BY DEF Begin, BeginFails, End, AgentPanics, SkipRecord, NumberTurn, AppendTurn, Holding
<1>00. req[q].id \in Ids /\ req[q].obj \in DOMAIN object
       /\ (req[q].pc # "running" => req[q].memory = <<>>)
  BY <1>0 DEF Linked, Working
<1>1. CASE Begin(q)
  <2>1. /\ GoesOn(q, "running")
        /\ UNCHANGED <<store, turns, live, object, crashes, raced, unsaved>>
    BY <1>1, RequestBegins
  <2>2. QED
    BY <1>0, <2>1 DEF HeldMoves, Holding, StateOK, GoesOn
<1>2. CASE BeginFails(q) \/ AgentPanics(q)
  <2>1. \E end \in Outcome : Finish(q, end)
    BY <1>2 DEF BeginFails, AgentPanics, Outcome
  <2>2. GoesOn(q, "recording") /\ req'[q].memory = <<>>
    BY <2>1, RequestFinishes
  <2>3. UNCHANGED <<store, turns, live, object, crashes, raced, unsaved>>
    BY <1>2 DEF BeginFails, AgentPanics
  <2>4. QED
    BY <1>0, <2>2, <2>3 DEF HeldMoves, Holding, StateOK, GoesOn
<1>3. CASE \E end \in Outcome : End(q, end)
  <2>1. PICK end \in Outcome : End(q, end)
    BY <1>3
  <2>2. GoesOn(q, "recording") /\ req'[q].memory = <<>>
    BY <2>1, RequestFinishes DEF End
  <2>3. req[q].memory \in Seq(Messages)
    BY DEF StateOK, ReqType
  <2>4. \E c \in ObjType : Touched(req[q].obj, c) /\ c.busy = object[req[q].obj].busy
    <3>1. object' = [object EXCEPT ![req[q].obj].history = req[q].memory]
      BY <2>1 DEF End
    <3>2. QED
      BY <1>00, <2>3, <3>1, HistorySet, ZenonT(40)
  <2>5. UNCHANGED <<store, turns, live, crashes, raced, unsaved>>
    BY <2>1 DEF End
  <2>6. QED
    BY <1>0, <2>2, <2>4, <2>5 DEF HeldMoves, Holding, StateOK, GoesOn
<1>4. CASE SkipRecord(q)
  <2>1. GoesOn(q, "releasing") /\ req'[q].memory = req[q].memory
    BY <1>4, RequestMoves DEF SkipRecord, Holding
  <2>2. QED
    BY <1>0, <1>00, <1>4, <2>1 DEF HeldMoves, Holding, StateOK, GoesOn, SkipRecord
<1>5. CASE NumberTurn(q)
  <2>1. /\ GoesOn(q, "appending")
        /\ req'[q].memory = req[q].memory /\ req'[q].end = req[q].end
    BY <1>5, RequestMoves DEF NumberTurn, Holding
  <2>2. \E c \in ObjType : Touched(req[q].obj, c) /\ c.busy = object[req[q].obj].busy
    BY <1>00, <1>5, TurnCounted DEF NumberTurn
  <2>3. QED
    BY <1>0, <1>00, <1>5, <2>1, <2>2 DEF HeldMoves, Holding, StateOK, GoesOn, NumberTurn
<1>6. CASE AppendTurn(q)
  <2>1. GoesOn(q, "releasing") /\ req'[q].memory = req[q].memory
    BY <1>6, RequestMoves DEF AppendTurn, Holding
  <2>2. turns' \in [Ids -> Seq(TurnType)]
    <3> DEFINE t == [turn |-> object[req[q].obj].turn, prompt |-> q, end |-> req[q].end]
    <3>1. t \in TurnType
      <4>1. object[req[q].obj].turn \in Nat
        BY <1>00, ObjectsAreNumbered DEF ObjType
      <4>2. req[q].end \in {"done", "silent"}
        BY <1>6 DEF AppendTurn, Linked
      <4>3. QED
        BY <4>1, <4>2 DEF TurnType
    <3>2. turns' = turns \/ turns' = [turns EXCEPT ![req[q].id] = Append(turns[req[q].id], t)]
      BY <1>6 DEF AppendTurn
    <3> HIDE DEF t
    <3>3. Append(turns[req[q].id], t) \in Seq(TurnType)
      BY <1>00, <3>1, AppendProperties DEF StateOK
    <3>4. QED
      BY <3>2, <3>3 DEF StateOK
  <2>3. /\ store' = store \/ store' = [store EXCEPT ![req[q].id] = "present"]
        /\ unsaved' = unsaved \/ unsaved' = unsaved \cup {req[q].id}
        /\ UNCHANGED <<live, object, crashes, raced>>
        /\ req[q].pc = "appending"
    BY <1>6 DEF AppendTurn
  <2>4. QED
    BY <1>0, <1>00, <2>1, <2>2, <2>3 DEF HeldMoves, Holding, StateOK, GoesOn
<1>7. QED
  BY <1>1, <1>2, <1>3, <1>4, <1>5, <1>6

(* A request answers: when it holds the flag, the flag goes down with it. *)
LEMMA LeavingKeeps ==
  ASSUME FlagInvariant, NEW q \in Requests, Leaves(q),
         UNCHANGED <<store, turns, live, crashes, raced, unsaved>>,
         \/ req[q].pc \notin Holding /\ object' = object
         \/ /\ req[q].pc \in Holding
            /\ \E c \in ObjType : Touched(req[q].obj, c)
  PROVE  FlagInvariant'
<1> USE DEF FlagInvariant
<1>1. /\ req' \in [Requests -> ReqType]
      /\ \A p \in Requests : p # q => req'[p] = req[p]
      /\ req'[q].pc = "over" /\ req'[q].id = None /\ req'[q].obj = None
      /\ req'[q].memory = <<>>
  BY DEF Leaves, Turned
<1>2. req[q].pc \in Holding => req[q].obj \in DOMAIN object
  BY DEF Linked, Working
<1>3. /\ object' \in Seq(ObjType) /\ Len(object') = Len(object)
      /\ DOMAIN object' = DOMAIN object
      /\ \A o \in DOMAIN object : object'[o] = object[o]
                                  \/ (req[q].pc \in Holding /\ o = req[q].obj)
  BY <1>2 DEF Touched, StateOK
<1>4. StateOK'
  BY <1>1, <1>3 DEF StateOK
<1>5. Linked'
  BY <1>1, <1>3 DEF Linked, Working, Holding
<1>6. HoldsBusy'
  BY <1>1, <1>3 DEF HoldsBusy, Linked, Exclusive, Working, Holding
<1>7. Exclusive'
  BY <1>1 DEF Exclusive, Holding
<1>8. Current' /\ DeletedIdle'
  BY <1>1 DEF Current, Working, DeletedIdle, Holding
<1>9. QED
  BY <1>4, <1>5, <1>6, <1>7, <1>8

(* A chat finds the live object o of session i, or has just built it. *)
Finds(q, i, o) ==
  /\ req[q].pc = "unsent"
  /\ Turned(q)
  /\ req'[q].pc = "claiming" /\ req'[q].id = i /\ req'[q].obj = o
  /\ req'[q].memory = req[q].memory
  /\ live[i] = o \/ (live[i] = None /\ store[i] = "present")
  /\ live' \in [Ids -> Objects \cup {None}] /\ live'[i] = o
  /\ \A j \in Ids : j # i => live'[j] = live[j]
  /\ object' \in Seq(ObjType) /\ Len(object') <= MaxLive
  /\ o \in DOMAIN object' /\ DOMAIN object \subseteq DOMAIN object'
  /\ \A x \in DOMAIN object : object'[x] = object[x]
  /\ UNCHANGED <<store, turns, crashes, raced, unsaved>>

LEMMA FindsKeeps ==
  ASSUME FlagInvariant, NEW q \in Requests, NEW i \in Ids, NEW o \in Objects, Finds(q, i, o)
  PROVE  FlagInvariant'
<1> USE DEF FlagInvariant
<1>1. /\ req[q].pc = "unsent"
      /\ req' \in [Requests -> ReqType]
      /\ \A p \in Requests : p # q => req'[p] = req[p]
      /\ req'[q].pc = "claiming" /\ req'[q].id = i /\ req'[q].obj = o
      /\ req'[q].memory = req[q].memory
      /\ live[i] = o \/ (live[i] = None /\ store[i] = "present")
      /\ live' \in [Ids -> Objects \cup {None}] /\ live'[i] = o
      /\ \A j \in Ids : j # i => live'[j] = live[j]
      /\ object' \in Seq(ObjType) /\ Len(object') <= MaxLive
      /\ o \in DOMAIN object' /\ DOMAIN object \subseteq DOMAIN object'
      /\ \A x \in DOMAIN object : object'[x] = object[x]
      /\ UNCHANGED <<store, turns, crashes, raced, unsaved>>
  BY DEF Finds, Turned
<1>2. StateOK'
  BY <1>1 DEF StateOK
<1>3. Linked'
  BY <1>1 DEF Linked, Working, Holding
<1>4. HoldsBusy' /\ Exclusive'
  BY <1>1 DEF HoldsBusy, Exclusive, Linked, Working, Holding
<1>5. Current'
  <2> SUFFICES ASSUME NEW p \in Requests, p \in Working', req'[p].id \notin raced'
               PROVE  live'[req'[p].id] = req'[p].obj
    BY DEF Current, Working
  <2>1. CASE p = q
    BY <1>1, <2>1
  <2>2. CASE p # q
    <3>1. p \in Working /\ live[req[p].id] = req[p].obj /\ req[p].id \in Ids
          /\ req[p].obj \in DOMAIN object /\ req'[p] = req[p]
      BY <1>1, <2>2 DEF Current, Working, Linked
    <3>2. req[p].obj # None
      BY <3>1, ObjectsAreNumbered
    <3>3. QED
      BY <1>1, <3>1, <3>2
  <2>3. QED
    BY <2>1, <2>2
<1>6. DeletedIdle'
  <2>1. o # None
    BY ObjectsAreNumbered
  <2>2. QED
    BY <1>1, <2>1 DEF DeletedIdle
<1>7. QED
  BY <1>2, <1>3, <1>4, <1>5, <1>6

LEMMA ClaimKeeps ==
  ASSUME FlagInvariant, NEW q \in Requests, NEW i \in Ids, Claim(q, i)
  PROVE  FlagInvariant'
<1> USE DEF FlagInvariant
<1>1. /\ req[q].pc = "unsent"
      /\ UNCHANGED <<store, turns, crashes, raced, unsaved>>
  BY DEF Claim
<1>2. CASE live[i] = None /\ store[i] # "present" /\ Refuse(q)
  <2>1. Leaves(q) /\ UNCHANGED <<live, object>>
    BY <1>2, RequestLeaves DEF Refuse
  <2>2. QED
    BY <1>1, <2>1, LeavingKeeps DEF Holding
<1>3. CASE /\ live[i] # None
           /\ req' = [req EXCEPT ![q].pc = "claiming", ![q].id = i, ![q].obj = live[i]]
           /\ UNCHANGED <<live, object>>
  <2>1. live[i] \in DOMAIN object /\ live[i] \in Objects
    BY <1>3, ObjectsAreNumbered DEF StateOK
  <2>2. PICK o \in Objects : o = live[i]
    BY <2>1
  <2>3. /\ Turned(q)
        /\ req'[q].pc = "claiming" /\ req'[q].id = i /\ req'[q].obj = o
        /\ req'[q].memory = req[q].memory
    <3>1. req' = [req EXCEPT ![q].pc = "claiming", ![q].id = i, ![q].obj = o]
      BY <1>3, <2>2
    <3>2. QED
      BY <3>1, RequestClaims
  <2>4. Finds(q, i, o)
    BY <1>1, <1>3, <2>1, <2>2, <2>3 DEF Finds, StateOK
  <2>5. QED
    BY <2>4, FindsKeeps
<1>4. CASE /\ live[i] = None /\ store[i] = "present" /\ Len(object) < MaxLive
           /\ object' = Append(object, Restore(i))
           /\ live' = [live EXCEPT ![i] = Len(object) + 1]
           /\ req' = [req EXCEPT ![q].pc = "claiming", ![q].id = i,
                                 ![q].obj = Len(object) + 1]
  <2>1. /\ object' \in Seq(ObjType) /\ Len(object') = Len(object) + 1
        /\ DOMAIN object' = DOMAIN object \cup {Len(object) + 1}
        /\ \A o \in DOMAIN object : object'[o] = object[o]
        /\ Len(object) + 1 \in Objects
    BY <1>4, ObjectRestored
  <2>2. PICK o \in Objects : o = Len(object) + 1
    BY <2>1
  <2>3. /\ Turned(q)
        /\ req'[q].pc = "claiming" /\ req'[q].id = i /\ req'[q].obj = o
        /\ req'[q].memory = req[q].memory
    <3>1. req' = [req EXCEPT ![q].pc = "claiming", ![q].id = i, ![q].obj = o]
      BY <1>4, <2>2
    <3>2. QED
      BY <3>1, RequestClaims
  <2>4. Len(object') <= MaxLive
    BY <1>4, <2>1, ObjectsAreNumbered, BoundsAssumption
  <2>5. live' \in [Ids -> Objects \cup {None}] /\ live'[i] = o
        /\ \A j \in Ids : j # i => live'[j] = live[j]
    BY <1>4, <2>2 DEF StateOK
  <2>6. Finds(q, i, o)
    BY <1>1, <1>4, <2>1, <2>2, <2>3, <2>4, <2>5 DEF Finds
  <2>7. QED
    BY <2>6, FindsKeeps
<1>5. QED
  BY <1>2, <1>3, <1>4 DEF Claim

LEMMA AcquireKeeps ==
  ASSUME FlagInvariant, NEW q \in Requests, Acquire(q)
  PROVE  FlagInvariant'
<1> USE DEF FlagInvariant
<1>1. req[q].pc = "claiming" /\ UNCHANGED <<store, turns, crashes, raced, unsaved>>
  BY DEF Acquire
<1>2. req[q].id \in Ids /\ req[q].obj \in DOMAIN object /\ req[q].memory = <<>>
  BY <1>1 DEF Linked, Working
<1>3. CASE object[req[q].obj].busy
  <2>1. Leaves(q) /\ UNCHANGED <<live, object>>
    BY <1>3, RequestLeaves DEF Acquire, Refuse
  <2>2. QED
    BY <1>1, <2>1, LeavingKeeps DEF Holding
<1>4. CASE ~object[req[q].obj].busy
  <2>1. /\ object' = [object EXCEPT ![req[q].obj].busy = TRUE]
        /\ req' = [req EXCEPT ![q].pc = "starting"] /\ live' = live
    BY <1>4 DEF Acquire
  <2>2. PICK c \in ObjType : Touched(req[q].obj, c) /\ c.busy = TRUE
    BY <1>2, <2>1, FlagSet
  <2>3. GoesOn(q, "starting") /\ req'[q].memory = <<>>
    BY <1>2, <2>1, RequestMoves DEF Holding
  <2>4. /\ req' \in [Requests -> ReqType]
        /\ \A p \in Requests : p # q => req'[p] = req[p]
        /\ req'[q].pc = "starting" /\ req'[q].id = req[q].id /\ req'[q].obj = req[q].obj
    BY <2>3 DEF GoesOn, Turned
  <2>5. /\ object' \in Seq(ObjType) /\ Len(object') = Len(object)
        /\ DOMAIN object' = DOMAIN object
        /\ \A o \in DOMAIN object : o # req[q].obj => object'[o] = object[o]
        /\ object'[req[q].obj].busy = TRUE
    BY <2>2 DEF Touched
  <2>6. \A p \in Requests : req[p].pc \in Holding => req[p].obj # req[q].obj
    BY <1>4 DEF HoldsBusy
  <2>7. StateOK'
    BY <1>1, <2>1, <2>4, <2>5 DEF StateOK
  <2>8. Linked'
    BY <1>2, <2>3, <2>4, <2>5 DEF Linked, Working, Holding
  <2>9. HoldsBusy'
    BY <2>4, <2>5 DEF HoldsBusy, Linked, Working
  <2>10. Exclusive'
    BY <2>4, <2>6 DEF Exclusive
  <2>11. Current' /\ DeletedIdle'
    BY <1>1, <2>1, <2>4 DEF Current, DeletedIdle, Working, Holding
  <2>12. QED
    BY <2>7, <2>8, <2>9, <2>10, <2>11
<1>5. QED
  BY <1>3, <1>4

LEMMA ReleaseKeeps ==
  ASSUME FlagInvariant, NEW q \in Requests, Release(q)
  PROVE  FlagInvariant'
<1>1. req[q].pc \in Holding /\ req[q].obj \in DOMAIN object /\ StateOK
  BY DEF Release, Holding, Linked, Working, FlagInvariant
<1>2. \E c \in ObjType : Touched(req[q].obj, c)
  BY <1>1, FlagSet DEF Release
<1>3. Leaves(q) /\ UNCHANGED <<store, turns, live, crashes, raced, unsaved>>
  BY <1>1, RequestLeaves DEF Release
<1>4. QED
  BY <1>1, <1>2, <1>3, LeavingKeeps

LEMMA CreateKeeps ==
  ASSUME FlagInvariant, NEW i \in Ids, Create(i)
  PROVE  FlagInvariant'
BY DEF FlagInvariant, Create, StateOK, Linked, HoldsBusy, Exclusive, Current, DeletedIdle,
   Working

LEMMA DeleteKeeps ==
  ASSUME FlagInvariant, NEW i \in Ids, Delete(i)
  PROVE  FlagInvariant'
<1> USE DEF FlagInvariant
<1>1. /\ live' = [live EXCEPT ![i] = None] /\ store' = [store EXCEPT ![i] = "deleted"]
      /\ turns' = [turns EXCEPT ![i] = <<>>]
      /\ raced' = raced \/ raced' = raced \cup {i}
      /\ Claiming(i) => i \in raced'
      /\ live[i] # None => ~object[live[i]].busy
      /\ UNCHANGED <<object, req, crashes, unsaved>>
  BY DEF Delete
<1>2. StateOK'
  BY <1>1, EmptySeq DEF StateOK
<1>3. Linked' /\ HoldsBusy' /\ Exclusive'
  BY <1>1 DEF Linked, HoldsBusy, Exclusive, Working
<1>4. Current'
  <2> SUFFICES ASSUME NEW q \in Requests, q \in Working, req[q].id \notin raced'
               PROVE  live'[req[q].id] = req[q].obj
    BY <1>1 DEF Current, Working
  <2>1. live[req[q].id] = req[q].obj /\ req[q].obj \in DOMAIN object /\ req[q].id \in Ids
    BY <1>1 DEF Current, Linked
  <2>2. CASE req[q].id = i
    <3>1. req[q].pc # "claiming"
      BY <1>1, <2>2 DEF Claiming
    <3>2. req[q].pc \in Holding
      BY <3>1 DEF Working
    <3>3. object[live[i]].busy /\ live[i] # None
      BY <2>1, <2>2, <3>2, ObjectsAreNumbered DEF HoldsBusy
    <3>4. QED
      BY <1>1, <3>3
  <2>3. CASE req[q].id # i
    BY <1>1, <2>1, <2>3 DEF StateOK
  <2>4. QED
    BY <2>2, <2>3
<1>5. DeletedIdle'
  BY <1>1 DEF DeletedIdle, StateOK
<1>6. QED
  BY <1>2, <1>3, <1>4, <1>5

(* After a crash no request is at work and nothing is live. *)
LEMMA CrashEffect ==
  ASSUME FlagInvariant, Crash
  PROVE  /\ StateOK' /\ turns' = turns /\ raced' = raced /\ unsaved' = unsaved
         /\ live' = [i \in Ids |-> None]
         /\ DOMAIN object' = DOMAIN object
         /\ \A o \in DOMAIN object : object'[o].history = object[o].history
         /\ \A q \in Requests :
              /\ req'[q].pc \in {"unsent", "over"} /\ req'[q].memory = <<>>
              /\ req'[q].id = None /\ req'[q].obj = None
              /\ req'[q].pc = "unsent" => req[q].pc = "unsent"
         /\ \A i \in Ids : \/ store'[i] = store[i]
                           \/ /\ store'[i] = "torn"
                              /\ \E q \in Requests : req[q].pc = "appending" /\ req[q].id = i
<1> USE DEF FlagInvariant
<1>1. /\ live' = [i \in Ids |-> None]
      /\ object' = [o \in DOMAIN object |-> [object[o] EXCEPT !.busy = FALSE]]
      /\ req' = [q \in Requests |-> IF req[q].pc = "unsent" THEN req[q] ELSE Over]
      /\ crashes < MaxCrashes /\ crashes' = crashes + 1
      /\ UNCHANGED <<turns, raced, unsaved>>
  BY DEF Crash
<1>2. PICK torn \in SUBSET {req[q].id : q \in {p \in Requests : req[p].pc = "appending"}} :
        store' = [i \in Ids |-> IF i \in torn THEN "torn" ELSE store[i]]
  BY DEF Crash
<1>3. /\ Len(object) \in Nat /\ DOMAIN object = 1..Len(object)
      /\ \A o \in DOMAIN object : object[o] \in ObjType
  BY ObjectsAreNumbered
<1>4. \A o \in DOMAIN object : /\ object'[o] \in ObjType
                               /\ object'[o].history = object[o].history
  <2> SUFFICES ASSUME NEW o \in DOMAIN object
               PROVE  object'[o] \in ObjType /\ object'[o].history = object[o].history
    OBVIOUS
  <2>1. object'[o] = [object[o] EXCEPT !.busy = FALSE]
    BY <1>1
  <2>2. QED
    BY <1>3, <2>1 DEF ObjType
<1>5. object' \in Seq(ObjType) /\ Len(object') = Len(object) /\ DOMAIN object' = DOMAIN object
  <2>1. DOMAIN object' = 1..Len(object) /\ object' = [o \in 1..Len(object) |-> object'[o]]
    BY <1>1, <1>3
  <2>2. object' \in [1..Len(object) -> ObjType]
    BY <1>3, <1>4, <2>1
  <2>3. object' \in Seq(ObjType)
    BY <1>3, <2>2, SeqDef
  <2>4. QED
    BY <1>3, <2>1, <2>3, LenProperties
<1>6. /\ Over.pc = "over" /\ Over.id = None /\ Over.obj = None
      /\ Over.memory = <<>> /\ Over \in ReqType
  <2>1. Idle \in ReqType
    BY EmptySeq DEF Idle, ReqType
  <2>2. QED
    BY <2>1 DEF Over, Idle, ReqType
<1>7. \A q \in Requests : req[q].pc = "unsent" => req[q].memory = <<>> /\ req[q].id = None
                                                  /\ req[q].obj = None
  BY DEF Linked, Working, Holding
<1>8. \A q \in Requests :
        /\ req'[q].pc \in {"unsent", "over"} /\ req'[q].memory = <<>>
        /\ req'[q].id = None /\ req'[q].obj = None
        /\ req'[q].pc = "unsent" => req[q].pc = "unsent"
  BY <1>1, <1>6, <1>7
<1>9. StateOK'
  <2>1. req' \in [Requests -> ReqType]
    BY <1>1, <1>6 DEF StateOK
  <2>2. store' \in [Ids -> {"new", "present", "torn", "deleted"}]
    BY <1>2 DEF StateOK
  <2>3. crashes' \in 0..MaxCrashes
    BY <1>1, BoundsAssumption DEF StateOK
  <2>4. QED
    BY <1>1, <1>5, <2>1, <2>2, <2>3 DEF StateOK
<1>10. \A i \in Ids : \/ store'[i] = store[i]
                      \/ /\ store'[i] = "torn"
                         /\ \E q \in Requests : req[q].pc = "appending" /\ req[q].id = i
  BY <1>2
<1>11. QED
  BY <1>1, <1>4, <1>5, <1>8, <1>9, <1>10

LEMMA CrashKeeps ==
  ASSUME FlagInvariant, Crash
  PROVE  FlagInvariant'
<1>1. Linked' /\ HoldsBusy' /\ Exclusive' /\ Current'
  BY CrashEffect DEF Linked, HoldsBusy, Exclusive, Current, Working, Holding
<1>2. DeletedIdle'
  BY CrashEffect DEF DeletedIdle
<1>3. QED
  BY <1>1, <1>2, CrashEffect DEF FlagInvariant

LEMMA FlagInvariantStep == FlagInvariant /\ [Next]_vars => FlagInvariant'
<1> SUFFICES ASSUME FlagInvariant, [Next]_vars PROVE FlagInvariant'
  OBVIOUS
<1>1. ASSUME NEW i \in Ids, Create(i) PROVE FlagInvariant'
  BY <1>1, CreateKeeps
<1>2. ASSUME NEW i \in Ids, Delete(i) PROVE FlagInvariant'
  BY <1>2, DeleteKeeps
<1>3. ASSUME NEW i \in Ids, NEW q \in Requests, Claim(q, i) PROVE FlagInvariant'
  BY <1>3, ClaimKeeps
<1>4. ASSUME NEW q \in Requests, Task(q) PROVE FlagInvariant'
  BY <1>4, AcquireKeeps, ReleaseKeeps, TaskHolds, HeldMovesKeeps DEF Task
<1>5. CASE Crash
  BY <1>5, CrashKeeps
<1>6. CASE UNCHANGED vars
  BY <1>6 DEF vars, FlagInvariant, StateOK, Linked, HoldsBusy, Exclusive, Current,
              DeletedIdle, Working
<1>7. QED
  BY <1>1, <1>2, <1>3, <1>4, <1>5, <1>6 DEF Next

LEMMA FlagInvariantAlways == Spec => []FlagInvariant
BY FlagInvariantInit, FlagInvariantStep, PTL DEF Spec

LEMMA FlagsExclude == FlagInvariant => BusyExcludes
<1> SUFFICES ASSUME FlagInvariant PROVE TypeOK /\ OnePromptPerSession
  BY DEF BusyExcludes
<1> USE DEF FlagInvariant
<1>1. TypeOK
  <2>1. \A i \in Ids : \A k \in DOMAIN turns[i] : turns[i][k] \in TurnType
    <3> SUFFICES ASSUME NEW i \in Ids, NEW k \in DOMAIN turns[i] PROVE turns[i][k] \in TurnType
      OBVIOUS
    <3>1. turns[i] \in Seq(TurnType)
      BY DEF StateOK
    <3>2. QED
      BY <3>1, ElementOfSeq, LenProperties
  <2>2. live \in [Ids -> DOMAIN object \cup {None}]
    BY DEF StateOK
  <2>3. req \in [Requests -> [pc : Holding \cup {"unsent", "claiming", "over"},
                              id : Ids \cup {None}, obj : DOMAIN object \cup {None},
                              memory : Seq(Requests \cup {System}),
                              end : Outcome \cup {"none"}]]
    <3>1. \A q \in Requests : req[q].obj \in DOMAIN object \cup {None}
      BY DEF Linked
    <3>2. QED
      BY <3>1 DEF StateOK, ReqType, Messages
  <2>4. \A o \in DOMAIN object :
          object[o] \in [busy : BOOLEAN, turn : Nat, history : Seq(Requests \cup {System})]
    BY ObjectsAreNumbered DEF ObjType, Messages
  <2>5. QED
    BY <2>1, <2>2, <2>3, <2>4 DEF TypeOK, StateOK, TurnType
<1>2. OnePromptPerSession
  BY DEF OnePromptPerSession, Exclusive, Current, Working
<1>3. QED
  BY <1>1, <1>2

(* The busy flag lets one prompt of a session run at a time, unless a delete *)
(* slipped between the look-up of a chat and its claim of the flag.          *)
THEOREM BusyAlwaysExcludes == Spec => []BusyExcludes
BY FlagInvariantAlways, FlagsExclude, PTL

(* No step brings the file of a deleted session back, with the same exception: *)
(* a request that could append to it would hold the flag that delete looks at. *)
LEMMA DeletedStaysStep ==
  FlagInvariant /\ [Next]_vars
    => [\A i \in Ids \ raced : store[i] = "deleted" => store'[i] = "deleted"]_vars
<1> SUFFICES ASSUME FlagInvariant, Next, NEW i \in Ids \ raced, store[i] = "deleted"
             PROVE  store'[i] = "deleted"
  BY DEF vars
<1> USE DEF FlagInvariant
<1>0. \A q \in Requests : req[q].pc \in Holding => req[q].id # i
  BY ObjectsAreNumbered DEF DeletedIdle, Current, Linked, Working
<1>1. ASSUME NEW j \in Ids, Create(j) \/ Delete(j) PROVE store'[i] = "deleted"
  BY <1>1 DEF Create, Delete, StateOK
<1>2. ASSUME NEW j \in Ids, NEW q \in Requests, Claim(q, j) PROVE store'[i] = "deleted"
  BY <1>2 DEF Claim
<1>3. ASSUME NEW q \in Requests, Acquire(q) \/ Release(q) PROVE store'[i] = "deleted"
  BY <1>3 DEF Acquire, Release
<1>4. ASSUME NEW q \in Requests, HeldMoves(q) PROVE store'[i] = "deleted"
  BY <1>0, <1>4 DEF HeldMoves
<1>5. CASE Crash
  BY <1>0, <1>5, CrashEffect DEF Holding
<1>6. QED
  BY <1>1, <1>2, <1>3, <1>4, <1>5, TaskHolds DEF Next, Task

THEOREM DeletedAlwaysStays == Spec => DeletedStays
BY FlagInvariantAlways, DeletedStaysStep, PTL DEF Spec, DeletedStays

-----------------------------------------------------------------------------
(* StoryInvariant: the file, the turn numbers and the history. *)

(* A live object belongs to one session. *)
Owned ==
  /\ \A i \in Ids : \A q \in Working : live[i] = req[q].obj => req[q].id = i
  /\ \A i, j \in Ids : live[i] = live[j] /\ live[i] # None => i = j

(* The counter of a live object is the length of the file, or one more      *)
(* while a turn that has its number is being appended.                      *)
Appending(i) == \E q \in Requests : req[q].pc = "appending" /\ req[q].id = i

Numbers ==
  \A i \in Ids \ (raced \cup unsaved) : live[i] # None =>
    /\ Appending(i) => object[live[i]].turn = Len(turns[i]) + 1
    /\ ~Appending(i) => object[live[i]].turn = Len(turns[i])

(* Nothing is remembered or recorded twice. *)
Distinct(h) == \A a, b \in DOMAIN h : h[a] = h[b] => a = b

AllDistinct ==
  /\ \A o \in DOMAIN object : Distinct(object[o].history)
  /\ \A q \in Requests : Distinct(req[q].memory)
  /\ \A i \in Ids : \A k, l \in DOMAIN turns[i] :
       turns[i][k].prompt = turns[i][l].prompt => k = l

(* A prompt is in no history and no other memory before its run ends, and in *)
(* no file before it is appended.                                            *)
Before == {"unsent", "claiming", "starting", "running"}

Unheard ==
  \A q \in Requests :
    /\ req[q].pc \in Before =>
         \A o \in DOMAIN object : \A a \in DOMAIN object[o].history : object[o].history[a] # q
    /\ req[q].pc \in Before \cup {"recording", "appending"} =>
         \A i \in Ids : \A k \in DOMAIN turns[i] : turns[i][k].prompt # q
    /\ req[q].pc \in Before =>
         \A p \in Requests : p # q => \A a \in DOMAIN req[p].memory : req[p].memory[a] # q

(* The memory of a run is the history, and its prompt. *)
BuildsOn ==
  \A q \in Requests : req[q].pc = "running" => req[q].memory = Append(Seeded(q), q)

(* The history of a run that is done ends with its prompt until it is recorded. *)
LastHeard ==
  \A q \in Requests : req[q].pc \in {"recording", "appending"} /\ req[q].end = "done" =>
    LET h == object[req[q].obj].history
    IN  Len(h) \in DOMAIN h /\ h[Len(h)] = q

StoryInvariant ==
  /\ Owned
  /\ Numbers
  /\ TurnsNumbered
  /\ AllDistinct
  /\ Unheard
  /\ BuildsOn
  /\ LastHeard
  /\ FileInHistory

LEMMA OneMore ==
  ASSUME NEW S, NEW s \in Seq(S), NEW e \in S
  PROVE  /\ Append(s, e) \in Seq(S)
         /\ Len(s) \in Nat /\ Len(Append(s, e)) = Len(s) + 1
         /\ DOMAIN s = 1..Len(s) /\ DOMAIN Append(s, e) = 1..(Len(s) + 1)
         /\ \A i \in DOMAIN s : Append(s, e)[i] = s[i]
         /\ Append(s, e)[Len(s) + 1] = e
BY AppendProperties, LenProperties

LEMMA StoryInvariantInit == Init => StoryInvariant
<1> SUFFICES ASSUME Init PROVE StoryInvariant
  OBVIOUS
<1>1. \A q \in Requests : req[q].pc = "unsent" /\ req[q].memory = <<>>
  BY DEF Init, Idle
<1>2. \A i \in Ids : live[i] = None /\ turns[i] = <<>>
  BY DEF Init
<1>3. DOMAIN <<>> = {} /\ object = <<>>
  BY EmptySeq DEF Init
<1>4. Owned /\ Numbers /\ TurnsNumbered /\ BuildsOn /\ LastHeard /\ FileInHistory
  BY <1>1, <1>2, <1>3 DEF Owned, Numbers, TurnsNumbered, BuildsOn, LastHeard, FileInHistory,
                          Working, Holding
<1>5. AllDistinct /\ Unheard
  BY <1>1, <1>2, <1>3 DEF AllDistinct, Unheard, Distinct
<1>6. QED
  BY <1>4, <1>5 DEF StoryInvariant

(* What the objects, files and sessions tell stays as it is. *)
SameStory ==
  /\ DOMAIN object' = DOMAIN object
  /\ \A o \in DOMAIN object : /\ object'[o].history = object[o].history
                              /\ object'[o].turn = object[o].turn
  /\ UNCHANGED <<turns, live, raced, unsaved>>

(* A request moves, outside its run and its append, and says nothing. *)
Quiet(q) ==
  /\ SameStory
  /\ \A p \in Requests : p # q => req'[p] = req[p]
  /\ req'[q].memory = <<>>
  /\ \/ req'[q].pc \in {"over", "releasing"} /\ req[q].pc # "appending"
     \/ req[q].pc = "claiming" /\ req'[q].pc = "starting"
     \/ req[q].pc \in Before /\ req'[q].pc = "recording" /\ req'[q].end # "done"
  /\ q \in Working' => q \in Working /\ req'[q].id = req[q].id /\ req'[q].obj = req[q].obj

LEMMA QuietKeeps ==
  ASSUME FlagInvariant, StoryInvariant, NEW q \in Requests, Quiet(q)
  PROVE  StoryInvariant'
<1> USE DEF StoryInvariant
<1>1. /\ DOMAIN object' = DOMAIN object
      /\ \A o \in DOMAIN object : /\ object'[o].history = object[o].history
                                  /\ object'[o].turn = object[o].turn
      /\ turns' = turns /\ live' = live /\ raced' = raced /\ unsaved' = unsaved
      /\ \A p \in Requests : p # q => req'[p] = req[p]
      /\ req'[q].memory = <<>> /\ DOMAIN <<>> = {}
      /\ req'[q].pc \notin {"running", "appending"} /\ req[q].pc # "appending"
      /\ req'[q].pc \in Before => req[q].pc \in Before
      /\ req'[q].pc = "recording" => req[q].pc \in Before /\ req'[q].end # "done"
  BY EmptySeq DEF Quiet, SameStory, Before
<1>2. \A p \in Requests : req[p].pc \in Holding => req[p].obj \in DOMAIN object
  BY DEF FlagInvariant, Linked, Working
<1>3. \A i \in Ids : live[i] # None => live[i] \in DOMAIN object
  BY DEF FlagInvariant, StateOK
<1>4. Owned'
  BY <1>1 DEF Owned, Quiet, Working
<1>5. Numbers'
  <2>1. \A i \in Ids : Appending(i)' <=> Appending(i)
    BY <1>1 DEF Appending
  <2>2. QED
    BY <1>1, <1>3, <2>1 DEF Numbers
<1>6. TurnsNumbered'
  BY <1>1 DEF TurnsNumbered
<1>7. AllDistinct'
  BY <1>1 DEF AllDistinct, Distinct
<1>8. Unheard'
  BY <1>1 DEF Unheard
<1>9. BuildsOn'
  <2> SUFFICES ASSUME NEW p \in Requests, req'[p].pc = "running"
               PROVE  req'[p].memory = Append(Seeded(p)', p)
    BY DEF BuildsOn
  <2>1. p # q /\ req'[p] = req[p] /\ req[p].obj \in DOMAIN object
    BY <1>1, <1>2 DEF Holding
  <2>2. Seeded(p)' = Seeded(p)
    BY <1>1, <2>1 DEF Seeded
  <2>3. QED
    BY <2>1, <2>2 DEF BuildsOn
<1>10. LastHeard'
  BY <1>1, <1>2 DEF LastHeard, Holding
<1>11. FileInHistory'
  BY <1>1, <1>3 DEF FileInHistory, Shown, Remembered, Live
<1>12. QED
  BY <1>4, <1>5, <1>6, <1>7, <1>8, <1>9, <1>10, <1>11

LEMMA QuietSteps ==
  ASSUME FlagInvariant, NEW q \in Requests,
         \/ Acquire(q) \/ Release(q) \/ BeginFails(q) \/ AgentPanics(q) \/ SkipRecord(q)
         \/ \E i \in Ids : /\ req[q].pc = "unsent" /\ Refuse(q)
                           /\ UNCHANGED <<store, turns, crashes, raced, unsaved>>
  PROVE  Quiet(q)
<1> USE DEF FlagInvariant
<1>0. /\ req[q].pc \in Holding \cup {"claiming"} => req[q].obj \in DOMAIN object
      /\ req[q].pc # "running" => req[q].memory = <<>>
  BY DEF Linked, Working
<1>00. SameStory \/ \E b \in BOOLEAN : object' = [object EXCEPT ![req[q].obj].busy = b]
  BY DEF Acquire, Release, BeginFails, AgentPanics, SkipRecord, Refuse, SameStory
<1>000. UNCHANGED <<turns, live, raced, unsaved>>
  BY DEF Acquire, Release, BeginFails, AgentPanics, SkipRecord, Refuse
<1>1. ASSUME NEW b \in BOOLEAN, req[q].pc \in Holding \cup {"claiming"},
             object' = [object EXCEPT ![req[q].obj].busy = b]
      PROVE  SameStory
  <2>1. PICK c \in ObjType :
          /\ Touched(req[q].obj, c)
          /\ c.turn = object[req[q].obj].turn /\ c.history = object[req[q].obj].history
    BY <1>0, <1>1, FlagSet
  <2>2. QED
    BY <1>000, <2>1 DEF SameStory, Touched
<1>2. ASSUME Leaves(q), SameStory, req[q].pc # "appending"
      PROVE  Quiet(q)
  BY <1>2 DEF Leaves, Turned, Quiet, Working, Holding
<1>3. CASE Acquire(q)
  <2>1. req[q].pc = "claiming"
    BY <1>3 DEF Acquire
  <2>2. CASE object[req[q].obj].busy
    <3>1. Leaves(q) /\ UNCHANGED object
      BY <1>3, <2>2, RequestLeaves DEF Acquire, Refuse
    <3>2. QED
      BY <1>000, <1>2, <2>1, <3>1 DEF SameStory
  <2>3. CASE ~object[req[q].obj].busy
    <3>1. /\ object' = [object EXCEPT ![req[q].obj].busy = TRUE]
          /\ req' = [req EXCEPT ![q].pc = "starting"]
      BY <1>3, <2>3 DEF Acquire
    <3>2. GoesOn(q, "starting") /\ req'[q].memory = <<>>
      BY <1>0, <2>1, <3>1, RequestMoves DEF Holding
    <3>3. QED
      BY <1>1, <2>1, <3>1, <3>2 DEF GoesOn, Turned, Quiet, Working
  <2>4. QED
    BY <2>2, <2>3
<1>4. CASE Release(q)
  <2>1. Leaves(q) /\ req[q].pc = "releasing"
    BY <1>4, RequestLeaves DEF Release
  <2>2. SameStory
    BY <1>1, <1>4, <2>1 DEF Release, Holding
  <2>3. QED
    BY <1>2, <2>1, <2>2
<1>5. CASE BeginFails(q) \/ AgentPanics(q)
  <2>1. /\ req[q].pc \in {"starting", "running"}
        /\ \E end \in {"failed", "silent"} : Finish(q, end)
        /\ UNCHANGED object
    BY <1>5 DEF BeginFails, AgentPanics
  <2>2. PICK end \in {"failed", "silent"} : Finish(q, end)
    BY <2>1
  <2>3. GoesOn(q, "recording") /\ req'[q].memory = <<>> /\ req'[q].end = end
    BY <2>2, RequestFinishes DEF Outcome
  <2>4. QED
    BY <1>000, <2>1, <2>2, <2>3
    DEF GoesOn, Turned, Quiet, Working, Holding, SameStory, Before
<1>6. CASE SkipRecord(q)
  <2>1. /\ req[q].pc = "recording" /\ UNCHANGED object
        /\ GoesOn(q, "releasing") /\ req'[q].memory = <<>>
    BY <1>0, <1>6, RequestMoves DEF SkipRecord, Holding
  <2>2. QED
    BY <1>000, <2>1 DEF GoesOn, Turned, Quiet, Working, Holding, SameStory
<1>7. CASE req[q].pc = "unsent" /\ Refuse(q)
  <2>1. Leaves(q) /\ UNCHANGED object
    BY <1>7, RequestLeaves DEF Refuse
  <2>2. QED
    BY <1>000, <1>2, <1>7, <2>1 DEF SameStory
<1>8. QED
  BY <1>3, <1>4, <1>5, <1>6, <1>7

(* A chat finds the live object of its session, or one restored from the file. *)
LEMMA FindsKeepsStory ==
  ASSUME FlagInvariant, StoryInvariant, NEW q \in Requests, NEW i \in Ids, NEW o \in Objects,
         Finds(q, i, o),
         \/ live[i] = o /\ object' = object
         \/ /\ live[i] = None /\ o \notin DOMAIN object
            /\ DOMAIN object' = DOMAIN object \cup {o} /\ object'[o] = Restore(i)
  PROVE  StoryInvariant'
<1> USE DEF StoryInvariant
<1>1. /\ req[q].pc = "unsent" /\ req[q].memory = <<>>
      /\ \A p \in Requests : p # q => req'[p] = req[p]
      /\ req'[q].pc = "claiming" /\ req'[q].id = i /\ req'[q].obj = o
      /\ req'[q].memory = <<>> /\ DOMAIN <<>> = {}
      /\ live'[i] = o /\ \A j \in Ids : j # i => live'[j] = live[j]
      /\ \A x \in DOMAIN object : object'[x] = object[x]
      /\ turns' = turns /\ raced' = raced /\ unsaved' = unsaved
      /\ o # None
  BY EmptySeq, ObjectsAreNumbered DEF Finds, Turned, FlagInvariant, Linked
<1>2. \A p \in Requests : p \in Working => req[p].obj \in DOMAIN object /\ req[p].id \in Ids
  BY DEF FlagInvariant, Linked
<1>3. /\ \A j \in Ids : live[j] # None => live[j] \in DOMAIN object
      /\ None \notin DOMAIN object
  BY ObjectsAreNumbered DEF FlagInvariant, StateOK
<1>4. \A p \in Requests : p # q => (p \in Working' <=> p \in Working)
  BY <1>1 DEF Working
<1>5. Owned'
  <2>1. ASSUME NEW j \in Ids, NEW p \in Requests, p \in Working', live'[j] = req'[p].obj
        PROVE  req'[p].id = j
    <3>1. CASE p = q
      BY <1>1, <1>3, <2>1, <3>1 DEF Owned
    <3>2. CASE p # q /\ j = i
      <4>1. p \in Working /\ req'[p] = req[p] /\ req[p].obj = o
        BY <1>1, <1>4, <2>1, <3>2
      <4>2. live[i] = o
        BY <1>2, <4>1
      <4>3. QED
        BY <3>2, <4>1, <4>2 DEF Owned
    <3>3. CASE p # q /\ j # i
      BY <1>1, <1>4, <2>1, <3>3 DEF Owned
    <3>4. QED
      BY <3>1, <3>2, <3>3
  <2>2. ASSUME NEW j \in Ids, NEW k \in Ids, live'[j] = live'[k], live'[j] # None
        PROVE  j = k
    BY <1>1, <1>3, <2>2 DEF Owned
  <2>3. QED
    BY <2>1, <2>2 DEF Owned, Working
<1>6. \A j \in Ids : Appending(j)' <=> Appending(j)
  BY <1>1 DEF Appending
<1>7. Numbers'
  <2> SUFFICES ASSUME NEW j \in Ids \ (raced \cup unsaved), live'[j] # None
               PROVE  /\ Appending(j) => object'[live'[j]].turn = Len(turns[j]) + 1
                      /\ ~Appending(j) => object'[live'[j]].turn = Len(turns[j])
    BY <1>1, <1>6 DEF Numbers
  <2>1. CASE j # i \/ live[i] = o
    <3>1. live'[j] = live[j] /\ live[j] \in DOMAIN object /\ object'[live[j]] = object[live[j]]
      BY <1>1, <1>3, <2>1
    <3>2. QED
      BY <1>3, <3>1 DEF Numbers
  <2>2. CASE j = i /\ live[i] = None
    <3>1. ~Appending(i)
      <4> SUFFICES ASSUME NEW p \in Requests, req[p].pc = "appending", req[p].id = i
                   PROVE  FALSE
        BY DEF Appending
      <4>1. p \in Working
        BY DEF Working, Holding
      <4>2. live[i] = req[p].obj
        BY <2>2, <4>1 DEF FlagInvariant, Current
      <4>3. QED
        BY <1>2, <1>3, <2>2, <4>1, <4>2
    <3>2. object'[live'[j]].turn = Len(turns[j])
      BY <1>1, <1>3, <2>2 DEF Restore
    <3>3. QED
      BY <2>2, <3>1, <3>2
  <2>3. QED
    BY <1>1, <2>1, <2>2
<1>8. TurnsNumbered'
  BY <1>1 DEF TurnsNumbered
<1>9. o \notin DOMAIN object => /\ DOMAIN object'[o].history = DOMAIN turns[i]
                                /\ \A k \in DOMAIN turns[i] :
                                     object'[o].history[k] = turns[i][k].prompt
  BY <1>1, <1>3 DEF Restore, Replayed
<1>10. \A x \in DOMAIN object' : x \in DOMAIN object \/ (x = o /\ o \notin DOMAIN object)
  OBVIOUS
<1>11. AllDistinct'
  <2>1. ASSUME NEW x \in DOMAIN object' PROVE Distinct(object'[x].history)
    BY <1>1, <1>9, <1>10 DEF AllDistinct, Distinct
  <2>2. \A p \in Requests : Distinct(req'[p].memory)
    BY <1>1 DEF AllDistinct, Distinct
  <2>3. QED
    BY <1>1, <2>1, <2>2 DEF AllDistinct, Distinct
<1>12. Unheard'
  <2> SUFFICES ASSUME NEW p \in Requests
               PROVE  /\ req'[p].pc \in Before =>
                           \A x \in DOMAIN object' : \A a \in DOMAIN object'[x].history :
                             object'[x].history[a] # p
                      /\ req'[p].pc \in Before \cup {"recording", "appending"} =>
                           \A j \in Ids : \A k \in DOMAIN turns[j] : turns[j][k].prompt # p
                      /\ req'[p].pc \in Before =>
                           \A r \in Requests : r # p =>
                             \A a \in DOMAIN req'[r].memory : req'[r].memory[a] # p
    BY <1>1 DEF Unheard
  <2>1. /\ req'[p].pc \in Before => req[p].pc \in Before
        /\ req'[p].pc \in {"recording", "appending"} => req[p].pc = req'[p].pc
    BY <1>1 DEF Before
  <2>2. req'[p].pc \in Before \cup {"recording", "appending"} =>
          \A j \in Ids : \A k \in DOMAIN turns[j] : turns[j][k].prompt # p
    BY <2>1 DEF Unheard
  <2>3. req'[p].pc \in Before =>
          \A x \in DOMAIN object' : \A a \in DOMAIN object'[x].history :
            object'[x].history[a] # p
    BY <1>1, <1>9, <1>10, <2>1, <2>2 DEF Unheard
  <2>4. req'[p].pc \in Before =>
          \A r \in Requests : r # p =>
            \A a \in DOMAIN req'[r].memory : req'[r].memory[a] # p
    BY <1>1, <2>1 DEF Unheard
  <2>5. QED
    BY <2>2, <2>3, <2>4
<1>13. BuildsOn'
  <2> SUFFICES ASSUME NEW p \in Requests, req'[p].pc = "running"
               PROVE  req'[p].memory = Append(Seeded(p)', p)
    BY DEF BuildsOn
  <2>1. p # q /\ req'[p] = req[p] /\ req[p].obj \in DOMAIN object
    BY <1>1, <1>2 DEF Holding, Working
  <2>2. Seeded(p)' = Seeded(p)
    BY <1>1, <2>1 DEF Seeded
  <2>3. QED
    BY <2>1, <2>2 DEF BuildsOn
<1>14. LastHeard'
  BY <1>1, <1>2 DEF LastHeard, Holding, Working
<1>15. FileInHistory'
  <2> SUFFICES ASSUME NEW j \in Ids \ raced, live'[j] # None
               PROVE  /\ \A a, b \in DOMAIN object'[live'[j]].history :
                           object'[live'[j]].history[a] = object'[live'[j]].history[b] => a = b
                      /\ \A k \in Shown(j) : \E a \in DOMAIN object'[live'[j]].history :
                           object'[live'[j]].history[a] = turns[j][k].prompt
                      /\ \A k, l \in Shown(j) : k < l =>
                           Remembered(object'[live'[j]].history, turns[j][k], turns[j][l])
    <3>1. turns' = turns /\ raced' = raced
      BY <1>1
    <3>2. QED
      BY <3>1 DEF FileInHistory, Live, Shown, Remembered
  <2>1. CASE j # i \/ live[i] = o
    <3>1. live'[j] = live[j] /\ live[j] \in DOMAIN object /\ object'[live[j]] = object[live[j]]
      BY <1>1, <1>3, <2>1
    <3>2. QED
      BY <1>3, <3>1 DEF FileInHistory, Live
  <2>2. CASE j = i /\ live[i] = None
    <3>1. live'[j] = o /\ o \notin DOMAIN object
      BY <1>1, <1>3, <2>2
    <3>2. /\ DOMAIN object'[o].history = DOMAIN turns[i]
          /\ \A k \in DOMAIN turns[i] : object'[o].history[k] = turns[i][k].prompt
      BY <1>9, <3>1
    <3>3. QED
      BY <2>2, <3>1, <3>2 DEF AllDistinct, Shown, Remembered
  <2>3. QED
    BY <1>1, <2>1, <2>2
<1>16. QED
  BY <1>5, <1>7, <1>8, <1>11, <1>12, <1>13, <1>14, <1>15

(* The run starts from what the session remembers. *)
LEMMA BeginKeepsStory ==
  ASSUME FlagInvariant, StoryInvariant, NEW q \in Requests, Begin(q)
  PROVE  StoryInvariant'
<1> USE DEF StoryInvariant
<1>0. StateOK /\ Linked
  BY DEF FlagInvariant
<1>1. /\ req[q].pc = "starting" /\ GoesOn(q, "running")
      /\ req'[q].memory = Append(Seeded(q), q)
      /\ Seeded(q) \in Seq(Messages)
      /\ UNCHANGED <<store, turns, live, object, crashes, raced, unsaved>>
  BY <1>0, RequestBegins
<1>2. /\ \A p \in Requests : p # q => req'[p] = req[p]
      /\ req'[q].pc = "running" /\ req'[q].id = req[q].id /\ req'[q].obj = req[q].obj
  BY <1>1 DEF GoesOn, Turned
<1>3. req[q].obj \in DOMAIN object
  BY <1>0, <1>1 DEF Linked, Working, Holding
<1>4. /\ Len(Seeded(q)) \in Nat /\ DOMAIN Seeded(q) = 1..Len(Seeded(q))
      /\ DOMAIN req'[q].memory = 1..(Len(Seeded(q)) + 1)
      /\ \A a \in DOMAIN Seeded(q) : req'[q].memory[a] = Seeded(q)[a]
      /\ req'[q].memory[Len(Seeded(q)) + 1] = q
  BY <1>1, OneMore DEF Messages
<1>5. \A p \in Requests : req[p].pc \in Before =>
        \A a \in DOMAIN Seeded(q) : Seeded(q)[a] # p
  <2>1. CASE object[req[q].obj].history = <<>>
    BY <2>1, SystemAssumption DEF Seeded
  <2>2. CASE object[req[q].obj].history # <<>>
    BY <1>3, <2>2 DEF Seeded, Unheard
  <2>3. QED
    BY <2>1, <2>2
<1>6. Distinct(Seeded(q))
  <2>1. CASE object[req[q].obj].history = <<>>
    BY <2>1 DEF Seeded, Distinct
  <2>2. CASE object[req[q].obj].history # <<>>
    BY <1>3, <2>2 DEF Seeded, AllDistinct
  <2>3. QED
    BY <2>1, <2>2
<1>7. Owned'
  BY <1>1, <1>2 DEF Owned, Working, Holding
<1>8. \A i \in Ids : Appending(i)' <=> Appending(i)
  BY <1>1, <1>2 DEF Appending
<1>9. Numbers' /\ TurnsNumbered'
  BY <1>1, <1>8 DEF Numbers, TurnsNumbered
<1>10. AllDistinct'
  <2>1. Distinct(req'[q].memory)
    <3>1. \A a \in DOMAIN Seeded(q) : Seeded(q)[a] # q
      BY <1>1, <1>5 DEF Before
    <3>2. \A a \in DOMAIN req'[q].memory : a \in DOMAIN Seeded(q) \/ a = Len(Seeded(q)) + 1
      BY <1>4
    <3>3. QED
      BY <1>4, <1>6, <3>1, <3>2 DEF Distinct
  <2>2. QED
    BY <1>1, <1>2, <2>1 DEF AllDistinct
<1>11. Unheard'
  <2>1. \A p \in Requests : p # q /\ req[p].pc \in Before =>
          \A a \in DOMAIN req'[q].memory : req'[q].memory[a] # p
    <3>1. \A a \in DOMAIN req'[q].memory : a \in DOMAIN Seeded(q) \/ a = Len(Seeded(q)) + 1
      BY <1>4
    <3>2. QED
      BY <1>4, <1>5, <3>1
  <2>2. \A p \in Requests : req'[p].pc \in Before <=> req[p].pc \in Before
    BY <1>1, <1>2 DEF Before
  <2>3. QED
    BY <1>1, <1>2, <2>1, <2>2 DEF Unheard
<1>12. BuildsOn'
  BY <1>1, <1>2 DEF BuildsOn, Seeded
<1>13. LastHeard'
  BY <1>1, <1>2 DEF LastHeard
<1>14. FileInHistory'
  <2>1. UNCHANGED <<object, live, raced, turns>>
    BY <1>1
  <2>2. QED
    BY <2>1 DEF FileInHistory, Shown, Remembered, Live
<1>15. QED
  BY <1>7, <1>9, <1>10, <1>11, <1>12, <1>13, <1>14

(* The run ends, and what it told becomes the history of its session. *)
LEMMA EndKeepsStory ==
  ASSUME FlagInvariant, StoryInvariant, NEW q \in Requests, NEW end \in Outcome, End(q, end)
  PROVE  StoryInvariant'
<1> USE DEF StoryInvariant
<1> DEFINE o == req[q].obj
<1> DEFINE m == req[q].memory
<1>0. StateOK /\ Linked /\ req[q].pc = "running"
  BY DEF FlagInvariant, End
<1>1. /\ UNCHANGED <<store, turns, live, crashes, raced, unsaved>>
      /\ object' = [object EXCEPT ![o].history = m]
  BY DEF End
<1>2. /\ \A p \in Requests : p # q => req'[p] = req[p]
      /\ req'[q].pc = "recording" /\ req'[q].id = req[q].id /\ req'[q].obj = o
      /\ req'[q].memory = <<>> /\ req'[q].end = end /\ DOMAIN <<>> = {}
  <2>1. GoesOn(q, "recording") /\ req'[q].memory = <<>> /\ req'[q].end = end
    BY <1>0, RequestFinishes DEF End
  <2>2. QED
    BY <2>1, EmptySeq DEF GoesOn, Turned
<1>3. /\ o \in DOMAIN object /\ req[q].id \in Ids /\ q \in Working
      /\ m \in Seq(Messages) /\ object[o].history \in Seq(Messages)
  <2>1. o \in DOMAIN object /\ req[q].id \in Ids /\ q \in Working
    BY <1>0 DEF Linked, Working, Holding
  <2>2. object[o] \in ObjType /\ req[q] \in ReqType
    BY <1>0, <2>1, ObjectsAreNumbered DEF StateOK
  <2>3. QED
    BY <2>1, <2>2 DEF ObjType, ReqType
<1>4. /\ DOMAIN object' = DOMAIN object
      /\ \A x \in DOMAIN object : x # o => object'[x] = object[x]
      /\ object'[o].history = m /\ object'[o].turn = object[o].turn
  <2>1. PICK c \in ObjType : Touched(o, c) /\ c.history = m /\ c.turn = object[o].turn
    <3>1. \E c \in ObjType : /\ Touched(o, c) /\ c.history = m
                             /\ c.busy = object[o].busy /\ c.turn = object[o].turn
      BY <1>0, <1>1, <1>3, HistorySet
    <3>2. QED
      BY <3>1
  <2>2. QED
    BY <2>1 DEF Touched
<1>5. m = Append(Seeded(q), q)
  BY <1>0 DEF BuildsOn
<1>6. /\ Seeded(q) \in Seq(Messages)
      /\ object[o].history = <<>> \/ Seeded(q) = object[o].history
  <2>1. <<System>> \in Seq(Messages)
    BY DEF Messages
  <2>2. QED
    BY <1>3, <2>1 DEF Seeded
<1>7. /\ Len(Seeded(q)) \in Nat /\ DOMAIN Seeded(q) = 1..Len(Seeded(q))
      /\ DOMAIN m = 1..(Len(Seeded(q)) + 1) /\ Len(m) = Len(Seeded(q)) + 1
      /\ \A a \in DOMAIN Seeded(q) : m[a] = Seeded(q)[a]
      /\ m[Len(Seeded(q)) + 1] = q
  BY <1>5, <1>6, OneMore DEF Messages
<1> HIDE DEF o, m
<1>8. \A a \in DOMAIN object[o].history : a \in DOMAIN m /\ m[a] = object[o].history[a]
  <2>1. CASE object[o].history = <<>>
    BY <2>1, EmptySeq
  <2>2. CASE Seeded(q) = object[o].history
    BY <1>7, <2>2
  <2>3. QED
    BY <1>6, <2>1, <2>2
<1>9. \A p \in Requests : p # q /\ req[p].pc \in Holding => req[p].obj # o
  BY <1>0 DEF FlagInvariant, Exclusive, o, Holding
<1>10. \A p \in Requests : req[p].pc \in Holding => req[p].obj \in DOMAIN object
  BY <1>0 DEF Linked, Working
<1>11. \A i \in Ids : live[i] # None => live[i] \in DOMAIN object
  BY <1>0 DEF StateOK
<1>12. Owned'
  BY <1>1, <1>2, <1>3 DEF Owned, Working, Holding, o
<1>13. Numbers' /\ TurnsNumbered'
  <2>1. \A i \in Ids : Appending(i)' <=> Appending(i)
    BY <1>0, <1>2 DEF Appending
  <2>2. \A x \in DOMAIN object : object'[x].turn = object[x].turn
    BY <1>4
  <2>3. QED
    BY <1>1, <1>11, <2>1, <2>2 DEF Numbers, TurnsNumbered
<1>14. AllDistinct'
  <2>1. Distinct(m)
    BY DEF AllDistinct, m
  <2>2. QED
    BY <1>1, <1>2, <1>4, <2>1 DEF AllDistinct, Distinct
<1>15. Unheard'
  <2>1. \A p \in Requests : req'[p].pc \in Before => p # q /\ req[p].pc \in Before
    BY <1>2 DEF Before
  <2>2. \A p \in Requests : p # q /\ req[p].pc \in Before =>
          \A a \in DOMAIN m : m[a] # p
    BY DEF Unheard, m
  <2>3. \A p \in Requests : req'[p].pc \in Before =>
          \A x \in DOMAIN object' : \A a \in DOMAIN object'[x].history :
            object'[x].history[a] # p
    BY <1>4, <2>1, <2>2 DEF Unheard
  <2>4. \A p \in Requests : req'[p].pc \in Before \cup {"recording", "appending"} =>
          \A j \in Ids : \A k \in DOMAIN turns[j] : turns[j][k].prompt # p
    BY <1>0, <1>2 DEF Unheard, Before
  <2>5. \A p \in Requests : req'[p].pc \in Before =>
          \A r \in Requests : r # p => \A a \in DOMAIN req'[r].memory : req'[r].memory[a] # p
    BY <1>2, <2>1 DEF Unheard
  <2>6. QED
    BY <1>1, <2>3, <2>4, <2>5 DEF Unheard
<1>16. BuildsOn'
  <2> SUFFICES ASSUME NEW p \in Requests, req'[p].pc = "running"
               PROVE  req'[p].memory = Append(Seeded(p)', p)
    BY DEF BuildsOn
  <2>1. p # q /\ req'[p] = req[p] /\ req[p].obj \in DOMAIN object /\ req[p].obj # o
    BY <1>2, <1>9, <1>10 DEF Holding
  <2>2. Seeded(p)' = Seeded(p)
    BY <1>4, <2>1 DEF Seeded
  <2>3. QED
    BY <2>1, <2>2 DEF BuildsOn
<1>17. LastHeard'
  <2> SUFFICES ASSUME NEW p \in Requests, req'[p].pc \in {"recording", "appending"},
                      req'[p].end = "done"
               PROVE  LET h == object'[req'[p].obj].history
                      IN  Len(h) \in DOMAIN h /\ h[Len(h)] = p
    BY DEF LastHeard
  <2>1. CASE p = q
    BY <1>2, <1>4, <1>7, <2>1
  <2>2. CASE p # q
    <3>1. req'[p] = req[p] /\ req[p].obj \in DOMAIN object /\ req[p].obj # o
      BY <1>2, <1>9, <1>10, <2>2 DEF Holding
    <3>2. QED
      BY <1>4, <3>1 DEF LastHeard
  <2>3. QED
    BY <2>1, <2>2
<1>18. FileInHistory'
  <2> SUFFICES ASSUME NEW j \in Ids \ raced, live[j] # None
               PROVE  /\ \A a, b \in DOMAIN object'[live[j]].history :
                           object'[live[j]].history[a] = object'[live[j]].history[b] => a = b
                      /\ \A k \in Shown(j) : \E a \in DOMAIN object'[live[j]].history :
                           object'[live[j]].history[a] = turns[j][k].prompt
                      /\ \A k, l \in Shown(j) : k < l =>
                           Remembered(object'[live[j]].history, turns[j][k], turns[j][l])
    BY <1>1 DEF FileInHistory, Live, Shown, Remembered
  <2>1. CASE live[j] # o
    BY <1>4, <1>11, <2>1 DEF FileInHistory, Live
  <2>2. CASE live[j] = o
    <3>1. Distinct(m)
      BY DEF AllDistinct, m
    <3>2. /\ \A k \in Shown(j) : \E a \in DOMAIN object[o].history :
               object[o].history[a] = turns[j][k].prompt
          /\ \A k, l \in Shown(j) : k < l =>
               Remembered(object[o].history, turns[j][k], turns[j][l])
      BY <2>2 DEF FileInHistory, Live
    <3>3. QED
      BY <1>4, <1>8, <2>2, <3>1, <3>2 DEF Distinct, Remembered
  <2>3. QED
    BY <2>1, <2>2
<1>19. QED
  BY <1>12, <1>13, <1>14, <1>15, <1>16, <1>17, <1>18

(* The turn takes its number. *)
LEMMA NumberKeepsStory ==
  ASSUME FlagInvariant, StoryInvariant, NEW q \in Requests, NumberTurn(q)
  PROVE  StoryInvariant'
<1> USE DEF StoryInvariant
<1> DEFINE o == req[q].obj
<1>0. StateOK /\ Linked /\ req[q].pc = "recording"
  BY DEF FlagInvariant, NumberTurn
<1>1. /\ UNCHANGED <<store, turns, live, crashes, raced, unsaved>>
      /\ object' = [object EXCEPT ![o].turn = @ + 1]
      /\ req' = [req EXCEPT ![q].pc = "appending"]
  BY DEF NumberTurn
<1>2. /\ \A p \in Requests : p # q => req'[p] = req[p]
      /\ req'[q].pc = "appending" /\ req'[q].id = req[q].id /\ req'[q].obj = o
      /\ req'[q].memory = req[q].memory /\ req'[q].end = req[q].end
  <2>1. /\ GoesOn(q, "appending")
        /\ req'[q].memory = req[q].memory /\ req'[q].end = req[q].end
    BY <1>0, <1>1, RequestMoves DEF Holding
  <2>2. QED
    BY <2>1 DEF GoesOn, Turned
<1>3. o \in DOMAIN object /\ req[q].id \in Ids /\ q \in Working
  BY <1>0 DEF Linked, Working, Holding
<1>4. /\ DOMAIN object' = DOMAIN object
      /\ \A x \in DOMAIN object : x # o => object'[x] = object[x]
      /\ object'[o].history = object[o].history /\ object'[o].turn = object[o].turn + 1
  <2>1. PICK c \in ObjType : /\ Touched(o, c) /\ c.turn = object[o].turn + 1
                             /\ c.history = object[o].history
    BY <1>0, <1>1, <1>3, TurnCounted
  <2>2. QED
    BY <2>1 DEF Touched
<1>5. \A x \in DOMAIN object : object'[x].history = object[x].history
  BY <1>4
<1>6. \A p \in Requests : req[p].pc \in Holding => req[p].obj \in DOMAIN object
  BY <1>0 DEF Linked, Working
<1>7. \A i \in Ids : live[i] # None => live[i] \in DOMAIN object
  BY <1>0 DEF StateOK
<1>8. Owned'
  BY <1>1, <1>2, <1>3 DEF Owned, Working, Holding
<1>9. Numbers'
  <2> SUFFICES ASSUME NEW i \in Ids \ (raced \cup unsaved), live[i] # None
               PROVE  /\ Appending(i)' => object'[live[i]].turn = Len(turns[i]) + 1
                      /\ ~Appending(i)' => object'[live[i]].turn = Len(turns[i])
    BY <1>1 DEF Numbers
  <2>1. CASE live[i] = o
    <3>1. req[q].id = i
      BY <1>3, <2>1 DEF Owned
    <3>2. Appending(i)'
      BY <1>2, <3>1 DEF Appending
    <3>3. ~Appending(i)
      <4> SUFFICES ASSUME NEW p \in Requests, req[p].pc = "appending", req[p].id = i
                   PROVE  FALSE
        BY DEF Appending
      <4>1. live[i] = req[p].obj
        BY DEF FlagInvariant, Current, Working, Holding
      <4>2. QED
        BY <1>0, <2>1, <4>1 DEF FlagInvariant, Exclusive, Holding
    <3>4. QED
      BY <1>4, <2>1, <3>2, <3>3 DEF Numbers
  <2>2. CASE live[i] # o
    <3>1. req[q].id # i
      BY <1>3, <2>2 DEF FlagInvariant, Current
    <3>2. Appending(i)' <=> Appending(i)
      BY <1>0, <1>2, <3>1 DEF Appending
    <3>3. object'[live[i]] = object[live[i]]
      BY <1>4, <1>7, <2>2
    <3>4. QED
      BY <3>2, <3>3 DEF Numbers
  <2>3. QED
    BY <2>1, <2>2
<1>10. TurnsNumbered'
  BY <1>1 DEF TurnsNumbered
<1>11. AllDistinct'
  <2>1. \A x \in DOMAIN object : Distinct(object'[x].history)
    BY <1>5 DEF AllDistinct
  <2>2. \A p \in Requests : Distinct(req'[p].memory)
    <3>1. \A p \in Requests : req'[p].memory = req[p].memory
      BY <1>2
    <3>2. QED
      BY <3>1 DEF AllDistinct
  <2>3. QED
    BY <1>1, <1>4, <2>1, <2>2 DEF AllDistinct
<1>12. Unheard'
  <2>0. Unheard
    OBVIOUS
  <2>1. \A p \in Requests : req'[p].memory = req[p].memory
    BY <1>2
  <2>2. \A p \in Requests :
          /\ req'[p].pc \in Before => req[p].pc \in Before
          /\ req'[p].pc \in Before \cup {"recording", "appending"} =>
               req[p].pc \in Before \cup {"recording", "appending"}
    BY <1>0, <1>2 DEF Before
  <2>3. ASSUME NEW p \in Requests, req'[p].pc \in Before
        PROVE  \A x \in DOMAIN object' : \A a \in DOMAIN object'[x].history : object'[x].history[a] # p
    <3>1. req[p].pc \in Before
      BY <2>2, <2>3
    <3>2. \A x \in DOMAIN object : \A a \in DOMAIN object[x].history : object[x].history[a] # p
      BY <2>0, <3>1, Zenon DEF Unheard
    <3>3. QED
      BY <1>4, <1>5, <3>2
  <2>4. ASSUME NEW p \in Requests, req'[p].pc \in Before \cup {"recording", "appending"}
        PROVE  \A i \in Ids : \A k \in DOMAIN turns'[i] : turns'[i][k].prompt # p
    <3>1. req[p].pc \in Before \cup {"recording", "appending"}
      BY <2>2, <2>4
    <3>2. \A i \in Ids : \A k \in DOMAIN turns[i] : turns[i][k].prompt # p
      BY <2>0, <3>1, Zenon DEF Unheard
    <3>3. QED
      BY <1>1, <3>2
  <2>5. ASSUME NEW p \in Requests, req'[p].pc \in Before
        PROVE  \A r \in Requests : r # p => \A a \in DOMAIN req'[r].memory : req'[r].memory[a] # p
    <3>1. req[p].pc \in Before
      BY <2>2, <2>5
    <3>2. \A r \in Requests : r # p => \A a \in DOMAIN req[r].memory : req[r].memory[a] # p
      BY <2>0, <3>1, Zenon DEF Unheard
    <3>3. QED
      BY <2>1, <3>2
  <2>6. QED
    BY <2>3, <2>4, <2>5, Zenon DEF Unheard
<1>13. BuildsOn'
  <2> SUFFICES ASSUME NEW p \in Requests, req'[p].pc = "running"
               PROVE  req'[p].memory = Append(Seeded(p)', p)
    BY DEF BuildsOn
  <2>1. p # q /\ req'[p] = req[p] /\ req[p].obj \in DOMAIN object
    BY <1>2, <1>6 DEF Holding
  <2>2. Seeded(p)' = Seeded(p)
    BY <1>5, <2>1 DEF Seeded
  <2>3. QED
    BY <2>1, <2>2 DEF BuildsOn
<1>14. LastHeard'
  BY <1>0, <1>2, <1>5, <1>6 DEF LastHeard, Holding
<1>15. FileInHistory'
  <2>1. \A j \in Ids \ raced : live[j] # None =>
          Told(object[live[j]].history, turns[j], Shown(j))
    BY Zenon DEF FileInHistory, Live, Told
  <2>2. \A j \in Ids \ raced : live[j] # None => object'[live[j]].history = object[live[j]].history
    BY <1>5, <1>7
  <2>3. /\ turns' = turns /\ live' = live /\ raced' = raced
        /\ \A j \in Ids : Shown(j)' = Shown(j)
    BY <1>1 DEF Shown
  <2>4. \A j \in Ids \ raced' : live'[j] # None =>
          Told(object'[live'[j]].history, turns'[j], Shown(j)')
    BY <2>1, <2>2, <2>3
  <2>5. QED
    BY <2>4, Zenon DEF FileInHistory, Live, Told
<1>16. QED
  BY <1>8, <1>9, <1>10, <1>11, <1>12, <1>13, <1>14, <1>15

(* The append ends, well or not: the request goes on to give the flag back. *)
Appends(q) ==
  /\ req[q].pc = "appending" /\ req[q].end \in {"done", "silent"}
  /\ \A p \in Requests : p # q => req'[p] = req[p]
  /\ req'[q].pc = "releasing" /\ req'[q].id = req[q].id /\ req'[q].obj = req[q].obj
  /\ req'[q].memory = req[q].memory
  /\ req[q].obj \in DOMAIN object /\ req[q].id \in Ids
  /\ UNCHANGED <<live, object, raced>>

LEMMA AppendMoves ==
  ASSUME FlagInvariant, NEW q \in Requests, AppendTurn(q)
  PROVE  Appends(q)
<1>1. StateOK /\ Linked /\ req[q].pc = "appending"
  BY DEF FlagInvariant, AppendTurn
<1>2. GoesOn(q, "releasing") /\ req'[q].memory = req[q].memory
  BY <1>1, RequestMoves DEF AppendTurn, Holding
<1>3. req[q].end \in {"done", "silent"} /\ req[q].obj \in DOMAIN object /\ req[q].id \in Ids
  BY <1>1 DEF Linked, Working, Holding
<1>4. QED
  BY <1>1, <1>2, <1>3 DEF GoesOn, Turned, Appends, AppendTurn

(* What an append leaves alone, whether or not the turn reaches the file. *)
LEMMA AppendKeepsRest ==
  ASSUME FlagInvariant, StoryInvariant, NEW q \in Requests, Appends(q)
  PROVE  /\ Owned' /\ BuildsOn' /\ LastHeard'
         /\ \A j \in Ids : j # req[q].id => (Appending(j)' <=> Appending(j))
         /\ \A j \in Ids \ raced : live[j] # None /\ j = req[q].id => ~Appending(j)'
<1> USE DEF StoryInvariant, Appends
<1>1. \A p \in Requests : req[p].pc \in Holding => req[p].obj \in DOMAIN object
  BY DEF FlagInvariant, Linked, Working
<1>2. Owned'
  BY DEF Owned, Working, Holding
<1>3. BuildsOn'
  <2> SUFFICES ASSUME NEW p \in Requests, req'[p].pc = "running"
               PROVE  req'[p].memory = Append(Seeded(p)', p)
    BY DEF BuildsOn
  <2>1. p # q /\ req'[p] = req[p] /\ object' = object
    OBVIOUS
  <2>2. Seeded(p)' = Seeded(p)
    BY <2>1 DEF Seeded
  <2>3. QED
    BY <2>1, <2>2 DEF BuildsOn
<1>4. LastHeard'
  BY DEF LastHeard
<1>5. \A j \in Ids : j # req[q].id => (Appending(j)' <=> Appending(j))
  BY DEF Appending
<1>6. ASSUME NEW j \in Ids \ raced, live[j] # None, j = req[q].id PROVE ~Appending(j)'
  <2> SUFFICES ASSUME NEW p \in Requests, req'[p].pc = "appending", req'[p].id = j
               PROVE  FALSE
    BY DEF Appending
  <2>1. p # q /\ req[p].pc = "appending" /\ req[p].id = j
    BY <1>6
  <2>2. live[j] = req[p].obj /\ live[j] = req[q].obj
    BY <1>6, <2>1 DEF FlagInvariant, Current, Working, Holding
  <2>3. QED
    BY <2>1, <2>2 DEF FlagInvariant, Exclusive, Holding
<1>7. QED
  BY <1>2, <1>3, <1>4, <1>5, <1>6

LEMMA AppendFailsKeepsStory ==
  ASSUME FlagInvariant, StoryInvariant, NEW q \in Requests, Appends(q),
         turns' = turns, unsaved' = unsaved \cup {req[q].id}
  PROVE  StoryInvariant'
<1> USE DEF StoryInvariant
<1>1. /\ \A p \in Requests : p # q => req'[p] = req[p]
      /\ req[q].pc = "appending"
      /\ req'[q].pc = "releasing" /\ req'[q].memory = req[q].memory
      /\ live' = live /\ object' = object /\ raced' = raced
  BY DEF Appends
<1>2. /\ Owned' /\ BuildsOn' /\ LastHeard'
      /\ \A j \in Ids : j # req[q].id => (Appending(j)' <=> Appending(j))
  BY AppendKeepsRest
<1>3. Numbers' /\ TurnsNumbered'
  BY <1>1, <1>2 DEF Numbers, TurnsNumbered
<1>4. AllDistinct'
  BY <1>1 DEF AllDistinct, Distinct
<1>5. Unheard'
  BY <1>1 DEF Unheard, Before
<1>6. FileInHistory'
  BY <1>1 DEF FileInHistory, Shown, Remembered, Live
<1>7. QED
  BY <1>2, <1>3, <1>4, <1>5, <1>6

LEMMA AppendKeepsStory ==
  ASSUME FlagInvariant, StoryInvariant, NEW q \in Requests, Appends(q), NEW t \in TurnType,
         NEW i \in Ids, i = req[q].id,
         t.turn = object[req[q].obj].turn, t.prompt = q, t.end = req[q].end,
         turns' = [turns EXCEPT ![i] = Append(turns[i], t)],
         unsaved' = unsaved
  PROVE  StoryInvariant'
<1> USE DEF StoryInvariant
<1> DEFINE n == Len(turns[i]) + 1
<1>1. /\ \A p \in Requests : p # q => req'[p] = req[p]
      /\ req[q].pc = "appending" /\ req[q].end \in {"done", "silent"}
      /\ req'[q].pc = "releasing" /\ req'[q].memory = req[q].memory
      /\ live' = live /\ object' = object /\ raced' = raced
      /\ q \in Working
  BY DEF Appends, Working, Holding
<1>2. /\ Owned' /\ BuildsOn' /\ LastHeard'
      /\ \A j \in Ids : j # i => (Appending(j)' <=> Appending(j))
      /\ \A j \in Ids \ raced : live[j] # None /\ j = i => ~Appending(j)'
  BY AppendKeepsRest
<1>3. /\ \A j \in Ids : j # i => turns'[j] = turns[j]
      /\ Len(turns[i]) \in Nat /\ Len(turns'[i]) = n
      /\ DOMAIN turns[i] = 1..Len(turns[i]) /\ DOMAIN turns'[i] = 1..n
      /\ \A k \in DOMAIN turns[i] : turns'[i][k] = turns[i][k]
      /\ turns'[i][n] = t
      /\ turns[i] \in Seq(TurnType)
  <2>1. turns[i] \in Seq(TurnType) /\ turns \in [Ids -> Seq(TurnType)]
    BY <1>1 DEF FlagInvariant, StateOK
  <2>2. turns'[i] = Append(turns[i], t) /\ \A j \in Ids : j # i => turns'[j] = turns[j]
    BY <1>1, <2>1
  <2>3. QED
    BY <2>1, <2>2, OneMore
<1> HIDE DEF n
<1>4. \A j \in Ids : j = i \/ j # i
  OBVIOUS
<1>5. \A k \in DOMAIN turns'[i] : (k \in DOMAIN turns[i] /\ k < n) \/ k = n
  BY <1>3 DEF n
<1>6. n \notin DOMAIN turns[i] /\ n \in DOMAIN turns'[i]
  BY <1>3 DEF n
<1>7. \A j \in Ids : \A k \in DOMAIN turns[j] : turns[j][k].prompt # q
  BY <1>1 DEF Unheard
<1>8. i \notin raced => live[i] = req[q].obj /\ live[i] # None
  BY <1>1, ObjectsAreNumbered DEF FlagInvariant, Current, Appends
<1>9. i \notin raced \cup unsaved => t.turn = n
  <2>1. Appending(i)
    BY <1>1 DEF Appending
  <2>2. QED
    BY <1>1, <1>8, <2>1 DEF Numbers, n
<1>10. Numbers'
  <2> SUFFICES ASSUME NEW j \in Ids \ (raced \cup unsaved), live[j] # None
               PROVE  /\ Appending(j)' => object[live[j]].turn = Len(turns'[j]) + 1
                      /\ ~Appending(j)' => object[live[j]].turn = Len(turns'[j])
    BY <1>1 DEF Numbers
  <2>1. CASE j = i
    <3>1. ~Appending(j)'
      BY <1>1, <1>2, <2>1
    <3>2. object[live[j]].turn = n /\ Len(turns'[j]) = n
      BY <1>3, <1>8, <1>9, <2>1
    <3>3. QED
      BY <3>1, <3>2
  <2>2. CASE j # i
    BY <1>2, <1>3, <2>2 DEF Numbers
  <2>3. QED
    BY <2>1, <2>2
<1>11. TurnsNumbered'
  <2> SUFFICES ASSUME NEW j \in Ids \ (raced \cup unsaved), NEW k \in DOMAIN turns'[j]
               PROVE  turns'[j][k].turn = k
    BY <1>1 DEF TurnsNumbered
  <2>1. CASE j = i /\ k = n
    BY <1>3, <1>9, <2>1
  <2>2. CASE j = i /\ k \in DOMAIN turns[i]
    BY <1>3, <2>2 DEF TurnsNumbered
  <2>3. CASE j # i
    BY <1>3, <2>3 DEF TurnsNumbered
  <2>4. QED
    BY <1>5, <2>1, <2>2, <2>3
<1>12. AllDistinct'
  <2>1. ASSUME NEW j \in Ids, NEW k \in DOMAIN turns'[j], NEW l \in DOMAIN turns'[j],
               turns'[j][k].prompt = turns'[j][l].prompt
        PROVE  k = l
    <3>1. CASE j # i
      BY <1>3, <2>1, <3>1 DEF AllDistinct
    <3>2. CASE j = i
      BY <1>1, <1>3, <1>5, <1>7, <2>1, <3>2 DEF AllDistinct
    <3>3. QED
      BY <3>1, <3>2
  <2>2. /\ \A o \in DOMAIN object' : Distinct(object'[o].history)
        /\ \A p \in Requests : Distinct(req'[p].memory)
    BY <1>1 DEF AllDistinct
  <2>3. QED
    BY <2>1, <2>2 DEF AllDistinct, Distinct
<1>13. Unheard'
  <2>1. \A p \in Requests : /\ req'[p].pc \in Before => req[p].pc \in Before
                            /\ req'[p].pc \in {"recording", "appending"} =>
                                 p # q /\ req'[p].pc = req[p].pc
                            /\ req'[p].pc \in Before => p # q
                            /\ req'[p].memory = req[p].memory
    BY <1>1 DEF Before
  <2>2. \A p \in Requests : p # q /\ req[p].pc \in Before \cup {"recording", "appending"} =>
          \A j \in Ids : \A k \in DOMAIN turns'[j] : turns'[j][k].prompt # p
    <3> SUFFICES ASSUME NEW p \in Requests, p # q,
                        req[p].pc \in Before \cup {"recording", "appending"},
                        NEW j \in Ids, NEW k \in DOMAIN turns'[j]
                 PROVE  turns'[j][k].prompt # p
      OBVIOUS
    <3>1. CASE j # i
      BY <1>3, <3>1 DEF Unheard
    <3>2. CASE j = i
      BY <1>1, <1>3, <1>5, <3>2 DEF Unheard
    <3>3. QED
      BY <3>1, <3>2
  <2>3. QED
    BY <1>1, <2>1, <2>2, SMTT(40) DEF Unheard
<1>14. FileInHistory'
  <2>1. ASSUME NEW j \in Ids \ raced, live[j] # None
        PROVE  Told(object[live[j]].history, turns'[j], Shown(j)')
    <3> SUFFICES
          /\ \A a, b \in DOMAIN object[live[j]].history :
               object[live[j]].history[a] = object[live[j]].history[b] => a = b
          /\ \A k \in Shown(j)' : \E a \in DOMAIN object[live[j]].history :
               object[live[j]].history[a] = turns'[j][k].prompt
          /\ \A k, l \in Shown(j)' : k < l =>
               Remembered(object[live[j]].history, turns'[j][k], turns'[j][l])
      BY Zenon DEF Told
    <3>0. /\ \A a, b \in DOMAIN object[live[j]].history :
               object[live[j]].history[a] = object[live[j]].history[b] => a = b
          /\ \A k \in Shown(j) : \E a \in DOMAIN object[live[j]].history :
               object[live[j]].history[a] = turns[j][k].prompt
          /\ \A k, l \in Shown(j) : k < l =>
               Remembered(object[live[j]].history, turns[j][k], turns[j][l])
      <4>1. FileInHistory
        OBVIOUS
      <4>2. Told(object[live[j]].history, turns[j], Shown(j))
        BY <2>1, <4>1, Zenon DEF FileInHistory, Live, Told
      <4>3. QED
        BY <4>2, Zenon DEF Told
    <3>1. CASE j # i
      <4>1. turns'[j] = turns[j] /\ Shown(j)' = Shown(j)
        BY <1>3, <3>1 DEF Shown
      <4>2. QED
        BY <3>0, <4>1
    <3>2. CASE j = i
      <4> DEFINE h == object[live[i]].history
      <4>1. ASSUME NEW k \in Shown(i)'
            PROVE  \/ /\ k \in Shown(i) /\ k < n /\ turns'[i][k] = turns[i][k]
                      /\ turns[i][k].prompt # q
                   \/ k = n /\ turns'[i][k].prompt = q /\ req[q].end = "done"
        <5>1. k \in DOMAIN turns'[i] /\ turns'[i][k].end # "silent"
          BY DEF Shown
        <5>2. CASE k = n
          BY <1>1, <1>3, <5>1, <5>2
        <5>3. CASE k \in DOMAIN turns[i] /\ k < n
          BY <1>3, <1>7, <5>1, <5>3 DEF Shown
        <5>4. QED
          BY <1>5, <5>1, <5>2, <5>3
      <4>2. req[q].end = "done" => Len(h) \in DOMAIN h /\ h[Len(h)] = q
        BY <1>1, <1>8, <3>2 DEF LastHeard
      <4>3. h \in Seq(Messages) /\ DOMAIN h = 1..Len(h) /\ Len(h) \in Nat
        <5>1. live[i] \in DOMAIN object
          BY <1>8, <3>2 DEF Appends
        <5>2. h \in Seq(Messages)
          BY <5>1, ObjectsAreNumbered DEF FlagInvariant, ObjType
        <5>3. QED
          BY <5>2, LenProperties
      <4> HIDE DEF h
      <4>4. /\ \A k \in Shown(i) : \E a \in DOMAIN h : h[a] = turns[i][k].prompt
            /\ \A k, l \in Shown(i) : k < l => Remembered(h, turns[i][k], turns[i][l])
            /\ \A a, b \in DOMAIN h : h[a] = h[b] => a = b
        <5>1. h = object[live[j]].history
          BY <3>2 DEF h
        <5>2. /\ \A k \in Shown(j) : \E a \in DOMAIN h : h[a] = turns[j][k].prompt
              /\ \A k, l \in Shown(j) : k < l => Remembered(h, turns[j][k], turns[j][l])
              /\ \A a, b \in DOMAIN h : h[a] = h[b] => a = b
          BY <3>0, <5>1
        <5>3. QED
          BY <3>2, <5>2
      <4>5. ASSUME NEW k \in Shown(j)' PROVE \E a \in DOMAIN h : h[a] = turns'[j][k].prompt
        <5>1. CASE k \in Shown(i) /\ turns'[i][k] = turns[i][k]
          <6>1. PICK a \in DOMAIN h : h[a] = turns[i][k].prompt
            BY <4>4, <5>1
          <6>2. QED
            BY <3>2, <5>1, <6>1
        <5>2. CASE turns'[i][k].prompt = q /\ req[q].end = "done"
          BY <3>2, <4>2, <5>2
        <5>3. QED
          BY <3>2, <4>1, <5>1, <5>2
      <4>6. ASSUME NEW k \in Shown(i)', NEW l \in Shown(i)', k < l
            PROVE  Remembered(h, turns'[i][k], turns'[i][l])
        <5>1. k \in DOMAIN turns'[i] /\ l \in DOMAIN turns'[i]
          BY DEF Shown
        <5>0. k # n
          BY <1>3, <1>5, <4>6, <5>1 DEF n
        <5>2. CASE l # n
          BY <4>1, <4>4, <4>6, <5>0, <5>2
        <5>3. CASE l = n
          <6>1. /\ k \in Shown(i) /\ turns'[i][k] = turns[i][k] /\ turns[i][k].prompt # q
                /\ turns'[i][l].prompt = q /\ req[q].end = "done"
            BY <4>1, <5>0, <5>3, <1>1, <1>3, <5>1, ZenonT(40) DEF Shown
          <6>2. PICK a \in DOMAIN h : h[a] = turns[i][k].prompt
            BY <4>4, <6>1
          <6>3. a < Len(h)
            BY <4>2, <4>3, <6>1, <6>2
          <6>4. QED
            BY <4>2, <6>1, <6>2, <6>3 DEF Remembered
        <5>4. QED
          BY <5>2, <5>3
      <4>7. \A k, l \in Shown(j)' : k < l => Remembered(h, turns'[j][k], turns'[j][l])
        BY <3>2, <4>6
      <4>8. h = object[live[j]].history
        BY <3>2 DEF h
      <4>9. QED
        BY <3>0, <4>5, <4>7, <4>8
    <3>3. QED
      BY <3>1, <3>2
  <2>2. object' = object /\ raced' = raced /\ live' = live
    BY <1>1
  <2>3. \A j \in Ids \ raced' : live'[j] # None =>
          Told(object'[live'[j]].history, turns'[j], Shown(j)')
    BY <2>1, <2>2
  <2>4. QED
    BY <2>3, Zenon DEF FileInHistory, Live, Told
<1>15. QED
  BY <1>2, <1>10, <1>11, <1>12, <1>13, <1>14

LEMMA DeleteKeepsStory ==
  ASSUME FlagInvariant, StoryInvariant, NEW i \in Ids, Delete(i)
  PROVE  StoryInvariant'
<1> USE DEF StoryInvariant
<1>1. /\ live \in [Ids -> Objects \cup {None}] /\ turns \in [Ids -> Seq(TurnType)]
      /\ DOMAIN <<>> = {}
      /\ \A q \in Requests : q \in Working => req[q].obj # None
  BY EmptySeq, ObjectsAreNumbered DEF FlagInvariant, StateOK, Linked
<1>2. /\ live'[i] = None /\ \A j \in Ids : j # i => live'[j] = live[j]
      /\ turns'[i] = <<>> /\ \A j \in Ids : j # i => turns'[j] = turns[j]
      /\ raced \subseteq raced'
      /\ object' = object /\ req' = req /\ unsaved' = unsaved
  BY <1>1 DEF Delete
<1>3. Owned'
  BY <1>1, <1>2 DEF Owned, Working
<1>4. \A j \in Ids : Appending(j)' <=> Appending(j)
  BY <1>2 DEF Appending
<1>5. Numbers'
  BY <1>2, <1>4 DEF Numbers
<1>6. TurnsNumbered'
  <2> SUFFICES ASSUME NEW j \in Ids \ (raced' \cup unsaved'), NEW k \in DOMAIN turns'[j]
               PROVE  turns'[j][k].turn = k
    BY DEF TurnsNumbered
  <2>1. j # i
    BY <1>1, <1>2
  <2>2. QED
    BY <1>2, <2>1 DEF TurnsNumbered
<1>7. AllDistinct'
  BY <1>1, <1>2 DEF AllDistinct, Distinct
<1>8. Unheard'
  BY <1>1, <1>2 DEF Unheard
<1>9. BuildsOn'
  BY <1>2 DEF BuildsOn, Seeded
<1>10. LastHeard'
  BY <1>2 DEF LastHeard
<1>11. FileInHistory'
  <2> SUFFICES ASSUME NEW j \in Ids \ raced', live'[j] # None
               PROVE  /\ \A a, b \in DOMAIN object[live[j]].history :
                           object[live[j]].history[a] = object[live[j]].history[b] => a = b
                      /\ \A k \in Shown(j) : \E a \in DOMAIN object[live[j]].history :
                           object[live[j]].history[a] = turns[j][k].prompt
                      /\ \A k, l \in Shown(j) : k < l =>
                           Remembered(object[live[j]].history, turns[j][k], turns[j][l])
    <3>1. /\ object' = object
          /\ \A j \in Ids : live'[j] # None => live'[j] = live[j] /\ turns'[j] = turns[j]
      BY <1>2
    <3>2. QED
      BY <3>1 DEF FileInHistory, Live, Shown, Remembered
  <2>1. j \in Ids \ raced /\ live[j] # None
    BY <1>2
  <2>2. QED
    BY <2>1 DEF FileInHistory, Live
<1>12. QED
  BY <1>3, <1>5, <1>6, <1>7, <1>8, <1>9, <1>10, <1>11

LEMMA CreateKeepsStory ==
  ASSUME StoryInvariant, UNCHANGED <<turns, live, object, req, raced, unsaved>>
  PROVE  StoryInvariant'
<1> USE DEF StoryInvariant
<1>1. Owned' /\ BuildsOn' /\ LastHeard'
  BY DEF Owned, BuildsOn, LastHeard, Seeded, Working
<1>2. Numbers' /\ TurnsNumbered'
  BY DEF Numbers, TurnsNumbered, Appending
<1>3. AllDistinct' /\ Unheard'
  BY DEF AllDistinct, Unheard, Distinct
<1>4. FileInHistory'
  BY DEF FileInHistory, Shown, Remembered, Live
<1>5. QED
  BY <1>1, <1>2, <1>3, <1>4

LEMMA CrashKeepsStory ==
  ASSUME FlagInvariant, StoryInvariant, Crash
  PROVE  StoryInvariant'
<1> USE DEF StoryInvariant
<1>1. /\ turns' = turns /\ raced' = raced /\ unsaved' = unsaved
      /\ \A i \in Ids : live'[i] = None
      /\ DOMAIN object' = DOMAIN object
      /\ \A o \in DOMAIN object : object'[o].history = object[o].history
      /\ \A q \in Requests :
           /\ req'[q].pc \in {"unsent", "over"} /\ req'[q].memory = <<>>
           /\ req'[q].pc = "unsent" => req[q].pc = "unsent"
      /\ DOMAIN <<>> = {}
  BY CrashEffect, EmptySeq
<1>2. Owned' /\ Numbers' /\ TurnsNumbered' /\ BuildsOn' /\ LastHeard' /\ FileInHistory'
  BY <1>1 DEF Owned, Numbers, TurnsNumbered, BuildsOn, LastHeard, FileInHistory, Working,
              Holding
<1>3. AllDistinct'
  BY <1>1 DEF AllDistinct, Distinct
<1>4. Unheard'
  BY <1>1 DEF Unheard, Before
<1>5. QED
  BY <1>2, <1>3, <1>4

LEMMA ClaimKeepsStory ==
  ASSUME FlagInvariant, StoryInvariant, NEW q \in Requests, NEW i \in Ids, Claim(q, i)
  PROVE  StoryInvariant'
<1>0. StateOK /\ req[q].pc = "unsent" /\ UNCHANGED <<store, turns, crashes, raced, unsaved>>
  BY DEF FlagInvariant, Claim
<1>1. CASE live[i] = None /\ store[i] # "present" /\ Refuse(q)
  BY <1>0, <1>1, QuietSteps, QuietKeeps
<1>2. CASE /\ live[i] # None
           /\ req' = [req EXCEPT ![q].pc = "claiming", ![q].id = i, ![q].obj = live[i]]
           /\ UNCHANGED <<live, object>>
  <2>1. PICK o \in Objects : o = live[i] /\ o \in DOMAIN object
    BY <1>0, <1>2, ObjectsAreNumbered DEF StateOK
  <2>2. /\ Turned(q)
        /\ req'[q].pc = "claiming" /\ req'[q].id = i /\ req'[q].obj = o
        /\ req'[q].memory = req[q].memory
    <3>1. req' = [req EXCEPT ![q].pc = "claiming", ![q].id = i, ![q].obj = o]
      BY <1>2, <2>1
    <3>2. QED
      BY <1>0, <3>1, RequestClaims
  <2>3. Finds(q, i, o)
    BY <1>0, <1>2, <2>1, <2>2 DEF Finds, StateOK
  <2>4. QED
    BY <1>2, <2>1, <2>3, FindsKeepsStory
<1>3. CASE /\ live[i] = None /\ store[i] = "present" /\ Len(object) < MaxLive
           /\ object' = Append(object, Restore(i))
           /\ live' = [live EXCEPT ![i] = Len(object) + 1]
           /\ req' = [req EXCEPT ![q].pc = "claiming", ![q].id = i,
                                 ![q].obj = Len(object) + 1]
  <2>1. /\ object' \in Seq(ObjType) /\ Len(object') = Len(object) + 1
        /\ DOMAIN object' = DOMAIN object \cup {Len(object) + 1}
        /\ \A o \in DOMAIN object : object'[o] = object[o]
        /\ object'[Len(object) + 1] = Restore(i)
        /\ Len(object) + 1 \in Objects /\ Len(object) + 1 \notin DOMAIN object
    BY <1>0, <1>3, ObjectRestored
  <2>2. PICK o \in Objects : o = Len(object) + 1
    BY <2>1
  <2>3. /\ Turned(q)
        /\ req'[q].pc = "claiming" /\ req'[q].id = i /\ req'[q].obj = o
        /\ req'[q].memory = req[q].memory
    <3>1. req' = [req EXCEPT ![q].pc = "claiming", ![q].id = i, ![q].obj = o]
      BY <1>3, <2>2
    <3>2. QED
      BY <1>0, <3>1, RequestClaims
  <2>4. Len(object') <= MaxLive
    BY <1>0, <1>3, <2>1, ObjectsAreNumbered, BoundsAssumption
  <2>5. live' \in [Ids -> Objects \cup {None}] /\ live'[i] = o
        /\ \A j \in Ids : j # i => live'[j] = live[j]
    BY <1>0, <1>3, <2>2 DEF StateOK
  <2>6. Finds(q, i, o)
    BY <1>0, <1>3, <2>1, <2>2, <2>3, <2>4, <2>5 DEF Finds
  <2>7. /\ o \notin DOMAIN object /\ DOMAIN object' = DOMAIN object \cup {o}
        /\ object'[o] = Restore(i)
    BY <2>1, <2>2
  <2>8. QED
    BY <1>3, <2>6, <2>7, FindsKeepsStory
<1>4. QED
  BY <1>1, <1>2, <1>3 DEF Claim

LEMMA AppendTurnKeepsStory ==
  ASSUME FlagInvariant, StoryInvariant, NEW q \in Requests, AppendTurn(q)
  PROVE  StoryInvariant'
<1>1. Appends(q)
  BY AppendMoves
<1>2. CASE turns' = turns /\ unsaved' = unsaved \cup {req[q].id}
  BY <1>1, <1>2, AppendFailsKeepsStory
<1>3. CASE /\ turns' = [turns EXCEPT ![req[q].id] =
                         Append(@, [turn |-> object[req[q].obj].turn, prompt |-> q,
                                    end |-> req[q].end])]
           /\ unsaved' = unsaved
  <2> DEFINE t == [turn |-> object[req[q].obj].turn, prompt |-> q, end |-> req[q].end]
  <2>1. t \in TurnType
    <3>1. object[req[q].obj].turn \in Nat
      BY <1>1, ObjectsAreNumbered DEF ObjType, FlagInvariant, Appends
    <3>2. QED
      BY <1>1, <3>1 DEF TurnType, Appends
  <2>2. /\ t.turn = object[req[q].obj].turn /\ t.prompt = q /\ t.end = req[q].end
        /\ turns' = [turns EXCEPT ![req[q].id] = Append(turns[req[q].id], t)]
    BY <1>3
  <2> HIDE DEF t
  <2>3. PICK i \in Ids : i = req[q].id
    BY <1>1 DEF Appends
  <2>4. QED
    BY <1>1, <1>3, <2>1, <2>2, <2>3, AppendKeepsStory
<1>4. QED
  BY <1>2, <1>3 DEF AppendTurn

LEMMA StoryInvariantStep ==
  FlagInvariant /\ StoryInvariant /\ [Next]_vars => StoryInvariant'
<1> SUFFICES ASSUME FlagInvariant, StoryInvariant, [Next]_vars PROVE StoryInvariant'
  OBVIOUS
<1>1. ASSUME NEW i \in Ids, Create(i) PROVE StoryInvariant'
  BY <1>1, CreateKeepsStory DEF Create
<1>2. ASSUME NEW i \in Ids, Delete(i) PROVE StoryInvariant'
  BY <1>2, DeleteKeepsStory
<1>3. ASSUME NEW i \in Ids, NEW q \in Requests, Claim(q, i) PROVE StoryInvariant'
  BY <1>3, ClaimKeepsStory
<1>4. ASSUME NEW q \in Requests,
             Acquire(q) \/ Release(q) \/ BeginFails(q) \/ AgentPanics(q) \/ SkipRecord(q)
      PROVE  StoryInvariant'
  BY <1>4, QuietSteps, QuietKeeps
<1>5. ASSUME NEW q \in Requests, Begin(q) PROVE StoryInvariant'
  BY <1>5, BeginKeepsStory
<1>6. ASSUME NEW q \in Requests, NEW end \in Outcome, End(q, end) PROVE StoryInvariant'
  BY <1>6, EndKeepsStory
<1>7. ASSUME NEW q \in Requests, NumberTurn(q) PROVE StoryInvariant'
  BY <1>7, NumberKeepsStory
<1>8. ASSUME NEW q \in Requests, AppendTurn(q) PROVE StoryInvariant'
  BY <1>8, AppendTurnKeepsStory
<1>9. CASE Crash
  BY <1>9, CrashKeepsStory
<1>10. CASE UNCHANGED vars
  BY <1>10, CreateKeepsStory DEF vars
<1>11. QED
  BY <1>1, <1>2, <1>3, <1>4, <1>5, <1>6, <1>7, <1>8, <1>9, <1>10 DEF Next, Task

(* Nothing is said twice in a memory, so neither is the system prompt. *)
LEMMA OneSystemPrompt == FlagInvariant /\ StoryInvariant => SystemAtMostOnce
<1> SUFFICES ASSUME FlagInvariant, StoryInvariant, NEW q \in Requests
             PROVE  SystemPrompts(q) <= 1
  BY DEF SystemAtMostOnce
<1> DEFINE places == {k \in DOMAIN req[q].memory : req[q].memory[k] = System}
<1>1. \A j, k \in places : j = k
  BY DEF StoryInvariant, AllDistinct, Distinct
<1>2. SystemPrompts(q) = Cardinality(places)
  BY DEF SystemPrompts
<1> HIDE DEF places
<1>3. CASE places = {}
  BY <1>2, <1>3, FS_EmptySet
<1>4. CASE places # {}
  <2>1. PICK k \in places : places = {k}
    BY <1>1, <1>4
  <2>2. Cardinality(places) = 1
    BY <2>1, FS_Singleton
  <2>3. QED
    BY <1>2, <2>2
<1>5. QED
  BY <1>3, <1>4

(* The file, the turn numbers and the agent's history tell one story, across *)
(* crashes, failed appends and the loss of a live session.                   *)
THEOREM HistoryAlwaysRestored == Spec => []HistoryRestored
<1>1. FlagInvariant /\ StoryInvariant => HistoryRestored
  BY OneSystemPrompt DEF HistoryRestored, StoryInvariant
<1>2. QED
  BY <1>1, FlagInvariantAlways, StoryInvariantInit, StoryInvariantStep, PTL DEF Spec

-----------------------------------------------------------------------------
(* The sessions of the terminal. *)

(* An event of a run on its way to the screen, a turn in some file, a run's *)
(* messages in the history, a question on its way.                          *)
Pending(e) == \E i \in DOMAIN inbox : inbox[i] = e
Comes(r) == Pending(<<"done", r>>) \/ Pending(<<"error", r>>) \/ Pending(<<"end", r>>)
FiledIn(r, s) == \E i \in DOMAIN files[s] : files[s][i].output = r
Filed(r) == \E s \in Sessions : FiledIn(r, s)
Held(r) == \E i \in DOMAIN history : history[i] = r
Waits(r) == \E i \in DOMAIN channel : channel[i] = r

(* Each event is on its way once, and the end of a run comes last. *)
InboxInOrder ==
    /\ \A i, j \in DOMAIN inbox : inbox[i] = inbox[j] => i = j
    /\ \A i, j \in DOMAIN inbox : inbox[i] = <<"end", inbox[j][2]>> => j =< i

(* The generation on the screen is that of the last run, or of none. *)
Generations ==
    /\ \A r \in Run : genOf[r] =< gen
    /\ \A r \in Run : r =< runs /\ genOf[r] = gen => r = runs
    /\ \A r \in Run : fate[r] = "cancelled" => genOf[r] < gen
    /\ \A r \in Run : r > runs => reader[r] = "none" /\ fate[r] = "plain"

(* What is on the screen is the last run, in the session it was begun in. *)
OnScreen ==
    /\ \A r \in Run : r = current =>
         /\ r = runs /\ genOf[r] = gen /\ fate[r] # "cancelled"
         /\ fate[r] = "plain" => lastPrompt = r
         /\ reader[r] = "over" => Pending(<<"end", r>>)
    /\ \A r \in Run : r = lastPrompt => r = runs /\ home[r] = session /\ fate[r] # "moved"
    /\ session =< used
    /\ \A s \in Sessions : s > used => files[s] = <<>>

(* A run says one thing and ends; where it has said it. *)
Said(r) ==
    /\ reader[r] \in {"none", "spawned"} => agent[r] = "none"
    /\ stream[r] # <<>> => reader[r] = "reading" /\ ~Filed(r) /\ ~Comes(r)
    /\ stream[r] \in {<<>>, <<"done">>, <<"error">>}
    /\ stream[r] = <<"done">> \/ Pending(<<"done", r>>) \/ Filed(r) => agent[r] \in {"succeeded", "completed"}
    /\ stream[r] = <<"error">> \/ Pending(<<"error", r>>) => agent[r] = "over"
    /\ Pending(<<"end", r>>) => reader[r] = "over" /\ agent[r] \in {"completed", "over"}
    /\ Filed(r) => ~Pending(<<"done", r>>)

(* A run that nobody cancelled is on the screen until it is over, and what *)
(* it says is filed unless it was left behind.                             *)
Followed(r) ==
    /\ r =< runs /\ r # current /\ fate[r] # "cancelled" =>
         reader[r] = "over" /\ agent[r] \in {"completed", "over"} /\ ~Comes(r)
    /\ r =< runs /\ fate[r] = "plain" /\ agent[r] \in {"succeeded", "completed"} =>
         \/ stream[r] = <<"done">> \/ Pending(<<"done", r>>)
         \/ \E s \in Sessions : s = home[r] /\ FiledIn(r, s)
         \/ r \in lost

Followers == \A r \in Run : Said(r) /\ Followed(r)

(* A question waits in one place, and so does who asked it. *)
Asking ==
    /\ \A i, j \in DOMAIN channel : channel[i] = channel[j] => i = j
    /\ \A i \in DOMAIN channel : channel[i] # modal
    /\ \A r \in Run : r = modal \/ Waits(r) =>
         agent[r] = "asking" /\ reply[r] = "none" /\ asked[r] > 0

(* Unless somebody cancelled or left behind has written it, the history is *)
(* what the run on the screen began with, and holds what is filed.         *)
HistoryHeld ==
    ~strayWrote =>
      /\ \A r \in Run, s \in Sessions : s = session /\ FiledIn(r, s) => Held(r) \/ agent[r] = "succeeded"
      /\ \A r \in Run : fate[r] = "plain" /\ agent[r] \in {"working", "asking", "succeeded", "failed"} =>
           seed[r] = history
      /\ \A r \in Run : r = current /\ fate[r] = "plain" /\ agent[r] = "completed" => Held(r)

SessionsInvariant ==
    /\ TuiTypeOK /\ InboxInOrder /\ Generations /\ OnScreen /\ Followers /\ Asking
    /\ HistoryHeld /\ FileIsTrue /\ UnseenBesideStray

-----------------------------------------------------------------------------
(* Sequences as the events and the questions use them.                     *)

LEMMA Appended ==
    ASSUME NEW S, NEW s \in Seq(S), NEW e \in S
    PROVE  /\ Append(s, e) \in Seq(S) /\ Append(s, e) # <<>>
           /\ DOMAIN Append(s, e) = DOMAIN s \cup {Len(s) + 1}
           /\ \A i \in DOMAIN s : Append(s, e)[i] = s[i] /\ i =< Len(s) /\ i \in Nat /\ i # Len(s) + 1
           /\ Append(s, e)[Len(s) + 1] = e
           /\ Len(s) \in Nat
BY AppendProperties, LenProperties

LEMMA Taken ==
    ASSUME NEW S, NEW s \in Seq(S), s # <<>>
    PROVE  /\ Tail(s) \in Seq(S) /\ Head(s) \in S /\ Head(s) = s[1] /\ 1 \in DOMAIN s
           /\ \A i \in DOMAIN Tail(s) : i + 1 \in DOMAIN s /\ Tail(s)[i] = s[i + 1] /\ i \in Nat /\ i >= 1
           /\ \A i \in DOMAIN s : i # 1 => i - 1 \in DOMAIN Tail(s) /\ Tail(s)[i - 1] = s[i] /\ i \in Nat
<1>1. /\ Tail(s) \in Seq(S) /\ Head(s) \in S /\ Head(s) = s[1] /\ Len(Tail(s)) = Len(s) - 1
      /\ \A i \in 1..Len(s) - 1 : Tail(s)[i] = s[i + 1]
  BY HeadTailProperties
<1>2. Len(s) \in Nat /\ DOMAIN s = 1..Len(s) /\ DOMAIN Tail(s) = 1..Len(s) - 1 /\ Len(s) # 0
  BY <1>1, LenProperties, EmptySeq
<1>3. QED
  BY <1>1, <1>2

Events == {"done", "error", "end"} \X Run

LEMMA EventIn ==
    ASSUME NEW e \in Events, inbox \in Seq(Events), inbox' = Append(inbox, e)
    PROVE  /\ inbox' \in Seq(Events)
           /\ \A x : Pending(x)' <=> Pending(x) \/ x = e
           /\ InboxInOrder /\ ~Pending(e) /\ ~Pending(<<"end", e[2]>>) => InboxInOrder'
<1> DEFINE n == Len(inbox) + 1
<1>1. /\ DOMAIN inbox' = DOMAIN inbox \cup {n} /\ inbox'[n] = e /\ inbox' \in Seq(Events)
      /\ \A i \in DOMAIN inbox : inbox'[i] = inbox[i] /\ i =< n /\ i \in Nat /\ i # n
      /\ n \in Nat
  BY Appended
<1> HIDE DEF n
<1>2. \A x : Pending(x)' <=> Pending(x) \/ x = e
  BY <1>1 DEF Pending
<1>3. ASSUME InboxInOrder, ~Pending(e), ~Pending(<<"end", e[2]>>)
      PROVE  InboxInOrder'
  <2>1. \A i \in DOMAIN inbox : inbox[i] # e /\ inbox[i] # <<"end", e[2]>>
    BY <1>3 DEF Pending
  <2>2. \A i, j \in DOMAIN inbox' : inbox'[i] = inbox'[j] => i = j
    BY <1>1, <1>3, <2>1 DEF InboxInOrder
  <2>3. \A i, j \in DOMAIN inbox' : inbox'[i] = <<"end", inbox'[j][2]>> => j =< i
    BY <1>1, <1>3, <2>1 DEF InboxInOrder
  <2>4. QED
    BY <2>2, <2>3 DEF InboxInOrder
<1>4. QED
  BY <1>1, <1>2, <1>3

LEMMA EventOut ==
    ASSUME inbox \in Seq(Events), inbox # <<>>, inbox' = Tail(inbox), InboxInOrder
    PROVE  /\ inbox' \in Seq(Events) /\ Head(inbox) \in Events /\ Pending(Head(inbox))
           /\ \A x : Pending(x)' <=> Pending(x) /\ x # Head(inbox)
           /\ \A r, what : Head(inbox) = <<"end", r>> => ~Pending(<<what, r>>)'
           /\ InboxInOrder'
<1>1. /\ inbox' \in Seq(Events) /\ Head(inbox) \in Events /\ Head(inbox) = inbox[1] /\ 1 \in DOMAIN inbox
      /\ \A i \in DOMAIN inbox' : i + 1 \in DOMAIN inbox /\ inbox'[i] = inbox[i + 1] /\ i \in Nat /\ i >= 1
      /\ \A i \in DOMAIN inbox : i # 1 => i - 1 \in DOMAIN inbox' /\ inbox'[i - 1] = inbox[i] /\ i \in Nat
  BY Taken
<1>2. \A x : Pending(x)' <=> Pending(x) /\ x # Head(inbox)
  <2>1. ASSUME NEW x, Pending(x)'
        PROVE  Pending(x) /\ x # Head(inbox)
    BY <1>1, <2>1 DEF Pending, InboxInOrder
  <2>2. ASSUME NEW x, Pending(x), x # Head(inbox)
        PROVE  Pending(x)'
    <3>1. PICK i \in DOMAIN inbox : inbox[i] = x
      BY <2>2 DEF Pending
    <3>2. i - 1 \in DOMAIN inbox' /\ inbox'[i - 1] = x
      BY <1>1, <2>2, <3>1
    <3>3. QED
      BY <3>2 DEF Pending
  <2>3. QED
    BY <2>1, <2>2
<1>3. ASSUME NEW r, NEW what, Head(inbox) = <<"end", r>>, Pending(<<what, r>>)'
      PROVE  FALSE
  <2>1. PICK i \in DOMAIN inbox' : inbox'[i] = <<what, r>>
    BY <1>3 DEF Pending
  <2>2. inbox[1] = <<"end", inbox[i + 1][2]>> /\ i + 1 \in DOMAIN inbox /\ i \in Nat /\ i >= 1
    BY <1>1, <1>3, <2>1
  <2>3. i + 1 =< 1
    BY <1>1, <2>2 DEF InboxInOrder
  <2>4. QED
    BY <2>2, <2>3
<1>4. InboxInOrder'
  <2>1. \A i, j \in DOMAIN inbox' : inbox'[i] = inbox'[j] => i = j
    BY <1>1 DEF InboxInOrder
  <2>2. ASSUME NEW i \in DOMAIN inbox', NEW j \in DOMAIN inbox', inbox'[i] = <<"end", inbox'[j][2]>>
        PROVE  j =< i
    <3>1. i + 1 \in DOMAIN inbox /\ j + 1 \in DOMAIN inbox /\ i \in Nat /\ j \in Nat
      BY <1>1
    <3>2. inbox[i + 1] = <<"end", inbox[j + 1][2]>>
      BY <1>1, <2>2
    <3>3. j + 1 =< i + 1
      BY <3>1, <3>2 DEF InboxInOrder
    <3>4. QED
      BY <3>1, <3>3
  <2>3. QED
    BY <2>1, <2>2 DEF InboxInOrder
<1>5. Pending(Head(inbox))
  BY <1>1 DEF Pending
<1>6. QED
  BY <1>1, <1>2, <1>3, <1>4, <1>5

-----------------------------------------------------------------------------
LEMMA RunsAreNumbers ==
    /\ MaxRuns \in Nat /\ MaxSessions \in Nat /\ MaxAsks \in Nat /\ 1 \in Run /\ 1 \in Sessions
    /\ Run \subseteq Nat /\ Sessions \subseteq Nat /\ NoRun \notin Run /\ NoRun \in Nat
BY TuiAssumption DEF Run, Sessions, NoRun

Turns == [prompt : Run, output : Run]

LEMMA TuiTypedInit == TuiInit => TuiTypeOK
<1> SUFFICES ASSUME TuiInit PROVE TuiTypeOK
  OBVIOUS
<1>1. \A S : <<>> \in Seq(S)
  BY EmptySeq
<1>2. /\ stream \in [Run -> Seq({"done", "error"})] /\ inbox \in Seq({"done", "error", "end"} \X Run)
      /\ seed \in [Run -> Seq(Run)] /\ history \in Seq(Run)
      /\ files \in [Sessions -> Seq([prompt : Run, output : Run])] /\ channel \in Seq(Run)
  BY <1>1 DEF TuiInit
<1>3. /\ gen \in Nat /\ genOf \in [Run -> Nat]
      /\ current = NoRun /\ lastPrompt = NoRun /\ modal = NoRun
      /\ session \in Sessions /\ used \in Sessions
      /\ home \in [Run -> Sessions]
  BY RunsAreNumbers DEF TuiInit
<1>8. runs \in 0..MaxRuns
  BY RunsAreNumbers DEF TuiInit
<1>9. /\ running \in BOOLEAN /\ strayWrote \in BOOLEAN /\ unseen \subseteq Run
      /\ broken \subseteq Sessions /\ lost \subseteq Run
  BY DEF TuiInit
<1>6. asked \in [Run -> 0..MaxAsks]
  BY RunsAreNumbers DEF TuiInit
<1>7. {current, lastPrompt, modal} \subseteq Run \cup {NoRun}
  BY <1>3
<1>4. running <=> current # NoRun
  BY DEF TuiInit
<1>5. QED
  BY <1>2, <1>3, <1>4, <1>6, <1>7, <1>8, <1>9 DEF TuiInit, TuiTypeOK

LEMMA TuiTypedStep ==
    ASSUME TuiTypeOK, TuiNext
    PROVE  TuiTypeOK'
<1> USE DEF screen, tasks, saved, stored, ask
<1>1. CASE Submit
  <2>1. runs + 1 \in Run /\ runs + 1 \in 0..MaxRuns /\ runs + 1 # NoRun /\ gen + 1 \in Nat
    <3>1. runs \in 0..MaxRuns /\ runs < MaxRuns /\ gen \in Nat /\ MaxRuns \in Nat /\ NoRun \notin Run
      BY <1>1, RunsAreNumbers DEF TuiTypeOK, Submit
    <3>2. QED
      BY <3>1 DEF Run
  <2>2. QED
    BY <1>1, <2>1, RunsAreNumbers DEF TuiTypeOK, Submit
<1>2. CASE Cancel
  <2>1. [stream EXCEPT ![current] = <<>>] \in [Run -> Seq({"done", "error"})]
    BY EmptySeq, RunsAreNumbers DEF TuiTypeOK
  <2>2. /\ current \in Run /\ gen' = gen + 1 /\ current' = NoRun /\ running' = FALSE
        /\ reader' = [reader EXCEPT ![current] = "over"] /\ fate' = [fate EXCEPT ![current] = "cancelled"]
        /\ stream' = [stream EXCEPT ![current] = <<>>]
    BY <1>2, RunsAreNumbers DEF TuiTypeOK, Cancel
  <2>3. stream' \in [Run -> Seq({"done", "error"})] /\ gen' \in Nat /\ (running' <=> current' # NoRun)
    BY <2>1, <2>2, RunsAreNumbers DEF TuiTypeOK
  <2>4. /\ reader' \in [Run -> {"none", "spawned", "reading", "over"}]
        /\ fate' \in [Run -> {"plain", "cancelled", "moved"}]
        /\ {current', lastPrompt', modal'} \subseteq Run \cup {NoRun} /\ running' \in BOOLEAN
    BY <1>2, <2>2 DEF TuiTypeOK, Cancel
  <2>5. UNCHANGED <<genOf, runs, home, inbox, agent, seed, history, saved, ask, strayWrote>>
    BY <1>2 DEF Cancel
  <2>6. QED
    BY <2>3, <2>4, <2>5 DEF TuiTypeOK
<1>3. CASE New
  <2>1. <<>> \in Seq(Run)
    BY EmptySeq, RunsAreNumbers DEF TuiTypeOK
  <2>2. used + 1 \in Sessions
    BY <1>3, RunsAreNumbers DEF TuiTypeOK, New, Sessions
  <2>3. QED
    BY <1>3, <2>1, <2>2, RunsAreNumbers DEF TuiTypeOK, New, Moved
<1>4. ASSUME NEW s \in Sessions, Resume(s)
      PROVE  TuiTypeOK'
  <2>1. history' \in Seq(Run)
    <3>1. files[s] \in Seq([prompt : Run, output : Run]) /\ history' = [i \in DOMAIN files[s] |-> files[s][i].prompt]
      BY <1>4, RunsAreNumbers DEF TuiTypeOK, Resume
    <3>2. Len(files[s]) \in Nat /\ DOMAIN files[s] = 1..Len(files[s])
      BY <3>1, LenProperties, RunsAreNumbers DEF TuiTypeOK
    <3>3. \A i \in 1..Len(files[s]) : files[s][i].prompt \in Run
      <4>1. \A i \in 1..Len(files[s]) : files[s][i] \in [prompt : Run, output : Run]
        BY <3>1, ElementOfSeq, RunsAreNumbers DEF TuiTypeOK
      <4>2. QED
        BY <4>1
    <3>4. QED
      BY <3>1, <3>2, <3>3, IsASeq
  <2>2. QED
    BY <1>4, <2>1, RunsAreNumbers DEF TuiTypeOK, Resume, Moved
<1>5. ASSUME NEW yes \in BOOLEAN, Answer(yes)
      PROVE  TuiTypeOK'
  BY <1>5, RunsAreNumbers DEF TuiTypeOK, Answer
<1>6. CASE TakeRequest
  <2>1. Head(channel) \in Run /\ Tail(channel) \in Seq(Run)
    BY <1>6, Taken, RunsAreNumbers DEF TuiTypeOK, TakeRequest
  <2>2. /\ channel' = Tail(channel) /\ modal' \in {modal, Head(channel)}
        /\ reply' \in {reply, [reply EXCEPT ![Head(channel)] = "no"]} /\ unseen' \in {unseen, unseen \cup {Head(channel)}}
    BY <1>6, RunsAreNumbers DEF TuiTypeOK, TakeRequest
  <2>3. /\ reply' \in [Run -> {"none", "yes", "no"}] /\ unseen' \subseteq Run /\ modal' \in Run \cup {NoRun}
        /\ channel' \in Seq(Run)
    BY <2>1, <2>2, RunsAreNumbers DEF TuiTypeOK
  <2>4. QED
    BY <1>6, <2>3, RunsAreNumbers DEF TuiTypeOK, TakeRequest
<1>7. CASE TakeEvent
  <2>1. Head(inbox) \in {"done", "error", "end"} \X Run /\ inbox' \in Seq({"done", "error", "end"} \X Run)
    BY <1>7, Taken, RunsAreNumbers DEF TuiTypeOK, TakeEvent
  <2>2. Head(inbox)[2] \in Run
    BY <2>1
  <2>3. files' \in [Sessions -> Seq([prompt : Run, output : Run])]
    <3>1. CASE files' = files
      BY <3>1, RunsAreNumbers DEF TuiTypeOK
    <3>2. CASE lastPrompt # NoRun
               /\ files' = [files EXCEPT ![session] = Append(@, [prompt |-> lastPrompt, output |-> Head(inbox)[2]])]
      <4>1. [prompt |-> lastPrompt, output |-> Head(inbox)[2]] \in [prompt : Run, output : Run]
        BY <2>2, <3>2, RunsAreNumbers DEF TuiTypeOK
      <4>2. files[session] \in Seq([prompt : Run, output : Run])
        BY RunsAreNumbers DEF TuiTypeOK
      <4>3. Append(files[session], [prompt |-> lastPrompt, output |-> Head(inbox)[2]]) \in Seq([prompt : Run, output : Run])
        BY <4>1, <4>2, AppendProperties, RunsAreNumbers DEF TuiTypeOK
      <4>4. QED
        BY <3>2, <4>3, RunsAreNumbers DEF TuiTypeOK
    <3>3. QED
      BY <1>7, <3>1, <3>2, RunsAreNumbers DEF TuiTypeOK, TakeEvent, Record
  <2>8. broken' \subseteq Sessions /\ lost' \subseteq Run
    <3>1. broken' \in {broken, broken \cup {session}} /\ lost' \in {lost, lost \cup {Head(inbox)[2]}}
      BY <1>7 DEF TakeEvent, Record
    <3>2. QED
      BY <2>2, <3>1 DEF TuiTypeOK
  <2>4. running' \in BOOLEAN /\ current' \in Run \cup {NoRun} /\ (running' <=> current' # NoRun)
    <3>1. (running' = running /\ current' = current) \/ (running' = FALSE /\ current' = NoRun)
      BY <1>7, RunsAreNumbers DEF TuiTypeOK, TakeEvent
    <3>2. current \in Run \cup {NoRun} /\ running \in BOOLEAN /\ (running <=> current # NoRun)
      BY DEF TuiTypeOK
    <3>3. CASE running' = running /\ current' = current
      BY <3>2, <3>3
    <3>4. CASE running' = FALSE /\ current' = NoRun
      BY <3>4
    <3>5. QED
      BY <3>1, <3>3, <3>4
  <2>5. UNCHANGED <<gen, genOf, runs, lastPrompt, home, tasks, agent, seed, history, session, used, ask,
                    fate, strayWrote>>
    BY <1>7 DEF TakeEvent
  <2>6. {current', lastPrompt', modal'} \subseteq Run \cup {NoRun}
    BY <2>4, <2>5 DEF TuiTypeOK
  <2>7. QED
    BY <2>1, <2>3, <2>4, <2>5, <2>6, <2>8 DEF TuiTypeOK
<1>8. ASSUME NEW r \in Run, Start(r)
      PROVE  TuiTypeOK'
  BY <1>8, RunsAreNumbers DEF TuiTypeOK, Start
<1>9. ASSUME NEW r \in Run, Forward(r)
      PROVE  TuiTypeOK'
  <2>1. Head(stream[r]) \in {"done", "error"} /\ Tail(stream[r]) \in Seq({"done", "error"})
    BY <1>9, Taken, RunsAreNumbers DEF TuiTypeOK, Forward
  <2>2. <<Head(stream[r]), r>> \in {"done", "error", "end"} \X Run
    BY <2>1
  <2>3. inbox' \in Seq({"done", "error", "end"} \X Run)
    BY <1>9, <2>2, AppendProperties, RunsAreNumbers DEF TuiTypeOK, Forward
  <2>4. QED
    BY <1>9, <2>1, <2>3, RunsAreNumbers DEF TuiTypeOK, Forward
<1>10. ASSUME NEW r \in Run, Close(r)
       PROVE  TuiTypeOK'
  <2>1. <<"end", r>> \in {"done", "error", "end"} \X Run
    BY RunsAreNumbers DEF TuiTypeOK
  <2>2. inbox' \in Seq({"done", "error", "end"} \X Run)
    BY <1>10, <2>1, AppendProperties, RunsAreNumbers DEF TuiTypeOK, Close
  <2>3. QED
    BY <1>10, <2>2, RunsAreNumbers DEF TuiTypeOK, Close
<1>11. \A r \in Run, ev \in {"done", "error"} : Append(stream[r], ev) \in Seq({"done", "error"})
  BY AppendProperties, RunsAreNumbers DEF TuiTypeOK
<1>12. ASSUME NEW r \in Run, Seed(r) \/ Ask(r) \/ Hear(r) \/ Fail(r) \/ Die(r)
       PROVE  TuiTypeOK'
  <2>1. Append(channel, r) \in Seq(Run)
    BY AppendProperties, RunsAreNumbers DEF TuiTypeOK
  <2>2. CASE Ask(r)
    <3>1. asked[r] \in 0..MaxAsks /\ asked[r] < MaxAsks
      BY <2>2, RunsAreNumbers DEF TuiTypeOK, Ask
    <3>2. asked[r] + 1 \in 0..MaxAsks
      BY <3>1, TuiAssumption
    <3>3. QED
      BY <2>1, <2>2, <3>2, RunsAreNumbers DEF TuiTypeOK, Ask
  <2>3. CASE Seed(r) \/ Hear(r) \/ Fail(r) \/ Die(r)
    <3>1. agent' \in [Run -> {"none", "begun", "working", "asking", "succeeded", "failed", "completed", "over"}]
      <4>1. \E to \in {"working", "failed", "over"} : agent' = [agent EXCEPT ![r] = to]
        BY <2>3 DEF Seed, Hear, Fail, Die
      <4>2. QED
        BY <4>1 DEF TuiTypeOK
    <3>2. seed' \in [Run -> Seq(Run)]
      BY <2>3 DEF TuiTypeOK, Seed, Hear, Fail, Die
    <3>3. UNCHANGED <<screen, tasks, inbox, history, saved, ask, fate, strayWrote>>
      BY <2>3 DEF Seed, Hear, Fail, Die
    <3>4. QED
      BY <3>1, <3>2, <3>3 DEF TuiTypeOK
  <2>4. QED
    BY <1>12, <2>2, <2>3
<1>13. ASSUME NEW r \in Run, Succeed(r)
       PROVE  TuiTypeOK'
  BY <1>11, <1>13, RunsAreNumbers DEF TuiTypeOK, Succeed, Emit
<1>14. ASSUME NEW r \in Run, WriteBack(r)
       PROVE  TuiTypeOK'
  <2>1. Append(seed[r], r) \in Seq(Run)
    BY AppendProperties, RunsAreNumbers DEF TuiTypeOK
  <2>2. stream' \in [Run -> Seq({"done", "error"})]
    <3>1. stream' = stream \/ stream' = [stream EXCEPT ![r] = Append(stream[r], "error")]
      BY <1>14 DEF WriteBack, Emit
    <3>2. Append(stream[r], "error") \in Seq({"done", "error"})
      BY <1>11
    <3>3. QED
      BY <3>1, <3>2 DEF TuiTypeOK
  <2>3. strayWrote' \in BOOLEAN
    BY <1>14, RunsAreNumbers DEF TuiTypeOK, WriteBack
  <2>4. QED
    BY <1>14, <2>1, <2>2, <2>3, RunsAreNumbers DEF TuiTypeOK, WriteBack
<1>15. QED
  BY <1>1, <1>2, <1>3, <1>4, <1>5, <1>6, <1>7, <1>8, <1>9, <1>10, <1>12, <1>13, <1>14
     DEF TuiNext, User, Loop, Reader, Agent

(* Who says something or may still say something is on the screen, or was   *)
(* cancelled.                                                               *)
LEMMA AtWork ==
    ASSUME TuiTypeOK, Generations, Followers, NEW r \in Run,
           \/ agent[r] \notin {"none", "completed", "over"}
           \/ reader[r] \in {"spawned", "reading"}
           \/ Comes(r) \/ stream[r] # <<>>
    PROVE  r =< runs /\ reader[r] # "none" /\ (r = current \/ fate[r] = "cancelled")
<1>1. Said(r) /\ Followed(r)
  BY DEF Followers
<1>2. reader[r] # "none"
  BY <1>1 DEF Said, Comes
<1>3. r =< runs
  <2>1. ~(r > runs)
    BY <1>2 DEF Generations
  <2>2. QED
    BY <2>1, RunsAreNumbers DEF TuiTypeOK
<1>4. ASSUME r # current, fate[r] # "cancelled"
      PROVE  FALSE
  BY <1>1, <1>3, <1>4 DEF Said, Followed
<1>5. QED
  BY <1>2, <1>3, <1>4

LEMMA Filing ==
    ASSUME TuiTypeOK, NEW e \in [prompt : Run, output : Run],
           files' = [files EXCEPT ![session] = Append(@, e)]
    PROVE  /\ \A r, s \in Nat : s \in Sessions => (FiledIn(r, s)' <=> FiledIn(r, s) \/ (r = e.output /\ s = session))
           /\ \A s \in Sessions : s # session => files'[s] = files[s]
           /\ DOMAIN files'[session] = DOMAIN files[session] \cup {Len(files[session]) + 1}
           /\ \A i \in DOMAIN files[session] : files'[session][i] = files[session][i] /\ i # Len(files[session]) + 1
           /\ files'[session][Len(files[session]) + 1] = e
<1>1. files[session] \in Seq([prompt : Run, output : Run]) /\ session \in Sessions /\ DOMAIN files = Sessions
  BY DEF TuiTypeOK
<1>2. \A s \in Sessions : files'[s] = IF s = session THEN Append(files[session], e) ELSE files[s]
  BY <1>1
<1>3. /\ DOMAIN files'[session] = DOMAIN files[session] \cup {Len(files[session]) + 1}
      /\ \A i \in DOMAIN files[session] : files'[session][i] = files[session][i] /\ i # Len(files[session]) + 1
      /\ files'[session][Len(files[session]) + 1] = e
  BY <1>1, <1>2, Appended
<1>4. ASSUME NEW r \in Nat, NEW s \in Sessions
      PROVE  FiledIn(r, s)' <=> FiledIn(r, s) \/ (r = e.output /\ s = session)
  <2>1. CASE s # session
    BY <1>2, <2>1 DEF FiledIn
  <2>2. CASE s = session
    BY <1>3, <2>2 DEF FiledIn
  <2>3. QED
    BY <2>1, <2>2
<1>5. QED
  BY <1>2, <1>3, <1>4

(* What an event does on its way into the screen's state: what it says is   *)
(* filed or lost, refused because it is a stray's, or ends the run.         *)
Displayed(what, r) ==
    /\ lost \subseteq lost'
    /\ \/ /\ what = "done" /\ r = runs /\ r = current /\ r = lastPrompt /\ fate[r] = "plain" /\ home[r] = session
          /\ \/ files' = [files EXCEPT ![session] = Append(@, [prompt |-> r, output |-> r])]
             \/ UNCHANGED files /\ r \in lost'
          /\ UNCHANGED <<running, current>>
       \/ what = "done" /\ fate[r] # "plain" /\ UNCHANGED <<files, running, current>>
       \/ what = "error" /\ UNCHANGED <<files, running, current>>
       \/ what = "end" /\ r = runs /\ running' = FALSE /\ current' = NoRun /\ UNCHANGED files
       \/ what = "end" /\ r # current /\ UNCHANGED <<files, running, current>>

LEMMA EventShown ==
    ASSUME TuiTypeOK, InboxInOrder, Generations, OnScreen, Followers, TakeEvent
    PROVE  /\ InboxInOrder'
           /\ \E what \in {"done", "error", "end"}, r \in Run :
                /\ Pending(<<what, r>>) /\ Comes(r) /\ Displayed(what, r)
                /\ \A x : Pending(x)' <=> Pending(x) /\ x # <<what, r>>
                /\ what = "end" => \A w : ~Pending(<<w, r>>)'
<1>1. inbox \in Seq(Events) /\ inbox # <<>> /\ inbox' = Tail(inbox)
  BY DEF TuiTypeOK, TakeEvent, Events
<1>2. /\ Head(inbox) \in Events /\ Pending(Head(inbox))
      /\ \A x : Pending(x)' <=> Pending(x) /\ x # Head(inbox)
      /\ \A r, what : Head(inbox) = <<"end", r>> => ~Pending(<<what, r>>)'
      /\ InboxInOrder'
  BY <1>1, EventOut
<1>3. PICK what \in {"done", "error", "end"}, r \in Run : Head(inbox) = <<what, r>>
  BY <1>2 DEF Events
<1>4. Comes(r)
  BY <1>2, <1>3 DEF Comes
<1>5. r =< runs /\ (r = current \/ fate[r] = "cancelled")
  BY <1>4, AtWork
<1>6. \/ what = "done" /\ Record(r) /\ UNCHANGED <<running, current>>
      \/ what = "error" /\ UNCHANGED <<running, current, stored>>
      \/ what = "end" /\ genOf[r] = gen /\ running' = FALSE /\ current' = NoRun /\ UNCHANGED stored
      \/ what = "end" /\ genOf[r] # gen /\ UNCHANGED <<running, current, stored>>
  BY <1>3 DEF TakeEvent, Accepts
<1>7. genOf[r] = gen => r = runs /\ fate[r] # "cancelled" /\ r = current
  <2>1. genOf[r] \in Nat /\ gen \in Nat
    BY DEF TuiTypeOK
  <2>2. QED
    BY <1>5, <2>1 DEF Generations
<1>8. r = current => genOf[r] = gen /\ (fate[r] = "plain" => lastPrompt = r)
  BY DEF OnScreen
<1>9. Displayed(what, r)
  <2>1. CASE what = "done" /\ Record(r) /\ UNCHANGED <<running, current>>
    <3>1. CASE genOf[r] = gen /\ lastPrompt # NoRun
      <4>1. lastPrompt \in Run
        BY <3>1 DEF TuiTypeOK
      <4>2. lastPrompt = runs /\ home[lastPrompt] = session /\ fate[lastPrompt] # "moved"
        BY <4>1 DEF OnScreen
      <4>3. fate[r] = "plain"
        BY <1>7, <3>1, <4>2 DEF TuiTypeOK
      <4>4. QED
        BY <1>7, <2>1, <3>1, <4>2, <4>3 DEF Displayed, Record, Accepts, stored
    <3>2. CASE genOf[r] # gen \/ lastPrompt = NoRun
      <4>1. fate[r] # "plain"
        BY <1>5, <1>8, <3>2, RunsAreNumbers
      <4>2. files' = files /\ lost' = lost
        BY <2>1, <3>2 DEF Record, Accepts, stored
      <4>3. QED
        BY <2>1, <4>1, <4>2 DEF Displayed
    <3>3. QED
      BY <3>1, <3>2
  <2>2. CASE what = "error" /\ UNCHANGED <<running, current, stored>>
    BY <2>2 DEF Displayed, stored
  <2>3. CASE what = "end" /\ genOf[r] = gen /\ running' = FALSE /\ current' = NoRun /\ UNCHANGED stored
    BY <1>7, <2>3 DEF Displayed, stored
  <2>4. CASE what = "end" /\ genOf[r] # gen /\ UNCHANGED <<running, current, stored>>
    BY <1>8, <2>4 DEF Displayed, stored
  <2>5. QED
    BY <1>6, <2>1, <2>2, <2>3, <2>4
<1>10. QED
  BY <1>2, <1>3, <1>4, <1>9
LEMMA PartsInit ==
    TuiInit => /\ InboxInOrder /\ Generations /\ OnScreen /\ Followers /\ Asking
               /\ HistoryHeld /\ FileIsTrue /\ UnseenBesideStray
<1> SUFFICES ASSUME TuiInit
             PROVE  /\ InboxInOrder /\ Generations /\ OnScreen /\ Followers /\ Asking
                    /\ HistoryHeld /\ FileIsTrue /\ UnseenBesideStray
  OBVIOUS
<1>1. /\ DOMAIN inbox = {} /\ DOMAIN history = {} /\ DOMAIN channel = {}
      /\ \A s \in Sessions : DOMAIN files[s] = {}
  BY EmptySeq DEF TuiInit
<1>2. InboxInOrder /\ Asking
  BY <1>1, RunsAreNumbers DEF TuiInit, InboxInOrder, Asking, Waits
<1>3. Generations
  BY RunsAreNumbers DEF TuiInit, Generations
<1>4. OnScreen
  BY RunsAreNumbers DEF TuiInit, OnScreen
<1>5. Followers
  <2>1. ASSUME NEW r \in Run
        PROVE  ~Comes(r) /\ ~Filed(r)
    BY <1>1 DEF Comes, Pending, Filed, FiledIn
  <2>2. ASSUME NEW r \in Run
        PROVE  Said(r) /\ Followed(r)
    <3>1. stream[r] = <<>> /\ agent[r] = "none" /\ ~(r =< runs)
      BY RunsAreNumbers DEF TuiInit, Run
    <3>2. QED
      BY <2>1, <3>1 DEF Said, Followed, Comes
  <2>3. QED
    BY <2>2 DEF Followers
<1>6. HistoryHeld
  BY <1>1 DEF TuiInit, HistoryHeld, FiledIn
<1>7. FileIsTrue /\ UnseenBesideStray
  BY <1>1 DEF TuiInit, FileIsTrue, UnseenBesideStray
<1>8. QED
  BY <1>2, <1>3, <1>4, <1>5, <1>6, <1>7

LEMMA InboxStep ==
    ASSUME TuiTypeOK, InboxInOrder, Generations, OnScreen, Followers, TuiNext
    PROVE  InboxInOrder'
<1>1. CASE UNCHANGED inbox
  BY <1>1 DEF InboxInOrder
<1>2. CASE TakeEvent
  BY <1>2, EventShown
<1>3. ASSUME NEW r \in Run, Forward(r)
      PROVE  InboxInOrder'
  <2>1. Said(r) /\ stream[r] # <<>> /\ inbox' = Append(inbox, <<Head(stream[r]), r>>)
    BY <1>3 DEF Followers, Forward
  <2>2. Head(stream[r]) \in {"done", "error"} /\ ~Comes(r)
    BY <2>1, Taken DEF TuiTypeOK, Said
  <2>3. QED
    BY <2>1, <2>2, EventIn DEF TuiTypeOK, Events, Comes
<1>4. ASSUME NEW r \in Run, Close(r)
      PROVE  InboxInOrder'
  <2>1. ~Pending(<<"end", r>>) /\ inbox' = Append(inbox, <<"end", r>>)
    BY <1>4 DEF Followers, Said, Close
  <2>2. QED
    BY <2>1, EventIn DEF TuiTypeOK, Events
<1>5. QED
  BY <1>1, <1>2, <1>3, <1>4
     DEF TuiNext, User, Loop, Reader, Agent, Submit, Cancel, New, Resume, Answer, TakeRequest,
         Start, Seed, Ask, Hear, Succeed, Fail, Die, WriteBack

LEMMA GenerationsStep ==
    ASSUME TuiTypeOK, Generations, OnScreen, Followers, TuiNext
    PROVE  Generations'
<1> USE DEF screen, tasks
<1>1. /\ gen \in Nat /\ runs \in Nat /\ \A r \in Run : genOf[r] \in Nat /\ r \in Nat
  BY RunsAreNumbers DEF TuiTypeOK
<1>2. CASE Submit
  <2>1. runs + 1 \in Run
    BY <1>2, RunsAreNumbers DEF TuiTypeOK, Submit, Run
  <2>2. /\ runs' = runs + 1 /\ gen' = gen + 1 /\ UNCHANGED fate
        /\ \A r \in Run : genOf'[r] = IF r = runs + 1 THEN gen + 1 ELSE genOf[r]
        /\ \A r \in Run : r # runs + 1 => reader'[r] = reader[r]
    BY <1>2, <2>1 DEF TuiTypeOK, Submit
  <2>3. \A r \in Run : r > runs => fate[r] = "plain"
    BY DEF Generations
  <2>4. \A r \in Run : genOf'[r] =< gen' /\ (genOf'[r] = gen' => r = runs')
    BY <1>1, <2>2 DEF Generations
  <2>5. \A r \in Run : fate'[r] = "cancelled" => genOf'[r] < gen'
    BY <1>1, <2>2, <2>3 DEF Generations
  <2>6. \A r \in Run : r > runs' => reader'[r] = "none" /\ fate'[r] = "plain"
    BY <1>1, <2>2 DEF Generations
  <2>7. QED
    BY <2>4, <2>5, <2>6 DEF Generations
<1>3. CASE Cancel
  <2>1. current \in Run /\ current = runs
    BY <1>3 DEF TuiTypeOK, Cancel, OnScreen
  <2>2. /\ gen' = gen + 1 /\ UNCHANGED <<genOf, runs>>
        /\ \A r \in Run : r # runs => reader'[r] = reader[r] /\ fate'[r] = fate[r]
    BY <1>3, <2>1 DEF TuiTypeOK, Cancel
  <2>3. \A r \in Run : genOf'[r] < gen'
    BY <1>1, <2>2 DEF Generations
  <2>4. QED
    BY <1>1, <2>2, <2>3 DEF Generations
<1>4. CASE New \/ \E s \in Sessions : Resume(s)
  <2>1. /\ UNCHANGED <<gen, genOf, runs, reader>>
        /\ \A r \in Run : fate'[r] = fate[r] \/ (fate'[r] = "moved" /\ r = current)
    BY <1>4 DEF TuiTypeOK, New, Resume, Moved
  <2>2. \A r \in Run : r = current => r = runs
    BY DEF OnScreen
  <2>3. \A r \in Run : r > runs => fate'[r] = fate[r]
    BY <1>1, <2>1, <2>2
  <2>4. \A r \in Run : fate'[r] = "cancelled" => fate[r] = "cancelled"
    BY <2>1
  <2>5. QED
    BY <2>1, <2>3, <2>4 DEF Generations
<1>5. ASSUME NEW r \in Run, Start(r) \/ Close(r)
      PROVE  Generations'
  <2>1. reader[r] # "none" /\ UNCHANGED <<gen, genOf, runs, fate>>
    BY <1>5 DEF Start, Close
  <2>2. \A q \in Run : q # r => reader'[q] = reader[q]
    BY <1>5 DEF Start, Close, TuiTypeOK
  <2>3. QED
    BY <2>1, <2>2 DEF Generations
<1>6. CASE UNCHANGED <<gen, genOf, runs, reader, fate>>
  BY <1>6 DEF Generations
<1>7. QED
  BY <1>2, <1>3, <1>4, <1>5, <1>6
     DEF TuiNext, User, Loop, Reader, Agent, Answer, TakeRequest, TakeEvent, Forward,
         Seed, Ask, Hear, Succeed, Fail, Die, WriteBack
(* What is on its way after a step of the loop, of a reader, of any other. *)
LEMMA EventsMove ==
    ASSUME TuiTypeOK, InboxInOrder, Generations, OnScreen, Followers, TuiNext
    PROVE  \/ TakeEvent
           \/ \E r \in Run : /\ Forward(r) /\ stream[r] \in {<<"done">>, <<"error">>}
                             /\ \A x : Pending(x)' <=> Pending(x) \/ x = <<Head(stream[r]), r>>
                             /\ stream' = [stream EXCEPT ![r] = <<>>]
           \/ \E r \in Run : Close(r) /\ \A x : Pending(x)' <=> Pending(x) \/ x = <<"end", r>>
           \/ UNCHANGED inbox /\ (\A x : Pending(x)' <=> Pending(x)) /\ \A r \in Run : ~Forward(r) /\ ~Close(r)
<1>1. ASSUME NEW r \in Run, Forward(r)
      PROVE  /\ stream[r] \in {<<"done">>, <<"error">>}
             /\ \A x : Pending(x)' <=> Pending(x) \/ x = <<Head(stream[r]), r>>
             /\ stream' = [stream EXCEPT ![r] = <<>>]
  <2>1. Said(r) /\ stream[r] # <<>> /\ inbox' = Append(inbox, <<Head(stream[r]), r>>)
        /\ stream' = [stream EXCEPT ![r] = Tail(stream[r])]
    BY <1>1 DEF Followers, Forward
  <2>2. stream[r] \in {<<"done">>, <<"error">>}
    BY <2>1 DEF Said
  <2>3. Head(stream[r]) \in {"done", "error"} /\ Tail(stream[r]) = <<>>
    <3>1. stream[r] \in Seq({"done", "error"}) /\ Len(stream[r]) = 1
      BY <2>2 DEF TuiTypeOK
    <3>2. /\ Head(stream[r]) \in {"done", "error"} /\ Tail(stream[r]) \in Seq({"done", "error"})
          /\ Len(Tail(stream[r])) = 0
      BY <2>1, <3>1, HeadTailProperties
    <3>3. QED
      BY <3>2, EmptySeq
  <2>4. \A x : Pending(x)' <=> Pending(x) \/ x = <<Head(stream[r]), r>>
    BY <2>1, <2>3, EventIn DEF TuiTypeOK, Events
  <2>5. QED
    BY <2>1, <2>2, <2>3, <2>4
<1>2. ASSUME NEW r \in Run, Close(r)
      PROVE  \A x : Pending(x)' <=> Pending(x) \/ x = <<"end", r>>
  <2>1. inbox' = Append(inbox, <<"end", r>>)
    BY <1>2 DEF Close
  <2>2. QED
    BY <2>1, EventIn DEF TuiTypeOK, Events
<1>3. ASSUME UNCHANGED inbox
      PROVE  \A x : Pending(x)' <=> Pending(x)
  BY <1>3 DEF Pending
<1>4. (\E r \in Run : Forward(r) \/ Close(r)) \/ TakeEvent \/ UNCHANGED inbox
  BY DEF TuiNext, User, Loop, Reader, Agent, Submit, Cancel, New, Resume, Answer, TakeRequest,
         Start, Seed, Ask, Hear, Succeed, Fail, Die, WriteBack
<1>5. CASE \E r \in Run : Forward(r) \/ Close(r)
  BY <1>1, <1>2, <1>5
<1>6. CASE ~(\E r \in Run : Forward(r) \/ Close(r)) /\ UNCHANGED inbox
  BY <1>3, <1>6
<1>7. QED
  BY <1>4, <1>5, <1>6

LEMMA OnScreenStep ==
    ASSUME TuiTypeOK, InboxInOrder, Generations, OnScreen, Followers, TuiNext
    PROVE  OnScreen'
<1> USE DEF screen, tasks, saved, stored
<1>1. /\ runs \in Nat /\ session \in Nat /\ used \in Nat /\ NoRun \notin Run
      /\ \A r \in Run : r \in Nat
  BY RunsAreNumbers DEF TuiTypeOK
<1>2. CASE Submit
  <2>1. runs + 1 \in Run
    BY <1>2, RunsAreNumbers DEF TuiTypeOK, Submit, Run
  <2>2. /\ runs' = runs + 1 /\ current' = runs + 1 /\ lastPrompt' = runs + 1 /\ gen' = gen + 1
        /\ genOf'[runs + 1] = gen + 1 /\ home'[runs + 1] = session /\ reader'[runs + 1] = "spawned"
        /\ UNCHANGED <<session, used, files, fate>>
    BY <1>2, <2>1 DEF TuiTypeOK, Submit
  <2>3. fate[runs + 1] = "plain"
    BY <1>1, <2>1 DEF Generations
  <2>4. QED
    BY <1>1, <2>2, <2>3 DEF OnScreen
<1>3. CASE Cancel
  <2>1. /\ current' = NoRun /\ UNCHANGED <<runs, lastPrompt, home, session, used, files>>
        /\ \A r \in Run : fate'[r] = "moved" => fate[r] = "moved"
    BY <1>3 DEF TuiTypeOK, Cancel
  <2>2. QED
    BY <1>1, <2>1 DEF OnScreen
<1>4. CASE New
  <2>1. /\ lastPrompt' = NoRun /\ session' = used + 1 /\ used' = used + 1
        /\ UNCHANGED <<runs, current, gen, genOf, reader, inbox, files>>
        /\ \A r \in Run : fate'[r] = IF r = current THEN "moved" ELSE fate[r]
    BY <1>1, <1>4 DEF TuiTypeOK, New, Moved
  <2>2. \A r \in Run : r = current' =>
         /\ r = runs' /\ genOf'[r] = gen' /\ fate'[r] = "moved"
         /\ reader'[r] = "over" => Pending(<<"end", r>>)'
    BY <2>1 DEF OnScreen, Pending
  <2>3. \A s \in Sessions : s > used' => files'[s] = <<>>
    <3>1. \A s \in Sessions : s > used + 1 => s > used
      BY <1>1, RunsAreNumbers
    <3>2. QED
      BY <2>1, <3>1 DEF OnScreen
  <2>4. QED
    BY <1>1, <2>1, <2>2, <2>3 DEF OnScreen
<1>5. ASSUME NEW s \in Sessions, Resume(s)
      PROVE  OnScreen'
  <2>1. /\ lastPrompt' = NoRun /\ session' = s /\ files[s] # <<>>
        /\ UNCHANGED <<runs, current, gen, genOf, reader, inbox, used, files>>
        /\ \A r \in Run : fate'[r] = IF r = current THEN "moved" ELSE fate[r]
    BY <1>1, <1>5 DEF TuiTypeOK, Resume, Moved
  <2>2. \A r \in Run : r = current' =>
         /\ r = runs' /\ genOf'[r] = gen' /\ fate'[r] = "moved"
         /\ reader'[r] = "over" => Pending(<<"end", r>>)'
    BY <2>1 DEF OnScreen, Pending
  <2>3. s \in Nat /\ ~(s > used)
    BY <2>1, RunsAreNumbers DEF OnScreen
  <2>4. QED
    BY <1>1, <2>1, <2>2, <2>3 DEF OnScreen
<1>6. CASE TakeEvent
  <2>1. PICK what \in {"done", "error", "end"}, r \in Run :
           /\ Displayed(what, r)
           /\ \A x : Pending(x)' <=> Pending(x) /\ x # <<what, r>>
    BY <1>6, EventShown
  <2>2. UNCHANGED <<gen, genOf, runs, lastPrompt, home, reader, session, used, fate>>
    BY <1>6 DEF TakeEvent
  <2>3. \A q \in Run : q = current' => q = current /\ (Pending(<<"end", q>>) => Pending(<<"end", q>>)')
    BY <1>1, <2>1 DEF Displayed
  <2>4. \A s \in Sessions : s > used => files'[s] = files[s]
    <3>1. CASE UNCHANGED files
      BY <3>1
    <3>2. CASE files' = [files EXCEPT ![session] = Append(@, [prompt |-> r, output |-> r])]
      BY <1>1, <3>2 DEF OnScreen, TuiTypeOK
    <3>3. QED
      BY <2>1, <3>1, <3>2 DEF Displayed
  <2>5. QED
    BY <2>2, <2>3, <2>4 DEF OnScreen
<1>7. ASSUME ~TakeEvent, UNCHANGED <<gen, genOf, runs, current, lastPrompt, home, session, used, files, fate>>
      PROVE  OnScreen'
  <2>1. \A x : Pending(x) => Pending(x)'
    BY <1>7, EventsMove
  <2>2. \A r \in Run : reader'[r] = "over" => reader[r] = "over" \/ r # current \/ Pending(<<"end", r>>)'
    <3>1. CASE \E r \in Run : Start(r)
      BY <3>1 DEF Start, TuiTypeOK
    <3>2. CASE \E r \in Run : Close(r)
      <4>1. PICK r \in Run : Close(r)
        BY <3>2
      <4>2. Pending(<<"end", r>>)'
        <5>1. inbox' = Append(inbox, <<"end", r>>)
          BY <4>1 DEF Close
        <5>2. QED
          BY <5>1, EventIn DEF TuiTypeOK, Events
      <4>3. \A q \in Run : q # r => reader'[q] = reader[q]
        BY <4>1 DEF Close, TuiTypeOK
      <4>4. QED
        BY <4>2, <4>3
    <3>3. CASE UNCHANGED reader
      BY <3>3
    <3>4. QED
      BY <1>7, <3>1, <3>2, <3>3, RunsAreNumbers DEF TuiNext, User, Loop, Reader, Agent, Submit, Cancel, New, Resume, Answer,
          TakeRequest, Forward, Seed, Ask, Hear, Succeed, Fail, Die, WriteBack
  <2>3. QED
    BY <1>7, <2>1, <2>2 DEF OnScreen
<1>8. QED
  BY <1>2, <1>3, <1>4, <1>5, <1>6, <1>7
     DEF TuiNext, User, Loop, Reader, Agent, Answer, TakeRequest, Start, Forward, Close,
         Seed, Ask, Hear, Succeed, Fail, Die, WriteBack
LEMMA FiledAsBefore ==
    ASSUME UNCHANGED files
    PROVE  /\ \A r, s : FiledIn(r, s)' <=> FiledIn(r, s)
           /\ \A r : Filed(r)' <=> Filed(r)
BY DEF FiledIn, Filed

LEMMA SaidStep ==
    ASSUME TuiTypeOK, InboxInOrder, Generations, OnScreen, Followers, TuiNext, NEW q \in Run
    PROVE  Said(q)'
<1> USE DEF screen, tasks, saved, stored
<1>1. Said(q) /\ Followed(q)
  BY DEF Followers
<1>2. ASSUME UNCHANGED inbox
      PROVE  /\ \A w : Pending(<<w, q>>)' <=> Pending(<<w, q>>)
             /\ Comes(q)' <=> Comes(q)
  BY <1>2 DEF Pending, Comes
<1>3. ASSUME agent[q] \notin {"none", "succeeded", "completed", "over"}
      PROVE  stream[q] = <<>> /\ ~Filed(q) /\ ~Comes(q) /\ reader[q] \notin {"none", "spawned"}
  BY <1>1, <1>3 DEF Said, Comes
<1>4. ASSUME UNCHANGED <<inbox, files>>, agent'[q] = agent[q], stream'[q] = stream[q], reader'[q] = reader[q]
      PROVE  Said(q)'
  BY <1>1, <1>2, <1>4, FiledAsBefore DEF Said
<1>5. CASE Submit
  <2>1. runs + 1 \in Run /\ UNCHANGED <<inbox, files, agent, stream>>
    BY <1>5, RunsAreNumbers DEF TuiTypeOK, Submit, Run
  <2>2. CASE q = runs + 1
    <3>1. q > runs
      BY <2>1, <2>2 DEF TuiTypeOK
    <3>2. reader[q] = "none" /\ reader'[q] = "spawned"
      BY <1>5, <2>1, <2>2, <3>1 DEF Generations, TuiTypeOK, Submit
    <3>3. QED
      BY <1>1, <1>2, <2>1, <3>2, FiledAsBefore DEF Said
  <2>3. CASE q # runs + 1
    <3>1. reader'[q] = reader[q]
      BY <1>5, <2>1, <2>3 DEF TuiTypeOK, Submit
    <3>2. QED
      BY <1>4, <2>1, <3>1
  <2>4. QED
    BY <2>2, <2>3
<1>6. CASE Cancel
  <2>1. UNCHANGED <<inbox, files, agent>>
    BY <1>6 DEF Cancel
  <2>2. CASE q = current
    <3>1. reader'[q] = "over" /\ stream'[q] = <<>>
      BY <1>6, <2>2 DEF Cancel, TuiTypeOK
    <3>2. QED
      BY <1>1, <1>2, <2>1, <3>1, FiledAsBefore DEF Said
  <2>3. CASE q # current
    <3>1. reader'[q] = reader[q] /\ stream'[q] = stream[q]
      BY <1>6, <2>3 DEF Cancel, TuiTypeOK
    <3>2. QED
      BY <1>4, <2>1, <3>1
  <2>4. QED
    BY <2>2, <2>3
<1>7. CASE TakeEvent
  <2>1. UNCHANGED <<agent, stream, reader>>
    BY <1>7 DEF TakeEvent
  <2>2. PICK what \in {"done", "error", "end"}, r \in Run :
           /\ Pending(<<what, r>>) /\ Comes(r) /\ Displayed(what, r)
           /\ \A x : Pending(x)' <=> Pending(x) /\ x # <<what, r>>
    BY <1>7, EventShown
  <2>3. \A w : Pending(<<w, q>>)' => Pending(<<w, q>>)
    BY <2>2
  <2>4. CASE UNCHANGED files
    BY <1>1, <2>1, <2>3, <2>4, FiledAsBefore DEF Said, Comes
  <2>5. CASE what = "done" /\ files' = [files EXCEPT ![session] = Append(@, [prompt |-> r, output |-> r])]
    <3>1. \A s \in Sessions : FiledIn(q, s)' <=> FiledIn(q, s) \/ (q = r /\ s = session)
      <4>1. [prompt |-> r, output |-> r] \in [prompt : Run, output : Run] /\ [prompt |-> r, output |-> r].output = r
        OBVIOUS
      <4>2. q \in Nat /\ Sessions \subseteq Nat
        BY RunsAreNumbers
      <4>3. QED
        BY <2>5, <4>1, <4>2, Filing
    <3>2. Filed(q)' => Filed(q) \/ q = r
      BY <3>1 DEF Filed
    <3>3. CASE q # r
      BY <1>1, <2>1, <2>3, <3>2, <3>3 DEF Said, Comes
    <3>4. CASE q = r
      <4>1. ~Pending(<<"done", q>>)'
        BY <2>2, <2>5, <3>4
      <4>2. stream[q] = <<>> /\ agent[q] \in {"succeeded", "completed"}
        BY <1>1, <2>2, <2>5, <3>4 DEF Said
      <4>3. QED
        BY <1>1, <2>1, <2>3, <4>1, <4>2 DEF Said, Comes
    <3>5. QED
      BY <3>3, <3>4
  <2>6. QED
    BY <2>2, <2>4, <2>5 DEF Displayed
<1>8. ASSUME NEW r \in Run, Forward(r), stream[r] \in {<<"done">>, <<"error">>},
             \A x : Pending(x)' <=> Pending(x) \/ x = <<Head(stream[r]), r>>, stream' = [stream EXCEPT ![r] = <<>>]
      PROVE  Said(q)'
  <2>1. UNCHANGED <<agent, reader, files>> /\ reader[r] = "reading"
    BY <1>8 DEF Forward
  <2>2. CASE q # r
    <3>1. stream'[q] = stream[q] /\ \A w : Pending(<<w, q>>)' <=> Pending(<<w, q>>)
      BY <1>8, <2>2 DEF TuiTypeOK
    <3>2. QED
      BY <1>1, <2>1, <3>1, FiledAsBefore DEF Said, Comes
  <2>3. CASE q = r
    <3>1. stream'[q] = <<>> /\ \A w : Pending(<<w, q>>)' <=> Pending(<<w, q>>) \/ w = Head(stream[q])
      BY <1>8, <2>3 DEF TuiTypeOK
    <3>2. ~Filed(q) /\ ~Comes(q)
      BY <1>1, <1>8, <2>3 DEF Said
    <3>3. CASE stream[q] = <<"done">>
      <4>1. Head(stream[q]) = "done"
        BY <3>3
      <4>2. QED
        BY <1>1, <2>1, <2>3, <3>1, <3>2, <3>3, <4>1, FiledAsBefore DEF Said, Comes
    <3>4. CASE stream[q] = <<"error">>
      <4>1. Head(stream[q]) = "error"
        BY <3>4
      <4>2. QED
        BY <1>1, <2>1, <2>3, <3>1, <3>2, <3>4, <4>1, FiledAsBefore DEF Said, Comes
    <3>5. QED
      BY <1>8, <2>3, <3>3, <3>4
  <2>4. QED
    BY <2>2, <2>3
<1>9. ASSUME NEW r \in Run, Close(r), \A x : Pending(x)' <=> Pending(x) \/ x = <<"end", r>>
      PROVE  Said(q)'
  <2>1. UNCHANGED <<agent, stream, files>> /\ stream[r] = <<>> /\ agent[r] \in {"completed", "over"}
    BY <1>9 DEF Close
  <2>2. CASE q # r
    <3>1. reader'[q] = reader[q] /\ \A w : Pending(<<w, q>>)' <=> Pending(<<w, q>>)
      BY <1>9, <2>2 DEF TuiTypeOK, Close
    <3>2. QED
      BY <1>1, <2>1, <3>1, FiledAsBefore DEF Said, Comes
  <2>3. CASE q = r
    <3>1. reader'[q] = "over" /\ \A w : Pending(<<w, q>>)' <=> Pending(<<w, q>>) \/ w = "end"
      BY <1>9, <2>3 DEF TuiTypeOK, Close
    <3>2. QED
      BY <1>1, <2>1, <2>3, <3>1, FiledAsBefore DEF Said, Comes
  <2>4. QED
    BY <2>2, <2>3
<1>10. ASSUME NEW r \in Run, Start(r)
       PROVE  Said(q)'
  <2>1. UNCHANGED <<inbox, stream, files>> /\ reader[r] = "spawned"
    BY <1>10 DEF Start
  <2>2. CASE q # r
    <3>1. reader'[q] = reader[q] /\ agent'[q] = agent[q]
      BY <1>10, <2>2 DEF TuiTypeOK, Start
    <3>2. QED
      BY <1>4, <2>1, <3>1
  <2>3. CASE q = r
    <3>1. agent[q] = "none" /\ reader'[q] = "reading"
      BY <1>1, <1>10, <2>1, <2>3 DEF Said, TuiTypeOK, Start
    <3>2. stream[q] = <<>> /\ ~Filed(q) /\ ~Comes(q)
      BY <1>1, <2>1, <2>3, <3>1 DEF Said, Comes
    <3>3. QED
      BY <1>2, <2>1, <3>1, <3>2, FiledAsBefore DEF Said, Comes
  <2>4. QED
    BY <2>2, <2>3
<1>11. ASSUME NEW r \in Run, Seed(r) \/ Ask(r) \/ Hear(r) \/ Fail(r) \/ Die(r) \/ Succeed(r) \/ WriteBack(r)
       PROVE  Said(q)'
  <2>1. UNCHANGED <<inbox, reader, files>> /\ agent[r] \notin {"none", "completed", "over"}
    BY <1>11 DEF Seed, Ask, Hear, Fail, Die, Succeed, WriteBack
  <2>2. CASE q # r
    <3>1. stream'[q] = stream[q] /\ agent'[q] = agent[q]
      BY <1>11, <2>2 DEF TuiTypeOK, Seed, Ask, Hear, Fail, Die, Succeed, WriteBack, Emit
    <3>2. QED
      BY <1>4, <2>1, <3>1
  <2>3. CASE q = r /\ agent[q] # "succeeded" /\ (Seed(r) \/ Ask(r) \/ Hear(r) \/ Fail(r) \/ Die(r))
    <3>1. stream[q] = <<>> /\ ~Filed(q) /\ ~Comes(q) /\ reader[q] \notin {"none", "spawned"}
      BY <1>3, <2>1, <2>3
    <3>2. stream' = stream
      BY <2>3 DEF Seed, Ask, Hear, Fail, Die
    <3>3. QED
      BY <1>2, <2>1, <3>1, <3>2, FiledAsBefore DEF Said, Comes
  <2>4. CASE q = r /\ Succeed(r)
    <3>1. stream[q] = <<>> /\ ~Filed(q) /\ ~Comes(q) /\ reader[q] \notin {"none", "spawned"}
      BY <1>3, <2>4 DEF Succeed
    <3>2. agent'[q] = "succeeded" /\ stream'[q] \in {<<>>, <<"done">>} /\ (stream'[q] # <<>> => reader[q] = "reading")
      BY <2>4, <3>1 DEF Succeed, TuiTypeOK, Emit
    <3>3. QED
      BY <1>2, <2>1, <3>1, <3>2, FiledAsBefore DEF Said, Comes
  <2>5. CASE q = r /\ WriteBack(r) /\ agent[r] = "failed"
    <3>1. stream[q] = <<>> /\ ~Filed(q) /\ ~Comes(q) /\ reader[q] \notin {"none", "spawned"}
      BY <1>3, <2>5
    <3>2. agent'[q] = "over" /\ stream'[q] \in {<<>>, <<"error">>} /\ (stream'[q] # <<>> => reader[q] = "reading")
      <4>1. agent'[q] = "over"
        BY <2>5 DEF WriteBack, TuiTypeOK
      <4>2. CASE UNCHANGED stream
        BY <3>1, <4>1, <4>2
      <4>3. CASE stream' = [stream EXCEPT ![r] = Append(@, "error")] /\ reader[r] = "reading"
        <5>1. stream'[q] = Append(<<>>, "error")
          BY <2>5, <3>1, <4>3 DEF TuiTypeOK
        <5>2. stream'[q] = <<"error">>
          BY <5>1
        <5>3. QED
          BY <2>5, <4>1, <4>3, <5>2
      <4>4. QED
        BY <2>5, <4>2, <4>3 DEF WriteBack, Emit
    <3>3. QED
      BY <1>2, <2>1, <3>1, <3>2, FiledAsBefore DEF Said, Comes
  <2>6. CASE q = r /\ WriteBack(r) /\ agent[r] = "succeeded"
    <3>1. agent'[q] = "completed" /\ stream' = stream
      BY <2>6 DEF WriteBack, TuiTypeOK
    <3>2. QED
      BY <1>1, <1>2, <2>1, <2>6, <3>1, FiledAsBefore DEF Said, Comes
  <2>7. agent[r] = "succeeded" => WriteBack(r)
    BY <1>11 DEF Seed, Ask, Hear, Fail, Die, Succeed
  <2>8. WriteBack(r) => agent[r] \in {"succeeded", "failed"}
    BY DEF WriteBack
  <2>9. QED
    BY <1>11, <2>2, <2>3, <2>4, <2>5, <2>6, <2>7, <2>8
<1>12. CASE New \/ (\E s \in Sessions : Resume(s)) \/ (\E yes \in BOOLEAN : Answer(yes)) \/ TakeRequest
  <2>1. UNCHANGED <<inbox, reader, files, agent, stream>>
    BY <1>12 DEF New, Resume, Answer, TakeRequest
  <2>2. QED
    BY <1>4, <2>1
<1>13. QED
  BY <1>5, <1>6, <1>7, <1>8, <1>9, <1>10, <1>11, <1>12, EventsMove
     DEF TuiNext, User, Loop, Reader, Agent
(* Files only grow, by the run whose answer is shown, unless it is lost. *)
LEMMA FilesGrow ==
    ASSUME TuiTypeOK, NEW r \in Run, NEW what, Displayed(what, r)
    PROVE  /\ \A q \in Run, s \in Sessions :
                FiledIn(q, s)' => FiledIn(q, s) \/ (q = r /\ s = session /\ what = "done" /\ fate[r] = "plain")
           /\ \A q \in Run, s \in Sessions : FiledIn(q, s) => FiledIn(q, s)'
           /\ what = "done" /\ fate[r] = "plain" => r = current /\ r = runs /\ r = lastPrompt /\ home[r] = session
           /\ what = "done" /\ fate[r] = "plain" =>
                r \in lost' \/ \A s \in Sessions : s = session => FiledIn(r, s)'
<1>1. CASE what = "done" /\ fate[r] = "plain"
           /\ files' = [files EXCEPT ![session] = Append(@, [prompt |-> r, output |-> r])]
  <2>2. [prompt |-> r, output |-> r] \in [prompt : Run, output : Run] /\ [prompt |-> r, output |-> r].output = r
    OBVIOUS
  <2>3. Run \subseteq Nat /\ Sessions \subseteq Nat
    BY RunsAreNumbers
  <2>4. \A q \in Run, s \in Sessions : FiledIn(q, s)' <=> FiledIn(q, s) \/ (q = r /\ s = session)
    BY <1>1, <2>2, <2>3, Filing
  <2>5. QED
    BY <1>1, <2>4 DEF Displayed
<1>2. CASE UNCHANGED files /\ (what = "done" /\ fate[r] = "plain" => r \in lost')
  BY <1>2, FiledAsBefore DEF Displayed
<1>3. QED
  BY <1>1, <1>2 DEF Displayed

LEMMA FollowedStep ==
    ASSUME TuiTypeOK, InboxInOrder, Generations, OnScreen, Followers, TuiNext, NEW q \in Run
    PROVE  Followed(q)'
<1> USE DEF screen, tasks, saved, stored
<1>1. Said(q) /\ Followed(q)
  BY DEF Followers
<1>2. runs \in Nat /\ q \in Nat /\ NoRun \notin Run /\ DOMAIN home = Run
  BY RunsAreNumbers DEF TuiTypeOK
<1>3. ASSUME UNCHANGED inbox
      PROVE  /\ \A w : Pending(<<w, q>>)' <=> Pending(<<w, q>>)
             /\ Comes(q)' <=> Comes(q)
  BY <1>3 DEF Pending, Comes
\* A step that leaves the run alone, unless it was cancelled or left behind.
<1>4. ASSUME UNCHANGED <<inbox, stored, runs, current>>, agent'[q] = agent[q], stream'[q] = stream[q],
             reader'[q] = reader[q], home'[q] = home[q], fate'[q] \in {fate[q], "moved"}, fate'[q] = fate[q] \/ q = current
      PROVE  Followed(q)'
  BY <1>1, <1>3, <1>4, FiledAsBefore DEF Followed
<1>5. CASE Submit
  <2>1. runs + 1 \in Run /\ UNCHANGED <<inbox, stored, agent, stream, fate>> /\ current = NoRun
    BY <1>5, RunsAreNumbers DEF TuiTypeOK, Submit, Run
  <2>2. runs' = runs + 1 /\ current' = runs + 1
    BY <1>5 DEF Submit
  <2>3. CASE q = runs + 1
    <3>1. reader[q] = "none"
      BY <1>2, <2>3 DEF Generations
    <3>2. agent'[q] = "none"
      BY <1>1, <2>1, <3>1 DEF Said
    <3>3. QED
      BY <2>2, <2>3, <3>2 DEF Followed
  <2>4. CASE q # runs + 1
    <3>1. reader'[q] = reader[q] /\ home'[q] = home[q]
      BY <1>5, <2>1, <2>4 DEF TuiTypeOK, Submit
    <3>2. q =< runs' => q =< runs
      BY <1>2, <2>2, <2>4
    <3>3. q # current
      BY <1>2, <2>1
    <3>4. QED
      BY <1>1, <1>3, <2>1, <2>2, <2>4, <3>1, <3>2, <3>3, FiledAsBefore DEF Followed
  <2>5. QED
    BY <2>3, <2>4
<1>6. CASE Cancel
  <2>1. UNCHANGED <<inbox, stored, agent, runs, home>>
    BY <1>6 DEF Cancel
  <2>2. CASE q = current
    <3>1. fate'[q] = "cancelled"
      BY <1>6, <2>2 DEF Cancel, TuiTypeOK
    <3>2. QED
      BY <3>1 DEF Followed
  <2>3. CASE q # current
    <3>1. reader'[q] = reader[q] /\ stream'[q] = stream[q] /\ fate'[q] = fate[q]
      BY <1>6, <2>3 DEF Cancel, TuiTypeOK
    <3>2. QED
      BY <1>1, <1>3, <2>1, <2>3, <3>1, FiledAsBefore DEF Followed
  <2>4. QED
    BY <2>2, <2>3
<1>7. CASE New \/ \E s \in Sessions : Resume(s)
  <2>1. /\ UNCHANGED <<inbox, stored, runs, current, agent, stream, reader, home>>
        /\ fate'[q] \in {fate[q], "moved"} /\ (fate'[q] = fate[q] \/ q = current)
    BY <1>7 DEF TuiTypeOK, New, Resume, Moved
  <2>2. QED
    BY <1>4, <2>1
<1>8. CASE TakeEvent
  <2>1. UNCHANGED <<agent, stream, reader, runs, home, fate>>
    BY <1>8 DEF TakeEvent
  <2>2. PICK what \in {"done", "error", "end"}, r \in Run :
           /\ Pending(<<what, r>>) /\ Comes(r) /\ Displayed(what, r)
           /\ \A x : Pending(x)' <=> Pending(x) /\ x # <<what, r>>
           /\ what = "end" => \A w : ~Pending(<<w, r>>)'
    BY <1>8, EventShown
  <2>3. /\ \A s \in Sessions : FiledIn(q, s) => FiledIn(q, s)'
        /\ what = "done" /\ fate[r] = "plain" => home[r] = session
        /\ what = "done" /\ fate[r] = "plain" =>
             r \in lost' \/ \A s \in Sessions : s = session => FiledIn(r, s)'
        /\ lost \subseteq lost'
    BY <2>2, FilesGrow DEF Displayed
  <2>4. q =< runs' /\ q # current' /\ fate'[q] # "cancelled" =>
          reader'[q] = "over" /\ agent'[q] \in {"completed", "over"} /\ ~Comes(q)'
    <3>1. CASE q # current
      BY <1>1, <2>1, <2>2, <3>1 DEF Followed, Comes
    <3>2. CASE q = current /\ current' = current
      BY <3>2
    <3>3. CASE q = current /\ current' # current
      <4>1. what = "end" /\ q = r
        BY <2>2, <3>3 DEF Displayed, OnScreen
      <4>2. reader[q] = "over" /\ agent[q] \in {"completed", "over"}
        BY <1>1, <2>2, <4>1 DEF Said
      <4>3. ~Comes(q)'
        BY <2>2, <4>1 DEF Comes
      <4>4. QED
        BY <2>1, <4>2, <4>3
    <3>4. QED
      BY <3>1, <3>2, <3>3
  <2>5. ASSUME q =< runs', fate'[q] = "plain", agent'[q] \in {"succeeded", "completed"}
        PROVE  \/ stream'[q] = <<"done">> \/ Pending(<<"done", q>>)'
               \/ \E s \in Sessions : s = home'[q] /\ FiledIn(q, s)'
               \/ q \in lost'
    <3>1. \/ stream[q] = <<"done">> \/ Pending(<<"done", q>>)
          \/ \E s \in Sessions : s = home[q] /\ FiledIn(q, s)
          \/ q \in lost
      BY <1>1, <2>1, <2>5 DEF Followed
    <3>2. CASE Pending(<<"done", q>>) /\ ~Pending(<<"done", q>>)'
      <4>1. what = "done" /\ r = q
        BY <2>2, <3>2
      <4>3. PICK s \in Sessions : s = session
        BY DEF TuiTypeOK
      <4>4. q \in lost' \/ (s = home'[q] /\ FiledIn(q, s)')
        BY <2>1, <2>3, <2>5, <4>1, <4>3
      <4>5. QED
        BY <4>4
    <3>3. QED
      BY <2>1, <2>3, <3>1, <3>2
  <2>6. QED
    BY <2>4, <2>5 DEF Followed
<1>9. ASSUME NEW r \in Run, Forward(r), stream[r] \in {<<"done">>, <<"error">>},
             \A x : Pending(x)' <=> Pending(x) \/ x = <<Head(stream[r]), r>>, stream' = [stream EXCEPT ![r] = <<>>]
      PROVE  Followed(q)'
  <2>1. UNCHANGED <<agent, reader, stored, home, fate, runs, current>> /\ reader[r] = "reading"
    BY <1>9 DEF Forward
  <2>2. CASE q # r
    <3>1. stream'[q] = stream[q] /\ \A w : Pending(<<w, q>>)' <=> Pending(<<w, q>>)
      BY <1>9, <2>2 DEF TuiTypeOK
    <3>2. QED
      BY <1>1, <2>1, <3>1, FiledAsBefore DEF Followed, Comes
  <2>3. CASE q = r
    <3>1. \A w : Pending(<<w, q>>)' <=> Pending(<<w, q>>) \/ w = Head(stream[q])
      BY <1>9, <2>3
    <3>2. stream[q] = <<"done">> => Pending(<<"done", q>>)'
      BY <3>1
    <3>3. QED
      BY <1>1, <2>1, <2>3, <3>1, <3>2, FiledAsBefore DEF Followed
  <2>4. QED
    BY <2>2, <2>3
<1>10. ASSUME NEW r \in Run, Close(r), \A x : Pending(x)' <=> Pending(x) \/ x = <<"end", r>>
       PROVE  Followed(q)'
  <2>1. UNCHANGED <<agent, stream, stored, home, fate, runs, current>> /\ reader[r] = "reading"
    BY <1>10 DEF Close
  <2>2. CASE q # r
    <3>1. reader'[q] = reader[q] /\ \A w : Pending(<<w, q>>)' <=> Pending(<<w, q>>)
      BY <1>10, <2>2 DEF TuiTypeOK, Close
    <3>2. QED
      BY <1>1, <2>1, <3>1, FiledAsBefore DEF Followed, Comes
  <2>3. CASE q = r
    <3>1. \A w : Pending(<<w, q>>)' <=> Pending(<<w, q>>) \/ w = "end"
      BY <1>10, <2>3
    <3>2. QED
      BY <1>1, <2>1, <2>3, <3>1, FiledAsBefore DEF Followed
  <2>4. QED
    BY <2>2, <2>3
<1>11. ASSUME NEW r \in Run, Start(r)
       PROVE  Followed(q)'
  <2>1. UNCHANGED <<inbox, stream, stored, home, fate, runs, current>> /\ reader[r] = "spawned"
    BY <1>11 DEF Start
  <2>2. CASE q # r
    <3>1. reader'[q] = reader[q] /\ agent'[q] = agent[q]
      BY <1>11, <2>2 DEF TuiTypeOK, Start
    <3>2. QED
      BY <1>4, <2>1, <3>1
  <2>3. CASE q = r
    <3>1. agent'[q] = "begun"
      BY <1>11, <2>3 DEF TuiTypeOK, Start
    <3>2. QED
      BY <1>1, <2>1, <2>3, <3>1 DEF Followed
  <2>4. QED
    BY <2>2, <2>3
<1>12. ASSUME NEW r \in Run, Seed(r) \/ Ask(r) \/ Hear(r) \/ Fail(r) \/ Die(r) \/ Succeed(r) \/ WriteBack(r)
       PROVE  Followed(q)'
  <2>1. /\ UNCHANGED <<inbox, reader, stored, home, fate, runs, current>>
        /\ agent[r] \notin {"none", "completed", "over"}
    BY <1>12 DEF Seed, Ask, Hear, Fail, Die, Succeed, WriteBack
  <2>2. CASE q # r
    <3>1. stream'[q] = stream[q] /\ agent'[q] = agent[q]
      BY <1>12, <2>2 DEF TuiTypeOK, Seed, Ask, Hear, Fail, Die, Succeed, WriteBack, Emit
    <3>2. QED
      BY <1>4, <2>1, <3>1
  <2>3. CASE q = r
    <3>1. q = current \/ fate[q] = "cancelled"
      BY <2>1, <2>3, AtWork
    <3>2. ASSUME fate[q] = "plain", agent'[q] \in {"succeeded", "completed"}
          PROVE  \/ stream'[q] = <<"done">> \/ Pending(<<"done", q>>)'
                 \/ \E s \in Sessions : s = home'[q] /\ FiledIn(q, s)'
               \/ q \in lost'
      <4>1. CASE Succeed(r)
        <5>1. agent[q] = "working" /\ stream[q] = <<>>
          BY <1>1, <2>3, <4>1 DEF Said, Succeed
        <5>2. reader[q] = "reading"
          <6>1. reader[q] # "over"
            BY <1>1, <3>1, <3>2, <5>1 DEF OnScreen, Said
          <6>2. QED
            BY <1>1, <5>1, <6>1 DEF Said, TuiTypeOK
        <5>3. stream'[q] = Append(<<>>, "done")
          BY <2>3, <4>1, <5>1, <5>2 DEF Succeed, Emit, TuiTypeOK
        <5>4. QED
          BY <5>3
      <4>2. CASE WriteBack(r)
        <5>1. agent[q] = "succeeded" /\ UNCHANGED stream
          BY <2>3, <3>2, <4>2 DEF WriteBack, TuiTypeOK
        <5>2. q =< runs
          BY <2>1, <2>3, AtWork
        <5>3. QED
          BY <1>1, <1>3, <2>1, <3>2, <5>1, <5>2, FiledAsBefore DEF Followed
      <4>3. QED
        BY <1>12, <2>3, <3>2, <4>1, <4>2 DEF Seed, Ask, Hear, Fail, Die, TuiTypeOK
    <3>3. QED
      BY <2>1, <3>1, <3>2 DEF Followed
  <2>4. QED
    BY <2>2, <2>3
<1>13. CASE (\E yes \in BOOLEAN : Answer(yes)) \/ TakeRequest
  <2>1. UNCHANGED <<inbox, reader, stored, agent, stream, home, fate, runs, current>>
    BY <1>13 DEF Answer, TakeRequest
  <2>2. QED
    BY <1>4, <2>1
<1>14. QED
  BY <1>5, <1>6, <1>7, <1>8, <1>9, <1>10, <1>11, <1>12, <1>13, EventsMove
     DEF TuiNext, User, Loop, Reader, Agent
LEMMA AskingStep ==
    ASSUME TuiTypeOK, Followers, Asking, TuiNext
    PROVE  Asking'
<1> USE DEF ask
<1>1. /\ channel \in Seq(Run) /\ modal \in Run \cup {NoRun} /\ NoRun \notin Run
      /\ \A r \in Run : asked[r] \in Nat
  <2>1. \A r \in Run : asked[r] \in 0..MaxAsks
    BY DEF TuiTypeOK
  <2>2. 0..MaxAsks \subseteq Nat
    BY RunsAreNumbers
  <2>3. QED
    BY <2>1, <2>2, RunsAreNumbers DEF TuiTypeOK
<1>2. ASSUME NEW yes \in BOOLEAN, Answer(yes)
      PROVE  Asking'
  <2>1. /\ UNCHANGED <<channel, asked, agent>> /\ modal' = NoRun /\ modal \in Run
        /\ \A r \in Run : r # modal => reply'[r] = reply[r]
    BY <1>1, <1>2 DEF Answer, TuiTypeOK
  <2>2. \A i \in DOMAIN channel : channel[i] # modal' /\ channel[i] # modal
    <3>1. \A i \in DOMAIN channel : channel[i] \in Run
      BY <1>1, ElementOfSeq, LenProperties
    <3>2. QED
      BY <1>1, <2>1, <3>1 DEF Asking
  <2>3. \A r \in Run : Waits(r)' => Waits(r) /\ r # modal
    BY <2>1, <2>2 DEF Waits
  <2>4. QED
    BY <1>1, <2>1, <2>2, <2>3 DEF Asking
<1>3. CASE TakeRequest
  <2>1. /\ channel # <<>> /\ channel' = Tail(channel) /\ Head(channel) \in Run /\ UNCHANGED <<asked, agent>>
        /\ Head(channel) = channel[1] /\ 1 \in DOMAIN channel
        /\ \A i \in DOMAIN channel' : i + 1 \in DOMAIN channel /\ channel'[i] = channel[i + 1] /\ i \in Nat /\ i >= 1
    BY <1>1, <1>3, Taken DEF TakeRequest
  <2>2. \A i, j \in DOMAIN channel' : channel'[i] = channel'[j] => i = j
    <3>1. ASSUME NEW i \in DOMAIN channel', NEW j \in DOMAIN channel', channel'[i] = channel'[j]
          PROVE  i = j
      <4>1. i + 1 = j + 1
        BY <2>1, <3>1 DEF Asking
      <4>2. QED
        BY <2>1, <4>1
    <3>2. QED
      BY <3>1
  <2>3. \A i \in DOMAIN channel' : channel'[i] # Head(channel) /\ channel'[i] # modal
    <3>1. ASSUME NEW i \in DOMAIN channel', channel'[i] = Head(channel)
          PROVE  FALSE
      <4>1. i + 1 = 1
        BY <2>1, <3>1 DEF Asking
      <4>2. QED
        BY <2>1, <4>1
    <3>2. QED
      BY <2>1, <3>1 DEF Asking
  <2>4. \A r \in Run : Waits(r)' => Waits(r) /\ r # Head(channel) /\ r # modal
    BY <2>1, <2>3 DEF Waits
  <2>5. Waits(Head(channel))
    BY <2>1 DEF Waits
  <2>6. CASE modal = NoRun /\ modal' = Head(channel) /\ UNCHANGED reply
    BY <1>1, <2>1, <2>2, <2>3, <2>4, <2>5, <2>6 DEF Asking
  <2>7. CASE modal' = modal /\ reply' = [reply EXCEPT ![Head(channel)] = "no"]
    <3>1. Head(channel) # modal
      BY <2>1 DEF Asking
    <3>2. \A r \in Run : r # Head(channel) => reply'[r] = reply[r]
      BY <2>7 DEF TuiTypeOK
    <3>3. QED
      BY <1>1, <2>1, <2>2, <2>3, <2>4, <2>7, <3>1, <3>2 DEF Asking
  <2>8. QED
    BY <1>3, <2>6, <2>7 DEF TakeRequest
<1>4. ASSUME NEW r \in Run, Ask(r)
      PROVE  Asking'
  <2>1. /\ r # modal /\ ~Waits(r)
    BY <1>4 DEF Ask, Asking
  <2>2. /\ UNCHANGED modal /\ channel' = Append(channel, r)
        /\ DOMAIN channel' = DOMAIN channel \cup {Len(channel) + 1} /\ channel'[Len(channel) + 1] = r
        /\ \A i \in DOMAIN channel : channel'[i] = channel[i] /\ channel[i] # r
    BY <1>1, <1>4, <2>1, Appended DEF Ask, Waits
  <2>3. /\ \A i, j \in DOMAIN channel' : channel'[i] = channel'[j] => i = j
        /\ \A i \in DOMAIN channel' : channel'[i] # modal'
    BY <2>1, <2>2 DEF Asking
  <2>4. \A q \in Run : Waits(q)' => Waits(q) \/ q = r
    BY <2>2 DEF Waits
  <2>5. \A q \in Run : q # r => agent'[q] = agent[q] /\ reply'[q] = reply[q] /\ asked'[q] = asked[q]
    BY <1>4 DEF Ask, TuiTypeOK
  <2>6. agent'[r] = "asking" /\ reply'[r] = "none" /\ asked'[r] = asked[r] + 1 /\ asked[r] \in Nat
    BY <1>1, <1>4 DEF Ask, TuiTypeOK
  <2>7. asked'[r] > 0
    BY <2>6
  <2>8. ASSUME NEW q \in Run, q = modal' \/ Waits(q)'
        PROVE  agent'[q] = "asking" /\ reply'[q] = "none" /\ asked'[q] > 0
    <3>1. CASE q = r
      BY <2>6, <2>7, <3>1
    <3>2. CASE q # r
      BY <2>2, <2>4, <2>5, <2>8, <3>2 DEF Asking
    <3>3. QED
      BY <3>1, <3>2
  <2>9. QED
    BY <2>3, <2>8 DEF Asking
<1>5. ASSUME NEW r \in Run, Start(r) \/ Seed(r) \/ Hear(r) \/ Fail(r) \/ Die(r) \/ Succeed(r) \/ WriteBack(r),
             agent[r] = "asking" => reply[r] # "none"
      PROVE  Asking'
  <2>1. /\ UNCHANGED <<channel, modal, reply, asked>>
        /\ \A q \in Run : q # r => agent'[q] = agent[q]
    BY <1>5 DEF Start, Seed, Hear, Fail, Die, Succeed, WriteBack, TuiTypeOK
  <2>2. r # modal /\ ~Waits(r)
    BY <1>5 DEF Asking
  <2>3. \A q : Waits(q)' <=> Waits(q)
    BY <2>1 DEF Waits
  <2>4. QED
    BY <2>1, <2>2, <2>3 DEF Asking
<1>7. ASSUME UNCHANGED <<channel, modal, reply, asked, agent>>
      PROVE  Asking'
  BY <1>7 DEF Asking, Waits
<1>6. ASSUME NEW r \in Run, Start(r) \/ Seed(r) \/ Hear(r) \/ Fail(r) \/ Die(r) \/ Succeed(r) \/ WriteBack(r)
      PROVE  agent[r] = "asking" => reply[r] # "none"
  BY <1>6 DEF Followers, Said, Start, Seed, Hear, Fail, Die, Succeed, WriteBack
<1>8. QED
  BY <1>2, <1>3, <1>4, <1>5, <1>6, <1>7
     DEF TuiNext, User, Loop, Reader, Agent, Submit, Cancel, New, Resume, TakeEvent, Forward, Close
LEMMA UnseenStep ==
    ASSUME TuiTypeOK, Generations, OnScreen, Followers, Asking, UnseenBesideStray, TuiNext
    PROVE  UnseenBesideStray'
<1> USE DEF ask, saved
<1>1. \A r \in Run : asked[r] \in 0..MaxAsks /\ asked[r] \in Nat
  BY RunsAreNumbers DEF TuiTypeOK
<1>2. \A r \in Run : asked'[r] >= asked[r] /\ asked'[r] \in Nat
  <2>1. ASSUME NEW r \in Run, Ask(r)
        PROVE  \A q \in Run : asked'[q] = asked[q] \/ asked'[q] = asked[q] + 1
    BY <1>1, <2>1 DEF Ask, TuiTypeOK
  <2>2. (\E r \in Run : Ask(r)) \/ UNCHANGED asked
    BY DEF TuiNext, User, Loop, Reader, Agent, Submit, Cancel, New, Resume, Answer, TakeRequest, TakeEvent,
           Start, Forward, Close, Seed, Hear, Succeed, Fail, Die, WriteBack
  <2>3. CASE UNCHANGED asked
    BY <1>1, <2>3
  <2>4. QED
    BY <1>1, <2>1, <2>2, <2>3
<1>3. \A r \in Run : fate[r] = "cancelled" => fate'[r] = "cancelled"
  <2>1. CASE Cancel
    BY <2>1 DEF Cancel, TuiTypeOK
  <2>2. CASE New \/ \E s \in Sessions : Resume(s)
    <3>1. fate' = fate \/ (current \in Run /\ fate' = [fate EXCEPT ![current] = "moved"])
      BY <2>2 DEF New, Resume, Moved, TuiTypeOK
    <3>2. current \in Run => fate[current] # "cancelled"
      BY DEF OnScreen
    <3>3. QED
      BY <3>1, <3>2 DEF TuiTypeOK
  <2>3. QED
    BY <2>1, <2>2 DEF TuiNext, User, Loop, Reader, Agent, Submit, Answer, TakeRequest, TakeEvent,
           Start, Forward, Close, Seed, Ask, Hear, Succeed, Fail, Die, WriteBack
<1>4. ASSUME NEW r \in Run, NEW q \in Run \ {r}, asked[q] > 0, "cancelled" \in {fate[q], fate[r]}
      PROVE  asked'[q] > 0 /\ "cancelled" \in {fate'[q], fate'[r]}
  <2>1. asked'[q] > 0
    BY <1>1, <1>2, <1>4
  <2>2. QED
    BY <1>3, <1>4, <2>1
<1>5. ASSUME NEW r \in unseen', r \notin unseen
      PROVE  r \in Run /\ \E q \in Run \ {r} : asked[q] > 0 /\ "cancelled" \in {fate[q], fate[r]}
  <2>1. TakeRequest
    BY <1>5 DEF TuiNext, User, Loop, Reader, Agent, Submit, Cancel, New, Resume, Answer, TakeEvent,
           Start, Forward, Close, Seed, Ask, Hear, Succeed, Fail, Die, WriteBack
  <2>2. channel # <<>> /\ modal # NoRun /\ r = Head(channel)
    BY <1>5, <2>1 DEF TakeRequest
  <2>3. r \in Run /\ r = channel[1] /\ 1 \in DOMAIN channel
    BY <2>2, Taken DEF TuiTypeOK
  <2>4. modal \in Run /\ modal # r /\ Waits(r)
    BY <2>2, <2>3 DEF TuiTypeOK, Asking, Waits
  <2>5. agent[r] = "asking" /\ agent[modal] = "asking" /\ asked[modal] > 0
    BY <2>3, <2>4 DEF Asking
  <2>6. (r = current \/ fate[r] = "cancelled") /\ (modal = current \/ fate[modal] = "cancelled")
    BY <2>3, <2>4, <2>5, AtWork
  <2>7. QED
    BY <2>3, <2>4, <2>5, <2>6
<1>6. ASSUME NEW r \in unseen'
      PROVE  \E q \in Run \ {r} : asked'[q] > 0 /\ "cancelled" \in {fate'[q], fate'[r]}
  <2>1. r \in Run /\ \E q \in Run \ {r} : asked[q] > 0 /\ "cancelled" \in {fate[q], fate[r]}
    BY <1>5 DEF UnseenBesideStray, TuiTypeOK
  <2>2. PICK q \in Run \ {r} : asked[q] > 0 /\ "cancelled" \in {fate[q], fate[r]}
    BY <2>1
  <2>3. asked'[q] > 0 /\ "cancelled" \in {fate'[q], fate'[r]}
    BY <1>4, <2>1, <2>2
  <2>4. QED
    BY <2>3
<1>7. QED
  BY <1>6 DEF UnseenBesideStray

LEMMA FileStep ==
    ASSUME TuiTypeOK, InboxInOrder, Generations, OnScreen, Followers, FileIsTrue, TuiNext
    PROVE  FileIsTrue'
<1> USE DEF screen, saved, stored
<1>1. CASE Submit
  <2>1. runs + 1 \in Run /\ UNCHANGED files /\ runs + 1 > runs
    BY <1>1, RunsAreNumbers DEF TuiTypeOK, Submit, Run
  <2>2. ~Filed(runs + 1)
    <3>1. PICK r \in Run : r = runs + 1
      BY <2>1
    <3>2. reader[r] = "none" /\ Said(r)
      BY <2>1, <3>1 DEF Generations, Followers
    <3>3. ~Filed(r)
      BY <3>2 DEF Said
    <3>4. QED
      BY <3>1, <3>3
  <2>3. \A s \in Sessions : \A i \in DOMAIN files[s] : files[s][i].output # runs + 1
    BY <2>2 DEF Filed, FiledIn
  <2>4. \A r : r # runs + 1 => home'[r] = home[r]
    BY <1>1 DEF Submit, TuiTypeOK
  <2>5. QED
    BY <2>1, <2>3, <2>4 DEF FileIsTrue
<1>2. CASE TakeEvent
  <2>1. UNCHANGED <<home, session>>
    BY <1>2 DEF TakeEvent
  <2>2. PICK what \in {"done", "error", "end"}, r \in Run : Pending(<<what, r>>) /\ Displayed(what, r)
    BY <1>2, EventShown
  <2>3. CASE UNCHANGED files
    BY <2>1, <2>3 DEF FileIsTrue
  <2>4. CASE /\ what = "done" /\ home[r] = session
             /\ files' = [files EXCEPT ![session] = Append(@, [prompt |-> r, output |-> r])]
    <3> DEFINE e == [prompt |-> r, output |-> r]
               n == Len(files[session]) + 1
    <3>1. e \in [prompt : Run, output : Run] /\ e.prompt = r /\ e.output = r
      OBVIOUS
    <3>2. /\ \A s \in Sessions : s # session => files'[s] = files[s]
          /\ DOMAIN files'[session] = DOMAIN files[session] \cup {n}
          /\ \A i \in DOMAIN files[session] : files'[session][i] = files[session][i] /\ i # n
          /\ files'[session][n] = e
      BY <2>4, <3>1, Filing
    <3> HIDE DEF e, n
    <3>3. ~Filed(r)
      BY <2>2, <2>4 DEF Followers, Said
    <3>4. session \in Sessions /\ \A i \in DOMAIN files[session] : files[session][i].output # r
      BY <3>3 DEF Filed, FiledIn, TuiTypeOK
    <3>5. ASSUME NEW s \in Sessions
          PROVE  /\ \A i \in DOMAIN files'[s] : files'[s][i].prompt = files'[s][i].output /\ home'[files'[s][i].output] = s
                 /\ \A i, j \in DOMAIN files'[s] : files'[s][i].output = files'[s][j].output => i = j
      <4>1. CASE s # session
        BY <2>1, <3>2, <4>1 DEF FileIsTrue
      <4>2. CASE s = session
        <5>1. \A i \in DOMAIN files'[session] :
                 files'[session][i].prompt = files'[session][i].output /\ home'[files'[session][i].output] = session
          BY <2>1, <2>4, <3>1, <3>2, <3>4 DEF FileIsTrue
        <5>2. \A i, j \in DOMAIN files'[session] : files'[session][i].output = files'[session][j].output => i = j
          BY <3>1, <3>2, <3>4 DEF FileIsTrue
        <5>3. QED
          BY <4>2, <5>1, <5>2
      <4>3. QED
        BY <4>1, <4>2
    <3>6. QED
      BY <3>5 DEF FileIsTrue
  <2>5. QED
    BY <2>2, <2>3, <2>4 DEF Displayed
<1>3. CASE UNCHANGED <<files, home>>
  BY <1>3 DEF FileIsTrue
<1>4. QED
  BY <1>1, <1>2, <1>3 DEF TuiNext, User, Loop, Reader, Agent, Cancel, New, Resume, Answer, TakeRequest,
         Start, Forward, Close, Seed, Ask, Hear, Succeed, Fail, Die, WriteBack
(* /new and /resume give the screen a history that holds the file; whoever *)
(* was at work is a stray from then on.                                    *)
LEMMA ExchangeStep ==
    ASSUME TuiTypeOK, Generations, OnScreen, Followers, FileIsTrue, New \/ \E s \in Sessions : Resume(s)
    PROVE  HistoryHeld'
<1> USE DEF screen, saved, stored, tasks
\* Nobody who is at work is plain once /new or /resume has gone by.
<1>1. ASSUME UNCHANGED <<agent, seed, files, current>>, fate' = Moved,
             \A r \in Run, s \in Sessions : s = session' /\ FiledIn(r, s) => Held(r)'
      PROVE  HistoryHeld'
  <2>1. \A r \in Run : fate'[r] = IF r = current THEN "moved" ELSE fate[r]
    BY <1>1, RunsAreNumbers DEF Moved, TuiTypeOK
  <2>2. ASSUME NEW r \in Run, fate'[r] = "plain", agent[r] \in {"working", "asking", "succeeded", "failed"}
        PROVE  FALSE
    <3>1. r = current \/ fate[r] = "cancelled"
      BY <2>2, AtWork
    <3>2. QED
      BY <2>1, <2>2, <3>1
  <2>3. \A r \in Run : r = current' => fate'[r] # "plain"
    BY <1>1, <2>1
  <2>4. QED
    BY <1>1, <2>2, <2>3, FiledAsBefore DEF HistoryHeld
<1>2. CASE New
  <2>1. /\ UNCHANGED <<agent, seed, files, current>> /\ fate' = Moved /\ session' = used + 1 /\ used \in Nat
    BY <1>2, RunsAreNumbers DEF New, TuiTypeOK
  <2>2. \A s \in Sessions : s = used + 1 => s > used
    BY <2>1
  <2>3. \A s \in Sessions : s = session' => files[s] = <<>>
    BY <2>1, <2>2 DEF OnScreen
  <2>4. \A r \in Run, s \in Sessions : s = session' /\ FiledIn(r, s) => Held(r)'
    BY <2>3, EmptySeq DEF FiledIn
  <2>5. QED
    BY <1>1, <2>1, <2>4
<1>3. ASSUME NEW s \in Sessions, Resume(s)
      PROVE  HistoryHeld'
  <2>1. /\ UNCHANGED <<agent, seed, files, current>> /\ fate' = Moved /\ session' = s
        /\ history' = [i \in DOMAIN files[s] |-> files[s][i].prompt]
    BY <1>3 DEF Resume
  <2>2. \A i \in DOMAIN files[s] : history'[i] = files[s][i].output
    BY <2>1 DEF FileIsTrue
  <2>3. DOMAIN history' = DOMAIN files[s]
    BY <2>1
  <2>4. \A r \in Run, t \in Sessions : t = session' /\ FiledIn(r, t) => Held(r)'
    BY <2>1, <2>2, <2>3 DEF FiledIn, Held
  <2>5. QED
    BY <1>1, <2>1, <2>4
<1>4. QED
  BY <1>2, <1>3

LEMMA HistoryStep ==
    ASSUME TuiTypeOK, InboxInOrder, Generations, OnScreen, Followers, FileIsTrue, HistoryHeld, TuiNext,
           ~New, ~\E s \in Sessions : Resume(s)
    PROVE  HistoryHeld'
<1> USE DEF screen, saved, stored, tasks
<1>1. SUFFICES ASSUME ~strayWrote'
               PROVE  /\ \A r \in Run, s \in Sessions : s = session' /\ FiledIn(r, s)' => Held(r)' \/ agent'[r] = "succeeded"
                      /\ \A r \in Run : fate'[r] = "plain" /\ agent'[r] \in {"working", "asking", "succeeded", "failed"} =>
                           seed'[r] = history'
                      /\ \A r \in Run : r = current' /\ fate'[r] = "plain" /\ agent'[r] = "completed" => Held(r)'
  BY DEF HistoryHeld
<1>2. ~strayWrote
  BY <1>1 DEF TuiNext, User, Loop, Reader, Agent, Submit, Cancel, Answer, TakeRequest, TakeEvent,
         Start, Forward, Close, Seed, Ask, Hear, Succeed, Fail, Die, WriteBack
<1>3. /\ \A r \in Run, s \in Sessions : s = session /\ FiledIn(r, s) => Held(r) \/ agent[r] = "succeeded"
      /\ \A r \in Run : fate[r] = "plain" /\ agent[r] \in {"working", "asking", "succeeded", "failed"} =>
           seed[r] = history
      /\ \A r \in Run : r = current /\ fate[r] = "plain" /\ agent[r] = "completed" => Held(r)
  BY <1>2 DEF HistoryHeld
<1>4. UNCHANGED history => \A r : Held(r)' <=> Held(r)
  BY DEF Held
<1>5. CASE Submit
  <2>1. runs + 1 \in Run /\ runs + 1 > runs
    BY <1>5, RunsAreNumbers DEF TuiTypeOK, Submit, Run
  <2>2. \A r \in Run : r = runs + 1 => reader[r] = "none" /\ Said(r)
    BY <2>1 DEF Generations, Followers
  <2>3. \A r \in Run : r = runs + 1 => agent[r] = "none"
    BY <2>2 DEF Said
  <2>4. UNCHANGED <<history, session, files, agent, fate, seed>> /\ current' = runs + 1
    BY <1>5 DEF Submit
  <2>5. QED
    BY <1>3, <1>4, <2>3, <2>4, FiledAsBefore
<1>6. CASE Cancel
  <2>1. /\ UNCHANGED <<history, session, files, agent, seed>> /\ current' = NoRun
        /\ \A r \in Run : fate'[r] = "plain" => fate[r] = "plain"
    BY <1>6 DEF Cancel, TuiTypeOK
  <2>2. QED
    BY <1>3, <1>4, <2>1, FiledAsBefore, RunsAreNumbers
<1>10. CASE TakeEvent
  <2>1. UNCHANGED <<agent, seed, history, session, fate>>
    BY <1>10 DEF TakeEvent
  <2>2. PICK what \in {"done", "error", "end"}, r \in Run : Pending(<<what, r>>) /\ Displayed(what, r)
    BY <1>10, EventShown
  <2>3. /\ \A q \in Run, s \in Sessions :
             FiledIn(q, s)' => FiledIn(q, s) \/ (q = r /\ s = session /\ what = "done" /\ fate[r] = "plain")
        /\ what = "done" /\ fate[r] = "plain" => r = current
    BY <2>2, FilesGrow
  <2>4. what = "done" => agent[r] \in {"succeeded", "completed"}
    BY <2>2 DEF Followers, Said
  <2>5. \A q \in Run : q = current' => q = current
    BY <2>2, RunsAreNumbers DEF Displayed
  <2>6. QED
    BY <1>3, <1>4, <2>1, <2>3, <2>4, <2>5
<1>11. ASSUME NEW r \in Run, WriteBack(r)
       PROVE  HistoryHeld'
  <2>1. /\ agent[r] \in {"succeeded", "failed"} /\ history' = Append(seed[r], r)
        /\ UNCHANGED <<session, files, fate, current, seed>>
        /\ fate[r] = "plain"
    BY <1>1, <1>11 DEF WriteBack
  <2>2. seed[r] = history /\ history \in Seq(Run) /\ r = current
    BY <1>3, <2>1, AtWork DEF TuiTypeOK
  <2>3. /\ DOMAIN history' = DOMAIN history \cup {Len(history) + 1} /\ history'[Len(history) + 1] = r
        /\ \A i \in DOMAIN history : history'[i] = history[i]
    BY <2>1, <2>2, Appended
  <2>4. \A q : Held(q)' <=> Held(q) \/ q = r
    BY <2>3 DEF Held
  <2>5. \A q \in Run : agent'[q] = IF q = r THEN (IF agent[r] = "succeeded" THEN "completed" ELSE "over") ELSE agent[q]
    BY <1>11 DEF WriteBack, TuiTypeOK
  <2>6. \A q \in Run : fate[q] = "plain" /\ agent[q] \in {"working", "asking", "succeeded", "failed"} => q = r
    <3>1. ASSUME NEW q \in Run, fate[q] = "plain", agent[q] \in {"working", "asking", "succeeded", "failed"}
          PROVE  q = current
      BY <3>1, AtWork
    <3>2. QED
      BY <2>2, <3>1
  <2>7. \A q \in Run, s \in Sessions : s = session' /\ FiledIn(q, s)' => Held(q)' \/ agent'[q] = "succeeded"
    BY <1>3, <2>1, <2>4, <2>5, FiledAsBefore
  <2>8. \A q \in Run : ~(fate'[q] = "plain" /\ agent'[q] \in {"working", "asking", "succeeded", "failed"})
    BY <2>1, <2>5, <2>6
  <2>9. \A q \in Run : q = current' => Held(q)'
    BY <2>1, <2>2, <2>4
  <2>10. QED
    BY <2>7, <2>8, <2>9 DEF HistoryHeld
<1>12. ASSUME NEW r \in Run, Start(r) \/ Seed(r) \/ Ask(r) \/ Hear(r) \/ Succeed(r) \/ Fail(r) \/ Die(r)
       PROVE  HistoryHeld'
  <2>1. UNCHANGED <<session, files, fate, current, history>> /\ (Start(r) => agent[r] = "none")
    BY <1>12 DEF Start, Seed, Ask, Hear, Succeed, Fail, Die, Followers, Said
  <2>2. /\ agent[r] # "succeeded" /\ agent'[r] # "completed"
        /\ \A q \in Run : q # r => agent'[q] = agent[q] /\ seed'[q] = seed[q]
        /\ \/ seed'[r] = seed[r] /\ agent[r] \in {"working", "asking"}
           \/ seed'[r] = history
           \/ agent'[r] = "begun"
    BY <1>12, <2>1 DEF Start, Seed, Ask, Hear, Succeed, Fail, Die, TuiTypeOK
  <2>3. \A q \in Run, s \in Sessions : s = session' /\ FiledIn(q, s)' => Held(q)' \/ agent'[q] = "succeeded"
    BY <1>3, <1>4, <2>1, <2>2, FiledAsBefore
  <2>4. \A q \in Run : fate'[q] = "plain" /\ agent'[q] \in {"working", "asking", "succeeded", "failed"} =>
           seed'[q] = history'
    BY <1>3, <2>1, <2>2
  <2>5. \A q \in Run : q = current' /\ fate'[q] = "plain" /\ agent'[q] = "completed" => Held(q)'
    BY <1>3, <1>4, <2>1, <2>2
  <2>6. QED
    BY <2>3, <2>4, <2>5 DEF HistoryHeld
<1>13. CASE UNCHANGED <<agent, seed, history, session, fate, files, current>>
  BY <1>3, <1>4, <1>13, FiledAsBefore
<1>14. QED
  BY <1>1, <1>5, <1>6, <1>10, <1>11, <1>12, <1>13
     DEF TuiNext, User, Loop, Reader, Agent, Answer, TakeRequest, Forward, Close, HistoryHeld

LEMMA SessionsInvariantInit == TuiInit => SessionsInvariant
BY TuiTypedInit, PartsInit DEF SessionsInvariant

LEMMA SessionsInvariantStep == SessionsInvariant /\ [TuiNext]_tuiVars => SessionsInvariant'
<1> SUFFICES ASSUME SessionsInvariant, [TuiNext]_tuiVars
             PROVE  SessionsInvariant'
  OBVIOUS
<1> USE DEF SessionsInvariant
<1>1. CASE TuiNext
  <2>1. TuiTypeOK' /\ InboxInOrder' /\ Generations' /\ OnScreen'
    BY <1>1, TuiTypedStep, InboxStep, GenerationsStep, OnScreenStep
  <2>2. Followers'
    BY <1>1, SaidStep, FollowedStep DEF Followers
  <2>3. Asking' /\ UnseenBesideStray' /\ FileIsTrue' /\ HistoryHeld'
    BY <1>1, AskingStep, UnseenStep, FileStep, ExchangeStep, HistoryStep
  <2>4. QED
    BY <2>1, <2>2, <2>3
<1>2. CASE UNCHANGED tuiVars
  <2> USE DEF tuiVars, screen, tasks, saved, stored, ask
  <2>1. TuiTypeOK'
    BY <1>2 DEF TuiTypeOK
  <2>2. InboxInOrder' /\ Generations' /\ OnScreen' /\ Asking'
    BY <1>2 DEF InboxInOrder, Generations, OnScreen, Asking, Pending, Waits
  <2>3. Followers'
    BY <1>2 DEF Followers, Said, Followed, Pending, Comes, Filed, FiledIn
  <2>4. HistoryHeld' /\ FileIsTrue' /\ UnseenBesideStray'
    BY <1>2 DEF HistoryHeld, FileIsTrue, UnseenBesideStray, FiledIn, Held
  <2>5. QED
    BY <2>1, <2>2, <2>3, <2>4
<1>3. QED
  BY <1>1, <1>2

LEMMA SessionsInvariantFits == SessionsInvariant => SessionsAreTrue
<1> SUFFICES ASSUME SessionsInvariant PROVE SessionsAreTrue
  OBVIOUS
<1> USE DEF SessionsInvariant
<1>1. \A r \in Run, s \in Sessions : r \in Recorded(s) <=> FiledIn(r, s)
  BY DEF Recorded, FiledIn
<1>2. PlainRunsRecorded
  <2>1. ASSUME NEW r \in Run, agent[r] = "completed", fate[r] = "plain", Settled(r)
        PROVE  r \in Recorded(home[r]) \cup lost
    <3>1. reader[r] = "over" /\ ~Pending(<<"done", r>>)
      BY <2>1 DEF Settled, Pending
    <3>2. r =< runs
      <4>1. ~(r > runs)
        BY <3>1 DEF Generations
      <4>2. QED
        BY <4>1, RunsAreNumbers DEF TuiTypeOK
    <3>3. stream[r] # <<"done">>
      <4>1. stream[r] # <<>> => reader[r] = "reading"
        BY DEF Followers, Said
      <4>2. <<"done">> # <<>>
        OBVIOUS
      <4>3. QED
        BY <3>1, <4>1, <4>2
    <3>4. r \in lost \/ \E s \in Sessions : s = home[r] /\ FiledIn(r, s)
      BY <2>1, <3>1, <3>2, <3>3 DEF Followers, Followed
    <3>5. QED
      BY <1>1, <3>4
  <2>2. QED
    BY <2>1 DEF PlainRunsRecorded
<1>3. HistoryHoldsFile
  <2>1. ASSUME \A r \in Run : agent[r] \in {"none", "completed", "over"}, ~strayWrote,
               NEW r \in Recorded(session)
        PROVE  r \in {history[i] : i \in DOMAIN history}
    <3>1. PICK i \in DOMAIN files[session] : files[session][i].output = r
      BY DEF Recorded
    <3>2. files[session] \in Seq([prompt : Run, output : Run]) /\ session \in Sessions
      BY DEF TuiTypeOK
    <3>3. files[session][i] \in [prompt : Run, output : Run]
      BY <3>1, <3>2, ElementOfSeq, LenProperties
    <3>4. r \in Run
      BY <3>1, <3>3
    <3>5. Held(r)
      BY <1>1, <2>1, <3>2, <3>4 DEF HistoryHeld
    <3>6. QED
      BY <3>5 DEF Held
  <2>2. QED
    BY <2>1 DEF HistoryHoldsFile
<1>4. QED
  BY <1>2, <1>3 DEF SessionsAreTrue

(* The sessions of the terminal are true for any number of prompts,        *)
(* questions and sessions: each session's file pairs every prompt in it    *)
(* with its own answer, once, whatever /new, /resume and a cancelled run's *)
(* agent do under it; a run that nobody disturbs is recorded unless the    *)
(* append failed; the shared history holds what is recorded until a stray  *)
(* overwrites it, and again once /new or /resume has exchanged it; and a   *)
(* question is refused unseen only beside a cancelled run's (run_loop of   *)
(* the terminal, TuiSessionController).                                    *)
THEOREM TerminalSessionsStayTrue == TuiSpec => []SessionsAreTrue
<1>1. SessionsInvariant /\ [TuiNext]_tuiVars => SessionsInvariant'
  BY SessionsInvariantStep
<1>2. QED
  BY SessionsInvariantInit, <1>1, SessionsInvariantFits, PTL DEF TuiSpec

=============================================================================
