----------------------------- MODULE ServeSessions -----------------------------
(***************************************************************************)
(* The multi-turn sessions of the HTTP server: the SessionManager          *)
(* (deepseeknova-serve/src/sessions.rs), the chat and delete endpoints and *)
(* stream_session_input (src/lib.rs), the session file of the store, and   *)
(* the shared history from which the agent of deepseeknova-agent seeds its *)
(* memory and to which it writes it back.                                  *)
(*                                                                         *)
(* The manager's mutex is held across no await but its own, so what it     *)
(* guards is one step.  The busy flag of a live session is claimed after   *)
(* the mutex is released, and record_turn appends without it.              *)
(***************************************************************************)
EXTENDS Naturals, Sequences, FiniteSets

CONSTANTS
  Ids,           \* session ids; new_session_id never returns one twice
  Requests,      \* chat requests, each sent once
  None,          \* no live session, and no session id
  MaxLive,       \* bound on the live sessions built
  MaxCrashes,    \* bound on the crashes of the server
  AppendMayFail  \* an append to a session file may fail

ASSUME NoneAssumption == None \notin Ids /\ None \notin 1..MaxLive
ASSUME BoundsAssumption == MaxLive \in Nat \ {0} /\ MaxCrashes \in Nat
ASSUME AppendMayFailAssumption == AppendMayFail \in BOOLEAN

VARIABLES
  store,    \* the file of each session: "new", "present", "torn" or "deleted"
  turns,    \* the turns in the file
  live,     \* SessionManager.live
  object,   \* the live sessions built so far, the orphaned ones included
  req,      \* each request: its handler, later its task and its agent
  crashes,  \* crashes so far
  raced,    \* sessions deleted while a chat was about to claim their busy flag
  unsaved   \* sessions with a turn whose append failed

vars == <<store, turns, live, object, req, crashes, raced, unsaved>>

Objects == 1..MaxLive
Holding == {"starting", "running", "recording", "appending", "releasing"}
Outcome == {"done", "failed", "paused", "silent"}

Idle == [pc |-> "unsent", id |-> None, obj |-> None, memory |-> <<>>, end |-> "none"]
Over == [Idle EXCEPT !.pc = "over"]

Init ==
  /\ store = [i \in Ids |-> "new"]
  /\ turns = [i \in Ids |-> <<>>]
  /\ live = [i \in Ids |-> None]
  /\ object = <<>>
  /\ req = [q \in Requests |-> Idle]
  /\ crashes = 0
  /\ raced = {} /\ unsaved = {}

-----------------------------------------------------------------------------
(* The endpoints. *)

Create(i) ==
  /\ store[i] = "new"
  /\ store' = [store EXCEPT ![i] = "present"]
  /\ UNCHANGED <<turns, live, object, req, crashes, raced, unsaved>>

(* The messages of the stored turns; System stands for the system prompt.  *)
System == "system"
ASSUME SystemAssumption == System \notin Requests
Replayed(i) == [k \in DOMAIN turns[i] |-> turns[i][k].prompt]

(* Seeded fault: the restored session starts with an empty history. *)
RestoreForgets(i) == [busy |-> FALSE, turn |-> Len(turns[i]), history |-> <<>>]

Restore(i) == [busy |-> FALSE, turn |-> Len(turns[i]), history |-> Replayed(i)]

Refuse(q) ==
  /\ req' = [req EXCEPT ![q] = Over]
  /\ UNCHANGED <<live, object>>

(* claim_for_chat under the mutex: the live session, or one restored from  *)
(* the file; 404 for no file, 500 for one that does not parse.             *)
Claim(q, i) ==
  /\ req[q].pc = "unsent"
  /\ \/ /\ live[i] # None
        /\ req' = [req EXCEPT ![q].pc = "claiming", ![q].id = i, ![q].obj = live[i]]
        /\ UNCHANGED <<live, object>>
     \/ /\ live[i] = None /\ store[i] = "present" /\ Len(object) < MaxLive
        /\ object' = Append(object, Restore(i))
        /\ live' = [live EXCEPT ![i] = Len(object) + 1]
        /\ req' = [req EXCEPT ![q].pc = "claiming", ![q].id = i, ![q].obj = Len(object) + 1]
     \/ live[i] = None /\ store[i] # "present" /\ Refuse(q)
  /\ UNCHANGED <<store, turns, crashes, raced, unsaved>>

(* Seeded fault: the flag is set without a comparison. *)
AcquireAnyway(q) ==
  /\ req[q].pc = "claiming"
  /\ object' = [object EXCEPT ![req[q].obj].busy = TRUE]
  /\ req' = [req EXCEPT ![q].pc = "starting"]
  /\ UNCHANGED <<store, turns, live, crashes, raced, unsaved>>

(* claim_for_chat after the mutex: compare_exchange, or 409. *)
Acquire(q) ==
  /\ req[q].pc = "claiming"
  /\ IF object[req[q].obj].busy THEN Refuse(q)
     ELSE /\ object' = [object EXCEPT ![req[q].obj].busy = TRUE]
          /\ req' = [req EXCEPT ![q].pc = "starting"]
          /\ UNCHANGED live
  /\ UNCHANGED <<store, turns, crashes, raced, unsaved>>

Claiming(i) == \E q \in Requests : req[q].pc = "claiming" /\ req[q].id = i

(* Seeded fault: the busy flag is not looked at. *)
DeleteBusy(i) ==
  /\ store[i] \in {"present", "torn"}
  /\ live' = [live EXCEPT ![i] = None]
  /\ store' = [store EXCEPT ![i] = "deleted"]
  /\ turns' = [turns EXCEPT ![i] = <<>>]
  /\ UNCHANGED <<object, req, crashes, raced, unsaved>>

(* delete, under the mutex: 409 when busy, else the live session and then  *)
(* the file.                                                               *)
Delete(i) ==
  /\ store[i] \in {"present", "torn"}
  /\ live[i] # None => ~object[live[i]].busy
  /\ live' = [live EXCEPT ![i] = None]
  /\ store' = [store EXCEPT ![i] = "deleted"]
  /\ turns' = [turns EXCEPT ![i] = <<>>]
  /\ raced' = IF Claiming(i) THEN raced \cup {i} ELSE raced
  /\ UNCHANGED <<object, req, crashes, unsaved>>

-----------------------------------------------------------------------------
(* The task of stream_session_input and the agent of the session's runner. *)

Finish(q, end) ==
  req' = [req EXCEPT ![q].pc = "recording", ![q].end = end, ![q].memory = <<>>]

(* The agent seeds its memory from the history; the system prompt goes in  *)
(* when the history is empty.                                              *)
Begin(q) ==
  /\ req[q].pc = "starting"
  /\ LET history == object[req[q].obj].history
         seeded == IF history = <<>> THEN <<System>> ELSE history
     IN  req' = [req EXCEPT ![q].pc = "running", ![q].memory = Append(seeded, q)]
  /\ UNCHANGED <<store, turns, live, object, crashes, raced, unsaved>>

(* run_stream itself returns an error. *)
BeginFails(q) ==
  /\ req[q].pc = "starting"
  /\ Finish(q, "failed")
  /\ UNCHANGED <<store, turns, live, object, crashes, raced, unsaved>>

(* The run ends, well or not: the memory is written back, then the stream  *)
(* closes.                                                                 *)
End(q, end) ==
  /\ req[q].pc = "running" /\ end # "silent"
  /\ object' = [object EXCEPT ![req[q].obj].history = req[q].memory]
  /\ Finish(q, end)
  /\ UNCHANGED <<store, turns, live, crashes, raced, unsaved>>

(* The agent's task panics: no closing event and nothing written back. *)
AgentPanics(q) ==
  /\ req[q].pc = "running"
  /\ Finish(q, "silent")
  /\ UNCHANGED <<store, turns, live, object, crashes, raced, unsaved>>

(* A failed or paused run is not recorded. *)
SkipRecord(q) ==
  /\ req[q].pc = "recording" /\ req[q].end \in {"failed", "paused"}
  /\ req' = [req EXCEPT ![q].pc = "releasing"]
  /\ UNCHANGED <<store, turns, live, object, crashes, raced, unsaved>>

(* record_turn takes the next number before it appends. *)
NumberTurn(q) ==
  /\ req[q].pc = "recording" /\ req[q].end \in {"done", "silent"}
  /\ object' = [object EXCEPT ![req[q].obj].turn = @ + 1]
  /\ req' = [req EXCEPT ![q].pc = "appending"]
  /\ UNCHANGED <<store, turns, live, crashes, raced, unsaved>>

(* The append creates the file when there is none; its failure is logged.  *)
AppendTurn(q) ==
  /\ req[q].pc = "appending"
  /\ LET i == req[q].id
         turn == [turn |-> object[req[q].obj].turn, prompt |-> q, end |-> req[q].end]
     IN  \/ /\ turns' = [turns EXCEPT ![i] = Append(@, turn)]
            /\ store' = [store EXCEPT ![i] = "present"]
            /\ UNCHANGED unsaved
         \/ /\ AppendMayFail
            /\ unsaved' = unsaved \cup {i}
            /\ UNCHANGED <<turns, store>>
  /\ req' = [req EXCEPT ![q].pc = "releasing"]
  /\ UNCHANGED <<live, object, crashes, raced>>

(* Seeded fault: a paused run keeps the session. *)
ReleaseUnlessPaused(q) ==
  /\ req[q].pc = "releasing"
  /\ object' = IF req[q].end = "paused" THEN object
               ELSE [object EXCEPT ![req[q].obj].busy = FALSE]
  /\ req' = [req EXCEPT ![q] = Over]
  /\ UNCHANGED <<store, turns, live, crashes, raced, unsaved>>

(* The BusyGuard is dropped. *)
Release(q) ==
  /\ req[q].pc = "releasing"
  /\ object' = [object EXCEPT ![req[q].obj].busy = FALSE]
  /\ req' = [req EXCEPT ![q] = Over]
  /\ UNCHANGED <<store, turns, live, crashes, raced, unsaved>>

(* The process dies and starts again.  An append is many small writes: one *)
(* that was under way may leave half a line, which no longer parses.       *)
Crash ==
  /\ crashes < MaxCrashes
  /\ crashes' = crashes + 1
  /\ live' = [i \in Ids |-> None]
  /\ object' = [o \in DOMAIN object |-> [object[o] EXCEPT !.busy = FALSE]]
  /\ req' = [q \in Requests |->
               IF req[q].pc = "unsent" THEN req[q] ELSE Over]
  /\ \E torn \in SUBSET {req[q].id : q \in {p \in Requests : req[p].pc = "appending"}} :
       store' = [i \in Ids |-> IF i \in torn THEN "torn" ELSE store[i]]
  /\ UNCHANGED <<turns, raced, unsaved>>

Task(q) ==
  \/ Acquire(q) \/ Begin(q) \/ BeginFails(q)
  \/ \E end \in Outcome : End(q, end)
  \/ AgentPanics(q) \/ SkipRecord(q) \/ NumberTurn(q) \/ AppendTurn(q) \/ Release(q)

Next ==
  \/ \E i \in Ids : Create(i) \/ Delete(i) \/ \E q \in Requests : Claim(q, i)
  \/ \E q \in Requests : Task(q)
  \/ Crash

Spec == Init /\ [][Next]_vars

(* Handlers and tasks are scheduled, and a run ends by itself. *)
FairSpec == Spec /\ \A q \in Requests : WF_vars(Task(q))

-----------------------------------------------------------------------------
Live(i) == object[live[i]]

TypeOK ==
  /\ store \in [Ids -> {"new", "present", "torn", "deleted"}]
  /\ \A i \in Ids : \A k \in DOMAIN turns[i] :
       turns[i][k] \in [turn : Nat, prompt : Requests, end : {"done", "silent"}]
  /\ Len(object) <= MaxLive
  /\ live \in [Ids -> DOMAIN object \cup {None}]
  /\ \A o \in DOMAIN object :
       object[o] \in [busy : BOOLEAN, turn : Nat, history : Seq(Requests \cup {System})]
  /\ req \in [Requests -> [pc : Holding \cup {"unsent", "claiming", "over"},
                           id : Ids \cup {None}, obj : DOMAIN object \cup {None},
                           memory : Seq(Requests \cup {System}),
                           end : Outcome \cup {"none"}]]
  /\ crashes \in 0..MaxCrashes
  /\ raced \subseteq Ids /\ unsaved \subseteq Ids

(* "Only one prompt may run per session at a time": also across restores   *)
(* of the live session, unless a delete slipped between the look-up of a   *)
(* chat and its claim of the busy flag.                                    *)
OnePromptPerSession ==
  \A p, q \in Requests :
    /\ p # q /\ req[p].id = req[q].id /\ req[p].id \notin raced
    => ~(req[p].pc \in Holding /\ req[q].pc \in Holding)

(* "A busy session cannot be deleted": no turn is appended to a session    *)
(* after its deletion, which would bring its file back, with the same      *)
(* exception.                                                              *)
DeletedStays ==
  [][\A i \in Ids \ raced : store[i] = "deleted" => store'[i] = "deleted"]_vars

(* "Consecutive prompts build on prior turns": what the file shows of a    *)
(* session its agent remembers, once and in the same order, except the     *)
(* turn of an agent that panicked.                                         *)
Shown(i) == {k \in DOMAIN turns[i] : turns[i][k].end # "silent"}
Remembered(h, k, l) == \E a, b \in DOMAIN h : a < b /\ h[a] = k.prompt /\ h[b] = l.prompt

FileInHistory ==
  \A i \in Ids \ raced : live[i] # None =>
    /\ \A a, b \in DOMAIN Live(i).history :
         Live(i).history[a] = Live(i).history[b] => a = b
    /\ \A k \in Shown(i) : \E a \in DOMAIN Live(i).history :
         Live(i).history[a] = turns[i][k].prompt
    /\ \A k, l \in Shown(i) : k < l => Remembered(Live(i).history, turns[i][k], turns[i][l])

(* A session whose appends never failed has its turns numbered 1, 2, ...,  *)
(* whatever restarts and failed prompts lie between them.                  *)
TurnsNumbered ==
  \A i \in Ids \ (raced \cup unsaved) : \A k \in DOMAIN turns[i] : turns[i][k].turn = k

SystemPrompts(q) == Cardinality({k \in DOMAIN req[q].memory : req[q].memory[k] = System})

(* "Re-injecting it would duplicate it": a prompt never runs with two      *)
(* system prompts.                                                         *)
SystemAtMostOnce == \A q \in Requests : SystemPrompts(q) <= 1

(* "When the store already holds prior turns, the system prompt is part of *)
(* them": every prompt runs with one.                                      *)
SystemPresent ==
  \A q \in Requests : req[q].pc = "running" /\ req[q].id \notin raced => SystemPrompts(q) = 1

Busy(o) == o \in DOMAIN object /\ object[o].busy

(* A busy session becomes free again: no outcome of a run wedges it.       *)
BusyEnds == \A o \in Objects : Busy(o) ~> ~Busy(o)

-----------------------------------------------------------------------------
(* What is checked: the properties above, by what they are about. *)

\* The busy flag lets one prompt of a session run at a time.
BusyExcludes ==
    /\ TypeOK
    /\ OnePromptPerSession

\* The file, the turn numbers and the agent's history tell one story, across
\* crashes, failed appends and the loss of a live session.
HistoryRestored ==
    /\ FileInHistory
    /\ TurnsNumbered
    /\ SystemAtMostOnce

=============================================================================
