--------------------------- MODULE AcpServerProofs ---------------------------
(***************************************************************************)
(* Proofs about AcpServer, for any sessions, any number of requests and    *)
(* updates, and both runtimes.                                             *)
(*                                                                         *)
(* ActivePrompts holds whether or not abort() can meet a task in mid-poll. *)
(* SingleThreadIsExact needs OneThread: with a single worker thread no     *)
(* task is aborted in mid-poll or waits for the mutex, so a cancelled task *)
(* has been dropped and a live one is the one its session's entry holds.   *)
(***************************************************************************)
EXTENDS AcpServer, SequenceTheorems, TLAPS

Words == {"update"} \cup Final

Tasks == [pc : TaskState, session : Sessions \cup {NoPrompt},
          aborted : BOOLEAN, failed : BOOLEAN]

(* Nothing is known of a request that has not been received. *)
Unborn == \A r \in Requests : r > issued => task[r] = NoTask /\ out[r] = <<>>

(* A task is the task of a session. *)
Placed == \A r \in Requests : task[r].pc # "none" => task[r].session \in Sessions

(* A task that has not ended has not answered, and one that is live was not *)
(* cancelled.                                                               *)
Spoken ==
  \A r \in Requests : \A i \in DOMAIN out[r] :
    /\ task[r].pc \notin {"none", "done"} => out[r][i] \in {"update", "cancelled"}
    /\ Live(r) => out[r][i] # "cancelled"

(* The critical sections of the main task run beside no poll. *)
PollsApart == lock = "main" => \A r \in Requests : task[r].pc \notin MidPoll

(* So abort() drops what it aborts, and no task ever waits for the mutex. *)
AbortsDrop == \A r \in Requests : task[r].pc # "locking" /\ ~task[r].aborted

(* A live prompt is the one its session's entry holds. *)
LiveIsActive == \A r \in Requests : Live(r) => active[task[r].session] = r

(* A cancelled response is the last word, of a task that is no more. *)
CancelledIsLast ==
  \A r \in Requests : \A i, j \in DOMAIN out[r] :
    /\ out[r][i] = "cancelled" => task[r].pc = "dropped"
    /\ i < j => out[r][i] = "update"

OneThread == ~parallel => PollsApart /\ AbortsDrop /\ LiveIsActive /\ CancelledIsLast

PromptsInvariant ==
  /\ TypeOK
  /\ Unborn
  /\ Placed
  /\ ActiveIsLive
  /\ Spoken
  /\ EachSideOnce
  /\ OneThread

-----------------------------------------------------------------------------
(* One message is added to what was said about a request, and nothing that *)
(* was said is changed.                                                    *)
LEMMA SaidOneMore ==
  ASSUME NEW said \in Seq(Words), NEW kind \in Words
  PROVE  /\ Append(said, kind) \in Seq(Words)
         /\ Len(said) \in Nat
         /\ DOMAIN said = 1..Len(said)
         /\ DOMAIN Append(said, kind) = 1..(Len(said) + 1)
         /\ \A i \in 1..Len(said) : Append(said, kind)[i] = said[i]
         /\ Append(said, kind)[Len(said) + 1] = kind
BY AppendProperties, LenProperties

LEMMA SentOneMore ==
  ASSUME TypeOK, NEW r \in Requests, NEW kind \in Words, Send(kind, r)
  PROVE  /\ out' \in [Requests -> Seq(Words)]
         /\ \A q \in Requests : q # r => out'[q] = out[q]
         /\ \A i \in DOMAIN out'[r] :
              \/ i \in DOMAIN out[r] /\ out'[r][i] = out[r][i]
              \/ i = Len(out[r]) + 1 /\ out'[r][i] = kind
         /\ \A i, j \in DOMAIN out'[r] :
              i < j => i \in DOMAIN out[r] /\ out'[r][i] = out[r][i]
         /\ \A i \in DOMAIN out[r] : i # Len(out[r]) + 1
<1>1. out[r] \in Seq(Words)
  BY DEF TypeOK, Words
<1>2. out'[r] = Append(out[r], kind) /\ \A q \in Requests : q # r => out'[q] = out[q]
  BY DEF TypeOK, Send
<1>3. out' \in [Requests -> Seq(Words)]
  BY <1>1, SaidOneMore DEF TypeOK, Send, Words
<1>4. /\ Len(out[r]) \in Nat
      /\ DOMAIN out[r] = 1..Len(out[r])
      /\ DOMAIN out'[r] = 1..(Len(out[r]) + 1)
      /\ \A i \in 1..Len(out[r]) : out'[r][i] = out[r][i]
      /\ out'[r][Len(out[r]) + 1] = kind
  BY <1>1, <1>2, SaidOneMore
<1>5. QED
  BY <1>2, <1>3, <1>4

(* What a task's next step leaves. *)
LEMMA ToMoves ==
  ASSUME TypeOK, NEW r \in Requests, NEW pc \in TaskState, To(r, pc)
  PROVE  /\ task' \in [Requests -> Tasks]
         /\ \A q \in Requests : q # r => task'[q] = task[q]
         /\ task'[r].pc = pc
         /\ task'[r].session = task[r].session
         /\ task'[r].aborted = task[r].aborted
<1>1. task \in [Requests -> Tasks]
  BY DEF TypeOK, Tasks
<1>2. task' = [task EXCEPT ![r].pc = pc]
  BY DEF To
<1>3. [task[r] EXCEPT !.pc = pc] \in Tasks
  BY <1>1 DEF Tasks
<1>4. QED
  BY <1>1, <1>2, <1>3 DEF Tasks

(* Nothing new is said, and a dropped task stays dropped. *)
LEMMA CancelledStaysLast ==
  ASSUME CancelledIsLast, out' = out,
         \A q \in Requests : task[q].pc = "dropped" => task'[q].pc = "dropped"
  PROVE  CancelledIsLast'
  BY DEF CancelledIsLast

(* abort() drops a task that awaits, and marks one that is being polled. *)
LEMMA AbortLemma ==
  ASSUME NEW t \in Tasks, t.pc \notin {"none", "done", "dropped", "responding"}
  PROVE  /\ Abort(t) \in Tasks
         /\ Abort(t).session = t.session
         /\ \/ /\ t.pc \in {"suspended", "locking"} /\ Abort(t).pc = "dropped"
               /\ Abort(t).aborted = t.aborted
            \/ /\ t.pc \in {"running", "finishing"} /\ Abort(t).pc = t.pc
               /\ Abort(t).aborted = TRUE
<1>1. CASE t.pc \in {"suspended", "locking"}
  <2>1. Abort(t) = [t EXCEPT !.pc = "dropped"]
    BY <1>1 DEF Abort
  <2>2. QED
    BY <1>1, <2>1 DEF Tasks, TaskState
<1>2. CASE t.pc \notin {"suspended", "locking"}
  <2>1. Abort(t) = [t EXCEPT !.aborted = TRUE]
    BY <1>2 DEF Abort
  <2>2. t.pc \in {"running", "finishing"}
    BY <1>2 DEF Tasks, TaskState, MidPoll
  <2>3. QED
    BY <2>1, <2>2 DEF Tasks
<1>3. QED
  BY <1>1, <1>2

(* What the entry of a session holds, when it holds something. *)
LEMMA EntryIsRequest ==
  ASSUME TypeOK, ActiveIsLive, NEW s \in Sessions, active[s] # NoPrompt
  PROVE  /\ active[s] \in Requests
         /\ Live(active[s])
         /\ task[active[s]].session = s
BY DEF TypeOK, ActiveIsLive

(* A step about one request r keeps ActiveIsLive when the entries of other   *)
(* requests are untouched or cleared, and an entry that holds r is right.    *)
LEMMA EntriesKept ==
  ASSUME TypeOK, ActiveIsLive, NEW r \in Requests,
         \A q \in Requests : q # r => task'[q] = task[q],
         \A t \in Sessions : active'[t] \notin {r, NoPrompt} =>
           active'[t] = active[t] /\ session'[t] = session[t],
         \A t \in Sessions : active'[t] = r =>
           /\ session'[t] = "open" /\ task'[r].session = t
           /\ task'[r].pc \notin {"none", "done", "dropped", "responding"}
           /\ ~task'[r].aborted
  PROVE  ActiveIsLive'
<1> SUFFICES ASSUME NEW t \in Sessions, active'[t] # NoPrompt
             PROVE  /\ session'[t] = "open"
                    /\ task'[active'[t]].pc \notin {"none", "done", "dropped", "responding"}
                    /\ ~task'[active'[t]].aborted
                    /\ task'[active'[t]].session = t
  BY DEF ActiveIsLive, Live
<1>1. CASE active'[t] = r
  BY <1>1
<1>2. CASE active'[t] # r
  <2>1. active'[t] = active[t] /\ session'[t] = session[t] /\ active[t] \in Requests
    BY <1>2, EntryIsRequest
  <2>2. session[t] = "open" /\ Live(active[t]) /\ task[active[t]].session = t
    BY <2>1 DEF ActiveIsLive
  <2>3. QED
    BY <1>2, <2>1, <2>2 DEF Live
<1>3. QED
  BY <1>1, <1>2

(* What was said about r is no answer of its task, and kind is not a second *)
(* cancelled response.                                                      *)
MayFollow(kind, r) ==
  \A i \in DOMAIN out[r] :
    out[r][i] = "update" \/ (out[r][i] = "cancelled" /\ kind # "cancelled")

LEMMA EachSideStill ==
  ASSUME TypeOK, EachSideOnce, NEW r \in Requests, NEW kind \in Words,
         Send(kind, r), MayFollow(kind, r)
  PROVE  EachSideOnce'
<1>1. /\ \A q \in Requests : q # r => out'[q] = out[q]
      /\ \A i \in DOMAIN out'[r] :
           \/ i \in DOMAIN out[r] /\ out'[r][i] = out[r][i]
           \/ i = Len(out[r]) + 1 /\ out'[r][i] = kind
      /\ \A i, j \in DOMAIN out'[r] :
           i < j => i \in DOMAIN out[r] /\ out'[r][i] = out[r][i]
  BY SentOneMore
<1>2. SUFFICES ASSUME NEW q \in Requests, NEW i \in DOMAIN out'[q],
                      NEW j \in DOMAIN out'[q], i < j
               PROVE  /\ out'[q][i] \in {"update", "cancelled"}
                      /\ out'[q][i] = "cancelled" => out'[q][j] # "cancelled"
  BY DEF EachSideOnce
<1>3. CASE q = r
  BY <1>1, <1>2, <1>3 DEF EachSideOnce, MayFollow
<1>4. CASE q # r
  BY <1>1, <1>2, <1>4 DEF EachSideOnce
<1>5. QED
  BY <1>3, <1>4

(* The ids of requests are numbers. *)
LEMMA RequestsAreNumbers == Requests \subseteq Nat /\ MaxRequests \in Nat
BY BoundAssumption DEF Requests

-----------------------------------------------------------------------------
(* Nothing has been received, and no task exists. *)
LEMMA PromptsInvariantInit == Init => PromptsInvariant
<1> SUFFICES ASSUME Init PROVE PromptsInvariant
  OBVIOUS
<1> USE DEF Init, NoTask
<1>1. TypeOK
  BY BoundAssumption, EmptySeq DEF TypeOK, TaskState, MidPoll, Requests
<1>2. Unborn /\ Placed
  BY DEF Unborn, Placed
<1>3. ActiveIsLive
  BY DEF ActiveIsLive
<1>4. \A r \in Requests : DOMAIN out[r] = {}
  BY EmptySeq
<1>5. Spoken /\ EachSideOnce /\ CancelledIsLast
  BY <1>4 DEF Spoken, EachSideOnce, CancelledIsLast
<1>6. PollsApart /\ AbortsDrop /\ LiveIsActive
  BY DEF PollsApart, AbortsDrop, LiveIsActive, Live
<1>7. QED
  BY <1>1, <1>2, <1>3, <1>5, <1>6 DEF PromptsInvariant, OneThread

(* Each action keeps the invariant. *)
LEMMA PromptsInvariantStep == PromptsInvariant /\ [Next]_vars => PromptsInvariant'
<1> SUFFICES ASSUME PromptsInvariant, [Next]_vars PROVE PromptsInvariant'
  OBVIOUS
<1> USE RequestsAreNumbers, NoPromptAssumption
<1>0. TypeOK /\ Unborn /\ Placed /\ ActiveIsLive /\ Spoken /\ EachSideOnce /\ OneThread
  BY DEF PromptsInvariant
<1>1. ASSUME NEW s \in Sessions, NEW r \in Requests, r = issued + 1, StartPrompt(s)
      PROVE  PromptsInvariant'
  <2> USE <1>0, <1>1
  <2>1. /\ ~parallel => \A q \in Requests : task[q].pc \notin MidPoll
        /\ task[r] = NoTask
        /\ out[r] = <<>>
        /\ DOMAIN out[r] = {}
        /\ r \in 0..MaxRequests
    BY EmptySeq DEF StartPrompt, MainLocks, Unborn, TypeOK, Requests, MidPoll
  <2>2. issued \in Nat
    BY DEF TypeOK
  <2>3. /\ parallel' = parallel
        /\ session' = session
        /\ active[s] = NoPrompt /\ session[s] = "open" /\ active' = [active EXCEPT ![s] = r]
        /\ issued' = r
        /\ lock' = "main"
        /\ input' = input
    BY <2>1 DEF StartPrompt, MainLocks, TypeOK
  <2>4. /\ task' \in [Requests -> [pc : TaskState, session : Sessions \cup {NoPrompt},
                                aborted : BOOLEAN, failed : BOOLEAN]]
        /\ \A q \in Requests : q # r => task'[q] = task[q]
        /\ task'[r].pc = "suspended"
        /\ task'[r].session = s
        /\ task'[r].aborted = FALSE
    <3>1. task' = [task EXCEPT ![r] = [NoTask EXCEPT !.pc = "suspended", !.session = s]]
      BY <2>1 DEF StartPrompt
    <3>2. NoTask \in Tasks /\ NoTask.aborted = FALSE
      BY DEF NoTask, Tasks, TaskState
    <3>3. QED
      BY <3>1, <3>2 DEF TypeOK, Tasks, TaskState
  <2>6. out' = out
    BY DEF StartPrompt, MainLocks
  <2>7. TypeOK'
    BY <2>1, <2>2, <2>3, <2>4, <2>6 DEF TypeOK, Words
  <2>8. Unborn'
    BY <2>1, <2>2, <2>3, <2>4, <2>6 DEF Unborn, TypeOK
  <2>9. Placed'
    BY <2>1, <2>2, <2>3, <2>4, <2>6 DEF Placed, TypeOK, NoTask
  <2>10. ActiveIsLive'
    <3>1. \A t \in Sessions : active[t] = r =>
            session[t] = "open" /\ Live(r) /\ task[r].session = t
      BY <2>1 DEF ActiveIsLive
    <3>2. \A t \in Sessions : active'[t] \notin {r, NoPrompt} =>
            active'[t] = active[t] /\ session'[t] = session[t]
      BY <2>2, <2>3, EntryIsRequest DEF TypeOK
    <3>3. \A t \in Sessions : active'[t] = r =>
            /\ session'[t] = "open" /\ task'[r].session = t
            /\ task'[r].pc \notin {"none", "done", "dropped", "responding"}
            /\ ~task'[r].aborted
      BY <3>1, <2>1, <2>2, <2>3, <2>4, <2>6 DEF TypeOK, Live, MidPoll, NoTask
    <3>4. QED
      BY <2>4, <3>2, <3>3, EntriesKept
  <2>11. Spoken'
    BY <2>1, <2>2, <2>3, <2>4, <2>6 DEF Spoken, TypeOK, Live, MidPoll, NoTask
  <2>12. EachSideOnce'
    BY <2>6 DEF EachSideOnce
  <2>13. OneThread'
    <3> SUFFICES ASSUME ~parallel
                 PROVE  (PollsApart /\ AbortsDrop /\ LiveIsActive /\ CancelledIsLast)'
      BY <2>3 DEF OneThread
    <3>1. PollsApart /\ AbortsDrop /\ LiveIsActive /\ CancelledIsLast
      BY DEF OneThread
    <3>2. PollsApart'
      BY <3>1, <2>1, <2>2, <2>3, <2>4, <2>6 DEF PollsApart, Live, MidPoll, NoTask
    <3>3. AbortsDrop'
      BY <3>1, <2>1, <2>2, <2>3, <2>4, <2>6 DEF AbortsDrop, Live, MidPoll, NoTask
    <3>4. LiveIsActive'
      BY <3>1, <2>1, <2>2, <2>3, <2>4, <2>6 DEF LiveIsActive, AbortsDrop, ActiveIsLive,
                                                Placed, TypeOK, Live, MidPoll, NoTask
    <3>5. CancelledIsLast'
      BY <3>1, <2>1, <2>4, <2>6, CancelledStaysLast DEF NoTask
    <3>6. QED
      BY <3>2, <3>3, <3>4, <3>5
  <2>14. QED
    BY <2>7, <2>8, <2>9, <2>10, <2>11, <2>12, <2>13 DEF PromptsInvariant
<1>2. ASSUME NEW s \in Sessions, NEW r \in Requests, r = issued + 1, RefusePrompt(s)
      PROVE  PromptsInvariant'
  <2> USE <1>0, <1>2
  <2>1. /\ ~parallel => \A q \in Requests : task[q].pc \notin MidPoll
        /\ task[r] = NoTask
        /\ out[r] = <<>>
        /\ DOMAIN out[r] = {}
        /\ r \in 0..MaxRequests
    BY EmptySeq DEF RefusePrompt, MainLocks, Unborn, TypeOK, Requests, MidPoll
  <2>2. issued \in Nat
    BY DEF TypeOK
  <2>3. /\ parallel' = parallel
        /\ session' = session
        /\ active' = active
        /\ issued' = r
        /\ lock' = "main"
        /\ input' = input
    BY <2>1 DEF RefusePrompt, MainLocks, TypeOK
  <2>4. task' = task
    BY DEF RefusePrompt, MainLocks
  <2>5. "refused" \in Words /\ Send("refused", r)
    BY DEF RefusePrompt, MainLocks, Words, Final
  <2>6. /\ out' \in [Requests -> Seq(Words)]
        /\ \A q \in Requests : q # r => out'[q] = out[q]
        /\ \A i \in DOMAIN out'[r] :
             \/ i \in DOMAIN out[r] /\ out'[r][i] = out[r][i]
             \/ i = Len(out[r]) + 1 /\ out'[r][i] = "refused"
        /\ \A i, j \in DOMAIN out'[r] :
             i < j => i \in DOMAIN out[r] /\ out'[r][i] = out[r][i]
        /\ \A i \in DOMAIN out[r] : i # Len(out[r]) + 1
    BY <2>5, SentOneMore
  <2>7. TypeOK'
    BY <2>1, <2>2, <2>3, <2>4, <2>6 DEF TypeOK, Words
  <2>8. Unborn'
    BY <2>1, <2>2, <2>3, <2>4, <2>6 DEF Unborn, TypeOK
  <2>9. Placed'
    BY <2>1, <2>2, <2>3, <2>4, <2>6 DEF Placed, TypeOK, NoTask
  <2>10. ActiveIsLive'
    <3>1. \A t \in Sessions : active[t] = r =>
            session[t] = "open" /\ Live(r) /\ task[r].session = t
      BY <2>1 DEF ActiveIsLive
    <3>2. \A t \in Sessions : active'[t] \notin {r, NoPrompt} =>
            active'[t] = active[t] /\ session'[t] = session[t]
      BY <2>2, <2>3, EntryIsRequest DEF TypeOK
    <3>3. \A t \in Sessions : active'[t] = r =>
            /\ session'[t] = "open" /\ task'[r].session = t
            /\ task'[r].pc \notin {"none", "done", "dropped", "responding"}
            /\ ~task'[r].aborted
      BY <3>1, <2>1, <2>2, <2>3, <2>4, <2>6 DEF TypeOK, Live, MidPoll, NoTask
    <3>4. QED
      BY <2>4, <3>2, <3>3, EntriesKept
  <2>11. Spoken'
    BY <2>1, <2>2, <2>3, <2>4, <2>6 DEF Spoken, TypeOK, Live, MidPoll, NoTask
  <2>12. EachSideOnce'
    <3>1. EachSideOnce
      OBVIOUS
    <3>2. \A i, j \in DOMAIN out'[r] : ~(i < j)
      BY <2>1, <2>6
    <3>3. ASSUME NEW q \in Requests, NEW i \in DOMAIN out'[q], NEW j \in DOMAIN out'[q], i < j
          PROVE  /\ out'[q][i] \in {"update", "cancelled"}
                 /\ out'[q][i] = "cancelled" => out'[q][j] # "cancelled"
      <4>1. out'[q] = out[q]
        BY <2>6, <3>2, <3>3
      <4>2. QED
        BY <3>1, <3>3, <4>1 DEF EachSideOnce
    <3>4. QED
      BY <3>3 DEF EachSideOnce
  <2>13. OneThread'
    <3> SUFFICES ASSUME ~parallel
                 PROVE  (PollsApart /\ AbortsDrop /\ LiveIsActive /\ CancelledIsLast)'
      BY <2>3 DEF OneThread
    <3>1. PollsApart /\ AbortsDrop /\ LiveIsActive /\ CancelledIsLast
      BY DEF OneThread
    <3>2. PollsApart'
      BY <3>1, <2>1, <2>2, <2>3, <2>4, <2>6 DEF PollsApart, Live, MidPoll, NoTask
    <3>3. AbortsDrop'
      BY <3>1, <2>1, <2>2, <2>3, <2>4, <2>6 DEF AbortsDrop, Live, MidPoll, NoTask
    <3>4. LiveIsActive'
      BY <3>1, <2>1, <2>2, <2>3, <2>4, <2>6 DEF LiveIsActive, AbortsDrop, ActiveIsLive,
                                                Placed, TypeOK, Live, MidPoll, NoTask
    <3>5. CancelledIsLast'
      BY <3>1, <2>1, <2>2, <2>3, <2>4, <2>6, SMTT(40) DEF CancelledIsLast, AbortsDrop, Spoken, Live,
                                                MidPoll, NoTask
    <3>6. QED
      BY <3>2, <3>3, <3>4, <3>5
  <2>14. QED
    BY <2>7, <2>8, <2>9, <2>10, <2>11, <2>12, <2>13 DEF PromptsInvariant
<1>3. ASSUME NEW s \in Sessions, NEW r \in Requests, r = active[s], Cancel(s)
      PROVE  PromptsInvariant'
  <2> USE <1>0, <1>3
  <2>1. /\ ~parallel => \A q \in Requests : task[q].pc \notin MidPoll
    BY EmptySeq DEF Cancel, MainLocks, TakeActive, Abort, Unborn, TypeOK, Requests, MidPoll
  <2>2. Live(r) /\ task[r].session = s /\ r <= issued
    BY EntryIsRequest DEF Cancel, MainLocks, TakeActive, Abort, Live, Unborn, NoTask, TypeOK
  <2>3. /\ parallel' = parallel
        /\ session' = session
        /\ active' = [active EXCEPT ![s] = NoPrompt]
        /\ issued' = issued
        /\ lock' = "main"
        /\ input' = input
    BY <2>1 DEF Cancel, MainLocks, TakeActive, Abort, TypeOK
  <2>4. /\ task' \in [Requests -> [pc : TaskState, session : Sessions \cup {NoPrompt},
                                aborted : BOOLEAN, failed : BOOLEAN]]
        /\ \A q \in Requests : q # r => task'[q] = task[q]
        /\ task'[r].session = s
        /\ \/ /\ task[r].pc \in {"suspended", "locking"} /\ task'[r].pc = "dropped"
              /\ task'[r].aborted = task[r].aborted
           \/ /\ task[r].pc \in {"running", "finishing"} /\ task'[r].pc = task[r].pc
              /\ task'[r].aborted = TRUE
    <3>1. task[r] \in Tasks /\ task[r].pc \notin {"none", "done", "dropped", "responding"}
      BY <2>2 DEF TypeOK, Tasks, Live
    <3>2. task' = [task EXCEPT ![r] = Abort(task[r])]
      BY DEF Cancel, MainLocks, TakeActive
    <3>3. QED
      BY <3>1, <3>2, <2>2, AbortLemma DEF TypeOK, Tasks
  <2>5. "cancelled" \in Words /\ Send("cancelled", r)
    BY DEF Cancel, MainLocks, TakeActive, Abort, Words, Final
  <2>6. /\ out' \in [Requests -> Seq(Words)]
        /\ \A q \in Requests : q # r => out'[q] = out[q]
        /\ \A i \in DOMAIN out'[r] :
             \/ i \in DOMAIN out[r] /\ out'[r][i] = out[r][i]
             \/ i = Len(out[r]) + 1 /\ out'[r][i] = "cancelled"
        /\ \A i, j \in DOMAIN out'[r] :
             i < j => i \in DOMAIN out[r] /\ out'[r][i] = out[r][i]
        /\ \A i \in DOMAIN out[r] : i # Len(out[r]) + 1
    BY <2>5, SentOneMore
  <2>7. TypeOK'
    BY <2>1, <2>2, <2>3, <2>4, <2>6 DEF TypeOK, Words, Requests
  <2>8. Unborn'
    BY <2>1, <2>2, <2>3, <2>4, <2>6 DEF Unborn, TypeOK
  <2>9. Placed'
    BY <2>1, <2>2, <2>3, <2>4, <2>6 DEF Placed, TypeOK, NoTask
  <2>10. ActiveIsLive'
    <3>1. \A t \in Sessions : active[t] = r =>
            session[t] = "open" /\ Live(r) /\ task[r].session = t
      BY <2>1 DEF ActiveIsLive
    <3>2. \A t \in Sessions : active'[t] \notin {r, NoPrompt} =>
            active'[t] = active[t] /\ session'[t] = session[t]
      BY <2>2, <2>3, EntryIsRequest DEF TypeOK
    <3>3. \A t \in Sessions : active'[t] = r =>
            /\ session'[t] = "open" /\ task'[r].session = t
            /\ task'[r].pc \notin {"none", "done", "dropped", "responding"}
            /\ ~task'[r].aborted
      BY <3>1, <2>1, <2>2, <2>3, <2>4, <2>6 DEF TypeOK, Live, MidPoll, NoTask
    <3>4. QED
      BY <2>4, <3>2, <3>3, EntriesKept
  <2>11. Spoken'
    BY <2>1, <2>2, <2>3, <2>4, <2>6 DEF Spoken, TypeOK, Live, MidPoll, NoTask
  <2>12. EachSideOnce'
    <3>1. MayFollow("cancelled", r)
      BY <2>1, <2>2, <2>5 DEF Spoken, Live, MayFollow
    <3>2. TypeOK /\ EachSideOnce
      OBVIOUS
    <3>3. QED
      BY <2>5, <3>1, <3>2, EachSideStill
  <2>13. OneThread'
    <3> SUFFICES ASSUME ~parallel
                 PROVE  (PollsApart /\ AbortsDrop /\ LiveIsActive /\ CancelledIsLast)'
      BY <2>3 DEF OneThread
    <3>1. PollsApart /\ AbortsDrop /\ LiveIsActive /\ CancelledIsLast
      BY DEF OneThread
    <3>2. PollsApart'
      BY <3>1, <2>1, <2>2, <2>3, <2>4, <2>6 DEF PollsApart, Live, MidPoll, NoTask
    <3>3. AbortsDrop'
      BY <3>1, <2>1, <2>2, <2>3, <2>4, <2>6 DEF AbortsDrop, Live, MidPoll, NoTask
    <3>4. LiveIsActive'
      BY <3>1, <2>1, <2>2, <2>3, <2>4, <2>6 DEF LiveIsActive, AbortsDrop, ActiveIsLive,
                                                Placed, TypeOK, Live, MidPoll, NoTask
    <3>5. CancelledIsLast'
      BY <3>1, <2>1, <2>2, <2>3, <2>4, <2>6, SMTT(40) DEF CancelledIsLast, AbortsDrop, Spoken, Live,
                                                MidPoll, NoTask
    <3>6. QED
      BY <3>2, <3>3, <3>4, <3>5
  <2>14. QED
    BY <2>7, <2>8, <2>9, <2>10, <2>11, <2>12, <2>13 DEF PromptsInvariant
<1>4. ASSUME NEW s \in Sessions, NEW r \in Requests, r = active[s], Close(s)
      PROVE  PromptsInvariant'
  <2> USE <1>0, <1>4
  <2>1. /\ ~parallel => \A q \in Requests : task[q].pc \notin MidPoll
    BY EmptySeq DEF Close, MainLocks, TakeActive, Abort, Unborn, TypeOK, Requests, MidPoll
  <2>2. Live(r) /\ task[r].session = s /\ r <= issued
    BY EntryIsRequest DEF Close, MainLocks, TakeActive, Abort, Live, Unborn, NoTask, TypeOK
  <2>3. /\ parallel' = parallel
        /\ session' = [session EXCEPT ![s] = "closed"]
        /\ active' = [active EXCEPT ![s] = NoPrompt]
        /\ issued' = issued
        /\ lock' = "main"
        /\ input' = input
    BY <2>1 DEF Close, MainLocks, TakeActive, Abort, TypeOK
  <2>4. /\ task' \in [Requests -> [pc : TaskState, session : Sessions \cup {NoPrompt},
                                aborted : BOOLEAN, failed : BOOLEAN]]
        /\ \A q \in Requests : q # r => task'[q] = task[q]
        /\ task'[r].session = s
        /\ \/ /\ task[r].pc \in {"suspended", "locking"} /\ task'[r].pc = "dropped"
              /\ task'[r].aborted = task[r].aborted
           \/ /\ task[r].pc \in {"running", "finishing"} /\ task'[r].pc = task[r].pc
              /\ task'[r].aborted = TRUE
    <3>1. task[r] \in Tasks /\ task[r].pc \notin {"none", "done", "dropped", "responding"}
      BY <2>2 DEF TypeOK, Tasks, Live
    <3>2. task' = [task EXCEPT ![r] = Abort(task[r])]
      BY DEF Close, MainLocks, TakeActive
    <3>3. QED
      BY <3>1, <3>2, <2>2, AbortLemma DEF TypeOK, Tasks
  <2>5. "cancelled" \in Words /\ Send("cancelled", r)
    BY DEF Close, MainLocks, TakeActive, Abort, Words, Final
  <2>6. /\ out' \in [Requests -> Seq(Words)]
        /\ \A q \in Requests : q # r => out'[q] = out[q]
        /\ \A i \in DOMAIN out'[r] :
             \/ i \in DOMAIN out[r] /\ out'[r][i] = out[r][i]
             \/ i = Len(out[r]) + 1 /\ out'[r][i] = "cancelled"
        /\ \A i, j \in DOMAIN out'[r] :
             i < j => i \in DOMAIN out[r] /\ out'[r][i] = out[r][i]
        /\ \A i \in DOMAIN out[r] : i # Len(out[r]) + 1
    BY <2>5, SentOneMore
  <2>7. TypeOK'
    BY <2>1, <2>2, <2>3, <2>4, <2>6 DEF TypeOK, Words, Requests
  <2>8. Unborn'
    BY <2>1, <2>2, <2>3, <2>4, <2>6 DEF Unborn, TypeOK
  <2>9. Placed'
    BY <2>1, <2>2, <2>3, <2>4, <2>6 DEF Placed, TypeOK, NoTask
  <2>10. ActiveIsLive'
    <3>1. \A t \in Sessions : active[t] = r =>
            session[t] = "open" /\ Live(r) /\ task[r].session = t
      BY <2>1 DEF ActiveIsLive
    <3>2. \A t \in Sessions : active'[t] \notin {r, NoPrompt} =>
            active'[t] = active[t] /\ session'[t] = session[t]
      BY <2>2, <2>3, EntryIsRequest DEF TypeOK
    <3>3. \A t \in Sessions : active'[t] = r =>
            /\ session'[t] = "open" /\ task'[r].session = t
            /\ task'[r].pc \notin {"none", "done", "dropped", "responding"}
            /\ ~task'[r].aborted
      BY <3>1, <2>1, <2>2, <2>3, <2>4, <2>6 DEF TypeOK, Live, MidPoll, NoTask
    <3>4. QED
      BY <2>4, <3>2, <3>3, EntriesKept
  <2>11. Spoken'
    BY <2>1, <2>2, <2>3, <2>4, <2>6, SMTT(40) DEF Spoken, TypeOK, Live, MidPoll, NoTask
  <2>12. EachSideOnce'
    <3>1. MayFollow("cancelled", r)
      BY <2>1, <2>2, <2>5 DEF Spoken, Live, MayFollow
    <3>2. TypeOK /\ EachSideOnce
      OBVIOUS
    <3>3. QED
      BY <2>5, <3>1, <3>2, EachSideStill
  <2>13. OneThread'
    <3> SUFFICES ASSUME ~parallel
                 PROVE  (PollsApart /\ AbortsDrop /\ LiveIsActive /\ CancelledIsLast)'
      BY <2>3 DEF OneThread
    <3>1. PollsApart /\ AbortsDrop /\ LiveIsActive /\ CancelledIsLast
      BY DEF OneThread
    <3>2. PollsApart'
      BY <3>1, <2>1, <2>2, <2>3, <2>4, <2>6 DEF PollsApart, Live, MidPoll, NoTask
    <3>3. AbortsDrop'
      BY <3>1, <2>1, <2>2, <2>3, <2>4, <2>6, SMTT(40) DEF AbortsDrop, Live, MidPoll, NoTask
    <3>4. LiveIsActive'
      BY <3>1, <2>1, <2>2, <2>3, <2>4, <2>6, SMTT(40) DEF LiveIsActive, AbortsDrop, ActiveIsLive,
                                                Placed, TypeOK, Live, MidPoll, NoTask
    <3>5. CancelledIsLast'
      BY <3>1, <2>1, <2>2, <2>3, <2>4, <2>6, SMTT(40) DEF CancelledIsLast, AbortsDrop, Spoken, Live,
                                                MidPoll, NoTask
    <3>6. QED
      BY <3>2, <3>3, <3>4, <3>5
  <2>14. QED
    BY <2>7, <2>8, <2>9, <2>10, <2>11, <2>12, <2>13 DEF PromptsInvariant
<1>5. ASSUME NEW r \in Requests, Poll(r)
      PROVE  PromptsInvariant'
  <2> USE <1>0, <1>5
  <2>1. /\ task[r].pc \in {"suspended"}
        /\ (~parallel => lock = "free")
    BY EmptySeq DEF Poll, MayRun, To, Unborn, TypeOK, Requests, MidPoll
  <2>2. r <= issued /\ task[r].session \in Sessions
    BY <2>1 DEF Unborn, Placed, NoTask, TypeOK
  <2>3. /\ parallel' = parallel
        /\ session' = session
        /\ active' = active
        /\ issued' = issued
        /\ lock' = lock
        /\ input' = input
    BY <2>1 DEF Poll, MayRun, To, TypeOK
  <2>4. /\ task' \in [Requests -> [pc : TaskState, session : Sessions \cup {NoPrompt},
                                aborted : BOOLEAN, failed : BOOLEAN]]
        /\ \A q \in Requests : q # r => task'[q] = task[q]
        /\ task'[r].pc = "running"
        /\ task'[r].session = task[r].session
        /\ task'[r].aborted = task[r].aborted
    <3>1. PICK pc \in TaskState : To(r, pc) /\ pc = "running"
      BY DEF Poll, TaskState, MidPoll
    <3>2. TypeOK
      OBVIOUS
    <3>3. QED
      BY <3>1, <3>2, ToMoves DEF Tasks
  <2>6. out' = out
    BY DEF Poll, MayRun, To
  <2>7. TypeOK'
    BY <2>1, <2>2, <2>3, <2>4, <2>6 DEF TypeOK, Words, Requests
  <2>8. Unborn'
    BY <2>1, <2>2, <2>3, <2>4, <2>6 DEF Unborn, TypeOK
  <2>9. Placed'
    BY <2>1, <2>2, <2>3, <2>4, <2>6 DEF Placed, TypeOK, NoTask
  <2>10. ActiveIsLive'
    <3>1. \A t \in Sessions : active[t] = r =>
            session[t] = "open" /\ Live(r) /\ task[r].session = t
      BY <2>1 DEF ActiveIsLive
    <3>2. \A t \in Sessions : active'[t] \notin {r, NoPrompt} =>
            active'[t] = active[t] /\ session'[t] = session[t]
      BY <2>2, <2>3, EntryIsRequest DEF TypeOK
    <3>3. \A t \in Sessions : active'[t] = r =>
            /\ session'[t] = "open" /\ task'[r].session = t
            /\ task'[r].pc \notin {"none", "done", "dropped", "responding"}
            /\ ~task'[r].aborted
      BY <3>1, <2>1, <2>2, <2>3, <2>4, <2>6 DEF TypeOK, Live, MidPoll, NoTask
    <3>4. QED
      BY <2>4, <3>2, <3>3, EntriesKept
  <2>11. Spoken'
    BY <2>1, <2>2, <2>3, <2>4, <2>6 DEF Spoken, TypeOK, Live, MidPoll, NoTask
  <2>12. EachSideOnce'
    BY <2>6 DEF EachSideOnce
  <2>13. OneThread'
    <3> SUFFICES ASSUME ~parallel
                 PROVE  (PollsApart /\ AbortsDrop /\ LiveIsActive /\ CancelledIsLast)'
      BY <2>3 DEF OneThread
    <3>1. PollsApart /\ AbortsDrop /\ LiveIsActive /\ CancelledIsLast
      BY DEF OneThread
    <3>2. PollsApart'
      BY <3>1, <2>1, <2>2, <2>3, <2>4, <2>6 DEF PollsApart, Live, MidPoll, NoTask
    <3>3. AbortsDrop'
      BY <3>1, <2>1, <2>2, <2>3, <2>4, <2>6 DEF AbortsDrop, Live, MidPoll, NoTask
    <3>4. LiveIsActive'
      BY <3>1, <2>1, <2>2, <2>3, <2>4, <2>6 DEF LiveIsActive, AbortsDrop, ActiveIsLive,
                                                Placed, TypeOK, Live, MidPoll, NoTask
    <3>5. CancelledIsLast'
      BY <3>1, <2>1, <2>4, <2>6, CancelledStaysLast
    <3>6. QED
      BY <3>2, <3>3, <3>4, <3>5
  <2>14. QED
    BY <2>7, <2>8, <2>9, <2>10, <2>11, <2>12, <2>13 DEF PromptsInvariant
<1>6. ASSUME NEW r \in Requests, Update(r)
      PROVE  PromptsInvariant'
  <2> USE <1>0, <1>6
  <2>1. /\ task[r].pc \in {"running"}
    BY EmptySeq DEF Update, MayRun, Unborn, TypeOK, Requests, MidPoll
  <2>2. r <= issued /\ task[r].session \in Sessions
    BY <2>1 DEF Unborn, Placed, NoTask, TypeOK
  <2>3. /\ parallel' = parallel
        /\ session' = session
        /\ active' = active
        /\ issued' = issued
        /\ lock' = lock
        /\ input' = input
    BY <2>1 DEF Update, MayRun, TypeOK
  <2>4. task' = task
    BY DEF Update, MayRun
  <2>5. "update" \in Words /\ Send("update", r)
    BY DEF Update, MayRun, Words, Final
  <2>6. /\ out' \in [Requests -> Seq(Words)]
        /\ \A q \in Requests : q # r => out'[q] = out[q]
        /\ \A i \in DOMAIN out'[r] :
             \/ i \in DOMAIN out[r] /\ out'[r][i] = out[r][i]
             \/ i = Len(out[r]) + 1 /\ out'[r][i] = "update"
        /\ \A i, j \in DOMAIN out'[r] :
             i < j => i \in DOMAIN out[r] /\ out'[r][i] = out[r][i]
        /\ \A i \in DOMAIN out[r] : i # Len(out[r]) + 1
    BY <2>5, SentOneMore
  <2>7. TypeOK'
    BY <2>1, <2>2, <2>3, <2>4, <2>6 DEF TypeOK, Words, Requests
  <2>8. Unborn'
    BY <2>1, <2>2, <2>3, <2>4, <2>6 DEF Unborn, TypeOK
  <2>9. Placed'
    BY <2>1, <2>2, <2>3, <2>4, <2>6 DEF Placed, TypeOK, NoTask
  <2>10. ActiveIsLive'
    <3>1. \A t \in Sessions : active[t] = r =>
            session[t] = "open" /\ Live(r) /\ task[r].session = t
      BY <2>1 DEF ActiveIsLive
    <3>2. \A t \in Sessions : active'[t] \notin {r, NoPrompt} =>
            active'[t] = active[t] /\ session'[t] = session[t]
      BY <2>2, <2>3, EntryIsRequest DEF TypeOK
    <3>3. \A t \in Sessions : active'[t] = r =>
            /\ session'[t] = "open" /\ task'[r].session = t
            /\ task'[r].pc \notin {"none", "done", "dropped", "responding"}
            /\ ~task'[r].aborted
      BY <3>1, <2>1, <2>2, <2>3, <2>4, <2>6 DEF TypeOK, Live, MidPoll, NoTask
    <3>4. QED
      BY <2>4, <3>2, <3>3, EntriesKept
  <2>11. Spoken'
    BY <2>1, <2>2, <2>3, <2>4, <2>6 DEF Spoken, TypeOK, Live, MidPoll, NoTask
  <2>12. EachSideOnce'
    <3>1. MayFollow("update", r)
      BY <2>1, <2>2, <2>5 DEF Spoken, Live, MayFollow
    <3>2. TypeOK /\ EachSideOnce
      OBVIOUS
    <3>3. QED
      BY <2>5, <3>1, <3>2, EachSideStill
  <2>13. OneThread'
    <3> SUFFICES ASSUME ~parallel
                 PROVE  (PollsApart /\ AbortsDrop /\ LiveIsActive /\ CancelledIsLast)'
      BY <2>3 DEF OneThread
    <3>1. PollsApart /\ AbortsDrop /\ LiveIsActive /\ CancelledIsLast
      BY DEF OneThread
    <3>2. PollsApart'
      BY <3>1, <2>1, <2>2, <2>3, <2>4, <2>6 DEF PollsApart, Live, MidPoll, NoTask
    <3>3. AbortsDrop'
      BY <3>1, <2>1, <2>2, <2>3, <2>4, <2>6 DEF AbortsDrop, Live, MidPoll, NoTask
    <3>4. LiveIsActive'
      BY <3>1, <2>1, <2>2, <2>3, <2>4, <2>6 DEF LiveIsActive, AbortsDrop, ActiveIsLive,
                                                Placed, TypeOK, Live, MidPoll, NoTask
    <3>5. CancelledIsLast'
      BY <3>1, <2>1, <2>2, <2>3, <2>4, <2>6, SMTT(40) DEF CancelledIsLast, AbortsDrop, Spoken, Live,
                                                MidPoll, NoTask
    <3>6. QED
      BY <3>2, <3>3, <3>4, <3>5
  <2>14. QED
    BY <2>7, <2>8, <2>9, <2>10, <2>11, <2>12, <2>13 DEF PromptsInvariant
<1>7. ASSUME NEW r \in Requests, StreamError(r)
      PROVE  PromptsInvariant'
  <2> USE <1>0, <1>7
  <2>1. /\ task[r].pc \in {"running"}
    BY EmptySeq DEF StreamError, MayRun, Unborn, TypeOK, Requests, MidPoll
  <2>2. r <= issued /\ task[r].session \in Sessions
    BY <2>1 DEF Unborn, Placed, NoTask, TypeOK
  <2>3. /\ parallel' = parallel
        /\ session' = session
        /\ active' = active
        /\ issued' = issued
        /\ lock' = lock
        /\ input' = input
    BY <2>1 DEF StreamError, MayRun, TypeOK
  <2>4. /\ task' \in [Requests -> [pc : TaskState, session : Sessions \cup {NoPrompt},
                                aborted : BOOLEAN, failed : BOOLEAN]]
        /\ \A q \in Requests : q # r => task'[q] = task[q]
        /\ task'[r].pc = task[r].pc
        /\ task'[r].session = task[r].session
        /\ task'[r].aborted = task[r].aborted
    BY <2>1, <2>2 DEF StreamError, MayRun, TypeOK, TaskState, MidPoll, NoTask, Live
  <2>6. out' = out
    BY DEF StreamError, MayRun
  <2>7. TypeOK'
    BY <2>1, <2>2, <2>3, <2>4, <2>6 DEF TypeOK, Words, Requests
  <2>8. Unborn'
    BY <2>1, <2>2, <2>3, <2>4, <2>6 DEF Unborn, TypeOK
  <2>9. Placed'
    BY <2>1, <2>2, <2>3, <2>4, <2>6 DEF Placed, TypeOK, NoTask
  <2>10. ActiveIsLive'
    <3>1. \A t \in Sessions : active[t] = r =>
            session[t] = "open" /\ Live(r) /\ task[r].session = t
      BY <2>1 DEF ActiveIsLive
    <3>2. \A t \in Sessions : active'[t] \notin {r, NoPrompt} =>
            active'[t] = active[t] /\ session'[t] = session[t]
      BY <2>2, <2>3, EntryIsRequest DEF TypeOK
    <3>3. \A t \in Sessions : active'[t] = r =>
            /\ session'[t] = "open" /\ task'[r].session = t
            /\ task'[r].pc \notin {"none", "done", "dropped", "responding"}
            /\ ~task'[r].aborted
      BY <3>1, <2>1, <2>2, <2>3, <2>4, <2>6 DEF TypeOK, Live, MidPoll, NoTask
    <3>4. QED
      BY <2>4, <3>2, <3>3, EntriesKept
  <2>11. Spoken'
    BY <2>1, <2>2, <2>3, <2>4, <2>6 DEF Spoken, TypeOK, Live, MidPoll, NoTask
  <2>12. EachSideOnce'
    BY <2>6 DEF EachSideOnce
  <2>13. OneThread'
    <3> SUFFICES ASSUME ~parallel
                 PROVE  (PollsApart /\ AbortsDrop /\ LiveIsActive /\ CancelledIsLast)'
      BY <2>3 DEF OneThread
    <3>1. PollsApart /\ AbortsDrop /\ LiveIsActive /\ CancelledIsLast
      BY DEF OneThread
    <3>2. PollsApart'
      BY <3>1, <2>1, <2>2, <2>3, <2>4, <2>6 DEF PollsApart, Live, MidPoll, NoTask
    <3>3. AbortsDrop'
      BY <3>1, <2>1, <2>2, <2>3, <2>4, <2>6 DEF AbortsDrop, Live, MidPoll, NoTask
    <3>4. LiveIsActive'
      BY <3>1, <2>1, <2>2, <2>3, <2>4, <2>6 DEF LiveIsActive, AbortsDrop, ActiveIsLive,
                                                Placed, TypeOK, Live, MidPoll, NoTask
    <3>5. CancelledIsLast'
      BY <3>1, <2>1, <2>4, <2>6, CancelledStaysLast
    <3>6. QED
      BY <3>2, <3>3, <3>4, <3>5
  <2>14. QED
    BY <2>7, <2>8, <2>9, <2>10, <2>11, <2>12, <2>13 DEF PromptsInvariant
<1>8. ASSUME NEW r \in Requests, Yield(r)
      PROVE  PromptsInvariant'
  <2> USE <1>0, <1>8
  <2>1. /\ task[r].pc \in {"running"}
    BY EmptySeq DEF Yield, MayRun, Suspend, To, Unborn, TypeOK, Requests, MidPoll
  <2>2. r <= issued /\ task[r].session \in Sessions
    BY <2>1 DEF Unborn, Placed, NoTask, TypeOK
  <2>3. /\ parallel' = parallel
        /\ session' = session
        /\ active' = active
        /\ issued' = issued
        /\ lock' = lock
        /\ input' = input
    BY <2>1 DEF Yield, MayRun, Suspend, To, TypeOK
  <2>4. /\ task' \in [Requests -> [pc : TaskState, session : Sessions \cup {NoPrompt},
                                aborted : BOOLEAN, failed : BOOLEAN]]
        /\ \A q \in Requests : q # r => task'[q] = task[q]
        /\ task'[r].pc = (IF task[r].aborted THEN "dropped" ELSE "suspended")
        /\ task'[r].session = task[r].session
        /\ task'[r].aborted = task[r].aborted
    <3>1. PICK pc \in TaskState : To(r, pc) /\ pc = (IF task[r].aborted THEN "dropped" ELSE "suspended")
      BY DEF Yield, Suspend, TaskState, MidPoll
    <3>2. TypeOK
      OBVIOUS
    <3>3. QED
      BY <3>1, <3>2, ToMoves DEF Tasks
  <2>6. out' = out
    BY DEF Yield, MayRun, Suspend, To
  <2>7. TypeOK'
    BY <2>1, <2>2, <2>3, <2>4, <2>6 DEF TypeOK, Words, Requests
  <2>8. Unborn'
    BY <2>1, <2>2, <2>3, <2>4, <2>6 DEF Unborn, TypeOK
  <2>9. Placed'
    BY <2>1, <2>2, <2>3, <2>4, <2>6 DEF Placed, TypeOK, NoTask
  <2>10. ActiveIsLive'
    <3>1. \A t \in Sessions : active[t] = r =>
            session[t] = "open" /\ Live(r) /\ task[r].session = t
      BY <2>1 DEF ActiveIsLive
    <3>2. \A t \in Sessions : active'[t] \notin {r, NoPrompt} =>
            active'[t] = active[t] /\ session'[t] = session[t]
      BY <2>2, <2>3, EntryIsRequest DEF TypeOK
    <3>3. \A t \in Sessions : active'[t] = r =>
            /\ session'[t] = "open" /\ task'[r].session = t
            /\ task'[r].pc \notin {"none", "done", "dropped", "responding"}
            /\ ~task'[r].aborted
      BY <3>1, <2>1, <2>2, <2>3, <2>4, <2>6 DEF TypeOK, Live, MidPoll, NoTask
    <3>4. QED
      BY <2>4, <3>2, <3>3, EntriesKept
  <2>11. Spoken'
    BY <2>1, <2>2, <2>3, <2>4, <2>6 DEF Spoken, TypeOK, Live, MidPoll, NoTask
  <2>12. EachSideOnce'
    BY <2>6 DEF EachSideOnce
  <2>13. OneThread'
    <3> SUFFICES ASSUME ~parallel
                 PROVE  (PollsApart /\ AbortsDrop /\ LiveIsActive /\ CancelledIsLast)'
      BY <2>3 DEF OneThread
    <3>1. PollsApart /\ AbortsDrop /\ LiveIsActive /\ CancelledIsLast
      BY DEF OneThread
    <3>2. PollsApart'
      BY <3>1, <2>1, <2>2, <2>3, <2>4, <2>6 DEF PollsApart, Live, MidPoll, NoTask
    <3>3. AbortsDrop'
      BY <3>1, <2>1, <2>2, <2>3, <2>4, <2>6 DEF AbortsDrop, Live, MidPoll, NoTask
    <3>4. LiveIsActive'
      BY <3>1, <2>1, <2>2, <2>3, <2>4, <2>6 DEF LiveIsActive, AbortsDrop, ActiveIsLive,
                                                Placed, TypeOK, Live, MidPoll, NoTask
    <3>5. CancelledIsLast'
      BY <3>1, <2>1, <2>4, <2>6, CancelledStaysLast
    <3>6. QED
      BY <3>2, <3>3, <3>4, <3>5
  <2>14. QED
    BY <2>7, <2>8, <2>9, <2>10, <2>11, <2>12, <2>13 DEF PromptsInvariant
<1>9. ASSUME NEW r \in Requests, EndOfStream(r)
      PROVE  PromptsInvariant'
  <2> USE <1>0, <1>9
  <2>1. /\ task[r].pc \in {"running"}
        /\ (~parallel => lock = "free")
    BY EmptySeq DEF EndOfStream, MayRun, To, Unborn, TypeOK, Requests, MidPoll
  <2>2. r <= issued /\ task[r].session \in Sessions
    BY <2>1 DEF Unborn, Placed, NoTask, TypeOK
  <2>3. /\ parallel' = parallel
        /\ session' = session
        /\ active' = active
        /\ issued' = issued
        /\ lock' = lock
        /\ input' = input
    BY <2>1 DEF EndOfStream, MayRun, To, TypeOK
  <2>4. /\ task' \in [Requests -> [pc : TaskState, session : Sessions \cup {NoPrompt},
                                aborted : BOOLEAN, failed : BOOLEAN]]
        /\ \A q \in Requests : q # r => task'[q] = task[q]
        /\ task'[r].pc = "finishing"
        /\ task'[r].session = task[r].session
        /\ task'[r].aborted = task[r].aborted
    <3>1. PICK pc \in TaskState : To(r, pc) /\ pc = "finishing"
      BY DEF EndOfStream, TaskState, MidPoll
    <3>2. TypeOK
      OBVIOUS
    <3>3. QED
      BY <3>1, <3>2, ToMoves DEF Tasks
  <2>6. out' = out
    BY DEF EndOfStream, MayRun, To
  <2>7. TypeOK'
    BY <2>1, <2>2, <2>3, <2>4, <2>6 DEF TypeOK, Words, Requests
  <2>8. Unborn'
    BY <2>1, <2>2, <2>3, <2>4, <2>6 DEF Unborn, TypeOK
  <2>9. Placed'
    BY <2>1, <2>2, <2>3, <2>4, <2>6 DEF Placed, TypeOK, NoTask
  <2>10. ActiveIsLive'
    <3>1. \A t \in Sessions : active[t] = r =>
            session[t] = "open" /\ Live(r) /\ task[r].session = t
      BY <2>1 DEF ActiveIsLive
    <3>2. \A t \in Sessions : active'[t] \notin {r, NoPrompt} =>
            active'[t] = active[t] /\ session'[t] = session[t]
      BY <2>2, <2>3, EntryIsRequest DEF TypeOK
    <3>3. \A t \in Sessions : active'[t] = r =>
            /\ session'[t] = "open" /\ task'[r].session = t
            /\ task'[r].pc \notin {"none", "done", "dropped", "responding"}
            /\ ~task'[r].aborted
      BY <3>1, <2>1, <2>2, <2>3, <2>4, <2>6 DEF TypeOK, Live, MidPoll, NoTask
    <3>4. QED
      BY <2>4, <3>2, <3>3, EntriesKept
  <2>11. Spoken'
    BY <2>1, <2>2, <2>3, <2>4, <2>6 DEF Spoken, TypeOK, Live, MidPoll, NoTask
  <2>12. EachSideOnce'
    BY <2>6 DEF EachSideOnce
  <2>13. OneThread'
    <3> SUFFICES ASSUME ~parallel
                 PROVE  (PollsApart /\ AbortsDrop /\ LiveIsActive /\ CancelledIsLast)'
      BY <2>3 DEF OneThread
    <3>1. PollsApart /\ AbortsDrop /\ LiveIsActive /\ CancelledIsLast
      BY DEF OneThread
    <3>2. PollsApart'
      BY <3>1, <2>1, <2>2, <2>3, <2>4, <2>6 DEF PollsApart, Live, MidPoll, NoTask
    <3>3. AbortsDrop'
      BY <3>1, <2>1, <2>2, <2>3, <2>4, <2>6 DEF AbortsDrop, Live, MidPoll, NoTask
    <3>4. LiveIsActive'
      BY <3>1, <2>1, <2>2, <2>3, <2>4, <2>6 DEF LiveIsActive, AbortsDrop, ActiveIsLive,
                                                Placed, TypeOK, Live, MidPoll, NoTask
    <3>5. CancelledIsLast'
      BY <3>1, <2>1, <2>4, <2>6, CancelledStaysLast
    <3>6. QED
      BY <3>2, <3>3, <3>4, <3>5
  <2>14. QED
    BY <2>7, <2>8, <2>9, <2>10, <2>11, <2>12, <2>13 DEF PromptsInvariant
<1>10. ASSUME NEW r \in Requests, AwaitLock(r)
      PROVE  PromptsInvariant'
  <2> USE <1>0, <1>10
  <2>1. /\ task[r].pc \in {"finishing"}
        /\ (~parallel => lock = "free")
        /\ (lock = "main" \/ \E q \in Requests : task[q].pc = "locking")
    BY EmptySeq DEF AwaitLock, MayRun, Suspend, To, Waiting, Unborn, TypeOK, Requests,
                    MidPoll
  <2>2. r <= issued /\ task[r].session \in Sessions
    BY <2>1 DEF Unborn, Placed, NoTask, TypeOK
  <2>3. /\ parallel' = parallel
        /\ session' = session
        /\ active' = active
        /\ issued' = issued
        /\ lock' = lock
        /\ input' = input
    BY <2>1 DEF AwaitLock, MayRun, Suspend, To, Waiting, TypeOK
  <2>4. /\ task' \in [Requests -> [pc : TaskState, session : Sessions \cup {NoPrompt},
                                aborted : BOOLEAN, failed : BOOLEAN]]
        /\ \A q \in Requests : q # r => task'[q] = task[q]
        /\ task'[r].pc = (IF task[r].aborted THEN "dropped" ELSE "locking")
        /\ task'[r].session = task[r].session
        /\ task'[r].aborted = task[r].aborted
    <3>1. PICK pc \in TaskState : To(r, pc) /\ pc = (IF task[r].aborted THEN "dropped" ELSE "locking")
      BY DEF AwaitLock, Suspend, TaskState, MidPoll
    <3>2. TypeOK
      OBVIOUS
    <3>3. QED
      BY <3>1, <3>2, ToMoves DEF Tasks
  <2>6. out' = out
    BY DEF AwaitLock, MayRun, Suspend, To, Waiting
  <2>7. TypeOK'
    BY <2>1, <2>2, <2>3, <2>4, <2>6 DEF TypeOK, Words, Requests
  <2>8. Unborn'
    BY <2>1, <2>2, <2>3, <2>4, <2>6 DEF Unborn, TypeOK
  <2>9. Placed'
    BY <2>1, <2>2, <2>3, <2>4, <2>6 DEF Placed, TypeOK, NoTask
  <2>10. ActiveIsLive'
    <3>1. \A t \in Sessions : active[t] = r =>
            session[t] = "open" /\ Live(r) /\ task[r].session = t
      BY <2>1 DEF ActiveIsLive
    <3>2. \A t \in Sessions : active'[t] \notin {r, NoPrompt} =>
            active'[t] = active[t] /\ session'[t] = session[t]
      BY <2>2, <2>3, EntryIsRequest DEF TypeOK
    <3>3. \A t \in Sessions : active'[t] = r =>
            /\ session'[t] = "open" /\ task'[r].session = t
            /\ task'[r].pc \notin {"none", "done", "dropped", "responding"}
            /\ ~task'[r].aborted
      BY <3>1, <2>1, <2>2, <2>3, <2>4, <2>6 DEF TypeOK, Live, MidPoll, NoTask
    <3>4. QED
      BY <2>4, <3>2, <3>3, EntriesKept
  <2>11. Spoken'
    BY <2>1, <2>2, <2>3, <2>4, <2>6 DEF Spoken, TypeOK, Live, MidPoll, NoTask
  <2>12. EachSideOnce'
    BY <2>6 DEF EachSideOnce
  <2>13. OneThread'
    <3> SUFFICES ASSUME ~parallel
                 PROVE  (PollsApart /\ AbortsDrop /\ LiveIsActive /\ CancelledIsLast)'
      BY <2>3 DEF OneThread
    <3>1. PollsApart /\ AbortsDrop /\ LiveIsActive /\ CancelledIsLast
      BY DEF OneThread
    <3>2. PollsApart'
      BY <3>1, <2>1, <2>2, <2>3, <2>4, <2>6 DEF PollsApart, Live, MidPoll, NoTask
    <3>3. AbortsDrop'
      BY <3>1, <2>1, <2>2, <2>3, <2>4, <2>6 DEF AbortsDrop, Live, MidPoll, NoTask
    <3>4. LiveIsActive'
      BY <3>1, <2>1, <2>2, <2>3, <2>4, <2>6 DEF LiveIsActive, AbortsDrop, ActiveIsLive,
                                                Placed, TypeOK, Live, MidPoll, NoTask
    <3>5. CancelledIsLast'
      BY <3>1, <2>1, <2>4, <2>6, CancelledStaysLast
    <3>6. QED
      BY <3>2, <3>3, <3>4, <3>5
  <2>14. QED
    BY <2>7, <2>8, <2>9, <2>10, <2>11, <2>12, <2>13 DEF PromptsInvariant
<1>11. ASSUME NEW r \in Requests, ClearActive(r)
      PROVE  PromptsInvariant'
  <2> USE <1>0, <1>11
  <2>1. /\ task[r].pc \in {"locking", "finishing"}
        /\ lock = "free"
    BY EmptySeq DEF ClearActive, MayRun, To, Waiting, Unborn, TypeOK, Requests, MidPoll
  <2>2. r <= issued /\ task[r].session \in Sessions
    BY <2>1 DEF Unborn, Placed, NoTask, TypeOK
  <2>3. /\ parallel' = parallel
        /\ session' = session
        /\ active' = [active EXCEPT ![task[r].session] = NoPrompt]
        /\ issued' = issued
        /\ lock' = lock
        /\ input' = input
    BY <2>1 DEF ClearActive, MayRun, To, Waiting, TypeOK
  <2>4. /\ task' \in [Requests -> [pc : TaskState, session : Sessions \cup {NoPrompt},
                                aborted : BOOLEAN, failed : BOOLEAN]]
        /\ \A q \in Requests : q # r => task'[q] = task[q]
        /\ task'[r].pc = "responding"
        /\ task'[r].session = task[r].session
        /\ task'[r].aborted = task[r].aborted
    <3>1. PICK pc \in TaskState : To(r, pc) /\ pc = "responding"
      BY DEF ClearActive, TaskState, MidPoll
    <3>2. TypeOK
      OBVIOUS
    <3>3. QED
      BY <3>1, <3>2, ToMoves DEF Tasks
  <2>6. out' = out
    BY DEF ClearActive, MayRun, To, Waiting
  <2>7. TypeOK'
    BY <2>1, <2>2, <2>3, <2>4, <2>6 DEF TypeOK, Words, Requests
  <2>8. Unborn'
    BY <2>1, <2>2, <2>3, <2>4, <2>6 DEF Unborn, TypeOK
  <2>9. Placed'
    BY <2>1, <2>2, <2>3, <2>4, <2>6 DEF Placed, TypeOK, NoTask
  <2>10. ActiveIsLive'
    <3>1. \A t \in Sessions : active[t] = r =>
            session[t] = "open" /\ Live(r) /\ task[r].session = t
      BY <2>1 DEF ActiveIsLive
    <3>2. \A t \in Sessions : active'[t] \notin {r, NoPrompt} =>
            active'[t] = active[t] /\ session'[t] = session[t]
      BY <2>2, <2>3, EntryIsRequest DEF TypeOK
    <3>3. \A t \in Sessions : active'[t] = r =>
            /\ session'[t] = "open" /\ task'[r].session = t
            /\ task'[r].pc \notin {"none", "done", "dropped", "responding"}
            /\ ~task'[r].aborted
      BY <3>1, <2>1, <2>2, <2>3, <2>4, <2>6 DEF TypeOK, Live, MidPoll, NoTask
    <3>4. QED
      BY <2>4, <3>2, <3>3, EntriesKept
  <2>11. Spoken'
    BY <2>1, <2>2, <2>3, <2>4, <2>6 DEF Spoken, TypeOK, Live, MidPoll, NoTask
  <2>12. EachSideOnce'
    BY <2>6 DEF EachSideOnce
  <2>13. OneThread'
    <3> SUFFICES ASSUME ~parallel
                 PROVE  (PollsApart /\ AbortsDrop /\ LiveIsActive /\ CancelledIsLast)'
      BY <2>3 DEF OneThread
    <3>1. PollsApart /\ AbortsDrop /\ LiveIsActive /\ CancelledIsLast
      BY DEF OneThread
    <3>2. PollsApart'
      BY <3>1, <2>1, <2>2, <2>3, <2>4, <2>6 DEF PollsApart, Live, MidPoll, NoTask
    <3>3. AbortsDrop'
      BY <3>1, <2>1, <2>2, <2>3, <2>4, <2>6 DEF AbortsDrop, Live, MidPoll, NoTask
    <3>4. LiveIsActive'
      BY <3>1, <2>1, <2>2, <2>3, <2>4, <2>6 DEF LiveIsActive, AbortsDrop, ActiveIsLive,
                                                Placed, TypeOK, Live, MidPoll, NoTask
    <3>5. CancelledIsLast'
      BY <3>1, <2>1, <2>4, <2>6, CancelledStaysLast
    <3>6. QED
      BY <3>2, <3>3, <3>4, <3>5
  <2>14. QED
    BY <2>7, <2>8, <2>9, <2>10, <2>11, <2>12, <2>13 DEF PromptsInvariant
<1>12. ASSUME NEW r \in Requests, Respond(r)
      PROVE  PromptsInvariant'
  <2> USE <1>0, <1>12
  <2>1. /\ task[r].pc \in {"responding"}
    BY EmptySeq DEF Respond, MayRun, To, Unborn, TypeOK, Requests, MidPoll
  <2>2. r <= issued /\ task[r].session \in Sessions
    BY <2>1 DEF Unborn, Placed, NoTask, TypeOK
  <2>3. /\ parallel' = parallel
        /\ session' = session
        /\ active' = active
        /\ issued' = issued
        /\ lock' = lock
        /\ input' = input
    BY <2>1 DEF Respond, MayRun, To, TypeOK
  <2>4. /\ task' \in [Requests -> [pc : TaskState, session : Sessions \cup {NoPrompt},
                                aborted : BOOLEAN, failed : BOOLEAN]]
        /\ \A q \in Requests : q # r => task'[q] = task[q]
        /\ task'[r].pc = "done"
        /\ task'[r].session = task[r].session
        /\ task'[r].aborted = task[r].aborted
    <3>1. PICK pc \in TaskState : To(r, pc) /\ pc = "done"
      BY DEF Respond, TaskState, MidPoll
    <3>2. TypeOK
      OBVIOUS
    <3>3. QED
      BY <3>1, <3>2, ToMoves DEF Tasks
  <2>5. PICK kind \in {"error", "end_turn"} : Send(kind, r) /\ kind \in Words
    BY DEF Respond, MayRun, To, Words, Final
  <2>6. /\ out' \in [Requests -> Seq(Words)]
        /\ \A q \in Requests : q # r => out'[q] = out[q]
        /\ \A i \in DOMAIN out'[r] :
             \/ i \in DOMAIN out[r] /\ out'[r][i] = out[r][i]
             \/ i = Len(out[r]) + 1 /\ out'[r][i] = kind
        /\ \A i, j \in DOMAIN out'[r] :
             i < j => i \in DOMAIN out[r] /\ out'[r][i] = out[r][i]
        /\ \A i \in DOMAIN out[r] : i # Len(out[r]) + 1
    BY <2>5, SentOneMore
  <2>7. TypeOK'
    BY <2>1, <2>2, <2>3, <2>4, <2>6, <2>5 DEF TypeOK, Words, Requests
  <2>8. Unborn'
    BY <2>1, <2>2, <2>3, <2>4, <2>6, <2>5 DEF Unborn, TypeOK
  <2>9. Placed'
    BY <2>1, <2>2, <2>3, <2>4, <2>6, <2>5 DEF Placed, TypeOK, NoTask
  <2>10. ActiveIsLive'
    <3>1. \A t \in Sessions : active[t] = r =>
            session[t] = "open" /\ Live(r) /\ task[r].session = t
      BY <2>1 DEF ActiveIsLive
    <3>2. \A t \in Sessions : active'[t] \notin {r, NoPrompt} =>
            active'[t] = active[t] /\ session'[t] = session[t]
      BY <2>2, <2>3, EntryIsRequest DEF TypeOK
    <3>3. \A t \in Sessions : active'[t] = r =>
            /\ session'[t] = "open" /\ task'[r].session = t
            /\ task'[r].pc \notin {"none", "done", "dropped", "responding"}
            /\ ~task'[r].aborted
      BY <3>1, <2>1, <2>2, <2>3, <2>4, <2>6, <2>5 DEF TypeOK, Live, MidPoll, NoTask
    <3>4. QED
      BY <2>4, <3>2, <3>3, EntriesKept
  <2>11. Spoken'
    BY <2>1, <2>2, <2>3, <2>4, <2>6, <2>5 DEF Spoken, TypeOK, Live, MidPoll, NoTask
  <2>12. EachSideOnce'
    <3>1. MayFollow(kind, r)
      BY <2>1, <2>2, <2>5 DEF Spoken, Live, MayFollow
    <3>2. TypeOK /\ EachSideOnce
      OBVIOUS
    <3>3. QED
      BY <2>5, <3>1, <3>2, EachSideStill
  <2>13. OneThread'
    <3> SUFFICES ASSUME ~parallel
                 PROVE  (PollsApart /\ AbortsDrop /\ LiveIsActive /\ CancelledIsLast)'
      BY <2>3 DEF OneThread
    <3>1. PollsApart /\ AbortsDrop /\ LiveIsActive /\ CancelledIsLast
      BY DEF OneThread
    <3>2. PollsApart'
      BY <3>1, <2>1, <2>2, <2>3, <2>4, <2>6, <2>5 DEF PollsApart, Live, MidPoll, NoTask
    <3>3. AbortsDrop'
      BY <3>1, <2>1, <2>2, <2>3, <2>4, <2>6, <2>5 DEF AbortsDrop, Live, MidPoll, NoTask
    <3>4. LiveIsActive'
      BY <3>1, <2>1, <2>2, <2>3, <2>4, <2>6, <2>5 DEF LiveIsActive, AbortsDrop,
          ActiveIsLive, Placed, TypeOK, Live, MidPoll, NoTask
    <3>5. CancelledIsLast'
      BY <3>1, <2>1, <2>2, <2>3, <2>4, <2>6, <2>5 DEF CancelledIsLast, AbortsDrop, Spoken,
          Live, MidPoll, NoTask
    <3>6. QED
      BY <3>2, <3>3, <3>4, <3>5
  <2>14. QED
    BY <2>7, <2>8, <2>9, <2>10, <2>11, <2>12, <2>13 DEF PromptsInvariant
<1>13. ASSUME NEW s \in Sessions, NewSession(s)
      PROVE  PromptsInvariant'
  <2> USE <1>0, <1>13 DEF NewSession, MainLocks, MidPoll, Live
  <2>1. task' = task /\ out' = out
    OBVIOUS
  <2>2. task' = task
    OBVIOUS
  <2>3. TypeOK'
    BY <2>1, <2>2 DEF TypeOK, Tasks
  <2>4. Unborn'
    <3> SUFFICES ASSUME NEW q \in Requests, q > issued
                 PROVE  task'[q] = NoTask /\ out'[q] = <<>>
      BY DEF Unborn
    <3>1. task[q] = NoTask /\ out[q] = <<>> /\ NoTask.pc = "none"
      BY DEF Unborn, NoTask
    <3>2. QED
      BY <3>1, <2>1
  <2>5. Placed'
    BY <2>1 DEF Placed
  <2>6. ActiveIsLive'
    BY <2>1 DEF ActiveIsLive, TypeOK
  <2>7. Spoken'
    BY <2>1 DEF Spoken
  <2>8. EachSideOnce'
    BY <2>1 DEF EachSideOnce
  <2>9. OneThread'
    <3> SUFFICES ASSUME ~parallel
                 PROVE  (PollsApart /\ AbortsDrop /\ LiveIsActive /\ CancelledIsLast)'
      BY DEF OneThread
    <3>1. PollsApart /\ AbortsDrop /\ LiveIsActive /\ CancelledIsLast
      BY DEF OneThread
    <3>2. PollsApart'
      BY <3>1, <2>1 DEF PollsApart
    <3>3. AbortsDrop'
      BY <3>1, <2>1 DEF AbortsDrop
    <3>4. LiveIsActive'
      BY <3>1, <2>1 DEF LiveIsActive, AbortsDrop, ActiveIsLive, Placed, TypeOK
    <3>5. CancelledIsLast'
      BY <3>1, <2>1 DEF CancelledIsLast, AbortsDrop
    <3>6. QED
      BY <3>2, <3>3, <3>4, <3>5
  <2>10. QED
    BY <2>3, <2>4, <2>5, <2>6, <2>7, <2>8, <2>9 DEF PromptsInvariant
<1>14. ASSUME NEW s \in Sessions, active[s] = NoPrompt, Close(s)
      PROVE  PromptsInvariant'
  <2> USE <1>0, <1>14 DEF Close, MainLocks, TakeActive, MidPoll, Live
  <2>1. task' = task /\ out' = out
    OBVIOUS
  <2>2. task' = task
    OBVIOUS
  <2>3. TypeOK'
    BY <2>1, <2>2 DEF TypeOK, Tasks
  <2>4. Unborn'
    <3> SUFFICES ASSUME NEW q \in Requests, q > issued
                 PROVE  task'[q] = NoTask /\ out'[q] = <<>>
      BY DEF Unborn
    <3>1. task[q] = NoTask /\ out[q] = <<>> /\ NoTask.pc = "none"
      BY DEF Unborn, NoTask
    <3>2. QED
      BY <3>1, <2>1
  <2>5. Placed'
    BY <2>1 DEF Placed
  <2>6. ActiveIsLive'
    BY <2>1 DEF ActiveIsLive, TypeOK
  <2>7. Spoken'
    BY <2>1 DEF Spoken
  <2>8. EachSideOnce'
    BY <2>1 DEF EachSideOnce
  <2>9. OneThread'
    <3> SUFFICES ASSUME ~parallel
                 PROVE  (PollsApart /\ AbortsDrop /\ LiveIsActive /\ CancelledIsLast)'
      BY DEF OneThread
    <3>1. PollsApart /\ AbortsDrop /\ LiveIsActive /\ CancelledIsLast
      BY DEF OneThread
    <3>2. PollsApart'
      BY <3>1, <2>1 DEF PollsApart
    <3>3. AbortsDrop'
      BY <3>1, <2>1 DEF AbortsDrop
    <3>4. LiveIsActive'
      BY <3>1, <2>1 DEF LiveIsActive, AbortsDrop, ActiveIsLive, Placed, TypeOK
    <3>5. CancelledIsLast'
      BY <3>1, <2>1 DEF CancelledIsLast, AbortsDrop
    <3>6. QED
      BY <3>2, <3>3, <3>4, <3>5
  <2>10. QED
    BY <2>3, <2>4, <2>5, <2>6, <2>7, <2>8, <2>9 DEF PromptsInvariant
<1>15. ASSUME Shutdown
      PROVE  PromptsInvariant'
  <2> USE <1>0, <1>15 DEF Shutdown, MainLocks, MidPoll, Live
  <2>1. \A q \in Requests :
          /\ task'[q] \in Tasks
          /\ \/ task'[q] = task[q] /\ \A s \in Sessions : active[s] # q
             \/ /\ task[q].pc \in {"suspended", "locking"}
                /\ task'[q].session = task[q].session
                /\ task'[q].pc = "dropped" /\ task'[q].aborted = task[q].aborted
             \/ /\ task[q].pc \in {"running", "finishing"}
                /\ task'[q].session = task[q].session
                /\ task'[q].pc = task[q].pc /\ task'[q].aborted = TRUE
    <3> SUFFICES ASSUME NEW q \in Requests
                 PROVE  /\ task'[q] \in Tasks
                        /\ \/ task'[q] = task[q] /\ \A s \in Sessions : active[s] # q
                           \/ /\ task[q].pc \in {"suspended", "locking"}
                              /\ task'[q].session = task[q].session
                              /\ task'[q].pc = "dropped"
                              /\ task'[q].aborted = task[q].aborted
                           \/ /\ task[q].pc \in {"running", "finishing"}
                              /\ task'[q].session = task[q].session
                              /\ task'[q].pc = task[q].pc /\ task'[q].aborted = TRUE
      OBVIOUS
    <3>1. task[q] \in Tasks
      BY DEF TypeOK, Tasks
    <3>2. CASE \E s \in Sessions : active[s] = q
      <4>1. task[q].pc \notin {"none", "done", "dropped", "responding"}
        BY <3>2, EntryIsRequest, RequestsAreNumbers, NoPromptAssumption DEF Live
      <4>2. task'[q] = Abort(task[q])
        BY <3>2
      <4>3. QED
        BY <3>1, <4>1, <4>2, AbortLemma
    <3>3. CASE ~\E s \in Sessions : active[s] = q
      BY <3>1, <3>3
    <3>4. QED
      BY <3>2, <3>3
  <2>2. task' \in [Requests -> Tasks]
    BY <2>1
  <2>3. TypeOK'
    BY <2>1, <2>2 DEF TypeOK, Tasks
  <2>4. Unborn'
    <3> SUFFICES ASSUME NEW q \in Requests, q > issued
                 PROVE  task'[q] = NoTask /\ out'[q] = <<>>
      BY DEF Unborn
    <3>1. task[q] = NoTask /\ out[q] = <<>> /\ NoTask.pc = "none"
      BY DEF Unborn, NoTask
    <3>2. QED
      BY <3>1, <2>1
  <2>5. Placed'
    BY <2>1 DEF Placed
  <2>6. ActiveIsLive'
    BY <2>1 DEF ActiveIsLive, TypeOK
  <2>7. Spoken'
    BY <2>1 DEF Spoken
  <2>8. EachSideOnce'
    BY <2>1 DEF EachSideOnce
  <2>9. OneThread'
    <3> SUFFICES ASSUME ~parallel
                 PROVE  (PollsApart /\ AbortsDrop /\ LiveIsActive /\ CancelledIsLast)'
      BY DEF OneThread
    <3>1. PollsApart /\ AbortsDrop /\ LiveIsActive /\ CancelledIsLast
      BY DEF OneThread
    <3>2. PollsApart'
      BY <3>1, <2>1 DEF PollsApart
    <3>3. AbortsDrop'
      BY <3>1, <2>1 DEF AbortsDrop
    <3>4. LiveIsActive'
      BY <3>1, <2>1 DEF LiveIsActive, AbortsDrop, ActiveIsLive, Placed, TypeOK
    <3>5. CancelledIsLast'
      BY <3>1, <2>1 DEF CancelledIsLast, AbortsDrop
    <3>6. QED
      BY <3>2, <3>3, <3>4, <3>5
  <2>10. QED
    BY <2>3, <2>4, <2>5, <2>6, <2>7, <2>8, <2>9 DEF PromptsInvariant
<1>16. ASSUME Unlock
      PROVE  PromptsInvariant'
  <2> USE <1>0, <1>16 DEF Unlock, MidPoll, Live
  <2>1. task' = task /\ out' = out
    OBVIOUS
  <2>2. task' = task
    OBVIOUS
  <2>3. TypeOK'
    BY <2>1, <2>2 DEF TypeOK, Tasks
  <2>4. Unborn'
    <3> SUFFICES ASSUME NEW q \in Requests, q > issued
                 PROVE  task'[q] = NoTask /\ out'[q] = <<>>
      BY DEF Unborn
    <3>1. task[q] = NoTask /\ out[q] = <<>> /\ NoTask.pc = "none"
      BY DEF Unborn, NoTask
    <3>2. QED
      BY <3>1, <2>1
  <2>5. Placed'
    BY <2>1 DEF Placed
  <2>6. ActiveIsLive'
    BY <2>1 DEF ActiveIsLive, TypeOK
  <2>7. Spoken'
    BY <2>1 DEF Spoken
  <2>8. EachSideOnce'
    BY <2>1 DEF EachSideOnce
  <2>9. OneThread'
    <3> SUFFICES ASSUME ~parallel
                 PROVE  (PollsApart /\ AbortsDrop /\ LiveIsActive /\ CancelledIsLast)'
      BY DEF OneThread
    <3>1. PollsApart /\ AbortsDrop /\ LiveIsActive /\ CancelledIsLast
      BY DEF OneThread
    <3>2. PollsApart'
      BY <3>1, <2>1 DEF PollsApart
    <3>3. AbortsDrop'
      BY <3>1, <2>1 DEF AbortsDrop
    <3>4. LiveIsActive'
      BY <3>1, <2>1 DEF LiveIsActive, AbortsDrop, ActiveIsLive, Placed, TypeOK
    <3>5. CancelledIsLast'
      BY <3>1, <2>1 DEF CancelledIsLast, AbortsDrop
    <3>6. QED
      BY <3>2, <3>3, <3>4, <3>5
  <2>10. QED
    BY <2>3, <2>4, <2>5, <2>6, <2>7, <2>8, <2>9 DEF PromptsInvariant
<1>17. ASSUME UNCHANGED vars PROVE PromptsInvariant'
  BY <1>0, <1>17 DEF vars, PromptsInvariant, TypeOK, Unborn, Placed, ActiveIsLive, Spoken,
                     EachSideOnce, OneThread, PollsApart, AbortsDrop, LiveIsActive,
                     CancelledIsLast, Live
<1>18. QED
  <2>1. ASSUME NEW s \in Sessions, StartPrompt(s) \/ RefusePrompt(s) 
        PROVE  issued + 1 \in Requests
    BY <1>0, <2>1, BoundAssumption DEF StartPrompt, RefusePrompt, Requests, TypeOK
  <2>2. ASSUME NEW s \in Sessions, Cancel(s) \/ (Close(s) /\ active[s] # NoPrompt)
        PROVE  active[s] \in Requests
    BY <1>0, <2>2, EntryIsRequest DEF Cancel, TakeActive
  <2>3. QED
    BY <2>1, <2>2, <1>1, <1>2, <1>3, <1>4, <1>5, <1>6, <1>7, <1>8, <1>9, <1>10, <1>11,
       <1>12, <1>13, <1>14, <1>15, <1>16, <1>17
      DEF Next, Main, Task

(* The entry of a session holds a prompt that can be cancelled, and neither *)
(* side answers one prompt twice.                                           *)
THEOREM ActivePromptsAlways == Spec => []ActivePrompts
<1>1. PromptsInvariant => ActivePrompts
  BY DEF PromptsInvariant, ActivePrompts
<1>2. QED
  BY <1>1, PromptsInvariantInit, PromptsInvariantStep, PTL DEF Spec

(* With one worker thread no request is answered twice and no session runs two *)
(* prompts.                                                                    *)
LEMMA SingleThreadFromInvariant == PromptsInvariant => SingleThreadIsExact
<1> SUFFICES ASSUME PromptsInvariant, ~parallel PROVE OneResponse /\ OnePromptPerSession
  BY DEF SingleThreadIsExact
<1>1. TypeOK /\ LiveIsActive /\ CancelledIsLast /\ EachSideOnce
  BY DEF PromptsInvariant, OneThread
<1>2. \A r \in Requests : DOMAIN out[r] = 1..Len(out[r]) /\ Len(out[r]) \in Nat
  BY <1>1, LenProperties DEF TypeOK
<1>3. OneResponse
  BY <1>1, <1>2 DEF OneResponse, CancelledIsLast, Final
<1>4. OnePromptPerSession
  BY <1>1 DEF OnePromptPerSession, LiveIsActive
<1>5. QED
  BY <1>3, <1>4

(* On the single-threaded runtime a prompt is answered once, by one side, and *)
(* a session runs one prompt at a time.                                       *)
THEOREM SingleThreadAlways == Spec => []SingleThreadIsExact
BY SingleThreadFromInvariant, PromptsInvariantInit, PromptsInvariantStep, PTL DEF Spec

=============================================================================
