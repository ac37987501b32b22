------------------------------- MODULE TuiRuns -------------------------------
(***************************************************************************)
(* Runs, sessions and approvals in the terminal.                           *)
(*                                                                         *)
(* The event loop submits a prompt by spawning a task that reads the       *)
(* agent's stream; the agent itself is a task of its own that shares one   *)
(* history with every other run.  Cancelling aborts the reading task only: *)
(* the agent goes on, asks for approvals and writes its history back.      *)
(* Generations keep the events of such a run away from the screen and from *)
(* the session file.  /new and /resume exchange history and file under a   *)
(* run in progress.                                                        *)
(*                                                                         *)
(* A run is its number: it stands for its prompt, for its output and, in   *)
(* a history, for the messages it added.                                   *)
(***************************************************************************)
EXTENDS Naturals, Sequences

CONSTANTS MaxRuns, MaxAsks, MaxSessions  \* bounds: prompts, questions per run, session ids

ASSUME TuiAssumption == {MaxRuns, MaxSessions} \subseteq Nat \ {0} /\ MaxAsks \in Nat

Run == 1..MaxRuns
Sessions == 1..MaxSessions
NoRun == 0

VARIABLES
    gen,        \* RunSession
    genOf,      \* the generation a run was submitted as
    runs,       \* prompts submitted
    current,    \* current_run
    running, lastPrompt,  \* of AppState
    reader,     \* the task that reads a run's stream
    stream,     \* events of the agent not read yet
    inbox,      \* AppEvents
    agent,      \* the agent's task
    seed,       \* the history a run began with
    history,    \* the shared conversation history
    session,    \* session_id
    used,       \* session ids given out
    files,      \* the recorded turns of each session
    broken,     \* sessions whose file ends in half a turn
    lost,       \* runs whose turn did not reach the file
    channel,    \* approval requests on their way
    modal,      \* pending_approval
    reply,      \* what the oneshot of a request holds
    asked,      \* requests made by a run
    home,       \* history: the session a run was submitted in
    fate,       \* history: "plain", "cancelled", or "moved" off by /new or /resume
    strayWrote, \* history: a run that is not plain has written the history since it was exchanged
    unseen      \* history: runs refused an approval nobody saw

screen == <<gen, genOf, runs, current, running, lastPrompt, home>>
tasks  == <<reader, stream>>
stored == <<files, broken, lost>>
saved  == <<session, used, stored>>
ask    == <<channel, modal, reply, asked, unseen>>
tuiVars == <<screen, tasks, inbox, agent, seed, history, saved, ask, fate, strayWrote>>

TuiInit ==
    /\ gen = 0 /\ genOf = [r \in Run |-> 0] /\ runs = 0
    /\ current = NoRun /\ running = FALSE /\ lastPrompt = NoRun
    /\ reader = [r \in Run |-> "none"] /\ stream = [r \in Run |-> <<>>]
    /\ inbox = <<>>
    /\ agent = [r \in Run |-> "none"] /\ seed = [r \in Run |-> <<>>]
    /\ history = <<>>
    /\ session = 1 /\ used = 1 /\ files = [s \in Sessions |-> <<>>]
    /\ broken = {} /\ lost = {}
    /\ channel = <<>> /\ modal = NoRun
    /\ reply = [r \in Run |-> "none"] /\ asked = [r \in Run |-> 0] /\ unseen = {}
    /\ home = [r \in Run |-> 1] /\ fate = [r \in Run |-> "plain"] /\ strayWrote = FALSE

-----------------------------------------------------------------------------
(* The person at the keyboard.  A pending approval takes every key.        *)

Submit ==
    /\ modal = NoRun /\ ~running /\ runs < MaxRuns
    /\ LET r == runs + 1
       IN  /\ runs' = r /\ current' = r /\ lastPrompt' = r
           /\ gen' = gen + 1 /\ genOf' = [genOf EXCEPT ![r] = gen']
           /\ home' = [home EXCEPT ![r] = session]
           /\ reader' = [reader EXCEPT ![r] = "spawned"]
    /\ running' = TRUE
    /\ UNCHANGED <<stream, inbox, agent, seed, history, saved, ask, fate, strayWrote>>

(* The reading task is aborted, and its end of the stream with it.         *)
Cancel ==
    /\ modal = NoRun /\ running /\ current # NoRun
    /\ reader' = [reader EXCEPT ![current] = "over"]
    /\ stream' = [stream EXCEPT ![current] = <<>>]
    /\ gen' = gen + 1 /\ current' = NoRun /\ running' = FALSE
    /\ fate' = [fate EXCEPT ![current] = "cancelled"]
    /\ UNCHANGED <<genOf, runs, lastPrompt, home, inbox, agent, seed, history, saved, ask, strayWrote>>

Moved == IF current = NoRun THEN fate ELSE [fate EXCEPT ![current] = "moved"]

\* (fault) the prompt of the old session stays behind
NewKeepsPrompt ==
    /\ modal = NoRun /\ used < MaxSessions
    /\ history' = <<>> /\ used' = used + 1 /\ session' = used'
    /\ fate' = Moved /\ strayWrote' = FALSE
    /\ UNCHANGED <<screen, tasks, inbox, agent, seed, stored, ask>>

(* /new.                                                                   *)
New ==
    /\ modal = NoRun /\ used < MaxSessions
    /\ history' = <<>> /\ used' = used + 1 /\ session' = used'
    /\ lastPrompt' = NoRun /\ fate' = Moved /\ strayWrote' = FALSE
    /\ UNCHANGED <<gen, genOf, runs, current, running, home, tasks, inbox, agent, seed, stored, ask>>

(* /resume and the session list; a session without turns, or with half a   *)
(* turn that does not parse, is an error.                                  *)
Resume(s) ==
    /\ modal = NoRun /\ files[s] # <<>> /\ s \notin broken
    /\ history' = [i \in DOMAIN files[s] |-> files[s][i].prompt]
    /\ session' = s /\ lastPrompt' = NoRun /\ fate' = Moved /\ strayWrote' = FALSE
    /\ UNCHANGED <<gen, genOf, runs, current, running, home, tasks, inbox, agent, seed, used, stored,
                   ask>>

Answer(yes) ==
    /\ modal # NoRun
    /\ reply' = [reply EXCEPT ![modal] = IF yes THEN "yes" ELSE "no"]
    /\ modal' = NoRun
    /\ UNCHANGED <<screen, tasks, inbox, agent, seed, history, saved, channel, asked, unseen, fate,
                   strayWrote>>

-----------------------------------------------------------------------------
(* The event loop.                                                         *)

(* A request for approval; while another one is shown it is refused.       *)
TakeRequest ==
    /\ channel # <<>>
    /\ channel' = Tail(channel)
    /\ \/ modal = NoRun /\ modal' = Head(channel) /\ UNCHANGED <<reply, unseen>>
       \/ /\ modal # NoRun
          /\ reply' = [reply EXCEPT ![Head(channel)] = "no"]
          /\ unseen' = unseen \cup {Head(channel)}
          /\ UNCHANGED modal
    /\ UNCHANGED <<screen, tasks, inbox, agent, seed, history, saved, asked, fate, strayWrote>>

\* (fault) the generation is compared for the end of a run only
AcceptsAll(r) == TRUE
Accepts(r) == genOf[r] = gen

(* Done: the turn goes to the file of the session that is open.  A failed  *)
(* append is only reported and its turn dropped; it may leave half a line, *)
(* with which the turns appended after it do not parse either.             *)
Record(r) ==
    \/ ~(Accepts(r) /\ lastPrompt # NoRun) /\ UNCHANGED stored
    \/ /\ Accepts(r) /\ lastPrompt # NoRun /\ session \notin broken
       /\ files' = [files EXCEPT ![session] = Append(@, [prompt |-> lastPrompt, output |-> r])]
       /\ UNCHANGED <<broken, lost>>
    \/ /\ Accepts(r) /\ lastPrompt # NoRun
       /\ lost' = lost \cup {r} /\ broken' \in {broken, broken \cup {session}}
       /\ UNCHANGED files

TakeEvent ==
    /\ inbox # <<>>
    /\ inbox' = Tail(inbox)
    /\ LET what == Head(inbox)[1]
           r == Head(inbox)[2]
       IN  \/ what = "done" /\ Record(r) /\ UNCHANGED <<running, current>>
           \/ what = "error" /\ UNCHANGED <<running, current, stored>>
           \/ what = "end" /\ Accepts(r) /\ running' = FALSE /\ current' = NoRun /\ UNCHANGED stored
           \/ what = "end" /\ ~Accepts(r) /\ UNCHANGED <<running, current, stored>>
    /\ UNCHANGED <<gen, genOf, runs, lastPrompt, home, tasks, agent, seed, history, session, used, ask,
                   fate, strayWrote>>

-----------------------------------------------------------------------------
(* The task that reads the stream of run r.                                *)

Start(r) ==
    /\ reader[r] = "spawned"
    /\ reader' = [reader EXCEPT ![r] = "reading"] /\ agent' = [agent EXCEPT ![r] = "begun"]
    /\ UNCHANGED <<screen, stream, inbox, seed, history, saved, ask, fate, strayWrote>>

Forward(r) ==
    /\ reader[r] = "reading" /\ stream[r] # <<>>
    /\ inbox' = Append(inbox, <<Head(stream[r]), r>>)
    /\ stream' = [stream EXCEPT ![r] = Tail(@)]
    /\ UNCHANGED <<screen, reader, agent, seed, history, saved, ask, fate, strayWrote>>

\* (fault) only a run that completes gives the input line back
CloseCompleted(r) ==
    /\ reader[r] = "reading" /\ stream[r] = <<>> /\ agent[r] = "completed"
    /\ inbox' = Append(inbox, <<"end", r>>)
    /\ reader' = [reader EXCEPT ![r] = "over"]
    /\ UNCHANGED <<screen, stream, agent, seed, history, saved, ask, fate, strayWrote>>

(* The stream ends when the agent's task is over.                          *)
Close(r) ==
    /\ reader[r] = "reading" /\ stream[r] = <<>> /\ agent[r] \in {"completed", "over"}
    /\ inbox' = Append(inbox, <<"end", r>>)
    /\ reader' = [reader EXCEPT ![r] = "over"]
    /\ UNCHANGED <<screen, stream, agent, seed, history, saved, ask, fate, strayWrote>>

-----------------------------------------------------------------------------
(* The agent of run r.                                                     *)

Emit(r, ev) == stream' = IF reader[r] = "reading" THEN [stream EXCEPT ![r] = Append(@, ev)] ELSE stream

Seed(r) ==
    /\ agent[r] = "begun"
    /\ agent' = [agent EXCEPT ![r] = "working"] /\ seed' = [seed EXCEPT ![r] = history]
    /\ UNCHANGED <<screen, tasks, inbox, history, saved, ask, fate, strayWrote>>

Ask(r) ==
    /\ agent[r] = "working" /\ asked[r] < MaxAsks
    /\ agent' = [agent EXCEPT ![r] = "asking"] /\ asked' = [asked EXCEPT ![r] = @ + 1]
    /\ channel' = Append(channel, r) /\ reply' = [reply EXCEPT ![r] = "none"]
    /\ UNCHANGED <<screen, tasks, inbox, seed, history, saved, modal, unseen, fate, strayWrote>>

Hear(r) ==
    /\ agent[r] = "asking" /\ reply[r] # "none"
    /\ agent' = [agent EXCEPT ![r] = "working"]
    /\ UNCHANGED <<screen, tasks, inbox, seed, history, saved, ask, fate, strayWrote>>

Succeed(r) ==
    /\ agent[r] = "working"
    /\ agent' = [agent EXCEPT ![r] = "succeeded"] /\ Emit(r, "done")
    /\ UNCHANGED <<screen, reader, inbox, seed, history, saved, ask, fate, strayWrote>>

(* Paused, or an error that the stream gets after the history.             *)
Fail(r) ==
    /\ agent[r] = "working"
    /\ agent' = [agent EXCEPT ![r] = "failed"]
    /\ UNCHANGED <<screen, tasks, inbox, seed, history, saved, ask, fate, strayWrote>>

(* A panic: nothing is written back and nothing said.                      *)
Die(r) ==
    /\ agent[r] = "working"
    /\ agent' = [agent EXCEPT ![r] = "over"]
    /\ UNCHANGED <<screen, tasks, inbox, seed, history, saved, ask, fate, strayWrote>>

(* The memory of the run replaces the shared history.                      *)
WriteBack(r) ==
    /\ agent[r] \in {"succeeded", "failed"}
    /\ agent' = [agent EXCEPT ![r] = IF @ = "succeeded" THEN "completed" ELSE "over"]
    /\ history' = Append(seed[r], r)
    /\ strayWrote' = (strayWrote \/ fate[r] # "plain")
    /\ \/ agent[r] = "failed" /\ Emit(r, "error")
       \/ UNCHANGED stream
    /\ UNCHANGED <<screen, reader, inbox, seed, saved, ask, fate>>

Agent(r)  == Seed(r) \/ Ask(r) \/ Hear(r) \/ Succeed(r) \/ Fail(r) \/ Die(r) \/ WriteBack(r)
Reader(r) == Start(r) \/ Forward(r) \/ Close(r)
Loop == TakeRequest \/ TakeEvent
User == Submit \/ Cancel \/ New \/ (\E s \in Sessions : Resume(s)) \/ (\E yes \in BOOLEAN : Answer(yes))

TuiNext == User \/ Loop \/ \E r \in Run : Reader(r) \/ Agent(r)

(* The tasks and the event loop are scheduled; the person owes nothing.    *)
TuiSpec == TuiInit /\ [][TuiNext]_tuiVars /\ WF_tuiVars(TakeRequest) /\ WF_tuiVars(TakeEvent)
             /\ \A r \in Run : WF_tuiVars(Reader(r)) /\ WF_tuiVars(Agent(r))

-----------------------------------------------------------------------------
TuiTypeOK ==
    /\ gen \in Nat /\ genOf \in [Run -> Nat] /\ runs \in 0..MaxRuns
    /\ {current, lastPrompt, modal} \subseteq Run \cup {NoRun} /\ running \in BOOLEAN
    /\ reader \in [Run -> {"none", "spawned", "reading", "over"}]
    /\ stream \in [Run -> Seq({"done", "error"})]
    /\ inbox \in Seq({"done", "error", "end"} \X Run)
    /\ agent \in [Run -> {"none", "begun", "working", "asking", "succeeded", "failed", "completed",
                      "over"}]
    /\ seed \in [Run -> Seq(Run)] /\ history \in Seq(Run)
    /\ session \in Sessions /\ used \in Sessions
    /\ files \in [Sessions -> Seq([prompt : Run, output : Run])]
    /\ broken \subseteq Sessions /\ lost \subseteq Run
    /\ channel \in Seq(Run) /\ reply \in [Run -> {"none", "yes", "no"}]
    /\ asked \in [Run -> 0..MaxAsks] /\ unseen \subseteq Run
    /\ home \in [Run -> Sessions] /\ fate \in [Run -> {"plain", "cancelled", "moved"}]
    /\ strayWrote \in BOOLEAN
    /\ running <=> current # NoRun

Recorded(s) == {files[s][i].output : i \in DOMAIN files[s]}

(* What the session files say happened: every recorded turn pairs a prompt *)
(* with its own answer, stands in the session the prompt was typed in, and *)
(* stands there once, whatever was cancelled or switched under the run.    *)
FileIsTrue ==
    /\ \A s \in Sessions : \A i \in DOMAIN files[s] :
         /\ files[s][i].prompt = files[s][i].output
         /\ home[files[s][i].output] = s
    /\ \A s \in Sessions : \A i, j \in DOMAIN files[s] :
         files[s][i].output = files[s][j].output => i = j

Settled(r) == reader[r] = "over" /\ \A i \in DOMAIN inbox : inbox[i][2] # r

(* A run that succeeded and was neither cancelled nor left behind by a     *)
(* change of session is in the file once the screen is done with it, or    *)
(* the append of a turn to that file failed.                               *)
PlainRunsRecorded ==
    \A r \in Run : agent[r] = "completed" /\ fate[r] = "plain" /\ Settled(r)
                      => r \in Recorded(home[r]) \cup lost

(* Unless a cancelled or abandoned run has written it since it was last    *)
(* exchanged, the history that the agents leave behind holds every turn of *)
(* the open session's file: a run that nobody disturbs never starts from a *)
(* history that is about to be replaced.                                   *)
HistoryHoldsFile ==
    (\A r \in Run : agent[r] \in {"none", "completed", "over"}) /\ ~strayWrote
        => Recorded(session) \subseteq {history[i] : i \in DOMAIN history}

(* An approval is refused unseen only when a run that is not on the screen *)
(* any more asks beside the one that is.                                   *)
UnseenBesideStray ==
    \A r \in unseen : \E q \in Run \ {r} : asked[q] > 0 /\ "cancelled" \in {fate[q], fate[r]}

(* A run gives the input line back, or waits for the person's answer.      *)
RunsEnd == running ~> (~running \/ modal # NoRun)

(* "In theory this does not happen: an agent asks one thing at a time."    *)
SerialApprovals == unseen = {}

-----------------------------------------------------------------------------
(* What is checked: the properties above, by what they are about. *)

\* Each session's file holds turns of that session only, each with its own
\* answer and once; a run that nobody disturbs is in it unless its append
\* failed.  The shared history holds what is in the file until a cancelled or
\* abandoned run writes it, and again from the next /new or /resume on; what
\* such a run writes, the next run begins with.  A question is refused unseen
\* only where a cancelled run asks too.
SessionsAreTrue ==
    /\ TuiTypeOK
    /\ FileIsTrue
    /\ PlainRunsRecorded
    /\ HistoryHoldsFile
    /\ UnseenBesideStray

=============================================================================
