------------------------------- MODULE AgentRun -------------------------------
(***************************************************************************)
(* The agent's loop with its conversation: each step of AgentLoop together *)
(* with what it does to the messages (deepseeknova-agent/src/agent/        *)
(* loop_impl.rs and, for the start and the end of the run, mod.rs).  In    *)
(* the profiles outside Talking the messages are only counted, as in       *)
(* AgentLoop.                                                              *)
(***************************************************************************)
EXTENDS AgentLoop, Conversation

CONSTANT Talking  \* the profiles whose messages are kept

ASSUME TalkingAssumption == Talking \subseteq Profiles

Talks == profile \in Talking

Moves(a, b) == pc = a /\ pc' = b

(* The output of a read is long, that of a write and a refusal short. *)
Long(c) == c.kind # "write" /\ c.out \in {"ok", "cached"}
LastCalls == Messages[Max({i \in DOMAIN Messages : Messages[i].calls # {}})].calls

(* Checks, executions, a panic that takes the task with it, a gate that     *)
(* lets pass and a cancellation say nothing.                               *)
Quiet ==
  \/ pc \in {"decide", "asking", "segments", "execute"}
  \/ pc' \in {"llm", "review", "done"}
  \/ Moves("record", "boundary")
  \/ pc' = pc /\ at' = at

(* What a step of the loop does to the messages. *)
Spoken ==
  \/ Moves("boundary", "request") /\ Prepare
  \/ /\ Moves("boundary", "ended")
     /\ \/ Store(memory)
        \/ habit.cuts /\ ended' = "paused" /\ step < MaxSteps /\ Store(Shrink(memory))
  \/ /\ Moves("request", "verify")
     /\ \/ Append1(Text) /\ UNCHANGED ids
        \/ UNCHANGED <<habit, memory, stored, strikes, ids, log, era>> /\ sent' = <<>>
  \/ /\ Moves("request", "decide")
     /\ Append1(Calls(Len(turn'), \E i \in DOMAIN turn' : turn'[i].kind = "write"))
     /\ ids' = ids + Len(turn')
  \/ /\ Moves("record", "record") /\ at' # at
     /\ Append1(Result(Min(LastCalls) + at - 1, Long(turn[at]))) /\ UNCHANGED ids
  \/ /\ pc \in {"verify", "llm", "review"} /\ pc' = "boundary"
     /\ Append1(Feedback) /\ UNCHANGED ids
  \/ /\ pc \in {"request", "verify", "llm", "review", "done"} /\ pc' = "ended"
     /\ Store(memory)
  \/ Quiet /\ UNCHANGED conversation

WithMessages == IF Talks THEN Spoken ELSE UNCHANGED conversation

runVars == <<vars, conversation>>

RunInit ==
  /\ Init /\ Open
  /\ ~Talks => habit = CHOOSE h \in Habits : TRUE

RunNext == Next /\ WithMessages

RunSpec ==
  /\ RunInit /\ [][RunNext]_runVars
  /\ WF_runVars(Loop /\ UNCHANGED profile /\ WithMessages)

-----------------------------------------------------------------------------
(* A history that is sent or written back can be replayed to the provider, *)
(* whatever was cut, dropped or digested before: "the smallest unit that   *)
(* can be safely compressed" is an exchange.                               *)
RequestsReplayable == CallsAnswered /\ Paired(sent) /\ Paired(stored)

Whole(m) == [m EXCEPT !.cut = 0]

(* Until a digest replaces it, the conversation is only ever shortened at  *)
(* its old end, behind the system messages.                                *)
OnlyOldIsDropped ==
  \A msgs \in {Messages, sent} : msgs # <<>> =>
    /\ Lead(msgs) = Lead(log)
    /\ Len(msgs) <= Len(log)
    /\ \A i \in Lead(msgs) + 1..Len(msgs) :
         Whole(msgs[i]) = Whole(log[i + Len(log) - Len(msgs)])

(* The text that a cut result names can be fetched as it was, until the    *)
(* run ends or the conversation is digested.                               *)
CutIsFetchable ==
  \A m \in ToSet(Messages) : m.cut = era =>
    m.call \in DOMAIN memory.full /\ memory.full[m.call] = "whole"

\* What compaction may not lose.
HistoryKept ==
  /\ OnlyOldIsDropped
  /\ CutIsFetchable

(* "Never touches the system prefix": a request begins with it. *)
SystemStays == sent # <<>> => sent[1].role = "system"

=============================================================================
