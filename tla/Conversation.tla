----------------------------- MODULE Conversation -----------------------------
(***************************************************************************)
(* The messages of one conversation (deepseeknova-agent/src/memory.rs) and *)
(* what the step boundary of the agent does to them: cutting large tool    *)
(* results (L1), dropping the oldest chunk (L2), replacing everything but  *)
(* the last units by a digest of the model (L3, compaction.rs), and adding *)
(* what was recalled.                                                      *)
(*                                                                         *)
(* A message is told by its role, what it is, the run that added it and,   *)
(* for calls and results, their ids.  Token counts are left out: which     *)
(* level of compaction a boundary reaches is a choice, and a large result  *)
(* exceeds every threshold in use.                                         *)
(***************************************************************************)
EXTENDS Integers, FiniteSets, FiniteSetsExt, Sequences, SequencesExt

CONSTANT Habits  \* what a conversation may be like

\* What a message is: "earlier" is a prompt of a run before.
Texts == {"prefix", "prompt", "earlier", "recall", "feedback", "text", "calls", "result", "digest",
          "touched"}

MessageType ==
  [role : {"system", "user", "assistant", "tool"}, text : Texts, calls : SUBSET (Nat \ {0}),
   call : Nat, files : BOOLEAN, large : BOOLEAN, cut : Nat, thought : BOOLEAN]

Habit == [recalls : BOOLEAN,  \* a recall provider is configured and finds something
          cuts : BOOLEAN,     \* large results are cut at the end of every turn, or early
          thinks : BOOLEAN,   \* the model gives its reasoning with its calls
          prior : Seq(MessageType)]  \* what the run before wrote back

ASSUME HabitsAssumption == Habits # {} /\ Habits \subseteq Habit

(* Each call is followed by one result for each of its ids, in a row, and  *)
(* no result stands alone.                                                 *)
Paired(msgs) ==
  \A i \in DOMAIN msgs :
    /\ \A id \in msgs[i].calls :
         \E j \in i + 1..i + Cardinality(msgs[i].calls) : j <= Len(msgs) /\ msgs[j].call = id
    /\ msgs[i].call # 0 =>
         /\ \E j \in 1..i - 1 : msgs[i].call \in msgs[j].calls
         /\ \A j \in DOMAIN msgs : msgs[j].call = msgs[i].call => j = i

(* Nothing stands between a call and its results, and only they are large. *)
Close(msgs) ==
  \A i \in DOMAIN msgs :
    /\ \A j \in 1..i - 1 : msgs[i].call \in msgs[j].calls =>
         \A k \in j + 1..i : msgs[k].call \in msgs[j].calls
    /\ msgs[i].calls # {} =>
         msgs[i].role = "assistant" /\ msgs[i].call = 0 /\ IsFiniteSet(msgs[i].calls)
    /\ msgs[i].call # 0 => msgs[i].role = "tool"
    /\ msgs[i].large => msgs[i].call # 0

(* A run starts from what a run has written back. *)
ASSUME PriorAssumption ==
  \A h \in Habits :
    Paired(h.prior) /\ Close(h.prior) /\ \A i \in DOMAIN h.prior : h.prior[i].cut <= 1

VARIABLES
  habit,    \* what this one is like
  memory,   \* the run's Memory: messages, full_results and shrunk_messages
  stored,   \* the history written back for the next run
  sent,     \* the snapshot the current request was made of
  strikes,  \* failures of the L3Compactor
  ids,      \* tool calls so far
  log,      \* every message of the conversation, or every one since its digest
  era       \* 1 before this run, 2 from its start, one more with each digest

conversation == <<habit, memory, stored, sent, strikes, ids, log, era>>

KeepRecentUnits == 3
MaxStrikes == 3

Message(role, text) ==
  [role |-> role, text |-> text, calls |-> {}, call |-> 0, files |-> FALSE, large |-> FALSE,
   cut |-> 0, thought |-> FALSE]

Recall == Message("user", "recall")      \* inject_recall
Feedback == Message("user", "feedback")  \* of a gate
Text == Message("assistant", "text")
Calls(k, files) ==
  [Message("assistant", "calls") EXCEPT !.calls = (ids + 1)..(ids + k), !.files = files,
                                        !.thought = habit.thinks]
Result(id, large) == [Message("tool", "result") EXCEPT !.call = id, !.large = large]

(* The ids a message speaks of. *)
IdsOf(m) == m.calls \cup (IF m.call = 0 THEN {} ELSE {m.call})
Messages == memory.messages
Fresh(messages) == [messages |-> messages, full |-> <<>>, shrunk |-> {}]
With(mem, added) == [mem EXCEPT !.messages = @ \o added]
If(b, m) == IF b THEN <<m>> ELSE <<>>

\* The members of rs whose indices are in S, in order.
Picked(rs, S) ==
  LET some[i \in 0..Len(rs)] ==
        IF i = 0 THEN <<>> ELSE IF i \in S THEN Append(some[i - 1], rs[i]) ELSE some[i - 1]
  IN  some[Len(rs)]

-----------------------------------------------------------------------------
(* L1: the results not yet marked lose their middle, which goes to         *)
(* full_results under the id of the call.                                  *)

(* Seeded fault: the mark of a result that was cut is not looked at. *)
CuttableAgain(mem) ==
  {i \in DOMAIN mem.messages : mem.messages[i].role = "tool" /\ mem.messages[i].large}

Cuttable(mem) ==
  {i \in DOMAIN mem.messages :
     /\ mem.messages[i].role = "tool" /\ mem.messages[i].large
     /\ mem.messages[i].call \notin mem.shrunk}

Kept(m) == IF m.cut = 0 THEN "whole" ELSE "rest"  \* what is left of a result

Shrink(mem) ==
  LET msgs == mem.messages
      cut == Cuttable(mem)
      calls == {msgs[i].call : i \in cut}
      at(id) == CHOOSE i \in cut : msgs[i].call = id
  IN  [messages |-> [i \in DOMAIN msgs |->
                       IF i \in cut /\ msgs[i].cut = 0 THEN [msgs[i] EXCEPT !.cut = era]
                       ELSE msgs[i]],
       full |-> [id \in calls \cup DOMAIN mem.full |->
                   IF id \in calls THEN Kept(msgs[at(id)]) ELSE mem.full[id]],
       shrunk |-> mem.shrunk \cup calls]

-----------------------------------------------------------------------------
(* L2: behind the leading system messages everything goes up to the first  *)
(* user message that follows a call or a result, and that is everything    *)
(* when there is none; then the results whose call is gone.                *)

SystemPrefix(msgs) ==
  {i \in DOMAIN msgs : \A j \in 1..i : msgs[j].role = "system"}
Lead(msgs) == Cardinality(SystemPrefix(msgs))

Stops(msgs) ==
  {i \in Lead(msgs) + 1..Len(msgs) :
     /\ msgs[i].role = "user"
     /\ \E j \in Lead(msgs) + 1..i - 1 : IdsOf(msgs[j]) # {}}
FirstLeft(msgs) == IF Stops(msgs) = {} THEN Len(msgs) + 1 ELSE Min(Stops(msgs))

(* No results of calls that are not among the messages. *)
Called(msgs) ==
  LET called == UNION {m.calls : m \in ToSet(msgs)}
  IN  Picked(msgs, {i \in DOMAIN msgs : IdsOf(msgs[i]) \subseteq called})

Slide(mem) ==
  LET msgs == mem.messages
      first == FirstLeft(msgs)
      dropped == UNION {IdsOf(msgs[i]) : i \in Lead(msgs) + 1..first - 1}
  IN  [messages |-> SubSeq(msgs, 1, Lead(msgs)) \o Called(SubSeq(msgs, first, Len(msgs))),
       full |-> [id \in DOMAIN mem.full \ dropped |-> mem.full[id]],
       shrunk |-> mem.shrunk \ dropped]

-----------------------------------------------------------------------------
(* L3: group_into_units, then the digest, the touched files, the last      *)
(* units and, if it is not among them, the last thing the user said.       *)

(* The exchange a message lies in: what follows an assistant's calls up to *)
(* the next user or assistant message.                                     *)
Speakers(msgs, i) == {j \in 1..i - 1 : msgs[j].role \in {"user", "assistant"}}
InExchange(msgs, i) ==
  /\ msgs[i].role \in {"system", "tool"}
  /\ Speakers(msgs, i) # {}
  /\ msgs[Max(Speakers(msgs, i))].calls # {}
Owned(msgs, i) == msgs[i].call \in msgs[Max(Speakers(msgs, i))].calls

Units(msgs) == {i \in DOMAIN msgs : ~InExchange(msgs, i)}

(* Seeded fault: the last messages are kept instead of the last units. *)
RecentMessages(msgs) ==
  SubSeq(msgs, Max({1, Len(msgs) - KeepRecentUnits + 1}), Len(msgs))

Recent(msgs) ==
  LET first == {i \in Units(msgs) :
                  Cardinality({j \in Units(msgs) : j >= i}) <= KeepRecentUnits}
      kept == {i \in DOMAIN msgs : /\ \E f \in first : f <= i
                                   /\ InExchange(msgs, i) => Owned(msgs, i)}
  IN  Picked(msgs, kept)

MustReplay(msgs) == \E m \in ToSet(msgs) : m.thought /\ m.calls # {}
Intents(msgs) == {i \in DOMAIN msgs : msgs[i].role = "user" /\ msgs[i].text # "recall"}
Same(m, u) == m.text = u.text

Digest(mem) ==
  LET msgs == mem.messages
      rebuilt == <<Message("tool", "digest")>>
                 \o If(\E m \in ToSet(msgs) : m.files, Message("user", "touched"))
                 \o Recent(msgs)
      user == msgs[Max(Intents(msgs))]
  IN  [mem EXCEPT !.shrunk = {},
                  !.messages = rebuilt \o If(/\ Intents(msgs) # {}
                                             /\ \A m \in ToSet(rebuilt) : ~Same(m, user), user)]

-----------------------------------------------------------------------------
(* What a run does to the conversation. *)

(* run_stream seeds the memory from the store; the system prompt is added  *)
(* to an empty one only.  What is recalled comes before the prompt.        *)
Open ==
  /\ habit \in Habits
  /\ stored = habit.prior
  /\ memory = Fresh(stored \o If(stored = <<>>, Message("system", "prefix"))
                          \o If(habit.recalls, Recall) \o <<Message("user", "prompt")>>)
  /\ log = memory.messages
  /\ ids = Max({0} \cup UNION {m.calls : m \in ToSet(stored)})
  /\ sent = <<>> /\ strikes = 0 /\ era = 2

Append1(m) ==
  /\ memory' = With(memory, <<m>>)
  /\ log' = Append(log, m)
  /\ sent' = <<>>
  /\ UNCHANGED <<habit, stored, strikes, era>>

(* The history goes back to the store, whatever the run came to. *)
Store(mem) ==
  /\ memory' = mem
  /\ stored' = mem.messages
  /\ sent' = <<>>
  /\ UNCHANGED <<habit, strikes, ids, log, era>>

(* Cutting alone, early or at the end of every turn, does not change the   *)
(* request that is about to be sent: its snapshot is older.                *)
OnlyCut ==
  /\ memory' = IF habit.cuts THEN Shrink(memory) ELSE memory
  /\ sent' = Messages
  /\ UNCHANGED <<habit, stored, strikes, ids, log, era>>

(* With the threshold or the budget exceeded the boundary compacts, takes  *)
(* a new snapshot and adds what is recalled for the last intent.           *)
Rebuilt(mem, base) ==
  LET add == If(habit.recalls /\ Intents(mem.messages) # {}, Recall)
  IN  /\ memory' = With(mem, add)
      /\ sent' = mem.messages \o add
      /\ log' = base \o add
      /\ UNCHANGED <<habit, stored, ids>>

CompactCut ==
  /\ Cuttable(memory) # {}
  /\ Rebuilt(Shrink(memory), log)
  /\ UNCHANGED <<strikes, era>>

Slid == Slide(Shrink(memory))
CompactSlide == Rebuilt(Slid, log) /\ UNCHANGED <<strikes, era>>

(* L3 may be off or find the slide enough; a must_replay block defers it. *)
DigestAsked == strikes < MaxStrikes /\ ~MustReplay(Slid.messages)

DigestFails ==
  /\ DigestAsked
  /\ Rebuilt(Slid, log)
  /\ strikes' = strikes + 1
  /\ UNCHANGED era

CompactDigest ==
  /\ DigestAsked
  /\ Rebuilt(Digest(Slid), Digest(Slid).messages)
  /\ strikes' = 0
  /\ era' = era + 1

Prepare == OnlyCut \/ CompactCut \/ CompactSlide \/ DigestFails \/ CompactDigest

=============================================================================
