----------------------------- MODULE MCAgentLoop -----------------------------
(* Instances of AgentLoop, AgentRun and PhaseGates for TLC. *)
EXTENDS PhaseGates

\* Turns of three calls in concurrent segments, with nothing but the loop.
Segments ==
  [kinds |-> {"read", "write"}, turn |-> 3, steps |-> 2, calls |-> 3,
   approvals |-> {"human"}, concurrent |-> TRUE, cache |-> TRUE,
   sideWrites |-> FALSE, verify |-> -1, review |-> -1, hooks |-> FALSE, pause |-> TRUE,
   panics |-> TRUE, flaky |-> FALSE]

\* Delegates beside the reads, and tools whose errors are retried.
Retries ==
  [Segments EXCEPT !.kinds = {"read", "delegate"}, !.turn = 2,
                   !.approvals = {"allow"}, !.panics = FALSE, !.flaky = TRUE]

\* Several turns, one call after the other, and the gates with one retry each.
QualityGates ==
  [kinds |-> {"read", "write"}, turn |-> 2, steps |-> 4, calls |-> 9,
   approvals |-> {"deny"}, concurrent |-> FALSE, cache |-> TRUE,
   sideWrites |-> TRUE, verify |-> 1, review |-> 1, hooks |-> TRUE, pause |-> TRUE,
   panics |-> FALSE, flaky |-> FALSE]

\* Delegates, which write unnoticed, beside writers and both gates.
Helpers ==
  [QualityGates EXCEPT !.kinds = {"write", "delegate"}, !.turn = 1, !.steps = 3,
                       !.sideWrites = FALSE, !.hooks = FALSE]

\* Turns of two calls whose messages are kept, and the feedback of a gate.
Talk ==
  [kinds |-> {"read"}, turn |-> 2, steps |-> 2, calls |-> 9,
   approvals |-> {"deny"}, concurrent |-> FALSE, cache |-> FALSE,
   sideWrites |-> FALSE, verify |-> -1, review |-> -1, hooks |-> FALSE, pause |-> TRUE,
   panics |-> TRUE, flaky |-> FALSE]
TalkOfGates == [Talk EXCEPT !.kinds = {"write"}, !.turn = 1, !.steps = 3, !.verify = 1]

\* What a run of one turn wrote back, its long result cut or not.
Before(cut) ==
  <<Message("system", "prefix"), Message("user", "earlier"),
    [Message("assistant", "calls") EXCEPT !.calls = {1}],
    [Message("tool", "result") EXCEPT !.call = 1, !.large = TRUE, !.cut = cut],
    Message("assistant", "text")>>

MCHabits ==
  {[recalls |-> TRUE, cuts |-> FALSE, thinks |-> FALSE, prior |-> <<>>],
   [recalls |-> FALSE, cuts |-> TRUE, thinks |-> FALSE, prior |-> Before(1)],
   [recalls |-> FALSE, cuts |-> TRUE, thinks |-> TRUE, prior |-> Before(0)]}

\* Calls that fail turn after turn, and those that fail together in one.
FailingWrites ==
  [kinds |-> {"write"}, turn |-> 1, steps |-> 3, calls |-> 9,
   approvals |-> {"deny"}, concurrent |-> FALSE, cache |-> FALSE,
   sideWrites |-> FALSE, verify |-> 1, review |-> -1, hooks |-> FALSE, pause |-> TRUE,
   panics |-> FALSE, flaky |-> FALSE]
FailingReads ==
  [FailingWrites EXCEPT !.kinds = {"read"}, !.turn = 2, !.steps = 2, !.verify = -1,
                        !.concurrent = TRUE]

MCLevels ==
  {[plan |-> "soft", evidence |-> "hard", distill |-> "soft", drift |-> "soft"],
   [plan |-> "hard", evidence |-> "hard", distill |-> "hard", drift |-> "hard"]}

MCTalking == {Talk, TalkOfGates}
MCNoneGated == {}
MCGated == {FailingWrites, FailingReads}
MCProfiles == {Segments, Retries, QualityGates, Helpers} \cup MCTalking \cup MCGated
=============================================================================
