------------------------------ MODULE PhaseGates ------------------------------
(***************************************************************************)
(* The agent's loop under the protocol gates (deepseeknova-agent/src/      *)
(* phase_runner.rs and its calls in agent/loop_impl.rs): at the boundaries *)
(* of the phases Understand, Plan, Execute, Verify and Distill the         *)
(* configured gates look at what the run has done; a blocking violation at *)
(* Execute refuses every call of the turn, everything else is reported.    *)
(*                                                                         *)
(* A tool's name, by which failures are counted, is its kind here.  The    *)
(* findings of quality hooks, which the built-in gates do not look at, and *)
(* the time of the run are left out.                                       *)
(***************************************************************************)
EXTENDS AgentRun

CONSTANTS
  Gated,           \* the profiles with [protocol] enabled
  GateLevels,      \* the levels the gates may have
  DriftThreshold,  \* DRIFT_THRESHOLD, 3 in the code
  ComplexCalls     \* calls after which a run is complex, 20 in the code

Level == {"hard", "soft", "off"}
Levels == [plan : Level, evidence : Level, distill : Level, drift : Level]

ASSUME GatesAssumption ==
  /\ Gated \subseteq Profiles
  /\ GateLevels # {} /\ GateLevels \subseteq Levels
  /\ DriftThreshold \in Nat \ {0} /\ ComplexCalls \in Nat

VARIABLES
  levels,      \* the levels of this run
  runner,      \* the PhaseRunner
  unverified,  \* the diagnosis at the end reported the run as unverified
  results,     \* every call executed so far, with its turn, in the order they returned
  last,        \* the latest Verification
  decided      \* the verify commands decided about the latest final text

gateState == <<levels, runner, unverified, results, last, decided>>

Families == {"read", "write", "delegate"}
IsGated == profile \in Gated
Configured == VerifyCycles # -1
On(gate) == levels[gate] # "off"
Count(b) == IF b THEN 1 ELSE 0

NewRunner ==
  [transitions |-> 0, violations |-> 0, passed |-> 0, failed |-> 0, calls |-> 0,
   streak |-> [f \in Families |-> 0], reported |-> [f \in Families |-> 0],
   planText |-> FALSE, lesson |-> FALSE]

-----------------------------------------------------------------------------
(* The gates. *)

PlanBeforeExecute(r) == On("plan") /\ ~r.planText
Drifted(r) == {f \in Families : r.streak[f] >= DriftThreshold}
DriftDetection(r) == On("drift") /\ Drifted(r) # {}
DriftedAgain(r) == {f \in Drifted(r) : On("drift") /\ r.reported[f] >= 2}
VerifyEvidence(r) == On("evidence") /\ Configured /\ r.passed = 0
DistillOnComplex(r) == On("distill") /\ r.calls > ComplexCalls /\ ~r.lesson

AtExecute(r) ==
  Count(PlanBeforeExecute(r)) + Count(DriftDetection(r)) + Cardinality(DriftedAgain(r))
AtDistill(r) == Count(VerifyEvidence(r)) + Count(DistillOnComplex(r))

(* Hard raises the warning of a gate to a blocking violation; the second   *)
(* drift of a family stays a warning.                                      *)
Blocking(r) ==
  \/ levels.plan = "hard" /\ PlanBeforeExecute(r)
  \/ levels.drift = "hard" /\ DriftDetection(r)

Transition(r, violations) ==
  [r EXCEPT !.transitions = @ + 1, !.violations = @ + violations]

(* Seeded fault: every failure past the threshold is reported again. *)
NoteEachFailure(r, f, ok) ==
  LET s == IF ok THEN 0 ELSE r.streak[f] + 1
      counted == [r EXCEPT !.calls = @ + 1]
  IN  IF ~On("drift") THEN counted
      ELSE [counted EXCEPT !.streak[f] = s,
                           !.reported[f] = @ + Count(s >= DriftThreshold)]

NoteToolFailure(r, f, ok) ==
  LET s == IF ok THEN 0 ELSE r.streak[f] + 1
      counted == [r EXCEPT !.calls = @ + 1]
  IN  IF ~On("drift") THEN counted
      ELSE [counted EXCEPT !.streak[f] = s,
                           !.reported[f] = @ + Count(s = DriftThreshold)]

-----------------------------------------------------------------------------
(* What the steps of the loop do to the runner. *)

Stay == UNCHANGED <<levels, unverified>>

BeforeRequest ==
  /\ runner' = IF step = 0 THEN Transition(Transition(runner, 0), 0) ELSE Transition(runner, 0)
  /\ Stay /\ UNCHANGED <<results, last, decided>>

(* Text beside the calls counts as a plan, now and for the rest of the run. *)
BeforeCalls ==
  \E text \in BOOLEAN :
    LET r == [runner EXCEPT !.planText = @ \/ text]
    IN  /\ turn'[1].vetoed = Blocking(r)
        /\ runner' = Transition(r, AtExecute(r))
        /\ Stay /\ UNCHANGED <<results, last, decided>>

Returned == {i \in open : pc = "execute" /\ turn'[i].out # turn[i].out}

CallReturned ==
  \E i \in Returned :
    LET ok == turn'[i].out = "ok"
    IN  /\ runner' = NoteToolFailure(runner, turn[i].kind, ok)
        /\ results' = Append(results, [family |-> turn[i].kind, ok |-> ok, turn |-> step])
        /\ Stay /\ UNCHANGED <<last, decided>>

ObserveVerify(passed, r) ==
  /\ runner' = IF passed THEN [r EXCEPT !.passed = @ + 1] ELSE [r EXCEPT !.failed = @ + 1]
  /\ last' = IF passed THEN "passed" ELSE "failed"
  /\ Stay /\ UNCHANGED results

(* A failure goes back to the model, reflected upon or not. *)
Reflected(r) == {r} \cup (IF pc' = "boundary" THEN {[r EXCEPT !.lesson = TRUE]} ELSE {})

VerifyFailed ==
  /\ \E r \in Reflected(runner) : ObserveVerify(FALSE, r)
  /\ decided' = TRUE

(* The commands pass, or there is no tool or no command to run them.  A    *)
(* pass is evidence by itself, so the Verify boundary has no violation.    *)
VerifyLetsPass ==
  \/ ObserveVerify(TRUE, Transition(runner, 0)) /\ decided' = TRUE
  \/ decided' = FALSE /\ Stay /\ UNCHANGED <<runner, results, last>>

LlmLetsPass ==
  \/ ObserveVerify(TRUE, runner) /\ UNCHANGED decided
  \/ UNCHANGED gateState

ReviewSendsBack ==
  /\ runner' \in Reflected(runner)
  /\ Stay /\ UNCHANGED <<results, last, decided>>

AtTheEnd ==
  /\ IF cancel THEN UNCHANGED <<runner, unverified>>
     ELSE /\ runner' = Transition(runner, AtDistill(runner))
          /\ unverified' = (Configured /\ runner.passed = 0)
  /\ UNCHANGED <<levels, results, last, decided>>

Phases ==
  CASE Moves("boundary", "request") -> BeforeRequest
    [] Moves("request", "decide") -> BeforeCalls
    [] Returned # {} -> CallReturned
    [] pc = "verify" /\ pc' \in {"boundary", "ended"} -> VerifyFailed
    [] Moves("verify", "llm") -> VerifyLetsPass
    [] pc = "llm" /\ pc' \in {"boundary", "ended"} ->
         ObserveVerify(FALSE, runner) /\ UNCHANGED decided
    [] Moves("llm", "review") -> LlmLetsPass
    [] Moves("review", "boundary") -> ReviewSendsBack
    [] Moves("done", "ended") -> AtTheEnd
    [] OTHER -> UNCHANGED gateState

WithGates == IF IsGated THEN Phases ELSE UNCHANGED gateState

gatedVars == <<runVars, gateState>>

GatedInit ==
  /\ RunInit
  /\ levels \in GateLevels /\ (~IsGated => levels = CHOOSE l \in GateLevels : TRUE)
  /\ runner = NewRunner /\ unverified = FALSE
  /\ results = <<>> /\ last = "none" /\ decided = FALSE

GatedNext == Next /\ WithMessages /\ WithGates

GatedSpec ==
  /\ GatedInit /\ [][GatedNext]_gatedVars
  /\ WF_gatedVars(Loop /\ UNCHANGED profile /\ WithMessages /\ WithGates)

-----------------------------------------------------------------------------
Of(f, rs) == Picked(rs, {i \in DOMAIN rs : rs[i].family = f})
Failing(rs, i) == i >= DriftThreshold /\ \A j \in i - DriftThreshold + 1..i : ~rs[j].ok
Crossings(rs) ==
  {i \in DOMAIN rs : Failing(rs, i) /\ (i = DriftThreshold \/ rs[i - DriftThreshold].ok)}

(* A drift is reported once for each streak of failures of a tool, in the  *)
(* order in which the calls returned, however the streak goes on: "failing *)
(* on without the window being cleared is not counted again".              *)
DriftsTold ==
  On("drift") => \A f \in Families : runner.reported[f] = Cardinality(Crossings(Of(f, results)))

(* After a turn that left a tool in a streak of failures, a hard gate lets *)
(* no call run any more, in any later turn.                                *)
HardDriftHolds ==
  levels.drift = "hard" =>
    \A i \in DOMAIN results, f \in Families :
      LET earlier == {j \in DOMAIN results : results[j].turn < results[i].turn}
          before == Picked(results, {j \in earlier : results[j].family = f})
      IN  ~Failing(before, Len(before))

(* A run that changed files and whose verify commands decided about its    *)
(* final text says Done only after a pass, and is not called unverified; a *)
(* run without any pass is.                                                *)
EvidenceIsLatest ==
  IsGated /\ ended = "done" /\ ~cancel /\ Configured =>
    /\ wrote /\ decided => last = "passed" /\ ~unverified
    /\ runner.passed = 0 => unverified

(* The guide: with failures and "no later pass" the run is unverified. *)
FailureIsTold ==
  IsGated /\ ended = "done" /\ ~cancel /\ last = "failed" => unverified

\* What the gates report and refuse is what the run did.
PhasesAreTrue ==
    /\ DriftsTold
    /\ HardDriftHolds
    /\ EvidenceIsLatest

=============================================================================
