---------------------------- MODULE ToolApprovals ----------------------------
(***************************************************************************)
(* The permission gate and the approvals of tool calls.                    *)
(*                                                                         *)
(* One gate is shared by the agents of a process: the runs in progress and *)
(* the sub-agents they delegate to.  A call passes the rate limit, the     *)
(* hard refusals, the cache of earlier approvals and the policy; what the  *)
(* policy wants asked goes to a person, over HTTP (a map of pending        *)
(* requests, answered by POST /v1/approval, with a timeout) or in the      *)
(* terminal, whose modal TuiRuns looks at.  There, and only there, the     *)
(* mode and the trust of the workspace can be switched meanwhile.          *)
(*                                                                         *)
(* Arguments and rule patterns are abstracted to Calls: equal calls are    *)
(* those with one cache key, and a policy says of each call which of its   *)
(* tables has a rule that matches it.                                      *)
(***************************************************************************)
EXTENDS Naturals, Sequences, FiniteSets

CONSTANTS
    Mains,       \* runs with a responder
    Subs,        \* sub-agents, which have none
    Calls,
    Class,       \* of a call: "reader", "edit", "shell", "peek" (read-only shell), "barred"
    Settings,    \* what may be configured: records, see Setting
    Modes,       \* PermissionMode presets, "none" for the policy's own
    Capacity,    \* SESSION_CACHE_CAPACITY
    Window,      \* the 60 seconds, in ticks
    MaxTime, MaxChecks, MaxSwitches  \* bounds

Agents == Mains \cup Subs

(* The rules that match each call, the policy's mode, whether the allow    *)
(* rules are the project's own; who answers ("none": no responder, and     *)
(* ask_without_responder decides); the rate limit, 0 for none.             *)
Setting == [deny : SUBSET Calls, ask : SUBSET Calls, allow : SUBSET Calls,
            fallback : {"allow", "ask", "deny"}, scoped : BOOLEAN,
            frontend : {"serve", "tui", "none"}, unattended : {"allow", "deny"}, limit : Nat]

ASSUME ApprovalsAssumption ==
    /\ Mains \cap Subs = {}
    /\ Class \in [Calls -> {"reader", "edit", "shell", "peek", "barred"}]
    /\ Settings \subseteq Setting
    /\ Modes \subseteq {"none", "plan", "accept_edits", "auto"} /\ Modes # {}
    /\ {Capacity, Window} \subseteq Nat \ {0}
    /\ {MaxTime, MaxChecks, MaxSwitches} \subseteq Nat

VARIABLES
    set,             \* the setting
    mode, trusted,   \* the gate's two switches
    switching,       \* between the switch and clear_cache
    cache,           \* session_cache: the approved calls, with what they were approved in
    window,          \* call_times
    now,
    slot,            \* of an agent: its call, where it is, and why it may run
    request,         \* number of an agent's last request for approval
    pending,         \* PendingApprovals
    cancelled,       \* Ctrl-C in the server
    era, session,    \* history: switches made, sessions begun
    approved,        \* history: calls approved by a person or, without one, by the setting
    passes           \* history: times of the checks the rate limit let pass

gate    == <<mode, trusted, switching, cache>>
limiter == <<window, passes>>
world   == <<now, cancelled, era, session>>
vars    == <<set, gate, limiter, slot, request, pending, approved, world>>

Phase(a) == slot[a].phase
CallOf(a) == slot[a].call
Idle == [phase |-> "idle", call |-> "none", how |-> "none", answer |-> "none", era |-> 0, session |-> 0]
Cached == {c \in Calls : cache[c].known}
Unknown == [known |-> FALSE, late |-> FALSE, era |-> 0, session |-> 0]

Init ==
    /\ set \in Settings
    /\ mode \in Modes /\ trusted \in BOOLEAN
    /\ switching = FALSE /\ cache = [c \in Calls |-> Unknown]
    /\ window = <<>> /\ passes = <<>> /\ now = 0
    /\ slot = [a \in Agents |-> Idle] /\ request = [a \in Agents |-> 0]
    /\ pending = {} /\ approved = {}
    /\ cancelled = FALSE /\ era = 0 /\ session = 0

-----------------------------------------------------------------------------
(* The verdict of the policy.                                              *)

Fallback(c) ==
    CASE Class[c] = "reader" -> "allow"
      [] Class[c] # "reader" /\ mode = "none" -> set.fallback
      [] Class[c] # "reader" /\ mode = "plan" -> "ask"
      [] Class[c] # "reader" /\ mode = "accept_edits" -> IF Class[c] = "edit" THEN "allow" ELSE "ask"
      [] Class[c] # "reader" /\ mode = "auto" -> "allow"

(* Deny before ask before allow; a project's own allow rules count only in *)
(* a trusted workspace.                                                    *)
Effective(c) ==
    CASE c \in set.deny -> "deny"
      [] c \in set.ask \ set.deny -> "ask"
      [] c \in set.allow \ (set.ask \cup set.deny) ->
           IF set.scoped /\ ~trusted THEN "ask" ELSE "allow"
      [] OTHER -> Fallback(c)

(* A read-only command is asked about only where a rule says so.           *)
Verdict(c) ==
    IF Effective(c) = "ask" /\ Class[c] = "peek" /\ c \notin set.ask
    THEN "allow" ELSE Effective(c)

-----------------------------------------------------------------------------
(* What becomes of agent a's call.                                         *)

In(a, where, c) == slot' = [slot EXCEPT ![a].phase = where, ![a].call = c]
Refused(a) == slot' = [slot EXCEPT ![a] = Idle] /\ UNCHANGED <<request, approved>>
Allowed(a, c, why) ==
    /\ slot' = [slot EXCEPT ![a] = [Idle EXCEPT !.phase = "allowed", !.call = c, !.how = why]]
    /\ UNCHANGED <<request, approved>>

NobodyToAsk(a) == a \in Subs \/ (set.frontend = "none" /\ set.unattended = "deny")
AllowsUnattended == set.frontend = "none" /\ set.unattended = "allow"

(* A question for a person: sub-agents have nobody to ask, and without a   *)
(* responder the configuration answers, and what it allows goes the way of *)
(* an approval, through the cache.  The request is an event of the run's   *)
(* stream before it is an entry of the map.                                *)
Asked(a, c) ==
    \/ /\ a \in Mains /\ set.frontend # "none"
       /\ In(a, "asking", c)
       /\ request' = [request EXCEPT ![a] = @ + 1]
       /\ UNCHANGED approved
    \/ /\ a \in Mains /\ AllowsUnattended
       /\ In(a, "approved", c)
       /\ approved' = approved \cup {c}
       /\ UNCHANGED request
    \/ NobodyToAsk(a) /\ Refused(a)

(* The call times that have left the window, taken off its front, and the  *)
(* others.                                                                 *)
Stale  == {i \in DOMAIN window : \A j \in 1..i : now - window[j] >= Window}
Recent == SubSeq(window, Cardinality(Stale) + 1, Len(window))

OverLimit == set.limit # 0 /\ Len(Recent) >= set.limit

(* rate_limited: a call beyond the limit is refused and does not count.    *)
Limiter ==
    /\ window' = IF set.limit = 0 THEN window ELSE IF OverLimit THEN Recent ELSE Append(Recent, now)
    /\ passes' = IF OverLimit THEN passes ELSE Append(passes, now)

(* A cached approval spares the question, unless a rule forbids the call   *)
(* or wants it asked every time.                                           *)
Lookup(a, c) ==
    \/ c \notin Cached /\ In(a, "deciding", c) /\ UNCHANGED <<request, approved>>
    \/ c \in Cached \cap set.deny /\ Refused(a)
    \/ c \in (Cached \cap set.ask) \ set.deny /\ Asked(a, c)
    \/ c \in Cached \ (set.ask \cup set.deny) /\ Allowed(a, c, "cache")

(* A path outside the workspace, a dangerous command, unreadable arguments *)
(* of a writing tool.                                                      *)
Barred(c) == Class[c] = "barred"

(* check: rate limit, hard refusals, cache.                                *)
Check(a, c) ==
    /\ Phase(a) = "idle" /\ Len(passes) < MaxChecks
    /\ Limiter
    /\ IF OverLimit \/ Barred(c) THEN Refused(a) ELSE Lookup(a, c)
    /\ UNCHANGED <<set, gate, pending, world>>

(* finalize: the policy under the mode and the trust of this moment.       *)
Decide(a) ==
    /\ Phase(a) = "deciding"
    /\ CASE Verdict(CallOf(a)) = "allow" -> Allowed(a, CallOf(a), "policy")
         [] Verdict(CallOf(a)) = "deny" -> Refused(a)
         [] Verdict(CallOf(a)) = "ask" -> Asked(a, CallOf(a))
    /\ UNCHANGED <<set, gate, limiter, pending, world>>

(* The call is executed, at some time after it was allowed.                *)
Execute(a) ==
    /\ Phase(a) = "allowed" /\ slot' = [slot EXCEPT ![a] = Idle]
    /\ UNCHANGED <<set, gate, limiter, request, pending, approved, world>>

-----------------------------------------------------------------------------
(* The answer.                                                             *)

Id(a) == <<a, request[a]>>
Waiting(a) == Phase(a) = "waiting" /\ slot[a].answer = "none"

(* The responder is polled: the entry is made, the clock starts.           *)
Register(a) ==
    /\ Phase(a) = "asking" /\ In(a, "waiting", CallOf(a))
    /\ pending' = IF set.frontend = "serve" THEN pending \cup {Id(a)} ELSE pending
    /\ UNCHANGED <<set, gate, limiter, request, approved, world>>

Given(a, yes) ==
    /\ slot' = IF Phase(a) # "waiting" THEN slot   \* the receiver has left
               ELSE [slot EXCEPT ![a].answer = IF yes THEN "yes" ELSE "no",
                                 ![a].era = era, ![a].session = session]
    /\ approved' = IF yes /\ Phase(a) = "waiting" THEN approved \cup {CallOf(a)} ELSE approved

(* POST /v1/approval: takes the entry and sends; without one nothing       *)
(* happens, were it only because the client was too fast.                  *)
Post(a, yes) ==
    /\ Id(a) \in pending
    /\ pending' = pending \ {Id(a)}
    /\ Given(a, yes)
    /\ UNCHANGED <<set, gate, limiter, request, world>>

(* The terminal's modal.                                                   *)
Press(a, yes) ==
    /\ set.frontend = "tui" /\ Waiting(a)
    /\ Given(a, yes)
    /\ UNCHANGED <<set, gate, limiter, request, pending, world>>

(* The timer of the wait; an answer that is there already wins.            *)
Expire(a) ==
    /\ set.frontend = "serve" /\ Waiting(a)
    /\ In(a, "expired", CallOf(a))
    /\ UNCHANGED <<set, gate, limiter, request, pending, approved, world>>

Denied(a) ==
    \/ Phase(a) = "expired"
    \/ cancelled /\ Phase(a) \in {"asking", "waiting"}
    \/ Phase(a) = "waiting" /\ slot[a].answer = "no"

\* (fault) an entry that is left behind by its request
LeaveEntry(a) ==
    /\ Denied(a) /\ slot' = [slot EXCEPT ![a] = Idle]
    /\ UNCHANGED <<set, gate, limiter, request, pending, approved, world>>

\* (fault) the wait has no end but an answer
LeaveAnswered(a) ==
    /\ Phase(a) = "waiting" /\ slot[a].answer = "no" /\ slot' = [slot EXCEPT ![a] = Idle]
    /\ pending' = pending \ {Id(a)}
    /\ UNCHANGED <<set, gate, limiter, request, approved, world>>

(* A request ends without approval, by the timer, by the cancelled run or  *)
(* by the answer; the guard takes the entry along.                         *)
Leave(a) ==
    /\ Denied(a) /\ slot' = [slot EXCEPT ![a] = Idle]
    /\ pending' = pending \ {Id(a)}
    /\ UNCHANGED <<set, gate, limiter, request, approved, world>>

Receive(a) ==
    /\ Phase(a) = "waiting" /\ slot[a].answer = "yes"
    /\ In(a, "approved", CallOf(a))
    /\ UNCHANGED <<set, gate, limiter, request, pending, approved, world>>

Entry(a) == [known |-> TRUE, late |-> slot[a].era # era, era |-> slot[a].era, session |-> slot[a].session]

(* cache_decision: a full cache loses some other entry.                    *)
Store(a) ==
    LET c == CallOf(a)
        full == Cardinality(Cached) >= Capacity /\ c \notin Cached
    IN  \E lost \in IF full THEN Cached ELSE {c} :
            cache' = [cache EXCEPT ![lost] = Unknown, ![c] = Entry(a)]

Approver == IF set.frontend = "none" THEN "unattended" ELSE "person"

(* The agent has the approval, a person's or the configuration's: cache    *)
(* it, then run the call.                                                  *)
Conclude(a) ==
    /\ Phase(a) = "approved"
    /\ Store(a) /\ Allowed(a, CallOf(a), Approver)
    /\ UNCHANGED <<set, mode, trusted, switching, limiter, pending, world>>

-----------------------------------------------------------------------------
(* What happens around the calls.                                          *)

(* set_mode and set_trusted: the value first, the cache after it.          *)
Switch(m, t) ==
    /\ set.frontend = "tui" /\ ~switching /\ era + session < MaxSwitches
    /\ m = mode \/ t = trusted
    /\ mode' = m /\ trusted' = t /\ switching' = TRUE /\ era' = era + 1
    /\ UNCHANGED <<set, cache, limiter, slot, request, pending, approved, now, cancelled, session>>

\* (fault) the switch leaves the cache alone
KeepCache ==
    /\ switching /\ switching' = FALSE
    /\ UNCHANGED <<set, mode, trusted, cache, limiter, slot, request, pending, approved, world>>

ClearCache ==
    /\ switching /\ switching' = FALSE
    /\ cache' = [c \in Calls |-> Unknown]
    /\ UNCHANGED <<set, mode, trusted, limiter, slot, request, pending, approved, world>>

(* /new: another history and another file, the same agent and gate.        *)
NewSession ==
    /\ set.frontend = "tui" /\ ~switching /\ era + session < MaxSwitches
    /\ session' = session + 1
    /\ UNCHANGED <<set, gate, limiter, slot, request, pending, approved, now, cancelled, era>>

Cancel ==
    /\ set.frontend # "tui" /\ ~cancelled /\ cancelled' = TRUE
    /\ UNCHANGED <<set, gate, limiter, slot, request, pending, approved, now, era, session>>

Tick ==
    /\ set.limit # 0 /\ now < MaxTime /\ now' = now + 1
    /\ UNCHANGED <<set, gate, limiter, slot, request, pending, approved, cancelled, era, session>>

Work(a) == Decide(a) \/ Execute(a) \/ Register(a) \/ Expire(a) \/ Leave(a) \/ Receive(a) \/ Conclude(a)

Next ==
    \/ \E a \in Agents : Work(a) \/ \E c \in Calls : Check(a, c)
    \/ \E a \in Mains, yes \in BOOLEAN : Post(a, yes) \/ Press(a, yes)
    \/ \E m \in Modes \ {"none"}, t \in BOOLEAN : Switch(m, t)
    \/ ClearCache \/ NewSession \/ Cancel \/ Tick

(* Agents are scheduled and timers fire; nobody has to answer.             *)
Spec == Init /\ [][Next]_vars /\ \A a \in Agents : WF_vars(Work(a))

-----------------------------------------------------------------------------
TypeOK ==
    /\ set \in Setting /\ mode \in Modes /\ {trusted, switching, cancelled} \subseteq BOOLEAN
    /\ cache \in [Calls -> [known : BOOLEAN, late : BOOLEAN, era : Nat, session : Nat]]
    /\ Cardinality(Cached) <= Capacity
    /\ window \in Seq(0..MaxTime) /\ passes \in Seq(0..MaxTime) /\ now \in 0..MaxTime
    /\ slot \in [Agents -> [phase : {"idle", "deciding", "allowed", "asking", "waiting", "expired",
                                     "approved"},
                            call : Calls \cup {"none"}, answer : {"none", "yes", "no"},
                            how : {"none", "policy", "cache", "person", "unattended"},
                            era : 0..MaxSwitches, session : 0..MaxSwitches]]
    /\ request \in [Agents -> Nat] /\ pending \subseteq Mains \X Nat
    /\ era \in 0..MaxSwitches /\ session \in 0..MaxSwitches
    /\ approved \subseteq Calls

(* What is about to run was allowed by somebody entitled to: no hard       *)
(* refusal and no deny rule is ever passed by; a call that an ask rule     *)
(* matches runs on an answer to itself and never on an earlier one; a      *)
(* cached approval was once given to that call, by a person where there is *)
(* one to ask, and without one by a configuration that allows unattended   *)
(* calls, never by one that denies them.                                   *)
RunsAreCovered ==
    \A a \in Agents : Phase(a) = "allowed" =>
        LET c == CallOf(a)
            why == slot[a].how
        IN  /\ ~Barred(c) /\ c \notin set.deny
            /\ c \in set.ask => why \in {"person", "unattended"}
            /\ why \in {"cache", "person", "unattended"} => c \in approved
            /\ why = "person" => set.frontend # "none"
            /\ why = "unattended" => AllowsUnattended
            /\ why = "cache" => set.frontend # "none" \/ AllowsUnattended

(* The map of pending approvals never keeps an entry nobody waits for any  *)
(* more, and a request that waits unanswered can always be answered.       *)
PendingHasWaiter ==
    /\ \A e \in pending : e = Id(e[1]) /\ Phase(e[1]) \in {"waiting", "expired"}
    /\ \A a \in Mains : set.frontend = "serve" /\ Waiting(a) => Id(a) \in pending

(* At most limit calls pass the gate in any window of the rate limit,      *)
(* wherever the window begins.                                             *)
RateWindow ==
    set.limit # 0 =>
        \A t \in 0..MaxTime :
            Cardinality({i \in DOMAIN passes : t <= passes[i] /\ passes[i] < t + Window}) <= set.limit

(* After a switch the cache holds approvals given since.  An approval that *)
(* was given before the switch and is stored after it is exempt: the code  *)
(* does keep that one (see NoOldApproval).                                 *)
CacheIsCurrent == ~switching => \A c \in Cached : cache[c].era = era \/ cache[c].late

(* What set_mode says of the switch: decisions of the old mode are not     *)
(* used on, the cache is emptied.  False of an approval on its way to its  *)
(* agent when the cache is emptied (README, section 4).                    *)
NoOldApproval == ~switching => \A c \in Cached : cache[c].era = era

(* Over HTTP every request for approval ends, by an answer, the timeout or *)
(* the cancellation, even when nobody answers or the answer came before    *)
(* the entry.                                                              *)
AsksEnd ==
    \A a \in Mains : (set.frontend = "serve" /\ Phase(a) \in {"asking", "waiting"})
                       ~> Phase(a) \in {"idle", "allowed"}

(* What cache_decision says of itself: it keeps "a user's decision for     *)
(* this session".  Once no call is under way, the cache holds approvals    *)
(* given in the session that is open now.                                  *)
ApprovalsOfThisSession ==
    (\A a \in Agents : Phase(a) = "idle") => \A c \in Cached : cache[c].session = session

-----------------------------------------------------------------------------
(* What is checked: the properties above, by what they are about. *)

\* What runs is covered by the rules or by an approval, and no switch of mode
\* or trust leaves an approval in the cache that was stored before it.
RunsAreEntitled ==
    /\ RunsAreCovered
    /\ CacheIsCurrent

\* Cache, pending map and rate limit stay within their bounds, and whoever
\* waits for an answer can get one.
WaitsAreBounded ==
    /\ TypeOK
    /\ PendingHasWaiter
    /\ RateWindow

=============================================================================
