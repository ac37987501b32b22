# Formal models of DeepseekNova

TLA+ models of the parts of DeepseekNova whose correctness depends on the order
in which things happen: the durable execution ledger, the ACP server, the
durable runs and the sessions of the HTTP server, the agent loop with its
conversation, compaction and protocol gates, the delegate engine, the permission
gate with its approvals, the runs of the terminal, the coordinator with its graph
executor, the connections to MCP servers, and the snapshots behind `/undo`. Every
module is translated from the Rust source; TLC checks small instances of it, and
TLAPS proves the central invariants of all of them for every instance.

Paths below are relative to `crates/` with the prefix `deepseeknova-` left out,
so `serve/src/acp.rs` is `crates/deepseeknova-serve/src/acp.rs`.

## 1. The system

A Rust workspace of 21 crates around one idea: an agent loop asks a language
model, executes the tools the model calls, and feeds the results back. Four
front ends drive it (command line, terminal UI, HTTP server, ACP server over
stdin). A run can delegate to sub-agents, can be paused and resumed, and leaves
durable records behind.

| Component | State it keeps | Operations | Talks to |
|---|---|---|---|
| Execution ledger (`core/execution.rs`, `store/execution_ledger.rs`) | two SQLite tables: the event log and the projection of each run | `append` under an expected sequence, `projection`, recovery disposition | drivers of runs, any number of processes |
| ACP server (`serve/acp.rs`) | session map with each session's active prompt; prompt tasks; writer channel | `session/new`, `prompt`, `cancel`, `close`, end of input | editor on stdin/stdout, agent stream |
| Durable runs (`serve/lib.rs`) | one record file per run, a semaphore, the claim mutex | `chat`, `resume`, start-up sweep, start and finish of a record | HTTP clients, agent stream, file system |
| HTTP sessions (`serve/sessions.rs`, `store/lib.rs`) | map of live sessions with busy flag and turn counter; one JSONL file per session; the shared history | `create`, `claim_for_chat`, `delete`, `record_turn` | HTTP clients, agent (through the history) |
| Agent loop (`agent/agent/*`, `agent/verify.rs`) | history, step and call counters, read cache, gate counters, cancellation token | turns, checks, segments, recording, gates, end | provider, tools, permission gate, hooks, a person |
| Permission gate and approvals (`permission/lib.rs`, `serve/lib.rs`, `agent/approval.rs`) | rules, mode, trust, cache of approvals, rolling window; map of pending questions | check, ask with timeout, answer, cache, switch | agent loops, HTTP client, terminal |
| Delegate engine (`agent/delegate*.rs`, `recursion.rs`, `attribution.rs`) | semaphore, depth, attribution budget | delegate, cancel from the parent, attribute a failure | agent loop, sub-agents |
| Coordinator (`agent/coordinator.rs`) and graph executor (`core/executor.rs`, `core/graph.rs`) | the plan's graph, outputs of its nodes, a bounded history of results | parse and check a plan, waves, retry, timeout, edge conditions | planner model, tools, delegates |
| Terminal runs (`tui/app/mod.rs`, `tui/commands/builtin.rs`, `cli/main.rs`) | run generation, running flag, shared history, session file, one approval slot | submit, cancel, `/new`, `/resume`, answer | the person, the agent's task |
| Protocol gates (`agent/phase_runner.rs`) | counts of phases and violations, streaks of failures per tool, verify results | evaluate the gates at a phase, note a result, verdict at the end | agent loop (off by default) |
| Plan mode (`agent/plan_mode.rs`) | none | one read-only request, a graph drawn from its text | provider |
| Conversation and compaction (`agent/memory.rs`, `agent/compaction.rs`, `context/history.rs`) | message list, full texts and marks of cut results, failures of the digest | seed, add, cut (L1), slide (L2), digest (L3), recall, write back | agent loop, provider, long-term memory |
| Budget and cost (`agent/budget/*`) | spent tokens and money | ask for compaction, stop at a limit | agent loop |
| Checkpoints (`checkpoint/lib.rs`, `cli/tui_undo.rs`) | per agent a stack of file snapshots; one file of lines for all of them | load, snapshot, evict, append or rewrite, roll back, clear | write tools, `/undo`, `checkpoint` commands |
| MCP client (`mcp/connection.rs`, `mcp/http_client.rs`, `mcp/discovery.rs`) | pending requests by id, reader and writer tasks; over HTTP a session id, a lock and a generation | connect, negotiate, request with timeout, reconnect, shut down | external servers |
| Providers (`provider/*`) | clients, retry state, cost ledger | streaming request, retry, routing | language-model APIs |
| Config, context, graph, skills, scanner, metrics, telemetry, security, sandbox, tools, CLI | configuration, indexes, screens | I/O, text and wiring | all of the above |

`PROJECT.json` repeats the list with the modules and the status of each part.

### Hard behaviours

* **Two threads, one entry.** HTTP handlers run on several threads and only
  parts of them hold a mutex; the ACP server aborts tasks that may be executing
  at that moment; the tools of one turn run side by side.
* **Crashes.** The ledger, the run records and the session files outlive the
  process; each can be cut off between two writes.
* **Failed saves.** Every save of a record or a turn may fail, and most failures
  are only logged.
* **Ends without an ending.** An agent task may panic; its stream then just
  stops.
* **A person who does not answer**, a client that goes away, a cancellation
  during either.
* **Cancelled and still there.** Cancelling a run in the terminal or over ACP ends
  the task that reads its stream; the agent behind it goes on, asks and writes.
* **Waiting on each other.** Delegations wait for permits their ancestors hold; a
  client and a child process wait for room in each other's pipe.
* **Shared and stale.** A session id, a cache of approvals, a bounded history of
  results are read, replaced and cleared by concurrent requests.
* **Loops.** Verification, LLM verification and review can each send the loop
  back; limits share counters.

The hazards in `PROJECT.json` name these at their lines.

### What makes each part correct

* Ledger: log and projection are one truth at every crash point; of two writers
  with the same view one is refused; a tool starts once and only with its
  answer; recovery never forgets a started tool.
* ACP server: one prompt per session, one answer per request, each prompt
  answered, the server drains at end of input.
* Durable runs: one execution per run, no permit lost or doubled, a record that
  says Running is being executed, results are not rewritten, every run settles.
* Sessions: one prompt at a time, what a client is shown is what the agent
  remembers, a deleted session stays deleted, no outcome wedges a session.
* Agent loop: every tool call in the history has its result, refused calls
  never run, order is kept around writes, the cache is never stale, Done is
  verified, the loop ends and a cancelled loop always ends.
* Conversation: a history that is sent or stored can be replayed, only old
  messages go, and what was cut can be fetched.
* Protocol gates: a drift is told once per streak, a hard gate stays shut, and a run
  that says it is verified is.
* Delegates: bounded depth and concurrency, no permit lost, every delegation
  ends, and a cancellation frees everything below the main run.
* Permission gate and approvals: a call that runs was allowed by what holds now,
  an approval counts only under the mode it was given in, the rate holds in every
  window, every question ends.
* Terminal: what the session file holds was said in that session, a plain run is
  in it unless its append failed, a person sees every question unless a cancelled
  run is in the way, the input line comes back.
* Coordinator: a node is decided once, from the final outputs of its sources; a
  writing tool is never called by a plan; what fails stays failed and is told.
* MCP: an answer reaches its own request, nothing is left pending after it, the
  newest common version is offered before a connection is given up, two full pipes
  never lock; a request is executed twice only when the server ended
  the session with its result.
* Checkpoints: undoing goes back through the changes that stand, the last one
  first, whatever calls, saves and undos failed in between; no snapshot is lost
  or comes back, as long as one agent or command at a time holds a copy.

## 2. Modules

| Module | Lines modelled | State and actions |
|---|---|---|
| `ToolLifecycle` | abstract | What the ledger promises: stages of a run and of each call, one edge per step. |
| `ExecutionLedger` | `core/execution.rs`, `store/execution_ledger.rs` | `events` and `projection` are the two tables, `txn` the IMMEDIATE transaction with its stage, `view` the sequence each writer last observed. `Begin`, `InsertEvent`, `SaveProjection`, `Commit`, `Rollback` and `Crash` are the points at which `append` can be interrupted; `Accepts` and `Apply` are `RunProjection::apply`. |
| `AcpServer` | `serve/acp.rs` | `active` is `AcpSession.active`, `task` the prompt tasks by poll state, `lock` the session-map mutex, `out` the writer channel. `Abort` is `JoinHandle::abort`: a task stops at its next await that is not ready. |
| `AcpServerProofs` | | Theorems about `AcpServer`. |
| `ServeRuns` | `serve/lib.rs` | `record` is the status in each run's file, `req` the position of each handler or task, `permits` the semaphore, `claimLock` the claim mutex, `marking` the records a starting server has listed for its sweep. |
| `ServeSessions` | `serve/sessions.rs`, `serve/lib.rs`, `store/lib.rs` and the seeding and write-back of the history in `agent/agent/mod.rs` | `store` and `turns` are the files, `live` the manager's map, `object` the live sessions ever built (an orphaned one goes on running), `req` each request with its agent's memory. |
| `AgentLoop` | `agent/agent/loop_impl.rs`, `agent/verify.rs` | `pc` is the place in the loop, `turn` the calls of the turn, `profile` the configuration of the run, `todo`, `batch`, `queue`, `open` the segments, `owed` the tool calls of the history that still lack a result, `cache` the read cache, `unchecked` the gates that have not looked since the last change, `changed` whether a tool that declares that it writes was executed. |
| `Conversation` | `agent/memory.rs`, `agent/compaction.rs`, `context/history.rs`, the boundary of `loop_impl.rs`, seeding and write-back in `agent/agent/mod.rs` | `memory` is the run's `Memory`, `stored` the shared history, `sent` the snapshot the request is made of, `strikes` the failures of the digest. `Shrink`, `Slide` and `Digest` are L1, L2 and L3; `Prepare` is what a boundary does with them. |
| `AgentRun` | the same | `AgentLoop` and `Conversation` step by step: `Spoken` says which messages a step of the loop adds. |
| `PhaseGates` | `agent/phase_runner.rs` and its calls in `agent/agent/loop_impl.rs` | `runner` is the `PhaseRunner`, `levels` the levels of the four gates, `results` what the calls returned, in that order, `last` the latest verification, `decided` whether verify commands ran on the latest final text. `Phases` says what a step of the loop does to the runner. |
| `AgentLoopProofs` | | Theorems about `AgentLoop`, and about the runs of `AgentRun` and `PhaseGates` that contain it. |
| `DelegateEngine` | `agent/delegate.rs`, `delegate_tool.rs`, `recursion.rs`, `attribution.rs`, `runtime/delegate.rs` | `phase` is where the future of a delegation stands, `task` the sub-agents that are alive, `queue` and `permits` the fair semaphore, `used` the shared attribution budget. `Begin`, `Acquire`, `TaskEnds`, `Attributed` and `Drop` are one delegation's attempts; `Cancel` is the main run's token. |
| `DelegateEngineProofs` | | Theorems about `DelegateEngine`. |
| `ToolApprovals` | `permission/lib.rs`, `serve/lib.rs`, `agent/approval.rs` | `set` is a configuration (rules, mode, front end, limit), `cache` the approvals, `window` the call times, `slot` each agent's call, `pending` the server's map. The checks of `PermissionGate::check` are one step; asking, answering, timing out, caching and switching are steps of their own. |
| `HttpServerProofs` | | Theorems about `ServeRuns` and `ToolApprovals`. |
| `TuiRuns` | `tui/app/mod.rs`, `tui/approval.rs`, `tui/commands/builtin.rs`, `cli/main.rs` | `reader` is the task that cancelling aborts, `agent` the one it does not, `gen` and `genOf` the generations, `inbox` the events on their way, `history` what all runs share, `modal` the approval slot, `files` what the session files hold, `lost` the turns whose append failed. |
| `SessionsProofs` | | Theorems about `ServeSessions` and `TuiRuns`. |
| `Dataflow` | abstract | What a task graph means: a node is decided after its sources, skipped when no edge into it is satisfied. |
| `Coordinator` | `agent/coordinator.rs`, `core/executor.rs`, `core/graph.rs` | `kind`, `wrote`, `hints` are what the planner wrote, `graph` what was parsed of it, `waves` and `wave` the executor's, `task`, `attempt`, `children` a node's action, `strays` aborted children that have not noticed, `history` the results later steps see. |
| `CoordinatorProofs` | | Theorems about `Coordinator`, the refinement of `Dataflow` among them. |
| `McpStdio` | `mcp/connection.rs`, `mcp/protocol.rs` | `pending` is the map, `reply` the oneshots, `channel`, `writing`, `stdin`, `stdout` the way to the child and back, `reader` and `writer` the tasks; `offer` and `spoken` the version negotiation: what the client offers and what the result names. The child reads, answers, asks and dies as it likes. |
| `McpHttp` | `mcp/http_client.rs` | `session`, `lock` and `generation` are the connection's; each request has its POST, the session id it carried and the response; `live` is the server's session. |
| `McpServers` | `mcp/discovery.rs` | A connection is one of the two. |
| `McpServersProofs` | | Theorems about `McpServers`. |
| `Checkpoints` | `checkpoint/lib.rs`, the write tools of `tools/fs.rs`, `runtime/lib.rs`, `cli/tui_undo.rs`, `cli/main.rs` | `lines` and `ragged` are the file, `manager` each agent's stack with its `persisted_len`, `call` a tool call between its snapshot and its effect, `undo` the command that is rolling back, `disk` the files of the workspace. |
| `RecoveryProofs` | | Theorems about `ExecutionLedger` and `Checkpoints`. |
| `MC*` | | Instances for TLC, one per component. |

`AgentRun` composes `AgentLoop` and `Conversation`: a step of the loop and what it
says are one step. `PhaseGates` adds the protocol gates to the same steps: it
decides the choice that `ToolCalls` of `AgentLoop` leaves open, whether all calls
of a turn are refused. `ExecutionLedger` and `ToolLifecycle` are composed by a refinement mapping
(`runBar`, `toolBar`). The servers meet the agent through its event stream, which
each server module contains as far as the server can tell runs apart: how the
stream ends. `Coordinator` implements `Dataflow` (`DataflowSpec`): the waves, the
retries and the joins of the executor are one way to decide the nodes of a graph.
`ToolApprovals` and `TuiRuns` share the approval slot of the terminal: the first
has the gate's view of it, the second that of the screen. `AgentLoop` shows that these ends exist (`ended` is "done",
"paused", "error" or, after a panic on the serial path, "silent").

The properties of a module are stated one by one; under "What is checked" it
joins those that are about the same thing, and the configurations name the joint
ones. A theorem about a joint property rests on theorems about its parts.

Some definitions are marked "Seeded fault" or "(fault)" in the modules. No specification uses
them: each is the form a plausible bug would give the definition that follows
it, kept to show that a property would notice.

### Abstractions worth knowing

* Payloads, texts, ids and JSON are model values; file contents are "fresh" or
  "stale".
* A save of a run record is one step, because the code writes a temporary file
  and renames it. An append to a session file is not: a crash may tear it.
* In `AgentLoop` the deadline and the token and cost budgets depend on time and
  price, so `Boundary` may end the run at any step because of them. A call whose
  error is retryable is executed up to three times (`Retry`), and every attempt
  may have changed files.
* In `Conversation` a message is its role, what it is, the ids it speaks of and
  whether it is large. Token counts are left out: a boundary may reach any level
  of compaction, and a large result exceeds every threshold in use; the output
  of a read is large, that of a write and a refusal small. `Habits` says what
  earlier runs left behind and which options are on. `log` holds all messages
  since the start or the last digest, and `era` counts these stretches, so that
  a result that was cut in an earlier one is told from one cut in this. In the
  profiles outside `Talking` messages are only counted (`owed`), as the gates and
  segments do not look at them.
* `raced` in `ServeSessions` remembers the sessions that were deleted between a
  chat's look-up and its claim of the busy flag. The code has that window
  (`sessions.rs`, between releasing the manager's mutex and the
  compare-exchange), and properties about such a session are false there. They
  are stated for every other session, and the window is listed as a hazard.
* `unsaved` in `ServeRuns` and `ServeSessions` remembers the failed saves that
  the code only logs. A run whose end could not be saved keeps saying Running
  until the next restart, and the properties say so.
* `SecondServer` (`ServeRuns`) and `SideWrites` (`AgentLoop`, the field
  `sideWrites` of its profiles) switch on a behaviour of the real system. With
  each of them some property is false (section 4); `runs_restart` keeps the first
  off, and `CacheFresh` is stated for profiles without the second, in order to show
  that nothing else breaks the property.
* In `PhaseGates` a tool's name is its kind, and the findings of quality hooks, which
  the built-in gates do not look at, are left out. In the profiles outside `Gated`
  the refusal of a whole turn stays a choice.
* In `DelegateEngine` a sub-agent is a task that delegates, ends or fails; in
  `Coordinator` a tool, a thought and a delegation are actions that end in one of
  the ways the executor can tell apart. Observe and conditional actions are in no
  plan and are left out. A tool that was refused returns a text, so the node
  succeeds, as in the code.
* `ToolApprovals` abstracts arguments and patterns to calls with one cache key and
  a configuration to the tables that match each call. Time passes in ticks of a
  fraction of the rate window.
* `McpStdio` abstracts a line to its kind and id; junk stands for notifications,
  oversized lines, invalid UTF-8 and unparsable JSON, which the reader skips. The
  server supports a fixed set of versions: one that names another set in every
  refusal could keep the negotiation going until the timeout of the connect. The
  result of an initialize request is one that names the offered version or one
  that names another, whatever the server supports; the client does not
  compare it.
* `McpHttp` begins with a session; a server without sessions never ends one. The
  version negotiation within a handshake is the same code as over stdio and is
  one POST. A dropped future may leave a POST on the wire; its execution is not
  counted.
* In `Checkpoints` contents are numbers, and the commands that only read (list,
  verify, diff) are left out. `trail` is what the calls that stand have changed,
  the truth an undo is compared with; `raced` are files that two calls, or a call
  and an undo, were about at once (the snapshot and the effect of a call are two
  steps without a lock between them); `marks` says whether lines were written
  from an old copy, cut short, torn by a failed save or shed, and whether somebody
  else held a copy. A save that fails may have failed to open the file, or have
  written a part (`SnapshotTorn`; then nothing is promised any more). What
  bash, sub-agents and people write has no snapshot and is left out. One undo
  command runs at a time.
* `rate_limited` reads the clock before it takes the lock of the call times; in
  `ToolApprovals` both are one step. `Recent` takes the times that have left the
  window off its front, as the code pops them, and stops at the first that has not.
* `Replay` of `ExecutionLedger` and `Placed` of `Coordinator` are recursive functions,
  and what a session's agent remembers of its file (`Shown`, `Remembered`) is said of
  pairs of turns: TLAPS can reason about these forms.
* The ledger accepts ToolStarted for a tool that is requested and on which no
  policy decision was recorded (an allowed call and an undecided one have the
  same status), although the refusal of other starts reads "was not allowed
  before start". `AskedThenApproved` is therefore about calls policy sent to the
  user, not about all calls.

## 3. Runs

| Run | Instance | What it shows |
|---|---|---|
| `ledger_lifecycle` | 1 run, 2 calls, 1 approval, 2 writers, logs of 6 events (2 writers contend up to 4) | `WellFormed`, `RecoveryIsSound`: log and projection never part, a pending approval guards its tool, recovery forgets no started tool. `StartedAtMostOnce`, `AskedThenApproved`: a call starts once, and after an ask only with its approval. `LogGrows`: only by a writer that has seen all of it, never after its end. `ImplementsLifecycle`: the ledger implements `ToolLifecycle`. |
| `acp_prompts` | 1 session, 3 prompts, both runtimes | `ActivePrompts`: the entry holds a prompt that can be cancelled, each side answers at most once. `SingleThreadIsExact`: on the single-threaded runtime exactly one side answers and one prompt runs. `PromptsEnd`: every prompt is answered and the server drains. |
| `runs_restart` | 3 requests, 2 runs, 2 permits, 3 starts, failing saves | `OneExecution` per run; `RequestsSound`: permits are accounted for; `RunningIsExecuting`; `SettledStays`: results are not rewritten; `RunsSettle`: every run settles. |
| `agent_loop` | eight profiles: 2 turns of up to 3 reads and writes, concurrent, cached, panics, questions; 2 turns of up to 2 reads and delegates, with retried errors; 4 turns of up to 2 calls, serial, one cycle per gate, side writes; 3 turns of one write or delegate with both gates; 2 turns of 2 calls, and 3 turns with the feedback of a gate, both with their messages; 3 turns of one write with a verify gate, and 2 turns of 2 concurrent reads, both under the protocol gates | `RequestsReplayable`: every call has its result, also in what is sent and stored after any compaction. `HistoryKept`: only the oldest messages go, and the text of a result that was cut can be fetched. `SegmentsAreSound`: order around writes, fresh cache, refused calls never run, the call budget is exceeded by less than a turn. `DoneIsChecked`: once a tool that declares that it writes was executed, every configured gate looks after the last change, a delegate's included. `PhasesAreTrue`: a drift is told once per streak, a hard drift gate lets nothing run in a later turn, a run that is verified says so and one without a pass is reported. `RunsEnd`: the loop ends or waits for a person, and a cancelled loop ends although nobody answers. |
| `agent_system` | the two profiles with messages | Finding: `SystemStays` is false, a digest drops the system prompt. |
| `sessions_chat` | 1 session, 3 chats, a delete, 3 live objects, 1 crash, failing appends | `BusyExcludes`: one prompt per session. `HistoryRestored`: the file is in the history in order, turns are numbered, at most one system prompt. `DeletedStays`. `BusyEnds`. |
| `delegate_tree` | 3 delegations, 1 to 3 permits, 3 levels, one retry, budget of one attribution | `LimitsHold`: permits are accounted for whatever fails, is retried or dropped; no more sub-agents than permits, none too deep, attempts bounded. `DelegationsFinish`: every delegation ends without recursion, and after a cancellation with recursion too. |
| `tool_approvals` | 2 runs and a sub-agent, 3 calls, several configurations, one switch of mode or trust | `RunsAreEntitled`: a call that runs is covered by a rule, a mode or an approval, a person's or (with nobody to ask) the configuration's, and a switch leaves no stored approval in the cache. `WaitsAreBounded`: the rate holds, a pending entry has somebody waiting. `AsksEnd`: over HTTP every question ends. |
| `tui_runs` | 2 prompts, 2 questions each, 2 sessions, appends that fail | `SessionsAreTrue`: what a session file holds was said there, plain runs are recorded unless their append failed, the history holds what the file does until a cancelled run writes late and again after `/new` or `/resume`, a question is refused unseen only beside a cancelled run. `RunsEnd`: the input line comes back. |
| `coordinator_graph` | plans of 4 nodes of which 3 are kept, edges and hints, 2 attempts, history of 1 | `WavesAreSound`: no planned write, children end with their attempt, failures stay and are told. `StepsSeeResults`: a step is given what it depends on. `DataflowSpec`: the executor implements `Dataflow`, which does not say whether an edge without a condition is satisfied by a source that failed or was skipped. `RunEnds`. |
| `mcp_servers` | 3 requests to a child process with channel and pipes of one line; 2 concurrent requests over HTTP, one expiry, one rotation, one fault | `RequestsMatched`: answers match, pending entries are accounted for, the negotiation ends with a result after at most two offers, the last as new as any version both sides know. `ExpiryHandled`: every handshake is paid for by an expiry, a rotation (two at most) or a relapse to an old id, no second execution but for a cut result, expiries are invisible to requests one after the other. `RequestsEnd`: a full stdout is read again, a dead child fails whoever was registered, a shutdown ends, and so does every request over HTTP. |
| `checkpoints` | 2 agents, 2 files, 3 calls, 2 starts, 3 snapshots, 2 undos or clears | `UndoRetraces`: as long as no line was written from an old copy and no save or undo stopped half-way, the lines lead back through the calls that stand, through all of them unless old ones were shed. `ForksNeedCompany`: one agent after the other never writes from an old copy. |

### Bounds

* Ledger: the shortest log in which a call is put to the user and then started
  has 6 events (accepted, requested, evaluated, asked, resolved, started), hence
  `MaxSequence = 6`. Contention needs two writers with equal views; three or
  more add nothing because a transaction excludes all others. Beyond
  `MaxContended` events one writer goes on alone (`SoleWriter`); the rule that
  refuses a stale writer does not look at the length of the log. The proofs
  have neither bound. `MaxSequence` itself is the 63-bit limit of the SQLite
  column, at which an append is refused.
* ACP: a third prompt is needed for a stale clear to hit a prompt that replaced
  the cancelled one and for a further one to be admitted beside it. One update
  on the first prompt is enough for an update after an answer.
* Durable runs: two requests can race for one run while a third holds or awaits
  the other permit; three starts are a crash while serving and one in the sweep.
* Sessions: a live object per restore (crash, delete); three requests for one
  that runs, one that is refused and one after it.
* Agent loop: a turn of three calls has a call before, in and after a write
  segment; with retries two calls suffice, one that is executed again beside one that
  has returned; four turns use up one cycle of each gate and end. `profile` is
  chosen at the start, so one run checks the eight configurations side by side. A
  write and a delegate in turns of their own, three of them, are a change behind
  each gate that a delegate made.
* Protocol gates: with a threshold of two failures, three turns of one call have a
  streak that goes on past it and one that begins after a success, a turn of two
  calls one that the order of return decides. The two sets of levels are all soft
  and all hard.
* Conversation: two turns of two calls, before them nothing or a turn of an earlier
  run with its result whole or cut, give more units than a digest keeps, an
  exchange at its edge, a slide that finds a place to stop and one that does not,
  and a digest after a digest. The three habits have recall, cutting and reasoning
  on and off; reasoning with calls defers the digest.
* Delegates: three calls are a chain down to the depth limit, or two that compete
  for a permit under a third; one retry is one degradation.
* Approvals: two runs race for the gate's cache and window, the sub-agent has no
  responder; one switch separates the mode of an approval from that of its use.
* Terminal: a cancelled run beside a visible one, in the same session or in the
  next; a second question is one that meets the slot taken.
* Coordinator: three nodes are a fork, a join or a chain; the fourth is cut off.
  The graphs hold every edge condition, a hint and a cycle.
* MCP: with one line of channel and of each pipe, three requests fill the way to
  the child while the reader holds a question of the server (`MaxAsks = 1`; a second
  line of the server that is no answer would wait in the same place). Two requests over
  HTTP are one that reconnects and one that is anywhere else meanwhile.
* Checkpoints: three snapshots and moves, which take two, reach an eviction with a
  line left that must survive it; two agents are one after the other or side by
  side. The constraint `Promising` does not go on from states in which lines were
  forked, cut or torn, where neither property promises anything more (the state itself
  is checked). Paths and agents are interchangeable, hence the symmetry.
* Deadlock is not checked where the system really stops (a run that ended, a
  server that returned, every request served).

### Fairness

`AcpServer`: the runtime polls every task that can run, the main task leaves its
critical sections, and a stream that is polled for ever ends (strong fairness of
`EndOfStream`, because a poll may yield any number of times): the agent's steps
and its calls are bounded. The client is not fair; nothing obliges it to send.
`ServeRuns`: handlers and tasks run, a run ends by itself, a dead server is
started again; clients, crashes and the second server are not fair.
`ServeSessions`: handlers and tasks run; deletes and crashes are not fair.
`AgentLoop`: the agent's task is scheduled, provider and tools return because
they have timeouts; the person and whoever cancels are not fair. `AgentRun` takes
over the same condition: what a step says is part of the step.
`DelegateEngine`: futures and tasks are polled, the semaphore is first come first
served, a sub-agent's task ends by itself unless it waits for a delegation of its
own; a cancellation is not fair.
`ToolApprovals`: the agents run and the timeout of a request fires; the person,
the switches and Ctrl-C are not fair.
`TuiRuns`: tasks run and events are taken; the person owes nothing, and `RunsEnd`
exempts a run that waits for an answer (there is no timeout in the terminal).
`Coordinator`: the executor runs, nodes end, time out or are retried.
`McpServers`: the client's tasks run; over stdio nothing is asked of the child,
and no timeout is needed for the liveness properties. Over HTTP a POST gets an
answer or its timeout ends it; the lock is first come first served (strong
fairness of `Reconnect`).
The ledger and the checkpoints have no fairness and no liveness property: they are
libraries.

## 4. Findings

`agent_system` is a run whose expected outcome is a violation; `PROJECT.json`
quotes the comment that the code contradicts. The digest (L3) clears the whole
message list and puts the digest, the touched files and the last three units in
its place; the system prompt is an ordinary message of that list and goes with
the rest. Every later request of the conversation, in this run and in those that
are seeded with its history, is sent without it.

Three more observations about compaction, about which nothing is stated as a
property:

* `slide_window` drops everything up to the next user message behind a call or a
  result. In a run with a single prompt there is none, so the prompt and all its
  results go and the next request is the system prompt alone, although
  `agent/src/memory.rs:217` says that it drops the oldest turn chunk.
* The marks that make cutting idempotent (`agent/src/agent/loop_impl.rs:485`) do not
  outlive a digest or the run. A result that was cut before is cut again, and
  `full_results` then has the cut text under its id; a result that was cut in an
  earlier run and is not cut again cannot be fetched at all. `CutIsFetchable` is
  therefore about the results cut since the run began or since its last digest.
* The three failures after which the digest gives up are counted per run, not per
  session.

Four observations about the protocol gates, which are documented in `GUIDE.md`:

* With `drift-detection` hard, the first drift refuses every call of every later
  turn (`HardDriftHolds`). Only a success of the same tool ends the streak, and no
  call runs any more, so the run can only answer, pause or reach its last step.
* `verify-evidence` is evaluated at the phases Verify and Distill. No call follows
  either evaluation, so it never refuses one; the comment at
  `agent/src/agent/loop_impl.rs:1527` takes it for the gate that does.
* `GUIDE.md:433` says that soft violations go into the event stream and the next
  prompt; they are only sent as events.
* A run without any pass is reported as unverified also with `verify-evidence` off,
  and a run that changed no file too.

The following disagreements were each shown by a run of its own that is retired
now, so that the set of runs stays one per question. Each can be seen again with
the constants and the property named.

1. `OneResponse` of `AcpServer` (`acp_prompts` with one prompt): a cancel that
   meets a prompt's task in mid-poll makes both answer, although
   `serve/src/acp.rs:40` says that exactly one does. The same unchecked write can
   clear the entry of the next prompt. What holds is `SingleThreadIsExact`.
2. `InterruptedIsDead` of `ServeRuns` (`SecondServer = TRUE`): the sweep runs
   before the listener is bound and takes another process's live runs for dead
   ones (`serve/src/lib.rs:75`).
3. `DoneIsSuccess` of `ServeRuns` (`runs_restart` as it is): a stream that ends without
   a closing event counts as success (`serve/src/lib.rs:69`).
4. `DelegatesAreChecked` of `AgentLoop` (`agent_loop` as it is): delegates are not
   write tools for the gates, although `agent/src/delegate_tool.rs:79` says that
   sub-agents write files. In a run that writes nothing itself no gate looks at what
   they changed. What holds is `DoneIsChecked`.
5. `CacheFresh` of `AgentLoop` without its premise (a profile with `sideWrites`): only write calls that went
   through a segment empty the cache (`agent/src/agent/loop_impl.rs:260`).
6. `SystemPresent` of `ServeSessions`: a restored history is taken to contain the
   system prompt; it never does (`agent/src/agent/mod.rs:1095`).
7. `RecursionEnds` of `DelegateEngine` (`delegate_tree` as it is): with recursion
   allowed, a delegation keeps its permit while its sub-agent waits for one of
   the same semaphore (`agent/src/delegate.rs:464`). What holds is that a
   cancellation ends it (`CancelFreesAll`, a part of `DelegationsFinish`).
8. `ApprovalsOfThisSession` of `ToolApprovals`: `/new` and `/resume` keep the
   gate's cache (`cli/src/main.rs:2197`), which is documented as the session's
   (`permission/src/lib.rs:1093`).
9. `SerialApprovals` of `TuiRuns`: two questions at once cannot happen "in theory"
   (`tui/src/app/mod.rs:378`), and do beside a cancelled run.
10. `core/src/graph.rs` calls an edge without a condition always satisfied;
    `edge_condition_satisfied` in `core/src/executor.rs` treats it like Success.
    `Coordinator` has the code's reading; `Dataflow` leaves open whether such an edge
    is satisfied by a source that failed or was skipped (`Possible`), and shows that
    everything else is decided as the graph says. The planner's "success" is parsed
    to no condition (`agent/src/coordinator.rs:137`), so plans mean the code's
    reading.
11. `UndoRetraces` of `Checkpoints` without its premise about `marks`. Building an
    agent loads the lines and then sets `persisted_len` back to 0
    (`checkpoint/src/lib.rs:178`), so the first snapshot of every agent, and every
    eviction, replaces the file by that agent's own copy. Lines that another
    session has added since are lost, lines that were undone since come back, and
    the next `/undo` restores a content that was undone already.
    `cli/src/tui_undo.rs:9` says of the shared file that loading it anew for each
    command supports several processes by itself. Two more ways to the same
    end: an undo of everything that fails half way leaves the lines of files it has
    restored, and a crash between a line and its end makes the next append
    unreadable, after which a new agent starts with an empty stack and replaces
    the file.
12. `ExpiryInvisible` of `McpHttp` (`mcp_servers` as it is), against
    `mcp/src/http_client.rs:239`. A request whose session has ended clears the
    connection's session id before it reconnects. A request posted meanwhile
    carries no session and fails, and a late 404 of an older request clears the
    id the reconnect has just obtained: its generation is out of date, so nobody
    runs the handshake again and every later request fails. Four neighbours of it,
    each found as a counterexample of `SequentialExpiryInvisible` before
    `OneExpiry` excluded it: an empty session header on the response to an answer
    of the client (`post_jsonrpc_value`), a rotation on the response to the
    `initialized` notification (its headers are not read), a handshake that fails
    or is dropped half way, and a 404 without the header; all of them leave a
    connection that never initializes again.
13. `FailureIsTold` of `PhaseGates` (`agent_loop` as it is): `GUIDE.md:437` says that
    with failures and no later pass a run is unverified. The evidence is any pass of
    the run: the commands pass, the LLM verification fails and sends the run back,
    the next look at it is skipped, and the run is Done and not unverified although
    its latest verification failed. What holds is `EvidenceIsLatest`: if the
    commands decided about the latest text, they passed.
14. `NoOldApproval` of `ToolApprovals` (`tool_approvals` as it is):
    `permission/src/lib.rs:636` says that reusing decisions of the old mode would get
    round the new one, and the switch therefore empties the cache. An answer given
    before the switch is stored by its agent after it, and later calls with the same
    key run on it. `CacheIsCurrent` exempts that entry. Beside it, the cache is
    documented as what a user approved (`permission/src/lib.rs:550`); with no responder
    and `ask_without_responder = "allow"` it also keeps what nobody was asked.
15. `EchoIsHonoured` of `McpStdio` (`mcp_servers` as it is): `mcp/src/connection.rs:395`
    calls the version the server echoes authoritative. `negotiate_initialize` returns
    any result (`mcp/src/connection.rs:479`); one that names a version the client
    does not know is only logged and the connection is ready. What holds
    is `Negotiated`.

## 5. Proofs

`tlapm M.tla` checks every obligation of `M`, for `M` one of
`RecoveryProofs`, `AcpServerProofs`, `HttpServerProofs`, `SessionsProofs`,
`AgentLoopProofs`, `DelegateEngineProofs`, `CoordinatorProofs` and
`McpServersProofs`. The theorems are about the
specifications that TLC checks, for every value of their constants that satisfies
the assumptions named in the modules; these only say that bounds are numbers, that
a marker such as `NoPrompt` is none of the things it stands beside, and that
sets and records of constants are of the kind the code has.

| Property | Theorem | Inductive invariant |
|---|---|---|
| `WellFormed`, `StartedAtMostOnce`, `LogGrows`, `ImplementsLifecycle` | `WellFormedAlways`, `StartsOnce`, `LogsGrow`, `LedgerImplementsLifecycle` | `LedgerInv` |
| `RecoveryIsSound`, `AskedThenApproved` | `RecoveryStaysSound`, `AskedMeansApproved` | `ExplainedInv` |
| `RequestsSound` | `RequestsStaySound` | `RequestsInvariant` |
| `OneExecution`, `RunningIsExecuting`, `SettledStays` | `RunsOnce`, `RunningMeansExecuting`, `ResultsStay` | `RecordsInvariant`, without a second server |
| `ActivePrompts`, `SingleThreadIsExact` | `ActivePromptsAlways`, `SingleThreadAlways` | `PromptsInvariant` |
| `BusyExcludes`, `DeletedStays` | `BusyAlwaysExcludes`, `DeletedAlwaysStays` | `FlagInvariant` |
| `HistoryRestored` | `HistoryAlwaysRestored` | `StoryInvariant` |
| `CallsAnswered`, `SegmentsAreSound` | `EveryCallAnswered`, `SegmentsStaySound`; `GatedRunsAreSound` | `LoopInvariant` |
| `DoneIsChecked` | `DoneMeansChecked` | `GatesSee` |
| `LimitsHold` | `LimitsAlwaysHold` | `EngineInvariant` |
| `RunsAreEntitled`, `WaitsAreBounded` | `RunsAreAlwaysEntitled`, `WaitsStayBounded` | `GateInvariant` |
| `RequestsReplayable`, `HistoryKept` | `RequestsStayReplayable`, `HistoryStaysKept` | `ConversationInvariant`, above `LoopInvariant` |
| `PhasesAreTrue` | `PhasesStayTrue` | `PhasesInvariant`, above `LoopInvariant` |
| `SessionsAreTrue` | `TerminalSessionsStayTrue` | `SessionsInvariant` |
| `RequestsMatched` | `RequestsStayMatched` | `StdioInvariant` |
| `ExpiryHandled` | `ExpiryStaysHandled` | `HttpInvariant` |
| `ForksNeedCompany` | `ForksAlwaysNeedCompany` | `CheckpointInvariant` |
| `WavesAreSound`, `StepsSeeResults`, `DataflowSpec` | `WavesStaySound`, `StepsAlwaysSeeResults`, `CoordinatorImplementsDataflow` | `CoordinatorInvariant` |

**Ledger.** `LedgerInv` adds to the type what ties the parts together: the log is
as long as its projection says, a transaction past its check carries an event the
current projection accepts, the sequence a transaction expects is its writer's
view, a pending approval guards a tool that waits for it, and a call whose start
is in the log is in no state from which it can start again. That last part is what
makes `StartedAtMostOnce` inductive: the property speaks of the log, the guard of
the projection. `ExplainedInv` says how a log explains its projection (`Explains`),
and each part is kept by any event the projection accepts: there is a way through
the log that ends in the projection (`Stages`; two such ways are one, so `Replay`
gives the same); a call that left "started" has its terminal fact; a call policy
put to the user waits, was denied or has its approval; and the pending approval is
the last one requested, after everything policy said of its call.

**Durable runs.** `RequestsInvariant` (type, a request at work has a run, permits
accounted) holds even with a second server. `RecordsInvariant` needs the
hypothesis that there is no second server on the directory, which is exactly what
finding 2 is about: requests are active only while the main server serves, what a
sweep has listed is still Running and is all that is, the claim mutex is held by
the request in the middle of its claim and the record it looked at has not moved,
and an executing request is the only one and has its record Running or not yet
written.

**ACP server.** `PromptsInvariant` says of both runtimes that a task which has not
ended has not answered, that nothing is known of a request not yet received, and
that an entry holds a task that can still be cancelled. Its part `OneThread` is
about the single-threaded one: the main task's critical sections run beside no
poll, so `abort()` drops what it aborts, a live prompt is the one its session's
entry holds, and a cancelled answer is the last word of a task that is no more.

**HTTP sessions.** `FlagInvariant`: a request past the claim holds the busy flag of
its object, no two hold one, and the object is the one the manager names for the
session unless a delete raced. `StoryInvariant` is proved above it: the turn counter is
the length of the file, or one more while a turn is being appended; no prompt is
in a history, a memory or a file before its time or twice; the memory of a run is
the history it was seeded with and its prompt; what the file shows is in the
history in the same order.

**Agent loop.** `LoopInvariant` says where a turn exists and what each place in the
loop still owes (`Owing`: one result per call not yet recorded), that only an
allowed call is taken up, that segments take calls in order, that two calls of one segment
share it only if neither writes, and that the cache is stale at most between a
writing call and the end of its segment. `GatesSee` says that once
a tool that declares that it writes was executed, the loop knows it, or will when
it records the call, and that what a gate has passed over was not changed since. A
delegate's change counts as any other from then on; before, it calls no gate, and
the property says nothing of it (finding 4).
`GatedRunsAreSound` carries the results over to runs with messages and protocol
gates, which only add to the steps of the loop.

**Protocol gates.** `PhasesInvariant`: the runner's streak of a tool is the one its
results end with, and its reports are as many as the results that crossed the
threshold (`DriftsKnown`; a crossing is one new index when a result is added,
`CrossingsGrow`); a turn a hard gate let begin is either barred or found no streak
before it (`TurnIsClear`), whatever its own calls return later; what the commands
decided about the text on its way to Done is the latest verification
(`EvidenceKnown`).

**Conversation.** `ConversationInvariant` says that the messages stay in order
(`Orderly`: `Paired`, and nothing stands between a call and its results), except
within a turn, where the calls stand at one place, the results recorded so far
behind them and the rest is still due (`OpenTurn`; calls are numbered, so the next
result is told by the place of the loop). Behind the same system messages the
memory and the snapshot are the end of the log but for what was cut
(`Shortened`), and a result cut in this stretch is marked and its whole text kept
(`CutKnown`). Each level of compaction has its lemmas: cutting changes no role
and no id; a slide stops in front of a user message, and no result behind one
belongs to a call before it (`SpeakerParts`), so there is nothing left for the
removal of orphans to do (`NothingUncalled`); the last units of a digest hold a
call with all of its results or none (`CallerSpoke`, `RecentInOrder`). It needs
`LoopInvariant` for where a turn begins and ends. `PriorAssumption` says of what a
run finds in the store what the invariant says of what it writes there.

**Delegate engine.** `EngineInvariant`: a delegation's depth follows its caller's, which
began before it; the waiters of the semaphore are the queued delegations, once
each; permits and holders add up; what was started and what may still be started
stay within the retries; a task outlives its delegation only after a
cancellation. That the depth a delegation was told is the real one is shown along
the chain of its callers, by the least delegation for which it fails.

**Permission gate.** `GateInvariant`: what each place in the gate has established of
the call (`Covered`, `Entitled`), the one entry of the map that a waiting request
is owed, a cache within its capacity that holds what a person approved, or the
configuration where there is none to ask, since the last switch or on its way
during it, and call times that are the last ones let through, the others
having left the window for good. The rate over every window follows from the last
part.

**Terminal.** `SessionsInvariant` follows a run from its prompt to its place in the
file: its events are on their way once and its end comes last (`InboxInOrder`); the
generation on the screen is that of the last run or of none (`Generations`), so an
event of an older one is dropped; what a run says is in one of the stream, the inbox
and a file (`Said`), and of a run nobody cancelled or left behind it is in one of
them as soon as it is said, or its append failed (`Followed`); a question is in the channel, on the
screen or answered (`Asking`); and unless a cancelled run has written the shared
history since it was last exchanged, a run's history is the one it was seeded with
(`HistoryHeld`).

**MCP.** `StdioInvariant` follows the lines: a request on its way or waited for has
been registered, an answer in the pipe that names the current offer, and a refusal
of it, say what the server supports, and the two requests of a negotiation are the first two and alone.
`HttpInvariant` says where each request stands, how often the server may have
carried it out, whom each handshake is owed to, and (`NothingSeen`) that a request
that comes alone while one session ends always has a session to go to. The proof
showed the bound that was stated before, one handshake for each expiry and each
rotation, to be true of two callers only: a response that comes late brings an id
back that was replaced, so a rotation can cost a second handshake, and so does a 404
with a header to an answer of the client, which `post_jsonrpc_value` takes as the
session's id (`mcp/src/http_client.rs:475`). `OneHandshakePerExpiry` counts both.

**Checkpoints.** `CheckpointInvariant`: as long as there was no company and no torn save, the stack of an
agent is what the file holds followed by what its failed saves could not write, or
the newest of it (`InTheFile`), and an undo has read the file as it is. Forgetting
the oldest before an addition and after it is forgetting after it (`NewestAgain`),
so what a rewrite keeps is the newest of what all share, and what an append adds
is exactly the rest. `StacksFit` replaces a bound the type invariant had before:
a stack may be over `MaxSnapshots`, because loading does not cap it, but then
nothing of it counts as persisted and the next save replaces the file.

**Coordinator.** `CoordinatorInvariant`: before the waves nothing has begun; each
node of the graph is in one wave, after its sources (`WavesOrdered`, from the
equation of `Placed`); the run has gone through the waves up to the current one
(`Progress`); a node that began has its sources decided, and what it was told of
them stays true while it runs (`NodesKept`); a result is as far from the end of the
history as its age says. The refinement of `Dataflow` maps the end of a node to its
decision and everything else to a stutter; a node the executor runs is one
`Dataflow` may run, and one it skips has no edge that is satisfied for certain.

Some proofs use the least number with a property (`LeastExists`, from the library's
well-founded orders) in the place of an induction: about the recursive functions
`Placed` and `Replay`, about chains of callers and about the front of the window.

**Only model-checked.**

* All liveness (`RunsSettle`, `PromptsEnd`, `BusyEnds`, `RunsEnd`,
  `DelegationsFinish`, `AsksEnd`, `RunEnds`, `RequestsEnd`): it needs fairness and
  ENABLED, which the prover does not handle.
* `UndoRetraces` (`Checkpoints`): it counts the steps of an agent in a filtered
  history of edits and undos, an argument by induction over that history.

## 6. Plan

Done: the ledger and its lifecycle; the ACP server; durable runs and sessions of
the HTTP server; the agent loop; delegations; the permission gate and approvals;
runs of the terminal; the coordinator and its executor with `Dataflow`; both MCP
transports; checkpoints; the conversation and its compaction; the protocol gates;
the proofs of section 5. Next, most important first:

1. Proofs about the rest: `UndoRetraces`, and the conversation under `RunSpec`
   carried over several runs as one specification.
2. Smaller protocols: the lifecycle of a memory entry, named session checkpoints,
   rotation of the session files, failure clustering behind the protocol gates.

## 7. Not modelled

Text processing (prompts, rendering, classification, ranking, parsing), file,
process and network I/O of the tools, sandboxes of the operating systems,
configuration merging, and of the terminal and the command line all but the runs,
the approvals and the undo: either they have no protocol of their own or what
they decide is a choice of the modules above. The retry of a provider
(`provider/src/retry.rs`) is a bounded loop inside one request, of which the agent
loop sees only the end; plan mode is a single read-only request.
`PROJECT.json` lists each with its reason.
