# TLA+ models of the concurrent parts of Codrex

Codrex (`src/codex-rs`) is a fork of the Codex agent: a *session* talks to a model, runs
tools for it and reports to a client (terminal, app server, SDK). This directory models the
parts of it in which most of the concurrency lives, with their TLC runs and TLAPS proofs: the
scheduler that decides which turn runs, the accounting of what a goal has used, the tree of
agents a session keeps, the exec server and its clients, the remote-control transport and the
memory pipeline. Paths below are relative to
`src/codex-rs/core/src` unless they begin with another crate.

## 1. Inventory

| Component | State | Operations | What makes it correct |
|---|---|---|---|
| Turn scheduler (`tasks/mod.rs`, `tasks/regular.rs`) | `Session::active_turn`, the tokio task of each turn | `spawn_task`, `start_task`, `maybe_start_turn_for_pending_work`, `abort_all_tasks`, `abort_turn_if_active`, `on_task_finished` | every running task can be stopped; every drained task is reported once; every turn ends with an event; one turn at a time |
| Turn state, mailbox (`state/turn.rs`, `agent/mailbox.rs`) | pending input, delivery phase, pending approvals; the agents' mail | push, prepend, take, drain, insert and remove approval | input is delivered once and not lost; an answer finds its request |
| Turn loop (`session/turn.rs`) | locals of the task | record input, drain, hooks, sampling, tools, follow-up, compaction | pending input is looked at before the turn ends |
| Session operations (`session/mod.rs`, `session/handlers.rs`) | queue for the next turn; the submission queue | one handler per `Op`, taken one after the other | no operation blocks the loop for ever |
| Goal runtime (`goals.rs`, `tools/handlers/goal.rs`) | goal status (in the state DB), suppression flag, continuation turn, continuation lock, token and time baselines | continue, suppress, pause, resume, account | an active goal goes on when idle; a paused one does not; no token is billed twice |
| Goal store (`state/src/runtime/goals.rs`) | row per thread, with goal id and budget | replace, insert, update, pause, account | an active goal is under its budget; writes to an old goal are refused |
| Orchestrator (`orchestrator/`), MiniMax delegate (`core/src/minimax_delegate.rs`, `minimax/`) | classification, iterations, audit | classify, plan, dispatch, verify | bounded iterations, one outcome per run |
| Exec server (`exec-server/`) | processes with numbered events, sessions with their connection and deadline; in the client, routes, early events, pending calls | start, read, notify, close; attach, resume, detach, expire | no output lost, repeated or reordered; a consumer always ends; one connection per session; no child without a session |
| Remote control (`app-server/src/transport/remote_control/`) | unacknowledged envelopes, cursor, one connection per stream | connect, send, acknowledge, replay, initialize, close, expire | exactly once and in order both ways; both sides agree on what is open |
| Memory jobs (`state/src/runtime/memories.rs`, `memories/`) | job rows with leases and watermarks, outputs with their flags | scan, claim, extract, select, consolidate, heartbeat | a crash or a late owner loses no memory and corrupts no baseline; the pipeline catches up |
| Agent registry (`agent/registry.rs`, `agent/control.rs`, `thread_manager.rs`) | slots, paths, threads, spawn edges | spawn, resume, send, close | the limit holds; slots and paths are not leaked or returned twice |
| Unified exec (`unified_exec/`) | process store | open, write, evict | the limit holds; a live process in use is not evicted |
| Rollout recorder (`rollout/`) | append-only file, pending items | append, flush, shut down | order is kept; a failed write is retried |
| Guardian (`guardian/`) | denials per turn | review, trip the circuit breaker | a turn with too many denials is stopped |
| Sandboxing, exec policy, app-server dispatch, terminal interface | - | platform calls, parsing, rendering | no concurrent state of their own; not modelled |

**How they interact.** The submission loop takes one `Op` at a time and calls the handlers,
which lock `active_turn` (a tokio mutex) for a few statements at a time. The task of a turn
runs concurrently; when it ends it runs `on_task_finished` in its own future, which may
start the next turn from there (`maybe_start_turn_for_pending_work`, then the goal
continuation). The guardian's circuit breaker spawns an abort in a future of its own, and the
app server calls `steer_input` and the goal operations directly, not through the loop. So up
to four kinds of futures start, finish and abort turns at once, and they meet in
`active_turn` only.

The other parts are processes or tasks that meet in one shared object each: agents of a tree
in the `AgentRegistry` and the thread manager, processes that start sessions in the job table
of the state DB, tasks of the exec server in its process map, and server and client, or app
server and backend, in a connection that can break at any message.

**What is hard.** No single lock covers "abort what runs, then start mine": every operation
is a chain of short critical sections with awaits between them. Sessions are reserved with
an `ActiveTurn` that has no task; a finishing task leaves one like it behind; the two look the
same to everybody else. Aborting a task takes two steps (cancel the token, then kill the
handle after a grace period), in which the task may finish normally. `PROJECT.json`
lists these hazards at their lines.

## 2. Modules

| Module | Contents |
|---|---|
| `TurnLifecycle` | the scheduler, turn state, mailbox, queue, turn loop and goal continuation, with every property |
| `TaskContract` | the abstract specification: who owns a task, and what the session promises of it |
| `MCTurnLifecycle` | instance for TLC, with the symmetry set |
| `TurnLifecycleProofs` | its invariants, the pause and the refinement, for every value of the constants |
| `GoalAccounting` | the goal's row in the state DB, the snapshots of what is billed, and everybody who writes them |
| `MCGoalAccounting`, `GoalAccountingProofs` | its instance for TLC, and the proofs of the budget and of the books |
| `AgentControl`, `MCAgentControl`, `AgentControlProofs` | the registry of agents and the tools that use it, and the proof that its books balance |
| `ExecStream`, `MCExecStream`, `ExecStreamProofs` | one process of the exec server, from its child to the consumer of its output |
| `ExecSessions`, `MCExecSessions`, `ExecSessionsProofs` | the exec server's sessions: attach, resume, detach, expiry |
| `RemoteControl`, `MCRemoteControl`, `RemoteControlProofs` | the remote-control transport between app server and backend, and the proof that it implements its contract |
| `RelayContract` | the abstract specification of its outbound direction: a reliable queue per stream |
| `MemoryJobs`, `MCMemoryJobs`, `MemoryJobsProofs` | the memory pipeline on the job table |
| `NumberLemmas` | least and greatest numbers and recursion, for the proofs |

### State of `TurnLifecycle`

`active` is `Session::active_turn`: the identity of the `Arc<Mutex<TurnState>>` and the ids
of the registered tasks. The identity matters: the code compares it (`Arc::ptr_eq`) and
actors keep references to turn states that are no longer active. A turn id stands for one
submission or one synthetic turn; each may allocate three turn states (its reservation and
the two `get_or_insert_with` of `start_task`), hence `TS`. `pend`, `accepts` and `appr` are the fields
of `TurnState` that matter here, `mail` the mailbox and `idle` the next-turn queue
(`idle_pending_input`). `cancelled` and `doomed` are the two halves of an abort. `ev` holds
the terminal events sent for a turn. `goal`, `suppressed`, `contTurn` and `permit` are the goal
runtime. `pc` and the variables after it are the locals of each future across awaits. `taken` is a
history variable that only `SteerKept` reads: the user input that an aborted task had, that waited in
its turn when it was drained, or that it took afterwards (`Given`, `NoteTaken`).

### Actors and actions

An action is what one future does in one critical section. Its label names the next
section: `s_*` is `start_task`, `m_*` `maybe_start_turn_for_pending_work`, `g_*` the goal
continuation, `a_*` an abort, `t_*` the body of a task and `f_*` `on_task_finished`.
`ActorStep(p)` holds what any actor can be doing (the loop, the guardian's abort, the app
server, a finishing task), `TaskStep(t)` what only the turn's own task does, `LoopOp` the
operations the loop accepts when it is ready, `ExtOp` calls from outside the loop. `DropTask` is tokio
dropping an aborted task, with its locals and the lock it holds.

### Abstractions

- Items are elements of sets; their order inside a buffer and their text are left out.
  A continuation prompt is represented by the id of its turn.
- `TS` fields used only for metrics are left out. Permission, user-input, elicitation and
  dynamic-tool requests are kept in maps with the life cycle of `pending_approvals`;
  `appr` stands for all of them, one open request per turn.
- `get_pending_input` is two steps (turn buffer, then mailbox), as in the code;
  `has_pending_input` is one, since its callers use only the disjunction.
- `TurnStarted` for the goal runtime and the taking of the next-turn queue are one step.
- `tasks.first()` in `steer_input` is any registered task.
- A sampling request ends with a tool call, an approval request, a final answer, an error or a
  follow-up without a tool call (`TurnFollowUp`: the model says `end_turn = false`, or mail
  preempts the answer); retries inside it and a retry after an invalid image keep the turn
  where it is. After a follow-up the turn drains, or samples again after a compaction, or
  stops when that compaction fails.
- Tasks that are not regular turns are "plain" (a shell command or undo: of the kind that
  may be steered, but deaf to input) or "compact" (compaction or review, which refuse input).
- A hook may block user input only. Hooks, compaction and the model decide freely, so their
  outcome is a nondeterministic choice.
- A task whose handle was aborted may take further steps (it runs on until its next
  suspension point), but never returns from the model, a tool or an approval. How far it
  gets is a choice, which allows more than tokio does.
- The handle of an aborted turn that is reported to the goal runtime is that of the last
  task handled.
- The state DB is assumed to answer; a failing read acts like "no active goal". A session
  without goals (feature off, plan mode) has `goal = "none"`. A goal that is out of budget
  behaves like a complete one. `account_thread_goal_progress` is reduced to its effect on
  the status; how many tool calls a continuation made is a choice in `FinishGoal`.
- `FinishRecord` records all leftovers in one step. The strict-delegation check and the
  metrics of `on_task_finished` change nothing modelled.
- Other calls of `inject_response_items` (code mode, amendment messages, the budget-limit
  notice) have the effect of `LoopInject` and `ExtShellOutput` and are not told apart.
- The reset before an external goal write (`prepare_external_goal_mutation`) and the write
  are one step.

### `GoalAccounting`

`goal` is the row of `thread_goals`, with `id = 0` for no row; `snap` and `wall` are
`GoalAccountingSnapshot`; `holders` is who has the permit of `accounting_lock`; `reported` is
`budget_limit_reported_goal_id`. The futures are `Main` (turns start, finish, are replaced or
interrupted, one after the other), the slots in `Tool` for tool calls that run in parallel, and `Ext`, one
request of the app server (set or clear the goal, resume the thread). Labels `p_*` are
`account_thread_goal_progress`, `w_*` its wall-clock sibling, `n_*` `mark_active_goal_accounting`,
`c_*` `update_goal`, `t_*` the start and end of a turn, `i_*` the interrupt, `x_*` and `r_*` the app
server. `ActiveOnly` and `ActiveStatusOnly` are the modes of `account_thread_goal_usage` that are used: the first bills
a goal that is at its limit too, and every bill has it (that of an interrupted turn's progress
included) but the wall-clock bill before an interrupt pauses the goal (`WallMode`). An SQL statement is one step, and so is a section under the accounting mutex. `born` and
`steers` are history variables that only properties read.

- Token usage is one number, what `goal_token_delta_for_usage` counts; a token is spent while
  a turn is registered. Seconds are ticks of `clock`.
- Turns do not overlap here (they may, see `one_task`); the continuation lock, suppression and
  the decision to start a turn are in `TurnLifecycle`.
- Whether a request brings the goal's own objective is a choice; so are status and budget. An
  UPDATE and the SELECT that returns its row are one step. The DB answers.
- `create_goal` and `update_goal` exclude other tool calls, as their registration without
  parallel support makes `parallel_execution` do. A cancelled tool call runs on or is dropped (`ToolDrop`).
- `clear_stopped_thread_goal_runtime_state` and the ends of `set_thread_goal` and of the
  interrupt reset `reported` and the snapshots in one step.

### `AgentControl`

`count` and `tree` are `AgentRegistry`, `threads` the thread manager's map, `edge` the spawn
edges of the state DB. Each agent makes one tool call at a time; `pc` and `call` are where it is
and its locals. A step ends at a lock or an await. `Cancel` drops the call of a cancelled turn at
any await, with the drop of its `SpawnReservation`; only the steps between which the code has no
await cannot be told apart by it. `v2` chooses between the two versions of the tools: with paths,
or with resumption. `lost` is a history variable, see `SlotsExact`.

- Nicknames, roles, the depth limit, fork options and the completion watcher are left out: they
  decide nothing about slots, paths or threads. A key is a path or, for `thread:<id>`, the id.
- Creation of a thread may fail at will; an agent's loop may end at any time (`Die`). The state DB is
  there and answers; without it the code warns and goes on, with an edge that is not written, marked
  or listed, and neither slots nor paths depend on edges.
- Order within the lists of children and descendants is a choice.

### `ExecStream` and `ExecSessions`

`ExecStream` follows one process over one connection. `log` is the sequence of events the server
has numbered; the three server tasks (`task`) number under the lock and notify after it, so that
`incoming` is in no particular order. The client has two readers, as in the code: `rpc` completes
calls, `reader` routes notifications to the session, which holds early events back (`early`) and
publishes the rest. `consumer` is the output task of unified exec, which reads by long polls and
is woken by what is published. `Cut` loses the connection; `Garble` is a message that does
not parse, after which the client's reader stops while the connection looks alive.

- Output is less than the retained bytes, so no chunk is evicted; a chunk is its number.
- A long poll may return at any time, with what is there: its timeout, its byte limit (at most
  one chunk less) and its wake-up are one choice.
- Write, terminate and the file-system and HTTP calls are request and reply, without state that the events share.
- `FailAllSessions` takes the sessions and fails them in one step; the moment between, in which a consumer is
  no longer routed and not yet told, is left out.
- When the connection is gone the module follows the server no further; `ExecSessions` does: it has many
  connections and the process of each session as three states, and it keeps time, as what
  remains of the deadline and of each expiry task's sleep. `away` is a history variable. An expired session is shut
  down by whoever took it out of the map: an expiry task (`doomed`, `Shutdown`), which nobody drops, or the
  `initialize` that asked for it (`closing`, `AttachShutdown`), which `Disconnect` drops with its connection.

### `RemoteControl`

`writer`, `holding`, `wire`, `buffer`, `used`, `nextSeq` and `events` are the outbound direction,
`pos`, `cursor`, `clients` and `lastIn` the inbound one, and `task`, `cancelled`, `outq` and `pong` the outbound task
of each connection. Backend and clients are external: `log` is what clients wrote, `rseq` and
`got` what the backend has. The writer replays the whole buffer after each `Connect`.

- `ReadAck` pops the acknowledged prefix of a stream's buffer. The backend gives some kinds of envelope a
  cursor (`Cursored`): in the run, all but messages, so that a reconnect replays messages.
- An event's body is the number of the connection's message; pongs and closings are body 0.
- Idle clients expire at any time; clients that send no stream id (legacy) are left out.
- Enrolment, tokens, back-off and pings of the websocket are `Connect` and `Lose`.

### `MemoryJobs`

A row of `jobs` is a record with status, owner, lease, back-off, retries and two watermarks;
`out` and `flag` are the two timestamps of a thread's output that decide everything. One action is
one transaction. A worker is the pipeline of one process: `todo` is its scan, `held` its
claims, `picked` and `mark` the selection and the watermark it carries through the
consolidation agent's run. `base`, `dirt` and `missed` are history variables.

- Lease and back-off are Booleans that turn at any moment; a lease under a live worker lapses
  as a fault, bounded like a crash by `MaxFault`.
- Contents of memories, the files and the agent of phase 2 are data; the agent succeeds or fails.
- Which outputs are old enough to be pruned is a choice of `Prune` (`old`); the prune and the scan of
  phase 1 are two statements and two actions. The limit and the age, idle and source filters of
  the scan are left out: they only make its list shorter.
- `Selection` leaves out the `LIMIT n`, the window over `last_usage` or `source_updated_at` and the test for empty
  outputs of the selecting query (`memories.rs:383`). "In the selection" therefore means seen by that
  query, whether it kept the row or not; none of the properties says that a row was kept.

## 3. Runs

Bounds are the constants of the `.cfg`. Deadlock is not checked: an idle session waits for its
client for ever, and so do servers without clients and a task that waits for an approval.

| Run | Bounds | Checks |
|---|---|---|
| `interrupt` | 2 turns, 1 trigger mail, 1 approved action, compact task, 1 interrupt and 1 guardian abort, 1 follow-up per turn | `TypeOK`, `TaskTracked`, `Answerable`, `NoDuplicate` |
| `contract` | 2 turns, 2 inputs, compact task, 1 interrupt, fair | `SteerKept`, `ImplementsContract` |
| `mail` | 2 turns, 1 trigger mail, 1 follow-up, 1 goal write, fair | `MailWakes`, `GoalResumes`, `TurnEnds` |
| `pause` | 3 turns, 1 shell output, 1 interrupt, 1 goal write, fair | `PauseExcludesLaunch`, `InterruptReturns` |
| `one_task` | as small as the trace allows | violated, see below |
| `billing` | 2 turns, 2 tool calls at a time of 4, 1 goal with budget 2 or none, 3 tokens, 1 tick | `NoOverbilling`, `BilledInFull`, `SteerOnce` |
| `budget` | 1 turn, 2 tool calls, 2 goals with budget 1 or none, 1 token, 1 request, interrupts | `BooksTypeOK`, `ActiveUnderBudget` |
| `agents` | 2 agents and the root, 1 path, limit 2, 2 calls at a time | `AgentsTypeOK`, `SlotsExact`, `PathsOwned` |
| `exec` | 1 chunk of output, the connection cut or garbled, fair | `StreamTypeOK`, `PublishedInOrder`, `ClosedIsLast`, `RouteKept`, `ReadsComplete`, `ConsumerEnds` |
| `sessions` | 3 connections, 1 session, TTL of 2 ticks, fair | `SessionsTypeOK`, `SoleOwner`, `NoOrphanChild`, `ExpiresInFull`, `EventuallyReaped` |
| `remote` | 2 streams, 2 connections, buffer of 2, 3 messages out, 2 in, 2 losses, fair | `RemoteTypeOK`, `InboundExact`, `OpenMatches`, `ImplementsRelay`, `Delivered`, `CutIsClosed` |
| `memory` | 2 threads, 2 workers, 1 job at a time, 1 change, 1 fault, fair | `MemoryTypeOK`, `NoLostMemory`, `BaselineTrue`, `CatchesUp` |

Two turns are enough for a starter to meet a finishing or an aborted task, three for two
starters to meet while a third task finishes; one interrupt and one guardian abort make two
aborts overlap. Two agents and the root are enough for two calls to work on the same agent, for
an agent to spawn below another and for the limit to be hit. One chunk, the exit and the close are
three events from three tasks, enough for each to overtake the others. Three connections
let a session be lost, resumed, lost again and asked for by a third. A buffer of two with three
messages fills; two losses let a replay be lost in its turn. Two workers and one fault let a
job change hands while its old owner goes on. `interrupt` and `agents` permute ids. Each property has a mutant of
the action it depends on, written next to it and marked `Mutant`.

What the properties say:

- `TaskTracked`: a task that has not begun to finish is registered, or held by an
  abort, or killed. With it, no interrupt misses a running task, although two tasks may
  be registered at once.
- `Answerable`: a registered task that waits for the user has its sender in the active turn.
- `NoDuplicate`: an item is in at most one container, so the model sees it at most once.
- `SteerKept`: an input leaves the system without trace only when a task that had it or took it
  was aborted; that other turns were aborted before, or are being aborted, excuses nothing. It is stated where only the loop starts turns; with mail or goals, a reservation
  taken away between `StartPushInput` and `StartAddTask` loses the items pushed into it
  (listed as a hazard).
- `ImplementsContract`: see section 5. `TurnEnds`: every task ends with an event, unless it waits for
  the client.
- `MailWakes`, `GoalResumes`: nobody has to press a key for trigger mail or an active goal.
  Without aborts only: an aborted task may take over the end of another turn and die in
  the middle of it (hence `doomed # {}` in `GoalResumes`).
- `PauseExcludesLaunch`: the continuation lock keeps a pause out between a continuation's
  last read of the goal and the registration of its task. `InterruptReturns`: waiting for that lock never
  hangs the loop.

- `NoOverbilling`, `BilledInFull`: what a goal is charged is what was spent since it exists (for
  tokens, since it was marked), never more at any time and exactly that when the session is idle.
  Checked where turns finish by themselves and nobody writes the goal from outside; beyond that,
  see the observations below and the hazards on `mark_active_goal_accounting`.
- `SteerOnce`: the budget notice is sent once. `ActiveUnderBudget`: no order of writers leaves a
  goal active that has used up its budget, so a continuation always ends.

- `SlotsExact`: the counter is the number of agents under construction or registered, and within
  the limit. An agent that two callers resume at once is registered twice under one key; the slot
  of the first registration is never returned. `lost` counts these, so that the property holds with the leak
  stated. `PathsOwned`: a path is reserved exactly as long as one spawn holds it.
- `PublishedInOrder`, `ClosedIsLast`, `ReadsComplete`: subscribers see a prefix of the events; a consumer that saw
  the close has all the output. `RouteKept`: a session that is no longer routed knows why.
  `ConsumerEnds`: nobody waits for a process that closed or a connection that is gone, except for
  an *orphaned* read, see the observations.
- `SoleOwner`, `NoOrphanChild`, `ExpiresInFull`, `EventuallyReaped`: a running connection keeps its session,
  a session lives its whole grace period after each loss and not for ever, and its child with it,
  except for an *abandoned* session, see the observations.
- `ImplementsRelay`: outbound, the transport is the queue of `RelayContract`, across losses, replays
  and reopened streams; `Delivered` adds that the queue moves. `InboundExact` is the same for the
  inbound direction. `OpenMatches`, `CutIsClosed`: the app server knows of every end of a connection.
- `NoLostMemory`: while the global job is not dirty every change of an output is in the selection of the last
  success, though timestamps do not grow with the writes. `BaselineTrue`: a flagged row was selected
  by the last success with that timestamp. `CatchesUp`: a recorded change is
  consolidated, or the retries are used up.

`OutOfIds` in the liveness properties stands for the bound on turns: a starter would reserve
the session but the instance has no turn id left.

### Where the code and its documents disagree

- `one_task`: `docs/protocol_v1.md:25` allows one task at a time, and `start_task` asserts it in
  debug builds. A finishing task reserves the session for mail; a user turn takes that
  reservation away, as it has no task to abort, and starts; the first starter then finds the new
  `ActiveTurn` and joins it.

### Observations

Behaviours the models contain that a maintainer should know of. No document of the repository
contradicts most of them; where one does, it is quoted. None is checked as a violation here.

*Turns and goals*

- An abort that drains a task just after its last look at the cancellation token
  (`tasks/mod.rs:389`) sends `TurnAborted` in addition to the task's own `TurnComplete`;
  `session/tests.rs:6215` calls `TurnAborted` "the only client-visible signal". `TaskContract` allows it.
- A tool call that is cancelled between its write of the row and its new baseline (`goals.rs:859`)
  leaves the old baseline, and the abort bills the same tokens again; `session/tests.rs:6639` expects exact
  billing. `NoOverbilling` is checked without interrupts. Nor is it checked with requests that
  reactivate the goal of a running turn: they reset the baseline to a total read without the permit (`goals.rs:575`).
- Trigger mail that arrives while a goal continuation holds its reservation sees a busy session;
  if the continuation gives up (`goals.rs:1200`) nobody looks at the mailbox again. `MailWakes`
  excludes a goal that was stopped meanwhile.
- An interrupt between `StartPushInput` and `StartAddTask` loses the items pushed into the turn state it
  takes (`tasks/mod.rs:339`); one in the finish window leaves waiting mail to the next turn (`tasks/mod.rs:487`); one that
  finds only a reservation does not stop the turn being started (`tasks/mod.rs:441`).
- The task that made a reservation can be killed before it starts the turn (`goals.rs:1164`). A shutdown may let
  trigger mail start a turn (`handlers.rs:939`). A hook block that finds the turn gone loses the rest of its
  input (`turn.rs:409`). A resumed thread activates a goal completed since it was read (`goals.rs:1107`). A goal set between a
  starting turn's read and its registration is marked for no turn (`goals.rs:697`).

*Agents*

- Two concurrent resumptions of one agent leak a slot (`registry.rs:199`). A close between the
  creation of a thread and its registration leaves an entry for an agent that is gone (`control.rs:258`); a
  resumption between `remove_thread` and `release_spawned_thread` loses its entry (`control.rs:690`); a
  resumption dropped while the thread applies its goal leaves it running and uncounted
  (`thread_manager.rs:1096`). In all of them counter and entries agree.
- `close_agent` shuts down a snapshot of the descendants (`control.rs:712`), and stops at the first whose rollout
  cannot be flushed (`control.rs:717`). Spawn edges can form a cycle (a child resumes its closed parent), which
  `resume_agent_from_rollout` walks for ever (`control.rs:438`).

*Exec server*

- `rpc.rs:313` explains why a call must not be registered after the drain of pending calls; the
  path of a message that does not parse (`rpc.rs:253`) drains while `disconnected_rx` is still false, so there
  it can, and waits for ever (`Orphaned` in `ConsumerEnds`).
- `Session::read` publishes a failure before notifications that are still queued (`client.rs:684`). A read after the
  retention time fails (`local_process.rs:676`); unread output over the limit is dropped
  (`local_process.rs:564`). `notified()` is created after the unlock (`local_process.rs:346`), so a wake-up can be missed
  until the poll's timeout. Dropping an old handle unregisters by id (`remote_process.rs:86`).
- A client that asks for an expired session and is lost while its `initialize` shuts the session down
  (`session_registry.rs:107`) takes the shutdown with it: the select of `run_connection` drops the request
  (`processor.rs:101`) before `LocalProcess::shutdown` has the process lock (`local_process.rs:122`). The session is out of the
  map by then, so its child runs until it ends by itself (`Abandoned` in `NoOrphanChild` and `EventuallyReaped`).
- A session that is resumed between the two steps of `detach` has its notification sender cleared
  (`session_registry.rs:248`). A start dropped by a disconnect leaves its id taken
  (`processor.rs:101`). By `SoleOwner` the "evicted after session resume" exit (`processor.rs:79`) is never taken.

*Remote control*

- The task of a replaced connection is reaped by (client, stream) and closes the new connection
  (`client_tracker.rs:62`); both sides agree that it is closed. A client that never acknowledges, as a legacy
  one, fills the capacity that all share (`websocket.rs:434`). The cursor is taken over before the
  message is handled (`websocket.rs:617`).

*Memory jobs*

- A thread that is polluted between a selection and its success is flagged afterwards without
  forgetting being enqueued (`memories.rs:504`). `core/src/memories/README.md:73` describes one
  consolidation at a time; after a lapsed lease or `clear_memory_data` two agents run until the
  heartbeat tells the old one (`phase2.rs:433`).

The comment on `inject_response_items` (`session/mod.rs:3123`) says it returns its input "if there
was no task running to inject into"; the code asks only for an active turn, which a reservation and
a finishing turn are too. `LoopInject` and `ExtShellOutput` follow the code.

## 4. Fairness

`FairSpec` has weak fairness for each actor and each task: the tokio runtime polls every
future that can make progress, and mutexes are fair. Nothing is assumed of the client, the
model or other agents: operations (`LoopOp`, `ExtOp`) are never due. A task that samples
is due to get some answer, an error at the latest (requests time out); a user decision is not
due, hence the exception in `TurnEnds`. The steps after an answer that was given
(`LoopQueue`, `ExtApplyGoal`) are fair as the rest of a handler that has begun.

The other modules are fair in the same way: to every spawned task, reader and handler that has
begun, not to clients, children, agents or connections. `ExecSessions` lets time pass; `RemoteControl`
assumes that the transport reconnects and that the backend receives and acknowledges;
`MemoryJobs` that sessions keep being started, that delays pass, and that the lease of a worker that is gone
lapses. `AgentControl` has no fairness.

## 5. The contract and the proofs

`TaskContract` gives each task an owner: nobody, the session, an abort that drained it, or
over. `Drain` moves all running tasks at once; `Report` sends the abort of one task and is
fair. `TurnLifecycle` implements it with `owner` computed from `active`, `held` and `pc`, and
`reported` from `ev`. TLC checks the whole of it (`contract`), TLAPS the safety part
for all constants.

Every invariant and every action property of the runs is also a theorem, for all values of the
constants that meet the assumptions named below. A proof module extends the module it is about;
`NumberLemmas` holds what three of them share: a nonempty set of naturals has a least element and
a bounded one a greatest (from `WellFoundedInduction`, as a set of counterexamples without a least
one is empty: this is how the proofs do induction), and a function defined by recursion over the
naturals satisfies its equation. Each theorem `Spec => []P` below follows from an inductive
invariant that contains or implies `P`; each was checked with TLC on instances like those of the
runs. The inductive invariants are stated at the head of each part of a proof module.

### `TurnLifecycleProofs`

From `ActorsAssumption`, `InputsAssumption`, `BoundsAssumption` and `NoTSAssumption` alone:

- `TypeCorrect`, `NoStrayTask`, `ApprovalsReachable`: the first three invariants of `interrupt`;
- `Refinement`: `Spec => Contract!Safe`, and `AbortIsFinal`, which a client may conclude from it;
- `InputNotDuplicated`, `PauseWaits` and, where only the loop starts turns, `SteeredInputKept`;
- `PermitNotLeaked` and `MailNotForgotten`, what the liveness properties `InterruptReturns` and `MailWakes` rest on.

None of the invariants is inductive by itself. `TaskTracked` is preserved by `FinishClear` only
because the turn it clears has no task, and by the abort only if the abort that holds a
task really kills it. `IndInv` therefore adds: `Births` (a turn id is with one
starter until its task is added, and the turn is unborn until then), `Registered` (a
registered task runs, is not cancelled and has no event) and `Drained` (a task is held by
one abort, at one of three labels, and is cancelled exactly while that abort is between
cancelling and reporting it). A consequence is `AbortCancelStep`: the early return of
`handle_task_abort` for a task that is cancelled already is never taken.

The step proof has two halves. Most actions are `Quiet`: they start, finish, drain and
report no task. One lemma shows a quiet step preserves `Control`, and one lemma per group
of actions that it is quiet. The six loud ones (`StartAddTask`, `FinishRemove`, `AbortTake`,
`AbortCancel`, `AbortKill`, `AbortEvent`) have a lemma each. `Refinement` reuses the split: quiet
steps stutter, and each loud step is one step of the contract or a stutter.

`NoDuplicate` counts containers; `Sole` says the same container by container, which the provers can
use. A step `Conserves` items when it makes no second copy of any and creates none; all steps do but
`GoalPushPrompt`, which writes a prompt. The prompt is new because `PromptsFresh` says
that the prompt of a turn is in no container before its starter has passed that step.

`PauseWaits` needs that an actor holds the continuation permit while it decides to continue the goal
(`DecidesAlone`) and while it starts the turn for it (`StartsAlone`); that the noted continuation turn has
been handed out (`ContinuesKnown`) keeps a starter with a new id from being taken for it.
`PermitNotLeaked` is the converse: a permit that is taken is with an actor at one of those labels, so an
interrupt that waits for it waits for somebody who goes on.

`MailNotForgotten` says that mail that asks for a turn is watched (`MailWatched`): a task is registered, or an
actor starts or replaces a turn, or refers to the active turn and will clear it (`SeesTo`), or somebody is about to
look at the mailbox. It needs `Occupied`: whoever finds the session busy may go only because a turn that
is active is not abandoned. Both hold while it is `Calm`: no interrupt, no trip of the circuit breaker, no task aborted,
at most one write of the goal and the goal not stopped, which covers the constants of `mail`. The condition is
needed: a continuation that gives up its reservation, and an interrupt that takes the turn of a finishing task, leave
without a look at the mailbox.

`SteeredInputKept` is stated under `LoopOnly` (no mail, no queued input, no goal writes: the
constants of `contract`); section 3 says how a reservation of mail or a goal loses input without it. Its
invariant `Kept` follows each input through any number of aborts. `Labels`: the loop starts a turn only when none is
active, a turn state with a task belongs to that task's turn, and a task that winds up after an abort does not
refer to the active turn. `HandsEmpty`: input is in somebody's hands only between taking and recording it. `TasksNoted`,
`BuffersNoted`: what an aborted task has, and what is left in the turn it was drained from, is in `taken`. `BufferRead`: any other input
that is buffered is in the turn of a running task, or a finishing task that no abort has drained
is about to take it. `NoneVanished`: the rest is somewhere. Most steps move no input (`StillKept`); the others have a
lemma each.

### `GoalAccountingProofs`

`BooksTypeCorrect` and `BudgetHolds` follow from `ProcAssumption`,
`BudgetAssumption`, `KindAssumption` and `BoundAssumption`. `BudgetInv` is the conjunction of the two: that
the status follows the usage needs the usage to be a number. One lemma per SQL statement says that
the row it returns is under its budget whatever it was before, in each mode of billing; the rest is one step per action.

`NeverOverbilled`, `AlwaysBilledInFull` and `SteeredOnce` hold for `Undisturbed` sessions: turns finish and no
request comes in, the constants of `billing`. The condition is needed: a call dropped between the bill and the
mark is billed twice, see the observations. `LedgerInv` says that the holder of the permit is the only future
that stands between a read and a write (`PermitSound`, `CallsSound`), that what a future has
read is still true until it writes (`ReadSound`), that the row is ahead of the baseline
exactly between its bill and its mark (`BillSound`), and that otherwise it is billed up to
the baseline, between turns in full (`BooksSound`, `TurnSound`). `SteerSound` is the same for the notice: it is
noted as sent before the permit is returned. The step proof first shows that whoever is about to write is alone.

### `AgentControlProofs`

`AgentsTypeCorrect`, `SlotsBalance` and `PathsBalance` follow from
`AgentAssumption`. `AgentsInv` adds `CallsKnow` to the two invariants: a call has named its agent at the
labels where it releases or registers it, and only spawns have a path, without which a release could
decrement for no entry and a dropped resumption could leave a path reserved. That the counter
is a natural number follows from the books, not the other way round. Seven lemmas say what
a kind of step (outside, take, reserve, create, drop, register, release) does to the sizes of the
three sets; the lemma of an action picks its kind.

### `ExecSessionsProofs`

`SessionsTypeCorrect`, `OwnersAreSole`, `ChildrenAreReachable`, `SessionsExpireInFull` and `LossesAreTimed` follow from
`NoneAssumption` and `TTLAssumption`. `SessionsInv` adds to the three invariants who may have a handle
(`HandlesKnown`) and that deadline and absence add up to the TTL while a session has no
connection (`ClockRuns`). `NoOrphanChild` is kept by `Disconnect` because a connection that was shutting a session down has
no handle, so that it ends at once and the session is abandoned in that very step. `ClockRuns` is what makes the action property `ExpiresInFull` true: an expiry
task looks only at the deadline, which a resumption in between has moved.

`LossesAreTimed` is what `EventuallyReaped` rests on: a session without a connection is watched by the connection
that left it last, which is about to spawn its expiry task or whose task sleeps at least until the deadline
(`ExpiryArmed`). An expiry task that wakes while it watches finds the deadline passed; one of an earlier
loss watches nothing and may do nothing.

### `ExecStreamProofs`

`StreamTypeCorrect`, `EventsInOrder`, `CloseIsLast`, `RouteIsKept` and `ReadsAreComplete` follow from
`TaskAssumption`, `BoundsAssumption` and `FaultsAssumption`, for any amount of output. `StreamInv` follows an
event on its way. On the server: the process is started once (`StartedOnce`), the open streams are those of
the tasks that still read (`InHand`), and the log is as long as its outputs, the exit and
the close (`Numbered`), so that nothing can follow the close. On the client: every sequence number is that of an event, and early
ones wait behind a gap (`SeqsKnown`); what is published is as long as `lastSeq` says, with one
failure at most (`PublishedSound`); a route goes only for a reason (`RouteSound`). Between the two there is one exchange at
a time (`Calling`, `Exchange`), and what a consumer has is the outputs up to the
number it asks for next (`Received`, `Answers`), by which no poll leaves a gap.

### `RemoteControlProofs`

From `KeyAssumption`, `CapacityAssumption`, `BoundsAssumption` and `WritesAssumption`:

- `RemoteTypeCorrect`, `OpenIsKnown`;
- `RelayImplemented`: `Spec => ImplementsRelay`, the whole contract (it has no fairness);
- `InboundOnce`: `InboundExact`, if `initialize` envelopes carry a cursor. Else a
  reconnect could replay one that opened a connection and open another.

The outbound part of `RemoteInv` says that the buffer of a stream is the end of what was
numbered and reaches back to what the backend lacks (`BufferSound`), that `used` counts
it (`UsageExact`), and of the websocket in use that an envelope the backend lacks is under way behind all
those before it (`FlightSound`) and, once the writer runs, all of them are (`FlightComplete`).
So the backend, which takes an envelope only if it is the next, never waits for one that
does not come, and what it takes is the head of the abstract queue. An acknowledgement pops a
prefix that the backend has, which the abstract queue does not see. The rest of it relates open
connections to streams (`OpenSound`) and the reader to the clients' log (`LogSound`, `CursorSound`). `InboundInv`
adds that `initialize` is never read again (`InitsRead`) and that a connection's last number is that of its stream (`OpenedAt`).

### `MemoryJobsProofs`

`MemoryTypeCorrect`, `NothingLost` and `BaselineHolds` follow from `MemoryAssumption`. `NoLostMemory` is
not inductive: a success could record a watermark that includes changes it did not
select. `MemoryInv` therefore adds that the watermark of the global job covers every output and every success
(`Covered`), and that the worker that owns the job marks no more than was there when it
selected: once anything has changed, the watermark is strictly beyond its mark (`OwnerBehind`).
`Funded` (a running job has a retry left and an input) is needed for the types, as a failure takes a retry away.

### Only model-checked

Liveness, which TLAPS 1.4.5 does not prove: `TurnEnds`, `MailWakes`, `GoalResumes`, `InterruptReturns`, `ConsumerEnds`,
`EventuallyReaped`, `Delivered`, `CutIsClosed`, `CatchesUp` and the fairness of `ImplementsContract`. For three of
them the invariant that leaves only the passing of time to fairness is proved (`PermitNotLeaked`,
`MailNotForgotten`, `LossesAreTimed`). Without the conditions
that three groups of theorems name (`LoopOnly`, `Undisturbed`, the cursor of `initialize`) the properties fail.

## 6. Plan

1. Done: the scheduler with its contract, `GoalAccounting`, `AgentControl`, `ExecStream`, `ExecSessions`,
   `RemoteControl` with its contract, `MemoryJobs`; theorems for every safety property of the runs.
2. Proofs left: `NoOverbilling` with aborts, up to what one dropped call can bill twice; the invariants
   behind the liveness of the exec stream, the relay and the memory jobs.
3. Models left: the process store of unified exec with its eviction, the rollout writer with failing
   writes, the orchestrator with the MiniMax delegate's retries.

## 7. Not modelled

The modules stand for the control of the concurrent core, some 8,500 lines of a workspace of nearly half a
million. The rest is code in which there is little for a model checker to find, and most of it has no
state that outlives a call: the terminal interface (rendering and key handling), the protocol
crates (type definitions and their conversions), the app server's request dispatch (parsing and
calls into the session; the calls that change state are the `Ext` actors), model clients and their
streaming formats, configuration and authentication, platform sandboxes and the exec-policy
language, telemetry, and vendored code. About half of the lines of the files that are modelled are
tests, logging and formatting.

Of the modelled parts, prompt contents, streaming, compaction summaries and memory texts are data. Left out
of them are: file-system and HTTP calls of the exec server, enrolment and legacy clients of the remote
control, nicknames, depth limit and completion watcher of agents, and configuration, MCP and
realtime operations of the session. `PROJECT.json` lists every part with its status.
