# TLA+ models of the HeySalad CTO repository

The repository holds `sheri-ml/codex-rs`, a Rust coding agent (a core library, an
app-server, a TUI, sandboxes, tools, a state database), `opencto/Sheri-ML`, two
small TypeScript programs (a device-code authentication worker and a
command-line client), and dashboards, documentation and packaging. Almost all of
the concurrency, and so almost all that is worth a model, is in
`sheri-ml/codex-rs/core` and the crates it uses. Paths below that name no crate
are under `src/sheri-ml/codex-rs/core/src/`; other paths are under
`src/sheri-ml/codex-rs/`.

Seven parts of it are modelled, checked and proved about:

| part | modules | proofs | abstract specification |
| --- | --- | --- | --- |
| turn lifecycle | `TurnLifecycle` | `TurnLifecycleProofs` | `SessionSlot` |
| memory pipeline | `MemoryJobs` | `MemoryJobsProofs` | - |
| sub-agents and their limit | `AgentControl` | `AgentControlProofs` | - |
| tool calls and their gate | `ReadinessFlag`, `ToolGate` | `ToolGateProofs` | - |
| network approval | `NetworkAttempts`, `NetworkApproval` | `NetworkApprovalProofs` | - |
| unified exec | `NetworkAttempts`, `UnifiedExec` | `UnifiedExecProofs` | - |
| rollout, history, compaction | `RolloutRecorder`, `ThreadHistory` | `RolloutProofs`, `ThreadHistoryProofs` | `DurableLog` |

`ToolGate` extends `ReadinessFlag` (the flag's steps are the callee, the tool
calls and the snapshot the callers); `UnifiedExec` and `NetworkApproval` both
extend `NetworkAttempts`, the service they share in the code; `ThreadHistory`
extends `RolloutRecorder`, whose file it replays. The `MC` modules instantiate the
specifications for TLC. A definition whose name is another's with a suffix
(`Commit_Unregistered`) is a deliberately wrong variant of it, beside the original:
with the variant in its place the property it is paired with in `PROJECT.json`
fails. No behaviour of the specifications uses it.

## 1. Inventory

### 1.1 Turn lifecycle: `tasks/mod.rs`, `state/turn.rs`, `codex.rs` (modelled, partly)

*State.* `Session::active_turn`, a mutex around the one `ActiveTurn` (its
`RunningTask`, and a `TurnState` with pending approvals and pending input); each
spawned task's cancellation token and abort handle; the conversation history;
the rollout file behind its writer task; `agent_status`; the event channel.

*Operations.* The submission loop handles `Op`s one at a time: user input (steer,
or spawn), compact, undo, review, shell command, interrupt, approval answers,
shutdown. `spawn_task` = abort what runs, `tokio::spawn`, register.
`abort_all_tasks` = take the active turn, cancel, wait for a grace period, abort,
write the marker, flush, send `TurnAborted`. A task sends `TurnStarted`, records
its prompt, polls pending input, samples, asks for approvals, and finally
removes itself and sends `TurnComplete`. Clients call `CodexThread::steer_input`
beside the loop.

*Hard.* Loop, tasks and clients interleave at every `await`; tasks outlive their
removal ("stragglers"); an abort takes effect only at an await that is not ready.

*Correct when.* At most one task runs; what is registered can be aborted; no
accepted input vanishes or is recorded twice; a turn that is replaced reports
before its successor starts; the marker is on disk before `TurnAborted`; every
abort ends; each turn has one terminal event. (The code keeps the marker's part only
for a rollout that has its file: section 5.)

### 1.2 Memory pipeline: `state/src/runtime/memories.rs`, `memories/` (modelled, partly)

*State.* Two SQLite tables that several processes share: `stage1_outputs` (one
memory per rollout) and `jobs` (one `memory_stage1` row per thread and the one
`memory_consolidate_global` row, with status, ownership token, lease, backoff,
remaining retries, input and success watermark); the memory directory; what a
pass holds in locals between statements.

*Operations.* A pass scans threads, claims the stale ones, extracts a memory from
each and reports success, success without output, or failure; then it claims the
global job, lists all outputs, rewrites the directory, runs an agent under a
heartbeat, and reports. Threads are updated and deleted beside it;
`Op::DropMemories` clears the tables and removes the directory.

*Hard.* Passes of several processes interleave statement by statement; a claim is
a lease that can be lost while the work goes on; results are committed between a
claim, the listing of the outputs and the report of the watermark; crashes;
retries; a drop in the middle.

*Correct when.* No result is lost to consolidation; watermarks never go back; the
number of running jobs stays within its limit across processes; retries stay in
range; everything stale that is found is worked off or given up.

### 1.3 Agent control: `agent/guards.rs`, `agent/control.rs`, `thread_manager.rs`, `tools/handlers/multi_agents.rs` (modelled, partly)

*State.* `ThreadManagerState::threads`, the registry all sessions share; per root
session a `Guards` with an atomic `total_count` and a mutex around
`threads_set`; the life of each agent thread and of its submission loop.

*Operations.* `spawn_agent` and `resume_agent`: reserve a slot, start the thread,
insert it, commit the reservation. `send_input`: submit, and if the agent has
died remove and release it. `close_agent`: submit `Shutdown`, remove, release.
Clients (app-server, TUI) shut threads down and remove them on their own.

*Hard.* A call is several critical sections; other calls of the same session, and
other sessions, act on the same thread id between them; the count is taken by
compare-exchange beside the mutex of the set; an interrupt drops a call at any
await; threads die.

*Correct when.* Slots are neither lost nor given back twice; no session exceeds
the limit; every open agent can still be released by the session that opened it.
(Within one session a resume can overtake a release: sections 2.8 and 5.)

### 1.4 Tool calls and their gate: `utils/readiness/src/lib.rs`, `tasks/ghost_snapshot.rs`, `tools/parallel.rs`, `tools/registry.rs`, `codex.rs` (modelled, partly)

*State.* Per turn a readiness flag (an atomic, a mutex around the set of tokens, a
watch channel); per sampling request an RwLock and the queue of calls in flight;
per call its tokio task, its token and its `AbortOnDropHandle`; the conversation's
outputs; the ghost snapshot's async task and the blocking thread that copies the
work tree.

*Operations.* The turn starts the snapshot, which holds the flag's one token;
streams a response and spawns a task for each call; a call takes the lock (shared
if its tool supports it), waits at the gate if its tool is mutating, runs, and
answers; the turn drains the calls in order. A stream may fail and be retried; the
user may cancel.

*Hard.* Flag, tokens and channel are three objects updated one after the other, and
a `watch` send without receivers stores nothing; a failed request drops its calls
while its retry starts new ones; cancellation races the result of every call.

*Correct when.* No mutating tool runs while the tree is copied; a serial tool never
overlaps another; outputs are recorded once and in order; every call of a
cancelled or failed request ends; the gate opens; a waiter is released.

### 1.5 Network approval: `tools/network_approval.rs`, with `codex.rs` and `state/turn.rs` (modelled, partly)

*State.* Attempts by id, each with approved hosts and an outcome; hosts approved
for the session; the `pending_approvals` of the active turn, by call id.

*Operations.* Register and unregister an attempt, `take_outcome`,
`record_blocked_request`, `handle_inline_policy_request` (find the attempt, find the
turn, prompt, wait, decide); the user answers; the turn ends or is replaced.

*Hard.* Concurrent requests of one command share its approval id; a turn ends
between the look-up and the prompt; a request is decided while its attempt is being
finished.

*Correct when.* A request waits exactly as long as somebody can answer it; an
answer stays with the call it was given for; a denial reaches the command; nothing
hangs when the turn is gone.

### 1.6 Unified exec: `unified_exec/`, `tools/handlers/unified_exec.rs` (modelled, partly)

*State.* The store: reserved ids, entries with their time of last use; per process
the child, its exit token, an exit watcher and a network denial watcher; the
network attempts.

*Operations.* `exec_command` (allocate an id, register an attempt, spawn, collect
output, then finish or store, pruning at the limit), `write_stdin`, the two
watchers, `terminate_all_processes`; children exit; a call's future is dropped at
an await.

*Hard.* The end of a process is seen by its call, its watcher, a writer, an
interrupt and a pruning call of another process; `has_exited` and `take_outcome`
are read before awaits.

*Correct when.* The end of a command is reported, once; the store stays within its
limit; no running process and no attempt is forgotten; a denial ends its command.

### 1.7 Rollout recorder: `rollout/recorder.rs`, `rollout/truncation.rs` (modelled, partly)

*State.* A channel of commands; a writer task with a buffer while the file is
deferred; the file; the callers that wait for an acknowledgement.

*Operations.* record, persist, flush, shutdown; reopening for a resumed thread;
truncation for a fork.

*Hard.* Items recorded before the file exists; an I/O error ends the writer with
its buffer and its channel; callers are dropped while they wait; crashes.

*Correct when.* What was acknowledged with the file open is in it and stays there,
once and in order; nobody waits for an answer that cannot come.

### 1.8 Context history: `context_manager/`, `compact.rs`, `compact_remote.rs`, `codex.rs` (modelled, partly)

*State.* The list of response items, and its copies in compactions and rollbacks.

*Operations.* record, normalize for a prompt, drop turns, replace by a compacted
history, trim the oldest item, reconstruct from a rollout.

*Hard.* The history and the rollout are updated in two steps by three tasks;
calls and outputs are paired across interrupts, rollbacks and compactions; the
replay has rules of its own.

*Correct when.* A prompt answers each call once; a resumed or forked thread shows
the conversation that was recorded.

### 1.9 Thread index: `state/src/runtime.rs`, `core/src/state_db.rs`, `core/src/rollout/metadata.rs` (next in the plan)

*State.* The `threads` table, the backfill row (status, watermark, lease), the
rollout files in `sessions/` and `archived_sessions/`. *Operations.* Backfill by one
leased worker, upserts by live writers, archive, unarchive, listings that repair
rows. *Hard.* A worker whose lease has lapsed goes on; files move while they are
processed; read-modify-write without a transaction. *Correct when.* After a
complete backfill each rollout has a row with its path and archived flag.

### 1.10 Sub-agent delegate: `codex_delegate.rs` (candidate)

Events and approvals of a sub-session are forwarded to its parent; cancellation
must end both and answer what is pending.

### 1.11 The rest

`PROJECT.json` lists every other part with the reason it is left out: the `wait`
tool, authentication refresh, the models cache, app-server request routing and the
TUI's adaptive chunking are candidates; execution policy, apply-patch and the tool
orchestrator are sequential procedures; sandboxes, API clients, front ends,
configuration, generated types, vendored code and packaging have no state machine
of their own. The device-code worker of `opencto/Sheri-ML/heysalad-sheri-auth`
(polling races verification in a key-value store) is a candidate as well. The map
covers little of the repository as a whole, because most of its lines are front
ends, configuration, generated types and tests.

## 2. The modules and the code

In all of them an action is what a task does between two points at which another
actor can see or change its state: an `await`, a critical section of a mutex, an
SQL statement, an atomic.

### 2.1 `TurnLifecycle`

Every acquisition of the `active_turn` mutex is one action, and so is every other
step another actor can observe: sending an event, writing the history, queueing
and flushing the rollout. Between two actions anything may run.

| state | code |
| --- | --- |
| `active` | `Session::active_turn`: the task, `TurnState::pending_input`, `pending_approvals` |
| `pc`, `taken`, `cancelled`, `killed` | a spawned task: its program point, the inputs in its locals, its `CancellationToken`, whether `abort` was called on its handle |
| `loop` | `submission_loop` and the handler it is in |
| `history`, `queued`, `durable` | the conversation; abort markers handed to the rollout; those on disk |
| `rollout` | the file: not created yet, open, failed, or none for an ephemeral session |
| `sent`, `status` | events; `agent_status` |
| `accepted`, `discarded` | history variables: inputs the session took charge of; inputs that an abort dropped |

| actions | code |
| --- | --- |
| `UserInput`, `SteerInput`, `SpawnStandalone`, `Interrupt`, `Shutdown`, `NotifyApproval` | handlers of the submission loop; `CodexThread::steer_input` |
| `TakeAllRunningTasks`, `CancelTask`, `EndGrace`, `RecordAbortMarker`, `FlushAbortMarker`, `EmitTurnAborted` | `abort_all_tasks` and `handle_task_abort` |
| `SpawnTask`, `RegisterNewActiveTask` | `spawn_task` after the abort |
| `StartTurn` ... `EndRun` | the task: `RegularTask`/`run_turn`, or a kind that never polls input |
| `FailBeforePrompt` | its early ways out, before the prompt is recorded |
| `Materialize` | `ensure_rollout_materialized`, once the prompt is recorded |
| `RecorderFails` | an I/O error ends the writer |
| `FinishTask`, `RecordTaken`, `EmitTurnComplete`, `NotifyDone` | `on_task_finished` and the spawn site |
| `Die` | an abort takes effect at an await |

A task with a prompt is a regular one; a task without stands for compact, undo,
review and shell commands. A poll that needs no follow-up, an error, a hook that
fails and an approval are choices of the task. Time is not modelled: the grace
period of 100 ms may end at once. `send_event` is one step. A flush makes markers
durable only while the file is open: without a file it is acknowledged all the same,
and after a failure `flush_rollout` only warns; creating the file (`Persist`) writes
what was queued before, or fails. `Files` is what a session may start with. `docs/protocol_v1.md:31` says that new
input aborts the task that runs; today's code steers instead (`steer_input`), and
the model follows the code.

`SessionSlot` is what a session promises: one slot, entered by one turn after the
other. `TurnLifecycle` implements it (`ImplementsSlot`), the slot being held from
`tokio::spawn` until the turn is cancelled or leaves its `ActiveTurn`. It is not
`active_turn` itself that is the slot: a task runs before it is registered there.

### 2.2 `MemoryJobs`

Every SQL statement or transaction is one action; so is the work on the files. A row of `jobs` is a record: status, token (the pass that claimed it),
whether the lease is valid, whether a backoff is running, retries, watermarks.

| state | code |
| --- | --- |
| `updated`, `outputs`, `job`, `global` | `threads.updated_at`, `stage1_outputs.source_updated_at`, the two kinds of `jobs` rows |
| `pc`, `scan`, `claims`, `mark`, `snap` | a pass and what it holds between statements |
| `drop`, `faults` | whether `Op::DropMemories` has been; crashes and lost leases so far |
| `merged` | history variable: the outputs of the last consolidation that succeeded |

| actions | code |
| --- | --- |
| `ScanThreads`, `TryClaimStage1Job`, `EndClaiming` | `claim_stage1_jobs_for_startup`, `try_claim_stage1_job` |
| `Stage1Succeeded`, `Stage1NoOutput`, `Stage1Failed` | the three reports, with `enqueue_global_consolidation` in their transaction |
| `TryClaimGlobalJob`, `ListOutputs`, `SyncFiles`, `AgentCompleted`, `PhaseTwoError`, `Heartbeat` | `phase2::run`, `agent::handle`, `loop_agent` |
| `GlobalSucceeded`, `GlobalFailed` | `mark_global_phase2_job_succeeded`, `.._failed`, `.._failed_if_unowned` |
| `ClearMemoryData` | `Op::DropMemories` |
| `ThreadUpdated`, `ThreadDeleted`, `JobTimePasses`, `GlobalTimePasses`, `Crash` | the environment |

Clocks are not modelled: a lease or a backoff may run out at any moment. Tokens
are unique per pass, so a token is the pass. Left out: errors of the database
(each report is made or the process dies), `max_raw_memories_for_global` (there is
room for everything), the contents of the memory directory, a second drop. A scan
sees any of the threads that are stale: its age cutoff, its limit and its order
(newest first) are that choice.

### 2.3 `AgentControl`

Any number of user sessions share one registry. A session's `AgentControl`, and with
it its `Guards`, is shared by its sub-agents, its delegated sessions
(`codex_delegate.rs:59`, `agent/control.rs:49-56`) and the memory consolidation, which
spawns an agent and later shuts it down from tasks of its own
(`memories/phase2.rs:105-109, 303-310`). The lock that serialises the multi-agent tools
belongs to one sampling request, and calls nested in a `js_repl` script pass it by
(`tools/js_repl/mod.rs`). So several calls use one `Guards` at the same time: `Callers`
are the tasks inside a call, each for any session. Another session may name an agent
it did not spawn: a resumed or forked conversation remembers the id.

| state | code |
| --- | --- |
| `total_count`, `threads_set` | `Guards` of each session |
| `agent` | the entry of each id in `ThreadManagerState::threads`, and how far the shutdown of that thread is |
| `call` | of each caller: operation, place, session, agent, and the count it has loaded |
| `owner`, `stuck`, `overlapped` | history variables: who inserted the thread; commits of an id that was in the set; ids a session resumed between another call's removal and release of them |

| actions | code |
| --- | --- |
| `SpawnAgent`, `ResumeAgent`, `ReserveSpawnSlot`, `Exchange`, `InsertThread`, `Commit` | `spawn_agent`, `resume_agent_from_rollout`; `reserve_spawn_slot` with the load and the compare-exchange loop of `try_increment_spawned`, `finalize_thread_spawn`, `SpawnReservation::commit` |
| `SendInput`, `SubmitInput` | `send_input`, which removes and releases on `InternalAgentDied` |
| `CloseAgent`, `SubmitShutdown`, `RemoveThread`, `ReleaseThread`, `Decrement` | `close_agent::handle`, `shutdown_agent`, `release_spawned_thread` (set, then count) |
| `Abandon` | an interrupt drops the call at an await, or the thread does not start; `SpawnReservation::drop` |
| `CompleteShutdown`, `EndLoop`, `LoopDies` | the agent's own submission loop |
| `ClientShutdown`, `ClientRemove` | `thread/archive` of the app-server, `shutdown_current_thread` of the TUI |

`send_op` (look up, then submit) is one step: the handle it looked up stays valid,
and what it submits to a thread removed meanwhile has no effect on the slots. The
reservation is at least two: the count that was loaded is exchanged only if it is
still the count, and examined again if not (a spurious failure of the weak exchange
would examine the same count once more). Left out: the `wait` tool,
`interrupt_agent` (it changes no slot), the depth limit, and configurations without a
limit, in which nothing is refused.

### 2.4 `ReadinessFlag` and `ToolGate`

`ReadinessFlag` has one operator per step of the flag; who takes them, and where in
its call it is, belongs to `ToolGate`, which is one turn.

| state | code |
| --- | --- |
| `ready`, `tokens`, `lock`, `watch`, `receivers` | `ReadinessFlag`: the atomic, the token set and its mutex, the watch channel |
| `task`, `request`, `inFlight`, `outputs`, `cancelled` | `run_turn`, the sampling request it is in, its `FuturesOrdered`, the recorded outputs, the turn's token |
| `ghost`, `snapshot` | the ghost snapshot's async task; the copy on the blocking pool |
| `call`, `mutating`, `parallel`, `origin` | each call's task, and what the registry says of its tool |
| `dropped` | calls whose `AbortOnDropHandle` was dropped |

| actions | code |
| --- | --- |
| `SkipSnapshot`, `StartSnapshot`, `SnapshotWritten`, `EndWork`, `MarkReady`, `BroadcastReady` | `maybe_start_ghost_snapshot`, `GhostSnapshotTask::run` |
| `EmitCall`, `StreamCompleted`, `StreamCancelled`, `StreamFailed`, `DrainOne`, `DrainDone` | `try_run_sampling_request`, `drain_in_flight` |
| `AcquireGuard`, `LoadReady`, `TryLock`, `Swap`, `SendReady`, `ReloadReady`, `SubscribeWatch`, `Wake`, `Finish` | `handle_tool_call`, `dispatch`, `is_ready` and `wait_ready` |
| `CancelCall`, `DropCall`, `Cancel`, `Kill` | the `select!` on the call's token, `AbortOnDropHandle`, the user's interrupt and the abort after the grace period |

Left out: the one-second timeout of the token lock (nobody holds it across an
await), the wrap-around of token numbers, the order in which an RwLock serves its
waiters, what a handler does, calls nested in `js_repl`. Each request, and each
retry of one, has a lock of its own, so an aborted call of a failed request may
still overlap a call of its retry; and after a cancellation the copy goes on while
a call whose `select!` has not seen the token may pass the gate. The properties
name both exceptions.

### 2.5 `NetworkAttempts` and `NetworkApproval`

| state | code |
| --- | --- |
| `attempts`, `outcome` | `NetworkApprovalService::attempts` and the outcome behind each `Arc` |
| `active`, `turns`, `pending` | the active turn and its `pending_approvals` |
| `phase`, `turnOf`, `approved`, `session` | the command of each attempt; its turn id; hosts approved for it, and for the session |
| `at`, `host`, `id`, `target`, `channel` | each connection of the proxy: its place, what it asks for, what was found for it, its oneshot receiver |
| `prompted` | history variable: requests whose prompt is with the user |

| actions | code |
| --- | --- |
| `StartTurn`, `EndTurn` | a turn takes, or leaves, `active_turn`; its pending senders are dropped |
| `Begin`, `TakeResult`, `Finish`, `DropAttempt` | `begin_network_approval`, `finish_immediate_network_approval`; a dropped call |
| `Connect`, `Consider`, `FindTurn`, `Ask`, `Decide`, `Block` | `handle_inline_policy_request`, `request_command_approval`, the blocked-request observer |
| `Answer` | `notify_approval` |

Prompts go under the call id. A second prompt of the same command overwrites the
first in `pending_approvals`, which drops its sender: the first request then gets
the default decision, `Denied`, although nothing was aborted (`codex.rs:2300`); the
comment at `codex.rs:2285-2287` names only the aborted turn. A request whose turn was replaced
between `FindTurn` and `Ask` is filed under the new turn's `TurnState` and ends with
that turn. A call that is dropped leaves its attempt registered, and an attempt too
many makes requests without an id unresolvable (`Resolves`). A decision that comes
between `take_outcome` and `unregister_attempt` is stored and lost with the attempt.
Left out: parsing and wording of blocked requests, protocols, amendments of the
execution policy.

### 2.6 `UnifiedExec`

| state | code |
| --- | --- |
| `attempts`, `outcome` | as in `NetworkApproval`; here a denial is one environment action (`Deny`) |
| `reserved`, `stored`, `newer` | `ProcessStore`: reserved ids, entries, the order of `last_used` |
| `call`, `victim` | each `exec_command`, and the entry it has pruned |
| `proc`, `token` | the child; its exit token |
| `watcher`, `denier`, `ended` | exit watcher, network denial watcher, `ExecCommandEnd` events so far |
| `writing`, `closing`, `dropped` | `write_stdin` calls; entries drained by `terminate_all_processes`; dropped calls |

| actions | code |
| --- | --- |
| `Allocate`, `Decline`, `Open`, `OpenFails`, `ReleaseFailed`, `Spawn` | `allocate_process_id`, the handler's early returns, `open_session_with_sandbox` |
| `CollectExited` ... `LeaveExited`, `CollectDenied` ... `ReleaseDenied`, `CollectAlive` | the three ways out of the first wait for output |
| `Store`, `PruneVictim`, `Watch` | `store_process`, `prune_processes_if_needed`, the start of the watchers |
| `PrepareWrite`, `RefreshWrite` | `write_stdin`, `refresh_process_state` |
| `ReportEnd`, `StopDenier`, `KillDenied`, `ReleaseKilled` | `async_watcher.rs` |
| `TerminateAll`, `CloseEntry`, `DropCall`, `Exit`, `SignalExit`, `Deny` | interrupts, dropped futures, children, the user's denial |

Ids are never drawn twice; one `exec_command` makes one attempt (the orchestrator's
retry without a sandbox is left out); the drain of the streaming task before the end
event is part of `ReportEnd`; a terminated child may later be reaped as exited. A
process that is stored just after `terminate_all_processes` survives it. What a
dropped call leaves behind is an exception the properties name: the victim of a
dropped pruning call runs on unlisted, and a call dropped before it stores leaks its
id and its attempt (so does an error of `intercept_apply_patch`, for the id).

### 2.7 `RolloutRecorder`, `ThreadHistory` and `DurableLog`

`RolloutRecorder` is the writer task and its channel; its callers are parameters.
`ThreadHistory` is a session over it: the submission loop, the running turn and the
tail of a turn that has left `active_turn`.

| state | code |
| --- | --- |
| `channel`, `writer`, `buffered`, `writing`, `serving`, `file`, `meta` | `RolloutCmd`s, `rollout_writer` and its locals, the file |
| `waiting` | callers of `persist` and `flush` that wait for their oneshot |
| `log` | history variable: what was accepted and not lost |
| `acked`, `committed`, `lost` | history variables: how much was queued before a `persist` or `flush` that returned `Ok`; before one that the open file has served; acknowledged items died with the writer or the process |
| `history`, `seeded`, `remote` | `ContextManager::items`, `initial_context_seeded`, the kind of compaction |
| `active`, `task`, `at`, `hold`, `copy`, `arg`, `prompt` | `active_turn`; where each caller is, the item it has put into the history and not yet recorded, the copy of the history it will put back, what else it holds in its locals; the input of a turn until it is recorded |
| `inflight` | the tool futures of the request in progress (`drain_in_flight`) |
| `used`, `count` | inputs and calls made; bounds |
| `raced`, `before` | history variables: two callers got between each other's steps; the history each message came after |

| actions | code |
| --- | --- |
| `RecordItems`, `Request`, `Forget` | `record_items`; `persist`, `flush`; a dropped caller |
| `ReceiveItems`, `ReceivePersist`, `ReceiveFlush`, `OpenFile`, `WriteItem`, `WriteFails`, `FlushFails` | `rollout_writer` |
| `Reopen`, `CrashAndResume` | `get_rollout_history`, `record_initial_history` of a resumed thread |
| `SeedContext`, `SwitchModel`, `StartTurn`, `StartCompact`, `Interrupt`, `BeginRollback`, `EndRollback` | handlers of the loop |
| `RecordPrompt`, `PollInput`, `RecordCall`, `RecordOutput`, `RetryRequest`, `FinishTurn`, `RecordLeftover` | a turn and its tail |
| `AutoCompact`; `RequestSummary`, `RecordDraft`, `CopyLocally`; `CopyRemotely`; `ReplaceHistory` | a compaction: by the model (`compact.rs`) or by the server (`compact_remote.rs`), before a prompt is recorded, between two requests, or as a task of its own |
| `RecordHeld`, `AwaitRecorder` | the second half of `record_conversation_items`; waiting for an acknowledgement |

`DropLastTurns`, `ForPrompt`, `RemoveFirstItem`, `LocallyCompacted`,
`RemotelyCompacted`, `Replay` and `TruncateBefore` are the code's pure functions; their
loops are recursive functions over the places of a sequence (`Places`, `Keep`,
`CountItem`), which the proofs unfold. `DurableLog` is what a recorder promises: an append-only file
that is always a prefix of the accepted items, of which only the unwritten end can
be lost; `ImplementsLog` is the refinement.

A local compaction keeps the newest messages of the user that fit into `Room`
(`COMPACT_USER_MESSAGE_MAX_TOKENS`), a message costing its `Size`; a message that is cut
to what is left keeps its identity. A remote compaction keeps any of the user's messages
and any earlier summary: the endpoint decides (`compact_remote.rs` keeps what it
returned, and the tests of `core/tests/suite/compact_remote.rs` have it drop some). A
change of the model since the last turn of the user is stripped before either and
put back after it; after a local one this `Reappended` item is in the live history
alone, after a remote one the replacement history that is recorded has it.

Left out: the bound of 256 of the channel (a full channel only delays the sender), a
line cut in half by the operating system, ghost-snapshot items (a compaction puts them
back, like the model switch, into the live history), images, reviews, a compaction that
retries, trimming from the end of what is sent to the server, custom and local-shell
calls as kinds of their own (a call is a function call); the initial context is one
item, also where the replay rebuilds it. A `Shutdown` command acts as a flush; one tail
at a time. A thread can be resumed only once its `SessionMeta` line is written.

### 2.8 Schedules found beside the properties

Each of these is a behaviour of the model that no run is spent on.

- `on_task_finished` sends `TurnComplete` after it has released `active_turn`
  (`tasks/mod.rs:229`), so the next turn's `TurnStarted` can overtake it and leave
  `agent_status` at `Completed` while that turn runs; this bites in the `wait` tool,
  which takes `Completed` for final.
- An interrupt between the `is_cancelled` test (`tasks/mod.rs:157`) and
  `on_task_finished` gives one turn both `TurnAborted` and `TurnComplete`.
- A task may finish before `register_new_active_task` runs: a turn that has ended is
  then the active one until the next abort.
- `Op::DropMemories` deletes the global row under the lease, so that a second
  consolidation may start beside the one in flight. (That the one in flight writes the
  directory again after it was removed, `protocol/src/protocol.rs:301`, is found by
  reading only.)
- An agent that a client shut down keeps its slot: `close_agent` answers
  `ThreadNotFound`, or finds the status `Shutdown`, and releases nothing. Resuming it
  takes a second slot for the id (`stuck`), which nothing gives back.
- `remove_thread` and `release_spawned_thread` are two steps
  (`agent/control.rs:128-130`). A call of the same session that resumes the agent between
  them registers a thread whose slot the pending release then frees (`overlapped`): two
  calls close one agent, and a third resumes it before the second has released it.
- A command that is denied network access while it still runs is terminated with no
  `ExecCommandEnd` (`unified_exec/process_manager.rs:268-281`), while the begin
  event is to be "paired with the ExecCommandEnd event" (`protocol/src/protocol.rs:2114`).
- `thread_rollback` replaces the history by a clone made before an await
  (`codex.rs:3918-3946`); leftover input that a finishing turn records meanwhile is in
  the rollout and no longer in the history, so a resumed thread shows what the live
  one did not. Remote compaction copies the history before its await in the same way.
- After a compaction followed by a rollback the replay counts the summary as a user
  turn and the truncation for a fork does not.
- A failed compaction leaves its draft in the live history only; an item of an aborted
  turn may be in the history and not in the rollout.
- `persist` and `flush` answer `Ok` after a failure too (`rollout/recorder.rs:794-811`),
  and a flush is acknowledged while there is no file: callers cannot tell (section 5).

## 3. What is checked

The passing runs are exhaustive: TLC explores every reachable state within the
bounds below. The two others end with a counterexample, which section 5 describes.

| run | instance | states | shows |
| --- | --- | --- | --- |
| `turn_inputs` | 2 turns, 2 inputs, file deferred or open | 1.1 M, up to symmetry | `AtMostOneRunning`, `ReplacedTurnReportedFirst`, `ActiveTurnAbortable`, `MarkerInOpenRollout`, `InputAccountedOnce`, `ImplementsSlot` |
| `turn_liveness` | 2 turns, 1 input, fair | 152 k | `LoopReturns`, `CancelledTurnEnds`, `AcceptedInputResolved` |
| `mem_capacity` | 2 threads, 2 passes, room for 1 job, 2 retries, 2 faults | 2.4 M, up to symmetry | `RunningWithinLimit`; `NoLostConsolidation`, also for outputs of the same age |
| `mem_liveness` | 1 thread with 2 versions, 2 passes, 2 retries, 1 fault, fair | 412 k | `StaleThreadSettles`, `DirtySettles`, `OutputBelowSuccess`, `SuccessNeverRegresses`, `TypeOK` |
| `agent_slots` | 2 sessions with 1 slot each, 2 callers, 2 agents | 1.4 M, up to symmetry | `SlotsAccounted`, `LiveThreadListed`, `LimitUnlessOverlapped` |
| `tool_calls` | 2 calls over 2 requests, fair | 236 k | `SnapshotPrecedesMutation`, `SerialAlone`, `AnswersRecorded`, `CallsEnd`, `GateOpens` |
| `net_approval` | 2 commands, 2 connections, 1 host, 2 turns, fair | 1.8 M | `WaitingIsPending`, `DenialKept`, `AnswersStayWithCall`, `OrphansDecided` |
| `exec_processes` | 3 commands (1 behind the proxy), store of 2, 1 protected, 1 write at a time | 4.2 M, up to symmetry | `EndOnce`, `StoreBounded`, `LiveReachable`, `AttemptsReleased` |
| `exec_liveness` | 2 commands (1 behind the proxy), store of 1, 2 writes, fair | 81 k | `EndReported`, `DenialKills` |
| `history` | 2 messages, 1 call, room for 1 message, any 2 of a compaction, a model switch, a rollback and a crash, I/O errors | 2.2 M, up to symmetry | `AckedIsDurable`, `WaitersServed`, `ResumesAsSeen`, `PromptsBalanced`, `ForkKeepsPrefix`, `ImplementsLog` |
| `turn_silent`, `tool_waiter` | 1 turn; 1 call, fair | - | statements of the repository that the code does not keep (section 5) |

Why the bounds are enough for what they are meant to show:

- *Turns.* One turn shows a race with the loop, two a straggler and its successor; with
  the file deferred, the marker of the first may come to disk with the second.
  Two inputs can be polled by different turns, or one of them be polled while the
  other arrives. Three turns are beyond TLC together with inputs; the theorems of
  section 4 hold for any number.
- *Memories.* A lease is contended by the pass that lost it and the one that has it:
  two passes. A thread's version matters against an older and a newer one: two
  versions. Two threads matter for the limit and for equal watermarks. Two faults
  let one lease lapse and the pass that took it over crash. With two retries a job
  fails, backs off, and is claimed again. A pass runs as often as it likes.
- *Agents.* Two callers in one session race for its one slot, or for one id; in two
  sessions they race on one id. With two ids a session is full of a listed agent, of one
  another session took over, or of a reservation, and refuses.
- *Tool calls.* Two calls conflict at the lock, at the gate and in the order of their
  outputs; two requests let the first fail and the second overlap what it left.
- *Network approval.* `TwoCalls` gives the attempts different call ids, so that an answer
  can cross; two connections of one command overwrite each other; two turns let
  the second find the first's request.
- *Unified exec.* A store of two with three commands prunes while two calls race; one
  protected entry and one beside it exercise both parts of `ToPrune`. The liveness
  run prunes the only entry, and lets two writers hold it.
- *History.* Two events of different kinds, in either order, give the replay each of its
  rules and each pair of them; room for one of two messages makes a local compaction
  drop one, and the server drops any; one crash is followed by a full continuation.
  `MaxEvents` bounds the events together, since three of them are beyond TLC; the
  theorems hold for any number.

Inputs, sessions, callers, agents, threads, passes and processes are interchangeable, which
the safety runs use as symmetry; no liveness is checked under symmetry.

`CHECK_DEADLOCK FALSE` appears where the system really may stop: a session after
shutdown or waiting for its user; a turn that is over; commands that have all ended.
The memory pipeline and the agents never stop.

### Fairness

*Turns.* Weak fairness of the submission loop's own steps, of each task and of the
death of an aborted task: the tokio scheduler runs what is ready, and an abort
request is honoured at the next await. Nothing is assumed of the user: no
submission, no interrupt and no approval ever needs to come. That is why
`AcceptedInputResolved` excepts a turn that waits for an approval.

*Memories.* Weak fairness of a pass's work, once it has begun, and of time. Nothing is
assumed of the scans, of failures, crashes, drops and new messages; an agent that runs
may take long, but ends. A scan has an age cutoff, a limit and prefers recent threads
(`memories.rs:87, 134-136`), so a given thread may never be found again:
`StaleThreadSettles` speaks of a thread that scans find again and again.

*Tool calls.* Weak fairness of each call's own steps, of the ghost task, of the copying
thread (it blocks a pool thread for as long as git takes, and ends) and of the abort
after the grace period. Nothing of the stream, the user, or a handler: a tool may run
for ever unless it is cancelled.

*Network approval, unified exec.* Weak fairness of the scheduled tasks only: the proxy's
requests; a call, its watchers, the signal of an exit and the closing of drained
entries. Users need not answer, children need not exit, turns need not end.

### What the liveness properties say

`LoopReturns` holds although a task may ignore its cancellation and
`notify_waiters` stores no permit: the grace timeout is what makes it true (its
mutant removes it). `CancelledTurnEnds` holds also for a task blocked on an
approval. `StaleThreadSettles` and `DirtySettles` allow the code's only way out,
exhausted retries. `CallsEnd` covers a call that waits at the gate for a change that
never comes (section 5): cancellation is what ends it. `GateOpens` covers a snapshot
that fails or is cancelled. `OrphansDecided` says that no connection of the proxy
hangs once the turn is gone. `EndReported` and `DenialKills` follow a process through
the gap between the last look of its call and the start of its watchers.

## 4. What is proved

TLAPS checks every leaf; nothing is assumed but the named ASSUMEs of the modules.
The theorems hold for every value of the constants, the bounds of the models
included. Every invariant and every action property of the passing runs is proved, and
so are both refinements.
Type correctness is a theorem of each module about a `TypeOK`, and only `mem_liveness`
checks one with TLC as well.

*`TurnLifecycleProofs`* (assumes `MaxTurn` is a positive natural). `AtMostOneRunning`
is not inductive: that a new turn does not run beside an old one depends on where
the loop is. `IInv` adds: the loop names a spawned turn wherever it uses one, and
has a number left when it is about to spawn (`LoopInv`); away from its idle and
take steps `active_turn` is empty, and whoever is in it is not cancelled
(`ActiveInv`); a running turn is in `active_turn`, or is being registered, or has
just been taken (`HeldInv`); unspawned turns have not started (`UnspawnedInv`).
`HeldInv` and `ActiveInv` give mutual exclusion, since the three places exclude
each other; the same invariant shows that each step maps to a step of
`SessionSlot` or a stutter (`SlotRefinement`).

The same module adds to `IInv` one invariant per further property. `MarkerKept`: the
marker of a turn reported as interrupted, or about to be, is *secured*: handed to the
rollout, and on disk if the file is open (`MarkerInv`); a file that is created later
gets it with what was queued before.
`ReplacedFirst`: who is in `active_turn`, or in the loop's hands, is
always the last turn spawned, and a cancelled turn has reported or is the one the loop
is aborting (`ReportInv`). `InputsAccounted`: pending, taken, recorded and discarded
inputs are pairwise disjoint and free of duplicates (`PlacesInv`), and tasks that cannot
hold input hold none (`EmptyInv`).

*`MemoryJobsProofs`* (assumes finitely many threads, positive retries, a null token).
`NoLostConsolidation` is about the past of a consolidation, so `IInv` follows it
through its pass: the owner of a running stage-1 row works on the row's input
watermark (`ClaimInv`); the global input watermark is ahead of its success and of
every output (`GlobalInv`); and a pass that owns the global row has not read ahead
of it, and is behind it as soon as what it listed has changed (`PassInv`). The last
holds because every enqueue raises the watermark, even by one when the source is
older. `SuccessMonotone` follows from the same invariant as an action property;
`WithinLimit` needs only that each claim counts the others in its own statement.

*`AgentControlProofs`* (assumes finitely many agents and callers, a positive limit).
`SlotsAccounted` and `LiveThreadListed` are inductive together with three facts: a
call names its session, an agent once it needs one, and exchanges only a count below
the limit (`CallInv`); a thread about to be released is in the registry no more, or
belongs to another session by now, or was resumed over the release (`UnlistInv`); what is
in the registry has an owner (`OwnerInv`). With any number of callers the count is the
set and everybody who holds a slot, so a commit or a release moves one from the one to
the other. `Limit` follows by counting: the open agents of a session that no resume has
overlapped are in its set, or somebody is about to put them there, and each of those
holds a slot of its own.

*`ToolGateProofs`* (any number of calls and requests). The token is out, and the flag not
ready, from the start of the snapshot until its task marks the gate (`GateInv`);
calls in flight belong to the current request, and whoever is behind is dropped or
ended (`FlightInv`); two holders of one request's lock are both shared (`GuardInv`);
outputs and then the calls in flight are in order (`OrderInv`).

*`NetworkApprovalProofs`* (any attempts, requests, hosts, turns and call ids). A pending
sender is under the call id of its own request, which waits (`WaitInv`); an attempt
that has not begun is nobody's target (`IdleInv`); `DenialKept` and
`AnswersStayWithCall` are inductive with them.

*`UnifiedExecProofs`* (any number of processes, any size of the store). What a call has
done by where it is (`CallInv`), who is to report an end (`WatchInv`) and who is to
unregister an attempt (`AttemptInv`) carry `EndOnce`, `LiveReachable` and
`AttemptsReleased`. `StoreBounded` needs the protected entries to be fewer than the
limit, and that the times of last use order the entries and the processes about to be
stored (`UseInv`): then the oldest entry of a full store has as many entries used after
it as there are others, is not protected, and `ToPrune` is not empty (`FullIsPruned`).

*`RolloutProofs`* (any inputs, calls and bounds). File, items being written, buffer and
channel hold, one after the other, what `log` says; each command knows how much of
`log` is before it (`ChannelInv`, `ContentInv`), and a command being served was queued
after nothing that the writer does not have (`WriterInv`). So an acknowledgement never
covers more than the writer has: what the open file had is committed, the rest is on its
way, or `lost` says that the writer or the process has ended since. That gives
`AcknowledgedStays` and `RecorderImplementsLog`. `CallersAreServed` adds that the writer
serves one command at a time and that each waiting caller has one, queued or served
(`ServedInv`).

*`ThreadHistoryProofs`* (any inputs, calls and bounds; `None` is no item, entry or
history) is about what the replay, the prompt and the truncation compute, for a history
and a rollout of any length.
The library's induction theorems take an operator, so `SetInduction` and `SeqInduction`
state induction for a set of numbers or sequences, from the well-foundedness of `<`.
`RecursionExists` and `RecursionUnique` turn the recursive functions of the model into
what they make of one item more (`PlacesAppend`, `KeepAppend`, `ReplayAppend`,
`CountAppend`, `EnsureUnfold`). Each theorem then has one lemma about sequences and one
inductive invariant:

- `ResumedAsSeen`. `RecordedDrop`: a rollback of the recorded items is what is recorded of
  the rollback, so drafts do not matter. `SyncInv`: while no task has got in between
  another's two steps, at most one is midway, and the replay of the rollout with what
  that one holds shows the history. Types and control are `SessionInv`.
- `PromptsAreBalanced`. `EnsureFacts` and `TrimmingsTidy` are about a *tidy* history, in
  which calls and outputs occur once and an output after its call. `PairInv` keeps the
  history tidy, races and crashes included. It has to speak of every conversation a crash
  may bring back (`Replays`: those of all beginnings of the rollout), since the file may
  end between a call and its output; of the calls in flight, whose outputs are nowhere
  yet; and of what each task holds.
- `ForksKeepPrefix`. `CountedAppend`, `CountedAlways`: the positions the truncation counts
  are those of the transcript's messages, whatever compactions do between them. `ForkInv`
  follows each message from where it is noted what it came after (`before`): a message is
  put into the history once (`FreshInv`), every message of the rollout or on its way to it
  is noted (`NotedInv`), and what precedes it in the rollout replays to what was noted,
  drafts and put-back switches aside (`OrderInv`, which needs `SyncInv`). A compaction may
  keep any messages: the fork cuts before them, and the theorem compares histories, not
  counts.

Only model-checked: all liveness (the proof system handles neither liveness under
fairness nor ENABLED). No module with a theorem declares a RECURSIVE operator.

## 5. Where the code and its documentation disagree

Two runs end with a counterexample:

- `turn_silent`: `remove_task` drops the abort handle of the task that is executing
  it (`state/turn.rs:60`); the task may end there, without `TurnComplete`, while
  `tasks/mod.rs:158` has completion emitted "uniformly".
- `tool_waiter`: `mark_ready` stores the flag and then sends on a watch channel, which
  stores nothing while it has no receiver; a call that tested the flag before the
  store and subscribes after the send waits at an open gate until it is cancelled
  (`utils/readiness/src/lib.rs:164-178`; line 39 says of `wait_ready` that it waits
  "until the flag becomes ready").

Four more statements are definitions at the end of their modules; a configuration that
names one as an INVARIANT shows a counterexample in seconds (the files named after them
below), and the passing runs check what is left of them:

- `MarkerDurableBeforeAborted` (`TurnLifecycle`, `turn_marker.cfg`). `tasks/mod.rs:306`:
  "Ensure the marker is durably visible before emitting TurnAborted". `flush_rollout` only
  warns about an error (`codex.rs:1434-1444`), and the recorder acknowledges a flush
  without a file (`rollout/recorder.rs:802-811`), which is created after the first prompt
  is recorded (`codex.rs:2841`). A turn that is interrupted before is reported with its
  marker in memory. What holds: `MarkerInOpenRollout`.
- `AckedIsCommitted` (`RolloutRecorder`, `recorder_acks.cfg`). `rollout/recorder.rs:503`:
  "Flush all queued writes and wait until they are committed by the writer task"; the same
  acknowledgements. What holds: `AckedIsDurable`.
- `LimitHolds` (`AgentControl`, `agent_overlap.cfg`). `config/mod.rs:298`: "Maximum number of
  agent threads that can be open concurrently." A resume that overtakes a release (2.8)
  frees a slot whose thread is open. What holds: `LimitUnlessOverlapped`.
- `SwitchStillSeen` (`ThreadHistory`, `history_switch.cfg`). `compact.rs:214-215` puts the
  model switch back "so the model still sees the switch instructions on the next real
  sampling request"; a thread that is resumed before that request does not have it, since
  the rollout's `Compacted` item (`compact.rs:227-231`) does not carry it. What holds:
  `ResumesAsSeen`.

Section 2.8 lists the schedules that refute less definite statements.

## 6. Plan

What is left, in this order; each step is a module, its instance, its runs, its proofs.

1. *Thread index* (1.9): files, rows, the backfill's lease and watermark, live writers,
   archive and listing. What makes it hard was found by reading. A worker whose lease
   has lapsed goes on, and its checkpoint lowers the watermark or turns `Complete` back
   to `Running` (`state/src/runtime.rs:114-190`, `rollout/metadata.rs:131-390`). A
   thread archived before it is processed moves below the watermark
   (`archived_sessions/` sorts before `sessions/`), and `mark_archived` finds no row:
   only a listing's repair adds it. Extractions that fail are checkpointed past and
   not retried. `apply_rollout_items`, `mark_archived` and `read_repair_rollout_path`
   read, modify and write without a transaction. A listing that races an archive
   deletes the row by id (`state_db.rs:220-260`), and with it the memory of the
   thread. A row recreated by a live writer lacks its first user message.
   Properties: every file the watermark has passed, and nobody moved, has a row; the
   backfill ends up complete again after every crash; an undisturbed
   listing leaves path and flag as on disk.
2. The `wait` tool over `agent_status`, with `interrupt_agent` and the overtaken
   `TurnComplete` of 2.8; then the sub-agent delegate (1.10).
3. `HeadTailBuffer` and `seek_sequence` as operators against reference definitions.
4. Models cache and authentication refresh: one file, several processes.
5. Abstract specifications that are not stated yet: the jobs table as a lease service
   with fencing, which `MemoryJobs` implements for both kinds of rows; the slots of
   `AgentControl`; an approval service that answers each request once.

Runs stay few: where a new module needs one, the small runs of a component make way
or the instances of two questions are merged.

### Not modelled

The reason is in `PROJECT.json` for each component. In short: sequential procedures
without shared state (execution policy, apply-patch, tool orchestration,
configuration, hooks, skills); front ends and protocol plumbing (CLI, TUI, app-server
routing, MCP); operating-system policy (sandboxes); clients of external services;
generated and vendored code. The thread index, the delegate, the models cache, the
authentication refresh and the device-code worker could be modelled and are not yet.
