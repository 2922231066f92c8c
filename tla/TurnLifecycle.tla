---------------------------- MODULE TurnLifecycle ----------------------------
(***************************************************************************)
(* The life of a turn in a codex-rs session: core/src/tasks/mod.rs,        *)
(* core/src/state/turn.rs and the parts of core/src/codex.rs that touch    *)
(* Session::active_turn.                                                   *)
(*                                                                         *)
(* Three kinds of actors interleave.                                       *)
(*   - The submission loop handles one operation at a time: it steers or   *)
(*     spawns, aborts, answers approvals, shuts down.                      *)
(*   - Every spawned task is a tokio task of its own.                      *)
(*   - Clients of the thread API steer input directly, beside the loop.    *)
(* Each acquisition of the active_turn mutex is one action; between two    *)
(* of them any other actor may run.                                        *)
(***************************************************************************)
EXTENDS Integers, Sequences, Functions

CONSTANTS
    MaxTurn,    \* turns spawned in one session (bound of the model)
    Inputs,     \* user messages, each submitted at most once
    Files       \* the rollout file of a session at its start

ASSUME MaxTurnAssumption == MaxTurn \in Nat \ {0}

\* A new thread has no file yet, a resumed or forked one does, an ephemeral one
\* never has.
ASSUME FilesAssumption == Files \subseteq {"deferred", "open", "none"}

Turns == 1..MaxTurn
NoTurn == 0
Reasons == {"Interrupted", "Replaced"}

VARIABLES
    active,     \* Session::active_turn
    pc,         \* where each task is in its run, and after
    taken,      \* user messages a task holds in locals: its prompt, polled input
    cancelled,  \* its CancellationToken
    killed,     \* JoinHandle::abort has been called on it
    spawned,    \* how many turns were spawned; they are numbered in that order
    loop,       \* the submission loop: its pc and the locals it holds
    history,    \* user messages in the conversation, in recorded order
    queued,     \* turns whose <turn_aborted> marker is queued for the rollout
    durable,    \* turns whose marker is on disk
    rollout,    \* the file: "none", "deferred" (not created yet), "open", "failed"
    sent,       \* lifecycle events sent to the client, as <<type, turn>>
    status,     \* Session::agent_status, set by the last lifecycle event
    accepted,   \* history variable: inputs the session has taken charge of
    discarded   \* history variable: inputs dropped by an abort, a death, a failed start

vars == <<active, pc, taken, cancelled, killed, spawned, loop, history, queued, durable, rollout,
          sent, status, accepted, discarded>>

task == <<pc, taken, cancelled, killed>>
log == <<history, queued, durable, rollout, sent, status>>
ghosts == <<accepted, discarded>>

-----------------------------------------------------------------------------
(* Data. *)

\* Option<ActiveTurn>: its (single) task, TurnState::pending_input, and the
\* turns whose approval sender sits in TurnState::pending_approvals.
NoActive == [task |-> NoTurn, input |-> <<>>, waiting |-> {}]
ActiveTurn(t) == [task |-> t, input |-> <<>>, waiting |-> {}]

Idle == [pc |-> "idle", victim |-> NoTurn, reason |-> "Replaced", then |-> "idle",
         prompt |-> <<>>]

LoopPcs == {"idle", "take", "cancel", "grace", "marker", "flush", "report",
            "spawn", "register", "shutdown", "stopped"}
EventTypes == {"Started", "Complete", "Interrupted", "Replaced"}

\* Program points before the task has left its ActiveTurn, and after.
RunningPcs == {"ready", "prompt", "persist", "poll", "record", "sampling", "waiting",
               "work", "ending", "finishing"}
FinalPcs == {"leftover", "complete", "notify", "done", "dead"}
Ended(t) == pc[t] \in {"done", "dead"}
Alive(t) == pc[t] \in (RunningPcs \cup FinalPcs) \ {"done", "dead"}

\* send_event: agent_status is replaced, then the event goes to the client.  A
\* task that is aborted in between is not told from one aborted after.
StatusOf(type) == CASE type = "Started" -> "Running"
                    [] type = "Complete" -> "Completed"
                    [] OTHER -> "Errored"
Emit(type, t) == sent' = sent \cup {<<type, t>>} /\ status' = StatusOf(type)
Emitted(type, t) == <<type, t>> \in sent

\* A task moves on: with new contents of its locals, or leaving them alone.
Proceed(t, to, items) == /\ pc' = [pc EXCEPT ![t] = to]
                         /\ taken' = [taken EXCEPT ![t] = items]
                         /\ UNCHANGED <<cancelled, killed>>
Goto(t, to) == pc' = [pc EXCEPT ![t] = to] /\ UNCHANGED <<taken, cancelled, killed>>

Init ==
    /\ active = NoActive
    /\ pc = [t \in Turns |-> "unspawned"]
    /\ taken = [t \in Turns |-> <<>>]
    /\ cancelled = [t \in Turns |-> FALSE]
    /\ killed = [t \in Turns |-> FALSE]
    /\ spawned = 0
    /\ loop = Idle
    /\ history = <<>>
    /\ queued = {}
    /\ durable = {}
    /\ rollout \in Files
    /\ sent = {}
    /\ status = "PendingInit"
    /\ accepted = {}
    /\ discarded = {}

-----------------------------------------------------------------------------
(* Steering: steer_input pushes onto the active turn under the lock, whoever  *)
(* calls it.  expected_turn_id is always checked against the current turn, so *)
(* an accepted call names the turn it went to.                                *)

Fresh(i) == /\ i \notin accepted
            /\ i \notin discarded
            /\ loop.prompt # <<i>>

PushPendingInput(i) ==
    /\ active.task # NoTurn
    /\ active' = [active EXCEPT !.input = Append(@, i)]
    /\ accepted' = accepted \cup {i}
    /\ UNCHANGED <<spawned, task, log, discarded>>

\* A client of CodexThread::steer_input, concurrent with the submission loop.
SteerInput(i) == Fresh(i) /\ PushPendingInput(i) /\ UNCHANGED loop

-----------------------------------------------------------------------------
(* The submission loop. *)

At(p) == loop.pc = p

\* abort_all_tasks(reason), then whatever the operation goes on with.
AbortAllTasks(reason, then, prompt) ==
    loop' = [pc |-> "take", victim |-> NoTurn, reason |-> reason, then |-> then,
             prompt |-> prompt]

\* user_input_or_turn: steer into the active turn, else spawn a RegularTask.
UserInput(i) ==
    /\ At("idle") /\ Fresh(i)
    /\ \/ PushPendingInput(i) /\ UNCHANGED loop
       \/ /\ active.task = NoTurn
          /\ spawned < MaxTurn
          /\ AbortAllTasks("Replaced", "spawn", <<i>>)
          /\ UNCHANGED <<spawned, active, task, log, ghosts>>

SpawnStandalone_NoAbort ==     \* mutated: spawn_task without abort_all_tasks
    /\ At("idle") /\ spawned < MaxTurn
    /\ loop' = [loop EXCEPT !.pc = "spawn", !.then = "spawn", !.prompt = <<>>]
    /\ UNCHANGED <<spawned, active, task, log, ghosts>>

\* compact, undo and review replace what runs; a shell command gets a task of its
\* own when nothing does.
SpawnStandalone ==
    /\ At("idle") /\ spawned < MaxTurn
    /\ AbortAllTasks("Replaced", "spawn", <<>>)
    /\ UNCHANGED <<spawned, active, task, log, ghosts>>

\* Op::Interrupt, and ReviewDecision::Abort.  The lock is released between the
\* has_active_turn test and the take.
Interrupt ==
    /\ At("idle") /\ active.task # NoTurn
    /\ AbortAllTasks("Interrupted", "idle", <<>>)
    /\ UNCHANGED <<spawned, active, task, log, ghosts>>

Shutdown ==
    /\ At("idle")
    /\ AbortAllTasks("Interrupted", "shutdown", <<>>)
    /\ UNCHANGED <<spawned, active, task, log, ghosts>>

\* exec_approval and patch_approval -> notify_approval: the sender leaves the
\* map and the decision goes through it.
NotifyApproval(t) ==
    /\ At("idle") /\ t \in active.waiting
    /\ active' = [active EXCEPT !.waiting = @ \ {t}]
    /\ UNCHANGED <<spawned, task, loop, log, ghosts>>

TakeAllRunningTasks_Peek ==    \* mutated: active.as_ref() for active.take()
    /\ At("take")
    /\ loop' = [loop EXCEPT !.victim = active.task,
                            !.pc = IF active.task = NoTurn THEN loop.then ELSE "cancel"]
    /\ UNCHANGED <<spawned, active, task, log, ghosts>>

\* take_all_running_tasks: the ActiveTurn goes, its senders are dropped and its
\* pending input is cleared.
TakeAllRunningTasks ==
    /\ At("take")
    /\ active' = NoActive
    /\ discarded' = discarded \cup Range(active.input)
    /\ \/ active.task = NoTurn /\ loop' = [loop EXCEPT !.pc = loop.then]
       \/ /\ active.task # NoTurn
          /\ loop' = [loop EXCEPT !.pc = "cancel", !.victim = active.task]
    /\ UNCHANGED <<spawned, task, log, accepted>>

\* handle_task_abort, to the select!: a task already cancelled is skipped.
CancelTask ==
    /\ At("cancel")
    /\ \/ /\ cancelled[loop.victim]
          /\ loop' = [loop EXCEPT !.pc = loop.then]
          /\ UNCHANGED cancelled
       \/ /\ ~cancelled[loop.victim]
          /\ loop' = [loop EXCEPT !.pc = "grace"]
          /\ cancelled' = [cancelled EXCEPT ![loop.victim] = TRUE]
    /\ UNCHANGED <<spawned, active, pc, taken, killed, log, ghosts>>

\* flush_rollout: with the file open, what was queued before is written.  Without
\* one the recorder acknowledges all the same, and a recorder that has failed only
\* earns a warning.
Flush == durable' = IF rollout = "open" THEN durable \cup queued ELSE durable

\* ensure_rollout_materialized: the first one creates the file and writes what was
\* buffered, or fails and ends the recorder.  The recorder serves it before any
\* later flush, so it is done, here, when it is queued.
Persist == \/ rollout # "deferred" /\ UNCHANGED <<rollout, durable>>
           \/ rollout = "deferred" /\ rollout' = "open" /\ durable' = durable \cup queued
           \/ rollout = "deferred" /\ rollout' = "failed" /\ UNCHANGED durable

EndGrace_NoTimeout ==          \* mutated: waits for done, the sleep arm is gone
    /\ At("grace") /\ Ended(loop.victim)
    /\ killed' = [killed EXCEPT ![loop.victim] = TRUE]
    /\ loop' = [loop EXCEPT !.pc = IF loop.reason = "Interrupted" THEN "marker" ELSE "report"]
    /\ UNCHANGED <<spawned, active, pc, taken, cancelled, log, ghosts>>

EndGrace_NoAbort ==            \* mutated: handle.abort() is missing
    /\ At("grace")
    /\ loop' = [loop EXCEPT !.pc = IF loop.reason = "Interrupted" THEN "marker" ELSE "report"]
    /\ UNCHANGED <<spawned, active, task, log, ghosts>>

EndGrace_SilentReplace ==      \* mutated: a replaced task reports nothing
    /\ At("grace")
    /\ killed' = [killed EXCEPT ![loop.victim] = TRUE]
    /\ loop' = [loop EXCEPT !.pc = IF loop.reason = "Interrupted" THEN "marker" ELSE loop.then]
    /\ UNCHANGED <<spawned, active, pc, taken, cancelled, log, ghosts>>

\* The select! ends on `done` or after GRACEFULL_INTERRUPTION_TIMEOUT_MS, then
\* handle.abort() and task.abort(), which for a review materializes the rollout.
\* Time is not modelled: it may end at once.
EndGrace ==
    /\ At("grace")
    /\ killed' = [killed EXCEPT ![loop.victim] = TRUE]
    /\ loop' = [loop EXCEPT !.pc = IF loop.reason = "Interrupted" THEN "marker" ELSE "report"]
    /\ Persist \/ UNCHANGED <<rollout, durable>>
    /\ UNCHANGED <<spawned, active, pc, taken, cancelled, history, queued, sent, status, ghosts>>

RecordAbortMarker ==
    /\ At("marker")
    /\ queued' = queued \cup {loop.victim}
    /\ loop' = [loop EXCEPT !.pc = "flush"]
    /\ UNCHANGED <<spawned, active, task, history, durable, rollout, sent, status, ghosts>>

FlushAbortMarker_NotAwaited == \* mutated: the flush is not awaited
    /\ At("flush")
    /\ loop' = [loop EXCEPT !.pc = "report"]
    /\ UNCHANGED <<spawned, active, task, log, ghosts>>

FlushAbortMarker ==
    /\ At("flush")
    /\ Flush
    /\ loop' = [loop EXCEPT !.pc = "report"]
    /\ UNCHANGED <<spawned, active, task, history, queued, rollout, sent, status, ghosts>>

EmitTurnAborted ==
    /\ At("report")
    /\ Emit(loop.reason, loop.victim)
    /\ loop' = [loop EXCEPT !.pc = loop.then]
    /\ UNCHANGED <<spawned, active, task, history, queued, durable, rollout, ghosts>>

\* tokio::spawn: from here on the task runs, registered or not.
SpawnTask ==
    /\ At("spawn")
    /\ LET t == spawned + 1 IN
       /\ spawned' = t
       /\ Proceed(t, "ready", loop.prompt)
       /\ accepted' = accepted \cup Range(loop.prompt)
       /\ loop' = [loop EXCEPT !.pc = "register", !.victim = t, !.prompt = <<>>]
    /\ UNCHANGED <<active, log, discarded>>

RegisterNewActiveTask ==
    /\ At("register")
    /\ active' = ActiveTurn(loop.victim)
    /\ loop' = Idle
    /\ UNCHANGED <<spawned, task, log, ghosts>>

\* The end of shutdown: the recorder writes what it has, then ShutdownComplete.
CompleteShutdown ==
    /\ At("shutdown")
    /\ Flush
    /\ status' = "Shutdown"
    /\ loop' = [loop EXCEPT !.pc = "stopped"]
    /\ UNCHANGED <<spawned, active, task, history, queued, rollout, sent, ghosts>>

-----------------------------------------------------------------------------
(* A task.  One with a prompt is RegularTask -> run_turn; one without stands   *)
(* for the kinds whose run() never polls pending input (compact, undo, review, *)
(* a standalone shell command).  steer_input refuses empty input, so a regular *)
(* task always has a prompt.                                                   *)

\* TurnStarted comes from the task itself; undo and review send none.
StartTurn(t) ==
    /\ pc[t] = "ready"
    /\ \/ taken[t] # <<>> /\ Goto(t, "prompt") /\ Emit("Started", t)
       \/ taken[t] = <<>> /\ Goto(t, "work") /\ Emit("Started", t)
       \/ taken[t] = <<>> /\ Goto(t, "work") /\ UNCHANGED <<sent, status>>
    /\ UNCHANGED <<spawned, active, loop, history, queued, durable, rollout, ghosts>>

\* run_turn returns before recording the prompt: pre-sampling compaction
\* failed, with an Error event, or listing the MCP tools was cancelled.
FailBeforePrompt(t) ==
    /\ pc[t] = "prompt"
    /\ Proceed(t, "ending", <<>>)
    /\ discarded' = discarded \cup Range(taken[t])
    /\ status' \in {status, "Errored"}
    /\ UNCHANGED <<spawned, active, loop, history, queued, durable, rollout, sent, accepted>>

\* record_user_prompt_and_emit_turn_item for the prompt, record_conversation_items
\* for the input left over at the end.
RecordTaken(t, from, to) ==
    /\ pc[t] = from
    /\ history' = history \o taken[t]
    /\ Proceed(t, to, <<>>)
    /\ UNCHANGED <<spawned, active, loop, queued, durable, rollout, sent, status, ghosts>>

\* The prompt has been recorded: the rollout gets its file.
Materialize(t) ==
    /\ pc[t] = "persist"
    /\ Goto(t, "poll")
    /\ Persist
    /\ UNCHANGED <<spawned, active, loop, history, queued, sent, status, ghosts>>

GetPendingInput_Copy(t) ==     \* mutated: clones pending_input, no mem::swap
    /\ pc[t] = "poll"
    /\ Proceed(t, "record", active.input)
    /\ UNCHANGED <<spawned, active, loop, log, ghosts>>

\* get_pending_input: from the active turn, whichever turn that is.
GetPendingInput(t) ==
    /\ pc[t] = "poll"
    /\ Proceed(t, "record", active.input)
    /\ active' = [active EXCEPT !.input = <<>>]
    /\ UNCHANGED <<spawned, loop, log, ghosts>>

\* Polled input is recorded one item at a time.
RecordPolled(t) ==
    /\ pc[t] = "record"
    /\ \/ taken[t] = <<>> /\ Goto(t, "sampling") /\ UNCHANGED history
       \/ /\ taken[t] # <<>>
          /\ history' = Append(history, Head(taken[t]))
          /\ Proceed(t, "record", Tail(taken[t]))
    /\ UNCHANGED <<spawned, active, loop, queued, durable, rollout, sent, status, ghosts>>

\* The sampling request needs a follow-up; or the turn is over: a final answer,
\* or the cancellation token.
SamplingDone(t) ==
    /\ pc[t] = "sampling"
    /\ \/ Goto(t, "poll")
       \/ Goto(t, "ending")
    /\ UNCHANGED <<spawned, active, loop, log, ghosts>>

\* It failed, or an after_agent hook or a compaction did: an Error event.
TurnError(t) ==
    /\ pc[t] \in {"sampling", "work"}
    /\ Goto(t, "ending")
    /\ status' = "Errored"
    /\ UNCHANGED <<spawned, active, loop, history, queued, durable, rollout, sent, ghosts>>

\* request_command_approval: the sender goes into the active turn's map; with
\* no active turn it is dropped on the spot.
RequestApproval(t) ==
    /\ pc[t] = "sampling"
    /\ Goto(t, "waiting")
    /\ active' = IF active.task = NoTurn THEN active
                 ELSE [active EXCEPT !.waiting = @ \cup {t}]
    /\ UNCHANGED <<spawned, loop, log, ghosts>>

\* rx_approve.await resolves once the sender is used or dropped.
ApprovalResolved(t) ==
    /\ pc[t] = "waiting" /\ t \notin active.waiting
    /\ Goto(t, "sampling")
    /\ UNCHANGED <<spawned, active, loop, log, ghosts>>

\* A review materializes the rollout as it ends, the other kinds do not.
StandaloneDone(t) ==
    /\ pc[t] = "work"
    /\ Goto(t, "ending")
    /\ Persist \/ UNCHANGED <<rollout, durable>>
    /\ UNCHANGED <<spawned, active, loop, history, queued, sent, status, ghosts>>

\* flush_rollout, set_previous_model, then the is_cancelled test.
EndRun(t) ==
    /\ pc[t] = "ending"
    /\ Flush
    /\ Goto(t, IF cancelled[t] THEN "notify" ELSE "finishing")
    /\ UNCHANGED <<spawned, active, loop, history, queued, rollout, sent, status, ghosts>>

\* remove_task(sub_id): whether no task is left in the ActiveTurn.
RemoveTask(t) == active.task = t

\* take_pending_input, at the end of the turn.
LeftoverInput_Dropped == <<>>                    \* mutated: goes with the ActiveTurn
LeftoverInput == active.input

\* on_task_finished, under the lock.  Dropping the RunningTask drops its
\* AbortOnDropHandle, which aborts the very task that is executing this.
FinishTask(t) ==
    /\ pc[t] = "finishing"
    /\ \/ /\ RemoveTask(t)
          /\ pc' = [pc EXCEPT ![t] = "leftover"]
          /\ taken' = [taken EXCEPT ![t] = LeftoverInput]
          /\ killed' = [killed EXCEPT ![t] = TRUE]
          /\ active' = NoActive
          /\ UNCHANGED cancelled
       \/ ~RemoveTask(t) /\ Goto(t, "complete") /\ UNCHANGED active
    /\ UNCHANGED <<spawned, loop, log, ghosts>>

EmitTurnComplete(t) ==
    /\ pc[t] = "complete"
    /\ Emit("Complete", t)
    /\ Goto(t, "notify")
    /\ UNCHANGED <<spawned, active, loop, history, queued, durable, rollout, ghosts>>

NotifyDone(t) ==
    /\ pc[t] = "notify"
    /\ Goto(t, "done")
    /\ UNCHANGED <<spawned, active, loop, log, ghosts>>

\* JoinHandle::abort takes effect at the next await that is not ready: the task
\* is dropped there, with what it holds.  Until then it runs on.
Die(t) ==
    /\ killed[t] /\ Alive(t)
    /\ Proceed(t, "dead", <<>>)
    /\ discarded' = discarded \cup Range(taken[t])
    /\ UNCHANGED <<spawned, active, loop, log, accepted>>

\* An I/O error ends the recorder; what it has not written is lost.
RecorderFails ==
    /\ rollout = "open"
    /\ rollout' = "failed"
    /\ UNCHANGED <<spawned, active, task, loop, history, queued, durable, sent, status, ghosts>>

-----------------------------------------------------------------------------
Abort == \/ TakeAllRunningTasks \/ CancelTask \/ EndGrace
         \/ RecordAbortMarker \/ FlushAbortMarker \/ EmitTurnAborted
LoopStep == Abort \/ SpawnTask \/ RegisterNewActiveTask \/ CompleteShutdown
Submission == \/ \E i \in Inputs : UserInput(i)
              \/ SpawnStandalone \/ Interrupt \/ Shutdown
              \/ \E t \in Turns : NotifyApproval(t)
TaskStep(t) == \/ StartTurn(t) \/ FailBeforePrompt(t)
               \/ RecordTaken(t, "prompt", "persist")
               \/ Materialize(t)
               \/ GetPendingInput(t)
               \/ RecordPolled(t)
               \/ SamplingDone(t) \/ TurnError(t) \/ RequestApproval(t) \/ ApprovalResolved(t)
               \/ StandaloneDone(t) \/ EndRun(t) \/ FinishTask(t)
               \/ RecordTaken(t, "leftover", "complete")
               \/ EmitTurnComplete(t) \/ NotifyDone(t) \/ Die(t)

Next == \/ Submission
        \/ LoopStep
        \/ \E i \in Inputs : SteerInput(i)
        \/ \E t \in Turns : TaskStep(t)
        \/ RecorderFails

Spec == Init /\ [][Next]_vars

\* tokio schedules a runnable task; an abort request is honoured.  Nothing
\* is assumed about the user: no submission and no approval is ever certain.
Fairness == /\ WF_vars(LoopStep)
            /\ \A t \in Turns : WF_vars(TaskStep(t)) /\ WF_vars(Die(t))

FairSpec == Spec /\ Fairness

-----------------------------------------------------------------------------
(* Safety. *)

ActiveOK ==
    active \in [task : Turns \cup {NoTurn}, input : Seq(Inputs), waiting : SUBSET Turns]
TasksOK ==
    /\ pc \in [Turns -> RunningPcs \cup FinalPcs \cup {"unspawned"}]
    /\ taken \in [Turns -> Seq(Inputs)]
    /\ cancelled \in [Turns -> BOOLEAN] /\ killed \in [Turns -> BOOLEAN]
    /\ spawned \in 0..MaxTurn
LoopOK ==
    loop \in [pc : LoopPcs, victim : Turns \cup {NoTurn}, reason : Reasons,
              then : {"idle", "spawn", "shutdown"}, prompt : Seq(Inputs)]
LogOK ==
    /\ history \in Seq(Inputs)
    /\ queued \in SUBSET Turns /\ durable \in SUBSET Turns
    /\ rollout \in {"deferred", "open", "failed", "none"}
    /\ sent \in SUBSET (EventTypes \X Turns)
    /\ status \in {"PendingInit", "Running", "Completed", "Errored", "Shutdown"}
    /\ accepted \in SUBSET Inputs
    /\ discarded \in SUBSET Inputs

\* Every variable keeps its type.
TypeOK == ActiveOK /\ TasksOK /\ LoopOK /\ LogOK

\* A turn whose run() has not returned and that nobody has cancelled.
Running(t) == pc[t] \in RunningPcs /\ ~cancelled[t]

\* "A session has at most 1 running task at a time" (codex.rs:514): every path
\* that spawns first takes what runs, and a straggler's on_task_finished never
\* clears its successor's ActiveTurn.
AtMostOneRunning == \A t, u \in Turns : Running(t) /\ Running(u) => t = u

\* The same promise as a protocol: the session implements SessionSlot, the slot
\* being held from tokio::spawn until the turn is cancelled or leaves its
\* ActiveTurn.
RunningTurn == IF \E t \in Turns : Running(t)
               THEN CHOOSE t \in Turns : Running(t) ELSE NoTurn
Slot == INSTANCE SessionSlot WITH slot <- RunningTurn, begun <- spawned
ImplementsSlot == Slot!Spec

\* Whoever holds active_turn can still be aborted: the early return of
\* handle_task_abort never swallows a TurnAborted, and registering a turn
\* never overwrites another one.
ActiveTurnAbortable ==
    /\ active.task # NoTurn => ~cancelled[active.task]
    /\ At("register") => active.task = NoTurn

\* Where an accepted input may be.
Positions(s, i) == {k \in DOMAIN s : s[k] = i}
PendingAt(i) == {<<"pending", k>> : k \in Positions(active.input, i)}
RecordedAt(i) == {<<"recorded", k>> : k \in Positions(history, i)}
TakenAt(t, i) == {<<"taken", t, k>> : k \in Positions(taken[t], i)}
InTasksAt(i) == UNION {TakenAt(t, i) : t \in Turns}
DroppedAt(i) == {<<"discarded", d>> : d \in discarded \cap {i}}
Places(i) == PendingAt(i) \cup RecordedAt(i) \cup InTasksAt(i) \cup DroppedAt(i)

\* Every accepted input is in exactly one place: waiting in the active turn,
\* in a task's hands, in the history, or dropped: by an abort, by the end of the
\* task that held it, or by a turn that failed before it recorded its prompt.
InputAccountedOnce ==
    \A i \in Inputs :
        IF i \in accepted
        THEN \E p \in Places(i) : Places(i) = {p}
        ELSE Places(i) = {}

\* A client that re-reads a rollout that has its file, and has not failed, finds the
\* <turn_aborted> marker of every turn it was told was interrupted; a marker from
\* before the file existed comes with it, whichever turn creates it.
MarkerInOpenRollout ==
    \A t \in Turns : Emitted("Interrupted", t) /\ rollout = "open" => t \in durable

\* A turn starts only after every turn it replaced has reported TurnAborted.
ReplacedTurnReportedFirst ==
    \A t, u \in Turns :
        t < u /\ pc[u] # "unspawned" /\ cancelled[t] =>
            Emitted("Replaced", t) \/ Emitted("Interrupted", t)

-----------------------------------------------------------------------------
(* Liveness. *)

\* The submission loop is not held up: whatever it started, abort, spawn or
\* shutdown, it comes back for the next operation.  A task that ignores its
\* cancellation delays handle_task_abort by one grace period only.
LoopReturns == ~At("idle") ~> (At("idle") \/ At("stopped"))

\* A cancelled turn is gone in the end, also one that is blocked on an approval:
\* handle_task_abort aborts what did not stop by itself.
CancelledTurnEnds == \A t \in Turns : cancelled[t] ~> Ended(t)

\* active_turn holds a turn that has ended, as happens when the task finishes
\* before register_new_active_task runs.
Stale == active.task # NoTurn /\ Ended(active.task)

\* Input that steer_input accepted reaches the history, or is dropped by an
\* abort; it waits only for a user who owes an approval, or in the ActiveTurn of
\* a turn that ended before it was registered.
AcceptedInputResolved ==
    \A i \in Inputs :
        (i \in accepted)
        ~> \/ i \in Range(history) \/ i \in discarded
           \/ Stale
           \/ \E t \in Turns : pc[t] = "waiting"

-----------------------------------------------------------------------------
(* Statements of the repository that the code does not keep. *)

\* "Ensure the marker is durably visible before emitting TurnAborted"
\* (tasks/mod.rs:306): an interrupt before the first prompt is persisted finds no
\* file, and a flush that fails is not noticed.
MarkerDurableBeforeAborted ==
    \A t \in Turns : Emitted("Interrupted", t) => t \in durable

\* "Emit completion uniformly from spawn site so all tasks share the same
\* lifecycle" (tasks/mod.rs:158): a task nobody cancelled has sent TurnComplete
\* by the time it is gone.
UncancelledTurnCompletes ==
    \A t \in Turns : Ended(t) /\ ~cancelled[t] => Emitted("Complete", t)
=============================================================================
