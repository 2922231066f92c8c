------------------------------ MODULE ToolGate ------------------------------
(***************************************************************************)
(* The tool calls of one turn: core/src/codex.rs (run_turn and             *)
(* try_run_sampling_request), tools/parallel.rs, tools/registry.rs and     *)
(* tasks/ghost_snapshot.rs, over the turn's tool_call_gate (ReadinessFlag).*)
(*                                                                         *)
(* The turn's task streams a response and spawns each call as a tokio task *)
(* of its own; a call takes the response's RwLock, waits at the gate if    *)
(* its tool is mutating, and runs.  The ghost snapshot holds the gate's    *)
(* only token while a thread of the blocking pool copies the work tree.    *)
(* The user may cancel the turn at any time.                               *)
(***************************************************************************)
EXTENDS ReadinessFlag, Sequences, SequencesExt

CONSTANTS
    MaxCalls,       \* calls in one turn, numbered as the model emits them (bound)
    MaxRequests     \* sampling requests in one turn (bound of the model)

ASSUME BoundsAssumption == MaxCalls \in Nat /\ MaxRequests \in Nat \ {0}

Calls == 1..MaxCalls
Ghost == 0

VARIABLES
    task,       \* run_turn: where it is
    request,    \* number of the sampling request; each has its own RwLock
    inFlight,   \* FuturesOrdered: calls whose output is still to be recorded
    outputs,    \* calls whose output is in the conversation, in recorded order
    cancelled,  \* the turn's CancellationToken, parent of every call's
    ghost,      \* the ghost snapshot's async task
    snapshot,   \* the copy of the work tree, made by a thread of the blocking pool
    call,       \* where each call is
    mutating,   \* ToolHandler::is_mutating of each call
    parallel,   \* tool_supports_parallel of each call
    origin,     \* the request each call came with, 0 before that
    dropped     \* calls whose AbortOnDropHandle was dropped before they were drained

turn == <<task, request, inFlight, outputs, cancelled>>
snap == <<ghost, snapshot>>
calls == <<call, mutating, parallel, origin, dropped>>
vars == <<flag, turn, snap, calls>>

-----------------------------------------------------------------------------
(* Data. *)

GatePcs == {"load", "try", "swap", "send", "reload", "listen", "waiting"}
EndPcs == {"answered", "fatal", "gone"}
CallPcs == {"unsent", "lock", "running"} \cup GatePcs \cup EndPcs

\* Points at which a call is suspended, so that its token or an abort can end it.
AwaitPcs == {"lock", "waiting", "running"}

Sent(c) == call[c] # "unsent"
Ended(c) == call[c] \in EndPcs
TurnOver == task \in {"ended", "dead"}

\* The guard of parallel_execution is held from its acquisition until the call ends.
HoldsGuard(c) == call[c] \in GatePcs \cup {"running"}
GuardFree(c) ==
    \A d \in Calls \ {c} :
        origin[d] = origin[c] /\ HoldsGuard(d) => parallel[c] /\ parallel[d]

Goto(c, pc) ==
    /\ call' = [call EXCEPT ![c] = pc]
    /\ UNCHANGED <<mutating, parallel, origin, dropped>>

Init ==
    /\ FlagInit
    /\ task = "snapshot"
    /\ request = 1
    /\ inFlight = <<>>
    /\ outputs = <<>>
    /\ cancelled = FALSE
    /\ ghost = "off"
    /\ snapshot = "none"
    /\ call = [c \in Calls |-> "unsent"]
    /\ mutating = [c \in Calls |-> FALSE]
    /\ parallel = [c \in Calls |-> FALSE]
    /\ origin = [c \in Calls |-> 0]
    /\ dropped = {}

-----------------------------------------------------------------------------
(* The turn's task. *)

\* maybe_start_ghost_snapshot, without the feature and with it: the token is taken
\* before the first request, and the snapshot is a task of its own.
SkipSnapshot ==
    /\ task = "snapshot"
    /\ task' = "stream"
    /\ UNCHANGED <<flag, request, inFlight, outputs, cancelled, snap, calls>>

StartSnapshot ==
    /\ task = "snapshot"
    /\ AddToken(Ghost)
    /\ task' = "stream"
    /\ ghost' = "work"
    /\ snapshot' = "writing"
    /\ UNCHANGED <<request, inFlight, outputs, cancelled, calls>>

\* ResponseEvent::OutputItemDone with a tool call: it is recorded, and spawned.
EmitCall(c) ==
    /\ task = "stream"
    /\ ~Sent(c)
    /\ \A d \in Calls : d < c => Sent(d)
    /\ call' = [call EXCEPT ![c] = "lock"]
    /\ \E m, p \in BOOLEAN : /\ mutating' = [mutating EXCEPT ![c] = m]
                             /\ parallel' = [parallel EXCEPT ![c] = p]
    /\ origin' = [origin EXCEPT ![c] = request]
    /\ inFlight' = Append(inFlight, c)
    /\ UNCHANGED <<flag, task, request, outputs, cancelled, snap, dropped>>

\* Mutant: the next request is sent without waiting for the calls of this one.
StreamCompleted_NoDrain ==
    /\ task = "stream"
    /\ \/ task' = "drain" /\ UNCHANGED request
       \/ request < MaxRequests /\ request' = request + 1 /\ UNCHANGED task
    /\ UNCHANGED <<flag, inFlight, outputs, cancelled, snap, calls>>

\* The stream ends well, or is given up because the turn is cancelled; either way
\* what is in flight is drained.
StreamCompleted ==
    /\ task = "stream"
    /\ task' = "drain"
    /\ UNCHANGED <<flag, request, inFlight, outputs, cancelled, snap, calls>>

StreamCancelled ==
    /\ task = "stream"
    /\ cancelled
    /\ task' = "lastDrain"
    /\ UNCHANGED <<flag, request, inFlight, outputs, cancelled, snap, calls>>

\* Dropping FuturesOrdered aborts the calls that have not ended, and loses the outputs
\* of those that have.
DropInFlight ==
    /\ inFlight' = <<>>
    /\ dropped' = dropped \cup ToSet(inFlight)
    /\ UNCHANGED <<call, mutating, parallel, origin>>

\* An error leaves try_run_sampling_request without draining.  run_sampling_request
\* retries, or the turn ends.
StreamFailed ==
    /\ task = "stream"
    /\ DropInFlight
    /\ \/ request < MaxRequests /\ request' = request + 1 /\ UNCHANGED task
       \/ task' = "ended" /\ UNCHANGED request
    /\ UNCHANGED <<flag, outputs, cancelled, snap>>

\* Mutant: FuturesUnordered, outputs are recorded as they come.
DrainOne_Unordered ==
    /\ task \in {"drain", "lastDrain"}
    /\ \E c \in ToSet(inFlight) :
          /\ Ended(c)
          /\ inFlight' = Remove(inFlight, c)
          /\ outputs' = IF call[c] = "answered" THEN Append(outputs, c) ELSE outputs
    /\ UNCHANGED <<flag, task, request, cancelled, snap, calls>>

\* drain_in_flight: outputs are recorded in the order of the calls; a call that
\* failed fatally has none.
DrainOne ==
    /\ task \in {"drain", "lastDrain"}
    /\ inFlight # <<>>
    /\ Ended(Head(inFlight))
    /\ inFlight' = Tail(inFlight)
    /\ outputs' = IF call[Head(inFlight)] = "answered" THEN Append(outputs, Head(inFlight))
                  ELSE outputs
    /\ UNCHANGED <<flag, task, request, cancelled, snap, calls>>

\* The turn goes on with another request, or ends.
DrainDone ==
    /\ task \in {"drain", "lastDrain"}
    /\ inFlight = <<>>
    /\ \/ /\ task = "drain"
          /\ request < MaxRequests
          /\ task' = "stream"
          /\ request' = request + 1
       \/ task' = "ended" /\ UNCHANGED request
    /\ UNCHANGED <<flag, inFlight, outputs, cancelled, snap, calls>>

\* abort_all_tasks: the token is cancelled; when the grace period is over the task
\* is aborted at an await.
Cancel ==
    /\ ~cancelled
    /\ ~TurnOver
    /\ cancelled' = TRUE
    /\ UNCHANGED <<flag, task, request, inFlight, outputs, snap, calls>>

Kill ==
    /\ cancelled
    /\ ~TurnOver
    /\ task' = "dead"
    /\ DropInFlight
    /\ UNCHANGED <<flag, request, outputs, cancelled, snap>>

-----------------------------------------------------------------------------
(* A call: ToolCallRuntime::handle_tool_call, ToolRegistry::dispatch. *)

AcquireGuard(c) ==
    /\ call[c] = "lock"
    /\ GuardFree(c)
    /\ Goto(c, IF mutating[c] THEN "load" ELSE "running")
    /\ UNCHANGED <<flag, turn, snap>>

\* wait_ready: is_ready first.
LoadReady(c) ==
    /\ call[c] = "load"
    /\ Goto(c, IF ready THEN "running" ELSE "try")
    /\ UNCHANGED <<flag, turn, snap>>

\* Mutant: whoever gets the lock makes the flag ready.
TryLock_IgnoreTokens(c) ==
    /\ call[c] = "try"
    /\ \/ lock = NoOne /\ HoldLock(c) /\ Goto(c, "swap")
       \/ lock # NoOne /\ UNCHANGED flag /\ Goto(c, "reload")
    /\ UNCHANGED <<turn, snap>>

TryLock(c) ==
    /\ call[c] = "try"
    /\ \/ NoTokens /\ HoldLock(c) /\ Goto(c, "swap")
       \/ ~NoTokens /\ UNCHANGED flag /\ Goto(c, "reload")
    /\ UNCHANGED <<turn, snap>>

Swap(c) ==
    /\ call[c] = "swap"
    /\ SwapReady(c)
    /\ Goto(c, IF ready THEN "running" ELSE "send")
    /\ UNCHANGED <<turn, snap>>

SendReady(c) ==
    /\ call[c] = "send"
    /\ Broadcast
    /\ Goto(c, "running")
    /\ UNCHANGED <<turn, snap>>

ReloadReady(c) ==
    /\ call[c] = "reload"
    /\ Goto(c, IF ready THEN "running" ELSE "listen")
    /\ UNCHANGED <<flag, turn, snap>>

\* tx.subscribe() and the fast-path borrow.
SubscribeWatch(c) ==
    /\ call[c] = "listen"
    /\ IF watch THEN UNCHANGED flag /\ Goto(c, "running")
                ELSE Listen(c) /\ Goto(c, "waiting")
    /\ UNCHANGED <<turn, snap>>

\* rx.changed() returns once a value was stored.
Wake(c) ==
    /\ call[c] = "waiting"
    /\ watch
    /\ StopListening(c)
    /\ Goto(c, "running")
    /\ UNCHANGED <<turn, snap>>

\* The handler returns: an output, an error for the model, or a fatal error.
Finish(c) ==
    /\ call[c] = "running"
    /\ \E result \in {"answered", "fatal"} : Goto(c, result)
    /\ UNCHANGED <<flag, turn, snap>>

\* tokio::select! takes the cancelled branch: aborted_response is the call's output.
CancelCall(c) ==
    /\ cancelled
    /\ call[c] \in AwaitPcs
    /\ StopListening(c)
    /\ Goto(c, "answered")
    /\ UNCHANGED <<turn, snap>>

\* Mutant: a plain JoinHandle, which detaches: a call at the gate goes on waiting.
DropCall_Detached(c) ==
    /\ c \in dropped
    /\ call[c] = "lock"
    /\ StopListening(c)
    /\ Goto(c, "gone")
    /\ UNCHANGED <<turn, snap>>

\* The abort of a dropped handle.
DropCall(c) ==
    /\ c \in dropped
    /\ call[c] \in AwaitPcs
    /\ StopListening(c)
    /\ Goto(c, "gone")
    /\ UNCHANGED <<turn, snap>>

-----------------------------------------------------------------------------
(* The ghost snapshot. *)

\* The blocking thread; nothing stops it.
SnapshotWritten ==
    /\ snapshot = "writing"
    /\ snapshot' = "written"
    /\ UNCHANGED <<flag, turn, calls, ghost>>

\* Mutant: a cancelled task returns without marking the gate.
EndWork_ReturnOnCancel ==
    /\ ghost = "work"
    /\ snapshot = "written" \/ cancelled
    /\ ghost' = IF cancelled THEN "done" ELSE "mark"
    /\ UNCHANGED <<flag, turn, calls, snapshot>>

\* The async task waits for the thread, or for the cancellation.
EndWork ==
    /\ ghost = "work"
    /\ snapshot = "written" \/ cancelled
    /\ ghost' = "mark"
    /\ UNCHANGED <<flag, turn, calls, snapshot>>

MarkReady ==
    /\ ghost = "mark"
    /\ lock = NoOne
    /\ IF Authorized(Ghost) THEN OpenWithToken(Ghost) /\ ghost' = "send"
                            ELSE UNCHANGED flag /\ ghost' = "done"
    /\ UNCHANGED <<turn, calls, snapshot>>

BroadcastReady ==
    /\ ghost = "send"
    /\ Broadcast
    /\ ghost' = "done"
    /\ UNCHANGED <<turn, calls, snapshot>>

-----------------------------------------------------------------------------

\* What a call does without its handler: the scheduler runs it.
CallStep(c) ==
    \/ AcquireGuard(c) \/ LoadReady(c) \/ TryLock(c) \/ Swap(c) \/ SendReady(c)
    \/ ReloadReady(c) \/ SubscribeWatch(c) \/ Wake(c) \/ CancelCall(c) \/ DropCall(c)

GhostStep == EndWork \/ MarkReady \/ BroadcastReady

Next ==
    \/ SkipSnapshot \/ StartSnapshot
    \/ \E c \in Calls : EmitCall(c) \/ CallStep(c) \/ Finish(c)
    \/ StreamCompleted \/ StreamCancelled \/ StreamFailed
    \/ DrainOne \/ DrainDone \/ Cancel \/ Kill
    \/ SnapshotWritten \/ GhostStep

Spec == Init /\ [][Next]_vars

\* Nothing is assumed of the model's stream, of the user or of a handler.
Fairness ==
    /\ \A c \in Calls : WF_vars(CallStep(c))
    /\ WF_vars(GhostStep)
    /\ WF_vars(SnapshotWritten)
    /\ WF_vars(Kill)

FairSpec == Spec /\ Fairness
-----------------------------------------------------------------------------
(* Properties. *)

TypeOK ==
    /\ ready \in BOOLEAN
    /\ tokens \subseteq {Ghost}
    /\ lock \in Calls \cup {NoOne}
    /\ watch \in BOOLEAN
    /\ receivers \subseteq Calls
    /\ task \in {"snapshot", "stream", "drain", "lastDrain", "ended", "dead"}
    /\ request \in 1..MaxRequests
    /\ inFlight \in Seq(Calls)
    /\ outputs \in Seq(Calls)
    /\ cancelled \in BOOLEAN
    /\ ghost \in {"off", "work", "mark", "send", "done"}
    /\ snapshot \in {"none", "writing", "written"}
    /\ call \in [Calls -> CallPcs]
    /\ mutating \in [Calls -> BOOLEAN]
    /\ parallel \in [Calls -> BOOLEAN]
    /\ origin \in [Calls -> 0..MaxRequests]
    /\ dropped \subseteq Calls

\* While the work tree is copied no mutating tool runs, unless the turn has been
\* cancelled: is_ready makes the flag ready only when no token is out, the token is
\* taken before the first call, and given back after the copy (tasks/ghost_snapshot.rs,
\* tools/registry.rs:152).  After a cancellation the copy goes on, and a call whose
\* select! has not seen the token yet may pass the gate.
SnapshotPrecedesMutation ==
    \A c \in Calls :
        call[c] = "running" /\ mutating[c] /\ snapshot = "writing" => cancelled

\* A tool without parallel support runs alone (tools/parallel.rs:84).  The lock is one
\* per request, so this rests on drain_in_flight ending every call of a request
\* before the next one is sent; only a call that is being aborted may overlap.
SerialAlone ==
    \A c, d \in Calls :
        /\ c # d
        /\ call[c] = "running" /\ call[d] = "running"
        /\ ~parallel[c]
        => c \in dropped \/ d \in dropped

\* Outputs are recorded once each, in the order of their calls, also those of a turn
\* that is cancelled; an output is lost only with a request that failed or a task that
\* was aborted (codex.rs:5445 and 5734).
AnswersRecorded ==
    /\ \A i, j \in 1..Len(outputs) : i < j => outputs[i] < outputs[j]
    /\ \A c \in Calls :
          call[c] = "answered" => c \in ToSet(inFlight) \cup ToSet(outputs) \cup dropped
    /\ TurnOver => inFlight = <<>>

\* Whatever a call waits for, the lock, the gate or its handler, it ends once its turn is
\* cancelled or its request has failed (tools/parallel.rs:78 and 72).
CallsEnd ==
    \A c \in Calls :
        (Sent(c) /\ cancelled) \/ c \in dropped ~> Ended(c)

\* The gate opens although the snapshot fails, is cancelled or outlives its turn: the
\* token is handed back on every path (tasks/ghost_snapshot.rs:149).
GateOpens == (ghost = "work") ~> ready

\* utils/readiness/src/lib.rs:39 on wait_ready: "Asynchronously wait until the flag
\* becomes ready."  A waiter that subscribes to the channel between the store of the
\* flag and the end of a broadcast that found no receiver waits on.
WaitersReleased ==
    \A c \in Calls : (call[c] = "waiting" /\ ready) ~> (call[c] # "waiting")
=============================================================================
