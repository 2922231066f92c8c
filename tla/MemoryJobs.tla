------------------------------ MODULE MemoryJobs ------------------------------
(***************************************************************************)
(* The memory pipeline of codex-rs: state/src/runtime/memories.rs (the     *)
(* jobs and stage1_outputs tables) and core/src/memories (the passes that  *)
(* use them).                                                              *)
(*                                                                         *)
(* Any number of processes share one SQLite database.  Each runs passes:   *)
(* claim stale threads and extract a memory from each (stage 1), then take *)
(* the global job and consolidate all memories into files (phase 2).  A    *)
(* claim is a lease, so a pass that is slow or gone loses it to another.   *)
(* Each statement or transaction of the database is one action.            *)
(*                                                                         *)
(* Time is not modelled: a lease or a backoff may run out at any moment,   *)
(* the lease of a pass that is still at work a bounded number of times.    *)
(***************************************************************************)
EXTENDS Integers, FiniteSets

CONSTANTS
    Threads,        \* rollouts that stage 1 may extract a memory from
    Passes,         \* concurrent passes of the pipeline, in one process or more
    MaxRunning,     \* max_rollouts_per_startup
    DefaultRetry,   \* DEFAULT_RETRY_REMAINING
    MaxUpdate,      \* bound on threads.updated_at
    MaxFaults,      \* bound on faults: a crash, or a lease that runs out on a pass at work
    NoPass          \* the NULL of ownership_token

ASSUME MemoryAssumption ==
    /\ IsFiniteSet(Threads)
    /\ MaxRunning \in Nat /\ DefaultRetry \in Nat \ {0}
    /\ MaxUpdate \in Nat \ {0} /\ MaxFaults \in Nat
    /\ NoPass \notin Passes

VARIABLES
    updated,    \* threads.updated_at, 0 once the thread is deleted
    outputs,    \* stage1_outputs.source_updated_at, 0 where there is no row
    job,        \* the memory_stage1 row of each thread
    global,     \* the memory_consolidate_global row
    pc,         \* where each pass is
    scan,       \* its remaining candidates: the updated_at it read, or 0
    claims,     \* its stage-1 claims: the source_updated_at it claimed, or 0
    mark,       \* its watermark: as claimed, then as it will complete it
    snap,       \* the outputs it has listed
    drop,       \* whether Op::DropMemories has cleared the tables
    faults,
    merged      \* history variable: the outputs of the last consolidation

vars == <<updated, outputs, job, global, pc, scan, claims, mark, snap, drop, faults, merged>>
tables == <<outputs, job, global>>
locals == <<scan, claims, mark, snap>>

PhaseTwoPcs == {"list", "sync", "agent", "succeed", "fail"}
NoMemories == [t \in Threads |-> 0]

-----------------------------------------------------------------------------
(* A row of jobs.  ownership_token is the pass that claimed the row: a pass    *)
(* claims a row once at most, so a pass that presents its token presents that  *)
(* of its own claim.  A finished row keeps its token, but nothing reads it.    *)
(* NULL watermarks are -1 in stage 1; the global row is inserted with 0.       *)

NoRow(success) == [status |-> "none", token |-> NoPass, leased |-> FALSE, backoff |-> FALSE,
                   retry |-> 0, input |-> success, success |-> success]
Exists(row) == row.status # "none"
Running(row) == row.status = "running"
LeaseValid(row) == Running(row) /\ row.leased
\* Mutant: a report that does not present its ownership token.
OwnedBy_AnyToken(row, p) == Running(row)
OwnedBy(row, p) == Running(row) /\ row.token = p

Claim(row, p) == [row EXCEPT !.status = "running", !.token = p, !.leased = TRUE, !.backoff = FALSE]
Done(row, success) == [row EXCEPT !.status = "done", !.token = NoPass, !.leased = FALSE,
                                  !.success = success]
Failed(row) == [row EXCEPT !.status = "error", !.token = NoPass, !.leased = FALSE, !.backoff = TRUE,
                           !.retry = @ - 1]

Init ==
    /\ updated = [t \in Threads |-> 1]
    /\ outputs = NoMemories
    /\ job = [t \in Threads |-> NoRow(-1)]
    /\ global = NoRow(0)
    /\ pc = [p \in Passes |-> "idle"]
    /\ scan = [p \in Passes |-> NoMemories]
    /\ claims = [p \in Passes |-> NoMemories]
    /\ mark = [p \in Passes |-> 0]
    /\ snap = [p \in Passes |-> NoMemories]
    /\ drop = "never"
    /\ faults = 0
    /\ merged = NoMemories

-----------------------------------------------------------------------------
(* The environment: threads go on, leases and backoffs run out.                *)

ThreadUpdated(t) ==
    /\ updated[t] # 0 /\ updated[t] < MaxUpdate
    /\ updated' = [updated EXCEPT ![t] = @ + 1]
    /\ UNCHANGED <<tables, pc, locals, drop, faults, merged>>

\* delete_thread, for a rollout file that is gone: its output goes with the row
\* (ON DELETE CASCADE), its job stays, and nothing is enqueued.
ThreadDeleted(t) ==
    /\ updated[t] # 0
    /\ updated' = [updated EXCEPT ![t] = 0]
    /\ outputs' = [outputs EXCEPT ![t] = 0]
    /\ UNCHANGED <<job, global, pc, locals, drop, faults, merged>>

\* Whether the pass that claimed the row is still at work on it.
JobHeld(t) == Running(job[t]) /\ claims[job[t].token][t] # 0
GlobalHeld == Running(global) /\ pc[global.token] \in PhaseTwoPcs

\* A lease outlives its pass's work, unless the pass is suspended for so long.
Lapse(held) == IF held THEN faults < MaxFaults /\ faults' = faults + 1 ELSE UNCHANGED faults

JobTimePasses(t) ==
    /\ \/ job[t].leased /\ job' = [job EXCEPT ![t].leased = FALSE] /\ Lapse(JobHeld(t))
       \/ job[t].backoff /\ job' = [job EXCEPT ![t].backoff = FALSE] /\ UNCHANGED faults
    /\ UNCHANGED <<updated, outputs, global, pc, locals, drop, merged>>

GlobalTimePasses ==
    /\ \/ global.leased /\ global' = [global EXCEPT !.leased = FALSE] /\ Lapse(GlobalHeld)
       \/ global.backoff /\ global' = [global EXCEPT !.backoff = FALSE] /\ UNCHANGED faults
    /\ UNCHANGED <<updated, outputs, job, pc, locals, drop, merged>>

-----------------------------------------------------------------------------
(* Stage 1. *)

Goto(p, to) == pc' = [pc EXCEPT ![p] = to]

\* The SELECT of claim_stage1_jobs_for_startup, at the start of a pass.  Which
\* threads are idle and recent enough for it is left open: any may be.
ScanThreads(p) ==
    /\ pc[p] = "idle"
    /\ \E S \in SUBSET {t \in Threads : outputs[t] < updated[t] /\ job[t].success < updated[t]} :
          scan' = [scan EXCEPT ![p] = [t \in Threads |-> IF t \in S THEN updated[t] ELSE 0]]
    /\ Goto(p, "claim")
    /\ UNCHANGED <<updated, tables, claims, mark, snap, drop, faults, merged>>

ClaimedBy(p) == {t \in Threads : claims[p][t] # 0}
OthersRunning(t) == {u \in Threads \ {t} : LeaseValid(job[u])}

\* Mutant: only the outputs are compared, not the success watermark.
UpToDate_OutputsOnly(t, source) == outputs[t] >= source

\* SkippedUpToDate.
UpToDate(t, source) == outputs[t] >= source \/ job[t].success >= source

\* Mutants of Claimable: without the limit of running jobs, without the limit of
\* retries, and with a running row that is never taken over.
Claimable_NoLimit(t, source) ==
    LET row == job[t]  advanced == source > row.input IN
    /\ ~UpToDate(t, source)
    /\ ~LeaseValid(row)
    /\ ~row.backoff \/ advanced
    /\ row.retry > 0 \/ advanced
Claimable_NoRetryLimit(t, source) ==
    LET row == job[t]  advanced == source > row.input IN
    /\ ~UpToDate(t, source)
    /\ Cardinality(OthersRunning(t)) < MaxRunning
    /\ ~LeaseValid(row)
    /\ ~row.backoff \/ advanced
Claimable_NoTakeover(t, source) ==
    LET row == job[t]  advanced == source > row.input IN
    /\ ~UpToDate(t, source)
    /\ Cardinality(OthersRunning(t)) < MaxRunning
    /\ ~Running(row)
    /\ ~row.backoff \/ advanced
    /\ row.retry > 0 \/ advanced

\* The WHERE of the INSERT and the one of its ON CONFLICT DO UPDATE.
Claimable(t, source) ==
    LET row == job[t]  advanced == source > row.input IN
    /\ ~UpToDate(t, source)
    /\ Cardinality(OthersRunning(t)) < MaxRunning
    /\ ~LeaseValid(row)
    /\ ~row.backoff \/ advanced
    /\ row.retry > 0 \/ advanced

\* A later source is a new start: it has all its retries.
ClaimAt(row, p, source) ==
    [Claim(row, p) EXCEPT !.input = source,
                          !.retry = IF source > row.input THEN DefaultRetry ELSE row.retry]

\* The candidates come ordered by updated_at, latest first.
Next1(p, t) == scan[p][t] # 0 /\ \A u \in Threads : scan[p][u] <= scan[p][t]

TryClaimStage1Job(p, t) ==
    /\ pc[p] = "claim" /\ Next1(p, t)
    /\ Cardinality(ClaimedBy(p)) < MaxRunning
    /\ scan' = [scan EXCEPT ![p][t] = 0]
    /\ LET source == scan[p][t] IN
       \/ /\ Claimable(t, source)
          /\ job' = [job EXCEPT ![t] = ClaimAt(@, p, source)]
          /\ claims' = [claims EXCEPT ![p][t] = source]
       \/ ~Claimable(t, source) /\ UNCHANGED <<job, claims>>
    /\ UNCHANGED <<updated, outputs, global, pc, mark, snap, drop, faults, merged>>

\* No candidate is left, or max_claimed is reached.
EndClaiming(p) ==
    /\ pc[p] = "claim"
    /\ scan[p] = NoMemories \/ Cardinality(ClaimedBy(p)) >= MaxRunning
    /\ scan' = [scan EXCEPT ![p] = NoMemories]
    /\ Goto(p, "extract")
    /\ UNCHANGED <<updated, tables, claims, mark, snap, drop, faults, merged>>

\* Mutant: the watermark is the maximum of those enqueued.
Enqueued_Max(row, source) ==
    [row EXCEPT !.status = IF Running(row) THEN "running" ELSE "pending",
                !.backoff = Running(row) /\ row.backoff,
                !.retry = IF row.retry > DefaultRetry THEN row.retry ELSE DefaultRetry,
                !.input = IF source > row.input THEN source ELSE row.input]

\* enqueue_global_consolidation: every enqueue raises the watermark.
Enqueued(row, source) ==
    [row EXCEPT !.status = IF Running(row) THEN "running" ELSE "pending",
                !.backoff = Running(row) /\ row.backoff,
                !.retry = IF row.retry > DefaultRetry THEN row.retry ELSE DefaultRetry,
                !.input = IF source > row.input THEN source ELSE row.input + 1]

\* The end of one extraction: the job leaves the pass, and the row changes if
\* the pass still owns it.
EndJob(p, t) == /\ pc[p] = "extract" /\ claims[p][t] # 0
                /\ claims' = [claims EXCEPT ![p][t] = 0]
                /\ UNCHANGED <<updated, pc, scan, mark, snap, drop, faults, merged>>

\* mark_stage1_job_succeeded: without the thread the output has no foreign key,
\* and the transaction is rolled back.
Stage1Succeeded(p, t) ==
    /\ EndJob(p, t)
    /\ \/ /\ OwnedBy(job[t], p) /\ updated[t] # 0
          /\ job' = [job EXCEPT ![t] = Done(job[t], job[t].input)]
          /\ outputs' = IF claims[p][t] >= outputs[t]
                          THEN [outputs EXCEPT ![t] = claims[p][t]] ELSE outputs
          /\ global' = Enqueued(global, claims[p][t])
       \/ ~(OwnedBy(job[t], p) /\ updated[t] # 0) /\ UNCHANGED tables

\* mark_stage1_job_succeeded_no_output.
Stage1NoOutput(p, t) ==
    /\ EndJob(p, t)
    /\ \/ /\ OwnedBy(job[t], p)
          /\ job' = [job EXCEPT ![t] = Done(job[t], job[t].input)]
          /\ outputs' = [outputs EXCEPT ![t] = 0]
          /\ global' = Enqueued(global, job[t].input)
       \/ ~OwnedBy(job[t], p) /\ UNCHANGED tables

\* mark_stage1_job_failed.
Stage1Failed(p, t) ==
    /\ EndJob(p, t)
    /\ job' = IF OwnedBy(job[t], p) THEN [job EXCEPT ![t] = Failed(job[t])] ELSE job
    /\ UNCHANGED <<outputs, global>>

EndStage1(p) ==
    /\ pc[p] = "extract" /\ claims[p] = NoMemories
    /\ Goto(p, "lock")
    /\ UNCHANGED <<updated, tables, locals, drop, faults, merged>>

-----------------------------------------------------------------------------
(* Phase 2. *)

Dirty == Exists(global) /\ global.input > global.success
\* Mutant: a running row is never taken over.
GlobalClaimable_NoTakeover == Dirty /\ global.retry > 0 /\ ~global.backoff /\ ~Running(global)
GlobalClaimable == Dirty /\ global.retry > 0 /\ ~global.backoff /\ ~LeaseValid(global)

TryClaimGlobalJob(p) ==
    /\ pc[p] = "lock"
    /\ \/ /\ GlobalClaimable
          /\ global' = Claim(global, p)
          /\ mark' = [mark EXCEPT ![p] = global.input]
          /\ Goto(p, "list")
       \/ ~GlobalClaimable /\ Goto(p, "idle") /\ UNCHANGED <<global, mark>>
    /\ UNCHANGED <<updated, outputs, job, scan, claims, snap, drop, faults, merged>>

\* get_watermark: the latest source listed, or what was claimed if that is later.
IsWatermark(w, listed, claimed) ==
    /\ claimed <= w /\ \A t \in Threads : listed[t] <= w
    /\ w = claimed \/ \E t \in Threads : w = listed[t]

\* list_stage1_outputs_for_global, with room for all of them.
ListOutputs(p) ==
    /\ pc[p] = "list"
    /\ snap' = [snap EXCEPT ![p] = outputs]
    /\ \E w \in {mark[p]} \cup {outputs[t] : t \in Threads} :
          /\ IsWatermark(w, outputs, mark[p])
          /\ mark' = [mark EXCEPT ![p] = w]
    /\ Goto(p, "sync")
    /\ UNCHANGED <<updated, tables, scan, claims, drop, faults, merged>>

\* sync_rollout_summaries and rebuild_raw_memories_file; with nothing to
\* consolidate the pass ends here.
SyncFiles(p) ==
    /\ pc[p] = "sync"
    /\ Goto(p, IF snap[p] = NoMemories THEN "succeed" ELSE "agent")
    /\ UNCHANGED <<updated, tables, locals, drop, faults, merged>>

\* No sandbox policy, a failed query, a failed write (of the summaries, or of the
\* file that is built after them), an agent that cannot be spawned or ends in
\* anything but Completed.
PhaseTwoError(p) ==
    /\ pc[p] \in {"list", "sync", "agent"}
    /\ Goto(p, "fail")
    /\ UNCHANGED <<updated, tables, locals, drop, faults, merged>>

\* heartbeat_global_phase2_job, while the agent runs.
Heartbeat(p) ==
    /\ pc[p] = "agent"
    /\ \/ OwnedBy(global, p) /\ global' = [global EXCEPT !.leased = TRUE] /\ UNCHANGED pc
       \/ ~OwnedBy(global, p) /\ Goto(p, "fail") /\ UNCHANGED global
    /\ UNCHANGED <<updated, outputs, job, locals, drop, faults, merged>>

AgentCompleted(p) ==
    /\ pc[p] = "agent"
    /\ Goto(p, "succeed")
    /\ UNCHANGED <<updated, tables, locals, drop, faults, merged>>

\* What a pass leaves behind when it is over.
Forget(p) == /\ Goto(p, "idle")
             /\ mark' = [mark EXCEPT ![p] = 0]
             /\ snap' = [snap EXCEPT ![p] = NoMemories]

\* mark_global_phase2_job_succeeded.
GlobalSucceeded(p) ==
    /\ pc[p] = "succeed" /\ Forget(p)
    /\ \/ /\ OwnedBy(global, p)
          /\ global' = Done(global, IF mark[p] > global.success THEN mark[p] ELSE global.success)
          /\ merged' = snap[p]
       \/ ~OwnedBy(global, p) /\ UNCHANGED <<global, merged>>
    /\ UNCHANGED <<updated, outputs, job, scan, claims, drop, faults>>

\* mark_global_phase2_job_failed, then .._if_unowned if that changed nothing.
GlobalFailed(p) ==
    /\ pc[p] = "fail" /\ Forget(p)
    /\ global' = IF Running(global) /\ global.token \in {p, NoPass} THEN Failed(global) ELSE global
    /\ UNCHANGED <<updated, outputs, job, scan, claims, drop, faults, merged>>

-----------------------------------------------------------------------------
(* Op::DropMemories, and the death of a process. *)

ClearMemoryData ==
    /\ drop = "never"
    /\ drop' = "done"
    /\ outputs' = NoMemories
    /\ job' = [t \in Threads |-> NoRow(-1)]
    /\ global' = NoRow(0)
    /\ merged' = NoMemories
    /\ UNCHANGED <<updated, pc, locals, faults>>

Crash(p) ==
    /\ pc[p] # "idle" /\ faults < MaxFaults
    /\ faults' = faults + 1
    /\ Forget(p)
    /\ scan' = [scan EXCEPT ![p] = NoMemories]
    /\ claims' = [claims EXCEPT ![p] = NoMemories]
    /\ UNCHANGED <<updated, tables, drop, merged>>

-----------------------------------------------------------------------------
EndOfJob(p, t) == Stage1Succeeded(p, t) \/ Stage1NoOutput(p, t) \/ Stage1Failed(p, t)
StageOne(p) == \/ ScanThreads(p) \/ EndClaiming(p) \/ EndStage1(p)
               \/ \E t \in Threads : TryClaimStage1Job(p, t) \/ EndOfJob(p, t)
PhaseTwo(p) == \/ TryClaimGlobalJob(p) \/ ListOutputs(p) \/ SyncFiles(p) \/ PhaseTwoError(p)
               \/ AgentCompleted(p) \/ GlobalSucceeded(p) \/ GlobalFailed(p)
TimePasses == GlobalTimePasses \/ \E t \in Threads : JobTimePasses(t)

Next == \/ \E p \in Passes : StageOne(p) \/ PhaseTwo(p) \/ Heartbeat(p) \/ Crash(p)
        \/ \E t \in Threads : ThreadUpdated(t) \/ ThreadDeleted(t)
        \/ TimePasses \/ ClearMemoryData

Spec == Init /\ [][Next]_vars

\* Passes go on, and new ones start (with every session); time passes.  An agent may
\* take its time, but it ends.  Nothing is assumed of what a scan finds, of failures,
\* drops and new messages.
Fairness == /\ \A p \in Passes : WF_vars(StageOne(p) \/ PhaseTwo(p))
            /\ WF_vars(TimePasses)
FairSpec == Spec /\ Fairness

-----------------------------------------------------------------------------
(* Safety. *)

Row == [status : {"none", "pending", "running", "done", "error"}, token : Passes \cup {NoPass},
        leased : BOOLEAN, backoff : BOOLEAN, retry : 0..DefaultRetry, input : Int, success : Int]
RowOK(row) == row \in Row /\ (Running(row) => row.token \in Passes)

\* Every variable keeps its type; retry_remaining never leaves its range.
TypeOK ==
    /\ updated \in [Threads -> 0..MaxUpdate] /\ outputs \in [Threads -> 0..MaxUpdate]
    /\ job \in [Threads -> Row] /\ (\A t \in Threads : RowOK(job[t])) /\ RowOK(global)
    /\ merged \in [Threads -> 0..MaxUpdate]
    /\ pc \in [Passes -> {"idle", "claim", "extract", "lock"} \cup PhaseTwoPcs]
    /\ scan \in [Passes -> [Threads -> 0..MaxUpdate]]
    /\ claims \in [Passes -> [Threads -> 0..MaxUpdate]]
    /\ mark \in [Passes -> Nat] /\ snap \in [Passes -> [Threads -> 0..MaxUpdate]]
    /\ drop \in {"never", "done"} /\ faults \in 0..MaxFaults

\* "global running job count for memory_stage1 is below max_running_jobs"
\* (memories.rs:226), for the jobs whose lease is valid, whoever claimed them.
RunningWithinLimit == Cardinality({t \in Threads : LeaseValid(job[t])}) <= MaxRunning

\* The two up-to-date tests of try_claim_stage1_job agree: there is no output
\* newer than the success watermark, although a pass that lost its lease may
\* still report what it extracted from an older or newer version.
OutputBelowSuccess == \A t \in Threads : outputs[t] # 0 => outputs[t] <= job[t].success

\* A consolidation that missed a stage-1 result, with an output or without, leaves
\* the global job dirty: what was committed after the outputs were listed, even
\* with an older source_updated_at, is consolidated by a later pass.  (The output
\* that goes with a deleted thread is the exception: nothing is enqueued for it.)
Missed(listed) == \E t \in Threads : updated[t] # 0 /\ outputs[t] # listed[t]
NoLostConsolidation == Missed(merged) => Dirty

\* last_success_watermark of a row never decreases: a straggler's success never
\* takes the row back, and an older scan never claims behind it.
SuccessNeverRegresses ==
    [][/\ \A t \in Threads : Exists(job'[t]) => job'[t].success >= job[t].success
       /\ Exists(global') => global'.success >= global.success]_vars

-----------------------------------------------------------------------------
(* Liveness. *)

\* A thread that scans find again and again gets its memory extracted, or stage 1 has
\* given up on it after DEFAULT_RETRY_REMAINING failures: crashes, lost leases, backoffs
\* or a drop only delay it.  (One that is too old for the scans, or always behind more
\* recent ones, may stay as it is: memories.rs:87-136.)
Stale(t) == updated[t] # 0 /\ updated[t] > job[t].success
GivenUp(row) == Exists(row) /\ row.retry = 0
Found(t) == \E p \in Passes : scan[p][t] # 0
StaleThreadSettles ==
    \A t \in Threads :
        []<>Found(t) => (Stale(t) ~> (~Stale(t) \/ GivenUp(job[t])))

\* A dirty global job is consolidated or given up on.
DirtySettles == Dirty ~> (~Dirty \/ GivenUp(global))
=============================================================================
