--------------------------- MODULE MemoryJobsProofs ---------------------------
(***************************************************************************)
(* Proofs about MemoryJobs, for every set of threads and passes, however   *)
(* finite, and every bound: type correctness, OutputBelowSuccess,          *)
(* NoLostConsolidation, SuccessNeverRegresses and RunningWithinLimit.      *)
(***************************************************************************)
EXTENDS MemoryJobs, FiniteSetTheorems, TLAPS

\* A running row has work to do and an attempt left: that is when it is claimed.
HasWork(row) == Running(row) => row.success < row.input /\ row.retry > 0
JobInv == \A t \in Threads : HasWork(job[t])

\* The owner of a running stage-1 row works on the row's input watermark.
ClaimInv == \A p \in Passes : \A t \in Threads :
    claims[p][t] # 0 /\ OwnedBy(job[t], p) => job[t].input = claims[p][t]

\* The global watermark is ahead of its success and of every output.
GlobalInv ==
    /\ 0 <= global.success /\ global.success <= global.input /\ HasWork(global)
    /\ \A t \in Threads : outputs[t] <= global.input

\* The owner of the global row has not read ahead of the row, and the row is
\* ahead of its watermark as soon as the outputs it has listed have changed.
PassInv == \A p \in Passes : OwnedBy(global, p) =>
    /\ pc[p] \in {"list", "sync", "agent", "succeed"} => mark[p] <= global.input
    /\ pc[p] \in {"sync", "agent", "succeed"} /\ Missed(snap[p]) => mark[p] < global.input

IInv == /\ TypeOK /\ JobInv /\ ClaimInv /\ GlobalInv /\ PassInv
        /\ OutputBelowSuccess /\ NoLostConsolidation

-----------------------------------------------------------------------------
(* Rows. *)

USE MemoryAssumption

\* A row that is claimed.
LEMMA ClaimRow ==
  ASSUME NEW row \in Row, NEW p \in Passes
  PROVE /\ RowOK(Claim(row, p)) /\ Running(Claim(row, p)) /\ Claim(row, p).token = p
        /\ Claim(row, p).input = row.input /\ Claim(row, p).success = row.success
        /\ Claim(row, p).retry = row.retry /\ Claim(row, p).leased
BY DEF Row, RowOK, Running, Claim

\* A stage-1 row that is claimed: with the claim's watermark, and a retry left.
LEMMA ClaimStage1Row ==
  ASSUME NEW row \in Row, NEW p \in Passes, NEW source \in Int, row.retry > 0 \/ source > row.input
  PROVE LET new == ClaimAt(row, p, source) IN
        /\ RowOK(new) /\ Running(new) /\ new.token = p /\ new.leased
        /\ new.input = source /\ new.success = row.success /\ new.retry > 0
<1> DEFINE c == Claim(row, p)
           retry == IF source > row.input THEN DefaultRetry ELSE row.retry
           new == ClaimAt(row, p, source)
<1>1. c \in Row /\ c.status = "running" /\ c.token = p /\ c.leased /\ c.success = row.success
  BY ClaimRow DEF RowOK, Running
<1>2. new = [c EXCEPT !.input = source, !.retry = retry]
  BY DEF ClaimAt
<1>3. retry \in 0..DefaultRetry /\ retry > 0
  BY DEF Row
<1> HIDE DEF c, retry, new
<1>4. new \in Row
  <2>1. [c EXCEPT !.input = source] \in Row
    BY <1>1 DEF Row
  <2>2. new = [[c EXCEPT !.input = source] EXCEPT !.retry = retry]
    BY <1>2
  <2> QED BY <1>3, <2>1, <2>2 DEF Row
<1>5. /\ new.status = "running" /\ new.token = p /\ new.leased
      /\ new.input = source /\ new.success = row.success /\ new.retry = retry
  BY <1>1, <1>2 DEF Row
<1>6. RowOK(new) /\ Running(new)
  BY <1>4, <1>5 DEF RowOK, Running
<1> QED BY <1>3, <1>5, <1>6 DEF new

\* A row that is done.
LEMMA DoneRow ==
  ASSUME NEW row \in Row, NEW success \in Int
  PROVE /\ RowOK(Done(row, success)) /\ ~Running(Done(row, success)) /\ Exists(Done(row, success))
        /\ Done(row, success).input = row.input /\ Done(row, success).success = success
<1>1. Done(row, success) \in Row
  BY DEF Row, Done
<1>2. Done(row, success).status = "done"
  BY DEF Row, Done
<1>3. Done(row, success).input = row.input /\ Done(row, success).success = success
  BY DEF Row, Done
<1> QED BY <1>1, <1>2, <1>3 DEF RowOK, Running, Exists

\* A row that has failed: it was running, so an attempt was left.
LEMMA FailedRow ==
  ASSUME NEW row \in Row, Running(row), HasWork(row)
  PROVE /\ RowOK(Failed(row)) /\ ~Running(Failed(row)) /\ Exists(Failed(row))
        /\ Failed(row).input = row.input /\ Failed(row).success = row.success
<1>1. row.retry - 1 \in 0..DefaultRetry
  BY DEF Row, HasWork
<1>2. Failed(row) \in Row
  BY <1>1 DEF Row, Failed
<1>3. Failed(row).status = "error"
  BY DEF Row, Failed
<1>4. Failed(row).input = row.input /\ Failed(row).success = row.success
  BY DEF Row, Failed
<1> QED BY <1>2, <1>3, <1>4 DEF RowOK, Running, Exists

\* The global row after an enqueue: its watermark has moved, past the source.
LEMMA EnqueuedRow ==
  ASSUME NEW row, RowOK(row), NEW source \in Int
  PROVE LET new == Enqueued(row, source) IN
        /\ RowOK(new) /\ Exists(new) /\ new.token = row.token /\ new.success = row.success
        /\ Running(new) <=> Running(row)
        /\ new.input > row.input /\ new.input >= source /\ new.retry > 0
<1> DEFINE status == IF Running(row) THEN "running" ELSE "pending"
           backoff == Running(row) /\ row.backoff
           retry == IF row.retry > DefaultRetry THEN row.retry ELSE DefaultRetry
           input == IF source > row.input THEN source ELSE row.input + 1
           new == Enqueued(row, source)
<1>1. /\ status \in {"running", "pending"} /\ (status = "running" <=> Running(row))
      /\ backoff \in BOOLEAN /\ retry \in 0..DefaultRetry /\ retry > 0
      /\ input \in Int /\ input > row.input /\ input >= source
  BY DEF Row, RowOK
<1>2. new = [row EXCEPT !.status = status, !.backoff = backoff, !.retry = retry, !.input = input]
  BY DEF Enqueued
<1> HIDE DEF status, backoff, retry, input, new
<1>3. new \in Row
  BY <1>1, <1>2 DEF Row, RowOK
<1>4. /\ new.status = status /\ new.token = row.token /\ new.success = row.success
      /\ new.input = input /\ new.retry = retry
  BY <1>1, <1>2 DEF Row, RowOK
<1>5. RowOK(new) /\ Exists(new) /\ (Running(new) <=> Running(row))
  BY <1>1, <1>3, <1>4 DEF RowOK, Running, Exists
<1>6. /\ new.input > row.input /\ new.input >= source /\ new.retry > 0
  BY <1>1, <1>4
<1> QED BY <1>4, <1>5, <1>6 DEF new

\* A lease or a backoff that runs out changes nothing else of a row.
LEMMA TimeRow ==
  ASSUME NEW row, RowOK(row),
         NEW new, \/ new = [row EXCEPT !.leased = FALSE] \/ new = [row EXCEPT !.leased = TRUE]
                  \/ new = [row EXCEPT !.backoff = FALSE]
  PROVE /\ RowOK(new) /\ new.status = row.status /\ new.token = row.token
        /\ new.input = row.input /\ new.success = row.success /\ new.retry = row.retry
BY DEF Row, RowOK, Running

\* The row that is not there.
LEMMA NoRowOK ==
  ASSUME NEW n \in Int
  PROVE /\ RowOK(NoRow(n)) /\ ~Running(NoRow(n)) /\ ~Exists(NoRow(n))
        /\ NoRow(n).input = n /\ NoRow(n).success = n
BY DEF NoRow, Row, RowOK, Running, Exists

-----------------------------------------------------------------------------
(* The steps that leave the rows of jobs alone. *)

\* No memories, as a value of the type of outputs.
LEMMA Empty == NoMemories \in [Threads -> 0..MaxUpdate] /\ \A t \in Threads : NoMemories[t] = 0
BY DEF NoMemories

\* The initial states satisfy the invariant.
LEMMA InitInv == Init => IInv
<1> SUFFICES ASSUME Init PROVE IInv
  OBVIOUS
<1>1. /\ RowOK(NoRow(-1)) /\ ~Running(NoRow(-1)) /\ RowOK(NoRow(0)) /\ ~Running(NoRow(0))
      /\ NoRow(0).input = 0 /\ NoRow(0).success = 0
  BY NoRowOK
<1>2. TypeOK
  BY <1>1 DEF Init, TypeOK, NoMemories, RowOK
<1>3. JobInv /\ ClaimInv /\ PassInv
  BY <1>1 DEF Init, JobInv, HasWork, ClaimInv, PassInv, OwnedBy
<1>4. GlobalInv /\ OutputBelowSuccess /\ NoLostConsolidation
  BY <1>1 DEF Init, GlobalInv, HasWork, OutputBelowSuccess, NoLostConsolidation, Missed, NoMemories
<1> QED BY <1>2, <1>3, <1>4 DEF IInv

\* Outputs change with their threads only.
OutputsStay == \A t \in Threads : updated'[t] # 0 => updated[t] # 0 /\ outputs'[t] = outputs[t]

\* A pass that is not ahead of the global row stays so when it goes on, or gives up.
LEMMA PassGoesOn ==
  ASSUME PassInv, OutputsStay, UNCHANGED global,
         \A p \in Passes :
            /\ pc'[p] \in {"list", "sync", "agent", "succeed"}
                 => pc[p] \in {"list", "sync", "agent", "succeed"} /\ mark'[p] = mark[p]
            /\ pc'[p] \in {"sync", "agent", "succeed"}
                 => pc[p] \in {"sync", "agent", "succeed"} /\ snap'[p] = snap[p]
  PROVE PassInv'
<1>1. \A p \in Passes : snap'[p] = snap[p] /\ Missed(snap[p])' => Missed(snap[p])
  BY DEF Missed, OutputsStay
<1> QED BY <1>1 DEF PassInv, OwnedBy, Running, Missed

\* With the tables as they were, the passes may forget their claims.
LEMMA TablesUnchanged ==
  ASSUME IInv, TypeOK', PassInv', OutputsStay, UNCHANGED <<tables, merged>>,
         \A p \in Passes, t \in Threads : claims'[p][t] \in {0, claims[p][t]}
  PROVE IInv'
<1> USE DEF tables
<1>0. Missed(merged)' => Missed(merged)
  BY DEF OutputsStay, Missed
<1>1. JobInv' /\ GlobalInv' /\ OutputBelowSuccess' /\ NoLostConsolidation'
  BY <1>0 DEF IInv, JobInv, GlobalInv, HasWork, Running, OutputBelowSuccess, NoLostConsolidation,
              Dirty, Exists
<1>2. ClaimInv'
  BY DEF IInv, ClaimInv, OwnedBy, Running
<1> QED BY <1>1, <1>2 DEF IInv

\* Steps that move a pass, and its locals, only.
LocalStep(p) ==
    \/ ScanThreads(p) \/ EndClaiming(p) \/ EndStage1(p) \/ ListOutputs(p) \/ SyncFiles(p)
    \/ PhaseTwoError(p) \/ AgentCompleted(p) \/ Crash(p)

LEMMA LocalStepInv ==
  ASSUME IInv, NEW p \in Passes, LocalStep(p)
  PROVE IInv' /\ UNCHANGED tables
<1> USE DEF Goto, Forget, locals, PhaseTwoPcs
<1>1. UNCHANGED <<tables, merged, updated>> /\ \A q \in Passes, t \in Threads : claims'[q][t] \in {0, claims[q][t]}
  <2>1. CASE Crash(p)
    BY <2>1, Empty DEF Crash, tables, IInv, TypeOK
  <2>2. ~Crash(p) => UNCHANGED <<tables, merged, claims, updated>>
    BY DEF LocalStep, ScanThreads, EndClaiming, EndStage1, ListOutputs, SyncFiles, PhaseTwoError,
           AgentCompleted, tables
  <2> QED BY <2>1, <2>2 DEF tables
<1>2. TypeOK' /\ PassInv'
  <2> USE DEF IInv
  <2>1. CASE ScanThreads(p)
    <3>1. TypeOK'
      BY <2>1 DEF ScanThreads, TypeOK, tables
    <3>2. PassInv'
      BY <2>1, PassGoesOn DEF OutputsStay, ScanThreads, TypeOK, tables
    <3> QED BY <3>1, <3>2
  <2>2. CASE EndClaiming(p) \/ EndStage1(p)
    <3>1. TypeOK'
      <4>1. CASE EndClaiming(p)
        BY <4>1, Empty DEF EndClaiming, TypeOK, tables
      <4>2. CASE EndStage1(p)
        BY <4>2 DEF EndStage1, TypeOK, tables
      <4> QED BY <2>2, <4>1, <4>2
    <3>2. PassInv'
      BY <2>2, PassGoesOn DEF OutputsStay, EndClaiming, EndStage1, TypeOK, tables
    <3> QED BY <3>1, <3>2
  <2>3. CASE ListOutputs(p)
    <3>1. mark' \in [Passes -> Nat] /\ \A q \in Passes : q # p => mark'[q] = mark[q]
      BY <2>3 DEF ListOutputs, TypeOK
    <3>2. TypeOK'
      BY <2>3, <3>1 DEF ListOutputs, TypeOK, tables
    <3>3. OwnedBy(global, p) => mark'[p] <= global.input
      BY <2>3 DEF ListOutputs, PassInv, GlobalInv, TypeOK
    <3>4. \A q \in Passes : q # p => pc'[q] = pc[q] /\ snap'[q] = snap[q]
      BY <2>3 DEF ListOutputs, TypeOK
    <3>5. UNCHANGED <<updated, outputs, global>> /\ snap'[p] = outputs /\ ~Missed(snap[p])'
      BY <2>3 DEF ListOutputs, TypeOK, tables, Missed
    <3>6. PassInv'
      BY <3>1, <3>3, <3>4, <3>5 DEF PassInv, OwnedBy, Running, Missed
    <3> QED BY <3>2, <3>6
  <2>4. CASE SyncFiles(p) \/ PhaseTwoError(p) \/ AgentCompleted(p)
    <3>1. TypeOK'
      <4>1. CASE SyncFiles(p)
        <5>1. pc' \in [Passes -> {"idle", "claim", "extract", "lock"} \cup PhaseTwoPcs]
          BY <4>1 DEF SyncFiles, TypeOK
        <5> QED BY <4>1, <5>1 DEF SyncFiles, TypeOK, tables
      <4>2. CASE PhaseTwoError(p)
        BY <4>2 DEF PhaseTwoError, TypeOK, tables
      <4>3. CASE AgentCompleted(p)
        BY <4>3 DEF AgentCompleted, TypeOK, tables
      <4> QED BY <2>4, <4>1, <4>2, <4>3
    <3>2. PassInv'
      BY <2>4, PassGoesOn DEF OutputsStay, SyncFiles, PhaseTwoError, AgentCompleted, TypeOK, tables
    <3> QED BY <3>1, <3>2
  <2>5. CASE Crash(p)
    <3>1. TypeOK'
      BY <2>5, Empty DEF Crash, TypeOK, tables
    <3>2. PassInv'
      BY <2>5, PassGoesOn DEF OutputsStay, Crash, TypeOK, tables
    <3> QED BY <3>1, <3>2
  <2> QED BY <2>1, <2>2, <2>3, <2>4, <2>5 DEF LocalStep
<1> QED BY <1>1, <1>2, TablesUnchanged DEF OutputsStay, tables

\* Threads that go on.
LEMMA EnvironmentInv ==
  ASSUME IInv, \E t \in Threads : ThreadUpdated(t)
  PROVE IInv' /\ UNCHANGED tables
<1> USE DEF locals, ThreadUpdated
<1>1. UNCHANGED <<tables, merged, claims, pc, mark, snap>>
  OBVIOUS
<1>0. OutputsStay
  BY DEF OutputsStay, IInv, TypeOK, tables
<1>2. TypeOK'
  BY DEF IInv, TypeOK, tables
<1>3. PassInv'
  BY <1>0, <1>1, PassGoesOn DEF IInv, tables
<1> QED BY <1>0, <1>1, <1>2, <1>3, TablesUnchanged

\* A thread that is deleted takes its output with it.
LEMMA ThreadDeletedInv ==
  ASSUME IInv, NEW t \in Threads, ThreadDeleted(t)
  PROVE IInv' /\ UNCHANGED <<job, global>>
<1> USE DEF IInv
<1>1. /\ UNCHANGED <<job, global, pc, scan, claims, mark, snap, drop, faults, merged>>
      /\ updated' \in [Threads -> 0..MaxUpdate] /\ outputs' \in [Threads -> 0..MaxUpdate]
      /\ outputs'[t] = 0 /\ \A u \in Threads \ {t} : outputs'[u] = outputs[u]
  BY DEF ThreadDeleted, locals, TypeOK
<1>2. OutputsStay
  BY DEF OutputsStay, ThreadDeleted, TypeOK
<1>3. TypeOK'
  BY <1>1 DEF TypeOK
<1>4. JobInv' /\ ClaimInv' /\ OutputBelowSuccess'
  BY <1>1 DEF JobInv, HasWork, Running, ClaimInv, OwnedBy, OutputBelowSuccess
<1>5. PassInv'
  BY <1>1, <1>2, PassGoesOn
<1>6. Missed(merged)' => Missed(merged)
  BY <1>1, <1>2 DEF Missed, OutputsStay
<1>7. NoLostConsolidation'
  BY <1>1, <1>6 DEF NoLostConsolidation, Dirty, Exists
<1>8. GlobalInv'
  <2>0. global.input >= 0
    BY DEF GlobalInv, TypeOK, RowOK, Row
  <2>1. \A u \in Threads : outputs'[u] <= global.input
    BY <1>1, <2>0 DEF GlobalInv
  <2> QED BY <1>1, <2>1 DEF GlobalInv, HasWork, Running
<1> QED BY <1>1, <1>3, <1>4, <1>5, <1>7, <1>8

-----------------------------------------------------------------------------
(* The steps on a stage-1 row. *)

\* Time that passes for the row of a thread.
LEMMA JobTimeInv ==
  ASSUME IInv, NEW t \in Threads, JobTimePasses(t)
  PROVE IInv' /\ job'[t].success = job[t].success /\ UNCHANGED <<outputs, global>>
        /\ \A u \in Threads \ {t} : job'[u] = job[u]
<1> USE DEF IInv, locals
<1>1. /\ job' \in [Threads -> Row] /\ \A u \in Threads \ {t} : job'[u] = job[u]
      /\ RowOK(job'[t]) /\ job'[t].status = job[t].status /\ job'[t].token = job[t].token
      /\ job'[t].input = job[t].input /\ job'[t].success = job[t].success
      /\ job'[t].retry = job[t].retry
  <2>1. PICK new : /\ job' = [job EXCEPT ![t] = new]
                   /\ \/ new = [job[t] EXCEPT !.leased = FALSE]
                      \/ new = [job[t] EXCEPT !.backoff = FALSE]
    BY DEF JobTimePasses
  <2>2. RowOK(job[t])
    BY DEF TypeOK
  <2> HIDE DEF IInv
  <2>3. /\ RowOK(new) /\ new.status = job[t].status /\ new.token = job[t].token
        /\ new.input = job[t].input /\ new.success = job[t].success /\ new.retry = job[t].retry
    BY <2>1, <2>2, TimeRow
  <2> QED BY <2>1, <2>3 DEF TypeOK, RowOK, IInv
<1>2. faults' \in 0..MaxFaults
  BY DEF JobTimePasses, Lapse, TypeOK
<1>3. UNCHANGED <<updated, outputs, global, pc, scan, claims, mark, snap, drop, merged>>
  BY DEF JobTimePasses
<1>4. TypeOK'
  BY <1>1, <1>2, <1>3 DEF TypeOK
<1>5. JobInv' /\ ClaimInv' /\ OutputBelowSuccess'
  BY <1>1, <1>3 DEF JobInv, HasWork, ClaimInv, OwnedBy, Running, OutputBelowSuccess
<1>6. GlobalInv' /\ PassInv' /\ NoLostConsolidation'
  BY <1>3 DEF GlobalInv, HasWork, Running, PassInv, OwnedBy, NoLostConsolidation, Missed, Dirty, Exists
<1> QED BY <1>1, <1>3, <1>4, <1>5, <1>6

\* A claim, or a candidate that is skipped.
LEMMA TryClaimInv ==
  ASSUME IInv, NEW p \in Passes, NEW t \in Threads, TryClaimStage1Job(p, t)
  PROVE IInv' /\ job'[t].success = job[t].success /\ UNCHANGED <<outputs, global>>
        /\ \A u \in Threads \ {t} : job'[u] = job[u]
<1> USE DEF IInv
<1>0. /\ UNCHANGED <<updated, outputs, global, pc, mark, snap, drop, faults, merged>>
      /\ scan' \in [Passes -> [Threads -> 0..MaxUpdate]] /\ scan[p][t] \in 1..MaxUpdate
      /\ RowOK(job[t]) /\ job[t] \in Row
  BY DEF TryClaimStage1Job, Next1, TypeOK
<1>1. /\ GlobalInv' /\ PassInv' /\ NoLostConsolidation'
  BY <1>0 DEF GlobalInv, HasWork, Running, PassInv, OwnedBy, NoLostConsolidation, Missed, Dirty, Exists
<1>2. CASE UNCHANGED <<job, claims>>
  <2>1. TypeOK'
    BY <1>0, <1>2 DEF TypeOK
  <2>2. JobInv' /\ ClaimInv' /\ OutputBelowSuccess'
    BY <1>0, <1>2 DEF JobInv, HasWork, ClaimInv, OwnedBy, Running, OutputBelowSuccess
  <2> QED BY <1>0, <1>1, <1>2, <2>1, <2>2
<1>3. CASE ~UNCHANGED <<job, claims>>
  <2> DEFINE source == scan[p][t]
             new == ClaimAt(job[t], p, source)
  <2>1. /\ Claimable(t, source) /\ job' = [job EXCEPT ![t] = new]
        /\ claims' = [claims EXCEPT ![p][t] = source]
    BY <1>3 DEF TryClaimStage1Job
  <2>2. /\ source > job[t].success /\ source \in Int
        /\ job[t].retry > 0 \/ source > job[t].input
    BY <1>0, <2>1 DEF Claimable, UpToDate, Row
  <2>3. /\ RowOK(new) /\ Running(new) /\ new.token = p
        /\ new.input = source /\ new.success = job[t].success /\ new.retry > 0
    BY <1>0, <2>2, ClaimStage1Row
  <2> HIDE DEF new
  <2>4. /\ job' \in [Threads -> Row] /\ job'[t] = new /\ \A u \in Threads \ {t} : job'[u] = job[u]
    BY <2>1, <2>3 DEF TypeOK, RowOK
  <2>5. /\ claims' \in [Passes -> [Threads -> 0..MaxUpdate]] /\ claims'[p][t] = source
        /\ \A q \in Passes, u \in Threads : <<q, u>> # <<p, t>> => claims'[q][u] = claims[q][u]
    BY <1>0, <2>1 DEF TypeOK
  <2>6. TypeOK'
    BY <1>0, <2>3, <2>4, <2>5 DEF TypeOK
  <2>7. JobInv'
    BY <2>2, <2>3, <2>4 DEF JobInv, HasWork
  <2>8. ClaimInv'
    BY <2>3, <2>4, <2>5 DEF ClaimInv, OwnedBy
  <2>9. OutputBelowSuccess'
    BY <1>0, <2>3, <2>4 DEF OutputBelowSuccess
  <2> QED BY <1>0, <1>1, <2>3, <2>4, <2>6, <2>7, <2>8, <2>9
<1> QED BY <1>2, <1>3

\* The end of an extraction that changes the row: the row stops running, and the
\* claim is gone.
LEMMA EndJobInv ==
  ASSUME IInv, NEW p \in Passes, NEW t \in Threads, EndJob(p, t),
         NEW new, RowOK(new), ~Running(new), job' = [job EXCEPT ![t] = new],
         new.success >= job[t].success,
         \A u \in Threads \ {t} : outputs'[u] = outputs[u],
         outputs' \in [Threads -> 0..MaxUpdate], outputs'[t] # 0 => outputs'[t] <= new.success,
         RowOK(global'), GlobalInv', PassInv', NoLostConsolidation'
  PROVE /\ IInv' /\ job'[t].success >= job[t].success
        /\ \A u \in Threads \ {t} : job'[u] = job[u]
<1> USE DEF IInv
<1>1. /\ UNCHANGED <<updated, pc, scan, mark, snap, drop, faults, merged>>
      /\ claims' \in [Passes -> [Threads -> 0..MaxUpdate]]
      /\ \A q \in Passes, u \in Threads : claims'[q][u] \in {0, claims[q][u]}
  BY DEF EndJob, TypeOK
<1>2. /\ job' \in [Threads -> Row] /\ job'[t] = new /\ \A u \in Threads \ {t} : job'[u] = job[u]
  BY DEF TypeOK, RowOK
<1>3. TypeOK'
  BY <1>1, <1>2 DEF TypeOK
<1>4. JobInv' /\ ClaimInv'
  BY <1>1, <1>2 DEF JobInv, HasWork, ClaimInv, OwnedBy
<1>5. OutputBelowSuccess'
  BY <1>2 DEF OutputBelowSuccess
<1> QED BY <1>2, <1>3, <1>4, <1>5

\* An enqueue, with outputs that the source covers, leaves the global row ahead.
LEMMA EnqueueInv ==
  ASSUME IInv, NEW source \in Int, global' = Enqueued(global, source), UNCHANGED <<pc, mark, snap>>,
         NEW t \in Threads, \A u \in Threads \ {t} : outputs'[u] = outputs[u],
         outputs'[t] <= source \/ outputs'[t] <= 0 \/ outputs'[t] = outputs[t],
         outputs' \in [Threads -> 0..MaxUpdate]
  PROVE RowOK(global') /\ GlobalInv' /\ PassInv' /\ NoLostConsolidation'
        /\ global'.success = global.success
<1>1. LET new == global' IN
        /\ RowOK(new) /\ Exists(new) /\ new.token = global.token /\ new.success = global.success
        /\ Running(new) <=> Running(global)
        /\ new.input > global.input /\ new.input >= source /\ new.retry > 0
  <2>1. RowOK(global)
    BY DEF IInv, TypeOK
  <2> QED BY <2>1, EnqueuedRow
<1>2. RowOK(global) /\ GlobalInv /\ PassInv /\ outputs \in [Threads -> 0..MaxUpdate] /\ mark \in [Passes -> Nat]
      /\ global.input \in Int /\ global'.input \in Int /\ global.success \in Int
  BY <1>1 DEF IInv, TypeOK, RowOK, Row
<1>3. GlobalInv'
  BY <1>1, <1>2 DEF GlobalInv, HasWork
<1>4. PassInv'
  BY <1>1, <1>2 DEF PassInv, OwnedBy
<1>5. NoLostConsolidation'
  BY <1>1, <1>2 DEF NoLostConsolidation, Missed, Dirty, GlobalInv
<1> QED BY <1>1, <1>3, <1>4, <1>5

\* A claim that is reported by a pass that has lost it.
LEMMA NotOwnedInv ==
  ASSUME IInv, NEW p \in Passes, NEW t \in Threads, EndJob(p, t), UNCHANGED tables
  PROVE IInv'
<1>1. TypeOK' /\ \A q \in Passes, u \in Threads : claims'[q][u] \in {0, claims[q][u]}
  BY DEF IInv, TypeOK, EndJob, tables
<1>2. PassInv'
  BY PassGoesOn DEF OutputsStay, IInv, EndJob, tables
<1>3. UNCHANGED <<merged, updated>>
  BY DEF EndJob
<1> QED BY <1>1, <1>2, <1>3, TablesUnchanged DEF OutputsStay, tables

\* What a row may become in one step: later successes only, or nothing at all.
Advances == /\ \A t \in Threads : job'[t].success >= job[t].success
            /\ global'.success >= global.success

\* Success watermarks are numbers.
LEMMA SuccessType ==
  ASSUME TypeOK
  PROVE global.success \in Int /\ \A t \in Threads : job[t].success \in Int
BY DEF TypeOK, RowOK, Row

\* A success with an output.
LEMMA Stage1SucceededInv ==
  ASSUME IInv, NEW p \in Passes, NEW t \in Threads, Stage1Succeeded(p, t)
  PROVE IInv' /\ Advances
<1>1. CASE ~(OwnedBy(job[t], p) /\ updated[t] # 0)
  BY <1>1, NotOwnedInv DEF Stage1Succeeded, tables, Advances, IInv, TypeOK, RowOK, Row
<1>2. CASE OwnedBy(job[t], p) /\ updated[t] # 0
  <2> DEFINE new == Done(job[t], job[t].input)
  <2>1. /\ EndJob(p, t) /\ job' = [job EXCEPT ![t] = new]
        /\ outputs' = IF claims[p][t] >= outputs[t]
                        THEN [outputs EXCEPT ![t] = claims[p][t]] ELSE outputs
        /\ global' = Enqueued(global, claims[p][t])
    BY <1>2 DEF Stage1Succeeded
  <2>2. /\ job[t].success < job[t].input /\ job[t].input = claims[p][t] /\ claims[p][t] \in 1..MaxUpdate
        /\ job[t] \in Row /\ outputs \in [Threads -> 0..MaxUpdate]
        /\ outputs[t] # 0 => outputs[t] <= job[t].success
        /\ job[t].input \in Int /\ job[t].success \in Int /\ global.success \in Int
    BY <1>2, <2>1 DEF IInv, JobInv, HasWork, ClaimInv, OutputBelowSuccess, OwnedBy, TypeOK, EndJob, Row, RowOK
  <2>3. RowOK(new) /\ ~Running(new) /\ new.success = job[t].input
    BY <2>2, DoneRow
  <2> HIDE DEF new
  <2>4. /\ outputs' \in [Threads -> 0..MaxUpdate] /\ outputs'[t] \in {outputs[t], claims[p][t]}
        /\ \A u \in Threads \ {t} : outputs'[u] = outputs[u]
    BY <2>1, <2>2
  <2>5. UNCHANGED <<pc, mark, snap>>
    BY <2>1 DEF EndJob
  <2>6. RowOK(global') /\ GlobalInv' /\ PassInv' /\ NoLostConsolidation' /\ global'.success = global.success
    BY <2>1, <2>2, <2>4, <2>5, EnqueueInv
  <2>7. new.success >= job[t].success /\ (outputs'[t] # 0 => outputs'[t] <= new.success)
    BY <2>2, <2>3, <2>4
  <2>8. IInv' /\ job'[t].success >= job[t].success /\ \A u \in Threads \ {t} : job'[u] = job[u]
    BY <2>1, <2>3, <2>4, <2>6, <2>7, EndJobInv
  <2> QED BY <2>6, <2>8, SuccessType DEF Advances, IInv
<1> QED BY <1>1, <1>2

\* A success without output.
LEMMA Stage1NoOutputInv ==
  ASSUME IInv, NEW p \in Passes, NEW t \in Threads, Stage1NoOutput(p, t)
  PROVE IInv' /\ Advances
<1>1. CASE ~OwnedBy(job[t], p)
  BY <1>1, NotOwnedInv DEF Stage1NoOutput, tables, Advances, IInv, TypeOK, RowOK, Row
<1>2. CASE OwnedBy(job[t], p)
  <2> DEFINE new == Done(job[t], job[t].input)
  <2>1. /\ EndJob(p, t) /\ job' = [job EXCEPT ![t] = new] /\ outputs' = [outputs EXCEPT ![t] = 0]
        /\ global' = Enqueued(global, job[t].input)
    BY <1>2 DEF Stage1NoOutput
  <2>2. /\ job[t].success < job[t].input /\ job[t] \in Row /\ outputs \in [Threads -> 0..MaxUpdate]
        /\ job[t].input \in Int /\ job[t].success \in Int /\ global.success \in Int
    BY <1>2 DEF IInv, JobInv, HasWork, OwnedBy, TypeOK, Row, RowOK
  <2>3. RowOK(new) /\ ~Running(new) /\ new.success = job[t].input
    BY <2>2, DoneRow
  <2> HIDE DEF new
  <2>4. /\ outputs' \in [Threads -> 0..MaxUpdate] /\ outputs'[t] = 0
        /\ \A u \in Threads \ {t} : outputs'[u] = outputs[u]
    BY <2>1, <2>2
  <2>5. UNCHANGED <<pc, mark, snap>>
    BY <2>1 DEF EndJob
  <2>6. RowOK(global') /\ GlobalInv' /\ PassInv' /\ NoLostConsolidation' /\ global'.success = global.success
    BY <2>1, <2>2, <2>4, <2>5, EnqueueInv
  <2>7. new.success >= job[t].success /\ (outputs'[t] # 0 => outputs'[t] <= new.success)
    BY <2>2, <2>3, <2>4
  <2>8. IInv' /\ job'[t].success >= job[t].success /\ \A u \in Threads \ {t} : job'[u] = job[u]
    BY <2>1, <2>3, <2>4, <2>6, <2>7, EndJobInv
  <2> QED BY <2>6, <2>8, SuccessType DEF Advances, IInv
<1> QED BY <1>1, <1>2

\* A failure.
LEMMA Stage1FailedInv ==
  ASSUME IInv, NEW p \in Passes, NEW t \in Threads, Stage1Failed(p, t)
  PROVE IInv' /\ Advances
<1>0. job \in [Threads -> Row] /\ job[t] \in Row /\ global.success \in Int
      /\ \A u \in Threads : job[u].success \in Int
  BY DEF IInv, TypeOK, RowOK, Row
<1>1. CASE ~OwnedBy(job[t], p)
  BY <1>0, <1>1, NotOwnedInv DEF Stage1Failed, tables, Advances
<1>2. CASE OwnedBy(job[t], p)
  <2> DEFINE new == Failed(job[t])
  <2>1. EndJob(p, t) /\ job' = [job EXCEPT ![t] = new] /\ UNCHANGED <<outputs, global>>
    BY <1>2 DEF Stage1Failed
  <2>2. RowOK(new) /\ ~Running(new) /\ new.success = job[t].success
    BY <1>0, <1>2, FailedRow DEF IInv, JobInv, OwnedBy
  <2> HIDE DEF new
  <2>3. RowOK(global') /\ GlobalInv' /\ PassInv' /\ NoLostConsolidation'
    BY <2>1 DEF IInv, TypeOK, GlobalInv, HasWork, Running, RowOK, PassInv, OwnedBy, EndJob,
                NoLostConsolidation, Missed, Dirty, Exists
  <2>4. /\ outputs' \in [Threads -> 0..MaxUpdate]
        /\ outputs'[t] # 0 => outputs'[t] <= new.success
        /\ \A u \in Threads \ {t} : outputs'[u] = outputs[u]
    BY <2>1, <2>2 DEF IInv, TypeOK, OutputBelowSuccess
  <2>5. new.success >= job[t].success
    BY <1>0, <2>2
  <2>6. IInv' /\ job'[t].success >= job[t].success /\ \A u \in Threads \ {t} : job'[u] = job[u]
    BY <2>1, <2>2, <2>3, <2>4, <2>5, EndJobInv
  <2> QED BY <1>0, <2>1, <2>6 DEF Advances
<1> QED BY <1>1, <1>2

-----------------------------------------------------------------------------
(* The steps on the global row. *)

\* A step on the global row keeps what is said of the stage-1 rows.
LEMMA GlobalStep ==
  ASSUME IInv, UNCHANGED <<outputs, job, claims>>, TypeOK', GlobalInv', PassInv', NoLostConsolidation'
  PROVE IInv'
BY DEF IInv, JobInv, HasWork, ClaimInv, OwnedBy, Running, OutputBelowSuccess

\* Time that passes for the global row.
LEMMA GlobalTimeInv ==
  ASSUME IInv, GlobalTimePasses
  PROVE IInv' /\ UNCHANGED job /\ global'.success = global.success
<1>1. /\ UNCHANGED <<updated, outputs, job, pc, scan, claims, mark, snap, drop, merged>>
      /\ faults' \in 0..MaxFaults
  BY DEF GlobalTimePasses, Lapse, IInv, TypeOK, locals
<1>2. \/ global' = [global EXCEPT !.leased = FALSE]
      \/ global' = [global EXCEPT !.backoff = FALSE]
  BY DEF GlobalTimePasses
<1>3. RowOK(global)
  BY DEF IInv, TypeOK
<1>4. /\ RowOK(global') /\ global'.status = global.status /\ global'.token = global.token
      /\ global'.input = global.input /\ global'.success = global.success /\ global'.retry = global.retry
  BY <1>2, <1>3, TimeRow
<1>5. TypeOK'
  BY <1>1, <1>4 DEF IInv, TypeOK
<1>6. GlobalInv' /\ PassInv' /\ NoLostConsolidation'
  BY <1>1, <1>4 DEF IInv, GlobalInv, HasWork, Running, PassInv, OwnedBy, NoLostConsolidation, Missed, Dirty, Exists
<1> QED BY <1>1, <1>4, <1>5, <1>6, GlobalStep

\* A heartbeat renews the lease, or the pass has lost it.
LEMMA HeartbeatInv ==
  ASSUME IInv, NEW p \in Passes, Heartbeat(p)
  PROVE IInv' /\ UNCHANGED job /\ global'.success = global.success
<1>0. UNCHANGED <<updated, outputs, job, scan, claims, mark, snap, drop, faults, merged>>
  BY DEF Heartbeat, locals
<1>1. CASE OwnedBy(global, p)
  <2>1. global' = [global EXCEPT !.leased = TRUE] /\ UNCHANGED pc
    BY <1>1 DEF Heartbeat
  <2>2. RowOK(global)
    BY DEF IInv, TypeOK
  <2>3. /\ RowOK(global') /\ global'.status = global.status /\ global'.token = global.token
        /\ global'.input = global.input /\ global'.success = global.success /\ global'.retry = global.retry
    BY <2>1, <2>2, TimeRow
  <2>4. TypeOK'
    BY <1>0, <2>1, <2>3 DEF IInv, TypeOK
  <2>5. GlobalInv' /\ PassInv'
    BY <1>0, <2>1, <2>3 DEF IInv, GlobalInv, HasWork, Running, PassInv, OwnedBy, Missed
  <2>6. NoLostConsolidation'
    BY <1>0, <2>3 DEF IInv, NoLostConsolidation, Missed, Dirty, Exists
  <2> QED BY <1>0, <2>3, <2>4, <2>5, <2>6, GlobalStep
<1>2. CASE ~OwnedBy(global, p)
  <2>1. pc' = [pc EXCEPT ![p] = "fail"] /\ UNCHANGED global
    BY <1>2 DEF Heartbeat, Goto
  <2>2. TypeOK'
    BY <1>0, <2>1 DEF IInv, TypeOK, PhaseTwoPcs
  <2>3. PassInv'
    BY <1>0, <2>1, PassGoesOn DEF OutputsStay, IInv, TypeOK
  <2> QED BY <1>0, <2>1, <2>2, <2>3, TablesUnchanged DEF OutputsStay, tables
<1> QED BY <1>1, <1>2

\* The pass that takes the global job has read its watermark with it.
LEMMA TryClaimGlobalInv ==
  ASSUME IInv, NEW p \in Passes, TryClaimGlobalJob(p)
  PROVE IInv' /\ UNCHANGED job /\ global'.success = global.success
<1>0. UNCHANGED <<updated, outputs, job, scan, claims, snap, drop, faults, merged>>
  BY DEF TryClaimGlobalJob
<1>1. CASE GlobalClaimable
  <2> DEFINE new == Claim(global, p)
  <2>1. global' = new /\ mark' = [mark EXCEPT ![p] = global.input] /\ pc' = [pc EXCEPT ![p] = "list"]
    BY <1>1 DEF TryClaimGlobalJob, Goto
  <2>2. global \in Row /\ global.input \in Nat
    BY DEF IInv, TypeOK, RowOK, GlobalInv, Row
  <2>3. /\ RowOK(new) /\ Running(new) /\ new.token = p /\ new.input = global.input
        /\ new.success = global.success /\ new.retry = global.retry
    BY <2>2, ClaimRow
  <2> HIDE DEF new
  <2>4. TypeOK'
    BY <1>0, <2>1, <2>2, <2>3 DEF IInv, TypeOK, PhaseTwoPcs
  <2>5. GlobalInv'
    BY <1>0, <1>1, <2>1, <2>3 DEF IInv, GlobalInv, HasWork, GlobalClaimable, Dirty
  <2>6. PassInv'
    BY <1>0, <2>1, <2>2, <2>3 DEF IInv, TypeOK, PassInv, OwnedBy
  <2>7. NoLostConsolidation'
    BY <1>0, <1>1, <2>1, <2>3 DEF NoLostConsolidation, Missed, Dirty, Exists, GlobalClaimable, Running
  <2> QED BY <1>0, <2>1, <2>3, <2>4, <2>5, <2>6, <2>7, GlobalStep
<1>2. CASE ~GlobalClaimable
  <2>1. pc' = [pc EXCEPT ![p] = "idle"] /\ UNCHANGED <<global, mark>>
    BY <1>2 DEF TryClaimGlobalJob, Goto
  <2>2. TypeOK'
    BY <1>0, <2>1 DEF IInv, TypeOK, PhaseTwoPcs
  <2>3. PassInv'
    BY <1>0, <2>1, PassGoesOn DEF OutputsStay, IInv, TypeOK
  <2> QED BY <1>0, <2>1, <2>2, <2>3, TablesUnchanged DEF OutputsStay, tables
<1> QED BY <1>1, <1>2

\* What is left when a pass is over, with the global row at rest or as it was.
LEMMA PassEnds ==
  ASSUME IInv, NEW p \in Passes, Forget(p),
         UNCHANGED <<updated, outputs, job, scan, claims, drop, faults>>,
         merged' \in [Threads -> 0..MaxUpdate],
         RowOK(global'), ~Running(global') \/ global' = global
  PROVE TypeOK' /\ PassInv'
<1>1. TypeOK'
  BY Empty DEF Forget, Goto, IInv, TypeOK, PhaseTwoPcs
<1>2. CASE ~Running(global')
  BY <1>1, <1>2 DEF PassInv, OwnedBy
<1>3. CASE global' = global
  BY <1>1, <1>3, PassGoesOn DEF OutputsStay, Forget, Goto, IInv, TypeOK
<1> QED BY <1>1, <1>2, <1>3

\* A consolidation that succeeded: what it listed is merged, and what came later
\* has moved the row past the watermark it completes.
LEMMA GlobalSucceededInv ==
  ASSUME IInv, NEW p \in Passes, GlobalSucceeded(p)
  PROVE IInv' /\ UNCHANGED job /\ global'.success >= global.success
<1>0. /\ UNCHANGED <<updated, outputs, job, scan, claims, drop, faults>> /\ Forget(p)
      /\ pc[p] = "succeed" /\ RowOK(global) /\ global \in Row
      /\ global.success \in Int /\ global.input \in Int /\ mark[p] \in Nat
      /\ snap[p] \in [Threads -> 0..MaxUpdate] /\ merged \in [Threads -> 0..MaxUpdate]
  BY SuccessType DEF GlobalSucceeded, IInv, TypeOK, RowOK, Row
<1>1. CASE OwnedBy(global, p)
  <2> DEFINE success == IF mark[p] > global.success THEN mark[p] ELSE global.success
             new == Done(global, success)
  <2>1. global' = new /\ merged' = snap[p]
    BY <1>1 DEF GlobalSucceeded
  <2>2. success \in Int /\ success >= global.success /\ success >= mark[p] /\ success \in {mark[p], global.success}
    BY <1>0
  <2> HIDE DEF success
  <2>3. RowOK(new) /\ ~Running(new) /\ Exists(new) /\ new.input = global.input /\ new.success = success
    BY <1>0, <2>2, DoneRow
  <2> HIDE DEF new
  <2>4. /\ mark[p] <= global.input /\ (Missed(snap[p]) => mark[p] < global.input)
        /\ 0 <= global.success /\ global.success < global.input
    BY <1>0, <1>1 DEF IInv, PassInv, GlobalInv, HasWork, OwnedBy
  <2>5. GlobalInv'
    BY <1>0, <2>1, <2>2, <2>3, <2>4 DEF IInv, GlobalInv, HasWork
  <2>6. NoLostConsolidation'
    BY <1>0, <2>1, <2>2, <2>3, <2>4 DEF NoLostConsolidation, Missed, Dirty
  <2>7. TypeOK' /\ PassInv'
    BY <1>0, <2>1, <2>3, PassEnds
  <2> QED BY <1>0, <2>1, <2>2, <2>3, <2>5, <2>6, <2>7, GlobalStep
<1>2. CASE ~OwnedBy(global, p)
  <2>1. UNCHANGED <<global, merged>>
    BY <1>2 DEF GlobalSucceeded
  <2>2. TypeOK' /\ PassInv'
    BY <1>0, <2>1, PassEnds
  <2>3. GlobalInv' /\ NoLostConsolidation'
    BY <1>0, <2>1 DEF IInv, GlobalInv, HasWork, Running, NoLostConsolidation, Missed, Dirty, Exists
  <2> QED BY <1>0, <2>1, <2>2, <2>3, GlobalStep
<1> QED BY <1>1, <1>2

\* One that failed leaves the row as dirty as it was.
LEMMA GlobalFailedInv ==
  ASSUME IInv, NEW p \in Passes, GlobalFailed(p)
  PROVE IInv' /\ UNCHANGED job /\ global'.success = global.success
<1>0. /\ UNCHANGED <<updated, outputs, job, scan, claims, drop, faults, merged>> /\ Forget(p)
      /\ RowOK(global) /\ global \in Row /\ HasWork(global) /\ merged \in [Threads -> 0..MaxUpdate]
  BY DEF GlobalFailed, IInv, TypeOK, RowOK, GlobalInv
<1>1. /\ RowOK(global') /\ (~Running(global') \/ global' = global) /\ (Exists(global) => Exists(global'))
      /\ global'.input = global.input /\ global'.success = global.success
  <2>1. CASE Running(global) /\ global.token \in {p, NoPass}
    <3>1. global' = Failed(global)
      BY <2>1 DEF GlobalFailed
    <3> QED BY <1>0, <2>1, <3>1, FailedRow
  <2>2. CASE ~(Running(global) /\ global.token \in {p, NoPass})
    BY <1>0, <2>2 DEF GlobalFailed
  <2> QED BY <2>1, <2>2
<1>2. TypeOK' /\ PassInv'
  BY <1>0, <1>1, PassEnds
<1>3. GlobalInv'
  BY <1>0, <1>1 DEF IInv, GlobalInv, HasWork
<1>4. NoLostConsolidation'
  BY <1>0, <1>1 DEF IInv, NoLostConsolidation, Missed, Dirty
<1> QED BY <1>0, <1>1, <1>2, <1>3, <1>4, GlobalStep

\* Dropping the memories starts the tables anew.
LEMMA ClearInv ==
  ASSUME IInv, ClearMemoryData
  PROVE IInv' /\ (\A t \in Threads : ~Exists(job'[t])) /\ ~Exists(global')
<1>1. /\ RowOK(NoRow(-1)) /\ ~Running(NoRow(-1)) /\ ~Exists(NoRow(-1))
      /\ RowOK(NoRow(0)) /\ ~Running(NoRow(0)) /\ ~Exists(NoRow(0))
      /\ NoRow(0).input = 0 /\ NoRow(0).success = 0
  BY NoRowOK
<1>2. /\ UNCHANGED <<updated, pc, scan, claims, mark, snap, faults>> /\ drop' = "done"
      /\ outputs' = NoMemories /\ merged' = NoMemories /\ global' = NoRow(0)
      /\ job' = [t \in Threads |-> NoRow(-1)]
  BY DEF ClearMemoryData, locals
<1>3. TypeOK'
  BY <1>1, <1>2, Empty DEF IInv, TypeOK, RowOK
<1>4. JobInv' /\ ClaimInv' /\ PassInv'
  BY <1>1, <1>2 DEF JobInv, HasWork, ClaimInv, PassInv, OwnedBy
<1>5. GlobalInv' /\ OutputBelowSuccess' /\ NoLostConsolidation'
  BY <1>1, <1>2, Empty DEF GlobalInv, HasWork, OutputBelowSuccess, NoLostConsolidation, Missed
<1> QED BY <1>1, <1>2, <1>3, <1>4, <1>5 DEF IInv

-----------------------------------------------------------------------------
(* The theorems. *)

\* A step of the system keeps the invariant and takes no success back.
RegressFree ==
    /\ \A t \in Threads : Exists(job'[t]) => job'[t].success >= job[t].success
    /\ Exists(global') => global'.success >= global.success

LEMMA Step == IInv /\ [Next]_vars => IInv' /\ RegressFree
<1> SUFFICES ASSUME IInv, [Next]_vars PROVE IInv' /\ RegressFree
  OBVIOUS
<1>0. global.success \in Int /\ \A t \in Threads : job[t].success \in Int
  BY SuccessType DEF IInv
<1>1. CASE UNCHANGED vars
  <2>1. UNCHANGED <<tables, merged, claims, updated, pc, scan, mark, snap, drop, faults>>
    BY <1>1 DEF vars, tables
  <2>2. TypeOK'
    BY <2>1 DEF IInv, TypeOK, tables
  <2>3. PassInv'
    BY <2>1, PassGoesOn DEF OutputsStay, IInv, tables
  <2>4. \A p \in Passes, t \in Threads : claims'[p][t] \in {0, claims[p][t]}
    BY <2>1
  <2> QED BY <1>0, <2>1, <2>2, <2>3, <2>4, TablesUnchanged DEF RegressFree, OutputsStay, tables
<1>2. ASSUME NEW p \in Passes, LocalStep(p) PROVE IInv' /\ RegressFree
  BY <1>0, <1>2, LocalStepInv DEF RegressFree, tables
<1>3. ASSUME (\E t \in Threads : ThreadUpdated(t)) PROVE IInv' /\ RegressFree
  BY <1>0, <1>3, EnvironmentInv DEF RegressFree, tables
<1>4. ASSUME NEW t \in Threads, JobTimePasses(t) PROVE IInv' /\ RegressFree
  <2>1. \A u \in Threads : job'[u].success = job[u].success
    BY <1>4, JobTimeInv
  <2> QED BY <1>0, <1>4, <2>1, JobTimeInv DEF RegressFree
<1>5. ASSUME NEW p \in Passes, NEW t \in Threads, TryClaimStage1Job(p, t) PROVE IInv' /\ RegressFree
  <2>1. /\ IInv' /\ job'[t].success = job[t].success /\ global' = global
        /\ \A u \in Threads \ {t} : job'[u] = job[u]
    BY <1>5, TryClaimInv
  <2> QED BY <1>0, <2>1 DEF RegressFree
<1>6. ASSUME NEW p \in Passes, NEW t \in Threads, EndOfJob(p, t) PROVE IInv' /\ RegressFree
  BY <1>6, Stage1SucceededInv, Stage1NoOutputInv, Stage1FailedInv DEF EndOfJob, Advances, RegressFree
<1>7. ASSUME GlobalTimePasses PROVE IInv' /\ RegressFree
  BY <1>0, <1>7, GlobalTimeInv DEF RegressFree
<1>8. ASSUME NEW p \in Passes, Heartbeat(p) \/ TryClaimGlobalJob(p) \/ GlobalSucceeded(p) \/ GlobalFailed(p)
      PROVE IInv' /\ RegressFree
  BY <1>0, <1>8, HeartbeatInv, TryClaimGlobalInv, GlobalSucceededInv, GlobalFailedInv DEF RegressFree
<1>9. ASSUME ClearMemoryData PROVE IInv' /\ RegressFree
  BY <1>9, ClearInv DEF RegressFree
<1>10. ASSUME NEW t \in Threads, ThreadDeleted(t) PROVE IInv' /\ RegressFree
  BY <1>0, <1>10, ThreadDeletedInv DEF RegressFree
<1> QED BY <1>1, <1>2, <1>3, <1>4, <1>5, <1>6, <1>7, <1>8, <1>9, <1>10
        DEF Next, StageOne, PhaseTwo, TimePasses, LocalStep

\* The inductive invariant holds of every state of the pipeline.
THEOREM Invariance == Spec => []IInv
<1>1. Init => IInv
  BY InitInv
<1>2. IInv /\ [Next]_vars => IInv'
  BY Step
<1> QED BY <1>1, <1>2, PTL DEF Spec

\* Every variable keeps its type, whatever leases run out and whoever crashes; in
\* particular retry_remaining stays between 0 and DEFAULT_RETRY_REMAINING.
THEOREM TypeCorrect == Spec => []TypeOK
<1>1. IInv => TypeOK
  BY DEF IInv
<1> QED BY <1>1, Invariance, PTL

\* There is never an output newer than the success watermark of its thread.
THEOREM OutputsCovered == Spec => []OutputBelowSuccess
<1>1. IInv => OutputBelowSuccess
  BY DEF IInv
<1> QED BY <1>1, Invariance, PTL

\* No stage-1 result is missed by consolidation without the global job being dirty.
THEOREM ConsolidationComplete == Spec => []NoLostConsolidation
<1>1. IInv => NoLostConsolidation
  BY DEF IInv
<1> QED BY <1>1, Invariance, PTL

\* No success watermark is ever taken back by a straggler or an older scan.
THEOREM SuccessMonotone == Spec => SuccessNeverRegresses
<1>1. IInv /\ [Next]_vars =>
        [/\ \A t \in Threads : Exists(job'[t]) => job'[t].success >= job[t].success
         /\ Exists(global') => global'.success >= global.success]_vars
  BY Step DEF RegressFree
<1> QED BY <1>1, Invariance, PTL DEF Spec, SuccessNeverRegresses

-----------------------------------------------------------------------------
(* The limit of running jobs. *)

\* The rows that count.
Valid == {t \in Threads : LeaseValid(job[t])}

\* A step that makes no new row valid keeps within the limit.
LEMMA NoNewLease ==
  ASSUME RunningWithinLimit, Valid' \subseteq Valid
  PROVE RunningWithinLimit'
<1>1. IsFiniteSet(Valid)
  BY FS_Subset DEF Valid, MemoryAssumption
<1>2. Cardinality(Valid') <= Cardinality(Valid) /\ Cardinality(Valid) \in Nat /\ Cardinality(Valid') \in Nat
  BY <1>1, FS_Subset, FS_CardinalityType
<1> QED BY <1>2 DEF RunningWithinLimit, Valid, MemoryAssumption

\* A claim adds one row at most, and only below the limit.
LEMMA ClaimWithinLimit ==
  ASSUME IInv, RunningWithinLimit, NEW p \in Passes, NEW t \in Threads, TryClaimStage1Job(p, t)
  PROVE RunningWithinLimit'
<1>1. \A u \in Threads \ {t} : job'[u] = job[u]
  BY TryClaimInv
<1>2. CASE job' = job
  BY <1>2, NoNewLease DEF Valid, LeaseValid, Running
<1>3. CASE job' # job
  <2>1. Cardinality(OthersRunning(t)) < MaxRunning
    BY <1>3 DEF TryClaimStage1Job, Claimable
  <2>2. IsFiniteSet(OthersRunning(t))
    BY FS_Subset DEF OthersRunning, MemoryAssumption
  <2>3. /\ IsFiniteSet(OthersRunning(t) \cup {t}) /\ Cardinality(OthersRunning(t)) \in Nat
        /\ Cardinality(OthersRunning(t) \cup {t}) <= MaxRunning
    <3>1. /\ IsFiniteSet(OthersRunning(t) \cup {t}) /\ t \notin OthersRunning(t)
          /\ Cardinality(OthersRunning(t)) \in Nat
      BY <2>2, FS_AddElement, FS_CardinalityType DEF OthersRunning
    <3>2. Cardinality(OthersRunning(t) \cup {t}) = Cardinality(OthersRunning(t)) + 1
      BY <2>2, <3>1, FS_AddElement
    <3> QED BY <2>1, <3>1, <3>2 DEF MemoryAssumption
  <2>4. Valid' \subseteq OthersRunning(t) \cup {t}
    BY <1>1 DEF Valid, OthersRunning, LeaseValid, Running
  <2>5. /\ Cardinality(Valid') <= Cardinality(OthersRunning(t) \cup {t})
        /\ Cardinality(Valid') \in Nat /\ Cardinality(OthersRunning(t) \cup {t}) \in Nat
    BY <2>3, <2>4, FS_Subset, FS_CardinalityType
  <2> QED BY <2>3, <2>5 DEF RunningWithinLimit, Valid, MemoryAssumption
<1> QED BY <1>2, <1>3

\* At most max_running_jobs threads are extracted under a valid lease.
THEOREM WithinLimit == Spec => []RunningWithinLimit
<1>1. Init => RunningWithinLimit
  <2> SUFFICES ASSUME Init PROVE RunningWithinLimit
    OBVIOUS
  <2>1. {t \in Threads : LeaseValid(job[t])} = {}
    BY NoRowOK DEF Init, LeaseValid
  <2> QED BY <2>1, FS_EmptySet DEF RunningWithinLimit, MemoryAssumption
<1>2. IInv /\ RunningWithinLimit /\ [Next]_vars => RunningWithinLimit'
  <2> SUFFICES ASSUME IInv, RunningWithinLimit, [Next]_vars PROVE RunningWithinLimit'
    OBVIOUS
  <2>1. CASE \E p \in Passes, t \in Threads : TryClaimStage1Job(p, t)
    BY <2>1, ClaimWithinLimit
  <2>2. CASE job' = job
    BY <2>2, NoNewLease DEF Valid, LeaseValid, Running
  <2>3. ASSUME NEW t \in Threads, NEW row, job' = [job EXCEPT ![t] = row], ~LeaseValid(row)
        PROVE RunningWithinLimit'
    <3>1. Valid' \subseteq Valid
      BY <2>3 DEF Valid, LeaseValid, Running, IInv, TypeOK
    <3> QED BY <3>1, NoNewLease
  <2>4. CASE \E p \in Passes, t \in Threads : EndOfJob(p, t)
    <3> PICK p \in Passes, t \in Threads : EndOfJob(p, t)
      BY <2>4
    <3>1. job[t] \in Row /\ HasWork(job[t])
      BY DEF IInv, TypeOK, JobInv
    <3>2. \/ job' = job
          \/ job' = [job EXCEPT ![t] = Done(job[t], job[t].input)]
          \/ job' = [job EXCEPT ![t] = Failed(job[t])] /\ Running(job[t])
      BY DEF EndOfJob, Stage1Succeeded, Stage1NoOutput, Stage1Failed, tables, OwnedBy
    <3>3. ~LeaseValid(Done(job[t], job[t].input)) /\ (Running(job[t]) => ~LeaseValid(Failed(job[t])))
      BY <3>1, DoneRow, FailedRow DEF LeaseValid, Row
    <3> QED BY <2>2, <2>3, <3>2, <3>3
  <2>5. CASE \E t \in Threads : JobTimePasses(t)
    <3> PICK t \in Threads : JobTimePasses(t)
      BY <2>5
    <3>1. job[t] \in Row
      BY DEF IInv, TypeOK
    <3>2. CASE job' = [job EXCEPT ![t].leased = FALSE]
      <4>1. ~LeaseValid([job[t] EXCEPT !.leased = FALSE])
        BY <3>1 DEF LeaseValid, Row
      <4> QED BY <2>3, <3>2, <4>1
    <3>3. CASE job' = [job EXCEPT ![t].backoff = FALSE]
      <4> DEFINE row == [job[t] EXCEPT !.backoff = FALSE]
      <4>1. row.status = job[t].status /\ row.leased = job[t].leased
        BY <3>1 DEF Row
      <4>2. \A u \in Threads : job'[u].status = job[u].status /\ job'[u].leased = job[u].leased
        BY <3>3, <4>1 DEF IInv, TypeOK
      <4>3. Valid' \subseteq Valid
        BY <4>2 DEF Valid, LeaseValid, Running
      <4> QED BY <4>3, NoNewLease
    <3> QED BY <3>2, <3>3 DEF JobTimePasses
  <2>6. CASE ClearMemoryData
    <3>1. Valid' \subseteq Valid
      BY <2>6, NoRowOK DEF ClearMemoryData, Valid, LeaseValid
    <3> QED BY <3>1, NoNewLease
  <2>7. CASE UNCHANGED vars \/ GlobalTimePasses
            \/ \E t \in Threads : ThreadUpdated(t) \/ ThreadDeleted(t)
    BY <2>2, <2>7 DEF vars, GlobalTimePasses, ThreadUpdated, ThreadDeleted, tables
  <2>8. CASE \E p \in Passes : LocalStep(p)
    BY <2>2, <2>8, LocalStepInv DEF tables
  <2>9. CASE \E p \in Passes : Heartbeat(p) \/ TryClaimGlobalJob(p) \/ GlobalSucceeded(p) \/ GlobalFailed(p)
    BY <2>2, <2>9, HeartbeatInv, TryClaimGlobalInv, GlobalSucceededInv, GlobalFailedInv
  <2> QED BY <2>1, <2>4, <2>5, <2>6, <2>7, <2>8, <2>9
          DEF Next, StageOne, PhaseTwo, TimePasses, LocalStep
<1> QED BY <1>1, <1>2, Invariance, PTL DEF Spec

=============================================================================
