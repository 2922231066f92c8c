------------------------- MODULE TurnLifecycleProofs -------------------------
(***************************************************************************)
(* Proofs about TurnLifecycle, for every MaxTurn and every set of inputs:  *)
(* type correctness, AtMostOneRunning, ActiveTurnAbortable, that the       *)
(* session implements SessionSlot; and, on top of the same inductive       *)
(* invariant, that an open rollout has the marker of every turn reported   *)
(* as interrupted, that a replaced turn has reported before its successor  *)
(* starts, and that no input is lost or duplicated.                        *)
(***************************************************************************)
EXTENDS TurnLifecycle, TLAPS

\* The loop holds a turn in `victim` exactly where it uses it, and a turn it is
\* about to spawn has a number left.
LoopInv ==
    /\ loop.pc \in {"cancel", "grace", "marker", "flush", "report", "register"}
          => loop.victim \in Turns /\ loop.victim <= spawned
    /\ loop.pc = "spawn" => loop.then = "spawn"
    /\ loop.then = "spawn" /\ loop.pc \notin {"idle", "register"} => spawned < MaxTurn

\* Away from "idle" and "take" the loop has emptied active_turn, and what it is
\* registering has not been cancelled: nobody else could reach it.
ActiveInv ==
    /\ loop.pc \notin {"idle", "take"} => active.task = NoTurn
    /\ loop.pc = "register" => ~cancelled[loop.victim]
    /\ active.task # NoTurn => ~cancelled[active.task] /\ active.task <= spawned

\* A running turn is in active_turn, or about to be put there, or just taken.
Held(t) == \/ active.task = t
           \/ loop.pc \in {"register", "cancel"} /\ loop.victim = t
HeldInv == \A t \in Turns : Running(t) => Held(t)

\* Turns are numbered in the order they are spawned.
UnspawnedInv ==
    \A t \in Turns : t > spawned => pc[t] = "unspawned" /\ ~cancelled[t]

Invs == LoopInv /\ ActiveInv /\ HeldInv /\ UnspawnedInv
IInv == TypeOK /\ Invs

-----------------------------------------------------------------------------
(* Facts about the data. *)

\* What a sequence of inputs contains is a set of inputs.
LEMMA RangeOfInputs == ASSUME NEW s \in Seq(Inputs) PROVE Range(s) \subseteq Inputs
BY DEF Range

\* Moving the loop's pc leaves its other fields alone.
LEMMA SetPc ==
  ASSUME LoopOK, NEW p
  PROVE /\ [loop EXCEPT !.pc = p].pc = p
        /\ [loop EXCEPT !.pc = p].victim = loop.victim
        /\ [loop EXCEPT !.pc = p].then = loop.then
        /\ loop.then \in {"idle", "spawn", "shutdown"}
BY DEF LoopOK

\* So does noting the turn it has taken.
LEMMA SetVictim ==
  ASSUME LoopOK, NEW p, NEW v
  PROVE /\ [loop EXCEPT !.pc = p, !.victim = v].pc = p
        /\ [loop EXCEPT !.pc = p, !.victim = v].victim = v
        /\ [loop EXCEPT !.pc = p, !.victim = v].then = loop.then
BY DEF LoopOK

-----------------------------------------------------------------------------
(* The initial state. *)

LEMMA InitIInv == Init => IInv
<1> SUFFICES ASSUME Init PROVE IInv
  OBVIOUS
<1>1. ActiveOK
  BY DEF Init, ActiveOK, NoActive, NoTurn
<1>2. TasksOK
  BY MaxTurnAssumption DEF Init, TasksOK
<1>3. LoopOK
  BY DEF Init, LoopOK, Idle, LoopPcs, Reasons, NoTurn
<1>4. LogOK
  BY FilesAssumption DEF Init, LogOK
<1>5. Invs
  BY DEF Init, Invs, LoopInv, ActiveInv, HeldInv, UnspawnedInv, Running, RunningPcs,
     NoActive, NoTurn, Idle
<1> QED BY <1>1, <1>2, <1>3, <1>4, <1>5 DEF IInv, TypeOK

-----------------------------------------------------------------------------
(* The submission loop. *)

\* Taking the active turn: the invariant moves it from active_turn to `victim`.
LEMMA TakePreserves == ASSUME IInv, TakeAllRunningTasks PROVE IInv'
<1>0. /\ ActiveOK /\ TasksOK /\ LoopOK /\ LogOK /\ Invs
      /\ active.task \in Turns \cup {NoTurn} /\ active.input \in Seq(Inputs)
  BY DEF IInv, TypeOK, ActiveOK
<1>1. ActiveOK'
  BY DEF TakeAllRunningTasks, ActiveOK, NoActive, NoTurn
<1>2. TasksOK'
  BY <1>0 DEF TakeAllRunningTasks, TasksOK, task
<1>3. LoopOK'
  BY <1>0 DEF TakeAllRunningTasks, LoopOK, LoopPcs
<1>4. LogOK'
  BY <1>0, RangeOfInputs DEF TakeAllRunningTasks, LogOK, log
<1>a. /\ loop.pc = "take" /\ loop'.then = loop.then
      /\ loop.then \in {"idle", "spawn", "shutdown"}
      /\ \/ active.task = NoTurn /\ loop'.pc = loop.then
         \/ active.task # NoTurn /\ loop'.pc = "cancel" /\ loop'.victim = active.task
  <2>1. CASE active.task = NoTurn
    BY <1>0, <2>1, SetPc DEF TakeAllRunningTasks, At
  <2>2. CASE active.task # NoTurn
    <3>1. loop' = [loop EXCEPT !.pc = "cancel", !.victim = active.task] /\ loop.pc = "take"
      BY <2>2 DEF TakeAllRunningTasks, At
    <3> QED BY <1>0, <2>2, <3>1 DEF LoopOK
  <2> QED BY <2>1, <2>2
<1>b. UNCHANGED <<spawned, pc, cancelled>> /\ active'.task = NoTurn
  BY DEF TakeAllRunningTasks, task, NoActive
<1>5. LoopInv'
  BY <1>0, <1>a, <1>b DEF Invs, LoopInv, ActiveInv
<1>6. ActiveInv'
  BY <1>a, <1>b DEF ActiveInv
<1>7. HeldInv'
  BY <1>0, <1>a, <1>b DEF Invs, HeldInv, Held, Running, NoTurn, Turns
<1>8. UnspawnedInv'
  BY <1>0, <1>b DEF Invs, UnspawnedInv
<1> QED BY <1>1, <1>2, <1>3, <1>4, <1>5, <1>6, <1>7, <1>8 DEF IInv, TypeOK, Invs

\* Cancelling it: it is no longer running.
LEMMA CancelPreserves == ASSUME IInv, CancelTask PROVE IInv'
<1>0. ActiveOK /\ TasksOK /\ LoopOK /\ LogOK /\ Invs
  BY DEF IInv, TypeOK
<1>1. loop.victim \in Turns /\ loop.victim <= spawned /\ active.task = NoTurn
  BY DEF IInv, Invs, LoopInv, ActiveInv, CancelTask, At
<1>2. TasksOK'
  BY <1>0 DEF CancelTask, TasksOK
<1>3. LoopOK'
  BY <1>0 DEF CancelTask, LoopOK, LoopPcs
<1>4. ActiveOK' /\ LogOK'
  BY <1>0 DEF CancelTask, ActiveOK, LogOK, log, ghosts
<1>a. /\ loop.pc = "cancel" /\ loop'.then = loop.then /\ loop'.victim = loop.victim
      /\ loop.then \in {"idle", "spawn", "shutdown"}
      /\ loop'.pc \in {loop.then, "grace"}
  <2>1. PICK p \in {loop.then, "grace"} : loop' = [loop EXCEPT !.pc = p]
    BY DEF CancelTask
  <2>2. loop.pc = "cancel"
    BY DEF CancelTask, At
  <2>3. /\ loop'.pc = p /\ loop'.then = loop.then /\ loop'.victim = loop.victim
        /\ loop.then \in {"idle", "spawn", "shutdown"}
    BY <1>0, <2>1, SetPc
  <2> QED BY <2>2, <2>3
<1>b. UNCHANGED <<spawned, pc, active>>
  BY DEF CancelTask
<1>5. LoopInv'
  BY <1>0, <1>a, <1>b DEF Invs, LoopInv
<1>6. ActiveInv'
  BY <1>1, <1>a, <1>b DEF ActiveInv
<1>7. HeldInv'
  BY <1>0, <1>1, SetPc DEF CancelTask, Invs, HeldInv, Held, Running, TasksOK, At
<1>8. UnspawnedInv'
  <2> SUFFICES ASSUME NEW u \in Turns, u > spawned
               PROVE pc[u] = "unspawned" /\ ~cancelled'[u]
    BY <1>b DEF UnspawnedInv
  <2>1. pc[u] = "unspawned" /\ ~cancelled[u]
    BY <1>0 DEF Invs, UnspawnedInv
  <2>2. u # loop.victim
    BY <1>1, MaxTurnAssumption, <1>0 DEF TasksOK, Turns
  <2>3. cancelled'[u] = cancelled[u]
    BY <1>0, <2>2 DEF CancelTask, TasksOK
  <2> QED BY <2>1, <2>3
<1> QED BY <1>2, <1>3, <1>4, <1>5, <1>6, <1>7, <1>8 DEF IInv, TypeOK, Invs

\* From "grace" to "report" the loop only moves on, and writes the log.
ReportStep == EndGrace \/ RecordAbortMarker \/ FlushAbortMarker \/ EmitTurnAborted
LEMMA ReportPreserves == ASSUME IInv, ReportStep PROVE IInv'
<1>0. ActiveOK /\ TasksOK /\ LoopOK /\ LogOK /\ Invs
  BY DEF IInv, TypeOK
<1>1. loop.victim \in Turns
  BY <1>0 DEF Invs, LoopInv, ReportStep, EndGrace, RecordAbortMarker, FlushAbortMarker,
     EmitTurnAborted, At
<1>2. TasksOK'
  BY <1>0 DEF ReportStep, EndGrace, RecordAbortMarker, FlushAbortMarker, EmitTurnAborted,
     TasksOK, task
<1>3. LoopOK'
  BY <1>0 DEF ReportStep, EndGrace, RecordAbortMarker, FlushAbortMarker, EmitTurnAborted,
     LoopOK, LoopPcs
<1>4. ActiveOK'
  BY <1>0 DEF ReportStep, EndGrace, RecordAbortMarker, FlushAbortMarker, EmitTurnAborted,
     ActiveOK
<1>5. LogOK'
  <2>1. CASE EndGrace
    BY <1>0, <2>1 DEF EndGrace, Persist, LogOK, ghosts
  <2>2. CASE RecordAbortMarker
    BY <1>0, <1>1, <2>2 DEF RecordAbortMarker, LogOK, ghosts
  <2>3. CASE FlushAbortMarker
    BY <1>0, <2>3 DEF FlushAbortMarker, Flush, LogOK, ghosts
  <2>4. CASE EmitTurnAborted
    <3>1. loop.reason \in EventTypes
      BY <1>0 DEF LoopOK, Reasons, EventTypes
    <3> QED BY <1>0, <1>1, <2>4, <3>1 DEF EmitTurnAborted, Emit, StatusOf, LogOK, ghosts
  <2> QED BY <2>1, <2>2, <2>3, <2>4 DEF ReportStep
<1>a. /\ loop'.then = loop.then /\ loop'.victim = loop.victim
      /\ loop.then \in {"idle", "spawn", "shutdown"}
      /\ loop.pc \in {"grace", "marker", "flush", "report"}
      /\ loop'.pc \in {loop.then, "marker", "flush", "report"}
  <2>1. CASE EndGrace
    BY <1>0, <2>1, SetPc DEF EndGrace, At
  <2>2. CASE RecordAbortMarker
    BY <1>0, <2>2, SetPc DEF RecordAbortMarker, At
  <2>3. CASE FlushAbortMarker
    BY <1>0, <2>3, SetPc DEF FlushAbortMarker, At
  <2>4. CASE EmitTurnAborted
    BY <1>0, <2>4, SetPc DEF EmitTurnAborted, At
  <2> QED BY <2>1, <2>2, <2>3, <2>4 DEF ReportStep
<1>b. UNCHANGED <<spawned, pc, cancelled, active>>
  BY DEF ReportStep, EndGrace, RecordAbortMarker, FlushAbortMarker, EmitTurnAborted, task
<1>6. LoopInv'
  BY <1>0, <1>a, <1>b DEF Invs, LoopInv
<1>7. ActiveInv'
  BY <1>0, <1>a, <1>b DEF Invs, ActiveInv
<1>8. HeldInv'
  BY <1>0, <1>a, <1>b DEF Invs, HeldInv, Held, Running
<1>9. UnspawnedInv'
  BY <1>0, <1>b DEF Invs, UnspawnedInv
<1> QED BY <1>2, <1>3, <1>4, <1>5, <1>6, <1>7, <1>8, <1>9 DEF IInv, TypeOK, Invs

\* Spawning: the new turn is held by the loop until it is registered.
LEMMA SpawnPreserves == ASSUME IInv, SpawnTask PROVE IInv'
<1>0. ActiveOK /\ TasksOK /\ LoopOK /\ LogOK /\ Invs
  BY DEF IInv, TypeOK
<1> DEFINE t == spawned + 1
<1>1. /\ loop.pc = "spawn" /\ spawned < MaxTurn /\ active.task = NoTurn
      /\ spawned \in Nat /\ t \in Turns /\ t > spawned
      /\ loop.prompt \in Seq(Inputs)
  <2>1. loop.pc = "spawn" /\ spawned < MaxTurn /\ active.task = NoTurn
    BY <1>0 DEF SpawnTask, At, Invs, LoopInv, ActiveInv
  <2>2. loop.prompt \in Seq(Inputs)
    BY <1>0 DEF LoopOK
  <2>3. spawned \in Nat /\ t \in Turns /\ t > spawned
    BY <1>0, <2>1, MaxTurnAssumption DEF TasksOK, Turns
  <2> QED BY <2>1, <2>2, <2>3
<1>2. /\ pc' = [pc EXCEPT ![t] = "ready"] /\ taken' = [taken EXCEPT ![t] = loop.prompt]
      /\ UNCHANGED <<cancelled, killed, active>> /\ spawned' = t
      /\ loop' = [loop EXCEPT !.pc = "register", !.victim = t, !.prompt = <<>>]
  BY DEF SpawnTask, Proceed
<1> HIDE DEF t
<1>3. TasksOK'
  <2>1. t \in 0..MaxTurn
    BY <1>1, MaxTurnAssumption DEF Turns
  <2> QED BY <1>0, <1>1, <1>2, <2>1 DEF TasksOK, RunningPcs
<1>4. LoopOK'
  <2>1. t \in Turns \cup {NoTurn} /\ <<>> \in Seq(Inputs) /\ LoopOK
    BY <1>0, <1>1
  <2>2. loop' = [loop EXCEPT !.pc = "register", !.victim = t, !.prompt = <<>>]
    BY <1>2
  <2> QED BY <2>1, <2>2 DEF LoopOK, LoopPcs
<1>5. ActiveOK'
  BY <1>0, <1>2 DEF ActiveOK
<1>6. LogOK'
  BY <1>0, <1>1, RangeOfInputs DEF SpawnTask, LogOK, log
<1>a. loop'.pc = "register" /\ loop'.victim = t /\ loop'.then = loop.then
  BY <1>0, <1>2 DEF LoopOK
<1>b. ~cancelled[t]
  BY <1>0, <1>1 DEF Invs, UnspawnedInv
<1>7. LoopInv'
  BY <1>1, <1>2, <1>a, MaxTurnAssumption DEF LoopInv, Turns
<1>8. ActiveInv'
  BY <1>1, <1>2, <1>a, <1>b DEF ActiveInv
<1>9. HeldInv'
  <2> SUFFICES ASSUME NEW u \in Turns, Running(u)', u # t PROVE FALSE
    BY <1>a DEF HeldInv, Held
  <2>1. Running(u)
    BY <1>0, <1>2 DEF Running, TasksOK
  <2> QED BY <1>0, <1>1, <2>1 DEF Invs, HeldInv, Held, NoTurn, Turns
<1>10. UnspawnedInv'
  <2> SUFFICES ASSUME NEW u \in Turns, u > t PROVE pc'[u] = "unspawned" /\ ~cancelled[u]
    BY <1>2 DEF UnspawnedInv
  <2>1. u > spawned /\ u # t
    BY <1>1 DEF Turns, t
  <2>2. pc'[u] = pc[u]
    BY <1>0, <1>2, <2>1 DEF TasksOK
  <2> QED BY <1>0, <2>1, <2>2 DEF Invs, UnspawnedInv
<1> QED BY <1>3, <1>4, <1>5, <1>6, <1>7, <1>8, <1>9, <1>10 DEF IInv, TypeOK, Invs

\* Registering: what the loop held moves into active_turn.
LEMMA RegisterPreserves == ASSUME IInv, RegisterNewActiveTask PROVE IInv'
<1>0. ActiveOK /\ TasksOK /\ LoopOK /\ LogOK /\ Invs
  BY DEF IInv, TypeOK
<1>1. /\ loop.pc = "register" /\ loop.victim \in Turns /\ loop.victim <= spawned
      /\ ~cancelled[loop.victim] /\ active.task = NoTurn
  BY <1>0 DEF RegisterNewActiveTask, At, Invs, LoopInv, ActiveInv
<1>2. /\ active'.task = loop.victim /\ loop'.pc = "idle"
      /\ UNCHANGED <<spawned, pc, cancelled>>
  BY DEF RegisterNewActiveTask, ActiveTurn, Idle, task
<1>3. ActiveOK'
  BY <1>1 DEF RegisterNewActiveTask, ActiveOK, ActiveTurn
<1>4. LoopOK'
  BY DEF RegisterNewActiveTask, LoopOK, Idle, LoopPcs, Reasons, NoTurn
<1>5. TasksOK' /\ LogOK'
  BY <1>0 DEF RegisterNewActiveTask, TasksOK, LogOK, task, log, ghosts
<1>6. LoopInv'
  BY <1>2 DEF LoopInv
<1>7. ActiveInv'
  BY <1>1, <1>2 DEF ActiveInv
<1>8. HeldInv'
  BY <1>0, <1>1, <1>2 DEF Invs, HeldInv, Held, Running, Turns, NoTurn
<1>9. UnspawnedInv'
  BY <1>0, <1>2 DEF Invs, UnspawnedInv
<1> QED BY <1>3, <1>4, <1>5, <1>6, <1>7, <1>8, <1>9 DEF IInv, TypeOK, Invs

\* The end of a shutdown.
LEMMA ShutdownPreserves == ASSUME IInv, CompleteShutdown PROVE IInv'
<1>0. ActiveOK /\ TasksOK /\ LoopOK /\ LogOK /\ Invs
  BY DEF IInv, TypeOK
<1>1. loop.pc = "shutdown" /\ loop'.pc = "stopped" /\ loop'.then = loop.then
  BY <1>0, SetPc DEF CompleteShutdown, At
<1>2. UNCHANGED <<spawned, pc, cancelled, active>>
  BY DEF CompleteShutdown, task
<1>3. LoopOK'
  BY <1>0 DEF CompleteShutdown, LoopOK, LoopPcs
<1>4. LogOK'
  BY <1>0 DEF CompleteShutdown, Flush, LogOK, ghosts
<1>5. ActiveOK' /\ TasksOK'
  BY <1>0 DEF CompleteShutdown, ActiveOK, TasksOK, task
<1>6. Invs'
  BY <1>0, <1>1, <1>2 DEF Invs, LoopInv, ActiveInv, HeldInv, Held, Running, UnspawnedInv
<1> QED BY <1>3, <1>4, <1>5, <1>6 DEF IInv, TypeOK

\* Pushing onto pending_input, from the loop or from a client.
LEMMA PushPreserves ==
  ASSUME IInv, NEW i \in Inputs, PushPendingInput(i), UNCHANGED loop
  PROVE IInv'
<1>0. ActiveOK /\ TasksOK /\ LoopOK /\ LogOK /\ Invs
  BY DEF IInv, TypeOK
<1>1. ActiveOK' /\ active'.task = active.task
  <2>1. Append(active.input, i) \in Seq(Inputs)
    BY <1>0 DEF ActiveOK
  <2>2. active' = [active EXCEPT !.input = Append(active.input, i)]
    BY DEF PushPendingInput
  <2> QED BY <1>0, <2>1, <2>2 DEF ActiveOK
<1>2. UNCHANGED <<spawned, pc, cancelled>>
  BY DEF PushPendingInput, task
<1>3. LogOK'
  BY <1>0 DEF PushPendingInput, LogOK, log
<1>4. TasksOK' /\ LoopOK'
  BY <1>0 DEF PushPendingInput, TasksOK, LoopOK, task
<1>5. Invs'
  BY <1>0, <1>1, <1>2 DEF Invs, LoopInv, ActiveInv, HeldInv, Held, Running, UnspawnedInv
<1> QED BY <1>1, <1>3, <1>4, <1>5 DEF IInv, TypeOK

\* Accepting an operation from the submission queue.
LEMMA SubmissionPreserves == ASSUME IInv, Submission PROVE IInv'
<1>0. ActiveOK /\ TasksOK /\ LoopOK /\ LogOK /\ Invs
  BY DEF IInv, TypeOK
<1>1. ASSUME NEW l \in {"idle", "spawn", "shutdown"}, NEW r \in Reasons,
             NEW p \in Seq(Inputs),
             AbortAllTasks(r, l, p),
             l = "spawn" => spawned < MaxTurn, loop.pc = "idle",
             UNCHANGED <<spawned, active, task, log, ghosts>>
      PROVE IInv'
  <2>1. LoopOK' /\ loop'.pc = "take" /\ loop'.then = l
    BY <1>1 DEF AbortAllTasks, LoopOK, LoopPcs, NoTurn
  <2>2. ActiveOK' /\ TasksOK' /\ LogOK'
    BY <1>0, <1>1 DEF ActiveOK, TasksOK, LogOK, task, log, ghosts
  <2>3. UNCHANGED <<spawned, active, pc, cancelled>>
    BY <1>1 DEF task
  <2>4. Invs'
    BY <1>0, <1>1, <2>1, <2>3
    DEF Invs, LoopInv, ActiveInv, HeldInv, Held, Running, UnspawnedInv
  <2> QED BY <2>1, <2>2, <2>4 DEF IInv, TypeOK
<1>2. ASSUME NEW i \in Inputs, UserInput(i) PROVE IInv'
  <2>1. CASE PushPendingInput(i) /\ UNCHANGED loop
    BY <2>1, PushPreserves
  <2>2. CASE ~(PushPendingInput(i) /\ UNCHANGED loop)
    <3>1. <<i>> \in Seq(Inputs)
      OBVIOUS
    <3> QED BY <1>1, <1>2, <2>2, <3>1 DEF UserInput, Reasons, At
  <2> QED BY <2>1, <2>2
<1>e. <<>> \in Seq(Inputs)
  OBVIOUS
<1>3. CASE SpawnStandalone
  BY <1>1, <1>3, <1>e DEF SpawnStandalone, Reasons, At
<1>4. CASE Interrupt
  BY <1>1, <1>4, <1>e DEF Interrupt, Reasons, At
<1>5. CASE Shutdown
  BY <1>1, <1>5, <1>e DEF Shutdown, Reasons, At
<1>6. ASSUME NEW t \in Turns, NotifyApproval(t) PROVE IInv'
  <2>1. ActiveOK' /\ active'.task = active.task
    BY <1>0, <1>6 DEF NotifyApproval, ActiveOK
  <2>2. TasksOK' /\ LoopOK' /\ LogOK'
    BY <1>0, <1>6 DEF NotifyApproval, TasksOK, LoopOK, LogOK, task, log, ghosts
  <2>3. UNCHANGED <<spawned, pc, cancelled, loop>>
    BY <1>6 DEF NotifyApproval, task
  <2>4. Invs'
    BY <1>0, <2>1, <2>3 DEF Invs, LoopInv, ActiveInv, HeldInv, Held, Running, UnspawnedInv
  <2> QED BY <2>1, <2>2, <2>4 DEF IInv, TypeOK
<1> QED BY <1>2, <1>3, <1>4, <1>5, <1>6 DEF Submission

-----------------------------------------------------------------------------
(* The tasks. *)

\* What a step of task t may do to the parts the invariant is about: nothing but
\* move t on, never into the running part, and empty active_turn of t alone, as
\* t leaves that part.
TaskFrame(t) ==
    /\ UNCHANGED <<loop, spawned, cancelled>>
    /\ \A u \in Turns : u # t => pc'[u] = pc[u]
    /\ pc[t] # "unspawned"
    /\ pc'[t] \in RunningPcs => pc[t] \in RunningPcs
    /\ \/ active'.task = active.task
       \/ active.task = t /\ active'.task = NoTurn /\ pc'[t] \notin RunningPcs

LEMMA FramePreserves ==
  ASSUME IInv, NEW t \in Turns, TaskFrame(t)
  PROVE Invs'
<1>0. Invs
  BY DEF IInv
<1>1. LoopInv'
  BY <1>0 DEF TaskFrame, Invs, LoopInv
<1>2. ActiveInv'
  BY <1>0 DEF TaskFrame, Invs, ActiveInv
<1>3. HeldInv'
  <2> SUFFICES ASSUME NEW u \in Turns, Running(u)' PROVE Held(u)'
    BY DEF HeldInv
  <2>1. Running(u)
    BY DEF Running, TaskFrame
  <2>2. Held(u)
    BY <1>0, <2>1 DEF Invs, HeldInv
  <2> QED BY <2>2 DEF Held, TaskFrame, Running
<1>4. UnspawnedInv'
  BY <1>0 DEF TaskFrame, Invs, UnspawnedInv
<1> QED BY <1>1, <1>2, <1>3, <1>4 DEF Invs

\* A step that only moves the program counter, within a part or out of it.
LEMMA GotoFrame ==
  ASSUME TasksOK, NEW t \in Turns, NEW to \in RunningPcs \cup FinalPcs,
         pc' = [pc EXCEPT ![t] = to], UNCHANGED <<loop, spawned, cancelled>>,
         active'.task = active.task,
         pc[t] \in RunningPcs \/ (pc[t] # "unspawned" /\ to \in FinalPcs)
  PROVE TaskFrame(t)
<1>1. pc'[t] = to /\ \A u \in Turns : u # t => pc'[u] = pc[u]
  BY DEF TasksOK
<1>2. "unspawned" \notin RunningPcs /\ RunningPcs \cap FinalPcs = {}
  BY DEF RunningPcs, FinalPcs
<1> QED BY <1>1, <1>2 DEF TaskFrame

\* The types of what Proceed writes.
LEMMA ProceedType ==
  ASSUME TasksOK, NEW t \in Turns, NEW to \in RunningPcs \cup FinalPcs,
         NEW items \in Seq(Inputs), Proceed(t, to, items), UNCHANGED spawned
  PROVE TasksOK'
BY DEF TasksOK, Proceed

LEMMA GotoType ==
  ASSUME TasksOK, NEW t \in Turns, NEW to \in RunningPcs \cup FinalPcs,
         Goto(t, to), UNCHANGED spawned
  PROVE TasksOK'
BY DEF TasksOK, Goto

\* Steps that touch nothing but t's program counter.
QuietStep(t) == SamplingDone(t) \/ ApprovalResolved(t) \/ NotifyDone(t)
LEMMA QuietPreserves == ASSUME IInv, NEW t \in Turns, QuietStep(t) PROVE IInv' /\ TaskFrame(t)
<1>0. ActiveOK /\ TasksOK /\ LoopOK /\ LogOK /\ Invs
  BY DEF IInv, TypeOK
<1>1. PICK to \in RunningPcs \cup FinalPcs :
         /\ Goto(t, to) /\ UNCHANGED <<spawned, active, loop, log, ghosts>>
         /\ pc[t] \in RunningPcs \/ (pc[t] # "unspawned" /\ to \in FinalPcs)
  BY DEF QuietStep, SamplingDone, ApprovalResolved, NotifyDone,
     RunningPcs, FinalPcs
<1>2. TasksOK'
  BY <1>0, <1>1, GotoType
<1>3. ActiveOK' /\ LoopOK' /\ LogOK'
  BY <1>0, <1>1 DEF ActiveOK, LoopOK, LogOK, log, ghosts
<1>4. TaskFrame(t)
  BY <1>0, <1>1, GotoFrame DEF Goto
<1> QED BY <1>2, <1>3, <1>4, FramePreserves DEF IInv, TypeOK

\* Steps that also write the log: events, durable markers, the rollout file.
LoggingStep(t) == \/ StartTurn(t) \/ TurnError(t) \/ EndRun(t) \/ EmitTurnComplete(t)
                  \/ Materialize(t) \/ StandaloneDone(t)
LEMMA LoggingPreserves == ASSUME IInv, NEW t \in Turns, LoggingStep(t) PROVE IInv' /\ TaskFrame(t)
<1>0. ActiveOK /\ TasksOK /\ LoopOK /\ LogOK /\ Invs
  BY DEF IInv, TypeOK
<1>1. PICK to \in RunningPcs \cup FinalPcs :
         /\ Goto(t, to) /\ UNCHANGED <<spawned, active, loop>>
         /\ pc[t] \in RunningPcs \/ (pc[t] # "unspawned" /\ to \in FinalPcs)
  BY DEF LoggingStep, StartTurn, TurnError, EndRun, EmitTurnComplete, Materialize, StandaloneDone,
     RunningPcs, FinalPcs
<1>2. TasksOK'
  BY <1>0, <1>1, GotoType
<1>3. ActiveOK' /\ LoopOK'
  BY <1>0, <1>1 DEF ActiveOK, LoopOK
<1>4. LogOK'
  <2>1. CASE StartTurn(t)
    BY <1>0, <2>1 DEF StartTurn, Emit, StatusOf, EventTypes, LogOK, ghosts
  <2>2. CASE EndRun(t)
    BY <1>0, <2>2 DEF EndRun, Flush, LogOK, ghosts
  <2>3. CASE EmitTurnComplete(t)
    BY <1>0, <2>3 DEF EmitTurnComplete, Emit, StatusOf, EventTypes, LogOK, ghosts
  <2>4. CASE TurnError(t)
    BY <1>0, <2>4 DEF TurnError, LogOK, ghosts
  <2>5. CASE Materialize(t) \/ StandaloneDone(t)
    <3>1. rollout' \in {"deferred", "open", "failed", "none"} /\ durable' \in SUBSET Turns
      BY <1>0, <2>5 DEF Materialize, StandaloneDone, Persist, LogOK
    <3> QED BY <1>0, <2>5, <3>1 DEF Materialize, StandaloneDone, LogOK, ghosts
  <2> QED BY <2>1, <2>2, <2>3, <2>4, <2>5 DEF LoggingStep
<1>5. TaskFrame(t)
  BY <1>0, <1>1, GotoFrame DEF Goto
<1> QED BY <1>2, <1>3, <1>4, <1>5, FramePreserves DEF IInv, TypeOK

\* Steps that move inputs: out of the task's locals, or out of active_turn.
InputStep(t) == \/ FailBeforePrompt(t) \/ RecordTaken(t, "prompt", "persist")
                \/ RecordTaken(t, "leftover", "complete") \/ Die(t)
LEMMA InputPreserves == ASSUME IInv, NEW t \in Turns, InputStep(t) PROVE IInv' /\ TaskFrame(t)
<1>0. /\ ActiveOK /\ TasksOK /\ LoopOK /\ LogOK /\ Invs
      /\ taken[t] \in Seq(Inputs) /\ <<>> \in Seq(Inputs)
  BY DEF IInv, TypeOK, TasksOK
<1>1. PICK to \in RunningPcs \cup FinalPcs :
         /\ Proceed(t, to, <<>>) /\ UNCHANGED <<spawned, active, loop>>
         /\ pc[t] \in RunningPcs \/ (pc[t] # "unspawned" /\ to \in FinalPcs)
  BY DEF InputStep, FailBeforePrompt, RecordTaken, Die, Alive, RunningPcs, FinalPcs
<1>2. TasksOK'
  BY <1>0, <1>1, ProceedType
<1>3. ActiveOK' /\ LoopOK'
  BY <1>0, <1>1 DEF ActiveOK, LoopOK
<1>4. LogOK'
  <2>1. ASSUME NEW p, NEW q, RecordTaken(t, p, q) PROVE LogOK'
    <3>1. history \o taken[t] \in Seq(Inputs)
      BY <1>0 DEF LogOK
    <3> QED BY <1>0, <2>1, <3>1 DEF RecordTaken, LogOK, ghosts
  <2>2. CASE FailBeforePrompt(t) \/ Die(t)
    <3>1. Range(taken[t]) \subseteq Inputs
      BY <1>0, RangeOfInputs
    <3>2. /\ discarded' = discarded \cup Range(taken[t])
          /\ UNCHANGED <<history, queued, durable, rollout, sent, accepted>>
          /\ status' \in {status, "Errored"}
      BY <2>2 DEF FailBeforePrompt, Die, log
    <3> QED BY <1>0, <3>1, <3>2 DEF LogOK
  <2> QED BY <2>1, <2>2 DEF InputStep
<1>5. TaskFrame(t)
  BY <1>0, <1>1, GotoFrame DEF Proceed
<1> QED BY <1>2, <1>3, <1>4, <1>5, FramePreserves DEF IInv, TypeOK

\* Recording polled input, item by item.
LEMMA PolledPreserves == ASSUME IInv, NEW t \in Turns, RecordPolled(t) PROVE IInv' /\ TaskFrame(t)
<1>0. /\ ActiveOK /\ TasksOK /\ LoopOK /\ LogOK /\ Invs
      /\ taken[t] \in Seq(Inputs) /\ history \in Seq(Inputs)
  BY DEF IInv, TypeOK, TasksOK, LogOK
<1>1. PICK to \in {"record", "sampling"}, items \in Seq(Inputs) :
         Proceed(t, to, items) /\ history' \in Seq(Inputs)
  <2>1. CASE taken[t] = <<>>
    <3>1. Goto(t, "sampling") /\ UNCHANGED history
      BY <2>1 DEF RecordPolled
    <3>2. taken' = [taken EXCEPT ![t] = taken[t]]
      BY <1>0, <3>1 DEF Goto, TasksOK
    <3> QED BY <1>0, <3>1, <3>2 DEF Goto, Proceed
  <2>2. CASE taken[t] # <<>>
    <3>1. Head(taken[t]) \in Inputs /\ Tail(taken[t]) \in Seq(Inputs)
      BY <1>0, <2>2
    <3>2. Append(history, Head(taken[t])) \in Seq(Inputs)
      BY <1>0, <3>1
    <3> QED BY <2>2, <3>1, <3>2 DEF RecordPolled
  <2> QED BY <2>1, <2>2
<1>2. /\ pc[t] \in RunningPcs /\ to \in RunningPcs
      /\ UNCHANGED <<spawned, active, loop, queued, durable, rollout, sent, status, ghosts>>
  BY DEF RecordPolled, RunningPcs
<1>3. TasksOK'
  BY <1>0, <1>1, <1>2, ProceedType
<1>4. ActiveOK' /\ LoopOK' /\ LogOK'
  BY <1>0, <1>1, <1>2 DEF ActiveOK, LoopOK, LogOK, ghosts
<1>5. TaskFrame(t)
  BY <1>0, <1>1, <1>2, GotoFrame DEF Proceed
<1> QED BY <1>3, <1>4, <1>5, FramePreserves DEF IInv, TypeOK

\* Polling pending input.
LEMMA PollPreserves == ASSUME IInv, NEW t \in Turns, GetPendingInput(t) PROVE IInv' /\ TaskFrame(t)
<1>0. /\ ActiveOK /\ TasksOK /\ LoopOK /\ LogOK /\ Invs
      /\ active.input \in Seq(Inputs) /\ <<>> \in Seq(Inputs)
  BY DEF IInv, TypeOK, ActiveOK
<1>1. ActiveOK' /\ active'.task = active.task
  BY <1>0 DEF GetPendingInput, ActiveOK
<1>2. /\ pc[t] \in RunningPcs /\ "record" \in RunningPcs
      /\ Proceed(t, "record", active.input) /\ UNCHANGED <<spawned, loop, log, ghosts>>
  BY DEF GetPendingInput, RunningPcs
<1>3. TasksOK'
  BY <1>0, <1>2, ProceedType
<1>4. LoopOK' /\ LogOK'
  BY <1>0, <1>2 DEF LoopOK, LogOK, log, ghosts
<1>5. TaskFrame(t)
  BY <1>0, <1>1, <1>2, GotoFrame DEF Proceed
<1> QED BY <1>1, <1>3, <1>4, <1>5, FramePreserves DEF IInv, TypeOK

\* Asking the user.
LEMMA AskPreserves == ASSUME IInv, NEW t \in Turns, RequestApproval(t) PROVE IInv' /\ TaskFrame(t)
<1>0. ActiveOK /\ TasksOK /\ LoopOK /\ LogOK /\ Invs
  BY DEF IInv, TypeOK
<1>1. ActiveOK' /\ active'.task = active.task
  BY <1>0 DEF RequestApproval, ActiveOK
<1>2. /\ pc[t] \in RunningPcs /\ "waiting" \in RunningPcs
      /\ Goto(t, "waiting") /\ UNCHANGED <<spawned, loop, log, ghosts>>
  BY DEF RequestApproval, RunningPcs
<1>3. TasksOK'
  BY <1>0, <1>2, GotoType
<1>4. LoopOK' /\ LogOK'
  BY <1>0, <1>2 DEF LoopOK, LogOK, log, ghosts
<1>5. TaskFrame(t)
  BY <1>0, <1>1, <1>2, GotoFrame DEF Goto
<1> QED BY <1>1, <1>3, <1>4, <1>5, FramePreserves DEF IInv, TypeOK

\* Finishing: only the turn in active_turn clears it.
LEMMA FinishPreserves == ASSUME IInv, NEW t \in Turns, FinishTask(t) PROVE IInv' /\ TaskFrame(t)
<1>0. /\ ActiveOK /\ TasksOK /\ LoopOK /\ LogOK /\ Invs
      /\ active.input \in Seq(Inputs)
  BY DEF IInv, TypeOK, ActiveOK
<1>1. /\ pc[t] = "finishing" /\ UNCHANGED <<spawned, loop, log, ghosts, cancelled>>
      /\ "finishing" \in RunningPcs /\ {"leftover", "complete"} \subseteq FinalPcs
      /\ "leftover" \notin RunningPcs /\ "finishing" # "unspawned"
  BY DEF FinishTask, Goto, RunningPcs, FinalPcs
<1>2. LoopOK' /\ LogOK'
  BY <1>0, <1>1 DEF LoopOK, LogOK, log, ghosts
<1>3. CASE RemoveTask(t)
  <2>1. /\ pc' = [pc EXCEPT ![t] = "leftover"]
        /\ taken' = [taken EXCEPT ![t] = active.input]
        /\ killed' = [killed EXCEPT ![t] = TRUE]
        /\ active' = NoActive /\ active.task = t
    BY <1>3 DEF FinishTask, RemoveTask, LeftoverInput
  <2>2. ActiveOK' /\ active'.task = NoTurn
    BY <2>1 DEF ActiveOK, NoActive, NoTurn
  <2>3. TasksOK'
    BY <1>0, <1>1, <2>1 DEF TasksOK
  <2>4. pc'[t] = "leftover" /\ \A u \in Turns : u # t => pc'[u] = pc[u]
    BY <1>0, <2>1 DEF TasksOK
  <2>5. TaskFrame(t)
    BY <1>1, <2>1, <2>2, <2>4 DEF TaskFrame
  <2> QED BY <1>2, <2>2, <2>3, <2>5, FramePreserves DEF IInv, TypeOK
<1>4. CASE ~RemoveTask(t)
  <2>1. Goto(t, "complete") /\ UNCHANGED active
    BY <1>4 DEF FinishTask
  <2>2. ActiveOK' /\ TasksOK'
    BY <1>0, <1>1, <2>1, GotoType DEF ActiveOK
  <2>3. TaskFrame(t)
    BY <1>0, <1>1, <2>1, GotoFrame DEF Goto
  <2> QED BY <1>2, <2>2, <2>3, FramePreserves DEF IInv, TypeOK
<1> QED BY <1>3, <1>4

-----------------------------------------------------------------------------
(* The theorems. *)

LEMMA TaskPreserves ==
  ASSUME IInv, NEW t \in Turns, TaskStep(t)
  PROVE IInv' /\ TaskFrame(t)
BY QuietPreserves, LoggingPreserves, InputPreserves, PolledPreserves, PollPreserves, AskPreserves,
   FinishPreserves
DEF TaskStep, QuietStep, LoggingStep, InputStep

LEMMA NextIInv == IInv /\ [Next]_vars => IInv'
<1> SUFFICES ASSUME IInv, [Next]_vars PROVE IInv'
  OBVIOUS
<1>1. CASE Submission
  BY <1>1, SubmissionPreserves
<1>2. CASE LoopStep
  BY <1>2, TakePreserves, CancelPreserves, ReportPreserves, SpawnPreserves,
     RegisterPreserves, ShutdownPreserves
  DEF LoopStep, Abort, ReportStep
<1>3. ASSUME NEW i \in Inputs, SteerInput(i) PROVE IInv'
  BY <1>3, PushPreserves DEF SteerInput
<1>4. ASSUME NEW t \in Turns, TaskStep(t) PROVE IInv'
  BY <1>4, TaskPreserves
<1>5. CASE UNCHANGED vars
  BY <1>5 DEF vars, IInv, TypeOK, ActiveOK, TasksOK, LoopOK, LogOK, Invs, LoopInv,
     ActiveInv, HeldInv, Held, Running, UnspawnedInv
<1>6. CASE RecorderFails
  <2>1. ActiveOK' /\ TasksOK' /\ LoopOK' /\ LogOK'
    BY <1>6 DEF RecorderFails, IInv, TypeOK, ActiveOK, TasksOK, LoopOK, LogOK, task, ghosts
  <2>2. Invs'
    BY <1>6 DEF RecorderFails, IInv, Invs, LoopInv, ActiveInv, HeldInv, Held, Running,
       UnspawnedInv, task
  <2> QED BY <2>1, <2>2 DEF IInv, TypeOK
<1> QED BY <1>1, <1>2, <1>3, <1>4, <1>5, <1>6 DEF Next

\* The inductive invariant holds throughout.
THEOREM Invariance == Spec => []IInv
BY InitIInv, NextIInv, PTL DEF Spec

\* Every variable keeps its type, whatever the interleaving.
THEOREM TypeCorrect == Spec => []TypeOK
<1>1. IInv => TypeOK
  BY DEF IInv
<1> QED BY <1>1, Invariance, PTL

\* Two turns that run are held in one place, so they are one turn.
LEMMA HeldOnce == IInv => AtMostOneRunning
<1> SUFFICES ASSUME IInv, NEW t \in Turns, NEW u \in Turns, Running(t), Running(u)
             PROVE t = u
  BY DEF AtMostOneRunning
<1>1. Held(t) /\ Held(u)
  BY DEF IInv, Invs, HeldInv
<1>2. loop.pc \in {"register", "cancel"} => active.task = NoTurn
  BY DEF IInv, Invs, ActiveInv
<1> QED BY <1>1, <1>2 DEF Held, NoTurn, Turns

\* codex.rs:514 for any number of turns: at most one task runs.
THEOREM MutualExclusion == Spec => []AtMostOneRunning
BY HeldOnce, Invariance, PTL

\* What is in active_turn can be aborted, and registering never overwrites it.
THEOREM ActiveAbortable == Spec => []ActiveTurnAbortable
<1>1. IInv => ActiveTurnAbortable
  BY DEF IInv, Invs, ActiveInv, ActiveTurnAbortable, At
<1> QED BY <1>1, Invariance, PTL

-----------------------------------------------------------------------------
(* The session implements SessionSlot. *)

\* RunningTurn names the running turn, if there is one.
LEMMA RunningTurnIs ==
  ASSUME AtMostOneRunning
  PROVE /\ \A t \in Turns : Running(t) => RunningTurn = t
        /\ (\A t \in Turns : ~Running(t)) => RunningTurn = NoTurn
BY DEF AtMostOneRunning, RunningTurn

\* Only tokio::spawn makes a turn run: no other step revives one.
LEMMA NoRevival ==
  ASSUME IInv, Next, ~SpawnTask
  PROVE UNCHANGED spawned /\ \A t \in Turns : Running(t)' => Running(t)
<1>1. CASE CancelTask
  <2>1. cancelled \in [Turns -> BOOLEAN] /\ loop.victim \in Turns
    BY <1>1 DEF IInv, TypeOK, TasksOK, Invs, LoopInv, CancelTask, At
  <2> QED BY <1>1, <2>1 DEF CancelTask, Running
<1>2. CASE (LoopStep /\ ~CancelTask) \/ Submission \/ RecorderFails \/ \E i \in Inputs : SteerInput(i)
  <2>1. UNCHANGED <<spawned, pc, cancelled>>
    BY <1>2 DEF LoopStep, Abort, TakeAllRunningTasks, EndGrace, RecordAbortMarker,
       FlushAbortMarker, EmitTurnAborted, RegisterNewActiveTask, CompleteShutdown,
       Submission, UserInput, SpawnStandalone, Interrupt, Shutdown, NotifyApproval,
       SteerInput, PushPendingInput, RecorderFails, task
  <2> QED BY <2>1 DEF Running
<1>3. ASSUME NEW t \in Turns, TaskStep(t)
      PROVE UNCHANGED spawned /\ \A u \in Turns : Running(u)' => Running(u)
  BY <1>3, TaskPreserves DEF TaskFrame, Running
<1> QED BY <1>1, <1>2, <1>3 DEF Next

\* Every step of the session is a step of the slot, or leaves it alone.
LEMMA SlotStep ==
  ASSUME IInv, AtMostOneRunning, AtMostOneRunning', [Next]_vars
  PROVE [Slot!Next]_<<RunningTurn, spawned>>
<1>1. CASE SpawnTask
  <2>1. \A t \in Turns : ~Running(t)
    BY <1>1 DEF SpawnTask, At, IInv, Invs, HeldInv, Held, ActiveInv, Turns, NoTurn
  <2>2. loop.pc = "spawn" /\ spawned < MaxTurn
    BY <1>1 DEF SpawnTask, At, IInv, Invs, LoopInv
  <2>3. PICK n \in Turns : n = spawned + 1 /\ n > spawned
    BY <2>2, MaxTurnAssumption DEF IInv, TypeOK, TasksOK, Turns
  <2>4. /\ pc' = [pc EXCEPT ![n] = "ready"]
        /\ cancelled' = cancelled /\ spawned' = n
    BY <1>1, <2>3 DEF SpawnTask, Proceed
  <2>5. Running(n)'
    <3>1. ~cancelled[n]
      BY <2>3 DEF IInv, Invs, UnspawnedInv
    <3>2. pc \in [Turns -> RunningPcs \cup FinalPcs \cup {"unspawned"}]
      BY DEF IInv, TypeOK, TasksOK
    <3>3. pc'[n] = "ready"
      BY <2>4, <3>2
    <3> QED BY <2>4, <3>1, <3>3 DEF Running, RunningPcs
  <2>6. RunningTurn = NoTurn /\ RunningTurn' = n
    BY <2>1, <2>5, RunningTurnIs DEF AtMostOneRunning, RunningTurn
  <2> QED BY <2>3, <2>4, <2>6 DEF Slot!Next, Slot!Begin, Slot!Free, NoTurn
<1>2. CASE Next /\ ~SpawnTask
  <2>1. UNCHANGED spawned /\ \A t \in Turns : Running(t)' => Running(t)
    BY <1>2, NoRevival
  <2>2. CASE \E t \in Turns : Running(t)'
    <3>1. PICK t \in Turns : Running(t)'
      BY <2>2
    <3>2. RunningTurn = t /\ RunningTurn' = t
      BY <2>1, <3>1 DEF AtMostOneRunning, RunningTurn
    <3> QED BY <2>1, <3>2
  <2>3. CASE \A t \in Turns : ~Running(t)'
    <3>1. RunningTurn' = NoTurn
      BY <2>3 DEF RunningTurn
    <3> QED BY <2>1, <3>1 DEF Slot!Next, Slot!End, Slot!Free, NoTurn
  <2> QED BY <2>2, <2>3
<1>3. CASE UNCHANGED vars
  BY <1>3 DEF vars, RunningTurn, Running
<1> QED BY <1>1, <1>2, <1>3

\* The session implements SessionSlot: turns run one after the other, each
\* entering a free slot, and a turn that was cancelled or left never runs again.
THEOREM SlotRefinement == Spec => ImplementsSlot
<1>1. Init => Slot!Init
  BY DEF Init, Slot!Init, Slot!Free, RunningTurn, Running, RunningPcs, NoTurn
<1>2. IInv /\ IInv' /\ [Next]_vars => [Slot!Next]_<<RunningTurn, spawned>>
  <2>1. IInv' => AtMostOneRunning'
    BY HeldOnce, PTL
  <2> QED BY <2>1, HeldOnce, SlotStep
<1> QED BY <1>1, <1>2, Invariance, PTL DEF Spec, ImplementsSlot, Slot!Spec

-----------------------------------------------------------------------------
(* What the steps do to the parts these invariants are about. *)

\* A step of a task cancels nobody, reports no abort, and only adds to the log.
TaskRecords(t) ==
    /\ UNCHANGED <<loop, spawned, cancelled, queued>>
    /\ durable \subseteq durable'
    /\ rollout' = "open" => rollout = "open" \/ queued \subseteq durable'
    /\ sent \subseteq sent' /\ sent' \ sent \subseteq {"Started", "Complete"} \X Turns
    /\ active'.task \in {active.task, NoTurn}

LEMMA TaskKeepsRecords ==
  ASSUME IInv, NEW t \in Turns, TaskStep(t)
  PROVE TaskRecords(t)
<1>1. UNCHANGED <<loop, spawned, cancelled>> /\ active'.task \in {active.task, NoTurn}
  BY TaskPreserves DEF TaskFrame
<1>2. /\ UNCHANGED queued /\ durable \subseteq durable'
      /\ rollout' = "open" => rollout = "open" \/ queued \subseteq durable'
  BY DEF TaskStep, Materialize, Persist, Flush, StartTurn, FailBeforePrompt, RecordTaken, GetPendingInput, RecordPolled,
     SamplingDone, TurnError, RequestApproval, ApprovalResolved, StandaloneDone, EndRun,
     FinishTask, EmitTurnComplete, NotifyDone, Die, log
<1>3. sent \subseteq sent' /\ sent' \ sent \subseteq {"Started", "Complete"} \X Turns
  <2>1. CASE StartTurn(t) \/ EmitTurnComplete(t)
    BY <2>1 DEF StartTurn, EmitTurnComplete, Emit
  <2>2. CASE ~(StartTurn(t) \/ EmitTurnComplete(t))
    BY <2>2 DEF TaskStep, Materialize, FailBeforePrompt, RecordTaken, GetPendingInput,
       RecordPolled, SamplingDone, TurnError, RequestApproval, ApprovalResolved, StandaloneDone, EndRun,
       FinishTask, NotifyDone, Die, log
  <2> QED BY <2>1, <2>2
<1> QED BY <1>1, <1>2, <1>3 DEF TaskRecords

\* A submission and a steered input leave the records alone; the loop stays where it
\* is or goes to "take".
FrontStep == Submission \/ \E i \in Inputs : SteerInput(i)
FrontRecords ==
    /\ UNCHANGED <<spawned, pc, taken, cancelled, history, queued, durable, rollout, sent,
                   discarded>>
    /\ active'.task = active.task
    /\ UNCHANGED loop \/ loop'.pc = "take"

LEMMA FrontKeepsRecords == ASSUME IInv, FrontStep PROVE FrontRecords
<1>0. ActiveOK
  BY DEF IInv, TypeOK
<1>1. ASSUME NEW i \in Inputs, PushPendingInput(i), UNCHANGED loop PROVE FrontRecords
  <2>1. active'.task = active.task
    BY <1>0, <1>1 DEF PushPendingInput, ActiveOK
  <2> QED BY <1>1, <2>1 DEF FrontRecords, PushPendingInput, task, log
<1>2. ASSUME NEW r, NEW l, NEW p, AbortAllTasks(r, l, p),
             UNCHANGED <<spawned, active, task, log, ghosts>>
      PROVE FrontRecords
  BY <1>2 DEF FrontRecords, AbortAllTasks, task, log, ghosts
<1>3. ASSUME NEW t \in Turns, NotifyApproval(t) PROVE FrontRecords
  <2>1. active'.task = active.task
    BY <1>0, <1>3 DEF NotifyApproval, ActiveOK
  <2> QED BY <1>3, <2>1 DEF FrontRecords, NotifyApproval, task, log, ghosts
<1>4. CASE SpawnStandalone \/ Interrupt \/ Shutdown
  BY <1>2, <1>4 DEF SpawnStandalone, Interrupt, Shutdown
<1>5. ASSUME NEW i \in Inputs, UserInput(i) PROVE FrontRecords
  BY <1>1, <1>2, <1>5 DEF UserInput
<1>6. ASSUME NEW i \in Inputs, SteerInput(i) PROVE FrontRecords
  BY <1>1, <1>6 DEF SteerInput
<1> QED BY <1>3, <1>4, <1>5, <1>6 DEF FrontStep, Submission

\* After the take the loop aborts what it has taken, or goes on.
LEMMA TakeMoves ==
  ASSUME LoopOK, TakeAllRunningTasks
  PROVE \/ loop'.pc = loop.then
        \/ active.task # NoTurn /\ loop'.pc = "cancel" /\ loop'.victim = active.task
<1>1. CASE active.task = NoTurn
  <2>1. loop' = [loop EXCEPT !.pc = loop.then]
    BY <1>1 DEF TakeAllRunningTasks
  <2> QED BY <2>1, SetPc
<1>2. CASE active.task # NoTurn
  <2>1. loop' = [loop EXCEPT !.pc = "cancel", !.victim = active.task]
    BY <1>2 DEF TakeAllRunningTasks
  <2> QED BY <1>2, <2>1 DEF LoopOK
<1> QED BY <1>1, <1>2

-----------------------------------------------------------------------------
(* The marker of an interrupted turn. *)

\* A marker that will be on disk as soon as there is a file.
Secured(t) == t \in queued /\ (rollout = "open" => t \in durable)

\* The marker is queued before the flush, secured by it, and stays so whichever turn
\* creates the file.
MarkerInv ==
    /\ \A t \in Turns : Emitted("Interrupted", t) => Secured(t)
    /\ loop.pc = "flush" => loop.victim \in queued
    /\ loop.pc = "report" /\ loop.reason = "Interrupted" => Secured(loop.victim)

LEMMA LoopKeepsMarkers == ASSUME IInv, MarkerInv, LoopStep PROVE MarkerInv'
<1>0. LoopOK /\ Reasons = {"Interrupted", "Replaced"}
      /\ loop.then \in {"idle", "spawn", "shutdown"}
  BY DEF IInv, TypeOK, Reasons, LoopOK
<1>1. ASSUME UNCHANGED <<queued, durable, rollout, sent>>, loop'.pc \notin {"flush", "report"}
      PROVE MarkerInv'
  BY <1>1 DEF MarkerInv, Secured, Emitted
<1>2. CASE TakeAllRunningTasks
  <2>1. loop'.pc \in {loop.then, "cancel"}
    BY <1>0, <1>2, TakeMoves
  <2> QED BY <1>0, <1>1, <1>2, <2>1 DEF TakeAllRunningTasks, log
<1>3. CASE CancelTask
  <2>1. loop'.pc \in {loop.then, "grace"}
    BY <1>0, <1>3, SetPc DEF CancelTask
  <2> QED BY <1>0, <1>1, <1>3, <2>1 DEF CancelTask, log
<1>4. CASE EndGrace
  <2>1. /\ loop' = [loop EXCEPT !.pc = IF loop.reason = "Interrupted" THEN "marker" ELSE "report"]
        /\ UNCHANGED <<queued, sent>> /\ durable \subseteq durable'
        /\ rollout' = "open" => rollout = "open" \/ queued \subseteq durable'
    BY <1>4 DEF EndGrace, Persist
  <2>2. loop'.reason = loop.reason /\ loop'.pc = IF loop.reason = "Interrupted" THEN "marker" ELSE "report"
    BY <1>0, <2>1 DEF LoopOK
  <2> QED BY <2>1, <2>2 DEF MarkerInv, Secured, Emitted
<1>5. CASE RecordAbortMarker
  <2>1. loop'.pc = "flush" /\ loop'.victim = loop.victim
    BY <1>0, <1>5, SetPc DEF RecordAbortMarker
  <2> QED BY <1>5, <2>1 DEF RecordAbortMarker, MarkerInv, Secured, Emitted
<1>6. CASE FlushAbortMarker
  <2>1. loop'.pc = "report" /\ loop'.victim = loop.victim /\ loop.pc = "flush"
    BY <1>0, <1>6, SetPc DEF FlushAbortMarker, At
  <2>2. durable \subseteq durable' /\ (rollout = "open" => queued \subseteq durable')
    BY <1>6 DEF FlushAbortMarker, Flush
  <2> QED BY <1>6, <2>1, <2>2 DEF FlushAbortMarker, MarkerInv, Secured, Emitted
<1>7. CASE EmitTurnAborted
  <2>1. loop'.pc = loop.then /\ loop.pc = "report"
    BY <1>0, <1>7, SetPc DEF EmitTurnAborted, At
  <2>2. \A t \in Turns : Emitted("Interrupted", t)' => Secured(t)'
    BY <1>7, <2>1 DEF EmitTurnAborted, Emit, MarkerInv, Secured, Emitted
  <2> QED BY <1>0, <2>1, <2>2 DEF MarkerInv
<1>8. CASE SpawnTask
  <2>1. loop'.pc = "register"
    BY <1>0, <1>8 DEF SpawnTask, LoopOK
  <2> QED BY <1>1, <1>8, <2>1 DEF SpawnTask, log
<1>9. CASE RegisterNewActiveTask
  BY <1>1, <1>9 DEF RegisterNewActiveTask, Idle, log
<1>10. CASE CompleteShutdown
  <2>1. loop'.pc = "stopped"
    BY <1>0, <1>10, SetPc DEF CompleteShutdown
  <2>2. durable \subseteq durable'
    BY <1>10 DEF CompleteShutdown, Flush
  <2> QED BY <1>10, <2>1, <2>2 DEF CompleteShutdown, MarkerInv, Secured, Emitted
<1> QED BY <1>2, <1>3, <1>4, <1>5, <1>6, <1>7, <1>8, <1>9, <1>10 DEF LoopStep, Abort

LEMMA NextMarkerInv == IInv /\ MarkerInv /\ [Next]_vars => MarkerInv'
<1> SUFFICES ASSUME IInv, MarkerInv, [Next]_vars PROVE MarkerInv'
  OBVIOUS
<1>1. CASE LoopStep
  BY <1>1, LoopKeepsMarkers
<1>2. CASE FrontStep
  BY <1>2, FrontKeepsRecords DEF FrontRecords, MarkerInv, Secured, Emitted
<1>3. ASSUME NEW t \in Turns, TaskStep(t) PROVE MarkerInv'
  BY <1>3, TaskKeepsRecords DEF TaskRecords, MarkerInv, Secured, Emitted
<1>4. CASE RecorderFails
  BY <1>4 DEF RecorderFails, MarkerInv, Secured, Emitted
<1>5. CASE UNCHANGED vars
  BY <1>5 DEF vars, MarkerInv, Secured, Emitted
<1> QED BY <1>1, <1>2, <1>3, <1>4, <1>5 DEF Next, FrontStep

\* Once the rollout has its file, and until the recorder fails, the marker of every
\* turn reported as interrupted is in it: those flushed before there was a file came
\* with the first persist.  For any number of turns.
THEOREM MarkerKept == Spec => []MarkerInOpenRollout
<1>1. Init => MarkerInv
  BY DEF Init, MarkerInv, Emitted, Idle
<1>2. MarkerInv => MarkerInOpenRollout
  BY DEF MarkerInv, Secured, MarkerInOpenRollout
<1> QED BY <1>1, <1>2, NextMarkerInv, Invariance, PTL DEF Spec

-----------------------------------------------------------------------------
(* A replaced turn reports before its successor starts. *)

\* Whatever is in active_turn, or in the hands of the loop, is the youngest turn;
\* a cancelled turn has reported, or is the one the loop is aborting.
Reported(t) == Emitted("Replaced", t) \/ Emitted("Interrupted", t)
Aborting(t) == loop.pc \in {"grace", "marker", "flush", "report"} /\ loop.victim = t
ReportInv ==
    /\ active.task # NoTurn => active.task = spawned
    /\ loop.pc \in {"cancel", "grace", "marker", "flush", "report", "register"}
         => loop.victim = spawned
    /\ \A t \in Turns : cancelled[t] => Reported(t) \/ Aborting(t)

LEMMA LoopKeepsReports == ASSUME IInv, ReportInv, LoopStep PROVE ReportInv'
<1>0. LoopOK /\ TasksOK /\ Invs /\ loop.then \in {"idle", "spawn", "shutdown"}
  BY DEF IInv, TypeOK, LoopOK
<1>1. CASE TakeAllRunningTasks
  <2>1. /\ UNCHANGED <<spawned, cancelled, sent>> /\ active'.task = NoTurn
        /\ loop.pc = "take"
    BY <1>1 DEF TakeAllRunningTasks, task, log, NoActive, At
  <2>2. \/ loop'.pc = loop.then
        \/ active.task # NoTurn /\ loop'.pc = "cancel" /\ loop'.victim = active.task
    BY <1>0, <1>1, TakeMoves
  <2> QED BY <1>0, <2>1, <2>2 DEF ReportInv, Reported, Aborting, Emitted
<1>2. CASE CancelTask
  <2>1. loop.pc = "cancel" /\ loop.victim \in Turns /\ loop.victim = spawned
    BY <1>0, <1>2 DEF CancelTask, At, Invs, LoopInv, ReportInv
  <2>a. UNCHANGED <<spawned, active, sent>>
    BY <1>2 DEF CancelTask, log
  <2>b. \/ loop' = [loop EXCEPT !.pc = loop.then] /\ cancelled' = cancelled
        \/ /\ loop' = [loop EXCEPT !.pc = "grace"]
           /\ cancelled' = [cancelled EXCEPT ![loop.victim] = TRUE]
    BY <1>2 DEF CancelTask
  <2>2. loop'.victim = loop.victim /\ UNCHANGED <<spawned, active, sent>>
    BY <1>0, <2>a, <2>b, SetPc
  <2>3. \/ loop'.pc = loop.then /\ cancelled' = cancelled
        \/ loop'.pc = "grace" /\ cancelled' = [cancelled EXCEPT ![loop.victim] = TRUE]
    BY <1>0, <2>b, SetPc
  <2>4. \A t \in Turns : cancelled'[t] => Reported(t)' \/ Aborting(t)'
    BY <1>0, <2>1, <2>2, <2>3 DEF TasksOK, ReportInv, Reported, Aborting, Emitted
  <2> QED BY <1>0, <2>1, <2>2, <2>3, <2>4 DEF ReportInv
<1>3. CASE EndGrace \/ RecordAbortMarker \/ FlushAbortMarker
  <2>1. /\ UNCHANGED <<spawned, active, cancelled, sent>>
        /\ loop.pc \in {"grace", "marker", "flush"}
    BY <1>3 DEF EndGrace, RecordAbortMarker, FlushAbortMarker, task, log, At
  <2>2. loop'.victim = loop.victim /\ loop'.pc \in {"marker", "flush", "report"}
    <3>1. PICK p \in {"marker", "flush", "report"} : loop' = [loop EXCEPT !.pc = p]
      BY <1>3 DEF EndGrace, RecordAbortMarker, FlushAbortMarker
    <3> QED BY <1>0, <3>1, SetPc
  <2> QED BY <2>1, <2>2 DEF ReportInv, Reported, Aborting, Emitted
<1>4. CASE EmitTurnAborted
  <2>1. /\ UNCHANGED <<spawned, active, cancelled>> /\ loop.pc = "report"
        /\ sent' = sent \cup {<<loop.reason, loop.victim>>}
        /\ loop.reason \in {"Interrupted", "Replaced"}
    BY <1>0, <1>4 DEF EmitTurnAborted, Emit, task, At, LoopOK, Reasons
  <2>2. loop'.pc = loop.then
    BY <1>0, <1>4, SetPc DEF EmitTurnAborted
  <2>3. \A t \in Turns : cancelled'[t] => Reported(t)'
    BY <2>1 DEF ReportInv, Reported, Aborting, Emitted
  <2> QED BY <1>0, <2>1, <2>2, <2>3 DEF ReportInv
<1>5. CASE SpawnTask
  <2>1. /\ loop.pc = "spawn" /\ active.task = NoTurn
        /\ UNCHANGED <<active, cancelled, sent>> /\ spawned' = spawned + 1
        /\ loop' = [loop EXCEPT !.pc = "register", !.victim = spawned + 1, !.prompt = <<>>]
    BY <1>0, <1>5 DEF SpawnTask, At, Proceed, log, Invs, ActiveInv
  <2>2. loop'.pc = "register" /\ loop'.victim = spawned'
    BY <1>0, <2>1 DEF LoopOK
  <2> QED BY <2>1, <2>2 DEF ReportInv, Reported, Aborting, Emitted
<1>6. CASE RegisterNewActiveTask
  <2>1. /\ loop.pc = "register" /\ loop'.pc = "idle" /\ active'.task = loop.victim
        /\ UNCHANGED <<spawned, cancelled, sent>>
    BY <1>6 DEF RegisterNewActiveTask, At, Idle, ActiveTurn, task, log
  <2> QED BY <2>1 DEF ReportInv, Reported, Aborting, Emitted
<1>7. CASE CompleteShutdown
  <2>1. /\ loop.pc = "shutdown" /\ UNCHANGED <<spawned, active, cancelled, sent>>
    BY <1>7 DEF CompleteShutdown, At, task
  <2>2. loop'.pc = "stopped"
    BY <1>0, <1>7, SetPc DEF CompleteShutdown
  <2> QED BY <2>1, <2>2 DEF ReportInv, Reported, Aborting, Emitted
<1> QED BY <1>1, <1>2, <1>3, <1>4, <1>5, <1>6, <1>7 DEF LoopStep, Abort

LEMMA NextReportInv == IInv /\ ReportInv /\ [Next]_vars => ReportInv'
<1> SUFFICES ASSUME IInv, ReportInv, [Next]_vars PROVE ReportInv'
  OBVIOUS
<1>1. CASE LoopStep
  BY <1>1, LoopKeepsReports
<1>2. CASE FrontStep
  <2>1. FrontRecords
    BY <1>2, FrontKeepsRecords
  <2>2. loop'.pc = "take" => loop.pc \in {"idle", "take"}
    BY <1>2 DEF FrontStep, Submission, UserInput, SpawnStandalone, Interrupt, Shutdown,
       NotifyApproval, SteerInput, At
  <2> QED BY <2>1, <2>2 DEF FrontRecords, ReportInv, Reported, Aborting, Emitted
<1>3. ASSUME NEW t \in Turns, TaskStep(t) PROVE ReportInv'
  BY <1>3, TaskKeepsRecords DEF TaskRecords, ReportInv, Reported, Aborting, Emitted
<1>4. CASE RecorderFails \/ UNCHANGED vars
  BY <1>4 DEF RecorderFails, vars, task, ReportInv, Reported, Aborting, Emitted
<1> QED BY <1>1, <1>2, <1>3, <1>4 DEF Next, FrontStep

\* Turns are reported in the order in which they replace each other: when a turn
\* has been spawned, every cancelled turn before it has sent its TurnAborted.
THEOREM ReplacedFirst == Spec => []ReplacedTurnReportedFirst
<1>1. Init => ReportInv
  BY DEF Init, ReportInv, NoActive, Idle, NoTurn
<1>2. IInv /\ ReportInv => ReplacedTurnReportedFirst
  <2> SUFFICES ASSUME IInv, ReportInv, NEW t \in Turns, NEW u \in Turns,
                      t < u, pc[u] # "unspawned", cancelled[t]
               PROVE Reported(t)
    BY DEF ReplacedTurnReportedFirst, Reported
  <2>1. spawned \in Nat /\ t \in Nat /\ u \in Nat /\ ~(u > spawned)
    BY MaxTurnAssumption DEF IInv, TypeOK, TasksOK, Invs, UnspawnedInv, Turns
  <2> QED BY <2>1 DEF ReportInv, Aborting
<1> QED BY <1>1, <1>2, NextReportInv, Invariance, PTL DEF Spec

-----------------------------------------------------------------------------
(* No input is lost or duplicated. *)

\* Where inputs are kept, as sets; that a set says all there is to say of a
\* sequence is what Once adds.
Pending == Range(active.input)
Recorded == Range(history)
Taken(t) == Range(taken[t])
Once(s) == \A j, k \in DOMAIN s : s[j] = s[k] => j = k
Apart(A, B) == A \cap B = {}

\* Every place lists an input once, no two places share one, and together they
\* hold what was accepted.
PlacesInv ==
    /\ Once(active.input) /\ Once(history) /\ \A t \in Turns : Once(taken[t])
    /\ Apart(Pending, Recorded) /\ Apart(Pending, discarded) /\ Apart(Recorded, discarded)
    /\ \A t \in Turns : Apart(Taken(t), Pending \cup Recorded \cup discarded)
    /\ \A t, u \in Turns : t # u => Apart(Taken(t), Taken(u))
    /\ accepted = Pending \cup Recorded \cup discarded \cup UNION {Taken(t) : t \in Turns}

\* What an assignment overwrites is empty: a task holds inputs at four points of
\* its run only, and an empty active_turn has none.  The prompt of a turn still to
\* be spawned has not been accepted yet.
HoldingPcs == {"ready", "prompt", "record", "leftover"}
EmptyInv ==
    /\ \A t \in Turns : pc[t] \notin HoldingPcs => taken[t] = <<>>
    /\ active.task = NoTurn => active.input = <<>>
    /\ loop.prompt = <<>> \/ \E i \in Inputs \ accepted : loop.prompt = <<i>>

InputInv == PlacesInv /\ EmptyInv

\* Facts about sequences without duplicates.
LEMMA EmptyOnce == Once(<<>>) /\ Range(<<>>) = {}
BY DEF Once, Range

LEMMA SingleOnce == ASSUME NEW S, NEW i \in S PROVE Once(<<i>>) /\ Range(<<i>>) = {i}
BY DEF Once, Range

LEMMA AppendOnce ==
  ASSUME NEW S, NEW s \in Seq(S), NEW i \in S, Once(s), i \notin Range(s)
  PROVE Once(Append(s, i)) /\ Range(Append(s, i)) = Range(s) \cup {i}
<1>1. /\ DOMAIN s = 1..Len(s) /\ Len(s) \in Nat
      /\ DOMAIN Append(s, i) = 1..(Len(s) + 1)
      /\ \A k \in 1..Len(s) : Append(s, i)[k] = s[k]
      /\ Append(s, i)[Len(s) + 1] = i
  OBVIOUS
<1>2. \A k \in 1..(Len(s) + 1) : k \in 1..Len(s) \/ k = Len(s) + 1
  BY <1>1
<1>3. \A k \in 1..Len(s) : s[k] # i /\ k \in 1..(Len(s) + 1)
  BY <1>1 DEF Range
<1>4. Once(Append(s, i))
  BY <1>1, <1>2, <1>3 DEF Once
<1>5. Range(Append(s, i)) = Range(s) \cup {i}
  <2>1. Len(s) + 1 \in 1..(Len(s) + 1)
    BY <1>1
  <2> QED BY <1>1, <1>2, <1>3, <2>1, Zenon DEF Range
<1> QED BY <1>4, <1>5

LEMMA ConcatOnce ==
  ASSUME NEW S, NEW s \in Seq(S), NEW r \in Seq(S), Once(s), Once(r),
         Apart(Range(s), Range(r))
  PROVE Once(s \o r) /\ Range(s \o r) = Range(s) \cup Range(r)
<1>1. /\ DOMAIN s = 1..Len(s) /\ DOMAIN r = 1..Len(r) /\ Len(s) \in Nat /\ Len(r) \in Nat
      /\ DOMAIN (s \o r) = 1..(Len(s) + Len(r))
      /\ \A k \in 1..Len(s) : (s \o r)[k] = s[k]
      /\ \A k \in 1..Len(r) : (s \o r)[Len(s) + k] = r[k]
  OBVIOUS
<1>2. \A k \in 1..(Len(s) + Len(r)) :
         k \in 1..Len(s) \/ \E m \in 1..Len(r) : k = Len(s) + m
  <2> SUFFICES ASSUME NEW k \in 1..(Len(s) + Len(r)), k \notin 1..Len(s)
               PROVE \E m \in 1..Len(r) : k = Len(s) + m
    OBVIOUS
  <2>1. k - Len(s) \in 1..Len(r) /\ k = Len(s) + (k - Len(s))
    BY <1>1
  <2> QED BY <2>1
<1>3. /\ \A k \in 1..Len(s) : k \in 1..(Len(s) + Len(r))
      /\ \A k \in 1..Len(r) : Len(s) + k \in 1..(Len(s) + Len(r))
  BY <1>1
<1>4. \A j \in 1..Len(s), k \in 1..Len(r) : s[j] # r[k]
  BY <1>1 DEF Apart, Range
<1>5. Once(s \o r)
  <2> SUFFICES ASSUME NEW j \in 1..(Len(s) + Len(r)), NEW k \in 1..(Len(s) + Len(r)),
                      (s \o r)[j] = (s \o r)[k]
               PROVE j = k
    BY <1>1 DEF Once
  <2>1. CASE j \in 1..Len(s)
    <3>1. k \in 1..Len(s)
      <4> SUFFICES ASSUME NEW m \in 1..Len(r), k = Len(s) + m PROVE FALSE
        BY <1>2
      <4>1. s[j] = r[m]
        BY <1>1, <2>1
      <4> QED BY <1>4, <2>1, <4>1
    <3> QED BY <1>1, <2>1, <3>1 DEF Once
  <2>2. CASE j \notin 1..Len(s)
    <3>1. PICK m \in 1..Len(r) : j = Len(s) + m
      BY <1>2, <2>2
    <3>2. CASE k \in 1..Len(s)
      BY <1>1, <1>4, <3>1, <3>2
    <3>3. CASE k \notin 1..Len(s)
      <4>1. PICK n \in 1..Len(r) : k = Len(s) + n
        BY <1>2, <3>3
      <4> QED BY <1>1, <3>1, <4>1 DEF Once
    <3> QED BY <3>2, <3>3
  <2> QED BY <2>1, <2>2
<1>6. Range(s \o r) = Range(s) \cup Range(r)
  <2>1. ASSUME NEW x \in Range(s \o r) PROVE x \in Range(s) \cup Range(r)
    <3>1. PICK k \in 1..(Len(s) + Len(r)) : x = (s \o r)[k]
      BY <1>1 DEF Range
    <3>2. CASE k \in 1..Len(s)
      BY <1>1, <3>1, <3>2 DEF Range
    <3>3. ASSUME NEW m \in 1..Len(r), k = Len(s) + m PROVE x \in Range(r)
      BY <1>1, <3>1, <3>3 DEF Range
    <3> QED BY <1>2, <3>1, <3>2, <3>3
  <2>2. ASSUME NEW x \in Range(s) \cup Range(r) PROVE x \in Range(s \o r)
    BY <1>1, <1>3 DEF Range
  <2> QED BY <2>1, <2>2
<1> QED BY <1>5, <1>6

LEMMA TailOnce ==
  ASSUME NEW S, NEW s \in Seq(S), s # <<>>, Once(s)
  PROVE /\ Head(s) \in S /\ Tail(s) \in Seq(S) /\ Once(Tail(s))
        /\ Range(s) = {Head(s)} \cup Range(Tail(s)) /\ Head(s) \notin Range(Tail(s))
<1>1. /\ DOMAIN s = 1..Len(s) /\ Len(s) \in Nat \ {0}
      /\ Head(s) = s[1] /\ s[1] \in S /\ Tail(s) \in Seq(S)
      /\ DOMAIN Tail(s) = 1..(Len(s) - 1)
      /\ \A k \in 1..(Len(s) - 1) : Tail(s)[k] = s[k + 1]
  OBVIOUS
<1>2. /\ 1 \in 1..Len(s)
      /\ \A k \in 1..(Len(s) - 1) : k + 1 \in 1..Len(s) /\ k + 1 # 1
      /\ \A k \in 1..Len(s) : k = 1 \/ \E m \in 1..(Len(s) - 1) : k = m + 1
  <2> SUFFICES ASSUME NEW k \in 1..Len(s), k # 1 PROVE \E m \in 1..(Len(s) - 1) : k = m + 1
    BY <1>1
  <2>1. k - 1 \in 1..(Len(s) - 1) /\ k = (k - 1) + 1
    BY <1>1
  <2> QED BY <2>1
<1>3. Once(Tail(s))
  <2> SUFFICES ASSUME NEW j \in 1..(Len(s) - 1), NEW k \in 1..(Len(s) - 1),
                      Tail(s)[j] = Tail(s)[k]
               PROVE j = k
    BY <1>1 DEF Once
  <2>1. j + 1 = k + 1
    BY <1>1, <1>2 DEF Once
  <2> QED BY <2>1, <1>1
<1>4. Head(s) \notin Range(Tail(s))
  <2> SUFFICES ASSUME NEW k \in 1..(Len(s) - 1), Tail(s)[k] = s[1] PROVE FALSE
    BY <1>1 DEF Range
  <2>1. s[k + 1] = s[1]
    BY <1>1
  <2> QED BY <1>1, <1>2, <2>1 DEF Once
<1>5. ASSUME NEW x \in Range(s) PROVE x = Head(s) \/ x \in Range(Tail(s))
  <2>1. PICK k \in 1..Len(s) : x = s[k]
    BY <1>1 DEF Range
  <2>2. ASSUME NEW m \in 1..(Len(s) - 1), k = m + 1 PROVE x \in Range(Tail(s))
    <3>1. x = Tail(s)[m]
      BY <1>1, <2>1, <2>2
    <3> QED BY <1>1, <3>1 DEF Range
  <2> QED BY <1>1, <1>2, <2>1, <2>2
<1>6. ASSUME NEW x \in {Head(s)} \cup Range(Tail(s)) PROVE x \in Range(s)
  BY <1>1, <1>2 DEF Range
<1> QED BY <1>1, <1>3, <1>4, <1>5, <1>6

\* A step that moves inputs between a task, the active turn, the history and the
\* dropped ones, or takes charge of new ones, keeps them accounted for: it is enough
\* to look at what these four hold together.
Share(t) == Pending \cup Recorded \cup discarded \cup Taken(t)
ShareApart(t) ==
    /\ Once(active.input) /\ Once(history) /\ Once(taken[t])
    /\ Apart(Pending, Recorded) /\ Apart(Pending, discarded) /\ Apart(Recorded, discarded)
    /\ Apart(Taken(t), Pending \cup Recorded \cup discarded)

LEMMA ShareOf == ASSUME PlacesInv, NEW t \in Turns PROVE ShareApart(t) /\ Share(t) \subseteq accepted
BY DEF PlacesInv, ShareApart, Share

LEMMA Redistribute ==
  ASSUME PlacesInv, NEW t \in Turns, NEW new,
         \A u \in Turns : u # t => taken'[u] = taken[u],
         ShareApart(t)', Share(t)' = Share(t) \cup new, Apart(new, accepted),
         accepted' = accepted \cup new
  PROVE PlacesInv'
<1>1. \A u \in Turns : u # t => Taken(u)' = Taken(u)
  BY DEF Taken
<1>2. \A u \in Turns : u # t => Apart(Taken(u), Share(t)) /\ Taken(u) \subseteq accepted
  BY DEF PlacesInv, Share, Apart
<1>3. \A u \in Turns : u # t => Apart(Taken(u), Share(t)')
  BY <1>2 DEF Apart
<1>4. \A u \in Turns : Once(taken'[u])
  BY DEF PlacesInv, ShareApart
<1>5. \A u \in Turns : Apart(Taken(u)', Pending' \cup Recorded' \cup discarded')
  <2> SUFFICES ASSUME NEW u \in Turns, u # t
               PROVE Apart(Taken(u)', Pending' \cup Recorded' \cup discarded')
    BY DEF ShareApart
  <2> QED BY <1>1, <1>3 DEF Share, Apart
<1>6. \A u, v \in Turns : u # v => Apart(Taken(u)', Taken(v)')
  <2> SUFFICES ASSUME NEW u \in Turns, NEW v \in Turns, u # v
               PROVE Apart(Taken(u)', Taken(v)')
    OBVIOUS
  <2>1. CASE u # t /\ v # t
    BY <1>1, <2>1 DEF PlacesInv
  <2>2. CASE u = t
    BY <1>1, <1>3, <2>2 DEF Share, Apart
  <2>3. CASE v = t
    BY <1>1, <1>3, <2>3 DEF Share, Apart
  <2> QED BY <2>1, <2>2, <2>3
<1>7. accepted' = Pending' \cup Recorded' \cup discarded' \cup UNION {Taken(u)' : u \in Turns}
  <2>1. accepted = Share(t) \cup UNION {Taken(u) : u \in Turns \ {t}}
    BY DEF PlacesInv, Share
  <2>2. UNION {Taken(u)' : u \in Turns} = Taken(t)' \cup UNION {Taken(u) : u \in Turns \ {t}}
    BY <1>1
  <2> QED BY <2>1, <2>2 DEF Share
<1> QED BY <1>4, <1>5, <1>6, <1>7 DEF PlacesInv, ShareApart

LEMMA Move ==
  ASSUME PlacesInv, NEW t \in Turns, \A u \in Turns : u # t => taken'[u] = taken[u],
         ShareApart(t)', Share(t)' = Share(t), accepted' = accepted
  PROVE PlacesInv'
<1>1. Share(t)' = Share(t) \cup {} /\ accepted' = accepted \cup {} /\ Apart({}, accepted)
  BY DEF Apart
<1> QED BY <1>1, Redistribute

\* Nothing moves.
LEMMA Unmoved ==
  ASSUME PlacesInv, UNCHANGED <<taken, history, accepted, discarded>>,
         active'.input = active.input
  PROVE PlacesInv'
BY DEF PlacesInv, Pending, Recorded, Taken

\* A task step that leaves nothing where it will be overwritten.
LEMMA TaskLeavesEmpty ==
  ASSUME EmptyInv, NEW t \in Turns, UNCHANGED <<loop, accepted>>,
         \A u \in Turns : u # t => pc'[u] = pc[u] /\ taken'[u] = taken[u],
         pc'[t] \notin HoldingPcs => taken'[t] = <<>>,
         active'.task = NoTurn => active'.input = <<>>
  PROVE EmptyInv'
BY DEF EmptyInv

\* Proceed and Goto, as functions.
LEMMA ProceedIs ==
  ASSUME TasksOK, NEW t \in Turns, NEW to, NEW items, Proceed(t, to, items)
  PROVE /\ pc'[t] = to /\ taken'[t] = items
        /\ \A u \in Turns : u # t => pc'[u] = pc[u] /\ taken'[u] = taken[u]
BY DEF Proceed, TasksOK

LEMMA GotoIs ==
  ASSUME TasksOK, NEW t \in Turns, NEW to, Goto(t, to)
  PROVE /\ pc'[t] = to /\ UNCHANGED taken /\ \A u \in Turns : u # t => pc'[u] = pc[u]
BY DEF Goto, TasksOK

-----------------------------------------------------------------------------
(* The steps of a task. *)

\* Steps that leave inputs where they are.
StayStep(t) == QuietStep(t) \/ LoggingStep(t) \/ RequestApproval(t)
LEMMA StayKeepsInputs ==
  ASSUME IInv, InputInv, NEW t \in Turns, StayStep(t) PROVE InputInv'
<1>0. TasksOK /\ ActiveOK /\ PlacesInv /\ EmptyInv
  BY DEF IInv, TypeOK, InputInv
<1>1. PICK to : /\ Goto(t, to) /\ UNCHANGED <<loop, history, accepted, discarded>>
                /\ pc[t] \notin {"ready", "prompt", "record", "leftover"}
                     \/ (pc[t] = "ready" /\ (to = "prompt" \/ taken[t] = <<>>))
  BY DEF StayStep, QuietStep, LoggingStep, Materialize, SamplingDone, ApprovalResolved, StandaloneDone,
     NotifyDone, StartTurn, TurnError, EndRun, EmitTurnComplete, RequestApproval, log, ghosts
<1>2. active'.task = active.task /\ active'.input = active.input
  BY <1>0 DEF StayStep, QuietStep, LoggingStep, Materialize, SamplingDone, ApprovalResolved, StandaloneDone,
     NotifyDone, StartTurn, TurnError, EndRun, EmitTurnComplete, RequestApproval, ActiveOK
<1>3. /\ pc'[t] = to /\ UNCHANGED taken /\ \A u \in Turns : u # t => pc'[u] = pc[u]
  BY <1>0, <1>1, GotoIs
<1>4. PlacesInv'
  BY <1>0, <1>1, <1>2, <1>3, Unmoved
<1>5. to \notin HoldingPcs => taken[t] = <<>>
  BY <1>0, <1>1 DEF EmptyInv, HoldingPcs
<1>6. EmptyInv'
  BY <1>0, <1>1, <1>2, <1>3, <1>5, TaskLeavesEmpty DEF EmptyInv
<1> QED BY <1>4, <1>6 DEF InputInv

\* What a task held is dropped, or goes into the history.
LEMMA InputStepKeepsInputs ==
  ASSUME IInv, InputInv, NEW t \in Turns, InputStep(t) PROVE InputInv'
<1>0. /\ TasksOK /\ PlacesInv /\ EmptyInv
      /\ taken[t] \in Seq(Inputs) /\ history \in Seq(Inputs)
      /\ ShareApart(t) /\ Share(t) \subseteq accepted
  BY ShareOf DEF IInv, TypeOK, TasksOK, LogOK, InputInv
<1>1. PICK to : Proceed(t, to, <<>>)
  BY DEF InputStep, FailBeforePrompt, RecordTaken, Die
<1>2. UNCHANGED <<active, loop, accepted>>
  BY DEF InputStep, FailBeforePrompt, RecordTaken, Die, ghosts
<1>3. /\ pc'[t] = to /\ taken'[t] = <<>>
      /\ \A u \in Turns : u # t => pc'[u] = pc[u] /\ taken'[u] = taken[u]
  BY <1>0, <1>1, ProceedIs
<1>4. EmptyInv'
  BY <1>0, <1>2, <1>3, TaskLeavesEmpty DEF EmptyInv
<1>5. Taken(t)' = {} /\ Once(taken'[t]) /\ Pending' = Pending
  BY <1>2, <1>3, EmptyOnce DEF Taken, Pending
<1>6. CASE FailBeforePrompt(t) \/ Die(t)
  <2>1. discarded' = discarded \cup Taken(t) /\ UNCHANGED history
    BY <1>6 DEF FailBeforePrompt, Die, Taken, log
  <2>2. ShareApart(t)' /\ Share(t)' = Share(t)
    BY <1>0, <1>2, <1>5, <2>1 DEF ShareApart, Share, Apart, Recorded
  <2>3. PlacesInv'
    BY <1>0, <1>2, <1>3, <2>2, Move
  <2> QED BY <1>4, <2>3 DEF InputInv
<1>7. ASSUME NEW p, NEW q, RecordTaken(t, p, q) PROVE InputInv'
  <2>1. history' = history \o taken[t] /\ UNCHANGED discarded
    BY <1>7 DEF RecordTaken, ghosts
  <2>2. Once(history') /\ Recorded' = Recorded \cup Taken(t)
    BY <1>0, <2>1, ConcatOnce DEF ShareApart, Apart, Recorded, Taken
  <2>3. ShareApart(t)' /\ Share(t)' = Share(t)
    BY <1>0, <1>2, <1>5, <2>1, <2>2 DEF ShareApart, Share, Apart
  <2>4. PlacesInv'
    BY <1>0, <1>2, <1>3, <2>3, Move
  <2> QED BY <1>4, <2>4 DEF InputInv
<1> QED BY <1>6, <1>7 DEF InputStep

\* Polled input is recorded from the front.
LEMMA PolledKeepsInputs ==
  ASSUME IInv, InputInv, NEW t \in Turns, RecordPolled(t) PROVE InputInv'
<1>0. /\ TasksOK /\ PlacesInv /\ EmptyInv
      /\ taken[t] \in Seq(Inputs) /\ history \in Seq(Inputs)
      /\ ShareApart(t) /\ Share(t) \subseteq accepted
  BY ShareOf DEF IInv, TypeOK, TasksOK, LogOK, InputInv
<1>1. UNCHANGED <<active, loop, accepted, discarded>>
  BY DEF RecordPolled, ghosts
<1>2. CASE taken[t] = <<>>
  <2>1. Goto(t, "sampling") /\ UNCHANGED history
    BY <1>2 DEF RecordPolled
  <2>2. UNCHANGED taken /\ \A u \in Turns : u # t => pc'[u] = pc[u]
    BY <1>0, <2>1, GotoIs
  <2>3. PlacesInv'
    BY <1>0, <1>1, <2>1, <2>2, Unmoved
  <2>4. EmptyInv'
    BY <1>0, <1>1, <1>2, <2>2, TaskLeavesEmpty DEF EmptyInv
  <2> QED BY <2>3, <2>4 DEF InputInv
<1>3. CASE taken[t] # <<>>
  <2> DEFINE h == Head(taken[t])
             r == Tail(taken[t])
  <2>1. history' = Append(history, h) /\ Proceed(t, "record", r)
    BY <1>3 DEF RecordPolled
  <2>2. /\ pc'[t] = "record" /\ taken'[t] = r
        /\ \A u \in Turns : u # t => pc'[u] = pc[u] /\ taken'[u] = taken[u]
    BY <1>0, <2>1, ProceedIs
  <2>3. /\ h \in Inputs /\ r \in Seq(Inputs) /\ Once(r)
        /\ Range(taken[t]) = {h} \cup Range(r) /\ h \notin Range(r)
    BY <1>0, <1>3, TailOnce DEF ShareApart
  <2> HIDE DEF h, r
  <2>4. h \notin Range(history)
    BY <1>0, <2>3 DEF ShareApart, Apart, Recorded, Taken
  <2>5. Once(history') /\ Recorded' = Recorded \cup {h}
    BY <1>0, <2>1, <2>3, <2>4, AppendOnce DEF ShareApart, Recorded
  <2>6. Taken(t)' = Range(r) /\ Once(taken'[t]) /\ Pending' = Pending /\ Taken(t) = {h} \cup Range(r)
    BY <1>1, <2>2, <2>3 DEF Taken, Pending
  <2>7. ShareApart(t)'
    BY <1>0, <1>1, <2>3, <2>5, <2>6 DEF ShareApart, Apart
  <2>8. Share(t)' = Share(t)
    BY <1>1, <2>5, <2>6 DEF Share
  <2>9. PlacesInv'
    BY <1>0, <1>1, <2>2, <2>7, <2>8, Move
  <2>10. EmptyInv'
    BY <1>0, <1>1, <2>2, TaskLeavesEmpty DEF EmptyInv, HoldingPcs
  <2> QED BY <2>9, <2>10 DEF InputInv
<1> QED BY <1>2, <1>3

\* What is pending goes to a task that holds nothing: as it polls, or as it ends.
LEMMA PickUpKeepsInputs ==
  ASSUME IInv, InputInv, NEW t \in Turns, NEW to \in HoldingPcs,
         pc[t] \notin HoldingPcs,
         pc' = [pc EXCEPT ![t] = to], taken' = [taken EXCEPT ![t] = active.input],
         active'.input = <<>>, UNCHANGED <<loop, history, accepted, discarded>>
  PROVE InputInv'
<1>0. /\ TasksOK /\ PlacesInv /\ EmptyInv /\ taken[t] = <<>>
      /\ ShareApart(t) /\ Share(t) \subseteq accepted
  BY ShareOf DEF IInv, TypeOK, InputInv, EmptyInv
<1>1. /\ pc'[t] = to /\ taken'[t] = active.input
      /\ \A u \in Turns : u # t => pc'[u] = pc[u] /\ taken'[u] = taken[u]
  BY <1>0 DEF TasksOK
<1>2. /\ Taken(t) = {} /\ Taken(t)' = Pending /\ Pending' = {} /\ Recorded' = Recorded
      /\ Once(active'.input)
  BY <1>0, <1>1, EmptyOnce DEF Taken, Pending, Recorded
<1>3. ShareApart(t)' /\ Share(t)' = Share(t)
  BY <1>0, <1>1, <1>2 DEF ShareApart, Share, Apart
<1>4. PlacesInv'
  BY <1>0, <1>1, <1>3, Move
<1>5. EmptyInv'
  BY <1>0, <1>1, TaskLeavesEmpty
<1> QED BY <1>4, <1>5 DEF InputInv

LEMMA TaskKeepsInputs ==
  ASSUME IInv, InputInv, NEW t \in Turns, TaskStep(t) PROVE InputInv'
<1>0. ActiveOK /\ TasksOK /\ PlacesInv /\ EmptyInv
  BY DEF IInv, TypeOK, InputInv
<1>1. CASE GetPendingInput(t)
  <2>1. active'.input = <<>>
    BY <1>0, <1>1 DEF GetPendingInput, ActiveOK
  <2> QED BY <1>1, <2>1, PickUpKeepsInputs DEF GetPendingInput, Proceed, HoldingPcs, log, ghosts
<1>2. CASE FinishTask(t) /\ RemoveTask(t)
  BY <1>2, PickUpKeepsInputs
  DEF FinishTask, RemoveTask, LeftoverInput, NoActive, HoldingPcs, Goto, log, ghosts
<1>3. CASE FinishTask(t) /\ ~RemoveTask(t)
  <2>1. /\ Goto(t, "complete") /\ pc[t] = "finishing"
        /\ UNCHANGED <<active, loop, history, accepted, discarded>>
    BY <1>3 DEF FinishTask, log, ghosts
  <2>2. UNCHANGED taken /\ \A u \in Turns : u # t => pc'[u] = pc[u]
    BY <1>0, <2>1, GotoIs
  <2>3. PlacesInv'
    BY <1>0, <2>1, <2>2, Unmoved
  <2>4. taken[t] = <<>>
    BY <1>0, <2>1 DEF EmptyInv, HoldingPcs
  <2>5. EmptyInv'
    BY <1>0, <2>1, <2>2, <2>4, TaskLeavesEmpty DEF EmptyInv
  <2> QED BY <2>3, <2>5 DEF InputInv
<1>4. CASE ~GetPendingInput(t) /\ ~FinishTask(t)
  BY <1>4, StayKeepsInputs, InputStepKeepsInputs, PolledKeepsInputs
  DEF TaskStep, StayStep, QuietStep, LoggingStep, InputStep
<1> QED BY <1>1, <1>2, <1>3, <1>4

-----------------------------------------------------------------------------
(* The submission loop and the clients. *)

\* An input that has not been accepted yet goes to the active turn.
LEMMA PushKeepsInputs ==
  ASSUME IInv, InputInv, NEW i \in Inputs, Fresh(i), PushPendingInput(i), UNCHANGED loop
  PROVE InputInv'
<1>0. /\ PlacesInv /\ EmptyInv /\ 1 \in Turns /\ active.input \in Seq(Inputs)
      /\ ShareApart(1) /\ Share(1) \subseteq accepted /\ i \notin accepted
  BY MaxTurnAssumption, ShareOf DEF InputInv, Turns, IInv, TypeOK, ActiveOK, Fresh
<1>1. /\ active'.task = active.task /\ active'.input = Append(active.input, i)
      /\ active.task # NoTurn /\ accepted' = accepted \cup {i}
      /\ UNCHANGED <<pc, taken, history, discarded>>
  BY DEF PushPendingInput, IInv, TypeOK, ActiveOK, task, log
<1>2. i \notin Share(1)
  BY <1>0
<1>3. Once(active'.input) /\ Pending' = Pending \cup {i}
  BY <1>0, <1>1, <1>2, AppendOnce DEF Pending, Share, ShareApart
<1>4. ShareApart(1)' /\ Share(1)' = Share(1) \cup {i}
  BY <1>0, <1>1, <1>2, <1>3 DEF ShareApart, Share, Apart, Recorded, Taken
<1>5. PlacesInv'
  BY <1>0, <1>1, <1>4, Redistribute DEF Apart
<1>6. EmptyInv'
  <2>1. ASSUME NEW j \in Inputs \ accepted, loop.prompt = <<j>>
        PROVE j \in Inputs \ accepted'
    BY <1>1, <2>1 DEF Fresh
  <2> QED BY <1>0, <1>1, <2>1 DEF EmptyInv
<1> QED BY <1>5, <1>6 DEF InputInv

LEMMA FrontKeepsInputs == ASSUME IInv, InputInv, FrontStep PROVE InputInv'
<1>0. PlacesInv /\ EmptyInv /\ ActiveOK
  BY DEF InputInv, IInv, TypeOK
<1>1. ASSUME NEW i \in Inputs, SteerInput(i) PROVE InputInv'
  BY <1>1, PushKeepsInputs DEF SteerInput
<1>2. ASSUME NEW r, NEW l, NEW p, AbortAllTasks(r, l, p),
             p = <<>> \/ \E i \in Inputs \ accepted : p = <<i>>,
             UNCHANGED <<active, task, log, ghosts>>
      PROVE InputInv'
  <2>1. loop'.prompt = p
    BY <1>2 DEF AbortAllTasks
  <2>2. PlacesInv'
    BY <1>0, <1>2, Unmoved DEF task, log, ghosts
  <2>3. EmptyInv'
    BY <1>0, <1>2, <2>1 DEF EmptyInv, task, ghosts
  <2> QED BY <2>2, <2>3 DEF InputInv
<1>3. ASSUME NEW i \in Inputs, UserInput(i) PROVE InputInv'
  <2>1. CASE PushPendingInput(i) /\ UNCHANGED loop
    BY <1>3, <2>1, PushKeepsInputs DEF UserInput
  <2>2. CASE ~(PushPendingInput(i) /\ UNCHANGED loop)
    BY <1>2, <1>3, <2>2 DEF UserInput, Fresh
  <2> QED BY <2>1, <2>2
<1>4. CASE SpawnStandalone \/ Interrupt \/ Shutdown
  BY <1>2, <1>4 DEF SpawnStandalone, Interrupt, Shutdown
<1>5. ASSUME NEW t \in Turns, NotifyApproval(t) PROVE InputInv'
  <2>1. active'.task = active.task /\ active'.input = active.input
    BY <1>0, <1>5 DEF NotifyApproval, ActiveOK
  <2>2. UNCHANGED <<loop, pc, taken, history, accepted, discarded>>
    BY <1>5 DEF NotifyApproval, task, log, ghosts
  <2> QED BY <1>0, <2>1, <2>2, Unmoved DEF EmptyInv, InputInv
<1> QED BY <1>1, <1>3, <1>4, <1>5 DEF FrontStep, Submission

\* Aborting drops what was pending.
LEMMA TakeKeepsInputs == ASSUME IInv, InputInv, TakeAllRunningTasks PROVE InputInv'
<1>0. /\ PlacesInv /\ EmptyInv /\ LoopOK /\ 1 \in Turns
      /\ ShareApart(1) /\ Share(1) \subseteq accepted
  BY MaxTurnAssumption, ShareOf DEF InputInv, Turns, IInv, TypeOK
<1>1. /\ active' = NoActive /\ discarded' = discarded \cup Pending
      /\ UNCHANGED <<pc, taken, history, accepted>>
  BY DEF TakeAllRunningTasks, Pending, task, log
<1>2. active'.input = <<>> /\ Pending' = {} /\ Once(active'.input)
  BY <1>1, EmptyOnce DEF NoActive, Pending
<1>3. ShareApart(1)' /\ Share(1)' = Share(1)
  BY <1>0, <1>1, <1>2 DEF ShareApart, Share, Apart, Recorded, Taken
<1>4. PlacesInv'
  BY <1>0, <1>1, <1>3, Move
<1>5. loop'.prompt = loop.prompt
  <2>1. CASE active.task = NoTurn
    <3>1. loop' = [loop EXCEPT !.pc = loop.then]
      BY <2>1 DEF TakeAllRunningTasks
    <3> QED BY <1>0, <3>1 DEF LoopOK
  <2>2. CASE active.task # NoTurn
    <3>1. loop' = [loop EXCEPT !.pc = "cancel", !.victim = active.task]
      BY <2>2 DEF TakeAllRunningTasks
    <3> QED BY <1>0, <3>1 DEF LoopOK
  <2> QED BY <2>1, <2>2
<1>6. EmptyInv'
  BY <1>0, <1>1, <1>2, <1>5 DEF EmptyInv
<1> QED BY <1>4, <1>6 DEF InputInv

\* The prompt of a new turn is accepted as the turn takes it.
LEMMA SpawnKeepsInputs == ASSUME IInv, InputInv, SpawnTask PROVE InputInv'
<1>0. TasksOK /\ LoopOK /\ LoopInv /\ UnspawnedInv /\ PlacesInv /\ EmptyInv
  BY DEF IInv, TypeOK, Invs, InputInv
<1>1. PICK t \in Turns : t = spawned + 1 /\ t > spawned
  BY <1>0, MaxTurnAssumption DEF SpawnTask, At, LoopInv, TasksOK, Turns
<1>2. taken[t] = <<>>
  BY <1>0, <1>1 DEF UnspawnedInv, EmptyInv, HoldingPcs
<1>3. /\ Proceed(t, "ready", loop.prompt) /\ accepted' = accepted \cup Range(loop.prompt)
      /\ UNCHANGED <<active, history, discarded>>
      /\ loop' = [loop EXCEPT !.pc = "register", !.victim = t, !.prompt = <<>>]
  BY <1>1 DEF SpawnTask, log
<1>4. /\ pc'[t] = "ready" /\ taken'[t] = loop.prompt
      /\ \A u \in Turns : u # t => pc'[u] = pc[u] /\ taken'[u] = taken[u]
  BY <1>0, <1>1, <1>3, ProceedIs
<1>5. Once(loop.prompt) /\ Apart(Range(loop.prompt), accepted)
  <2>1. CASE loop.prompt = <<>>
    BY <2>1, EmptyOnce DEF Apart
  <2>2. ASSUME NEW i \in Inputs \ accepted, loop.prompt = <<i>>
        PROVE Once(loop.prompt) /\ Apart(Range(loop.prompt), accepted)
    <3>1. Once(<<i>>) /\ Range(<<i>>) = {i}
      BY SingleOnce
    <3> QED BY <2>2, <3>1 DEF Apart
  <2> QED BY <1>0, <2>1, <2>2 DEF EmptyInv
<1>6. ShareApart(t) /\ Share(t) \subseteq accepted
  BY <1>0, <1>1, ShareOf
<1>7. /\ Taken(t) = {} /\ Taken(t)' = Range(loop.prompt) /\ Once(taken'[t])
      /\ Pending' = Pending /\ Recorded' = Recorded
  <2>1. Taken(t) = {}
    BY <1>2, EmptyOnce DEF Taken
  <2>2. Taken(t)' = Range(loop.prompt) /\ Once(taken'[t])
    BY <1>4, <1>5 DEF Taken
  <2>3. Pending' = Pending /\ Recorded' = Recorded
    BY <1>3 DEF Pending, Recorded
  <2> QED BY <2>1, <2>2, <2>3
<1>8. ShareApart(t)' /\ Share(t)' = Share(t) \cup Range(loop.prompt)
  <2>1. discarded' = discarded /\ Once(active'.input) /\ Once(history')
    BY <1>3, <1>6 DEF ShareApart
  <2>2. Share(t)' = Share(t) \cup Range(loop.prompt)
    BY <1>7, <2>1 DEF Share
  <2>3. Apart(Range(loop.prompt), Share(t))
    BY <1>5, <1>6 DEF Apart
  <2>4. ShareApart(t)'
    BY <1>6, <1>7, <2>1, <2>3 DEF ShareApart, Share, Apart
  <2> QED BY <2>2, <2>4
<1>9. PlacesInv'
  BY <1>0, <1>1, <1>3, <1>4, <1>5, <1>8, Redistribute
<1>10. loop'.prompt = <<>>
  BY <1>0, <1>3 DEF LoopOK
<1>11. EmptyInv'
  BY <1>0, <1>3, <1>4, <1>10 DEF EmptyInv, HoldingPcs
<1> QED BY <1>9, <1>11 DEF InputInv

LEMMA LoopKeepsInputs == ASSUME IInv, InputInv, LoopStep PROVE InputInv'
<1>0. PlacesInv /\ EmptyInv /\ LoopOK
  BY DEF InputInv, IInv, TypeOK
<1>1. CASE RegisterNewActiveTask
  <2>1. /\ active.task = NoTurn /\ loop'.prompt = <<>> /\ active'.input = <<>>
        /\ UNCHANGED <<pc, taken, history, accepted, discarded>>
    BY <1>1 DEF RegisterNewActiveTask, At, Idle, ActiveTurn, IInv, Invs, ActiveInv, task, log,
       ghosts
  <2>2. active'.input = active.input
    BY <1>0, <2>1 DEF EmptyInv
  <2> QED BY <1>0, <2>1, <2>2, Unmoved DEF EmptyInv, InputInv
<1>2. ASSUME UNCHANGED <<active, pc, taken, history, accepted, discarded>>,
             loop'.prompt = loop.prompt
      PROVE InputInv'
  BY <1>0, <1>2, Unmoved DEF EmptyInv, InputInv
<1>3. CASE CancelTask \/ ReportStep \/ CompleteShutdown
  <2>1. loop'.prompt = loop.prompt
    BY <1>0, <1>3 DEF CancelTask, ReportStep, EndGrace, RecordAbortMarker, FlushAbortMarker,
       EmitTurnAborted, CompleteShutdown, LoopOK
  <2> QED BY <1>2, <1>3, <2>1 DEF CancelTask, ReportStep, EndGrace, RecordAbortMarker,
          FlushAbortMarker, EmitTurnAborted, CompleteShutdown, task, log, ghosts
<1> QED BY <1>1, <1>3, TakeKeepsInputs, SpawnKeepsInputs DEF LoopStep, Abort, ReportStep

LEMMA NextInputInv == IInv /\ InputInv /\ [Next]_vars => InputInv'
<1> SUFFICES ASSUME IInv, InputInv, [Next]_vars PROVE InputInv'
  OBVIOUS
<1>1. CASE RecorderFails \/ UNCHANGED vars
  BY <1>1, Unmoved DEF RecorderFails, vars, task, ghosts, EmptyInv, InputInv
<1> QED BY <1>1, LoopKeepsInputs, FrontKeepsInputs, TaskKeepsInputs DEF Next, FrontStep

\* The positions of an input in a sequence without duplicates.
LEMMA PositionsOf ==
  ASSUME NEW s, NEW i
  PROVE /\ i \notin Range(s) => Positions(s, i) = {}
        /\ i \in Range(s) /\ Once(s) => \E k : Positions(s, i) = {k}
BY DEF Range, Positions, Once

\* From the invariant to the property: a member of one of the sets is at one place.
LEMMA OnePlace == InputInv => InputAccountedOnce
<1> SUFFICES ASSUME PlacesInv, NEW i \in Inputs
             PROVE IF i \in accepted THEN \E p \in Places(i) : Places(i) = {p}
                                     ELSE Places(i) = {}
  BY DEF InputInv, InputAccountedOnce
<1>2. /\ i \notin Pending => PendingAt(i) = {}
      /\ i \notin Recorded => RecordedAt(i) = {}
      /\ i \notin discarded => DroppedAt(i) = {}
      /\ \A t \in Turns : i \notin Taken(t) => TakenAt(t, i) = {}
  BY PositionsOf DEF Pending, Recorded, Taken, PendingAt, RecordedAt, TakenAt, DroppedAt
<1>3. i \in Pending => \E p \in PendingAt(i) : PendingAt(i) = {p}
  <2>1. i \in Pending => \E k : Positions(active.input, i) = {k}
    BY PositionsOf DEF Pending, PlacesInv
  <2>2. ASSUME NEW k, Positions(active.input, i) = {k}
        PROVE PendingAt(i) = {<<"pending", k>>}
    BY <2>2 DEF PendingAt
  <2> QED BY <2>1, <2>2
<1>4. i \in Recorded => \E p \in RecordedAt(i) : RecordedAt(i) = {p}
  <2>1. i \in Recorded => \E k : Positions(history, i) = {k}
    BY PositionsOf DEF Recorded, PlacesInv
  <2>2. ASSUME NEW k, Positions(history, i) = {k}
        PROVE RecordedAt(i) = {<<"recorded", k>>}
    BY <2>2 DEF RecordedAt
  <2> QED BY <2>1, <2>2
<1>5. ASSUME NEW t \in Turns, i \in Taken(t) PROVE \E p \in TakenAt(t, i) : TakenAt(t, i) = {p}
  <2>1. \E k : Positions(taken[t], i) = {k}
    BY <1>5, PositionsOf DEF Taken, PlacesInv
  <2>2. ASSUME NEW k, Positions(taken[t], i) = {k}
        PROVE TakenAt(t, i) = {<<"taken", t, k>>}
    BY <2>2 DEF TakenAt
  <2> QED BY <2>1, <2>2
<1>6. i \in discarded => DroppedAt(i) = {<<"discarded", i>>}
  BY DEF DroppedAt
<1>7. (\A t \in Turns : i \notin Taken(t)) => InTasksAt(i) = {}
  BY <1>2 DEF InTasksAt
<1>8. ASSUME NEW t \in Turns, i \in Taken(t) PROVE InTasksAt(i) = TakenAt(t, i)
  <2>1. \A u \in Turns : u # t => i \notin Taken(u)
    BY <1>8 DEF PlacesInv, Apart
  <2>2. \A u \in Turns : u # t => TakenAt(u, i) = {}
    BY <1>2, <2>1
  <2> QED BY <2>2 DEF InTasksAt
<1>9. CASE i \notin accepted
  BY <1>2, <1>7, <1>9 DEF PlacesInv, Places
<1>10. CASE i \in Pending
  <2>1. i \in accepted /\ i \notin Recorded /\ i \notin discarded /\ \A t \in Turns : i \notin Taken(t)
    BY <1>10 DEF PlacesInv, Apart
  <2>2. Places(i) = PendingAt(i)
    BY <1>2, <1>7, <2>1 DEF Places
  <2> QED BY <1>3, <1>10, <2>1, <2>2
<1>11. CASE i \in Recorded
  <2>1. i \in accepted /\ i \notin Pending /\ i \notin discarded /\ \A t \in Turns : i \notin Taken(t)
    BY <1>11 DEF PlacesInv, Apart
  <2>2. Places(i) = RecordedAt(i)
    BY <1>2, <1>7, <2>1 DEF Places
  <2> QED BY <1>4, <1>11, <2>1, <2>2
<1>12. CASE i \in discarded
  <2>1. i \in accepted /\ i \notin Pending /\ i \notin Recorded /\ \A t \in Turns : i \notin Taken(t)
    BY <1>12 DEF PlacesInv, Apart
  <2>2. Places(i) = {<<"discarded", i>>}
    BY <1>2, <1>6, <1>7, <1>12, <2>1 DEF Places
  <2> QED BY <2>1, <2>2
<1>13. ASSUME NEW t \in Turns, i \in Taken(t)
       PROVE i \in accepted /\ \E p \in Places(i) : Places(i) = {p}
  <2>1. i \in accepted /\ i \notin Pending /\ i \notin Recorded /\ i \notin discarded
    BY <1>13 DEF PlacesInv, Apart
  <2>2. Places(i) = TakenAt(t, i)
    BY <1>2, <1>8, <1>13, <2>1 DEF Places
  <2> QED BY <1>5, <1>13, <2>1, <2>2
<1>14. i \in accepted => \/ i \in Pending \/ i \in Recorded \/ i \in discarded
                         \/ \E t \in Turns : i \in Taken(t)
  BY DEF PlacesInv
<1> QED BY <1>9, <1>10, <1>11, <1>12, <1>13, <1>14

\* Every input the session has accepted is in one place and in one copy, for any
\* number of turns and inputs.
THEOREM InputsAccounted == Spec => []InputAccountedOnce
<1>1. Init => InputInv
  BY EmptyOnce DEF Init, InputInv, PlacesInv, EmptyInv, Pending, Recorded, Taken, Apart,
     NoActive, Idle, NoTurn
<1> QED BY <1>1, OnePlace, NextInputInv, Invariance, PTL DEF Spec
=============================================================================
