----------------------------- MODULE UnifiedExec -----------------------------
(***************************************************************************)
(* core/src/unified_exec: exec_command, write_stdin, and the background    *)
(* tasks and the interrupts that end a process.                            *)
(*                                                                         *)
(* A process is named by the exec_command call that starts it; ids are     *)
(* drawn at random from 1000..99999 and the model never draws one twice.   *)
(* The process store has one mutex, never held across an await: an action  *)
(* is what a task does between two awaits.  A call's future is dropped at  *)
(* an await when its turn is interrupted or its request fails.             *)
(***************************************************************************)
EXTENDS NetworkAttempts, Naturals

CONSTANTS
    MaxProcs,       \* MAX_UNIFIED_EXEC_PROCESSES, 64
    WarnAt,         \* WARNING_UNIFIED_EXEC_PROCESSES, 60
    Protected,      \* the most recently used processes that are never pruned, 8
    Managed,        \* processes that run behind the managed network proxy
    MaxWriting      \* write_stdin calls at a time (bound of the model)

Procs == Attempts

ASSUME ExecAssumption ==
    /\ MaxProcs \in Nat /\ Protected \in Nat /\ Protected < MaxProcs
    /\ WarnAt \in 1..MaxProcs
    /\ Managed \subseteq Procs
    /\ MaxWriting \in Nat

VARIABLES
    reserved,   \* reserved_process_ids
    stored,     \* keys of the processes map
    newer,      \* <<p, q>>: the last_used of p is later than that of q
    call,       \* where each exec_command call is
    victim,     \* the entry a call has pruned and not yet terminated
    proc,       \* each child process; "killed" once terminate() was called
    token,      \* processes whose exit token is cancelled
    watcher,    \* the exit watcher
    denier,     \* the network denial watcher
    ended,      \* how many ExecCommandEnd ended were sent for each call
    writing,    \* processes a write_stdin call is polling
    closing,    \* entries drained by terminate_all_processes and not yet terminated
    dropped     \* calls, of exec_command or of write_stdin, dropped at an await

store == <<reserved, stored, newer>>
child == <<proc, token>>
tasks == <<watcher, denier>>
users == <<writing, closing>>
vars == <<service, store, call, victim, child, tasks, ended, users, dropped>>

-----------------------------------------------------------------------------
(* Data. *)

\* Points at which an exec_command call waits.
OpenPcs == {"reserved", "opening", "failing"}
RunPcs == {"collecting", "storing"}
ExitPcs == {"releasing", "outcome", "leaving"}
DenyPcs == {"denied", "unlisting"}
StorePcs == {"pruning", "warning"}
InFlightPcs == OpenPcs \cup RunPcs \cup ExitPcs \cup DenyPcs \cup StorePcs
CallPcs == InFlightPcs \cup {"idle", "over", "dropped"}

InFlight(p) == call[p] \in InFlightPcs
Goto(p, pc) == call' = [call EXCEPT ![p] = pc]

\* ExecCommandBegin is sent when the process was spawned.
Begun == {p \in Procs : proc[p] # "none"}

\* ProcessStore::remove; an entry's last_used goes with it.
Without(ps) == {e \in newer : e[1] \notin ps /\ e[2] \notin ps}
RemoveEntry(p) == /\ reserved' = reserved \ {p}
                  /\ stored' = stored \ {p}
                  /\ newer' = Without({p})

\* UnifiedExecProcess::terminate.
Terminated(ps) ==
    /\ proc' = [p \in Procs |-> IF p \in ps /\ proc[p] = "alive" THEN "killed" ELSE proc[p]]
    /\ token' = token \cup ps

\* Now is the last_used of p, or its started_at.
Timed == stored \cup {p \in Procs : call[p] \in RunPcs}
Touch(p) == newer' = Without({p}) \cup ({p} \X (Timed \ {p}))

Init ==
    /\ ServiceInit
    /\ reserved = {} /\ stored = {} /\ newer = {}
    /\ call = [p \in Procs |-> "idle"]
    /\ victim = [p \in Procs |-> {}]
    /\ proc = [p \in Procs |-> "none"] /\ token = {}
    /\ watcher = [p \in Procs |-> "off"] /\ denier = [p \in Procs |-> "off"]
    /\ ended = [p \in Procs |-> 0]
    /\ writing = {} /\ closing = {}
    /\ dropped = {}

-----------------------------------------------------------------------------
(* exec_command. *)

Allocate(p) ==
    /\ call[p] = "idle"
    /\ reserved' = reserved \cup {p}
    /\ Goto(p, "reserved")
    /\ UNCHANGED <<service, stored, newer, victim, child, tasks, ended, users, dropped>>

\* The escalation is refused, or intercept_apply_patch has done the work: the id is
\* released.  An error of intercept_apply_patch returns without that.
Decline(p) ==
    /\ call[p] = "reserved"
    /\ \/ RemoveEntry(p)
       \/ UNCHANGED store
    /\ Goto(p, "over")
    /\ UNCHANGED <<service, victim, child, tasks, ended, users, dropped>>

\* run_attempt registers the network attempt of a managed command, and runs it.
Open(p) ==
    /\ call[p] = "reserved"
    /\ IF p \in Managed THEN Register(p) ELSE UNCHANGED service
    /\ Goto(p, "opening")
    /\ UNCHANGED <<store, victim, child, tasks, ended, users, dropped>>

OpenFails(p) ==
    /\ call[p] = "opening"
    /\ Unregister(p)
    /\ Goto(p, "failing")
    /\ UNCHANGED <<store, victim, child, tasks, ended, users, dropped>>

ReleaseFailed(p) ==
    /\ call[p] = "failing"
    /\ RemoveEntry(p)
    /\ Goto(p, "over")
    /\ UNCHANGED <<service, victim, child, tasks, ended, users, dropped>>

\* The process runs and ExecCommandBegin is sent; last_used is the time of this step.
Spawn(p) ==
    /\ call[p] = "opening"
    /\ proc' = [proc EXCEPT ![p] = "alive"]
    /\ Touch(p)
    /\ Goto(p, "collecting")
    /\ UNCHANGED <<service, reserved, stored, victim, token, tasks, ended, users, dropped>>

\* Mutant: a command that has ended goes the way of one that runs on.
CollectExited_Stores(p) ==
    /\ call[p] = "collecting"
    /\ proc[p] = "exited"
    /\ ended' = [ended EXCEPT ![p] = @ + 1]
    /\ Goto(p, "storing")
    /\ UNCHANGED <<service, store, victim, child, tasks, users, dropped>>

\* collect_output_until_deadline is over and the process has exited: ExecCommandEnd.
CollectExited(p) ==
    /\ call[p] = "collecting"
    /\ proc[p] = "exited"
    /\ ended' = [ended EXCEPT ![p] = @ + 1]
    /\ Goto(p, "releasing")
    /\ UNCHANGED <<service, store, victim, child, tasks, users, dropped>>

ReleaseExited(p) ==
    /\ call[p] = "releasing"
    /\ RemoveEntry(p)
    /\ Goto(p, "outcome")
    /\ UNCHANGED <<service, victim, child, tasks, ended, users, dropped>>

\* deferred_rejection_message; the attempt is unregistered whatever it says.
ExitOutcome(p) ==
    /\ call[p] = "outcome"
    /\ TakeOutcome(p)
    /\ Goto(p, "leaving")
    /\ UNCHANGED <<store, victim, child, tasks, ended, users, dropped>>

\* The Arc of the call is the last one.
LeaveExited(p) ==
    /\ call[p] = "leaving"
    /\ Unregister(p)
    /\ Terminated({p})
    /\ Goto(p, "over")
    /\ UNCHANGED <<store, victim, tasks, ended, users, dropped>>

\* has_exited() was false.  A command whose network access was denied is terminated
\* here, and its call returns an error: nothing sends ExecCommandEnd.
CollectDenied(p) ==
    /\ call[p] = "collecting"
    /\ proc[p] # "exited"
    /\ Taken(p) # "none"
    /\ TakeOutcome(p)
    /\ Terminated({p})
    /\ Goto(p, "denied")
    /\ UNCHANGED <<store, victim, tasks, ended, users, dropped>>

UnregisterDenied(p) ==
    /\ call[p] = "denied"
    /\ Unregister(p)
    /\ Goto(p, "unlisting")
    /\ UNCHANGED <<store, victim, child, tasks, ended, users, dropped>>

ReleaseDenied(p) ==
    /\ call[p] = "unlisting"
    /\ RemoveEntry(p)
    /\ Goto(p, "over")
    /\ UNCHANGED <<service, victim, child, tasks, ended, users, dropped>>

\* Mutant: the outcome of a command that runs on is taken and not looked at.
CollectAlive_Forget(p) ==
    /\ call[p] = "collecting"
    /\ proc[p] # "exited"
    /\ TakeOutcome(p)
    /\ Goto(p, "storing")
    /\ UNCHANGED <<store, victim, child, tasks, ended, users, dropped>>

CollectAlive(p) ==
    /\ call[p] = "collecting"
    /\ proc[p] # "exited"
    /\ Taken(p) = "none"
    /\ Goto(p, "storing")
    /\ UNCHANGED <<service, store, victim, child, tasks, ended, users, dropped>>

\* process_id_to_prune_from_meta: of the entries outside the most recently used, the
\* oldest that has exited, or else the oldest.
Oldest(ps) == {p \in ps : \A q \in ps \ {p} : <<q, p>> \in newer}
ToPrune ==
    LET free == {p \in stored : Cardinality({q \in stored : <<q, p>> \in newer}) >= Protected}
        gone == {p \in free : proc[p] = "exited"}
    IN  IF Cardinality(stored) < MaxProcs \/ free = {} THEN {}
        ELSE Oldest(IF gone # {} THEN gone ELSE free)

\* What store_process does last, without an await.
StartWatchers(p) ==
    /\ watcher' = [watcher EXCEPT ![p] = "on"]
    /\ denier' = [denier EXCEPT ![p] = IF p \in Managed THEN "on" ELSE "off"]

\* Mutant: the store is pruned when it is over its limit, not when it is full.
Store_PruneLate(p) ==
    /\ call[p] = "storing"
    /\ LET out == IF Cardinality(stored) <= MaxProcs THEN {} ELSE ToPrune IN
       /\ stored' = (stored \ out) \cup {p}
       /\ reserved' = reserved \ out
       /\ newer' = Without(out)
       /\ victim' = [victim EXCEPT ![p] = out]
       /\ Goto(p, IF out # {} THEN "pruning" ELSE "warning")
    /\ UNCHANGED <<service, child, tasks, ended, users, dropped>>

\* store_process, under the store's lock.
Store(p) ==
    /\ call[p] = "storing"
    /\ stored' = (stored \ ToPrune) \cup {p}
    /\ reserved' = reserved \ ToPrune
    /\ newer' = Without(ToPrune)
    /\ victim' = [victim EXCEPT ![p] = ToPrune]
    /\ IF ToPrune = {} /\ Cardinality(stored) + 1 < WarnAt
       THEN Goto(p, "over") /\ StartWatchers(p)
       ELSE /\ Goto(p, IF ToPrune # {} THEN "pruning" ELSE "warning")
            /\ UNCHANGED tasks
    /\ UNCHANGED <<service, child, ended, users, dropped>>

\* Mutant: the pruned entry is dropped without being terminated.
PruneVictim_NoTerminate(p) ==
    /\ call[p] = "pruning"
    /\ attempts' = attempts \ victim[p]
    /\ victim' = [victim EXCEPT ![p] = {}]
    /\ Goto(p, "warning")
    /\ UNCHANGED <<outcome, store, child, tasks, ended, users, dropped>>

\* The await of unregister_network_attempt_for_entry is over.
PruneVictim(p) ==
    /\ call[p] = "pruning"
    /\ attempts' = attempts \ victim[p]
    /\ Terminated(victim[p])
    /\ victim' = [victim EXCEPT ![p] = {}]
    /\ Goto(p, "warning")
    /\ UNCHANGED <<outcome, store, tasks, ended, users, dropped>>

\* record_model_warning has returned, or was not needed.
Watch(p) ==
    /\ call[p] = "warning"
    /\ StartWatchers(p)
    /\ Goto(p, "over")
    /\ UNCHANGED <<service, store, victim, child, ended, users, dropped>>

\* The future is dropped: with it goes the only Arc of a process that is not stored.
\* The id, the attempt and a victim are left as they are.
DropCall(p) ==
    /\ InFlight(p)
    /\ IF call[p] \in RunPcs \cup ExitPcs
       THEN Terminated({p}) /\ newer' = Without({p})
       ELSE UNCHANGED <<child, newer>>
    /\ Goto(p, "dropped")
    /\ dropped' = dropped \cup {p}
    /\ UNCHANGED <<service, reserved, stored, victim, tasks, ended, users>>

-----------------------------------------------------------------------------
(* write_stdin. *)

PrepareWrite(p) ==
    /\ p \in stored \ writing
    /\ Cardinality(writing) < MaxWriting
    /\ Touch(p)
    /\ writing' = writing \cup {p}
    /\ UNCHANGED <<service, reserved, stored, call, victim, child, tasks, ended,
                   closing, dropped>>

\* refresh_process_state: the entry is gone, or runs, or is removed; the call may be
\* dropped before the attempt of a removed entry is unregistered.
RefreshWrite(p) ==
    /\ p \in writing
    /\ writing' = writing \ {p}
    /\ IF p \in stored /\ proc[p] = "exited"
       THEN /\ RemoveEntry(p)
            /\ \/ Unregister(p) /\ UNCHANGED dropped
               \/ UNCHANGED service /\ dropped' = dropped \cup {p}
       ELSE UNCHANGED <<service, store, dropped>>
    /\ UNCHANGED <<call, victim, child, tasks, ended, closing>>

-----------------------------------------------------------------------------
(* The background tasks of a process. *)

\* Mutant: the watcher waits until the process is known to have exited.
ReportEnd_NeedsExit(p) ==
    /\ watcher[p] = "on"
    /\ p \in token
    /\ proc[p] = "exited"
    /\ ended' = [ended EXCEPT ![p] = @ + 1]
    /\ watcher' = [watcher EXCEPT ![p] = "done"]
    /\ UNCHANGED <<service, store, call, victim, child, denier, users, dropped>>

\* The exit watcher; the streaming task drains the output once the token is cancelled.
ReportEnd(p) ==
    /\ watcher[p] = "on"
    /\ p \in token
    /\ ended' = [ended EXCEPT ![p] = @ + 1]
    /\ watcher' = [watcher EXCEPT ![p] = "done"]
    /\ UNCHANGED <<service, store, call, victim, child, denier, users, dropped>>

StopDenier(p) ==
    /\ denier[p] = "on"
    /\ p \in token
    /\ denier' = [denier EXCEPT ![p] = "done"]
    /\ UNCHANGED <<service, store, call, victim, child, watcher, ended, users, dropped>>

\* A poll finds that the user has denied the network access of the command.
KillDenied(p) ==
    /\ denier[p] = "on"
    /\ TakeUserDenial(p)
    /\ Terminated({p})
    /\ denier' = [denier EXCEPT ![p] = "release"]
    /\ UNCHANGED <<store, call, victim, watcher, ended, users, dropped>>

\* Mutant: the entry is removed, and its attempt left registered.
ReleaseKilled_KeepAttempt(p) ==
    /\ denier[p] = "release"
    /\ RemoveEntry(p)
    /\ denier' = [denier EXCEPT ![p] = "done"]
    /\ UNCHANGED <<service, call, victim, child, watcher, ended, users, dropped>>

\* release_process_id: the attempt is the entry's, if there still is one.
ReleaseKilled(p) ==
    /\ denier[p] = "release"
    /\ RemoveEntry(p)
    /\ IF p \in stored THEN Unregister(p) ELSE UNCHANGED service
    /\ denier' = [denier EXCEPT ![p] = "done"]
    /\ UNCHANGED <<call, victim, child, watcher, ended, users, dropped>>

\* A child exits by itself, or what terminate() has killed is reaped.
Exit(p) ==
    /\ proc[p] \in {"alive", "killed"}
    /\ proc' = [proc EXCEPT ![p] = "exited"]
    /\ UNCHANGED <<service, store, call, victim, token, tasks, ended, users, dropped>>

\* The task of from_spawned, or the wait in it.
SignalExit(p) ==
    /\ proc[p] = "exited"
    /\ p \notin token
    /\ token' = token \cup {p}
    /\ UNCHANGED <<service, store, call, victim, proc, tasks, ended, users, dropped>>

-----------------------------------------------------------------------------
(* The session and the network proxy. *)

\* terminate_all_processes, under the store's lock; the submission loop runs one at a
\* time.  Ids that are only reserved are forgotten too.
TerminateAll ==
    /\ closing = {}
    /\ closing' = stored
    /\ stored' = {} /\ reserved' = {} /\ newer' = Without(stored)
    /\ UNCHANGED <<service, call, victim, child, tasks, ended, writing, dropped>>

CloseEntry(p) ==
    /\ p \in closing
    /\ Unregister(p)
    /\ Terminated({p})
    /\ closing' = closing \ {p}
    /\ UNCHANGED <<store, call, victim, tasks, ended, writing, dropped>>

\* A request of the command is denied (network_approval.rs).
Deny(p) ==
    /\ p \in attempts
    /\ outcome[p] # "user"
    /\ RecordUserDenial(p) \/ (outcome[p] = "none" /\ RecordPolicyDenial(p))
    /\ UNCHANGED <<store, call, victim, child, tasks, ended, users, dropped>>

-----------------------------------------------------------------------------

OpenStep(p) == Open(p) \/ OpenFails(p) \/ ReleaseFailed(p) \/ Spawn(p)
ExitStep(p) == CollectExited(p) \/ ReleaseExited(p) \/ ExitOutcome(p) \/ LeaveExited(p)
DenyStep(p) == CollectDenied(p) \/ UnregisterDenied(p) \/ ReleaseDenied(p)
StoreStep(p) == CollectAlive(p) \/ Store(p) \/ PruneVictim(p) \/ Watch(p)
CallStep(p) == OpenStep(p) \/ ExitStep(p) \/ DenyStep(p) \/ StoreStep(p)
DenierStep(p) == StopDenier(p) \/ KillDenied(p) \/ ReleaseKilled(p)

Next ==
    \/ \E p \in Procs :
          \/ Allocate(p) \/ Decline(p) \/ CallStep(p) \/ DropCall(p)
          \/ PrepareWrite(p) \/ RefreshWrite(p)
          \/ ReportEnd(p) \/ DenierStep(p) \/ Exit(p) \/ SignalExit(p)
          \/ CloseEntry(p) \/ Deny(p)
    \/ TerminateAll

Spec == Init /\ [][Next]_vars

\* Tasks are scheduled; nothing is assumed of the model, the user or a running child.
Fairness ==
    \A p \in Procs :
        /\ WF_vars(CallStep(p))
        /\ WF_vars(ReportEnd(p))
        /\ WF_vars(DenierStep(p))
        /\ WF_vars(SignalExit(p))
        /\ WF_vars(CloseEntry(p))

FairSpec == Spec /\ Fairness

-----------------------------------------------------------------------------
(* Properties. *)

TypeOK ==
    /\ attempts \subseteq Procs
    /\ outcome \in [Procs -> Outcomes]
    /\ reserved \subseteq Procs
    /\ stored \subseteq Procs
    /\ newer \subseteq Procs \X Procs
    /\ \A p, q \in Procs : <<p, q>> \in newer => <<q, p>> \notin newer
    /\ call \in [Procs -> CallPcs]
    /\ victim \in [Procs -> SUBSET Procs]
    /\ proc \in [Procs -> {"none", "alive", "killed", "exited"}]
    /\ token \subseteq Procs
    /\ watcher \in [Procs -> {"off", "on", "done"}]
    /\ denier \in [Procs -> {"off", "on", "release", "done"}]
    /\ ended \in [Procs -> Nat]
    /\ writing \subseteq Procs
    /\ closing \subseteq Procs
    /\ dropped \subseteq Procs

\* A command ends once for its client, whichever of the call, the exit watcher and an
\* interrupt sees the end (process_manager.rs:242, async_watcher.rs:120).
EndOnce == \A p \in Procs : ended[p] <= (IF p \in Begun THEN 1 ELSE 0)

\* At most MAX_UNIFIED_EXEC_PROCESSES entries: concurrent calls prune and insert under
\* one lock, and there always is an entry outside the protected ones (:732).
StoreBounded == Cardinality(stored) <= MaxProcs

\* A running process can be reached: it is listed, or a task that is about to store or
\* to terminate it still holds it.  The exception is the victim of a call that was
\* dropped between pruning and terminating it (:518).
LiveReachable ==
    \A p \in Procs : proc[p] = "alive" /\ p \notin token =>
        \/ p \in stored \cup closing
        \/ call[p] \in RunPcs
        \/ \E c \in Procs : p \in victim[c] /\ (InFlight(c) \/ c \in dropped)

\* Nothing stays registered with the network approval service once its process is gone:
\* an attempt has an entry, or a task that will unregister it, or a dropped call
\* (:140, :600, :779).
AttemptsReleased ==
    \A p \in attempts :
        \/ p \in stored \cup closing \cup dropped
        \/ InFlight(p)
        \/ \E c \in Procs : p \in victim[c] /\ (InFlight(c) \/ c \in dropped)

\* A process that was listed and has ended is reported, unless the call that stored it was
\* dropped before it had started the watcher (:538).
EndReported ==
    \A p \in Procs :
        (p \in stored \/ watcher[p] = "on") /\ proc[p] # "alive"
            ~> ended[p] = 1 \/ p \in dropped

\* The user's denial ends the command however far its call has come: before it is stored,
\* while it is stored with or without its watchers, or between the two (:268,
\* async_watcher.rs:143).
DenialKills ==
    \A p \in Procs :
        p \in attempts /\ outcome[p] = "user"
            ~> proc[p] # "alive" \/ p \in dropped
=============================================================================
