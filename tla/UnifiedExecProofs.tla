-------------------------- MODULE UnifiedExecProofs --------------------------
(***************************************************************************)
(* Proofs about UnifiedExec, for any number of processes and any size of   *)
(* the store: type correctness, EndOnce, StoreBounded, LiveReachable and   *)
(* AttemptsReleased.                                                       *)
(***************************************************************************)
EXTENDS UnifiedExec, FiniteSetTheorems, TLAPS

\* What a call has and has not done, by where it is.
CallInv ==
    \A p \in Procs :
        /\ call[p] \in {"idle"} \cup OpenPcs => proc[p] = "none"
        /\ call[p] \notin {"idle"} \cup OpenPcs \cup {"over", "dropped"} => proc[p] # "none"
        /\ call[p] \in {"idle", "reserved", "failing", "unlisting"} => p \notin attempts
        /\ call[p] \notin StorePcs \cup {"over", "dropped"} => p \notin stored \cup closing
        /\ call[p] \in ExitPcs => proc[p] = "exited"
        /\ call[p] \in DenyPcs => p \in token
        /\ call[p] \notin {"pruning", "dropped"} => victim[p] = {}

\* The watchers are started when the call returns; the end is reported by a call that
\* starts none, or by the watcher.
WatchInv ==
    \A p \in Procs :
        /\ watcher[p] # "off" => call[p] = "over" /\ proc[p] # "none"
        /\ watcher[p] = "on" => ended[p] = 0
        /\ denier[p] # "off" => call[p] = "over"
        /\ denier[p] = "release" => p \in token
        /\ ended[p] # 0 => /\ ended[p] = 1
                           /\ proc[p] # "none"
                           /\ call[p] \in ExitPcs \cup {"over", "dropped"}

\* While a call stores its process the entry, not the call, accounts for the attempt.
AttemptInv ==
    \A p \in attempts :
        \/ p \in stored \cup closing \cup dropped
        \/ call[p] \in InFlightPcs \ StorePcs
        \/ \E c \in Procs : p \in victim[c] /\ (InFlight(c) \/ c \in dropped)

IInv == TypeOK /\ CallInv /\ WatchInv /\ LiveReachable /\ AttemptInv

-----------------------------------------------------------------------------
USE ExecAssumption DEF Procs

LEMMA PrunedListed == ToPrune \subseteq stored
BY DEF ToPrune, Oldest

LEMMA Initially == Init => IInv
<1> SUFFICES ASSUME Init PROVE IInv
  OBVIOUS
<1> USE DEF Init, ServiceInit
<1>1. TypeOK
  BY DEF TypeOK, Outcomes, CallPcs
<1>2. CallInv
  BY DEF CallInv, OpenPcs, StorePcs, ExitPcs, DenyPcs
<1>3. WatchInv
  BY DEF WatchInv
<1>4. LiveReachable
  BY DEF LiveReachable
<1>5. AttemptInv
  BY DEF AttemptInv
<1> QED BY <1>1, <1>2, <1>3, <1>4, <1>5 DEF IInv

LEMMA TypeStep == TypeOK /\ [Next]_vars => TypeOK'
<1> SUFFICES ASSUME TypeOK, [Next]_vars PROVE TypeOK'
  OBVIOUS
<1> USE DEF TypeOK, Outcomes, service, store, child, tasks, users, CallPcs, InFlightPcs, OpenPcs, RunPcs, ExitPcs, DenyPcs, StorePcs
<1>1. ASSUME NEW p \in Procs, Allocate(p) PROVE TypeOK'
  BY <1>1 DEF Allocate, Goto
<1>2. ASSUME NEW p \in Procs, Decline(p) PROVE TypeOK'
  BY <1>2 DEF Decline, Goto, RemoveEntry, Without
<1>3. ASSUME NEW p \in Procs, Open(p) PROVE TypeOK'
  BY <1>3 DEF Open, Goto, Register
<1>4. ASSUME NEW p \in Procs, OpenFails(p) PROVE TypeOK'
  BY <1>4 DEF OpenFails, Goto, Unregister
<1>5. ASSUME NEW p \in Procs, ReleaseFailed(p) PROVE TypeOK'
  BY <1>5 DEF ReleaseFailed, Goto, RemoveEntry, Without
<1>6. ASSUME NEW p \in Procs, Spawn(p) PROVE TypeOK'
  BY <1>6 DEF Spawn, Goto, Touch, Without, Timed
<1>7. ASSUME NEW p \in Procs, CollectExited(p) PROVE TypeOK'
  BY <1>7 DEF CollectExited, Goto
<1>8. ASSUME NEW p \in Procs, ReleaseExited(p) PROVE TypeOK'
  BY <1>8 DEF ReleaseExited, Goto, RemoveEntry, Without
<1>9. ASSUME NEW p \in Procs, ExitOutcome(p) PROVE TypeOK'
  BY <1>9 DEF ExitOutcome, Goto, TakeOutcome
<1>10. ASSUME NEW p \in Procs, LeaveExited(p) PROVE TypeOK'
  BY <1>10 DEF LeaveExited, Goto, Unregister, Terminated
<1>11. ASSUME NEW p \in Procs, CollectDenied(p) PROVE TypeOK'
  BY <1>11 DEF CollectDenied, Goto, TakeOutcome, Terminated
<1>12. ASSUME NEW p \in Procs, UnregisterDenied(p) PROVE TypeOK'
  BY <1>12 DEF UnregisterDenied, Goto, Unregister
<1>13. ASSUME NEW p \in Procs, ReleaseDenied(p) PROVE TypeOK'
  BY <1>13 DEF ReleaseDenied, Goto, RemoveEntry, Without
<1>14. ASSUME NEW p \in Procs, CollectAlive(p) PROVE TypeOK'
  BY <1>14 DEF CollectAlive, Goto
<1>15. ASSUME NEW p \in Procs, Store(p) PROVE TypeOK'
  BY <1>15, PrunedListed DEF Store, Goto, StartWatchers, Without
<1>16. ASSUME NEW p \in Procs, PruneVictim(p) PROVE TypeOK'
  BY <1>16 DEF PruneVictim, Goto, Terminated
<1>17. ASSUME NEW p \in Procs, Watch(p) PROVE TypeOK'
  BY <1>17 DEF Watch, Goto, StartWatchers
<1>18. ASSUME NEW p \in Procs, DropCall(p) PROVE TypeOK'
  BY <1>18 DEF DropCall, Goto, Terminated, Without, InFlight
<1>19. ASSUME NEW p \in Procs, PrepareWrite(p) PROVE TypeOK'
  BY <1>19 DEF PrepareWrite, Touch, Without, Timed
<1>20. ASSUME NEW p \in Procs, RefreshWrite(p) PROVE TypeOK'
  BY <1>20 DEF RefreshWrite, RemoveEntry, Without, Unregister
<1>21. ASSUME NEW p \in Procs, ReportEnd(p) PROVE TypeOK'
  BY <1>21 DEF ReportEnd
<1>22. ASSUME NEW p \in Procs, StopDenier(p) PROVE TypeOK'
  BY <1>22 DEF StopDenier
<1>23. ASSUME NEW p \in Procs, KillDenied(p) PROVE TypeOK'
  BY <1>23 DEF KillDenied, TakeUserDenial, TakeOutcome, Terminated
<1>24. ASSUME NEW p \in Procs, ReleaseKilled(p) PROVE TypeOK'
  BY <1>24 DEF ReleaseKilled, RemoveEntry, Without, Unregister
<1>25. ASSUME NEW p \in Procs, Exit(p) PROVE TypeOK'
  BY <1>25 DEF Exit
<1>26. ASSUME NEW p \in Procs, SignalExit(p) PROVE TypeOK'
  BY <1>26 DEF SignalExit
<1>27. ASSUME NEW p \in Procs, CloseEntry(p) PROVE TypeOK'
  BY <1>27 DEF CloseEntry, Unregister, Terminated
<1>28. ASSUME NEW p \in Procs, Deny(p) PROVE TypeOK'
  BY <1>28 DEF Deny, RecordUserDenial, RecordPolicyDenial
<1>29. CASE TerminateAll
  BY <1>29 DEF TerminateAll, Without
<1>30. CASE UNCHANGED vars
  BY <1>30 DEF vars
<1> QED BY <1>1, <1>2, <1>3, <1>4, <1>5, <1>6, <1>7, <1>8, <1>9, <1>10, <1>11, <1>12, <1>13, <1>14, <1>15, <1>16, <1>17, <1>18, <1>19, <1>20, <1>21, <1>22, <1>23, <1>24, <1>25, <1>26, <1>27, <1>28, <1>29, <1>30 DEF Next, CallStep, OpenStep, ExitStep, DenyStep, StoreStep, DenierStep

LEMMA CallStepInv == TypeOK /\ CallInv /\ [Next]_vars => CallInv'
<1> SUFFICES ASSUME TypeOK, CallInv, [Next]_vars PROVE CallInv'
  OBVIOUS
<1> USE DEF TypeOK, CallInv, service, store, child, tasks, users, CallPcs, InFlightPcs, OpenPcs, RunPcs, ExitPcs, DenyPcs, StorePcs
<1>1. ASSUME NEW p \in Procs, Allocate(p) PROVE CallInv'
  BY <1>1 DEF Allocate, Goto
<1>2. ASSUME NEW p \in Procs, Decline(p) PROVE CallInv'
  BY <1>2 DEF Decline, Goto, RemoveEntry
<1>3. ASSUME NEW p \in Procs, Open(p) PROVE CallInv'
  BY <1>3 DEF Open, Goto, Register
<1>4. ASSUME NEW p \in Procs, OpenFails(p) PROVE CallInv'
  BY <1>4 DEF OpenFails, Goto, Unregister
<1>5. ASSUME NEW p \in Procs, ReleaseFailed(p) PROVE CallInv'
  BY <1>5 DEF ReleaseFailed, Goto, RemoveEntry
<1>6. ASSUME NEW p \in Procs, Spawn(p) PROVE CallInv'
  BY <1>6 DEF Spawn, Goto
<1>7. ASSUME NEW p \in Procs, CollectExited(p) PROVE CallInv'
  BY <1>7 DEF CollectExited, Goto
<1>8. ASSUME NEW p \in Procs, ReleaseExited(p) PROVE CallInv'
  BY <1>8 DEF ReleaseExited, Goto, RemoveEntry
<1>9. ASSUME NEW p \in Procs, ExitOutcome(p) PROVE CallInv'
  BY <1>9 DEF ExitOutcome, Goto, TakeOutcome
<1>10. ASSUME NEW p \in Procs, LeaveExited(p) PROVE CallInv'
  BY <1>10 DEF LeaveExited, Goto, Unregister, Terminated
<1>11. ASSUME NEW p \in Procs, CollectDenied(p) PROVE CallInv'
  BY <1>11 DEF CollectDenied, Goto, TakeOutcome, Terminated
<1>12. ASSUME NEW p \in Procs, UnregisterDenied(p) PROVE CallInv'
  BY <1>12 DEF UnregisterDenied, Goto, Unregister
<1>13. ASSUME NEW p \in Procs, ReleaseDenied(p) PROVE CallInv'
  BY <1>13 DEF ReleaseDenied, Goto, RemoveEntry
<1>14. ASSUME NEW p \in Procs, CollectAlive(p) PROVE CallInv'
  BY <1>14 DEF CollectAlive, Goto
<1>15. ASSUME NEW p \in Procs, Store(p) PROVE CallInv'
  BY <1>15 DEF Store, Goto
<1>16. ASSUME NEW p \in Procs, PruneVictim(p) PROVE CallInv'
  BY <1>16 DEF PruneVictim, Goto, Terminated
<1>17. ASSUME NEW p \in Procs, Watch(p) PROVE CallInv'
  BY <1>17 DEF Watch, Goto
<1>18. ASSUME NEW p \in Procs, DropCall(p) PROVE CallInv'
  BY <1>18 DEF DropCall, Goto, Terminated, InFlight
<1>19. ASSUME NEW p \in Procs, PrepareWrite(p) PROVE CallInv'
  BY <1>19 DEF PrepareWrite
<1>20. ASSUME NEW p \in Procs, RefreshWrite(p) PROVE CallInv'
  BY <1>20 DEF RefreshWrite, RemoveEntry, Unregister
<1>21. ASSUME NEW p \in Procs, ReportEnd(p) PROVE CallInv'
  BY <1>21 DEF ReportEnd
<1>22. ASSUME NEW p \in Procs, StopDenier(p) PROVE CallInv'
  BY <1>22 DEF StopDenier
<1>23. ASSUME NEW p \in Procs, KillDenied(p) PROVE CallInv'
  BY <1>23 DEF KillDenied, TakeUserDenial, TakeOutcome, Terminated
<1>24. ASSUME NEW p \in Procs, ReleaseKilled(p) PROVE CallInv'
  BY <1>24 DEF ReleaseKilled, RemoveEntry, Unregister
<1>25. ASSUME NEW p \in Procs, Exit(p) PROVE CallInv'
  BY <1>25 DEF Exit
<1>26. ASSUME NEW p \in Procs, SignalExit(p) PROVE CallInv'
  BY <1>26 DEF SignalExit
<1>27. ASSUME NEW p \in Procs, CloseEntry(p) PROVE CallInv'
  BY <1>27 DEF CloseEntry, Unregister, Terminated
<1>28. ASSUME NEW p \in Procs, Deny(p) PROVE CallInv'
  BY <1>28 DEF Deny, RecordUserDenial, RecordPolicyDenial
<1>29. CASE TerminateAll
  BY <1>29 DEF TerminateAll
<1>30. CASE UNCHANGED vars
  BY <1>30 DEF vars
<1> QED BY <1>1, <1>2, <1>3, <1>4, <1>5, <1>6, <1>7, <1>8, <1>9, <1>10, <1>11, <1>12, <1>13, <1>14, <1>15, <1>16, <1>17, <1>18, <1>19, <1>20, <1>21, <1>22, <1>23, <1>24, <1>25, <1>26, <1>27, <1>28, <1>29, <1>30 DEF Next, CallStep, OpenStep, ExitStep, DenyStep, StoreStep, DenierStep

LEMMA WatchStep == TypeOK /\ CallInv /\ WatchInv /\ [Next]_vars => WatchInv'
<1> SUFFICES ASSUME TypeOK, CallInv, WatchInv, [Next]_vars PROVE WatchInv'
  OBVIOUS
<1> USE DEF TypeOK, CallInv, WatchInv, service, store, child, tasks, users, CallPcs, InFlightPcs, OpenPcs, RunPcs, ExitPcs, DenyPcs, StorePcs
<1>1. ASSUME NEW p \in Procs, Allocate(p) PROVE WatchInv'
  BY <1>1 DEF Allocate, Goto
<1>2. ASSUME NEW p \in Procs, Decline(p) PROVE WatchInv'
  BY <1>2 DEF Decline, Goto, RemoveEntry
<1>3. ASSUME NEW p \in Procs, Open(p) PROVE WatchInv'
  BY <1>3 DEF Open, Goto, Register
<1>4. ASSUME NEW p \in Procs, OpenFails(p) PROVE WatchInv'
  BY <1>4 DEF OpenFails, Goto, Unregister
<1>5. ASSUME NEW p \in Procs, ReleaseFailed(p) PROVE WatchInv'
  BY <1>5 DEF ReleaseFailed, Goto, RemoveEntry
<1>6. ASSUME NEW p \in Procs, Spawn(p) PROVE WatchInv'
  BY <1>6 DEF Spawn, Goto
<1>7. ASSUME NEW p \in Procs, CollectExited(p) PROVE WatchInv'
  BY <1>7 DEF CollectExited, Goto
<1>8. ASSUME NEW p \in Procs, ReleaseExited(p) PROVE WatchInv'
  BY <1>8 DEF ReleaseExited, Goto, RemoveEntry
<1>9. ASSUME NEW p \in Procs, ExitOutcome(p) PROVE WatchInv'
  BY <1>9 DEF ExitOutcome, Goto, TakeOutcome
<1>10. ASSUME NEW p \in Procs, LeaveExited(p) PROVE WatchInv'
  BY <1>10 DEF LeaveExited, Goto, Unregister, Terminated
<1>11. ASSUME NEW p \in Procs, CollectDenied(p) PROVE WatchInv'
  BY <1>11 DEF CollectDenied, Goto, TakeOutcome, Terminated
<1>12. ASSUME NEW p \in Procs, UnregisterDenied(p) PROVE WatchInv'
  BY <1>12 DEF UnregisterDenied, Goto, Unregister
<1>13. ASSUME NEW p \in Procs, ReleaseDenied(p) PROVE WatchInv'
  BY <1>13 DEF ReleaseDenied, Goto, RemoveEntry
<1>14. ASSUME NEW p \in Procs, CollectAlive(p) PROVE WatchInv'
  BY <1>14 DEF CollectAlive, Goto
<1>15. ASSUME NEW p \in Procs, Store(p) PROVE WatchInv'
  BY <1>15 DEF Store, Goto, StartWatchers
<1>16. ASSUME NEW p \in Procs, PruneVictim(p) PROVE WatchInv'
  BY <1>16 DEF PruneVictim, Goto, Terminated
<1>17. ASSUME NEW p \in Procs, Watch(p) PROVE WatchInv'
  BY <1>17 DEF Watch, Goto, StartWatchers
<1>18. ASSUME NEW p \in Procs, DropCall(p) PROVE WatchInv'
  BY <1>18 DEF DropCall, Goto, Terminated, InFlight
<1>19. ASSUME NEW p \in Procs, PrepareWrite(p) PROVE WatchInv'
  BY <1>19 DEF PrepareWrite
<1>20. ASSUME NEW p \in Procs, RefreshWrite(p) PROVE WatchInv'
  BY <1>20 DEF RefreshWrite, RemoveEntry, Unregister
<1>21. ASSUME NEW p \in Procs, ReportEnd(p) PROVE WatchInv'
  BY <1>21 DEF ReportEnd
<1>22. ASSUME NEW p \in Procs, StopDenier(p) PROVE WatchInv'
  BY <1>22 DEF StopDenier
<1>23. ASSUME NEW p \in Procs, KillDenied(p) PROVE WatchInv'
  BY <1>23 DEF KillDenied, TakeUserDenial, TakeOutcome, Terminated
<1>24. ASSUME NEW p \in Procs, ReleaseKilled(p) PROVE WatchInv'
  BY <1>24 DEF ReleaseKilled, RemoveEntry, Unregister
<1>25. ASSUME NEW p \in Procs, Exit(p) PROVE WatchInv'
  BY <1>25 DEF Exit
<1>26. ASSUME NEW p \in Procs, SignalExit(p) PROVE WatchInv'
  BY <1>26 DEF SignalExit
<1>27. ASSUME NEW p \in Procs, CloseEntry(p) PROVE WatchInv'
  BY <1>27 DEF CloseEntry, Unregister, Terminated
<1>28. ASSUME NEW p \in Procs, Deny(p) PROVE WatchInv'
  BY <1>28 DEF Deny, RecordUserDenial, RecordPolicyDenial
<1>29. CASE TerminateAll
  BY <1>29 DEF TerminateAll
<1>30. CASE UNCHANGED vars
  BY <1>30 DEF vars
<1> QED BY <1>1, <1>2, <1>3, <1>4, <1>5, <1>6, <1>7, <1>8, <1>9, <1>10, <1>11, <1>12, <1>13, <1>14, <1>15, <1>16, <1>17, <1>18, <1>19, <1>20, <1>21, <1>22, <1>23, <1>24, <1>25, <1>26, <1>27, <1>28, <1>29, <1>30 DEF Next, CallStep, OpenStep, ExitStep, DenyStep, StoreStep, DenierStep

LEMMA LiveStep == TypeOK /\ CallInv /\ WatchInv /\ LiveReachable /\ [Next]_vars => LiveReachable'
<1> SUFFICES ASSUME TypeOK, CallInv, WatchInv, LiveReachable, [Next]_vars PROVE LiveReachable'
  OBVIOUS
<1> USE DEF TypeOK, CallInv, WatchInv, LiveReachable, service, store, child, tasks, users, CallPcs, InFlightPcs, OpenPcs, RunPcs, ExitPcs, DenyPcs, StorePcs, InFlight
<1>1. ASSUME NEW p \in Procs, Allocate(p) PROVE LiveReachable'
  BY <1>1 DEF Allocate, Goto
<1>2. ASSUME NEW p \in Procs, Decline(p) PROVE LiveReachable'
  BY <1>2 DEF Decline, Goto, RemoveEntry
<1>3. ASSUME NEW p \in Procs, Open(p) PROVE LiveReachable'
  BY <1>3 DEF Open, Goto, Register
<1>4. ASSUME NEW p \in Procs, OpenFails(p) PROVE LiveReachable'
  BY <1>4 DEF OpenFails, Goto, Unregister
<1>5. ASSUME NEW p \in Procs, ReleaseFailed(p) PROVE LiveReachable'
  BY <1>5 DEF ReleaseFailed, Goto, RemoveEntry
<1>6. ASSUME NEW p \in Procs, Spawn(p) PROVE LiveReachable'
  BY <1>6 DEF Spawn, Goto
<1>7. ASSUME NEW p \in Procs, CollectExited(p) PROVE LiveReachable'
  BY <1>7 DEF CollectExited, Goto
<1>8. ASSUME NEW p \in Procs, ReleaseExited(p) PROVE LiveReachable'
  BY <1>8 DEF ReleaseExited, Goto, RemoveEntry
<1>9. ASSUME NEW p \in Procs, ExitOutcome(p) PROVE LiveReachable'
  BY <1>9 DEF ExitOutcome, Goto, TakeOutcome
<1>10. ASSUME NEW p \in Procs, LeaveExited(p) PROVE LiveReachable'
  BY <1>10 DEF LeaveExited, Goto, Unregister, Terminated
<1>11. ASSUME NEW p \in Procs, CollectDenied(p) PROVE LiveReachable'
  BY <1>11 DEF CollectDenied, Goto, TakeOutcome, Terminated
<1>12. ASSUME NEW p \in Procs, UnregisterDenied(p) PROVE LiveReachable'
  BY <1>12 DEF UnregisterDenied, Goto, Unregister
<1>13. ASSUME NEW p \in Procs, ReleaseDenied(p) PROVE LiveReachable'
  BY <1>13 DEF ReleaseDenied, Goto, RemoveEntry
<1>14. ASSUME NEW p \in Procs, CollectAlive(p) PROVE LiveReachable'
  BY <1>14 DEF CollectAlive, Goto
<1>15. ASSUME NEW p \in Procs, Store(p) PROVE LiveReachable'
  BY <1>15 DEF Store, Goto
<1>16. ASSUME NEW p \in Procs, PruneVictim(p) PROVE LiveReachable'
  BY <1>16 DEF PruneVictim, Goto, Terminated
<1>17. ASSUME NEW p \in Procs, Watch(p) PROVE LiveReachable'
  BY <1>17 DEF Watch, Goto
<1>18. ASSUME NEW p \in Procs, DropCall(p) PROVE LiveReachable'
  BY <1>18 DEF DropCall, Goto, Terminated
<1>19. ASSUME NEW p \in Procs, PrepareWrite(p) PROVE LiveReachable'
  BY <1>19 DEF PrepareWrite
<1>20. ASSUME NEW p \in Procs, RefreshWrite(p) PROVE LiveReachable'
  BY <1>20 DEF RefreshWrite, RemoveEntry, Unregister
<1>21. ASSUME NEW p \in Procs, ReportEnd(p) PROVE LiveReachable'
  BY <1>21 DEF ReportEnd
<1>22. ASSUME NEW p \in Procs, StopDenier(p) PROVE LiveReachable'
  BY <1>22 DEF StopDenier
<1>23. ASSUME NEW p \in Procs, KillDenied(p) PROVE LiveReachable'
  BY <1>23 DEF KillDenied, TakeUserDenial, TakeOutcome, Terminated
<1>24. ASSUME NEW p \in Procs, ReleaseKilled(p) PROVE LiveReachable'
  BY <1>24 DEF ReleaseKilled, RemoveEntry, Unregister
<1>25. ASSUME NEW p \in Procs, Exit(p) PROVE LiveReachable'
  BY <1>25 DEF Exit
<1>26. ASSUME NEW p \in Procs, SignalExit(p) PROVE LiveReachable'
  BY <1>26 DEF SignalExit
<1>27. ASSUME NEW p \in Procs, CloseEntry(p) PROVE LiveReachable'
  BY <1>27 DEF CloseEntry, Unregister, Terminated
<1>28. ASSUME NEW p \in Procs, Deny(p) PROVE LiveReachable'
  BY <1>28 DEF Deny, RecordUserDenial, RecordPolicyDenial
<1>29. CASE TerminateAll
  BY <1>29 DEF TerminateAll
<1>30. CASE UNCHANGED vars
  BY <1>30 DEF vars
<1> QED BY <1>1, <1>2, <1>3, <1>4, <1>5, <1>6, <1>7, <1>8, <1>9, <1>10, <1>11, <1>12, <1>13, <1>14, <1>15, <1>16, <1>17, <1>18, <1>19, <1>20, <1>21, <1>22, <1>23, <1>24, <1>25, <1>26, <1>27, <1>28, <1>29, <1>30 DEF Next, CallStep, OpenStep, ExitStep, DenyStep, StoreStep, DenierStep

LEMMA AttemptStep == TypeOK /\ CallInv /\ AttemptInv /\ [Next]_vars => AttemptInv'
<1> SUFFICES ASSUME TypeOK, CallInv, AttemptInv, [Next]_vars PROVE AttemptInv'
  OBVIOUS
<1> USE DEF TypeOK, CallInv, AttemptInv, service, store, child, tasks, users, CallPcs, InFlightPcs, OpenPcs, RunPcs, ExitPcs, DenyPcs, StorePcs, InFlight
<1>1. ASSUME NEW p \in Procs, Allocate(p) PROVE AttemptInv'
  BY <1>1 DEF Allocate, Goto
<1>2. ASSUME NEW p \in Procs, Decline(p) PROVE AttemptInv'
  BY <1>2 DEF Decline, Goto, RemoveEntry
<1>3. ASSUME NEW p \in Procs, Open(p) PROVE AttemptInv'
  BY <1>3 DEF Open, Goto, Register
<1>4. ASSUME NEW p \in Procs, OpenFails(p) PROVE AttemptInv'
  BY <1>4 DEF OpenFails, Goto, Unregister
<1>5. ASSUME NEW p \in Procs, ReleaseFailed(p) PROVE AttemptInv'
  BY <1>5 DEF ReleaseFailed, Goto, RemoveEntry
<1>6. ASSUME NEW p \in Procs, Spawn(p) PROVE AttemptInv'
  BY <1>6 DEF Spawn, Goto
<1>7. ASSUME NEW p \in Procs, CollectExited(p) PROVE AttemptInv'
  BY <1>7 DEF CollectExited, Goto
<1>8. ASSUME NEW p \in Procs, ReleaseExited(p) PROVE AttemptInv'
  BY <1>8 DEF ReleaseExited, Goto, RemoveEntry
<1>9. ASSUME NEW p \in Procs, ExitOutcome(p) PROVE AttemptInv'
  BY <1>9 DEF ExitOutcome, Goto, TakeOutcome
<1>10. ASSUME NEW p \in Procs, LeaveExited(p) PROVE AttemptInv'
  BY <1>10 DEF LeaveExited, Goto, Unregister
<1>11. ASSUME NEW p \in Procs, CollectDenied(p) PROVE AttemptInv'
  BY <1>11 DEF CollectDenied, Goto, TakeOutcome
<1>12. ASSUME NEW p \in Procs, UnregisterDenied(p) PROVE AttemptInv'
  BY <1>12 DEF UnregisterDenied, Goto, Unregister
<1>13. ASSUME NEW p \in Procs, ReleaseDenied(p) PROVE AttemptInv'
  BY <1>13 DEF ReleaseDenied, Goto, RemoveEntry
<1>14. ASSUME NEW p \in Procs, CollectAlive(p) PROVE AttemptInv'
  BY <1>14 DEF CollectAlive, Goto
<1>15. ASSUME NEW p \in Procs, Store(p) PROVE AttemptInv'
  BY <1>15 DEF Store, Goto
<1>16. ASSUME NEW p \in Procs, PruneVictim(p) PROVE AttemptInv'
  BY <1>16 DEF PruneVictim, Goto
<1>17. ASSUME NEW p \in Procs, Watch(p) PROVE AttemptInv'
  BY <1>17 DEF Watch, Goto
<1>18. ASSUME NEW p \in Procs, DropCall(p) PROVE AttemptInv'
  BY <1>18 DEF DropCall, Goto
<1>19. ASSUME NEW p \in Procs, PrepareWrite(p) PROVE AttemptInv'
  BY <1>19 DEF PrepareWrite
<1>20. ASSUME NEW p \in Procs, RefreshWrite(p) PROVE AttemptInv'
  BY <1>20 DEF RefreshWrite, RemoveEntry, Unregister
<1>21. ASSUME NEW p \in Procs, ReportEnd(p) PROVE AttemptInv'
  BY <1>21 DEF ReportEnd
<1>22. ASSUME NEW p \in Procs, StopDenier(p) PROVE AttemptInv'
  BY <1>22 DEF StopDenier
<1>23. ASSUME NEW p \in Procs, KillDenied(p) PROVE AttemptInv'
  BY <1>23 DEF KillDenied, TakeUserDenial, TakeOutcome
<1>24. ASSUME NEW p \in Procs, ReleaseKilled(p) PROVE AttemptInv'
  BY <1>24 DEF ReleaseKilled, RemoveEntry, Unregister
<1>25. ASSUME NEW p \in Procs, Exit(p) PROVE AttemptInv'
  BY <1>25 DEF Exit
<1>26. ASSUME NEW p \in Procs, SignalExit(p) PROVE AttemptInv'
  BY <1>26 DEF SignalExit
<1>27. ASSUME NEW p \in Procs, CloseEntry(p) PROVE AttemptInv'
  BY <1>27 DEF CloseEntry, Unregister
<1>28. ASSUME NEW p \in Procs, Deny(p) PROVE AttemptInv'
  BY <1>28 DEF Deny, RecordUserDenial, RecordPolicyDenial
<1>29. CASE TerminateAll
  BY <1>29 DEF TerminateAll
<1>30. CASE UNCHANGED vars
  BY <1>30 DEF vars
<1> QED BY <1>1, <1>2, <1>3, <1>4, <1>5, <1>6, <1>7, <1>8, <1>9, <1>10, <1>11, <1>12, <1>13, <1>14, <1>15, <1>16, <1>17, <1>18, <1>19, <1>20, <1>21, <1>22, <1>23, <1>24, <1>25, <1>26, <1>27, <1>28, <1>29, <1>30 DEF Next, CallStep, OpenStep, ExitStep, DenyStep, StoreStep, DenierStep

-----------------------------------------------------------------------------
(* The store keeps its limit: a full store has an entry to prune. *)

\* The times of last use order the entries, and the processes about to be stored.
UseInv ==
    /\ \A p, q \in Timed : p # q => <<p, q>> \in newer \/ <<q, p>> \in newer
    /\ \A p, q, r \in Timed :
          <<p, q>> \in newer /\ <<q, r>> \in newer => <<p, r>> \in newer

BoundInv == IsFiniteSet(stored) /\ StoreBounded

\* What is used later than all the others has fewer that are used later.
Below(p) == {q \in stored : <<p, q>> \in newer}

\* Of any entries one was used before all the others.
LEMMA OldestExists ==
    ASSUME TypeOK, UseInv, IsFiniteSet(stored), NEW ps, ps \subseteq stored, ps # {}
    PROVE  Oldest(ps) # {}
<1> DEFINE R == StrictSubsetOrdering(stored)
           B == {Below(p) : p \in ps}
<1>1. IsWellFoundedOn(R, FiniteSubsetsOf(stored))
  BY FS_StrictSubsetOrderingWellFounded
<1>2. FiniteSubsetsOf(stored) = SUBSET stored
  BY FS_FiniteSubsetsOfFinite
<1>3. B \subseteq SUBSET stored /\ B # {}
  BY DEF Below
<1>4. \E b \in B : \A c \in B : ~ (<<c, b>> \in R)
  <2> HIDE DEF R, B
  <2> QED BY <1>1, <1>2, <1>3, WFMin
<1>5. PICK p \in ps : \A q \in ps : ~ (<<Below(q), Below(p)>> \in R)
  BY <1>4
<1>6. ASSUME NEW q \in ps \ {p} PROVE <<q, p>> \in newer
  <2>1. ASSUME <<p, q>> \in newer PROVE FALSE
    <3>1. Below(q) \subseteq Below(p)
      <4> SUFFICES ASSUME NEW r \in Below(q) PROVE r \in Below(p)
        OBVIOUS
      <4>1. p \in Timed /\ q \in Timed /\ r \in Timed
        BY DEF Timed, Below
      <4> QED BY <2>1, <4>1 DEF UseInv, Below
    <3>2. q \in Below(p) /\ q \notin Below(q)
      BY <2>1 DEF Below, TypeOK
    <3>3. Below(q) \in SUBSET stored /\ Below(p) \in SUBSET stored
      BY DEF Below
    <3> QED BY <1>5, <3>1, <3>2, <3>3 DEF StrictSubsetOrdering
  <2>2. p \in Timed /\ q \in Timed /\ p # q
    BY DEF Timed
  <2> QED BY <2>1, <2>2 DEF UseInv
<1> QED BY <1>6 DEF Oldest

\* The oldest entry of a full store is not protected, so there is one to prune.
LEMMA FullIsPruned ==
    ASSUME TypeOK, UseInv, IsFiniteSet(stored), Cardinality(stored) >= MaxProcs
    PROVE  ToPrune # {}
<1> DEFINE Later(p) == {q \in stored : <<q, p>> \in newer}
           free == {p \in stored : Cardinality(Later(p)) >= Protected}
           gone == {p \in free : proc[p] = "exited"}
<1>1. Cardinality(stored) \in Nat /\ stored # {}
  BY FS_CardinalityType, FS_EmptySet
<1>2. PICK p \in stored : \A q \in stored \ {p} : <<q, p>> \in newer
  <2>1. Oldest(stored) # {}
    BY <1>1, OldestExists
  <2> QED BY <2>1 DEF Oldest
<1>3. Later(p) = stored \ {p}
  BY <1>2 DEF TypeOK
<1>4. Cardinality(Later(p)) = Cardinality(stored) - 1
  BY <1>3, FS_RemoveElement
<1>5. p \in free
  BY <1>1, <1>4
<1>6. ~ (Cardinality(stored) < MaxProcs \/ free = {})
  BY <1>1, <1>5
<1>7. ToPrune = Oldest(IF gone # {} THEN gone ELSE free)
  <2> HIDE DEF gone
  <2> QED BY <1>6 DEF ToPrune, gone
<1>8. Oldest(gone) # {} \/ gone = {}
  <2>1. gone \subseteq stored
    OBVIOUS
  <2> HIDE DEF gone
  <2> QED BY <2>1, OldestExists
<1>9. Oldest(free) # {}
  <2>1. free \subseteq stored /\ free # {}
    BY <1>5
  <2> HIDE DEF free
  <2> QED BY <2>1, OldestExists
<1> HIDE DEF free, gone
<1> QED BY <1>7, <1>8, <1>9

LEMMA BoundStep == TypeOK /\ UseInv /\ BoundInv /\ [Next]_vars => BoundInv'
<1> SUFFICES ASSUME TypeOK, UseInv, BoundInv, [Next]_vars PROVE BoundInv'
  OBVIOUS
<1> USE DEF store
<1>1. Cardinality(stored) \in Nat
  BY FS_CardinalityType DEF BoundInv
<1>2. ASSUME NEW p \in Procs, Store(p) PROVE BoundInv'
  <2> DEFINE kept == stored \ ToPrune
  <2>1. stored' = kept \cup {p}
    BY <1>2 DEF Store
  <2>2. IsFiniteSet(kept) /\ Cardinality(kept) \in Nat /\ Cardinality(kept) + 1 <= MaxProcs
    <3>1. CASE Cardinality(stored) >= MaxProcs
      <4>1. PICK v \in ToPrune : TRUE
        BY <3>1, FullIsPruned DEF BoundInv
      <4>2. v \in stored /\ kept \in SUBSET (stored \ {v})
        BY <4>1, PrunedListed
      <4>3. /\ IsFiniteSet(stored \ {v})
            /\ Cardinality(stored \ {v}) = Cardinality(stored) - 1
        BY <4>2, FS_RemoveElement DEF BoundInv
      <4>4. IsFiniteSet(kept) /\ Cardinality(kept) <= Cardinality(stored \ {v})
        <5> HIDE DEF kept
        <5> QED BY <4>2, <4>3, FS_Subset
      <4>5. Cardinality(kept) \in Nat
        BY <4>4, FS_CardinalityType
      <4> QED BY <1>1, <4>3, <4>4, <4>5 DEF BoundInv, StoreBounded
    <3>2. CASE Cardinality(stored) < MaxProcs
      <4>1. ToPrune = {}
        BY <3>2 DEF ToPrune
      <4>2. kept = stored
        BY <4>1
      <4> QED BY <1>1, <3>2, <4>2 DEF BoundInv
    <3> QED BY <1>1, <3>1, <3>2
  <2>3. IsFiniteSet(stored') /\ Cardinality(stored') <= Cardinality(kept) + 1
    <3> HIDE DEF kept
    <3>1. IsFiniteSet(kept \cup {p}) /\ Cardinality(kept \cup {p}) <= Cardinality(kept) + 1
      <4>1. /\ IsFiniteSet(kept \cup {p})
            /\ Cardinality(kept \cup {p})
                 = IF p \in kept THEN Cardinality(kept) ELSE Cardinality(kept) + 1
        BY <2>2, FS_AddElement
      <4> QED BY <2>2, <4>1
    <3> QED BY <2>1, <3>1
  <2>4. Cardinality(stored') \in Nat
    BY <2>3, FS_CardinalityType
  <2> QED BY <2>2, <2>3, <2>4 DEF BoundInv, StoreBounded
<1>3. ASSUME stored' \subseteq stored PROVE BoundInv'
  <2>1. /\ IsFiniteSet(stored') /\ Cardinality(stored') <= Cardinality(stored)
        /\ Cardinality(stored') \in Nat
    BY <1>3, FS_Subset, FS_CardinalityType DEF BoundInv
  <2> QED BY <1>1, <2>1 DEF BoundInv, StoreBounded
<1>4. (\E p \in Procs : Store(p)) \/ stored' \subseteq stored
  <2>1. ASSUME NEW p \in Procs, OpenStep(p) \/ ExitStep(p) \/ DenyStep(p)
        PROVE stored' \subseteq stored
    BY <2>1 DEF OpenStep, ExitStep, DenyStep, Open, OpenFails, ReleaseFailed, Spawn,
         CollectExited, ReleaseExited, ExitOutcome, LeaveExited, CollectDenied,
         UnregisterDenied, ReleaseDenied, RemoveEntry
  <2>2. ASSUME NEW p \in Procs, CollectAlive(p) \/ PruneVictim(p) \/ Watch(p)
               \/ Allocate(p) \/ Decline(p) \/ DropCall(p) \/ PrepareWrite(p)
               \/ RefreshWrite(p)
        PROVE stored' \subseteq stored
    BY <2>2 DEF CollectAlive, PruneVictim, Watch, Allocate, Decline, DropCall,
         PrepareWrite, RefreshWrite, RemoveEntry
  <2>3. ASSUME NEW p \in Procs, ReportEnd(p) \/ DenierStep(p) \/ Exit(p) \/ SignalExit(p)
               \/ CloseEntry(p) \/ Deny(p)
        PROVE stored' \subseteq stored
    BY <2>3 DEF ReportEnd, DenierStep, StopDenier, KillDenied, ReleaseKilled, Exit,
         SignalExit, CloseEntry, Deny, RemoveEntry
  <2>4. TerminateAll \/ UNCHANGED vars => stored' \subseteq stored
    BY DEF TerminateAll, vars
  <2> QED BY <2>1, <2>2, <2>3, <2>4 DEF Next, CallStep, StoreStep
<1> QED BY <1>2, <1>3, <1>4

\* Steps that look at no clock forget processes at most.
Forgets == /\ Timed' \subseteq Timed
           /\ \A p, q \in Timed' : <<p, q>> \in newer => <<p, q>> \in newer'
           /\ newer' \subseteq newer

LEMMA ForgetsKeepsUse == UseInv /\ Forgets => UseInv'
BY DEF UseInv, Forgets

\* A process that is used is later than all the others.
LEMMA TouchKeepsUse ==
    ASSUME TypeOK, UseInv, NEW p \in Procs, Touch(p), Timed' \subseteq Timed \cup {p}
    PROVE  UseInv'
<1>1. \A q, r : q # p /\ r # p => (<<q, r>> \in newer' <=> <<q, r>> \in newer)
  BY DEF Touch, Without
<1>2. \A q \in Timed \ {p} : <<p, q>> \in newer'
  BY DEF Touch
<1>3. \A q : <<q, p>> \notin newer'
  BY DEF Touch, Without
<1> QED BY <1>1, <1>2, <1>3 DEF UseInv

LEMMA UseStep == TypeOK /\ CallInv /\ WatchInv /\ UseInv /\ [Next]_vars => UseInv'
<1> SUFFICES ASSUME TypeOK, CallInv, WatchInv, UseInv, [Next]_vars PROVE UseInv'
  OBVIOUS
<1> USE DEF store, RunPcs, Goto
\* Who is about to be stored is not stored yet, and its call has not returned.
<1>0. \A p \in Procs : call[p] \in RunPcs => p \notin stored
  BY DEF CallInv, StorePcs
<1>1. ASSUME NEW p \in Procs, Spawn(p) PROVE UseInv'
  <2>1. Touch(p) /\ Timed' \subseteq Timed \cup {p}
    BY <1>1 DEF Spawn, Timed, TypeOK
  <2> QED BY <2>1, TouchKeepsUse
<1>2. ASSUME NEW p \in Procs, PrepareWrite(p) PROVE UseInv'
  <2>1. Touch(p) /\ Timed' \subseteq Timed \cup {p}
    BY <1>2 DEF PrepareWrite, Timed
  <2> QED BY <2>1, TouchKeepsUse
<1>3. ASSUME NEW p \in Procs, Store(p) PROVE UseInv'
  <2>1. Timed' \subseteq Timed \ ToPrune
    BY <1>0, <1>3, PrunedListed DEF Store, Timed, TypeOK
  <2>2. newer' = Without(ToPrune)
    BY <1>3 DEF Store
  <2>3. Forgets
    BY <2>1, <2>2 DEF Forgets, Without
  <2> QED BY <2>3, ForgetsKeepsUse
<1>4. ASSUME NEW p \in Procs, RemoveEntry(p), call'[p] \notin RunPcs,
             \A q \in Procs \ {p} : call'[q] = call[q]
      PROVE Forgets
  <2>1. Timed' \subseteq Timed \ {p}
    BY <1>4 DEF RemoveEntry, Timed
  <2>2. newer' = Without({p})
    BY <1>4 DEF RemoveEntry
  <2> QED BY <2>1, <2>2 DEF Forgets, Without
<1>5. ASSUME UNCHANGED store, \A q \in Procs : call'[q] \in RunPcs => call[q] \in RunPcs
      PROVE Forgets
  BY <1>5 DEF Forgets, Timed
<1>6. ASSUME NEW p \in Procs, ReleaseFailed(p) \/ ReleaseExited(p) \/ ReleaseDenied(p)
      PROVE Forgets
  BY <1>4, <1>6 DEF ReleaseFailed, ReleaseExited, ReleaseDenied, TypeOK
<1>7. ASSUME NEW p \in Procs, Open(p) \/ OpenFails(p) \/ CollectExited(p) \/ ExitOutcome(p)
             \/ LeaveExited(p) \/ CollectDenied(p) \/ UnregisterDenied(p)
      PROVE Forgets
  BY <1>5, <1>7 DEF Open, OpenFails, CollectExited, ExitOutcome, LeaveExited,
       CollectDenied, UnregisterDenied, TypeOK
<1>8. ASSUME NEW p \in Procs, CollectAlive(p) \/ PruneVictim(p) \/ Watch(p)
      PROVE Forgets
  BY <1>5, <1>8 DEF CollectAlive, PruneVictim, Watch, TypeOK
<1>9. ASSUME NEW p \in Procs, Decline(p) PROVE Forgets
  <2>1. CASE RemoveEntry(p)
    BY <1>4, <1>9, <2>1 DEF Decline, TypeOK
  <2>2. CASE UNCHANGED store
    BY <1>5, <1>9, <2>2 DEF Decline, TypeOK
  <2> QED BY <1>9, <2>1, <2>2 DEF Decline
<1>10. ASSUME NEW p \in Procs, Allocate(p) PROVE Forgets
  BY <1>10 DEF Allocate, Forgets, Timed, TypeOK
<1>11. ASSUME NEW p \in Procs, DropCall(p) PROVE Forgets
  <2>1. Timed' \subseteq Timed /\ (call[p] \in RunPcs => Timed' \subseteq Timed \ {p})
    BY <1>0, <1>11 DEF DropCall, Timed, TypeOK
  <2>2. call[p] \in ExitPcs => p \notin Timed
    BY DEF CallInv, Timed, ExitPcs, StorePcs
  <2>3. newer' = newer \/ (newer' = Without({p}) /\ Timed' \subseteq Timed \ {p})
    BY <1>11, <2>1, <2>2 DEF DropCall
  <2> QED BY <2>1, <2>3 DEF Forgets, Without
<1>12. ASSUME NEW p \in Procs, RefreshWrite(p) PROVE Forgets
  <2>1. CASE RemoveEntry(p) /\ p \in stored
    BY <1>0, <1>4, <1>12, <2>1 DEF RefreshWrite
  <2>2. CASE UNCHANGED store
    BY <1>5, <1>12, <2>2 DEF RefreshWrite
  <2> QED BY <1>12, <2>1, <2>2 DEF RefreshWrite
<1>13. ASSUME NEW p \in Procs, ReleaseKilled(p) PROVE Forgets
  <2>1. call[p] = "over" /\ call' = call /\ RemoveEntry(p)
    BY <1>13 DEF ReleaseKilled, WatchInv
  <2> QED BY <1>4, <2>1
<1>14. ASSUME NEW p \in Procs, ReportEnd(p) \/ StopDenier(p) \/ KillDenied(p) \/ Exit(p)
              \/ SignalExit(p) \/ CloseEntry(p) \/ Deny(p)
       PROVE Forgets
  BY <1>5, <1>14 DEF ReportEnd, StopDenier, KillDenied, Exit, SignalExit, CloseEntry, Deny
<1>15. CASE TerminateAll
  <2>1. Timed' \subseteq Timed \ stored /\ newer' = Without(stored)
    BY <1>0, <1>15 DEF TerminateAll, Timed
  <2>2. Forgets
    BY <2>1 DEF Forgets, Without
  <2> QED BY <2>2, ForgetsKeepsUse
<1>16. CASE UNCHANGED vars
  <2>1. Forgets
    BY <1>5, <1>16 DEF vars
  <2> QED BY <2>1, ForgetsKeepsUse
<1> QED BY <1>1, <1>2, <1>3, <1>6, <1>7, <1>8, <1>9, <1>10, <1>11, <1>12, <1>13, <1>14,
     <1>15, <1>16, ForgetsKeepsUse
     DEF Next, CallStep, OpenStep, ExitStep, DenyStep, StoreStep, DenierStep

-----------------------------------------------------------------------------
(* The theorems. *)

LEMMA Invariance == Spec => []IInv
<1>1. IInv /\ [Next]_vars => IInv'
  BY TypeStep, CallStepInv, WatchStep, LiveStep, AttemptStep DEF IInv
<1> QED BY <1>1, Initially, PTL DEF Spec

\* Every variable keeps its type, and the order of last use stays one.
THEOREM TypeCorrect == Spec => []TypeOK
<1>1. IInv => TypeOK
  BY DEF IInv
<1> QED BY <1>1, Invariance, PTL

\* No command ends twice: the call reports the end and never stores the process, or
\* stores it and leaves the report to one watcher.
THEOREM EndsOnce == Spec => []EndOnce
<1>1. IInv => EndOnce
  BY DEF IInv, TypeOK, WatchInv, EndOnce, Begun
<1> QED BY <1>1, Invariance, PTL

\* No running process is forgotten: it stays listed until a task that will terminate it
\* has taken it over, or a dropped call has let it go.
THEOREM NoneForgotten == Spec => []LiveReachable
<1>1. IInv => LiveReachable
  BY DEF IInv
<1> QED BY <1>1, Invariance, PTL

\* Every registered network attempt has somebody who will unregister it, or is the
\* attempt of a dropped call.
THEOREM AttemptsCleanedUp == Spec => []AttemptsReleased
<1>1. IInv => AttemptsReleased
  BY DEF IInv, AttemptInv, AttemptsReleased, InFlight
<1> QED BY <1>1, Invariance, PTL

\* The store never holds more than its limit: when it is full, the entry that was used
\* first is unprotected, so that something is pruned under the same lock.
THEOREM StoreKeepsLimit == Spec => []StoreBounded
<1>1. Init => UseInv /\ BoundInv
  BY FS_EmptySet DEF Init, UseInv, BoundInv, StoreBounded, Timed, RunPcs
<1>2. IInv /\ UseInv /\ BoundInv /\ [Next]_vars => (UseInv /\ BoundInv)'
  BY UseStep, BoundStep DEF IInv
<1>3. BoundInv => StoreBounded
  BY DEF BoundInv
<1> QED BY Invariance, <1>1, <1>2, <1>3, PTL DEF Spec

=============================================================================
