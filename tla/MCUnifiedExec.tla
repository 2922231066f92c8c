---------------------------- MODULE MCUnifiedExec ----------------------------
(* Finite instances of UnifiedExec: the .cfg files choose the processes, which of them *)
(* run behind the network proxy, and how many the store holds. *)
EXTENDS UnifiedExec, TLC

Symmetry == Permutations(Managed) \cup Permutations(Procs \ Managed)
=============================================================================
