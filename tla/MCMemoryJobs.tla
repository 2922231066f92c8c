---------------------------- MODULE MCMemoryJobs ----------------------------
(* Finite instances of MemoryJobs.  Threads are interchangeable, and so are the *)
(* passes.                                                                      *)
EXTENDS MemoryJobs, TLC

Symmetry == Permutations(Threads) \cup Permutations(Passes)
=============================================================================
