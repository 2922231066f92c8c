---------------------------- MODULE MCThreadHistory ----------------------------
(* Finite instances of ThreadHistory.  Every message has the same size, so that *)
(* Room says how many of them a local compaction keeps.                         *)
EXTENDS ThreadHistory

MCCallers == {"turn", "tail", "loop"}
MCSize == [u \in Inputs |-> 1]
InputSymmetry == Permutations(Inputs)
=============================================================================
