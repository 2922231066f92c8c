--------------------------- MODULE MCTurnLifecycle ---------------------------
(* Finite instances of TurnLifecycle.  Inputs are interchangeable: no definition *)
(* orders or names them.                                                         *)
EXTENDS TurnLifecycle, TLC

Symmetry == Permutations(Inputs)
=============================================================================
