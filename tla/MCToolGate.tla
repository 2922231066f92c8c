----------------------------- MODULE MCToolGate -----------------------------
(* Finite instances of ToolGate: the .cfg files bound calls and requests. *)
EXTENDS ToolGate
=============================================================================
