--------------------------- MODULE MCAgentControl ---------------------------
(* Finite instances of AgentControl.  Sessions are interchangeable, and so are *)
(* callers and thread ids.                                                     *)
EXTENDS AgentControl, TLC

Symmetry == Permutations(Sessions) \cup Permutations(Callers) \cup Permutations(Agents)
=============================================================================
