-------------------------- MODULE MCNetworkApproval --------------------------
(* Finite instances of NetworkApproval: the commands of two calls.    *)
EXTENDS NetworkApproval

CONSTANTS a1, a2, c1, c2

TwoCalls == [a \in {a1, a2} |-> IF a = a1 THEN c1 ELSE c2]
=============================================================================
