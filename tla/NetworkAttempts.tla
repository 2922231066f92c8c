--------------------------- MODULE NetworkAttempts ---------------------------
(***************************************************************************)
(* core/src/tools/network_approval.rs: the attempts of NetworkApprovalService. *)
(* An attempt is a command that runs behind the managed network proxy; what *)
(* the proxy denies it is kept as its outcome until the command's call asks. *)
(*                                                                         *)
(* The map of attempts and each outcome have a mutex of their own.  Whoever *)
(* has looked an attempt up keeps it (an Arc) after it was unregistered, so *)
(* the outcome of an attempt is a variable beside the map.  The callers, and *)
(* when they call, belong to the modules that EXTEND this one.             *)
(***************************************************************************)
EXTENDS FiniteSets

CONSTANT Attempts       \* attempt ids, fresh uuids
CONSTANT NoAttempt      \* a request that carries no attempt id

ASSUME NoAttemptAssumption == NoAttempt \notin Attempts

VARIABLES
    attempts,   \* keys of the attempts map
    outcome     \* what was denied to each attempt, "none" when nothing is stored

service == <<attempts, outcome>>

Outcomes == {"none", "user", "policy"}

ServiceInit ==
    /\ attempts = {}
    /\ outcome = [a \in Attempts |-> "none"]

Register(a) == attempts' = attempts \cup {a} /\ UNCHANGED outcome
Unregister(a) == attempts' = attempts \ {a} /\ UNCHANGED outcome

\* take_outcome: what it returns, and what it leaves behind.
Taken(a) == IF a \in attempts THEN outcome[a] ELSE "none"
TakeOutcome(a) ==
    /\ outcome' = [outcome EXCEPT ![a] = IF a \in attempts THEN "none" ELSE @]
    /\ UNCHANGED attempts

\* take_user_denial_outcome leaves a denial by policy alone.
UserDenied(a) == a \in attempts /\ outcome[a] = "user"
TakeUserDenial(a) == UserDenied(a) /\ TakeOutcome(a)

\* An attempt is found by its id; a request without one belongs to the only attempt
\* there is.
Resolves(id, a) ==
    /\ a \in attempts
    /\ IF id = NoAttempt THEN attempts = {a} ELSE id = a

\* The user's denial overrides what the policy said, and never the other way round.
RecordUserDenial(a) == outcome' = [outcome EXCEPT ![a] = "user"] /\ UNCHANGED attempts
RecordPolicyDenial(a) ==
    /\ outcome' = [outcome EXCEPT ![a] = IF @ = "user" THEN @ ELSE "policy"]
    /\ UNCHANGED attempts
=============================================================================
