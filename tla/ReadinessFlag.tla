---------------------------- MODULE ReadinessFlag ----------------------------
(***************************************************************************)
(* utils/readiness/src/lib.rs: a flag that becomes ready once, guarded by  *)
(* tokens, with a watch channel to wake those that wait for it.            *)
(*                                                                         *)
(* The flag, the token set behind its mutex and the channel are three      *)
(* objects, updated one after the other.  Each operator below is one step  *)
(* of a caller that others can see; the callers, and where they are in     *)
(* their calls, belong to the module that EXTENDS this one.  A token is    *)
(* unique to its subscriber, so a token is its holder.                     *)
(***************************************************************************)
EXTENDS Integers

NoOne == -1     \* nobody holds the mutex

VARIABLES
    ready,      \* AtomicBool ready
    tokens,     \* the set behind the mutex: active subscriptions
    lock,       \* who holds the mutex over more than one step
    watch,      \* the value stored in the watch channel
    receivers   \* who holds a watch::Receiver

flag == <<ready, tokens, lock, watch, receivers>>

FlagInit ==
    /\ ready = FALSE
    /\ tokens = {}
    /\ lock = NoOne
    /\ watch = FALSE
    /\ receivers = {}

\* subscribe: readiness is tested again under the lock.
AddToken(p) ==
    /\ lock = NoOne
    /\ ~ready
    /\ tokens' = tokens \cup {p}
    /\ UNCHANGED <<ready, lock, watch, receivers>>

\* mark_ready, under the lock: only a token that is still active opens the flag,
\* and no token outlives that.
Authorized(p) == ~ready /\ p \in tokens
OpenWithToken(p) ==
    /\ ready' = TRUE
    /\ tokens' = {}
    /\ UNCHANGED <<lock, watch, receivers>>

\* is_ready: try_lock succeeds and there is no token.  The guard is held until the
\* flag has been swapped.
NoTokens == lock = NoOne /\ tokens = {}
HoldLock(p) == lock' = p /\ UNCHANGED <<ready, tokens, watch, receivers>>
SwapReady(p) ==
    /\ lock = p
    /\ ready' = TRUE
    /\ lock' = NoOne
    /\ UNCHANGED <<tokens, watch, receivers>>

\* watch::Sender::send stores nothing when there is no receiver.
Broadcast ==
    /\ watch' = (watch \/ receivers # {})
    /\ UNCHANGED <<ready, tokens, lock, receivers>>

\* A receiver created after a broadcast sees the stored value only.
Listen(p) == receivers' = receivers \cup {p} /\ UNCHANGED <<ready, tokens, lock, watch>>
StopListening(p) == receivers' = receivers \ {p} /\ UNCHANGED <<ready, tokens, lock, watch>>
=============================================================================
