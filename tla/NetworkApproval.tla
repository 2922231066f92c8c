--------------------------- MODULE NetworkApproval ---------------------------
(***************************************************************************)
(* core/src/tools/network_approval.rs with the pending approvals of a turn *)
(* (codex.rs, state/turn.rs): requests of the network proxy, the prompts   *)
(* they raise, the answers of the user, and the commands that are told.    *)
(*                                                                         *)
(* Every connection is a task of the proxy.  The proxy asks the service    *)
(* about a host its own rules do not allow; the service prompts the user   *)
(* under the call id of the command and waits for the answer, or for the   *)
(* sender of the answer to be dropped, which counts as Denied.  An action  *)
(* is what a task does between two awaits.                                 *)
(***************************************************************************)
EXTENDS NetworkAttempts, Naturals

CONSTANTS
    Requests,       \* connections through the proxy
    NoRequest,      \* no sender is pending
    Hosts,
    CallOf,         \* the call id of each attempt; a retry has the id of the first try
    MaxTurns        \* turns of the session (bound of the model)

Calls == {CallOf[a] : a \in Attempts}

ASSUME ApprovalAssumption ==
    /\ DOMAIN CallOf = Attempts
    /\ NoRequest \notin Requests
    /\ Hosts # {}
    /\ MaxTurns \in Nat

VARIABLES
    active,     \* the active turn, 0 when there is none
    turns,      \* turns so far
    pending,    \* pending_approvals of the active turn, by call id
    phase,      \* the command of each attempt
    turnOf,     \* turn_id of each attempt
    approved,   \* approved_hosts of each attempt
    session,    \* session_approved_hosts
    at,         \* where each request is
    host, id,   \* what it asks for, and the attempt id it carries
    target,     \* the attempt the service found for it
    channel,    \* what its oneshot receiver gets, "none" while the sender lives
    prompted    \* requests whose ExecApprovalRequest was sent and not answered

turnVars == <<active, turns, pending>>
attemptVars == <<phase, turnOf, approved>>
requestVars == <<at, host, id, target, channel>>
vars == <<service, turnVars, attemptVars, session, requestVars, prompted>>

-----------------------------------------------------------------------------
(* Data. *)

Approvals == {"approved", "session"}
Decisions == Approvals \cup {"denied"}
Default == "default"    \* ReviewDecision::default(), which is Denied

AskPcs == {"found", "asking", "waiting"}
RequestPcs == {"idle", "new"} \cup AskPcs \cup {"blocked", "allowed", "refused"}

CallId(r) == CallOf[target[r]]
Goto(r, pc) == at' = [at EXCEPT ![r] = pc]

\* A sender that is dropped leaves the default with its receiver.
Answered(rs, d) == channel' = [r \in Requests |-> IF r \in rs THEN d ELSE channel[r]]

Init ==
    /\ ServiceInit
    /\ active = 0 /\ turns = 0
    /\ pending = [c \in Calls |-> NoRequest]
    /\ phase = [a \in Attempts |-> "idle"]
    /\ turnOf = [a \in Attempts |-> 0]
    /\ approved = [a \in Attempts |-> {}]
    /\ session = {}
    /\ at = [r \in Requests |-> "idle"]
    /\ host = [r \in Requests |-> CHOOSE h \in Hosts : TRUE]
    /\ id = [r \in Requests |-> NoAttempt]
    /\ target = [r \in Requests |-> NoAttempt]
    /\ channel = [r \in Requests |-> "none"]
    /\ prompted = {}

-----------------------------------------------------------------------------
(* Turns and commands. *)

StartTurn ==
    /\ active = 0
    /\ turns < MaxTurns
    /\ turns' = turns + 1
    /\ active' = turns + 1
    /\ UNCHANGED <<service, pending, attemptVars, session, requestVars, prompted>>

\* Mutant: what is pending is kept for the next turn.
EndTurn_KeepPending ==
    /\ active # 0
    /\ active' = 0
    /\ UNCHANGED <<service, turns, pending, attemptVars, session, requestVars, prompted>>

\* The turn is over or aborted: take_all_running_tasks clears what is pending, and
\* on_task_finished drops it with the turn.
EndTurn ==
    /\ active # 0
    /\ active' = 0
    /\ pending' = [c \in Calls |-> NoRequest]
    /\ Answered({pending[c] : c \in Calls} \cap Requests, Default)
    /\ UNCHANGED <<service, turns, attemptVars, session, at, host, id, target, prompted>>

\* begin_network_approval.  A retry begins when the first try is over.
Begin(a) ==
    /\ active # 0
    /\ phase[a] = "idle"
    /\ \A b \in Attempts \ {a} : CallOf[b] = CallOf[a] => phase[b] \in {"idle", "rejected", "ok"}
    /\ Register(a)
    /\ phase' = [phase EXCEPT ![a] = "running"]
    /\ turnOf' = [turnOf EXCEPT ![a] = active]
    /\ UNCHANGED <<turnVars, approved, session, requestVars, prompted>>

\* The command has ended: its call is rejected if something was denied to it.
TakeResult(a) ==
    /\ phase[a] = "running"
    /\ TakeOutcome(a)
    /\ phase' = [phase EXCEPT ![a] = IF Taken(a) = "none" THEN "passing" ELSE "rejecting"]
    /\ UNCHANGED <<turnVars, turnOf, approved, session, requestVars, prompted>>

Finish(a) ==
    /\ phase[a] \in {"passing", "rejecting"}
    /\ Unregister(a)
    /\ phase' = [phase EXCEPT ![a] = IF @ = "passing" THEN "ok" ELSE "rejected"]
    /\ UNCHANGED <<turnVars, turnOf, approved, session, requestVars, prompted>>

\* The call's future is dropped: the attempt stays registered.
DropAttempt(a) ==
    /\ phase[a] \in {"running", "passing", "rejecting"}
    /\ phase' = [phase EXCEPT ![a] = "dropped"]
    /\ UNCHANGED <<service, turnVars, turnOf, approved, session, requestVars, prompted>>

-----------------------------------------------------------------------------
(* A request. *)

\* The proxy's rules allow the host, deny it, or leave the decision to the service.
Connect(r) ==
    /\ at[r] = "idle"
    /\ \E h \in Hosts, i \in {a \in Attempts : phase[a] # "idle"} \cup {NoAttempt} :
          /\ host' = [host EXCEPT ![r] = h]
          /\ id' = [id EXCEPT ![r] = i]
    /\ \E pc \in {"allowed", "blocked", "new"} : Goto(r, pc)
    /\ UNCHANGED <<service, turnVars, attemptVars, session, target, channel, prompted>>

\* handle_inline_policy_request: the hosts of the session, the attempt, its hosts.
Consider(r) ==
    /\ at[r] = "new"
    /\ \/ /\ host[r] \in session
          /\ Goto(r, "allowed")
          /\ UNCHANGED target
       \/ /\ host[r] \notin session
          /\ \A a \in Attempts : ~Resolves(id[r], a)
          /\ Goto(r, "blocked")
          /\ UNCHANGED target
       \/ /\ host[r] \notin session
          /\ \E a \in Attempts :
                /\ Resolves(id[r], a)
                /\ target' = [target EXCEPT ![r] = a]
                /\ Goto(r, IF host[r] \in approved[a] THEN "allowed" ELSE "found")
    /\ UNCHANGED <<service, turnVars, attemptVars, session, host, id, channel, prompted>>

\* turn_context_for_sub_id: nobody is asked for a command of an earlier turn.
FindTurn(r) ==
    /\ at[r] = "found"
    /\ Goto(r, IF active = turnOf[target[r]] THEN "asking" ELSE "blocked")
    /\ UNCHANGED <<service, turnVars, attemptVars, session, host, id, target, channel,
                   prompted>>

\* Mutant: the approval that is already pending is kept.
Ask_KeepFirst(r) ==
    /\ at[r] = "asking"
    /\ IF active # 0 /\ pending[CallId(r)] = NoRequest
       THEN pending' = [pending EXCEPT ![CallId(r)] = r]
       ELSE UNCHANGED pending
    /\ prompted' = prompted \cup {r}
    /\ Goto(r, "waiting")
    /\ UNCHANGED <<service, active, turns, attemptVars, session, host, id, target, channel>>

\* request_command_approval: the sender goes to whatever turn is active, in the place of
\* one already pending under the call id; without a turn it is dropped at once.
Ask(r) ==
    /\ at[r] = "asking"
    /\ IF active # 0
       THEN /\ pending' = [pending EXCEPT ![CallId(r)] = r]
            /\ Answered({pending[CallId(r)]} \cap Requests, Default)
       ELSE /\ Answered({r}, Default)
            /\ UNCHANGED pending
    /\ prompted' = prompted \cup {r}
    /\ Goto(r, "waiting")
    /\ UNCHANGED <<service, active, turns, attemptVars, session, host, id, target>>

\* Mutant: the answer goes to any request that is pending.
Answer_Any(r) ==
    /\ r \in prompted
    /\ prompted' = prompted \ {r}
    /\ \E d \in Decisions, c \in Calls :
          /\ pending[c] # NoRequest
          /\ pending' = [pending EXCEPT ![c] = NoRequest]
          /\ Answered({pending[c]}, d)
    /\ UNCHANGED <<service, active, turns, attemptVars, session, at, host, id, target>>

\* notify_approval: the user answers the prompt of r; the answer carries the call id.
Answer(r) ==
    /\ r \in prompted
    /\ prompted' = prompted \ {r}
    /\ LET c == CallId(r) IN
       /\ pending' = [pending EXCEPT ![c] = NoRequest]
       /\ \E d \in Decisions : Answered({pending[c]} \cap Requests, d)
    /\ UNCHANGED <<service, active, turns, attemptVars, session, at, host, id, target>>

Decide(r) ==
    /\ at[r] = "waiting"
    /\ channel[r] # "none"
    /\ Goto(r, IF channel[r] \in Approvals THEN "allowed" ELSE "blocked")
    /\ approved' = [approved EXCEPT ![target[r]] =
                        IF channel[r] = "approved" THEN @ \cup {host[r]} ELSE @]
    /\ session' = IF channel[r] = "session" THEN session \cup {host[r]} ELSE session
    /\ IF channel[r] \in Approvals THEN UNCHANGED service ELSE RecordUserDenial(target[r])
    /\ UNCHANGED <<turnVars, phase, turnOf, host, id, target, channel, prompted>>

\* Mutant: the policy's denial takes the place of the user's.
Block_Override(r) ==
    /\ at[r] = "blocked"
    /\ Goto(r, "refused")
    /\ \/ \E a \in Attempts :
             /\ Resolves(id[r], a)
             /\ outcome' = [outcome EXCEPT ![a] = "policy"]
             /\ UNCHANGED attempts
       \/ (\A a \in Attempts : ~Resolves(id[r], a)) /\ UNCHANGED service
    /\ UNCHANGED <<turnVars, attemptVars, session, host, id, target, channel, prompted>>

\* record_blocked tells the observer of every denial: record_blocked_request.
Block(r) ==
    /\ at[r] = "blocked"
    /\ Goto(r, "refused")
    /\ \/ \E a \in Attempts : Resolves(id[r], a) /\ RecordPolicyDenial(a)
       \/ (\A a \in Attempts : ~Resolves(id[r], a)) /\ UNCHANGED service
    /\ UNCHANGED <<turnVars, attemptVars, session, host, id, target, channel, prompted>>

-----------------------------------------------------------------------------

RequestStep(r) == Consider(r) \/ FindTurn(r) \/ Ask(r) \/ Decide(r) \/ Block(r)

Next ==
    \/ StartTurn \/ EndTurn
    \/ \E a \in Attempts : Begin(a) \/ TakeResult(a) \/ Finish(a) \/ DropAttempt(a)
    \/ \E r \in Requests : Connect(r) \/ RequestStep(r) \/ Answer(r)

Spec == Init /\ [][Next]_vars

\* The proxy's tasks are scheduled; the user need not answer, and no turn need end.
Fairness == \A r \in Requests : WF_vars(RequestStep(r))

FairSpec == Spec /\ Fairness

-----------------------------------------------------------------------------
(* Properties. *)

TypeOK ==
    /\ attempts \subseteq Attempts
    /\ outcome \in [Attempts -> Outcomes]
    /\ active \in 0..turns
    /\ turns \in 0..MaxTurns
    /\ pending \in [Calls -> Requests \cup {NoRequest}]
    /\ phase \in [Attempts -> {"idle", "running", "passing", "rejecting", "ok", "rejected",
                               "dropped"}]
    /\ turnOf \in [Attempts -> 0..MaxTurns]
    /\ approved \in [Attempts -> SUBSET Hosts]
    /\ session \subseteq Hosts
    /\ at \in [Requests -> RequestPcs]
    /\ host \in [Requests -> Hosts]
    /\ id \in [Requests -> Attempts \cup {NoAttempt}]
    /\ target \in [Requests -> Attempts \cup {NoAttempt}]
    /\ \A r \in Requests : at[r] \in AskPcs => target[r] \in Attempts
    /\ channel \in [Requests -> Decisions \cup {Default, "none"}]
    /\ prompted \subseteq Requests

\* A request waits exactly as long as its sender is pending under the call id of its
\* command: whoever overwrites it, ends the turn or answers lets it go (codex.rs:2300,
\* state/turn.rs:76 and 90).
WaitingIsPending ==
    \A r \in Requests :
        at[r] = "waiting" /\ channel[r] = "none" <=> \E c \in Calls : pending[c] = r

\* While a command runs, what the user has denied it stays recorded, whatever the
\* observer says of the same or of another request afterwards, so the command's call is
\* rejected (network_approval.rs:203 and 274, http_proxy.rs:200).
DenialKept ==
    \A r \in Requests :
        LET a == target[r] IN
        /\ channel[r] \in {"denied", Default}
        /\ at[r] \in {"blocked", "refused"}
        /\ phase[a] = "running"
        => outcome[a] = "user"

\* A host is open to a command only because the user has answered a prompt that was
\* raised under its own call id, by this try or an earlier one, or for the session:
\* an answer never crosses from one command to another (codex.rs:2300 and 2445).
AnswersStayWithCall ==
    \A r \in Requests :
        channel[r] # "none" /\ channel[r] # Default =>
            \E q \in Requests \ prompted :
                at[q] \in {"waiting", "blocked", "refused", "allowed"}
                /\ target[q] # NoAttempt /\ CallId(q) = CallId(r)

\* No connection hangs on an approval once no turn is active: it is decided
\* without the user.
OrphansDecided ==
    \A r \in Requests :
        at[r] \in AskPcs /\ active = 0 ~> at[r] \in {"allowed", "refused"} \/ active # 0
=============================================================================
