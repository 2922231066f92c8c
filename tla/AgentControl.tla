---------------------------- MODULE AgentControl ----------------------------
(***************************************************************************)
(* Sub-agents and the limit on their number: core/src/agent/{control,      *)
(* guards}.rs, the registry of core/src/thread_manager.rs and the tools of *)
(* core/src/tools/handlers/multi_agents.rs.                                *)
(*                                                                         *)
(* User sessions share one ThreadManager; each has its own Guards, which    *)
(* its sub-agents and delegated sessions share.  Several tasks use them at *)
(* the same time: the lock that multi-agent tool calls take is one per     *)
(* request, the calls a js_repl script makes and the memory consolidation  *)
(* take none.  An agent may be named by any session, since resumed and     *)
(* forked conversations remember its id.  An interrupt drops a call at an  *)
(* await.  Clients of the manager shut threads down and remove them beside *)
(* all this.  What runs between two awaits is one action, or several where *)
(* another thread can see the difference.                                  *)
(***************************************************************************)
EXTENDS Integers, FiniteSets

CONSTANTS
    Sessions,       \* user sessions, each with the Guards of its AgentControl
    Callers,        \* tasks inside a call of some AgentControl (bound of the model)
    Agents,         \* thread ids of sub-agents (bound of the model)
    MaxThreads,     \* agents.max_threads
    None            \* no session, no agent

ASSUME AgentAssumption ==
    /\ IsFiniteSet(Agents) /\ IsFiniteSet(Callers)
    /\ MaxThreads \in Nat \ {0}
    /\ None \notin Agents \cup Sessions

VARIABLES
    total_count,    \* Guards::total_count of each session
    threads_set,    \* Guards::threads_set of each session
    agent,          \* the thread ThreadManagerState::threads has for each id
    call,           \* what each caller runs: operation, place, session, agent, count read
    owner,          \* history variable: the session that inserted the thread
    stuck,          \* history variable: commits of an id that was in the set already
    overlapped      \* history variable: <<s, a>> where s inserted a while s was releasing it

vars == <<total_count, threads_set, agent, call, owner, stuck, overlapped>>
guards == <<total_count, threads_set, stuck>>
threads == <<agent, owner, overlapped>>

\* "closed": not in the registry, but its rollout is on disk.  Of those in it,
\* "shutdown" and "ended" have the status Shutdown, "ended" and "died" have
\* dropped the receiver of their submissions.
Registered(a) == agent[a] \in {"open", "closing", "shutdown", "ended", "died"}
StatusShutdown(a) == agent[a] \in {"shutdown", "ended"}
LoopGone(a) == agent[a] \in {"ended", "died"}

Idle == [op |-> "none", at |-> "idle", session |-> None, agent |-> None,
         current |-> 0]
At(c, place) == call[c].at = place
Goto(c, place) == call' = [call EXCEPT ![c].at = place]
Return(c) == call' = [call EXCEPT ![c] = Idle]
Begin(c, s, op, place, a) ==
    /\ At(c, "idle")
    /\ call' = [call EXCEPT ![c] = [op |-> op, at |-> place, session |-> s, agent |-> a,
                                    current |-> 0]]
Session(c) == call[c].session

Init ==
    /\ total_count = [s \in Sessions |-> 0]
    /\ threads_set = [s \in Sessions |-> {}]
    /\ agent = [a \in Agents |-> "unborn"]
    /\ call = [c \in Callers |-> Idle]
    /\ owner = [a \in Agents |-> None]
    /\ stuck = [s \in Sessions |-> 0]
    /\ overlapped = {}

-----------------------------------------------------------------------------
(* spawn_agent and resume_agent. *)

SpawnAgent(c, s) == Begin(c, s, "spawn", "reserve", None) /\ UNCHANGED <<guards, threads>>

\* resume_agent finds no live thread of that id and looks for its rollout.
ResumeAgent(c, s, a) ==
    /\ agent[a] = "closed"
    /\ Begin(c, s, "resume", "reserve", a)
    /\ UNCHANGED <<guards, threads>>

\* reserve_spawn_slot loads the count, and refuses at the limit.
Examine(c) ==
    IF total_count[Session(c)] >= MaxThreads THEN Return(c)
    ELSE call' = [call EXCEPT ![c].at = "exchange", ![c].current = total_count[Session(c)]]
ReserveSpawnSlot(c) ==
    /\ At(c, "reserve")
    /\ Examine(c)
    /\ UNCHANGED <<guards, threads>>

\* compare_exchange_weak takes the slot if the count is still the one loaded; if
\* not, the new count is examined.
\* Mutant: what was loaded is incremented and stored.
Exchange_Store(c) ==
    /\ At(c, "exchange")
    /\ total_count' = [total_count EXCEPT ![Session(c)] = call[c].current + 1]
    /\ call' = [call EXCEPT ![c].at = "spawning", ![c].current = 0]
    /\ UNCHANGED <<threads_set, stuck, threads>>
Exchange(c) ==
    /\ At(c, "exchange")
    /\ \/ /\ total_count[Session(c)] = call[c].current
          /\ total_count' = [total_count EXCEPT ![Session(c)] = @ + 1]
          /\ call' = [call EXCEPT ![c].at = "spawning", ![c].current = 0]
       \/ /\ total_count[Session(c)] # call[c].current
          /\ Examine(c)
          /\ UNCHANGED total_count
    /\ UNCHANGED <<threads_set, stuck, threads>>

\* Another call of the session has removed the thread and not yet released it.
Releasing(s, a) ==
    \E c \in Callers : At(c, "unlist") /\ Session(c) = s /\ call[c].agent = a

\* finalize_thread_spawn: a new thread gets a fresh id, a resumed one its own,
\* and takes the place of any thread that was resumed under it meanwhile.
InsertThread(c) ==
    /\ At(c, "spawning")
    /\ \E a \in Agents :
          /\ IF call[c].op = "spawn" THEN agent[a] = "unborn" ELSE a = call[c].agent
          /\ agent' = [agent EXCEPT ![a] = "open"]
          /\ owner' = [owner EXCEPT ![a] = Session(c)]
          /\ call' = [call EXCEPT ![c].at = "commit", ![c].agent = a]
          /\ overlapped' = IF Releasing(Session(c), a) THEN overlapped \cup {<<Session(c), a>>}
                           ELSE overlapped
    /\ UNCHANGED guards

\* SpawnReservation::commit; then spawn_agent submits the prompt.
\* Mutant: the reservation is disarmed, but the id is not registered.
Commit_Unregistered(c) ==
    /\ At(c, "commit")
    /\ IF call[c].op = "spawn" THEN Goto(c, "input") ELSE Return(c)
    /\ UNCHANGED <<total_count, threads_set, stuck, threads>>
Commit(c) ==
    LET s == Session(c) IN
    /\ At(c, "commit")
    /\ threads_set' = [threads_set EXCEPT ![s] = @ \cup {call[c].agent}]
    /\ stuck' = IF call[c].agent \in threads_set[s] THEN [stuck EXCEPT ![s] = @ + 1] ELSE stuck
    /\ IF call[c].op = "spawn" THEN Goto(c, "input") ELSE Return(c)
    /\ UNCHANGED <<total_count, threads>>

-----------------------------------------------------------------------------
(* send_input and close_agent. *)

SendInput(c, s, a) ==
    /\ agent[a] # "unborn"
    /\ Begin(c, s, "send", "input", a)
    /\ UNCHANGED <<guards, threads>>

\* send_op: only a thread whose loop is gone answers InternalAgentDied; a thread
\* that is shutting down accepts the input, and one that is not registered is
\* ThreadNotFound.
SubmitInput(c) ==
    /\ At(c, "input")
    /\ IF LoopGone(call[c].agent) THEN Goto(c, "remove") ELSE Return(c)
    /\ UNCHANGED <<guards, threads>>

\* close_agent returns at once for a thread that is not registered, or whose
\* status is Shutdown.  The memory consolidation shuts down the agent it spawned
\* whatever has become of it.
CloseAgent(c, s, a) ==
    /\ (Registered(a) /\ ~StatusShutdown(a)) \/ owner[a] = s
    /\ Begin(c, s, "close", "shutdown", a)
    /\ UNCHANGED <<guards, threads>>

SubmitShutdown(c) ==
    /\ At(c, "shutdown")
    /\ agent' = [agent EXCEPT ![call[c].agent] = IF @ = "open" THEN "closing" ELSE @]
    /\ Goto(c, "remove")
    /\ UNCHANGED <<guards, owner, overlapped>>

RemoveThread(c) ==
    /\ At(c, "remove")
    /\ agent' = [agent EXCEPT ![call[c].agent] = "closed"]
    /\ Goto(c, "unlist")
    /\ UNCHANGED <<guards, owner, overlapped>>

\* release_spawned_thread: the set is left under its mutex, then the count.
\* Mutant: the count is decremented whether or not the id was in the set.
ReleaseThread_AnyThread(c) ==
    /\ At(c, "unlist")
    /\ threads_set' = [threads_set EXCEPT ![Session(c)] = @ \ {call[c].agent}]
    /\ Goto(c, "decrement")
    /\ UNCHANGED <<total_count, stuck, threads>>
ReleaseThread(c) ==
    /\ At(c, "unlist")
    /\ threads_set' = [threads_set EXCEPT ![Session(c)] = @ \ {call[c].agent}]
    /\ IF call[c].agent \in threads_set[Session(c)] THEN Goto(c, "decrement") ELSE Return(c)
    /\ UNCHANGED <<total_count, stuck, threads>>

Decrement(c) ==
    /\ At(c, "decrement")
    /\ total_count' = [total_count EXCEPT ![Session(c)] = @ - 1]
    /\ Return(c)
    /\ UNCHANGED <<threads_set, stuck, threads>>

\* The call ends at an await: an interrupt drops it, or the thread fails to
\* start.  Dropping an active SpawnReservation gives the slot back.
\* Mutant: a reservation is not given back when it is dropped.
Abandon_KeepSlot(c) ==
    /\ call[c].at \in {"reserve", "spawning", "input", "shutdown", "remove"}
    /\ Return(c)
    /\ UNCHANGED <<total_count, threads_set, stuck, threads>>
Abandon(c) ==
    /\ call[c].at \in {"reserve", "spawning", "input", "shutdown", "remove"}
    /\ total_count' = IF At(c, "spawning") THEN [total_count EXCEPT ![Session(c)] = @ - 1]
                      ELSE total_count
    /\ Return(c)
    /\ UNCHANGED <<threads_set, stuck, threads>>

-----------------------------------------------------------------------------
(* Threads and clients of the manager. *)

Become(a, from, to) ==
    /\ agent[a] \in from
    /\ agent' = [agent EXCEPT ![a] = to]
    /\ UNCHANGED <<guards, call, owner, overlapped>>

\* The submission loop of the thread handles Shutdown, then it is gone.
CompleteShutdown(a) == Become(a, {"closing"}, "shutdown")
EndLoop(a) == Become(a, {"shutdown"}, "ended")
LoopDies(a) == Become(a, {"open", "closing"}, "died")

\* thread/archive of the app-server and shutdown_current_thread of the TUI shut
\* the thread down and take it out of the registry, in one order or the other.
ClientShutdown(a) == Become(a, {"open"}, "closing")
ClientRemove(a) == Registered(a) /\ Become(a, {agent[a]}, "closed")

Next ==
    \/ \E c \in Callers :
          \/ ReserveSpawnSlot(c)
          \/ Exchange(c)
          \/ InsertThread(c)
          \/ Commit(c)
          \/ SubmitInput(c)
          \/ SubmitShutdown(c)
          \/ RemoveThread(c)
          \/ ReleaseThread(c)
          \/ Decrement(c)
          \/ Abandon(c)
    \/ \E c \in Callers, s \in Sessions :
          \/ SpawnAgent(c, s)
          \/ \E a \in Agents : ResumeAgent(c, s, a) \/ SendInput(c, s, a) \/ CloseAgent(c, s, a)
    \/ \E a \in Agents :
          \/ CompleteShutdown(a)
          \/ EndLoop(a)
          \/ LoopDies(a)
          \/ ClientShutdown(a)
          \/ ClientRemove(a)

Spec == Init /\ [][Next]_vars

-----------------------------------------------------------------------------
(* Safety. *)

Places == {"idle", "reserve", "exchange", "spawning", "commit", "input", "shutdown", "remove",
           "unlist", "decrement"}
Calls == [op : {"none", "spawn", "resume", "send", "close"}, at : Places,
          session : Sessions \cup {None}, agent : Agents \cup {None},
          current : 0..MaxThreads]

\* Every variable keeps its type; total_count, a usize, neither wraps below zero
\* nor exceeds the limit.
TypeOK ==
    /\ total_count \in [Sessions -> 0..MaxThreads]
    /\ threads_set \in [Sessions -> SUBSET Agents]
    /\ agent \in [Agents -> {"unborn", "closed", "open", "closing", "shutdown", "ended", "died"}]
    /\ call \in [Callers -> Calls]
    /\ owner \in [Agents -> Sessions \cup {None}]
    /\ stuck \in [Sessions -> 0..MaxThreads]
    /\ overlapped \in SUBSET (Sessions \X Agents)

\* The count is what the set and the calls under way account for, interrupted
\* spawns, failed resumes and concurrent closes included, except for one slot lost
\* whenever an id is committed that was in the set already.
Holding(s) == {c \in Callers : /\ Session(c) = s
                               /\ call[c].at \in {"spawning", "commit", "decrement"}}
SlotsAccounted ==
    \A s \in Sessions :
        total_count[s] = Cardinality(threads_set[s]) + Cardinality(Holding(s)) + stuck[s]

\* Every thread in the registry can be released by the session that inserted it: no
\* interleaving of closing in one session and resuming in another takes a live thread
\* out of its owner's set; within one session only a resume between the removal and
\* the release of the same id can.
LiveThreadListed ==
    \A a \in Agents : Registered(a) =>
        \/ a \in threads_set[owner[a]]
        \/ \E c \in Callers : At(c, "commit") /\ Session(c) = owner[a] /\ call[c].agent = a
        \/ <<owner[a], a>> \in overlapped

\* The limit holds, whoever races for the slots, for every session in which no resume
\* has overtaken a release.
Open(s) == {a \in Agents : Registered(a) /\ owner[a] = s}
NeverOverlapped(s) == \A a \in Agents : <<s, a>> \notin overlapped
LimitUnlessOverlapped ==
    \A s \in Sessions : NeverOverlapped(s) => Cardinality(Open(s)) <= MaxThreads

-----------------------------------------------------------------------------
(* A statement of the repository that the code does not keep. *)

\* "Maximum number of agent threads that can be open concurrently"
\* (config/mod.rs:298), for the threads a session has spawned or resumed: two calls
\* close one agent, a third resumes it before the second has released it.
LimitHolds == \A s \in Sessions : Cardinality(Open(s)) <= MaxThreads
=============================================================================
