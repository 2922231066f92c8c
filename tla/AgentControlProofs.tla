------------------------- MODULE AgentControlProofs -------------------------
(***************************************************************************)
(* Proofs about AgentControl, for any number of sessions, concurrent       *)
(* callers, agents and slots: type correctness (the count never wraps),    *)
(* SlotsAccounted, LiveThreadListed and LimitUnlessOverlapped.             *)
(***************************************************************************)
EXTENDS AgentControl, FiniteSetTheorems, TLAPS

\* A call under way is one of a session, and names an agent from the moment it
\* needs one; a count it is about to exchange was below the limit.
CallOK(c) ==
    \/ call[c].at = "idle"
    \/ /\ Session(c) \in Sessions
       /\ \/ call[c].agent \in Agents
          \/ call[c].at \in {"reserve", "exchange", "spawning"} /\ call[c].op = "spawn"
       /\ call[c].at = "exchange" => call[c].current < MaxThreads
CallInv == \A c \in Callers : CallOK(c)

\* A thread that is about to be released is in the registry no more, or is another
\* session's by now, or was resumed over the release.
UnlistOK(c) ==
    At(c, "unlist") => \/ ~Registered(call[c].agent)
                       \/ owner[call[c].agent] # Session(c)
                       \/ <<Session(c), call[c].agent>> \in overlapped
UnlistInv == \A c \in Callers : UnlistOK(c)

\* A thread in the registry has an owner.
OwnerInv == \A a \in Agents : Registered(a) => owner[a] \in Sessions

IInv == TypeOK /\ CallInv /\ UnlistInv /\ OwnerInv /\ SlotsAccounted /\ LiveThreadListed

-----------------------------------------------------------------------------
USE AgentAssumption

\* The slots of a session are finite in number, and so are the calls that hold one.
LEMMA SlotsFinite ==
  ASSUME TypeOK, NEW s \in Sessions
  PROVE /\ IsFiniteSet(threads_set[s]) /\ Cardinality(threads_set[s]) \in Nat
        /\ IsFiniteSet(Holding(s)) /\ Cardinality(Holding(s)) \in Nat
<1>1. threads_set[s] \subseteq Agents /\ Holding(s) \subseteq Callers
  BY DEF TypeOK, Holding
<1> QED BY <1>1, FS_Subset, FS_CardinalityType

LEMMA Initially == Init => IInv
<1> SUFFICES ASSUME Init PROVE IInv
  OBVIOUS
<1>1. TypeOK
  BY DEF Init, TypeOK, Idle, Calls, Places
<1>2. CallInv /\ UnlistInv /\ OwnerInv /\ LiveThreadListed
  BY DEF Init, Idle, CallInv, CallOK, UnlistInv, UnlistOK, OwnerInv, LiveThreadListed, Registered,
     At
<1>3. SlotsAccounted
  <2>1. \A s \in Sessions : Holding(s) = {}
    BY DEF Init, Idle, Holding
  <2> QED BY <2>1, FS_EmptySet DEF Init, SlotsAccounted
<1> QED BY <1>1, <1>2, <1>3 DEF IInv

-----------------------------------------------------------------------------
(* Frames.  A step is of one caller, or of none: the others keep their calls,  *)
(* and the other sessions their accounts.                                      *)

Others(c) == \A d \in Callers \ {c} : call'[d] = call[d]
Slot(c) == call[c].at \in {"spawning", "commit", "decrement"}

\* A call takes a slot, gives one up, or does neither.
LEMMA TakesSlot ==
  ASSUME TypeOK, NEW c \in Callers, NEW s \in Sessions, Session(c) = s,
         Others(c), ~Slot(c), Slot(c)', Session(c)' = s
  PROVE /\ \A r \in Sessions \ {s} : Holding(r)' = Holding(r)
        /\ Cardinality(Holding(s)') = Cardinality(Holding(s)) + 1
<1>1. \A r \in Sessions \ {s} : Holding(r)' = Holding(r)
  BY DEF Holding, Others, Session, Slot
<1>2. Holding(s)' = Holding(s) \cup {c} /\ c \notin Holding(s)
  BY DEF Holding, Others, Session, Slot
<1>3. IsFiniteSet(Holding(s))
  BY SlotsFinite
<1> QED BY <1>1, <1>2, <1>3, FS_AddElement

LEMMA LeavesSlot ==
  ASSUME TypeOK, NEW c \in Callers, NEW s \in Sessions, Session(c) = s,
         Others(c), Slot(c), ~Slot(c)'
  PROVE /\ \A r \in Sessions \ {s} : Holding(r)' = Holding(r)
        /\ Cardinality(Holding(s)') = Cardinality(Holding(s)) - 1
        /\ Cardinality(Holding(s)) >= 1
<1>1. \A r \in Sessions \ {s} : Holding(r)' = Holding(r)
  BY DEF Holding, Others, Session, Slot
<1>2. Holding(s)' = Holding(s) \ {c} /\ c \in Holding(s)
  BY DEF Holding, Others, Session, Slot
<1>3. IsFiniteSet(Holding(s)) /\ Cardinality(Holding(s)) \in Nat
  BY SlotsFinite
<1>4. Cardinality(Holding(s)') = Cardinality(Holding(s)) - 1 /\ IsFiniteSet(Holding(s)')
  BY <1>2, <1>3, FS_RemoveElement, FS_Subset
<1>5. Cardinality(Holding(s)') \in Nat
  BY <1>4, FS_CardinalityType
<1> QED BY <1>1, <1>3, <1>4, <1>5

LEMMA KeepsSlot ==
  ASSUME NEW c \in Callers, Others(c), Slot(c) <=> Slot(c)', Slot(c) => Session(c)' = Session(c)
  PROVE \A r \in Sessions : Holding(r)' = Holding(r)
BY DEF Holding, Others, Session, Slot

\* A step that leaves the accounts of the sessions but s alone, and balances those.
LEMMA Balance ==
  ASSUME IInv, NEW s \in Sessions,
         \A r \in Sessions \ {s} : /\ total_count'[r] = total_count[r]
                                   /\ threads_set'[r] = threads_set[r]
                                   /\ stuck'[r] = stuck[r]
                                   /\ Holding(r)' = Holding(r),
         total_count'[s] = Cardinality(threads_set'[s]) + Cardinality(Holding(s)') + stuck'[s]
  PROVE SlotsAccounted'
BY DEF IInv, SlotsAccounted

\* A step that changes no account.
LEMMA NoAccountChanged ==
  ASSUME IInv, UNCHANGED guards, \A r \in Sessions : Holding(r)' = Holding(r)
  PROVE SlotsAccounted'
BY DEF IInv, SlotsAccounted, guards

\* Threads only leave the registry, or stay in it with their owner.
Shrinks == /\ \A a \in Agents : Registered(a)' => Registered(a) /\ owner'[a] = owner[a]
           /\ overlapped' = overlapped

\* What a call must be after a step that Shrinks the registry.
LEMMA CallsFrame ==
  ASSUME IInv, Shrinks,
         \A d \in Callers : \/ call'[d] = call[d]
                            \/ /\ CallOK(d)'
                               /\ call'[d].at = "unlist" => ~Registered(call[d].agent)'
  PROVE CallInv' /\ UnlistInv' /\ OwnerInv'
<1>1. CallInv'
  BY DEF IInv, CallInv, CallOK, Session
<1>2. OwnerInv'
  BY DEF IInv, OwnerInv, Shrinks
<1>3. ASSUME NEW d \in Callers, call'[d] = call[d] PROVE UnlistOK(d)'
  <2> SUFFICES ASSUME At(d, "unlist")' PROVE UnlistOK(d)'
    BY DEF UnlistOK
  <2>1. At(d, "unlist") /\ Session(d)' = Session(d) /\ call[d].agent \in Agents
    BY <1>3 DEF At, Session, IInv, CallInv, CallOK
  <2>2. UnlistOK(d)
    BY DEF IInv, UnlistInv
  <2> QED BY <1>3, <2>1, <2>2 DEF UnlistOK, Shrinks
<1>4. ASSUME NEW d \in Callers, call'[d].at = "unlist" => ~Registered(call[d].agent)'
      PROVE UnlistOK(d)'
  BY <1>4 DEF UnlistOK, At
<1> QED BY <1>1, <1>2, <1>3, <1>4 DEF UnlistInv

LEMMA LiveFrame ==
  ASSUME IInv, Shrinks, UNCHANGED threads_set,
         \A d \in Callers : call[d].at = "commit" => call'[d] = call[d]
  PROVE LiveThreadListed'
<1> SUFFICES ASSUME NEW b \in Agents, Registered(b)'
             PROVE (\/ b \in threads_set[owner[b]]
                    \/ \E d \in Callers : At(d, "commit") /\ Session(d) = owner[b] /\ call[d].agent = b
                    \/ <<owner[b], b>> \in overlapped)'
  BY DEF LiveThreadListed
<1>1. /\ owner'[b] = owner[b] /\ overlapped' = overlapped
      /\ \/ b \in threads_set[owner[b]]
         \/ \E d \in Callers : At(d, "commit") /\ Session(d) = owner[b] /\ call[d].agent = b
         \/ <<owner[b], b>> \in overlapped
  BY DEF Shrinks, IInv, LiveThreadListed
<1> QED BY <1>1 DEF At, Session

-----------------------------------------------------------------------------
(* What happens to a call. *)

LEMMA GotoCall ==
  ASSUME TypeOK, NEW c \in Callers, NEW place \in Places, Goto(c, place)
  PROVE /\ call' \in [Callers -> Calls] /\ Others(c)
        /\ call'[c].at = place /\ call'[c].agent = call[c].agent /\ call'[c].op = call[c].op
        /\ call'[c].session = call[c].session
BY DEF Goto, TypeOK, Calls, Others

LEMMA ReturnCall ==
  ASSUME TypeOK, NEW c \in Callers, Return(c)
  PROVE call' \in [Callers -> Calls] /\ Others(c) /\ call'[c].at = "idle"
<1>1. Idle \in Calls /\ Idle.at = "idle"
  BY DEF Idle, Calls, Places
<1> QED BY <1>1 DEF Return, TypeOK, Others

\* A call begins.
LEMMA BeginStep ==
  ASSUME IInv, NEW c \in Callers, NEW s \in Sessions,
         NEW op \in {"spawn", "resume", "send", "close"},
         NEW place \in {"reserve", "input", "shutdown"}, NEW a \in Agents \cup {None},
         a \in Agents \/ (op = "spawn" /\ place = "reserve"),
         Begin(c, s, op, place, a), UNCHANGED <<guards, threads>>
  PROVE IInv'
<1> DEFINE new == [op |-> op, at |-> place, session |-> s, agent |-> a, current |-> 0]
<1>1. call' = [call EXCEPT ![c] = new] /\ call[c].at = "idle"
  BY DEF Begin, At
<1>2. new \in Calls /\ new.at = place /\ new.op = op /\ new.agent = a /\ new.session = s
  BY DEF Calls, Places
<1> HIDE DEF new
<1>3. TypeOK'
  BY <1>1, <1>2 DEF IInv, TypeOK, guards, threads
<1>4. call'[c] = new /\ Others(c)
  BY <1>1 DEF IInv, TypeOK, Others
<1>5. CallOK(c)' /\ call'[c].at # "unlist" /\ ~Slot(c) /\ ~Slot(c)'
  BY <1>1, <1>2, <1>4 DEF CallOK, Session, Slot
<1>6. Shrinks /\ UNCHANGED <<guards, threads_set>>
  BY DEF Shrinks, Registered, threads, guards
<1>7. CallInv' /\ UnlistInv' /\ OwnerInv'
  BY <1>4, <1>5, <1>6, CallsFrame DEF Others
<1>8. LiveThreadListed'
  BY <1>1, <1>4, <1>6, LiveFrame DEF Others
<1>9. SlotsAccounted'
  BY <1>4, <1>5, <1>6, KeepsSlot, NoAccountChanged
<1> QED BY <1>3, <1>7, <1>8, <1>9 DEF IInv

\* A call goes on from reserving or submitting, or ends, and nothing else changes
\* but the count, by the slot it takes or gives up.
Moved(c) ==
    /\ call[c].at \notin {"idle", "commit"}
    /\ call' \in [Callers -> Calls] /\ Others(c)
    /\ \/ call'[c].at = "idle"
       \/ /\ call'[c].agent = call[c].agent /\ call'[c].op = call[c].op
          /\ call'[c].session = call[c].session
          /\ \/ /\ call[c].at \in {"reserve", "exchange"} /\ call'[c].at = "exchange"
                /\ call'[c].current < MaxThreads
             \/ call[c].at = "exchange" /\ call'[c].at = "spawning"
             \/ call[c].at = "input" /\ call'[c].at = "remove"
    /\ UNCHANGED <<threads_set, stuck, threads>>
LEMMA MovedStep ==
  ASSUME IInv, NEW c \in Callers, Moved(c), total_count' \in [Sessions -> 0..MaxThreads],
         SlotsAccounted'
  PROVE IInv'
<1>1. TypeOK'
  BY DEF IInv, TypeOK, Moved, threads
<1>2. CallOK(c)' /\ call'[c].at # "unlist" /\ Shrinks
  BY DEF Moved, CallOK, IInv, CallInv, Session, Shrinks, Registered, threads
<1>3. CallInv' /\ UnlistInv' /\ OwnerInv'
  BY <1>2, CallsFrame DEF Moved, Others
<1>4. LiveThreadListed'
  BY <1>2, LiveFrame DEF Moved, Others
<1> QED BY <1>1, <1>3, <1>4 DEF IInv

\* No slot changes hands.
LEMMA MovedKeeps ==
  ASSUME IInv, NEW c \in Callers, Moved(c), ~Slot(c), ~Slot(c)', UNCHANGED total_count
  PROVE IInv'
<1>1. SlotsAccounted'
  BY KeepsSlot, NoAccountChanged DEF Moved, guards
<1> QED BY <1>1, MovedStep DEF IInv, TypeOK

\* The call ends and gives back the slot it held.
LEMMA GivesBack ==
  ASSUME IInv, NEW c \in Callers, Moved(c), Slot(c), call'[c].at = "idle",
         total_count' = [total_count EXCEPT ![Session(c)] = @ - 1]
  PROVE IInv'
<1>1. PICK s \in Sessions : s = Session(c)
  BY DEF IInv, CallInv, CallOK, Slot
<1>2. /\ total_count \in [Sessions -> 0..MaxThreads] /\ total_count'[s] = total_count[s] - 1
      /\ \A r \in Sessions \ {s} : total_count'[r] = total_count[r]
  BY <1>1 DEF IInv, TypeOK
<1>3. /\ total_count[s] = Cardinality(threads_set[s]) + Cardinality(Holding(s)) + stuck[s]
      /\ Cardinality(threads_set[s]) \in Nat /\ Cardinality(Holding(s)) \in Nat /\ stuck[s] \in Nat
  BY SlotsFinite DEF IInv, SlotsAccounted, TypeOK
<1>4. /\ \A r \in Sessions \ {s} : Holding(r)' = Holding(r)
      /\ Cardinality(Holding(s)') = Cardinality(Holding(s)) - 1 /\ Cardinality(Holding(s)) >= 1
  <2>1. ~Slot(c)' /\ TypeOK /\ Others(c)
    BY DEF Slot, IInv, Moved
  <2> QED BY <1>1, <2>1, LeavesSlot
<1>5. SlotsAccounted'
  <2>1. UNCHANGED <<threads_set, stuck>>
    BY DEF Moved
  <2>2. total_count'[s] = Cardinality(threads_set'[s]) + Cardinality(Holding(s)') + stuck'[s]
    BY <1>2, <1>3, <1>4, <2>1
  <2> QED BY <1>2, <1>4, <2>1, <2>2, Balance
<1>6. total_count' \in [Sessions -> 0..MaxThreads]
  <2>1. total_count[s] - 1 \in 0..MaxThreads
    BY <1>2, <1>3, <1>4
  <2> QED BY <1>1, <1>2, <2>1
<1> QED BY <1>5, <1>6, MovedStep

LEMMA AbandonStep == ASSUME IInv, NEW c \in Callers, Abandon(c) PROVE IInv'
<1>1. Moved(c) /\ call'[c].at = "idle" /\ (Slot(c) <=> At(c, "spawning"))
  BY ReturnCall DEF Abandon, Moved, IInv, Slot, At
<1>2. CASE At(c, "spawning")
  BY <1>1, <1>2, GivesBack DEF Abandon
<1>3. CASE ~At(c, "spawning")
  BY <1>1, <1>3, MovedKeeps DEF Abandon, Slot
<1> QED BY <1>2, <1>3

LEMMA DecrementStep == ASSUME IInv, NEW c \in Callers, Decrement(c) PROVE IInv'
<1>1. Moved(c) /\ call'[c].at = "idle" /\ Slot(c)
  BY ReturnCall DEF Decrement, Moved, IInv, Slot, At
<1> QED BY <1>1, GivesBack DEF Decrement

LEMMA SubmitInputStep == ASSUME IInv, NEW c \in Callers, SubmitInput(c) PROVE IInv'
<1>1. /\ call[c].at = "input" /\ TypeOK /\ UNCHANGED <<total_count, threads_set, stuck, threads>>
  BY DEF SubmitInput, At, IInv, guards
<1>2. CASE Goto(c, "remove")
  <2>1. Moved(c) /\ ~Slot(c) /\ ~Slot(c)'
    BY <1>1, <1>2, GotoCall DEF Moved, Slot, Places
  <2> QED BY <1>1, <2>1, MovedKeeps
<1>3. CASE Return(c)
  <2>1. Moved(c) /\ ~Slot(c) /\ ~Slot(c)'
    BY <1>1, <1>3, ReturnCall DEF Moved, Slot
  <2> QED BY <1>1, <2>1, MovedKeeps
<1> QED BY <1>2, <1>3 DEF SubmitInput

\* Examining the count takes the call to the exchange or ends it.
LEMMA ExamineStep ==
  ASSUME IInv, NEW c \in Callers, call[c].at \in {"reserve", "exchange"}, Examine(c),
         UNCHANGED <<total_count, threads_set, stuck, threads>>
  PROVE IInv'
<1>1. /\ TypeOK /\ Session(c) \in Sessions /\ ~Slot(c)
      /\ total_count[Session(c)] \in 0..MaxThreads
  BY DEF IInv, CallInv, CallOK, Slot, TypeOK
<1>2. CASE total_count[Session(c)] >= MaxThreads
  <2>1. Moved(c) /\ ~Slot(c)'
    BY <1>1, <1>2, ReturnCall DEF Examine, Moved, Slot
  <2> QED BY <1>1, <2>1, MovedKeeps
<1>3. CASE ~(total_count[Session(c)] >= MaxThreads)
  <2>1. call' = [call EXCEPT ![c].at = "exchange", ![c].current = total_count[Session(c)]]
    BY <1>3 DEF Examine
  <2>2. /\ call' \in [Callers -> Calls] /\ Others(c)
        /\ call'[c].at = "exchange" /\ call'[c].agent = call[c].agent /\ call'[c].op = call[c].op
        /\ call'[c].session = call[c].session /\ call'[c].current = total_count[Session(c)]
    BY <1>1, <2>1 DEF TypeOK, Calls, Places, Others
  <2>3. total_count[Session(c)] < MaxThreads
    BY <1>1, <1>3
  <2>4. Moved(c) /\ ~Slot(c)'
    BY <2>2, <2>3 DEF Moved, Slot
  <2> QED BY <1>1, <2>4, MovedKeeps
<1> QED BY <1>2, <1>3

LEMMA ReserveStep == ASSUME IInv, NEW c \in Callers, ReserveSpawnSlot(c) PROVE IInv'
BY ExamineStep DEF ReserveSpawnSlot, At, guards

LEMMA ExchangeStep == ASSUME IInv, NEW c \in Callers, Exchange(c) PROVE IInv'
<1>1. PICK s \in Sessions : s = Session(c)
  BY DEF Exchange, At, IInv, CallInv, CallOK
<1>2. /\ call[c].at = "exchange" /\ ~Slot(c) /\ TypeOK /\ call[c].current < MaxThreads
      /\ total_count \in [Sessions -> 0..MaxThreads] /\ UNCHANGED <<threads_set, stuck, threads>>
  BY DEF Exchange, At, Slot, IInv, TypeOK, CallInv, CallOK
<1>3. CASE /\ total_count[Session(c)] = call[c].current
           /\ total_count' = [total_count EXCEPT ![Session(c)] = @ + 1]
           /\ call' = [call EXCEPT ![c].at = "spawning", ![c].current = 0]
  <2>1. Moved(c) /\ Slot(c)' /\ Session(c)' = s /\ Others(c)
    <3>1. /\ call' \in [Callers -> Calls] /\ Others(c)
          /\ call'[c].at = "spawning" /\ call'[c].agent = call[c].agent
          /\ call'[c].op = call[c].op /\ call'[c].session = call[c].session
      <4>1. /\ call'[c] = [call[c] EXCEPT !.at = "spawning", !.current = 0] /\ Others(c)
            /\ call' = [call EXCEPT ![c] = call'[c]]
        BY <1>2, <1>3 DEF TypeOK, Others
      <4>2. call[c] \in Calls /\ 0 \in 0..MaxThreads
        BY <1>2 DEF TypeOK
      <4>3. /\ call'[c] \in Calls /\ call'[c].at = "spawning" /\ call'[c].agent = call[c].agent
            /\ call'[c].op = call[c].op /\ call'[c].session = call[c].session
        BY <4>1, <4>2 DEF Calls, Places
      <4> QED BY <1>2, <4>1, <4>3 DEF TypeOK
    <3> QED BY <1>1, <1>2, <3>1 DEF Moved, Slot, Session
  <2>2. /\ \A r \in Sessions \ {s} : Holding(r)' = Holding(r)
        /\ Cardinality(Holding(s)') = Cardinality(Holding(s)) + 1
    BY <1>1, <1>2, <2>1, TakesSlot
  <2>3. /\ total_count'[s] = total_count[s] + 1 /\ total_count' \in [Sessions -> 0..MaxThreads]
        /\ \A r \in Sessions \ {s} : total_count'[r] = total_count[r]
    <3>1. total_count[s] + 1 \in 0..MaxThreads
      BY <1>1, <1>2, <1>3
    <3> QED BY <1>1, <1>2, <1>3, <3>1
  <2>4. /\ total_count[s] = Cardinality(threads_set[s]) + Cardinality(Holding(s)) + stuck[s]
        /\ Cardinality(threads_set[s]) \in Nat /\ Cardinality(Holding(s)) \in Nat /\ stuck[s] \in Nat
    BY SlotsFinite DEF IInv, SlotsAccounted, TypeOK
  <2>5. total_count'[s] = Cardinality(threads_set'[s]) + Cardinality(Holding(s)') + stuck'[s]
    BY <1>2, <2>2, <2>3, <2>4
  <2>6. SlotsAccounted'
    BY <1>2, <2>2, <2>3, <2>5, Balance
  <2> QED BY <2>1, <2>3, <2>6, MovedStep
<1>4. CASE Examine(c) /\ UNCHANGED total_count
  BY <1>2, <1>4, ExamineStep
<1> QED BY <1>3, <1>4 DEF Exchange

-----------------------------------------------------------------------------
(* The steps that change the registry or the set under a call. *)

\* Inserting: the only step that brings a thread into the registry.
LEMMA InsertStep == ASSUME IInv, NEW c \in Callers, InsertThread(c) PROVE IInv'
<1>s. PICK s \in Sessions : s = Session(c)
  BY DEF InsertThread, At, IInv, CallInv, CallOK
<1>1. PICK a \in Agents :
       /\ agent' = [agent EXCEPT ![a] = "open"]
       /\ owner' = [owner EXCEPT ![a] = s]
       /\ call' = [call EXCEPT ![c].at = "commit", ![c].agent = a]
       /\ overlapped' = IF Releasing(s, a) THEN overlapped \cup {<<s, a>>} ELSE overlapped
  BY <1>s DEF InsertThread
<1>2. call[c].at = "spawning" /\ UNCHANGED guards /\ TypeOK
  BY DEF InsertThread, At, IInv
<1>3. /\ call' \in [Callers -> Calls] /\ Others(c)
      /\ call'[c].at = "commit" /\ call'[c].agent = a /\ Session(c)' = s
  <2>1. /\ call'[c] = [call[c] EXCEPT !.at = "commit", !.agent = a] /\ Others(c)
        /\ call' = [call EXCEPT ![c] = call'[c]]
    BY <1>1, <1>2 DEF TypeOK, Others
  <2>2. call[c] \in Calls
    BY <1>2 DEF TypeOK
  <2>3. /\ call'[c] \in Calls /\ call'[c].at = "commit" /\ call'[c].agent = a
        /\ call'[c].session = call[c].session
    <3> DEFINE old == call[c]
               new == call'[c]
    <3>1. old \in Calls /\ new = [old EXCEPT !.at = "commit", !.agent = a]
      BY <2>1, <2>2
    <3> HIDE DEF old, new
    <3>2. /\ new \in Calls /\ new.at = "commit" /\ new.agent = a /\ new.session = old.session
      BY <3>1 DEF Calls, Places
    <3> QED BY <3>2 DEF old, new
  <2> QED BY <1>s, <1>2, <2>1, <2>3 DEF TypeOK, Session
<1>4. /\ agent'[a] = "open" /\ owner'[a] = s
      /\ \A b \in Agents \ {a} : agent'[b] = agent[b] /\ owner'[b] = owner[b]
      /\ overlapped \subseteq overlapped'
  BY <1>1, <1>2 DEF TypeOK
<1>5. TypeOK'
  <2>1. /\ agent' \in [Agents -> {"unborn", "closed", "open", "closing", "shutdown", "ended", "died"}]
        /\ owner' \in [Agents -> Sessions \cup {None}] /\ overlapped' \in SUBSET (Sessions \X Agents)
    BY <1>1, <1>2 DEF TypeOK
  <2> QED BY <1>2, <1>3, <2>1 DEF TypeOK, guards
<1>6. CallInv'
  <2>1. CallOK(c)'
    BY <1>3 DEF CallOK
  <2>2. \A d \in Callers \ {c} : CallOK(d)'
    BY <1>3 DEF IInv, CallInv, CallOK, Others, Session
  <2> QED BY <2>1, <2>2 DEF CallInv
<1>7. OwnerInv'
  <2> SUFFICES ASSUME NEW b \in Agents, Registered(b)' PROVE owner'[b] \in Sessions
    BY DEF OwnerInv
  <2>1. CASE b # a
    BY <1>4, <2>1 DEF IInv, OwnerInv, Registered
  <2> QED BY <1>4, <2>1
<1>8. UnlistInv'
  <2> SUFFICES ASSUME NEW d \in Callers, At(d, "unlist")' PROVE UnlistOK(d)'
    BY DEF UnlistInv, UnlistOK
  <2>1. d # c /\ call'[d] = call[d] /\ At(d, "unlist") /\ Session(d)' = Session(d)
    BY <1>3 DEF At, Others, Session
  <2>2. call[d].agent \in Agents /\ UnlistOK(d)
    BY <2>1 DEF IInv, CallInv, CallOK, UnlistInv, At
  <2>3. CASE call[d].agent # a
    BY <1>4, <2>1, <2>2, <2>3 DEF UnlistOK, Registered
  <2>4. CASE call[d].agent = a /\ Session(d) = s
    <3>1. Releasing(s, a)
      BY <2>1, <2>4 DEF Releasing
    <3> QED BY <1>1, <2>1, <2>4, <3>1 DEF UnlistOK
  <2>5. CASE call[d].agent = a /\ Session(d) # s
    BY <1>4, <2>1, <2>5 DEF UnlistOK
  <2> QED BY <2>3, <2>4, <2>5
<1>9. LiveThreadListed'
  <2> SUFFICES ASSUME NEW b \in Agents, Registered(b)'
               PROVE (\/ b \in threads_set[owner[b]]
                      \/ \E d \in Callers : At(d, "commit") /\ Session(d) = owner[b] /\ call[d].agent = b
                      \/ <<owner[b], b>> \in overlapped)'
    BY DEF LiveThreadListed
  <2>1. CASE b = a
    BY <1>3, <1>4, <2>1 DEF At
  <2>2. CASE b # a
    <3>1. owner'[b] = owner[b] /\ Registered(b) /\ UNCHANGED threads_set
      BY <1>2, <1>4, <2>2 DEF Registered, guards
    <3>2. \A d \in Callers : At(d, "commit") => At(d, "commit")' /\ call'[d] = call[d]
      BY <1>2, <1>3 DEF At, Others
    <3>3. \/ b \in threads_set[owner[b]]
          \/ \E d \in Callers : At(d, "commit") /\ Session(d) = owner[b] /\ call[d].agent = b
          \/ <<owner[b], b>> \in overlapped
      BY <3>1 DEF IInv, LiveThreadListed
    <3> QED BY <1>4, <3>1, <3>2, <3>3 DEF Session
  <2> QED BY <2>1, <2>2
<1>10. SlotsAccounted'
  <2>1. Slot(c) /\ Slot(c)' /\ Session(c)' = Session(c)
    BY <1>s, <1>2, <1>3 DEF Slot
  <2> QED BY <1>2, <1>3, <2>1, KeepsSlot, NoAccountChanged
<1> QED BY <1>5, <1>6, <1>7, <1>8, <1>9, <1>10 DEF IInv

\* Committing: the slot passes from the call to the set, or is lost.
LEMMA CommitStep == ASSUME IInv, NEW c \in Callers, Commit(c) PROVE IInv'
<1>1. PICK s \in Sessions, a \in Agents : s = Session(c) /\ a = call[c].agent
  BY DEF Commit, At, IInv, CallInv, CallOK
<1>2. /\ call[c].at = "commit" /\ TypeOK /\ Slot(c)
      /\ threads_set' = [threads_set EXCEPT ![s] = @ \cup {a}]
      /\ stuck' = IF a \in threads_set[s] THEN [stuck EXCEPT ![s] = @ + 1] ELSE stuck
      /\ Goto(c, "input") \/ Return(c)
      /\ UNCHANGED <<total_count, threads>>
  BY <1>1 DEF Commit, At, IInv, Slot
<1>3. /\ call' \in [Callers -> Calls] /\ Others(c) /\ call'[c].at \in {"idle", "input"}
      /\ CallOK(c)'
  <2>1. CASE Goto(c, "input")
    BY <1>1, <1>2, <2>1, GotoCall DEF Places, CallOK, Session
  <2>2. CASE Return(c)
    BY <1>2, <2>2, ReturnCall DEF CallOK
  <2> QED BY <1>2, <2>1, <2>2
<1>4. /\ threads_set'[s] = threads_set[s] \cup {a}
      /\ \A r \in Sessions \ {s} : threads_set'[r] = threads_set[r]
      /\ threads_set' \in [Sessions -> SUBSET Agents]
  BY <1>2 DEF TypeOK
<1>5. /\ stuck'[s] = IF a \in threads_set[s] THEN stuck[s] + 1 ELSE stuck[s]
      /\ \A r \in Sessions \ {s} : stuck'[r] = stuck[r]
  BY <1>2 DEF TypeOK
<1>6. /\ total_count[s] = Cardinality(threads_set[s]) + Cardinality(Holding(s)) + stuck[s]
      /\ total_count[s] \in 0..MaxThreads /\ stuck[s] \in 0..MaxThreads
      /\ IsFiniteSet(threads_set[s]) /\ Cardinality(threads_set[s]) \in Nat
      /\ Cardinality(Holding(s)) \in Nat
  BY SlotsFinite DEF IInv, SlotsAccounted, TypeOK
<1>7. /\ \A r \in Sessions \ {s} : Holding(r)' = Holding(r)
      /\ Cardinality(Holding(s)') = Cardinality(Holding(s)) - 1 /\ Cardinality(Holding(s)) >= 1
  <2>1. ~Slot(c)'
    BY <1>3 DEF Slot
  <2> QED BY <1>1, <1>2, <1>3, <2>1, LeavesSlot
<1>8. total_count'[s] = Cardinality(threads_set'[s]) + Cardinality(Holding(s)') + stuck'[s]
  <2>1. CASE a \in threads_set[s]
    <3>1. threads_set'[s] = threads_set[s]
      BY <1>4, <2>1
    <3> QED BY <1>2, <1>5, <1>6, <1>7, <2>1, <3>1
  <2>2. CASE a \notin threads_set[s]
    <3>1. Cardinality(threads_set'[s]) = Cardinality(threads_set[s]) + 1
      BY <1>4, <1>6, <2>2, FS_AddElement
    <3> QED BY <1>2, <1>5, <1>6, <1>7, <2>2, <3>1
  <2> QED BY <2>1, <2>2
<1>9. SlotsAccounted'
  BY <1>2, <1>4, <1>5, <1>7, <1>8, Balance
<1>10. TypeOK'
  <2>1. stuck'[s] \in 0..MaxThreads
    BY <1>5, <1>6, <1>7
  <2>2. stuck' \in [Sessions -> 0..MaxThreads]
    BY <1>2, <2>1 DEF TypeOK
  <2> QED BY <1>2, <1>3, <1>4, <2>2 DEF TypeOK, threads
<1>11. Shrinks /\ call'[c].at # "unlist"
  BY <1>2, <1>3 DEF Shrinks, Registered, threads
<1>12. CallInv' /\ UnlistInv' /\ OwnerInv'
  BY <1>3, <1>11, CallsFrame DEF Others
<1>13. LiveThreadListed'
  <2> SUFFICES ASSUME NEW b \in Agents, Registered(b)'
               PROVE (\/ b \in threads_set[owner[b]]
                      \/ \E d \in Callers : At(d, "commit") /\ Session(d) = owner[b] /\ call[d].agent = b
                      \/ <<owner[b], b>> \in overlapped)'
    BY DEF LiveThreadListed
  <2>1. /\ owner'[b] = owner[b] /\ overlapped' = overlapped /\ owner[b] \in Sessions
        /\ \/ b \in threads_set[owner[b]]
           \/ \E d \in Callers : At(d, "commit") /\ Session(d) = owner[b] /\ call[d].agent = b
           \/ <<owner[b], b>> \in overlapped
    BY <1>11 DEF Shrinks, IInv, LiveThreadListed, OwnerInv
  <2>2. CASE b \in threads_set[owner[b]]
    BY <1>4, <2>1, <2>2
  <2>3. ASSUME NEW d \in Callers, At(d, "commit"), Session(d) = owner[b], call[d].agent = b
        PROVE \/ b \in threads_set'[owner'[b]]
              \/ At(d, "commit")' /\ Session(d)' = owner'[b] /\ call'[d].agent = b
    BY <1>1, <1>3, <1>4, <2>1, <2>3 DEF At, Session, Others
  <2> QED BY <2>1, <2>2, <2>3
<1> QED BY <1>9, <1>10, <1>12, <1>13 DEF IInv

\* Releasing: the slot passes from the set to the call.
LEMMA ReleaseStep == ASSUME IInv, NEW c \in Callers, ReleaseThread(c) PROVE IInv'
<1>1. PICK s \in Sessions, a \in Agents : s = Session(c) /\ a = call[c].agent
  BY DEF ReleaseThread, At, IInv, CallInv, CallOK
<1>2. /\ call[c].at = "unlist" /\ TypeOK /\ ~Slot(c)
      /\ threads_set' = [threads_set EXCEPT ![s] = @ \ {a}]
      /\ IF a \in threads_set[s] THEN Goto(c, "decrement") ELSE Return(c)
      /\ UNCHANGED <<total_count, stuck, threads>>
  BY <1>1 DEF ReleaseThread, At, IInv, Slot
<1>3. /\ call' \in [Callers -> Calls] /\ Others(c) /\ CallOK(c)'
      /\ a \in threads_set[s] => call'[c].at = "decrement" /\ Session(c)' = s
      /\ a \notin threads_set[s] => call'[c].at = "idle"
  <2>1. CASE a \in threads_set[s]
    BY <1>1, <1>2, <2>1, GotoCall DEF Places, CallOK, Session
  <2>2. CASE a \notin threads_set[s]
    BY <1>2, <2>2, ReturnCall DEF CallOK
  <2> QED BY <1>2, <2>1, <2>2
<1>4. /\ threads_set'[s] = threads_set[s] \ {a}
      /\ \A r \in Sessions \ {s} : threads_set'[r] = threads_set[r]
      /\ threads_set' \in [Sessions -> SUBSET Agents]
  BY <1>2 DEF TypeOK
<1>5. /\ total_count[s] = Cardinality(threads_set[s]) + Cardinality(Holding(s)) + stuck[s]
      /\ IsFiniteSet(threads_set[s]) /\ Cardinality(threads_set[s]) \in Nat
      /\ Cardinality(Holding(s)) \in Nat /\ stuck[s] \in Nat
  BY SlotsFinite DEF IInv, SlotsAccounted, TypeOK
<1>6. SlotsAccounted'
  <2>1. CASE a \in threads_set[s]
    <3>1. Cardinality(threads_set'[s]) = Cardinality(threads_set[s]) - 1
      <4> DEFINE T == threads_set[s]
      <4>1. IsFiniteSet(T) /\ a \in T
        BY <1>5, <2>1
      <4> HIDE DEF T
      <4>2. Cardinality(T \ {a}) = Cardinality(T) - 1
        BY <4>1, FS_RemoveElement
      <4> QED BY <1>4, <4>2 DEF T
    <3>2. /\ \A r \in Sessions \ {s} : Holding(r)' = Holding(r)
          /\ Cardinality(Holding(s)') = Cardinality(Holding(s)) + 1
      <4>1. Slot(c)' /\ Session(c)' = s
        BY <1>3, <2>1 DEF Slot
      <4> QED BY <1>1, <1>2, <1>3, <4>1, TakesSlot
    <3>3. total_count'[s] = Cardinality(threads_set'[s]) + Cardinality(Holding(s)') + stuck'[s]
      BY <1>2, <1>5, <3>1, <3>2
    <3> QED BY <1>2, <1>4, <3>2, <3>3, Balance
  <2>2. CASE a \notin threads_set[s]
    <3>1. UNCHANGED threads_set
      BY <1>2, <2>2 DEF TypeOK
    <3>2. ~Slot(c)'
      BY <1>3, <2>2 DEF Slot
    <3> QED BY <1>2, <1>3, <3>1, <3>2, KeepsSlot, NoAccountChanged DEF guards
  <2> QED BY <2>1, <2>2
<1>7. TypeOK'
  BY <1>2, <1>3, <1>4 DEF TypeOK, threads
<1>8. Shrinks /\ call'[c].at # "unlist"
  BY <1>2, <1>3 DEF Shrinks, Registered, threads
<1>9. CallInv' /\ UnlistInv' /\ OwnerInv'
  BY <1>3, <1>8, CallsFrame DEF Others
<1>10. LiveThreadListed'
  <2> SUFFICES ASSUME NEW b \in Agents, Registered(b)'
               PROVE (\/ b \in threads_set[owner[b]]
                      \/ \E d \in Callers : At(d, "commit") /\ Session(d) = owner[b] /\ call[d].agent = b
                      \/ <<owner[b], b>> \in overlapped)'
    BY DEF LiveThreadListed
  <2>1. /\ owner'[b] = owner[b] /\ overlapped' = overlapped /\ owner[b] \in Sessions
        /\ Registered(b)
        /\ \/ b \in threads_set[owner[b]]
           \/ \E d \in Callers : At(d, "commit") /\ Session(d) = owner[b] /\ call[d].agent = b
           \/ <<owner[b], b>> \in overlapped
    BY <1>8 DEF Shrinks, IInv, LiveThreadListed, OwnerInv
  <2>2. \A d \in Callers : At(d, "commit") => call'[d] = call[d]
    BY <1>2, <1>3 DEF At, Others
  <2>3. CASE b = a /\ owner[b] = s
    <3>1. UnlistOK(c)
      BY DEF IInv, UnlistInv
    <3> QED BY <1>1, <1>2, <2>1, <2>3, <3>1 DEF UnlistOK, At
  <2>4. CASE ~(b = a /\ owner[b] = s)
    BY <1>4, <2>1, <2>2, <2>4 DEF At, Session
  <2> QED BY <2>3, <2>4
<1> QED BY <1>6, <1>7, <1>9, <1>10 DEF IInv

LEMMA SubmitShutdownStep == ASSUME IInv, NEW c \in Callers, SubmitShutdown(c) PROVE IInv'
<1>1. /\ call[c].at = "shutdown" /\ call[c].agent \in Agents /\ Session(c) \in Sessions
      /\ TypeOK /\ UNCHANGED <<guards, owner, overlapped>>
  BY DEF SubmitShutdown, At, IInv, CallInv, CallOK
<1>2. /\ call' \in [Callers -> Calls] /\ Others(c)
      /\ call'[c].at = "remove" /\ call'[c].agent = call[c].agent
      /\ call'[c].session = call[c].session
  BY <1>1, GotoCall DEF SubmitShutdown, Places
<1>3. TypeOK'
  <2>1. agent' \in [Agents -> {"unborn", "closed", "open", "closing", "shutdown", "ended", "died"}]
    BY <1>1 DEF SubmitShutdown, TypeOK
  <2> QED BY <1>1, <1>2, <2>1 DEF TypeOK, guards
<1>4. Shrinks
  BY <1>1 DEF SubmitShutdown, Shrinks, Registered, TypeOK
<1>5. CallOK(c)' /\ ~Slot(c) /\ ~Slot(c)' /\ UNCHANGED threads_set
  BY <1>1, <1>2 DEF CallOK, Session, Slot, guards
<1>6. CallInv' /\ UnlistInv' /\ OwnerInv'
  BY <1>2, <1>4, <1>5, CallsFrame DEF Others
<1>7. LiveThreadListed'
  BY <1>1, <1>2, <1>4, <1>5, LiveFrame DEF Others
<1>8. SlotsAccounted'
  BY <1>1, <1>2, <1>5, KeepsSlot, NoAccountChanged
<1> QED BY <1>3, <1>6, <1>7, <1>8 DEF IInv

LEMMA RemoveStep == ASSUME IInv, NEW c \in Callers, RemoveThread(c) PROVE IInv'
<1>1. /\ call[c].at = "remove" /\ call[c].agent \in Agents /\ Session(c) \in Sessions
      /\ TypeOK /\ UNCHANGED <<guards, owner, overlapped>>
      /\ agent' = [agent EXCEPT ![call[c].agent] = "closed"]
  BY DEF RemoveThread, At, IInv, CallInv, CallOK
<1>2. /\ call' \in [Callers -> Calls] /\ Others(c)
      /\ call'[c].at = "unlist" /\ call'[c].agent = call[c].agent
      /\ call'[c].session = call[c].session
  BY <1>1, GotoCall DEF RemoveThread, Places
<1>3. TypeOK'
  BY <1>1, <1>2 DEF TypeOK, guards
<1>4. Shrinks /\ agent'[call[c].agent] = "closed"
  BY <1>1 DEF Shrinks, Registered, TypeOK
<1>5. CallOK(c)' /\ ~Slot(c) /\ ~Slot(c)' /\ UNCHANGED threads_set /\ ~Registered(call[c].agent)'
  BY <1>1, <1>2, <1>4 DEF CallOK, Session, Slot, guards, Registered
<1>6. CallInv' /\ UnlistInv' /\ OwnerInv'
  BY <1>2, <1>4, <1>5, CallsFrame DEF Others
<1>7. LiveThreadListed'
  BY <1>1, <1>2, <1>4, <1>5, LiveFrame DEF Others
<1>8. SlotsAccounted'
  BY <1>1, <1>2, <1>5, KeepsSlot, NoAccountChanged
<1> QED BY <1>3, <1>6, <1>7, <1>8 DEF IInv

\* A thread goes through its life by itself, or a client ends it.
LEMMA ThreadStep ==
  ASSUME IInv, NEW a \in Agents, NEW from, NEW to \in {"closed", "closing", "shutdown", "ended", "died"},
         from \subseteq {"open", "closing", "shutdown", "ended", "died"}, Become(a, from, to)
  PROVE IInv'
<1>1. agent' = [agent EXCEPT ![a] = to] /\ UNCHANGED <<guards, call, owner, overlapped>> /\ Registered(a)
  BY DEF Become, Registered
<1>2. Shrinks
  BY <1>1 DEF Registered, IInv, TypeOK, Shrinks
<1>3. TypeOK'
  BY <1>1 DEF IInv, TypeOK, guards
<1>4. CallInv' /\ UnlistInv' /\ OwnerInv'
  BY <1>1, <1>2, CallsFrame
<1>5. LiveThreadListed'
  BY <1>1, <1>2, LiveFrame DEF guards
<1>6. SlotsAccounted'
  <2>1. \A r \in Sessions : Holding(r)' = Holding(r)
    BY <1>1 DEF Holding, Session
  <2> QED BY <1>1, <2>1, NoAccountChanged
<1> QED BY <1>3, <1>4, <1>5, <1>6 DEF IInv

-----------------------------------------------------------------------------
(* Invariance. *)

LEMMA Preserved == IInv /\ [Next]_vars => IInv'
<1> SUFFICES ASSUME IInv, [Next]_vars PROVE IInv'
  OBVIOUS
<1>1. ASSUME NEW c \in Callers, NEW s \in Sessions, SpawnAgent(c, s) PROVE IInv'
  BY <1>1, BeginStep DEF SpawnAgent
<1>2. ASSUME NEW c \in Callers, NEW s \in Sessions, NEW a \in Agents, ResumeAgent(c, s, a) PROVE IInv'
  BY <1>2, BeginStep DEF ResumeAgent
<1>3. ASSUME NEW c \in Callers, NEW s \in Sessions, NEW a \in Agents, SendInput(c, s, a) PROVE IInv'
  BY <1>3, BeginStep DEF SendInput
<1>4. ASSUME NEW c \in Callers, NEW s \in Sessions, NEW a \in Agents, CloseAgent(c, s, a) PROVE IInv'
  BY <1>4, BeginStep DEF CloseAgent
<1>5. ASSUME NEW a \in Agents,
             \/ CompleteShutdown(a) \/ EndLoop(a) \/ LoopDies(a) \/ ClientShutdown(a) \/ ClientRemove(a)
      PROVE IInv'
  <2>1. ASSUME ClientRemove(a) PROVE IInv'
    <3>1. {agent[a]} \subseteq {"open", "closing", "shutdown", "ended", "died"}
      BY <2>1 DEF ClientRemove, Registered
    <3> QED BY <2>1, <3>1, ThreadStep DEF ClientRemove
  <2>2. ASSUME CompleteShutdown(a) PROVE IInv'
    BY <2>2, ThreadStep, {"closing"} \subseteq {"open", "closing", "shutdown", "ended", "died"}
    DEF CompleteShutdown
  <2>3. ASSUME EndLoop(a) PROVE IInv'
    BY <2>3, ThreadStep, {"shutdown"} \subseteq {"open", "closing", "shutdown", "ended", "died"}
    DEF EndLoop
  <2>4. ASSUME LoopDies(a) PROVE IInv'
    BY <2>4, ThreadStep, {"open", "closing"} \subseteq {"open", "closing", "shutdown", "ended", "died"}
    DEF LoopDies
  <2>5. ASSUME ClientShutdown(a) PROVE IInv'
    BY <2>5, ThreadStep, {"open"} \subseteq {"open", "closing", "shutdown", "ended", "died"}
    DEF ClientShutdown
  <2> QED BY <1>5, <2>1, <2>2, <2>3, <2>4, <2>5
<1>6. CASE UNCHANGED vars
  BY <1>6 DEF vars, IInv, TypeOK, CallInv, CallOK, UnlistInv, UnlistOK, OwnerInv, SlotsAccounted,
              Holding, Session, LiveThreadListed, Registered, At
<1> QED BY <1>1, <1>2, <1>3, <1>4, <1>5, <1>6, ReserveStep, ExchangeStep, InsertStep, CommitStep, SubmitInputStep,
           SubmitShutdownStep, RemoveStep, ReleaseStep, DecrementStep, AbandonStep DEF Next

\* The inductive invariant holds in every reachable state of Spec.
THEOREM Invariance == Spec => []IInv
BY Initially, Preserved, PTL DEF Spec

\* Every variable keeps its type: total_count never wraps below zero and never exceeds
\* the limit, whatever calls run at the same time.
THEOREM TypeCorrect == Spec => []TypeOK
<1>1. IInv => TypeOK
  BY DEF IInv
<1> QED BY <1>1, Invariance, PTL

\* total_count is accounted for: calls that are interrupted, fail or race lose no slot.
THEOREM Accounted == Spec => []SlotsAccounted
<1>1. IInv => SlotsAccounted
  BY DEF IInv
<1> QED BY <1>1, Invariance, PTL

\* A thread in the registry is in the set of the session it belongs to, about to be, or
\* was resumed over a release that was under way.
THEOREM LiveListed == Spec => []LiveThreadListed
<1>1. IInv => LiveThreadListed
  BY DEF IInv
<1> QED BY <1>1, Invariance, PTL

-----------------------------------------------------------------------------
(* The limit.  Unless a resume overtook a release, each open thread is in the   *)
(* set or in the hands of a call that is about to put it there, and the count   *)
(* covers both.                                                                 *)

LEMMA InvLimit == IInv => LimitUnlessOverlapped
<1> SUFFICES ASSUME IInv, NEW s \in Sessions, NeverOverlapped(s)
             PROVE Cardinality(Open(s)) <= MaxThreads
  BY DEF LimitUnlessOverlapped
<1> DEFINE H == Holding(s)
           T == threads_set[s]
           named == {call[c].agent : c \in H}
<1>1. /\ total_count[s] = Cardinality(T) + Cardinality(H) + stuck[s]
      /\ total_count[s] \in 0..MaxThreads /\ stuck[s] \in 0..MaxThreads
      /\ IsFiniteSet(T) /\ Cardinality(T) \in Nat
      /\ IsFiniteSet(H) /\ Cardinality(H) \in Nat
  BY SlotsFinite DEF IInv, SlotsAccounted, TypeOK
<1>2. Open(s) \subseteq T \cup named
  <2> SUFFICES ASSUME NEW a \in Open(s), a \notin T PROVE a \in named
    OBVIOUS
  <2>1. a \in Agents /\ Registered(a) /\ owner[a] = s
    BY DEF Open
  <2>2. PICK c \in Callers : At(c, "commit") /\ Session(c) = s /\ call[c].agent = a
    BY <2>1 DEF IInv, LiveThreadListed, NeverOverlapped
  <2>3. c \in H
    BY <2>2 DEF Holding, At
  <2> QED BY <2>2, <2>3
<1>3. IsFiniteSet(named) /\ Cardinality(named) <= Cardinality(H)
  <2> DEFINE f == [c \in H |-> call[c].agent]
  <2>1. f \in Surjection(H, named)
    BY DEF Surjection
  <2> HIDE DEF f, H, named
  <2> QED BY <1>1, <2>1, FS_Surjection
<1> HIDE DEF H, T, named
<1>4. /\ IsFiniteSet(T \cup named)
      /\ Cardinality(T \cup named) = Cardinality(T) + Cardinality(named) - Cardinality(T \cap named)
  BY <1>1, <1>3, FS_Union
<1>5. /\ IsFiniteSet(T \cap named) /\ Cardinality(T \cap named) \in Nat
      /\ Cardinality(named) \in Nat /\ Cardinality(T \cup named) \in Nat
  BY <1>1, <1>3, <1>4, FS_Subset, FS_CardinalityType, T \cap named \subseteq T
<1>6. Cardinality(Open(s)) <= Cardinality(T \cup named) /\ IsFiniteSet(Open(s))
  BY <1>2, <1>4, FS_Subset
<1>7. Cardinality(Open(s)) \in Nat
  BY <1>6, FS_CardinalityType
<1> QED BY <1>1, <1>3, <1>4, <1>5, <1>6, <1>7

\* However many tasks race for the slots of a session, it never has more than
\* agents.max_threads sub-agents open, unless a resume overtook a release.
THEOREM Limit == Spec => []LimitUnlessOverlapped
BY InvLimit, Invariance, PTL
=============================================================================
