--------------------------- MODULE ToolGateProofs ---------------------------
(***************************************************************************)
(* Proofs about ToolGate, for any number of calls and requests: type       *)
(* correctness, SnapshotPrecedesMutation, SerialAlone, AnswersRecorded.    *)
(***************************************************************************)
EXTENDS ToolGate, TLAPS

\* The token is out, and the flag not ready, from the start of the snapshot until the
\* ghost task marks the gate; only then is a call past the gate.
GateInv ==
    /\ task = "snapshot" =>
          tokens = {} /\ ~ready /\ ghost = "off" /\ snapshot = "none"
    /\ ghost \in {"work", "mark"} => tokens = {Ghost} /\ ~ready
    /\ lock # NoOne => tokens = {}
    /\ snapshot = "writing" => ghost = "work" \/ cancelled
    /\ watch => ready
    /\ ghost = "send" => ready
    /\ \A c \in Calls : call[c] = "swap" => tokens = {}
    /\ \A c \in Calls : call[c] = "send" => ready
    /\ \A c \in Calls : call[c] = "running" /\ mutating[c] => ready

\* Calls are emitted in order; one that has been emitted and has not ended is in flight,
\* unless its request has failed, and only calls of the present request are.
FlightInv ==
    /\ task = "snapshot" => \A c \in Calls : ~Sent(c)
    /\ \A c, d \in Calls : d < c /\ Sent(c) => Sent(d)
    /\ \A c \in Calls :
          Sent(c) /\ c \notin dropped /\ c \notin ToSet(inFlight) => Ended(c)
    /\ \A c \in ToSet(inFlight) : Sent(c) /\ origin[c] = request
    /\ \A c \in ToSet(outputs) : Sent(c)

\* Calls of one request that hold its lock share it.
GuardInv == \A c, d \in Calls :
    /\ c # d
    /\ origin[c] = origin[d]
    /\ HoldsGuard(c) /\ HoldsGuard(d)
    => parallel[c]

\* What is in flight is ordered, and comes after what has been recorded.
OrderInv ==
    /\ \A i, j \in 1..Len(inFlight) : i < j => inFlight[i] < inFlight[j]
    /\ \A i \in 1..Len(outputs), j \in 1..Len(inFlight) : outputs[i] < inFlight[j]

IInv == TypeOK /\ GateInv /\ FlightInv /\ GuardInv /\ OrderInv /\ AnswersRecorded

-----------------------------------------------------------------------------
USE BoundsAssumption

LEMMA Initially == Init => IInv
<1> SUFFICES ASSUME Init PROVE IInv
  OBVIOUS
<1>1. TypeOK
  <2>1. /\ tokens \subseteq {Ghost} /\ lock \in Calls \cup {NoOne} /\ receivers \subseteq Calls
        /\ ready \in BOOLEAN /\ watch \in BOOLEAN
    BY DEF Init, FlagInit
  <2>2. inFlight \in Seq(Calls) /\ outputs \in Seq(Calls) /\ request \in 1..MaxRequests
    BY DEF Init
  <2>3. /\ call \in [Calls -> CallPcs] /\ mutating \in [Calls -> BOOLEAN]
        /\ parallel \in [Calls -> BOOLEAN] /\ origin \in [Calls -> 0..MaxRequests]
    BY DEF Init, CallPcs
  <2> QED BY <2>1, <2>2, <2>3 DEF Init, TypeOK
<1>2. ToSet(inFlight) = {} /\ ToSet(outputs) = {}
  BY DEF Init, ToSet
<1>3. GateInv
  BY DEF Init, FlagInit, GateInv
<1>4. FlightInv /\ GuardInv
  BY <1>2 DEF Init, FlightInv, GuardInv, Sent, HoldsGuard, GatePcs
<1>5. OrderInv /\ AnswersRecorded
  BY DEF Init, OrderInv, AnswersRecorded, TurnOver
<1> QED BY <1>1, <1>3, <1>4, <1>5 DEF IInv

LEMMA ToSetAppend ==
  ASSUME NEW S, NEW s \in Seq(S), NEW e \in S
  PROVE ToSet(Append(s, e)) = ToSet(s) \cup {e}
BY DEF ToSet

LEMMA ToSetTail ==
  ASSUME NEW S, NEW s \in Seq(S), s # <<>>
  PROVE ToSet(s) = ToSet(Tail(s)) \cup {Head(s)}
<1>1. /\ Len(s) \in Nat \ {0}
      /\ Len(Tail(s)) = Len(s) - 1
      /\ \A i \in 1..Len(Tail(s)) : Tail(s)[i] = s[i + 1]
      /\ DOMAIN s = 1..Len(s) /\ DOMAIN Tail(s) = 1..Len(Tail(s))
      /\ Head(s) = s[1]
  OBVIOUS
<1>2. ASSUME NEW x \in ToSet(s) PROVE x \in ToSet(Tail(s)) \cup {Head(s)}
  <2>1. PICK i \in 1..Len(s) : x = s[i]
    BY <1>1, <1>2 DEF ToSet
  <2>2. CASE i = 1
    BY <1>1, <2>1, <2>2
  <2>3. CASE i # 1
    <3>1. i - 1 \in 1..Len(Tail(s)) /\ Tail(s)[i - 1] = s[i]
      BY <1>1, <2>1, <2>3
    <3> QED BY <1>1, <2>1, <3>1 DEF ToSet
  <2> QED BY <2>2, <2>3
<1>3. ASSUME NEW x \in ToSet(Tail(s)) \cup {Head(s)} PROVE x \in ToSet(s)
  <2>1. CASE x = Head(s)
    BY <1>1, <2>1 DEF ToSet
  <2>2. CASE x \in ToSet(Tail(s))
    <3>1. PICK i \in 1..Len(Tail(s)) : x = Tail(s)[i]
      BY <1>1, <2>2 DEF ToSet
    <3>2. i + 1 \in 1..Len(s) /\ x = s[i + 1]
      BY <1>1, <3>1
    <3> QED BY <1>1, <3>2 DEF ToSet
  <2> QED BY <1>3, <2>1, <2>2
<1> QED BY <1>2, <1>3

-----------------------------------------------------------------------------
(* Type correctness: the flag, the turn and the calls are typed separately.    *)

LEMMA TypeStep == TypeOK /\ [Next]_vars => TypeOK'
<1> SUFFICES ASSUME TypeOK, [Next]_vars PROVE TypeOK'
  OBVIOUS
<1> USE DEF TypeOK, flag, turn, snap, calls
<1>1. CASE SkipSnapshot
  BY <1>1 DEF SkipSnapshot
<1>2. CASE StartSnapshot
  BY <1>2 DEF StartSnapshot, AddToken
<1>3. ASSUME NEW c \in Calls, EmitCall(c) PROVE TypeOK'
  <2>1. call' \in [Calls -> CallPcs] /\ inFlight' \in Seq(Calls)
    BY <1>3 DEF EmitCall, CallPcs
  <2>2. PICK m, p \in BOOLEAN : /\ mutating' = [mutating EXCEPT ![c] = m]
                                 /\ parallel' = [parallel EXCEPT ![c] = p]
    BY <1>3 DEF EmitCall
  <2>3. mutating' \in [Calls -> BOOLEAN] /\ parallel' \in [Calls -> BOOLEAN]
    BY <2>2
  <2>4. origin' \in [Calls -> 0..MaxRequests]
    BY <1>3 DEF EmitCall
  <2> QED BY <1>3, <2>1, <2>3, <2>4 DEF EmitCall
<1>4. CASE StreamCompleted \/ StreamCancelled
  BY <1>4 DEF StreamCompleted, StreamCancelled
<1>5. CASE StreamFailed
  <2>1. inFlight' \in Seq(Calls) /\ dropped' \subseteq Calls
    BY <1>5 DEF StreamFailed, DropInFlight, ToSet
  <2>2. request' \in 1..MaxRequests
    BY <1>5 DEF StreamFailed
  <2> QED BY <1>5, <2>1, <2>2 DEF StreamFailed, DropInFlight
<1>6. CASE DrainOne
  <2>1. Head(inFlight) \in Calls /\ Tail(inFlight) \in Seq(Calls)
    BY <1>6 DEF DrainOne
  <2>2. inFlight' \in Seq(Calls) /\ outputs' \in Seq(Calls)
    BY <1>6, <2>1 DEF DrainOne
  <2> QED BY <1>6, <2>2 DEF DrainOne
<1>7. CASE DrainDone
  <2>1. request' \in 1..MaxRequests
    BY <1>7 DEF DrainDone
  <2> QED BY <1>7, <2>1 DEF DrainDone
<1>8. CASE Cancel
  BY <1>8 DEF Cancel
<1>9. CASE Kill
  <2>1. inFlight' \in Seq(Calls) /\ dropped' \subseteq Calls
    BY <1>9 DEF Kill, DropInFlight, ToSet
  <2> QED BY <1>9, <2>1 DEF Kill, DropInFlight
<1>10. ASSUME NEW c \in Calls, CallStep(c) \/ Finish(c) PROVE TypeOK'
  <2>1. PICK pc \in CallPcs : Goto(c, pc)
    <3> USE DEF CallPcs, GatePcs, EndPcs
    <3>1. CASE AcquireGuard(c) \/ LoadReady(c) \/ TryLock(c) \/ Swap(c)
      BY <3>1 DEF AcquireGuard, LoadReady, TryLock, Swap
    <3>2. CASE SendReady(c) \/ ReloadReady(c) \/ SubscribeWatch(c) \/ Wake(c)
      BY <3>2 DEF SendReady, ReloadReady, SubscribeWatch, Wake
    <3>3. CASE CancelCall(c) \/ DropCall(c) \/ Finish(c)
      BY <3>3 DEF CancelCall, DropCall, Finish
    <3> QED BY <1>10, <3>1, <3>2, <3>3 DEF CallStep
  <2>2. call' \in [Calls -> CallPcs] /\ UNCHANGED <<mutating, parallel, origin, dropped>>
    BY <2>1 DEF Goto
  <2>3. UNCHANGED <<turn, snap>>
    BY <1>10 DEF CallStep, AcquireGuard, LoadReady, TryLock, Swap, SendReady, ReloadReady,
       SubscribeWatch, Wake, CancelCall, DropCall, Finish
  <2>4. /\ ready' \in BOOLEAN /\ tokens' \subseteq {Ghost} /\ lock' \in Calls \cup {NoOne}
        /\ watch' \in BOOLEAN /\ receivers' \subseteq Calls
    <3>1. CASE AcquireGuard(c) \/ LoadReady(c) \/ ReloadReady(c) \/ Finish(c)
      BY <3>1 DEF AcquireGuard, LoadReady, ReloadReady, Finish
    <3>2. CASE TryLock(c) \/ Swap(c) \/ SendReady(c)
      BY <3>2 DEF TryLock, HoldLock, Swap, SwapReady, SendReady, Broadcast
    <3>3. CASE SubscribeWatch(c) \/ Wake(c) \/ CancelCall(c) \/ DropCall(c)
      BY <3>3 DEF SubscribeWatch, Listen, Wake, CancelCall, DropCall, StopListening
    <3> QED BY <1>10, <3>1, <3>2, <3>3 DEF CallStep
  <2> QED BY <2>2, <2>3, <2>4
<1>11. CASE SnapshotWritten
  BY <1>11 DEF SnapshotWritten
<1>12. CASE GhostStep
  BY <1>12 DEF GhostStep, EndWork, MarkReady, OpenWithToken, BroadcastReady, Broadcast
<1>13. CASE UNCHANGED vars
  BY <1>13 DEF vars
<1> QED BY <1>1, <1>2, <1>3, <1>4, <1>5, <1>6, <1>7, <1>8, <1>9, <1>10, <1>11, <1>12, <1>13
        DEF Next

-----------------------------------------------------------------------------
(* The gate. *)

\* Calls and the turn leave the token alone; a call gets past the gate by seeing it
\* ready, or by opening it when no token is out.
LEMMA GateStep == TypeOK /\ GateInv /\ FlightInv /\ [Next]_vars => GateInv'
<1> SUFFICES ASSUME TypeOK, GateInv, FlightInv, [Next]_vars PROVE GateInv'
  OBVIOUS
<1> USE DEF GateInv, flag, turn, snap, calls
<1>1. CASE SkipSnapshot
  BY <1>1 DEF SkipSnapshot
<1>2. CASE StartSnapshot
  <2>1. \A c \in Calls : call[c] = "unsent"
    BY <1>2 DEF StartSnapshot, FlightInv, Sent
  <2> QED BY <1>2, <2>1 DEF StartSnapshot, AddToken
<1>3. ASSUME NEW c \in Calls, EmitCall(c) PROVE GateInv'
  <2>1. \A d \in Calls : call'[d] = IF d = c THEN "lock" ELSE call[d]
    BY <1>3 DEF EmitCall, TypeOK
  <2>2. PICK m, p \in BOOLEAN : mutating' = [mutating EXCEPT ![c] = m]
    BY <1>3 DEF EmitCall
  <2>3. \A d \in Calls : d # c => mutating'[d] = mutating[d]
    BY <2>2 DEF TypeOK
  <2> QED BY <1>3, <2>1, <2>3 DEF EmitCall
<1>4. CASE StreamCompleted \/ StreamCancelled \/ StreamFailed
  BY <1>4 DEF StreamCompleted, StreamCancelled, StreamFailed, DropInFlight
<1>5. CASE DrainOne \/ DrainDone \/ Cancel \/ Kill
  BY <1>5 DEF DrainOne, DrainDone, Cancel, Kill, DropInFlight
<1>6. ASSUME NEW c \in Calls, CallStep(c) \/ Finish(c) PROVE GateInv'
  <2>0. task # "snapshot"
    BY <1>6 DEF CallStep, AcquireGuard, LoadReady, TryLock, Swap, SendReady, ReloadReady,
       SubscribeWatch, Wake, CancelCall, DropCall, Finish, AwaitPcs, FlightInv, Sent
  <2>1. ASSUME NEW pc, Goto(c, pc)
        PROVE /\ \A d \in Calls : call'[d] = IF d = c THEN pc ELSE call[d]
              /\ UNCHANGED mutating
    BY <2>1 DEF Goto, TypeOK
  <2>2. CASE AcquireGuard(c)
    <3>1. Goto(c, IF mutating[c] THEN "load" ELSE "running")
      BY <2>2 DEF AcquireGuard
    <3> QED BY <2>2, <2>1, <3>1 DEF AcquireGuard
  <2>3. CASE LoadReady(c)
    BY <2>3, <2>1 DEF LoadReady
  <2>4. CASE TryLock(c)
    <3>1. CASE NoTokens /\ HoldLock(c) /\ Goto(c, "swap")
      BY <2>4, <2>1, <3>1 DEF TryLock, NoTokens, HoldLock
    <3>2. CASE ~NoTokens /\ UNCHANGED flag /\ Goto(c, "reload")
      BY <2>4, <2>1, <3>2 DEF TryLock
    <3> QED BY <2>4, <3>1, <3>2 DEF TryLock
  <2>5. CASE Swap(c)
    <3>1. tokens = {} /\ ghost \notin {"work", "mark"}
      BY <2>5 DEF Swap
    <3> QED BY <2>0, <2>5, <2>1, <3>1 DEF Swap, SwapReady
  <2>6. CASE SendReady(c)
    BY <2>6, <2>1 DEF SendReady, Broadcast
  <2>7. CASE ReloadReady(c)
    BY <2>7, <2>1 DEF ReloadReady
  <2>8. CASE SubscribeWatch(c)
    BY <2>8, <2>1 DEF SubscribeWatch, Listen
  <2>9. CASE Wake(c)
    BY <2>9, <2>1 DEF Wake, StopListening
  <2>10. CASE CancelCall(c)
    BY <2>10, <2>1 DEF CancelCall, StopListening
  <2>11. CASE DropCall(c)
    BY <2>11, <2>1 DEF DropCall, StopListening
  <2>12. CASE Finish(c)
    <3>1. PICK result \in {"answered", "fatal"} : Goto(c, result)
      BY <2>12 DEF Finish
    <3> QED BY <2>12, <2>1, <3>1 DEF Finish
  <2> QED BY <1>6, <2>2, <2>3, <2>4, <2>5, <2>6, <2>7, <2>8, <2>9, <2>10, <2>11, <2>12
          DEF CallStep
<1>7. CASE SnapshotWritten
  BY <1>7 DEF SnapshotWritten
<1>8. CASE GhostStep
  <2>1. CASE EndWork
    BY <1>8, <2>1 DEF EndWork
  <2>2. CASE MarkReady
    BY <1>8, <2>2 DEF MarkReady, OpenWithToken
  <2>3. CASE BroadcastReady
    BY <1>8, <2>3 DEF BroadcastReady, Broadcast
  <2> QED BY <1>8, <2>1, <2>2, <2>3 DEF GhostStep
<1>9. CASE UNCHANGED vars
  BY <1>9 DEF vars
<1> QED BY <1>1, <1>2, <1>3, <1>4, <1>5, <1>6, <1>7, <1>8, <1>9 DEF Next

-----------------------------------------------------------------------------
(* The calls.  A step of a call, once sent, changes nothing but its own place. *)

LEMMA CallMoves ==
  ASSUME TypeOK, NEW c \in Calls, CallStep(c) \/ Finish(c)
  PROVE /\ UNCHANGED <<turn, mutating, parallel, origin, dropped>>
        /\ Sent(c) /\ ~Ended(c)
        /\ \A d \in Calls : Sent(d)' = Sent(d) /\ (Ended(d) => Ended(d)')
        /\ \A d \in Calls : d # c => call'[d] = call[d]
        /\ HoldsGuard(c)' => HoldsGuard(c) \/ AcquireGuard(c)
<1> USE DEF Sent, Ended, HoldsGuard, GatePcs, EndPcs, AwaitPcs
<1>1. ASSUME NEW pc, Goto(c, pc)
      PROVE /\ \A d \in Calls : call'[d] = IF d = c THEN pc ELSE call[d]
            /\ UNCHANGED <<mutating, parallel, origin, dropped>>
  BY <1>1 DEF Goto, TypeOK
<1>2. CASE AcquireGuard(c)
  <2>1. Goto(c, IF mutating[c] THEN "load" ELSE "running")
    BY <1>2 DEF AcquireGuard
  <2> QED BY <1>1, <1>2, <2>1 DEF AcquireGuard
<1>3. CASE LoadReady(c)
  BY <1>1, <1>3 DEF LoadReady
<1>4. CASE TryLock(c)
  BY <1>1, <1>4 DEF TryLock
<1>5. CASE Swap(c)
  BY <1>1, <1>5 DEF Swap
<1>6. CASE SendReady(c)
  BY <1>1, <1>6 DEF SendReady
<1>7. CASE ReloadReady(c)
  BY <1>1, <1>7 DEF ReloadReady
<1>8. CASE SubscribeWatch(c)
  BY <1>1, <1>8 DEF SubscribeWatch
<1>9. CASE Wake(c)
  BY <1>1, <1>9 DEF Wake
<1>10. CASE CancelCall(c)
  BY <1>1, <1>10 DEF CancelCall
<1>11. CASE DropCall(c)
  BY <1>1, <1>11 DEF DropCall
<1>12. CASE Finish(c)
  <2>1. PICK result \in {"answered", "fatal"} : Goto(c, result)
    BY <1>12 DEF Finish
  <2> QED BY <1>1, <1>12, <2>1 DEF Finish
<1> QED BY <1>2, <1>3, <1>4, <1>5, <1>6, <1>7, <1>8, <1>9, <1>10, <1>11, <1>12 DEF CallStep

\* What EmitCall does to the state of the calls.
LEMMA Emits ==
  ASSUME TypeOK, NEW c \in Calls, EmitCall(c)
  PROVE /\ \A d \in Calls : call'[d] = IF d = c THEN "lock" ELSE call[d]
        /\ \A d \in Calls : origin'[d] = IF d = c THEN request ELSE origin[d]
        /\ \A d \in Calls : d # c => parallel'[d] = parallel[d]
        /\ ToSet(inFlight') = ToSet(inFlight) \cup {c}
        /\ UNCHANGED <<request, outputs, dropped>>
<1>1. /\ \A d \in Calls : call'[d] = IF d = c THEN "lock" ELSE call[d]
      /\ \A d \in Calls : origin'[d] = IF d = c THEN request ELSE origin[d]
  BY DEF EmitCall, TypeOK
<1>2. PICK p \in BOOLEAN : parallel' = [parallel EXCEPT ![c] = p]
  BY DEF EmitCall
<1>3. \A d \in Calls : d # c => parallel'[d] = parallel[d]
  BY <1>2 DEF TypeOK
<1>4. ToSet(inFlight') = ToSet(inFlight) \cup {c}
  BY ToSetAppend DEF EmitCall, TypeOK
<1> QED BY <1>1, <1>3, <1>4 DEF EmitCall

\* What DrainOne does to the two sequences.
LEMMA Drains ==
  ASSUME TypeOK, DrainOne
  PROVE /\ Head(inFlight) \in Calls /\ Ended(Head(inFlight))
        /\ ToSet(inFlight) = ToSet(inFlight') \cup {Head(inFlight)}
        /\ ToSet(outputs') \subseteq ToSet(outputs) \cup {Head(inFlight)}
        /\ ToSet(outputs) \subseteq ToSet(outputs')
        /\ call[Head(inFlight)] = "answered" => Head(inFlight) \in ToSet(outputs')
<1>1. Head(inFlight) \in Calls /\ Ended(Head(inFlight)) /\ inFlight # <<>>
  BY DEF DrainOne, TypeOK
<1>2. ToSet(inFlight) = ToSet(inFlight') \cup {Head(inFlight)}
  BY <1>1, ToSetTail DEF DrainOne, TypeOK
<1>3. CASE call[Head(inFlight)] = "answered"
  <2>1. ToSet(outputs') = ToSet(outputs) \cup {Head(inFlight)}
    BY <1>1, <1>3, ToSetAppend DEF DrainOne, TypeOK
  <2> QED BY <1>1, <1>2, <2>1
<1>4. CASE call[Head(inFlight)] # "answered"
  <2>1. outputs' = outputs
    BY <1>4 DEF DrainOne
  <2> QED BY <1>1, <1>2, <1>4, <2>1
<1> QED BY <1>3, <1>4

LEMMA EmptyFlight == ToSet(<<>>) = {}
BY DEF ToSet

LEMMA FlightStep == TypeOK /\ FlightInv /\ [Next]_vars => FlightInv'
<1> SUFFICES ASSUME TypeOK, FlightInv, [Next]_vars PROVE FlightInv'
  OBVIOUS
<1> USE DEF FlightInv
<1>1. CASE \/ SkipSnapshot \/ StartSnapshot \/ StreamCompleted \/ StreamCancelled \/ Cancel
           \/ SnapshotWritten \/ GhostStep \/ UNCHANGED vars
  <2>1. /\ UNCHANGED <<request, inFlight, outputs, call, origin, dropped>>
        /\ task' = "snapshot" => task = "snapshot"
    BY <1>1 DEF SkipSnapshot, StartSnapshot, StreamCompleted, StreamCancelled, Cancel,
       SnapshotWritten, GhostStep, EndWork, MarkReady, BroadcastReady, vars, turn, calls
  <2> QED BY <2>1 DEF Sent, Ended
<1>2. ASSUME NEW c \in Calls, EmitCall(c) PROVE FlightInv'
  <2>1. \A d \in Calls : Sent(d)' = (Sent(d) \/ d = c) /\ (d # c => Ended(d)' = Ended(d))
    BY <1>2, Emits DEF Sent, Ended
  <2>2. task' = "stream" /\ ~Sent(c) /\ \A d \in Calls : d < c => Sent(d)
    BY <1>2 DEF EmitCall
  <2>3. ToSet(inFlight) \subseteq Calls /\ ToSet(outputs) \subseteq Calls
    BY DEF TypeOK, ToSet
  <2>4. \A d, e \in Calls : e < d /\ Sent(d)' => Sent(e)'
    BY <2>1, <2>2
  <2>5. ASSUME NEW d \in Calls, Sent(d)', d \notin dropped', d \notin ToSet(inFlight')
        PROVE Ended(d)'
    <3>1. d # c /\ d \notin ToSet(inFlight) /\ d \notin dropped
      BY <1>2, <2>5, Emits
    <3> QED BY <2>1, <2>5, <3>1
  <2>6. ASSUME NEW d \in ToSet(inFlight') PROVE Sent(d)' /\ (origin[d] = request)'
    <3>1. d \in Calls /\ (d = c \/ d \in ToSet(inFlight))
      BY <1>2, <2>3, <2>6, Emits
    <3>2. request' = request /\ origin'[d] = IF d = c THEN request ELSE origin[d]
      BY <1>2, <3>1, Emits
    <3> QED BY <2>1, <3>1, <3>2
  <2>7. \A d \in ToSet(outputs') : Sent(d)'
    BY <1>2, Emits, <2>1, <2>3
  <2> QED BY <2>2, <2>4, <2>5, <2>6, <2>7
<1>3. CASE StreamFailed \/ Kill
  <2>1. /\ inFlight' = <<>> /\ dropped' = dropped \cup ToSet(inFlight)
        /\ UNCHANGED <<call, outputs>> /\ (task' = "snapshot" => task = "snapshot")
    BY <1>3 DEF StreamFailed, Kill, DropInFlight
  <2> QED BY <2>1, EmptyFlight DEF Sent, Ended
<1>4. CASE DrainOne
  <2>1. UNCHANGED <<task, request, call, origin, dropped>>
    BY <1>4 DEF DrainOne, calls
  <2>2. Head(inFlight) \in ToSet(inFlight)
    BY <1>4, Drains
  <2> QED BY <1>4, <2>1, <2>2, Drains DEF Sent, Ended
<1>5. CASE DrainDone
  <2>1. UNCHANGED <<inFlight, outputs, call, origin, dropped>> /\ task' # "snapshot"
    BY <1>5 DEF DrainDone, calls
  <2>2. ToSet(inFlight') = {} /\ ToSet(inFlight) = {}
    BY <1>5, EmptyFlight DEF DrainDone
  <2> QED BY <2>1, <2>2 DEF Sent, Ended
<1>6. ASSUME NEW c \in Calls, CallStep(c) \/ Finish(c) PROVE FlightInv'
  <2>1. ToSet(inFlight) \subseteq Calls /\ ToSet(outputs) \subseteq Calls
    BY DEF TypeOK, ToSet
  <2> QED BY <1>6, <2>1, CallMoves DEF turn
<1> QED BY <1>1, <1>2, <1>3, <1>4, <1>5, <1>6 DEF Next

LEMMA GuardStep == TypeOK /\ GuardInv /\ [Next]_vars => GuardInv'
<1> SUFFICES ASSUME TypeOK, GuardInv, [Next]_vars PROVE GuardInv'
  OBVIOUS
<1> USE DEF GuardInv
<1>1. CASE UNCHANGED <<call, origin, parallel>>
  BY <1>1 DEF HoldsGuard
<1>2. ASSUME NEW c \in Calls, EmitCall(c) PROVE GuardInv'
  <2>1. ~HoldsGuard(c)' /\ \A d \in Calls : d # c => HoldsGuard(d)' = HoldsGuard(d)
    BY <1>2, Emits DEF HoldsGuard, GatePcs
  <2> QED BY <1>2, <2>1, Emits
<1>3. ASSUME NEW c \in Calls, CallStep(c) \/ Finish(c) PROVE GuardInv'
  <2>1. \A d \in Calls : d # c => HoldsGuard(d)' = HoldsGuard(d)
    BY <1>3, CallMoves DEF HoldsGuard
  <2>2. HoldsGuard(c)' => HoldsGuard(c) \/ AcquireGuard(c)
    BY <1>3, CallMoves
  <2>3. UNCHANGED <<origin, parallel>>
    BY <1>3, CallMoves
  <2>4. AcquireGuard(c) => \A d \in Calls \ {c} :
          origin[d] = origin[c] /\ HoldsGuard(d) => parallel[c] /\ parallel[d]
    BY DEF AcquireGuard, GuardFree
  <2> QED BY <2>1, <2>2, <2>3, <2>4
<1>4. CASE \/ SkipSnapshot \/ StartSnapshot \/ StreamCompleted \/ StreamCancelled \/ StreamFailed
           \/ DrainOne \/ DrainDone \/ Cancel \/ Kill \/ SnapshotWritten \/ GhostStep
           \/ UNCHANGED vars
  <2>1. UNCHANGED <<call, origin, parallel>>
    BY <1>4 DEF SkipSnapshot, StartSnapshot, StreamCompleted, StreamCancelled, StreamFailed,
       DropInFlight, DrainOne, DrainDone, Cancel, Kill, SnapshotWritten, GhostStep, EndWork,
       MarkReady, BroadcastReady, vars, calls
  <2> QED BY <1>1, <2>1
<1> QED BY <1>2, <1>3, <1>4 DEF Next

-----------------------------------------------------------------------------
(* The outputs. *)

\* Only EmitCall, DrainOne and a dropped future change the two sequences.
LEMMA OrderStep == TypeOK /\ FlightInv /\ OrderInv /\ [Next]_vars => OrderInv'
<1> SUFFICES ASSUME TypeOK, FlightInv, OrderInv, [Next]_vars PROVE OrderInv'
  OBVIOUS
<1> USE DEF OrderInv
<1>1. CASE UNCHANGED <<inFlight, outputs>>
  BY <1>1
<1>2. ASSUME NEW c \in Calls, EmitCall(c) PROVE OrderInv'
  <2>1. ASSUME NEW d \in Calls, Sent(d) PROVE d < c
    <3>1. ~Sent(c) /\ d \in Int /\ c \in Int
      BY <1>2 DEF EmitCall, Calls
    <3> QED BY <2>1, <3>1 DEF FlightInv
  <2>2. \A i \in 1..Len(inFlight) : inFlight[i] \in Calls /\ Sent(inFlight[i])
    BY DEF FlightInv, TypeOK, ToSet
  <2>3. \A i \in 1..Len(outputs) : outputs[i] \in Calls /\ Sent(outputs[i])
    BY DEF FlightInv, TypeOK, ToSet
  <2>4. inFlight' = Append(inFlight, c) /\ UNCHANGED outputs /\ inFlight \in Seq(Calls)
    BY <1>2 DEF EmitCall, TypeOK
  <2>5. /\ Len(inFlight') = Len(inFlight) + 1 /\ Len(inFlight) \in Nat
        /\ inFlight'[Len(inFlight) + 1] = c
        /\ \A i \in 1..Len(inFlight) : inFlight'[i] = inFlight[i]
    BY <2>4
  <2>6. ASSUME NEW i \in 1..Len(inFlight'), NEW j \in 1..Len(inFlight'), i < j
        PROVE inFlight'[i] < inFlight'[j]
    <3>1. i \in 1..Len(inFlight) /\ inFlight'[i] = inFlight[i]
      BY <2>5, <2>6
    <3>2. CASE j \in 1..Len(inFlight)
      BY <2>5, <2>6, <3>1, <3>2
    <3>3. CASE j = Len(inFlight) + 1
      BY <2>1, <2>2, <2>5, <3>1, <3>3
    <3> QED BY <2>5, <3>2, <3>3
  <2>7. ASSUME NEW i \in 1..Len(outputs'), NEW j \in 1..Len(inFlight')
        PROVE outputs'[i] < inFlight'[j]
    <3>1. i \in 1..Len(outputs) /\ outputs'[i] = outputs[i]
      BY <2>4, <2>7
    <3>2. CASE j \in 1..Len(inFlight)
      BY <2>5, <3>1, <3>2
    <3>3. CASE j = Len(inFlight) + 1
      BY <2>1, <2>3, <2>5, <3>1, <3>3
    <3> QED BY <2>5, <2>7, <3>2, <3>3
  <2> QED BY <2>6, <2>7
<1>3. CASE StreamFailed \/ Kill
  <2>1. inFlight' = <<>>
    BY <1>3 DEF StreamFailed, Kill, DropInFlight
  <2>2. UNCHANGED outputs
    BY <1>3 DEF StreamFailed, Kill
  <2> QED BY <2>1, <2>2
<1>4. CASE DrainOne
  <2>1. /\ inFlight # <<>> /\ inFlight' = Tail(inFlight) /\ inFlight \in Seq(Calls)
        /\ outputs \in Seq(Calls)
        /\ outputs' = outputs \/ outputs' = Append(outputs, Head(inFlight))
    BY <1>4 DEF DrainOne, TypeOK
  <2>2. /\ Len(inFlight') = Len(inFlight) - 1 /\ Len(inFlight) \in Nat \ {0}
        /\ \A i \in 1..Len(inFlight') : inFlight'[i] = inFlight[i + 1]
        /\ Head(inFlight) = inFlight[1]
    BY <2>1
  <2>3. \A i \in 1..Len(outputs') : \/ i \in 1..Len(outputs) /\ outputs'[i] = outputs[i]
                                    \/ outputs'[i] = inFlight[1]
    BY <2>1, <2>2
  <2>4. ASSUME NEW i \in 1..Len(inFlight'), NEW j \in 1..Len(inFlight'), i < j
        PROVE inFlight'[i] < inFlight'[j]
    BY <2>2, <2>4
  <2>5. ASSUME NEW i \in 1..Len(outputs'), NEW j \in 1..Len(inFlight')
        PROVE outputs'[i] < inFlight'[j]
    <3>1. /\ j + 1 \in 1..Len(inFlight) /\ inFlight'[j] = inFlight[j + 1]
          /\ 1 \in 1..Len(inFlight) /\ 1 < j + 1
      BY <2>2, <2>5
    <3>2. CASE i \in 1..Len(outputs) /\ outputs'[i] = outputs[i]
      BY <3>1, <3>2
    <3>3. CASE outputs'[i] = inFlight[1]
      BY <3>1, <3>3
    <3> QED BY <2>3, <2>5, <3>2, <3>3
  <2> QED BY <2>4, <2>5
<1>5. ASSUME NEW c \in Calls, CallStep(c) \/ Finish(c) PROVE OrderInv'
  <2>1. UNCHANGED <<inFlight, outputs>>
    BY <1>5, CallMoves DEF turn
  <2> QED BY <1>1, <2>1
<1>6. CASE \/ SkipSnapshot \/ StartSnapshot \/ StreamCompleted \/ StreamCancelled
           \/ DrainDone \/ Cancel \/ SnapshotWritten \/ GhostStep \/ UNCHANGED vars
  <2>1. UNCHANGED <<inFlight, outputs>>
    BY <1>6 DEF SkipSnapshot, StartSnapshot, StreamCompleted, StreamCancelled, DrainDone, Cancel,
       SnapshotWritten, GhostStep, EndWork, MarkReady, BroadcastReady, vars, turn
  <2> QED BY <1>1, <2>1
<1> QED BY <1>2, <1>3, <1>4, <1>5, <1>6 DEF Next

LEMMA AnswersStep ==
  TypeOK /\ FlightInv /\ OrderInv /\ AnswersRecorded /\ [Next]_vars => AnswersRecorded'
<1> SUFFICES ASSUME TypeOK, FlightInv, OrderInv, AnswersRecorded, [Next]_vars
             PROVE AnswersRecorded'
  OBVIOUS
<1> USE DEF AnswersRecorded
<1>1. CASE \/ SkipSnapshot \/ StartSnapshot \/ StreamCompleted \/ StreamCancelled \/ DrainDone
           \/ Cancel \/ SnapshotWritten \/ GhostStep \/ UNCHANGED vars
  <2>1. /\ UNCHANGED <<inFlight, outputs, call, dropped>>
        /\ TurnOver' => TurnOver \/ inFlight = <<>>
    BY <1>1 DEF SkipSnapshot, StartSnapshot, StreamCompleted, StreamCancelled, DrainDone, Cancel,
       SnapshotWritten, GhostStep, EndWork, MarkReady, BroadcastReady, vars, turn, calls, TurnOver
  <2> QED BY <2>1
<1>2. ASSUME NEW c \in Calls, EmitCall(c) PROVE AnswersRecorded'
  <2>1. ~TurnOver'
    BY <1>2 DEF EmitCall, TurnOver
  <2> QED BY <1>2, <2>1, Emits
<1>3. CASE StreamFailed \/ Kill
  <2>1. /\ inFlight' = <<>> /\ dropped' = dropped \cup ToSet(inFlight)
        /\ UNCHANGED <<call, outputs>>
    BY <1>3 DEF StreamFailed, Kill, DropInFlight
  <2> QED BY <2>1, EmptyFlight
<1>4. CASE DrainOne
  <2>1. /\ inFlight # <<>> /\ inFlight \in Seq(Calls) /\ outputs \in Seq(Calls)
        /\ outputs' = outputs \/ outputs' = Append(outputs, Head(inFlight))
        /\ ~TurnOver' /\ UNCHANGED <<call, dropped>>
    BY <1>4 DEF DrainOne, TypeOK, TurnOver, calls
  <2>2. Len(inFlight) \in Nat \ {0} /\ Head(inFlight) = inFlight[1]
    BY <2>1
  <2>3. ASSUME NEW i \in 1..Len(outputs'), NEW j \in 1..Len(outputs'), i < j
        PROVE outputs'[i] < outputs'[j]
    <3>1. CASE outputs' = outputs
      BY <2>3, <3>1
    <3>2. CASE outputs' = Append(outputs, Head(inFlight))
      <4>1. \A k \in 1..Len(outputs) : outputs'[k] = outputs[k] /\ outputs[k] < Head(inFlight)
        BY <2>1, <2>2, <3>2 DEF OrderInv
      <4>2. /\ Len(outputs') = Len(outputs) + 1 /\ Len(outputs) \in Nat
            /\ outputs'[Len(outputs) + 1] = Head(inFlight)
        BY <2>1, <3>2
      <4> QED BY <2>3, <4>1, <4>2
    <3> QED BY <2>1, <3>1, <3>2
  <2>4. ASSUME NEW c \in Calls, call'[c] = "answered"
        PROVE c \in ToSet(inFlight') \cup ToSet(outputs') \cup dropped'
    <3>1. c \in ToSet(inFlight) \cup ToSet(outputs) \cup dropped /\ call[c] = "answered"
      BY <2>1, <2>4
    <3> QED BY <1>4, <2>1, <3>1, Drains
  <2> QED BY <2>1, <2>3, <2>4
<1>5. ASSUME NEW c \in Calls, CallStep(c) \/ Finish(c) PROVE AnswersRecorded'
  <2>1. UNCHANGED <<task, inFlight, outputs, dropped>>
    BY <1>5, CallMoves DEF turn
  <2>2. c \in dropped \cup ToSet(inFlight)
    BY <1>5, CallMoves DEF FlightInv
  <2>3. \A d \in Calls : d # c => call'[d] = call[d]
    BY <1>5, CallMoves
  <2> QED BY <2>1, <2>2, <2>3 DEF TurnOver
<1> QED BY <1>1, <1>2, <1>3, <1>4, <1>5 DEF Next

-----------------------------------------------------------------------------
(* The theorems. *)

LEMMA Invariance == Spec => []IInv
<1>1. IInv /\ [Next]_vars => IInv'
  BY TypeStep, GateStep, FlightStep, GuardStep, OrderStep, AnswersStep DEF IInv
<1> QED BY <1>1, Initially, PTL DEF Spec

\* Every variable keeps its type: the flag has one token at most, the mutex one holder,
\* the turn no more requests than it may send.
THEOREM TypeCorrect == Spec => []TypeOK
<1>1. IInv => TypeOK
  BY DEF IInv
<1> QED BY <1>1, Invariance, PTL

\* No mutating tool of a turn that has not been cancelled runs while the work tree is
\* being copied: a call past the gate has seen it ready, and it is not ready before the
\* ghost task has marked it.
THEOREM SnapshotFirst == Spec => []SnapshotPrecedesMutation
<1>1. IInv => SnapshotPrecedesMutation
  BY DEF IInv, GateInv, SnapshotPrecedesMutation
<1> QED BY <1>1, Invariance, PTL

\* A tool without parallel support runs alone: two calls that run and are not being
\* aborted are in flight, so they are of one request and share its lock.
THEOREM SerialCallsAlone == Spec => []SerialAlone
<1>1. ASSUME IInv, NEW c \in Calls, NEW d \in Calls, c # d, call[c] = "running",
             call[d] = "running", ~parallel[c], c \notin dropped, d \notin dropped
      PROVE FALSE
  <2>1. Sent(c) /\ Sent(d) /\ ~Ended(c) /\ ~Ended(d) /\ HoldsGuard(c) /\ HoldsGuard(d)
    BY <1>1 DEF Sent, Ended, EndPcs, HoldsGuard
  <2>2. c \in ToSet(inFlight) /\ d \in ToSet(inFlight)
    BY <1>1, <2>1 DEF IInv, FlightInv
  <2>3. origin[c] = origin[d]
    BY <1>1, <2>2 DEF IInv, FlightInv
  <2> QED BY <1>1, <2>1, <2>3 DEF IInv, GuardInv
<1>2. IInv => SerialAlone
  BY <1>1 DEF SerialAlone
<1> QED BY <1>2, Invariance, PTL

\* Outputs are recorded once, in the order of the calls, and none is forgotten.
THEOREM Answers == Spec => []AnswersRecorded
<1>1. IInv => AnswersRecorded
  BY DEF IInv
<1> QED BY <1>1, Invariance, PTL
=============================================================================
