------------------------ MODULE NetworkApprovalProofs ------------------------
(***************************************************************************)
(* Proofs about NetworkApproval, for any number of attempts, requests,     *)
(* hosts and turns and any assignment of call ids: type correctness,       *)
(* WaitingIsPending, DenialKept, AnswersStayWithCall.                      *)
(***************************************************************************)
EXTENDS NetworkApproval, TLAPS

\* A sender is pending under the call id of its own request, and that request waits;
\* nothing is pending without a turn.
WaitInv ==
    /\ active = 0 => \A c \in Calls : pending[c] = NoRequest
    /\ \A c \in Calls : pending[c] # NoRequest =>
          /\ at[pending[c]] = "waiting"
          /\ channel[pending[c]] = "none"
          /\ CallId(pending[c]) = c
    /\ \A r \in Requests :
          /\ at[r] = "waiting" /\ channel[r] = "none" => pending[CallId(r)] = r
          /\ at[r] \in {"idle", "new", "found", "asking"} => channel[r] = "none"
          /\ channel[r] # "none" => target[r] \in Attempts
          /\ r \in prompted => /\ at[r] \in {"waiting", "blocked", "refused", "allowed"}
                               /\ target[r] \in Attempts

\* Nothing is attributed to an attempt that has not begun.
IdleInv ==
    \A a \in Attempts : phase[a] = "idle" =>
        a \notin attempts /\ \A r \in Requests : target[r] # a

IInv == TypeOK /\ WaitInv /\ IdleInv /\ DenialKept /\ AnswersStayWithCall

-----------------------------------------------------------------------------
USE ApprovalAssumption, NoAttemptAssumption DEF Calls

LEMMA Initially == Init => IInv
<1> SUFFICES ASSUME Init PROVE IInv
  OBVIOUS
<1> USE DEF Init, ServiceInit
<1>1. TypeOK
  BY DEF TypeOK, Outcomes, RequestPcs, AskPcs
<1>2. WaitInv /\ IdleInv
  BY DEF WaitInv, IdleInv
<1>3. DenialKept /\ AnswersStayWithCall
  BY DEF DenialKept, AnswersStayWithCall, Default
<1> QED BY <1>1, <1>2, <1>3 DEF IInv

LEMMA TypeStep == TypeOK /\ [Next]_vars => TypeOK'
<1> SUFFICES ASSUME TypeOK, [Next]_vars PROVE TypeOK'
  OBVIOUS
<1> USE DEF TypeOK, Outcomes, CallId, Decisions, Approvals, Default, service, turnVars, attemptVars, requestVars, AskPcs, RequestPcs
<1>1. CASE StartTurn
  BY <1>1 DEF StartTurn
<1>2. CASE EndTurn
  BY <1>2 DEF EndTurn, Answered
<1>3. ASSUME NEW a \in Attempts, Begin(a) PROVE TypeOK'
  BY <1>3 DEF Begin, Register
<1>4. ASSUME NEW a \in Attempts, TakeResult(a) PROVE TypeOK'
  BY <1>4 DEF TakeResult, TakeOutcome, Taken
<1>5. ASSUME NEW a \in Attempts, Finish(a) PROVE TypeOK'
  BY <1>5 DEF Finish, Unregister
<1>6. ASSUME NEW a \in Attempts, DropAttempt(a) PROVE TypeOK'
  BY <1>6 DEF DropAttempt
<1>7. ASSUME NEW r \in Requests, Connect(r) PROVE TypeOK'
  BY <1>7 DEF Connect, Goto
<1>8. ASSUME NEW r \in Requests, Consider(r) PROVE TypeOK'
  BY <1>8 DEF Consider, Goto, Resolves
<1>9. ASSUME NEW r \in Requests, FindTurn(r) PROVE TypeOK'
  BY <1>9 DEF FindTurn, Goto
<1>10. ASSUME NEW r \in Requests, Ask(r) PROVE TypeOK'
  BY <1>10 DEF Ask, Goto, Answered
<1>11. ASSUME NEW r \in Requests, Decide(r) PROVE TypeOK'
  BY <1>11 DEF Decide, Goto, RecordUserDenial
<1>12. ASSUME NEW r \in Requests, Block(r) PROVE TypeOK'
  BY <1>12 DEF Block, Goto, RecordPolicyDenial
<1>13. ASSUME NEW r \in Requests, Answer(r) PROVE TypeOK'
  <2>1. PICK d \in Decisions : Answered({pending[CallId(r)]} \cap Requests, d)
    BY <1>13 DEF Answer
  <2>2. channel' \in [Requests -> Decisions \cup {Default, "none"}]
    BY <2>1 DEF Answered
  <2>3. pending' \in [Calls -> Requests \cup {NoRequest}] /\ prompted' \subseteq Requests
    BY <1>13 DEF Answer
  <2> QED BY <1>13, <2>2, <2>3 DEF Answer
<1>14. CASE UNCHANGED vars
  BY <1>14 DEF vars
<1> QED BY <1>1, <1>2, <1>3, <1>4, <1>5, <1>6, <1>7, <1>8, <1>9, <1>10, <1>11, <1>12, <1>13, <1>14 DEF Next, RequestStep

LEMMA WaitStep == TypeOK /\ WaitInv /\ [Next]_vars => WaitInv'
<1> SUFFICES ASSUME TypeOK, WaitInv, [Next]_vars PROVE WaitInv'
  OBVIOUS
<1> USE DEF TypeOK, WaitInv, CallId, Decisions, Approvals, Default, service, turnVars, attemptVars, requestVars, AskPcs, RequestPcs
<1>1. CASE StartTurn
  BY <1>1 DEF StartTurn
<1>2. CASE EndTurn
  BY <1>2 DEF EndTurn, Answered
<1>3. ASSUME NEW a \in Attempts, Begin(a) PROVE WaitInv'
  BY <1>3 DEF Begin
<1>4. ASSUME NEW a \in Attempts, TakeResult(a) PROVE WaitInv'
  BY <1>4 DEF TakeResult
<1>5. ASSUME NEW a \in Attempts, Finish(a) PROVE WaitInv'
  BY <1>5 DEF Finish
<1>6. ASSUME NEW a \in Attempts, DropAttempt(a) PROVE WaitInv'
  BY <1>6 DEF DropAttempt
<1>7. ASSUME NEW r \in Requests, Connect(r) PROVE WaitInv'
  BY <1>7 DEF Connect, Goto
<1>8. ASSUME NEW r \in Requests, Consider(r) PROVE WaitInv'
  BY <1>8 DEF Consider, Goto, Resolves
<1>9. ASSUME NEW r \in Requests, FindTurn(r) PROVE WaitInv'
  BY <1>9 DEF FindTurn, Goto
<1>10. ASSUME NEW r \in Requests, Ask(r) PROVE WaitInv'
  BY <1>10 DEF Ask, Goto, Answered
<1>11. ASSUME NEW r \in Requests, Decide(r) PROVE WaitInv'
  BY <1>11 DEF Decide, Goto
<1>12. ASSUME NEW r \in Requests, Block(r) PROVE WaitInv'
  BY <1>12 DEF Block, Goto
<1>13. ASSUME NEW r \in Requests, Answer(r) PROVE WaitInv'
  BY <1>13 DEF Answer, Answered
<1>14. CASE UNCHANGED vars
  BY <1>14 DEF vars
<1> QED BY <1>1, <1>2, <1>3, <1>4, <1>5, <1>6, <1>7, <1>8, <1>9, <1>10, <1>11, <1>12, <1>13, <1>14 DEF Next, RequestStep

LEMMA DenialStep == TypeOK /\ WaitInv /\ IdleInv /\ DenialKept /\ [Next]_vars => DenialKept'
<1> SUFFICES ASSUME TypeOK, WaitInv, IdleInv, DenialKept, [Next]_vars PROVE DenialKept'
  OBVIOUS
<1> USE DEF TypeOK, WaitInv, IdleInv, DenialKept, Decisions, Approvals, Default, service, turnVars, attemptVars, requestVars, AskPcs, RequestPcs
<1>1. CASE StartTurn
  BY <1>1 DEF StartTurn
<1>2. CASE EndTurn
  BY <1>2 DEF EndTurn, Answered
<1>3. ASSUME NEW a \in Attempts, Begin(a) PROVE DenialKept'
  BY <1>3 DEF Begin, Register
<1>4. ASSUME NEW a \in Attempts, TakeResult(a) PROVE DenialKept'
  BY <1>4 DEF TakeResult, TakeOutcome, Taken
<1>5. ASSUME NEW a \in Attempts, Finish(a) PROVE DenialKept'
  BY <1>5 DEF Finish, Unregister
<1>6. ASSUME NEW a \in Attempts, DropAttempt(a) PROVE DenialKept'
  BY <1>6 DEF DropAttempt
<1>7. ASSUME NEW r \in Requests, Connect(r) PROVE DenialKept'
  BY <1>7 DEF Connect, Goto
<1>8. ASSUME NEW r \in Requests, Consider(r) PROVE DenialKept'
  BY <1>8 DEF Consider, Goto, Resolves
<1>9. ASSUME NEW r \in Requests, FindTurn(r) PROVE DenialKept'
  BY <1>9 DEF FindTurn, Goto
<1>10. ASSUME NEW r \in Requests, Ask(r) PROVE DenialKept'
  <2>1. CallId(r) \in Calls
    BY <1>10 DEF Ask, CallId
  <2>2. \A q \in Requests : channel'[q] # channel[q] => at'[q] = "waiting"
    <3> SUFFICES ASSUME NEW q \in Requests, channel'[q] # channel[q]
                 PROVE at'[q] = "waiting"
      OBVIOUS
    <3>1. q = r \/ (pending[CallId(r)] = q /\ pending[CallId(r)] # NoRequest)
      BY <1>10 DEF Ask, Answered
    <3>2. q = r \/ at[q] = "waiting"
      BY <2>1, <3>1
    <3> QED BY <1>10, <3>2 DEF Ask, Goto
  <2>3. \A q \in Requests : at'[q] \in {"blocked", "refused"} => at'[q] = at[q]
    BY <1>10 DEF Ask, Goto
  <2> QED BY <1>10, <2>2, <2>3 DEF Ask
<1>11. ASSUME NEW r \in Requests, Decide(r) PROVE DenialKept'
  BY <1>11 DEF Decide, Goto, RecordUserDenial
<1>12. ASSUME NEW r \in Requests, Block(r) PROVE DenialKept'
  BY <1>12 DEF Block, Goto, RecordPolicyDenial
<1>13. ASSUME NEW r \in Requests, Answer(r) PROVE DenialKept'
  <2>1. CallId(r) \in Calls
    BY <1>13 DEF Answer, CallId
  <2>2. \A q \in Requests : channel'[q] # channel[q] => at[q] = "waiting"
    <3>1. PICK d \in Decisions : Answered({pending[CallId(r)]} \cap Requests, d)
      BY <1>13 DEF Answer
    <3> QED BY <2>1, <3>1 DEF Answered
  <2> QED BY <1>13, <2>2 DEF Answer
<1>14. CASE UNCHANGED vars
  BY <1>14 DEF vars
<1> QED BY <1>1, <1>2, <1>3, <1>4, <1>5, <1>6, <1>7, <1>8, <1>9, <1>10, <1>11, <1>12, <1>13, <1>14 DEF Next, RequestStep

LEMMA IdleStep == TypeOK /\ IdleInv /\ [Next]_vars => IdleInv'
<1> SUFFICES ASSUME TypeOK, IdleInv, [Next]_vars PROVE IdleInv'
  OBVIOUS
<1> USE DEF TypeOK, IdleInv, service, turnVars, attemptVars, requestVars, AskPcs, RequestPcs
<1>1. CASE StartTurn
  BY <1>1 DEF StartTurn
<1>2. CASE EndTurn
  BY <1>2 DEF EndTurn, Answered
<1>3. ASSUME NEW a \in Attempts, Begin(a) PROVE IdleInv'
  BY <1>3 DEF Begin, Register
<1>4. ASSUME NEW a \in Attempts, TakeResult(a) PROVE IdleInv'
  BY <1>4 DEF TakeResult, TakeOutcome, Taken
<1>5. ASSUME NEW a \in Attempts, Finish(a) PROVE IdleInv'
  BY <1>5 DEF Finish, Unregister
<1>6. ASSUME NEW a \in Attempts, DropAttempt(a) PROVE IdleInv'
  BY <1>6 DEF DropAttempt
<1>7. ASSUME NEW r \in Requests, Connect(r) PROVE IdleInv'
  BY <1>7 DEF Connect, Goto
<1>8. ASSUME NEW r \in Requests, Consider(r) PROVE IdleInv'
  BY <1>8 DEF Consider, Goto, Resolves
<1>9. ASSUME NEW r \in Requests, FindTurn(r) PROVE IdleInv'
  BY <1>9 DEF FindTurn, Goto
<1>10. ASSUME NEW r \in Requests, Ask(r) PROVE IdleInv'
  BY <1>10 DEF Ask, Goto, Answered
<1>11. ASSUME NEW r \in Requests, Decide(r) PROVE IdleInv'
  BY <1>11 DEF Decide, Goto, RecordUserDenial
<1>12. ASSUME NEW r \in Requests, Block(r) PROVE IdleInv'
  BY <1>12 DEF Block, Goto, RecordPolicyDenial
<1>13. ASSUME NEW r \in Requests, Answer(r) PROVE IdleInv'
  BY <1>13 DEF Answer, Answered
<1>14. CASE UNCHANGED vars
  BY <1>14 DEF vars
<1> QED BY <1>1, <1>2, <1>3, <1>4, <1>5, <1>6, <1>7, <1>8, <1>9, <1>10, <1>11, <1>12, <1>13, <1>14 DEF Next, RequestStep

LEMMA AnswerStep == TypeOK /\ WaitInv /\ AnswersStayWithCall /\ [Next]_vars => AnswersStayWithCall'
<1> SUFFICES ASSUME TypeOK, WaitInv, AnswersStayWithCall, [Next]_vars PROVE AnswersStayWithCall'
  OBVIOUS
<1> USE DEF TypeOK, WaitInv, AnswersStayWithCall, CallId, Decisions, Approvals, Default, service, turnVars, attemptVars, requestVars, AskPcs, RequestPcs
<1>1. CASE StartTurn
  BY <1>1 DEF StartTurn
<1>2. CASE EndTurn
  BY <1>2 DEF EndTurn, Answered
<1>3. ASSUME NEW a \in Attempts, Begin(a) PROVE AnswersStayWithCall'
  BY <1>3 DEF Begin
<1>4. ASSUME NEW a \in Attempts, TakeResult(a) PROVE AnswersStayWithCall'
  BY <1>4 DEF TakeResult
<1>5. ASSUME NEW a \in Attempts, Finish(a) PROVE AnswersStayWithCall'
  BY <1>5 DEF Finish
<1>6. ASSUME NEW a \in Attempts, DropAttempt(a) PROVE AnswersStayWithCall'
  BY <1>6 DEF DropAttempt
<1>7. ASSUME NEW r \in Requests, Connect(r) PROVE AnswersStayWithCall'
  BY <1>7 DEF Connect, Goto
<1>8. ASSUME NEW r \in Requests, Consider(r) PROVE AnswersStayWithCall'
  BY <1>8 DEF Consider, Goto, Resolves
<1>9. ASSUME NEW r \in Requests, FindTurn(r) PROVE AnswersStayWithCall'
  BY <1>9 DEF FindTurn, Goto
<1>10. ASSUME NEW r \in Requests, Ask(r) PROVE AnswersStayWithCall'
  BY <1>10 DEF Ask, Goto, Answered
<1>11. ASSUME NEW r \in Requests, Decide(r) PROVE AnswersStayWithCall'
  BY <1>11 DEF Decide, Goto
<1>12. ASSUME NEW r \in Requests, Block(r) PROVE AnswersStayWithCall'
  BY <1>12 DEF Block, Goto
<1>13. ASSUME NEW r \in Requests, Answer(r) PROVE AnswersStayWithCall'
  BY <1>13 DEF Answer, Answered
<1>14. CASE UNCHANGED vars
  BY <1>14 DEF vars
<1> QED BY <1>1, <1>2, <1>3, <1>4, <1>5, <1>6, <1>7, <1>8, <1>9, <1>10, <1>11, <1>12, <1>13, <1>14 DEF Next, RequestStep

-----------------------------------------------------------------------------
(* The theorems. *)

LEMMA Invariance == Spec => []IInv
<1>1. IInv /\ [Next]_vars => IInv'
  BY TypeStep, WaitStep, IdleStep, DenialStep, AnswerStep DEF IInv
<1> QED BY <1>1, Initially, PTL DEF Spec

\* Every variable keeps its type, and whoever asks has found an attempt.
THEOREM TypeCorrect == Spec => []TypeOK
<1>1. IInv => TypeOK
  BY DEF IInv
<1> QED BY <1>1, Invariance, PTL

\* No request waits for a sender that is gone, and no sender is kept for a request that
\* no longer waits.
THEOREM WaitersArePending == Spec => []WaitingIsPending
<1>1. ASSUME IInv, NEW r \in Requests, at[r] = "waiting", channel[r] = "none"
      PROVE \E c \in Calls : pending[c] = r
  <2>1. target[r] \in Attempts
    BY <1>1 DEF IInv, TypeOK, AskPcs
  <2> QED BY <1>1, <2>1 DEF IInv, WaitInv, CallId
<1>2. ASSUME IInv, NEW r \in Requests, NEW c \in Calls, pending[c] = r
      PROVE at[r] = "waiting" /\ channel[r] = "none"
  BY <1>2 DEF IInv, WaitInv
<1>3. IInv => WaitingIsPending
  BY <1>1, <1>2 DEF WaitingIsPending
<1> QED BY <1>3, Invariance, PTL

\* What the user has denied a running command stays recorded until its call takes it.
THEOREM DenialsKept == Spec => []DenialKept
<1>1. IInv => DenialKept
  BY DEF IInv
<1> QED BY <1>1, Invariance, PTL

\* No answer crosses from the prompts of one call to a request of another.
THEOREM AnswersKept == Spec => []AnswersStayWithCall
<1>1. IInv => AnswersStayWithCall
  BY DEF IInv
<1> QED BY <1>1, Invariance, PTL
=============================================================================
