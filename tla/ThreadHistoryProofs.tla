-------------------------- MODULE ThreadHistoryProofs --------------------------
(***************************************************************************)
(* Proofs about the conversation of a thread, for any inputs, calls and    *)
(* bounds: a resumed thread shows the conversation that was recorded       *)
(* (ResumesAsSeen), prompts answer every call (PromptsBalanced), and       *)
(* a fork before a message starts with the conversation the message came   *)
(* after (ForkKeepsPrefix).                                                *)
(*                                                                         *)
(* The operators of the model are recursive functions over sequences.      *)
(* They are unfolded once each, by RecursionExists and RecursionUnique,    *)
(* into what they make of one item more; what holds of every sequence      *)
(* follows by SeqInduction, which speaks of a set of sequences.            *)
(***************************************************************************)
EXTENDS RolloutProofs, WellFoundedInduction, FiniteSetTheorems

-----------------------------------------------------------------------------
(* Induction and recursion. *)

\* Induction over the naturals, for a set instead of a predicate.
LEMMA SetInduction ==
    ASSUME NEW S, 0 \in S, \A n \in Nat : n \in S => n + 1 \in S
    PROVE  Nat \subseteq S
<1> DEFINE R == OpToRel(<, Nat)
           T == Nat \ S
<1>1. IsWellFoundedOn(R, Nat)
  BY NatLessThanWellFounded
<1>2. SUFFICES ASSUME T # {} PROVE FALSE
  OBVIOUS
<1>3. PICK x \in T : \A y \in T : ~ (<<y, x>> \in R)
  <2> T \subseteq Nat  OBVIOUS
  <2> HIDE DEF R, T
  <2> QED  BY <1>1, <1>2, WFMin
<1>4. x # 0 /\ x - 1 \in Nat
  OBVIOUS
<1>5. <<x - 1, x>> \in R
  BY <1>4 DEF OpToRel
<1>6. x - 1 \in S
  BY <1>3, <1>4, <1>5
<1> QED  BY <1>4, <1>6

\* Induction over sequences.
LEMMA SeqInduction ==
    ASSUME NEW E, NEW P, <<>> \in P,
           \A s \in Seq(E), e \in E : s \in P => Append(s, e) \in P
    PROVE  Seq(E) \subseteq P
<1> DEFINE S == {n \in Nat : \A s \in Seq(E) : Len(s) = n => s \in P}
<1>1. 0 \in S
  <2>1. \A s \in Seq(E) : Len(s) = 0 => s = <<>>  OBVIOUS
  <2> QED  BY <2>1
<1>2. ASSUME NEW n \in Nat, n \in S PROVE n + 1 \in S
  <2> SUFFICES ASSUME NEW s \in Seq(E), Len(s) = n + 1 PROVE s \in P
    OBVIOUS
  <2> DEFINE t == SubSeq(s, 1, n)
             e == s[n + 1]
  <2>1. t \in Seq(E) /\ e \in E /\ Len(t) = n /\ s = Append(t, e)
    OBVIOUS
  <2> HIDE DEF t, e
  <2>2. t \in P
    <3>1. \A u \in Seq(E) : Len(u) = n => u \in P
      BY <1>2
    <3> QED  BY <2>1, <3>1
  <2>3. Append(t, e) \in P
    BY <2>1, <2>2
  <2> QED  BY <2>1, <2>3
<1>3. Nat \subseteq S
  <2> HIDE DEF S
  <2> QED  BY <1>1, <1>2, SetInduction
<1> QED  BY <1>3

IsRecursion(f, N, X, x0, step) ==
    /\ f \in [0..N -> X]
    /\ f[0] = x0
    /\ \A n \in 1..N : f[n] = step[n][f[n - 1]]

\* A function may be defined by its value at zero and by a step.
LEMMA RecursionExists ==
    ASSUME NEW N \in Nat, NEW X, NEW x0 \in X, NEW step \in [1..N -> [X -> X]]
    PROVE  \E f : IsRecursion(f, N, X, x0, step)
<1> DEFINE S == {m \in Nat : m <= N => \E f : IsRecursion(f, m, X, x0, step)}
<1>1. 0 \in S
  <2>1. IsRecursion([n \in 0..0 |-> x0], 0, X, x0, step)
    BY DEF IsRecursion
  <2> QED  BY <2>1
<1>2. ASSUME NEW m \in Nat, m \in S PROVE m + 1 \in S
  <2> SUFFICES ASSUME m + 1 <= N
               PROVE  \E f : IsRecursion(f, m + 1, X, x0, step)
    OBVIOUS
  <2>1. PICK f : IsRecursion(f, m, X, x0, step)
    BY <1>2
  <2> DEFINE g == [n \in 0..(m + 1) |-> IF n <= m THEN f[n] ELSE step[m + 1][f[m]]]
  <2>2. f[m] \in X /\ step[m + 1][f[m]] \in X
    BY <2>1 DEF IsRecursion
  <2>3. IsRecursion(g, m + 1, X, x0, step)
    BY <2>1, <2>2 DEF IsRecursion
  <2> QED  BY <2>3
<1>3. Nat \subseteq S
  <2> HIDE DEF S
  <2> QED  BY <1>1, <1>2, SetInduction
<1> QED  BY <1>3

\* There is only one.
StepAlike(f, g, N) ==
    f[0] = g[0] /\ \A n \in 1..N : f[n - 1] = g[n - 1] => f[n] = g[n]
Alike(f, g, N) == \A n \in 0..N : f[n] = g[n]

\* Functions that start alike and step alike are alike.
LEMMA RecursionUnique ==
    ASSUME NEW N \in Nat, NEW f, NEW g, StepAlike(f, g, N)
    PROVE  Alike(f, g, N)
<1> DEFINE S == {n \in Nat : n <= N => f[n] = g[n]}
<1> USE DEF StepAlike, Alike
<1>1. 0 \in S  OBVIOUS
<1>2. ASSUME NEW n \in Nat, n \in S PROVE n + 1 \in S
  <2>1. n + 1 <= N => n + 1 \in 1..N /\ f[(n + 1) - 1] = g[(n + 1) - 1]
    BY <1>2
  <2> QED  BY <2>1
<1>3. Nat \subseteq S
  <2> HIDE DEF S
  <2> QED  BY <1>1, <1>2, SetInduction
<1> QED  BY <1>3

-----------------------------------------------------------------------------
(* Places and Keep. *)

PlacesOf(f, s, S) ==
    f = [n \in 0..Len(s) |-> IF n = 0 THEN <<>>
                             ELSE IF s[n] \in S THEN Append(f[n - 1], n)
                             ELSE f[n - 1]]

PlacesAre(f, s, S) ==
    /\ f \in [0..Len(s) -> Seq(1..Len(s))]
    /\ Places(s, S) = f[Len(s)]
    /\ f[0] = <<>>
    /\ \A n \in 1..Len(s) :
          f[n] = IF s[n] \in S THEN Append(f[n - 1], n) ELSE f[n - 1]

\* The recursive definition of Places, unfolded.
LEMMA PlacesUnfold ==
    ASSUME NEW E, NEW s \in Seq(E), NEW S
    PROVE  \E f : PlacesAre(f, s, S)
<1> DEFINE N == Len(s)
           X == Seq(1..N)
           step == [n \in 1..N |->
                      [x \in X |-> IF s[n] \in S THEN Append(x, n) ELSE x]]
           f == CHOOSE g : PlacesOf(g, s, S)
<1>1. N \in Nat /\ <<>> \in X
  OBVIOUS
<1>2. step \in [1..N -> [X -> X]]
  <2>1. \A n \in 1..N, x \in X : Append(x, n) \in X
    OBVIOUS
  <2> HIDE DEF X
  <2> QED  BY <2>1
<1>3. PICK h : IsRecursion(h, N, X, <<>>, step)
  <2> HIDE DEF N, X, step
  <2> QED  BY <1>1, <1>2, RecursionExists
<1>4. /\ h \in [0..N -> X] /\ h[0] = <<>>
      /\ \A n \in 1..N : h[n] = IF s[n] \in S THEN Append(h[n - 1], n) ELSE h[n - 1]
  <2>1. h \in [0..N -> X] /\ h[0] = <<>> /\ \A n \in 1..N : h[n] = step[n][h[n - 1]]
    BY <1>3 DEF IsRecursion
  <2>2. \A n \in 1..N : h[n - 1] \in X
    <3> HIDE DEF X, step
    <3> QED  BY <1>1, <2>1
  <2> HIDE DEF X
  <2> QED  BY <2>1, <2>2
<1>5. PlacesOf(h, s, S)
  <2> HIDE DEF X, step
  <2> QED  BY <1>1, <1>4 DEF PlacesOf
<1>6. PlacesOf(f, s, S)
  <2> HIDE DEF X, step
  <2> QED  BY <1>5
<1>7. Places(s, S) = f[N]
  BY DEF Places, PlacesOf
<1>8. /\ f[0] = <<>>
      /\ \A n \in 1..N : f[n] = IF s[n] \in S THEN Append(f[n - 1], n) ELSE f[n - 1]
  <2> HIDE DEF f, X, step
  <2>1. \A n \in 0..N : f[n] = IF n = 0 THEN <<>>
                              ELSE IF s[n] \in S THEN Append(f[n - 1], n)
                              ELSE f[n - 1]
    BY <1>6, Zenon DEF PlacesOf
  <2> QED  BY <1>1, <2>1
<1>9. Alike(f, h, N)
  <2> HIDE DEF f, X, step
  <2>1. StepAlike(f, h, N)
    BY <1>4, <1>8 DEF StepAlike
  <2> QED  BY <1>1, <2>1, RecursionUnique
<1>10. f \in [0..N -> X]
  <2> HIDE DEF f, X, step
  <2> QED  BY <1>1, <1>4, <1>6, <1>9 DEF PlacesOf, Alike
<1> QED  BY <1>7, <1>8, <1>10 DEF PlacesAre

\* The places are places of the sequence.
LEMMA PlacesType ==
    ASSUME NEW E, NEW s \in Seq(E), NEW S
    PROVE  Places(s, S) \in Seq(1..Len(s))
<1>1. PICK f : PlacesAre(f, s, S)
  BY PlacesUnfold
<1>2. f \in [0..Len(s) -> Seq(1..Len(s))] /\ Len(s) \in 0..Len(s)
  BY <1>1 DEF PlacesAre
<1>3. Places(s, S) = f[Len(s)]
  BY <1>1 DEF PlacesAre
<1> QED  BY <1>2, <1>3, Zenon

\* No items, no places.
LEMMA PlacesEmpty == \A S : Places(<<>>, S) = <<>>
<1> SUFFICES ASSUME NEW S PROVE Places(<<>>, S) = <<>>
  OBVIOUS
<1> DEFINE s == <<>>
           E == {}
<1>1. s \in Seq(E) /\ Len(s) = 0
  OBVIOUS
<1> HIDE DEF s, E
<1>2. PICK f : PlacesAre(f, s, S)
  BY <1>1, PlacesUnfold
<1>3. Places(s, S) = <<>>
  BY <1>1, <1>2 DEF PlacesAre
<1> QED  BY <1>3 DEF s

\* One item more is one place more, or none.
LEMMA PlacesAppend ==
    ASSUME NEW E, NEW s \in Seq(E), NEW e \in E, NEW S
    PROVE  Places(Append(s, e), S) =
             IF e \in S THEN Append(Places(s, S), Len(s) + 1) ELSE Places(s, S)
<1> DEFINE t == Append(s, e)
           N == Len(s)
<1>1. /\ t \in Seq(E) /\ Len(t) = N + 1 /\ N \in Nat
      /\ \A n \in 1..N : t[n] = s[n]
      /\ t[N + 1] = e
  OBVIOUS
<1> HIDE DEF t
<1>2. PICK f : PlacesAre(f, s, S)
  BY PlacesUnfold
<1>3. PICK g : PlacesAre(g, t, S)
  BY <1>1, PlacesUnfold
<1>4. StepAlike(f, g, N)
  BY <1>1, <1>2, <1>3 DEF StepAlike, PlacesAre
<1>5. f[N] = g[N]
  BY <1>1, <1>4, RecursionUnique DEF Alike
<1>6. N + 1 \in 1..(N + 1) /\ (N + 1) - 1 = N
  BY <1>1
<1>7. g[N + 1] = IF e \in S THEN Append(g[N], N + 1) ELSE g[N]
  BY <1>1, <1>3, <1>6 DEF PlacesAre
<1>8. Places(t, S) = IF e \in S THEN Append(Places(s, S), N + 1) ELSE Places(s, S)
  BY <1>1, <1>2, <1>3, <1>5, <1>7 DEF PlacesAre
<1> QED  BY <1>8 DEF t, N

\* Nothing is kept of nothing.
LEMMA KeepEmpty == \A S : Keep(<<>>, S) = <<>>
BY PlacesEmpty DEF Keep

\* One item more is kept, or left out.
LEMMA KeepAppend ==
    ASSUME NEW E, NEW s \in Seq(E), NEW e \in E, NEW S
    PROVE  Keep(Append(s, e), S) = IF e \in S THEN Append(Keep(s, S), e) ELSE Keep(s, S)
<1> DEFINE t == Append(s, e)
           P == Places(s, S)
           Q == Places(t, S)
<1>1. P \in Seq(1..Len(s))
  BY PlacesType
<1>2. Q = IF e \in S THEN Append(P, Len(s) + 1) ELSE P
  BY PlacesAppend
<1>3. Keep(s, S) = [k \in DOMAIN P |-> s[P[k]]] /\ Keep(t, S) = [k \in DOMAIN Q |-> t[Q[k]]]
  BY DEF Keep
<1>4. t \in Seq(E) /\ Len(t) = Len(s) + 1 /\ (\A n \in 1..Len(s) : t[n] = s[n]) /\ t[Len(s) + 1] = e
  OBVIOUS
<1> HIDE DEF P, Q, t
<1>5. CASE e \in S
  <2>1. DOMAIN Q = 1..(Len(P) + 1) /\ DOMAIN P = 1..Len(P) /\ Len(P) \in Nat
    BY <1>1, <1>2, <1>5
  <2>2. \A k \in 1..Len(P) : Q[k] = P[k] /\ P[k] \in 1..Len(s)
    BY <1>1, <1>2, <1>5
  <2>3. Q[Len(P) + 1] = Len(s) + 1
    BY <1>1, <1>2, <1>5
  <2>4. Keep(s, S) \in Seq(E) /\ Len(Keep(s, S)) = Len(P)
    BY <1>3, <2>1, <2>2
  <2>5. Append(Keep(s, S), e) = [k \in 1..(Len(P) + 1) |-> IF k <= Len(P) THEN s[P[k]] ELSE e]
    BY <1>3, <2>1, <2>4
  <2>6. Keep(t, S) = [k \in 1..(Len(P) + 1) |-> IF k <= Len(P) THEN s[P[k]] ELSE e]
    BY <1>3, <1>4, <2>1, <2>2, <2>3
  <2> QED  BY <1>5, <2>5, <2>6 DEF t
<1>6. CASE e \notin S
  <2>1. \A k \in DOMAIN P : P[k] \in 1..Len(s)
    BY <1>1
  <2> QED  BY <1>2, <1>3, <1>4, <1>6, <2>1 DEF t
<1> QED  BY <1>5, <1>6

\* What is kept.
LEMMA KeepType ==
    ASSUME NEW E, NEW S
    PROVE  \A s \in Seq(E) : Keep(s, S) \in Seq(E \cap S)
<1> DEFINE P == {s \in Seq(E) : Keep(s, S) \in Seq(E \cap S)}
<1>1. <<>> \in P
  <2>1. <<>> \in Seq(E) /\ <<>> \in Seq(E \cap S)
    OBVIOUS
  <2> QED  BY <2>1, KeepEmpty, Zenon
<1>2. ASSUME NEW s \in Seq(E), NEW e \in E, s \in P PROVE Append(s, e) \in P
  <2>1. Keep(Append(s, e), S) = IF e \in S THEN Append(Keep(s, S), e) ELSE Keep(s, S)
    BY KeepAppend
  <2>2. Keep(s, S) \in Seq(E \cap S)
    BY <1>2
  <2>3. Keep(Append(s, e), S) \in Seq(E \cap S)
    BY <2>1, <2>2
  <2> QED  BY <2>3
<1>3. Seq(E) \subseteq P
  <2> HIDE DEF P
  <2> QED  BY <1>1, <1>2, SeqInduction
<1> QED  BY <1>3

-----------------------------------------------------------------------------
(* The pure operators of ThreadHistory. *)

\* What the live history alone has.
Hidden == {Draft, Reappended}

\* Which items are messages of the user, and which begin a turn of it.
LEMMA ItemTypes ==
    /\ UserMessages \subseteq UserTurns /\ UserTurns \subseteq Items \ Hidden
    /\ Context \in Items /\ Marker \in Items /\ Draft \in Items /\ Summary \in Items
    /\ Opaque \in Items /\ Switch \in Items /\ Reappended \in Items
    /\ \A i \in {Context, Marker, Switch, Reappended, Draft, Opaque} : i \notin UserTurns
    /\ {Context, Marker, Switch, Summary, Opaque} \intersect Hidden = {}
    /\ Summary \in UserTurns /\ Summary \notin UserMessages
    /\ \A u \in Inputs : Message(u) \in UserMessages
    /\ \A c \in Calls : Call(c) \in Items \ UserTurns /\ Output(c) \in Items \ UserTurns
BY DEF UserMessages, UserTurns, Items, Context, Marker, Draft, Summary, Opaque, Switch,
       Reappended, Hidden, Message, Call, Output, Item

\* Keeping fewer items of those kept.
LEMMA KeepTwice ==
    ASSUME NEW E, NEW R, NEW S, S \subseteq R
    PROVE  \A s \in Seq(E) : Keep(Keep(s, R), S) = Keep(s, S)
<1> DEFINE P == {s \in Seq(E) : Keep(Keep(s, R), S) = Keep(s, S)}
<1>1. <<>> \in P
  <2>1. <<>> \in Seq(E)
    OBVIOUS
  <2> QED  BY <2>1, KeepEmpty, Zenon
<1>2. ASSUME NEW s \in Seq(E), NEW e \in E, s \in P PROVE Append(s, e) \in P
  <2> DEFINE k == Keep(s, R)
  <2>1. Keep(k, S) = Keep(s, S)
    BY <1>2
  <2>2. Keep(Append(s, e), R) = IF e \in R THEN Append(k, e) ELSE k
    BY KeepAppend
  <2>3. Keep(Append(s, e), S) = IF e \in S THEN Append(Keep(s, S), e) ELSE Keep(s, S)
    BY KeepAppend
  <2>4. k \in Seq(E \cap R)
    BY KeepType
  <2>5. k \in Seq(E)
    BY <2>4
  <2> HIDE DEF k
  <2>6. Keep(Append(k, e), S) = IF e \in S THEN Append(Keep(k, S), e) ELSE Keep(k, S)
    BY <2>5, KeepAppend
  <2>7. Append(s, e) \in Seq(E)
    OBVIOUS
  <2>8. Keep(Keep(Append(s, e), R), S) = Keep(Append(s, e), S)
    BY <2>1, <2>2, <2>3, <2>6
  <2> QED  BY <2>7, <2>8
<1>3. Seq(E) \subseteq P
  <2> HIDE DEF P
  <2> QED  BY <1>1, <1>2, SeqInduction
<1> QED  BY <1>3

\* A rollback leaves a prefix.
LEMMA DropIsPrefix ==
    ASSUME NEW h \in Seq(Items), NEW n \in Nat \ {0}
    PROVE  \E k \in 0..Len(h) : DropLastTurns(h, n) = SubSeq(h, 1, k)
<1> DEFINE turns == Places(h, UserTurns)
           k == IF n >= Len(turns) THEN 1 ELSE Len(turns) - n + 1
<1>1. turns \in Seq(1..Len(h))
  BY PlacesType
<1>2. CASE turns = <<>>
  <2>1. DropLastTurns(h, n) = h
    BY <1>2 DEF DropLastTurns
  <2>2. h = SubSeq(h, 1, Len(h)) /\ Len(h) \in 0..Len(h)
    OBVIOUS
  <2> QED  BY <2>1, <2>2
<1>3. CASE turns # <<>>
  <2>1. DropLastTurns(h, n) = SubSeq(h, 1, turns[k] - 1)
    BY <1>3 DEF DropLastTurns
  <2>2. k \in 1..Len(turns)
    BY <1>1, <1>3
  <2>3. turns[k] \in 1..Len(h)
    <3> HIDE DEF turns, k
    <3> QED  BY <1>1, <2>2
  <2>4. turns[k] - 1 \in 0..Len(h)
    <3> HIDE DEF turns, k
    <3> QED  BY <2>3
  <2> QED  BY <2>1, <2>4
<1> QED  BY <1>2, <1>3

\* What a rollback leaves is a history.
LEMMA DropType ==
    ASSUME NEW h \in Seq(Items), NEW n \in Nat \ {0}
    PROVE  DropLastTurns(h, n) \in Seq(Items)
<1>1. PICK k \in 0..Len(h) : DropLastTurns(h, n) = SubSeq(h, 1, k)
  BY DropIsPrefix
<1>2. SubSeq(h, 1, k) \in Seq(Items)
  OBVIOUS
<1> QED  BY <1>1, <1>2

\* A rollback, item by item from the end.
LEMMA DropAppend ==
    ASSUME NEW h \in Seq(Items), NEW i \in Items, NEW n \in Nat \ {0}
    PROVE  /\ i \notin UserTurns /\ Places(h, UserTurns) = <<>>
                => DropLastTurns(Append(h, i), n) = Append(h, i)
           /\ i \notin UserTurns /\ Places(h, UserTurns) # <<>>
                => DropLastTurns(Append(h, i), n) = DropLastTurns(h, n)
           /\ i \in UserTurns /\ (n = 1 \/ Places(h, UserTurns) = <<>>)
                => DropLastTurns(Append(h, i), n) = h
           /\ i \in UserTurns /\ n # 1 /\ Places(h, UserTurns) # <<>>
                => DropLastTurns(Append(h, i), n) = DropLastTurns(h, n - 1)
<1> DEFINE t == Append(h, i)
           P == Places(h, UserTurns)
           Q == Places(t, UserTurns)
           Cut(turns, m) == turns[IF m >= Len(turns) THEN 1 ELSE Len(turns) - m + 1]
<1>1. P \in Seq(1..Len(h)) /\ Len(h) \in Nat
  BY PlacesType
<1>2. Q = IF i \in UserTurns THEN Append(P, Len(h) + 1) ELSE P
  BY PlacesAppend
<1>3. \A m : /\ DropLastTurns(t, m) = IF Q = <<>> THEN t ELSE SubSeq(t, 1, Cut(Q, m) - 1)
             /\ DropLastTurns(h, m) = IF P = <<>> THEN h ELSE SubSeq(h, 1, Cut(P, m) - 1)
  BY DEF DropLastTurns
<1>4. ASSUME NEW c \in 0..Len(h) PROVE SubSeq(t, 1, c) = SubSeq(h, 1, c)
  BY SMTT(30)
<1>5. SubSeq(t, 1, Len(h)) = h
  OBVIOUS
<1>6. ASSUME P # <<>>, NEW m \in Nat \ {0} PROVE Cut(P, m) \in 1..Len(h)
  <2> HIDE DEF P
  <2>1. Len(P) \in Nat /\ Len(P) > 0
    BY <1>1, <1>6
  <2>2. (IF m >= Len(P) THEN 1 ELSE Len(P) - m + 1) \in 1..Len(P)
    BY <2>1
  <2> QED  BY <1>1, <2>2
<1>7. Q # <<>> \/ (i \notin UserTurns /\ P = <<>>)
  <2> HIDE DEF P, Q
  <2> QED  BY <1>1, <1>2, SMTT(30)
<1>8. ASSUME i \notin UserTurns, P = <<>> PROVE DropLastTurns(t, n) = t
  BY <1>2, <1>3, <1>8
<1>9. ASSUME i \notin UserTurns, P # <<>> PROVE DropLastTurns(t, n) = DropLastTurns(h, n)
  <2>1. Cut(P, n) - 1 \in 0..Len(h)
    <3> HIDE DEF Cut, P
    <3> QED  BY <1>1, <1>6, <1>9
  <2>2. DropLastTurns(t, n) = SubSeq(t, 1, Cut(P, n) - 1)
    BY <1>2, <1>3, <1>9
  <2>3. DropLastTurns(h, n) = SubSeq(h, 1, Cut(P, n) - 1)
    BY <1>3, <1>9
  <2> HIDE DEF Cut, P, t
  <2> QED  BY <1>4, <2>1, <2>2, <2>3
<1>10. ASSUME i \in UserTurns, n = 1 \/ P = <<>> PROVE DropLastTurns(t, n) = h
  <2>1. Cut(Q, n) = Len(h) + 1
    <3> HIDE DEF P, Q
    <3> QED  BY <1>1, <1>2, <1>10
  <2>2. DropLastTurns(t, n) = SubSeq(t, 1, Cut(Q, n) - 1)
    BY <1>3, <1>7, <1>10
  <2>3. Cut(Q, n) - 1 = Len(h)
    <3> HIDE DEF Cut
    <3> QED  BY <1>1, <2>1
  <2> HIDE DEF Cut, Q, t
  <2> QED  BY <1>5, <2>2, <2>3
<1>11. ASSUME i \in UserTurns, n # 1, P # <<>>
       PROVE  DropLastTurns(t, n) = DropLastTurns(h, n - 1)
  <2>0. n - 1 \in Nat \ {0}
    BY <1>11
  <2>1. Cut(Q, n) = Cut(P, n - 1)
    <3> HIDE DEF P, Q
    <3>1. Len(P) \in Nat /\ Len(Q) = Len(P) + 1 /\ Len(P) > 0
      BY <1>1, <1>2, <1>11
    <3>2. \A k \in 1..Len(P) : Q[k] = P[k]
      BY <1>1, <1>2, <1>11
    <3> QED  BY <3>1, <3>2, <2>0
  <2>2. DropLastTurns(t, n) = SubSeq(t, 1, Cut(P, n - 1) - 1)
    BY <1>3, <1>7, <1>11, <2>1
  <2>3. DropLastTurns(h, n - 1) = SubSeq(h, 1, Cut(P, n - 1) - 1)
    BY <1>3, <1>11
  <2>4. Cut(P, n - 1) - 1 \in 0..Len(h)
    <3> HIDE DEF Cut, P
    <3> QED  BY <1>1, <1>6, <1>11, <2>0
  <2> HIDE DEF Cut, P, t
  <2> QED  BY <1>4, <2>2, <2>3, <2>4
<1> QED  BY <1>8, <1>9, <1>10, <1>11

\* A sequence with one more element is not empty.
LEMMA AppendNotEmpty ==
    ASSUME NEW s, IsSeq(s), NEW e
    PROVE  Append(s, e) # <<>>
<1>1. IsSeq(Append(s, e)) /\ Len(Append(s, e)) = Len(s) + 1 /\ Len(s) \in Nat
  BY AppendFacts, SeqFacts
<1> DEFINE t == Append(s, e)
<1>2. IsSeq(t) /\ Len(t) # 0
  BY <1>1
<1> HIDE DEF t
<1>3. t # <<>>
  BY <1>2, SeqFacts
<1> QED  BY <1>3 DEF t

-----------------------------------------------------------------------------
(* What a replay shows, what the live history alone has left out. *)

\* What is recorded of a history is one.
LEMMA RecordedType ==
    ASSUME NEW h \in Seq(Items)
    PROVE  Recorded(h) \in Seq(Items)
<1>1. Recorded(h) \in Seq(Items \cap (Items \ {Draft, Reappended}))
  BY KeepType DEF Recorded
<1> QED  BY <1>1

\* Every other item is recorded.
LEMMA RecordedAppend ==
    ASSUME NEW h \in Seq(Items), NEW i \in Items
    PROVE  Recorded(Append(h, i)) = IF i \in Hidden THEN Recorded(h) ELSE Append(Recorded(h), i)
BY KeepAppend DEF Recorded, Hidden

\* A rollback of the recorded items is what is recorded of the rollback.
LEMMA RecordedDrop ==
    ASSUME NEW h \in Seq(Items)
    PROVE  /\ Places(Recorded(h), UserTurns) = <<>> <=> Places(h, UserTurns) = <<>>
           /\ \A n \in Nat \ {0} :
                 Recorded(DropLastTurns(h, n)) = DropLastTurns(Recorded(h), n)
<1> DEFINE NoTurns(g) == Places(g, UserTurns) = <<>>
           P == {g \in Seq(Items) :
                   /\ NoTurns(Recorded(g)) <=> NoTurns(g)
                   /\ \A n \in Nat \ {0} :
                        Recorded(DropLastTurns(g, n)) = DropLastTurns(Recorded(g), n)}
<1>1. <<>> \in P
  <2>1. <<>> \in Seq(Items)
    OBVIOUS
  <2>2. Recorded(<<>>) = <<>>
    BY KeepEmpty DEF Recorded
  <2>3. \A n : DropLastTurns(<<>>, n) = <<>>
    BY PlacesEmpty DEF DropLastTurns
  <2> QED  BY <2>1, <2>2, <2>3, Zenon
<1>2. ASSUME NEW g \in Seq(Items), NEW i \in Items, g \in P PROVE Append(g, i) \in P
  <2> DEFINE t == Append(g, i)
             r == Recorded(g)
  <2>1. /\ NoTurns(r) <=> NoTurns(g)
        /\ \A n \in Nat \ {0} : Recorded(DropLastTurns(g, n)) = DropLastTurns(r, n)
    BY <1>2
  <2>2. r \in Seq(Items)
    BY RecordedType
  <2>3. Recorded(t) = IF i \in Hidden THEN r ELSE Append(r, i)
    BY RecordedAppend
  <2>4. t \in Seq(Items)
    OBVIOUS
  <2>5. Places(t, UserTurns) = IF i \in UserTurns THEN Append(Places(g, UserTurns), Len(g) + 1)
                               ELSE Places(g, UserTurns)
    BY PlacesAppend
  <2>6. Places(Append(r, i), UserTurns) =
          IF i \in UserTurns THEN Append(Places(r, UserTurns), Len(r) + 1)
          ELSE Places(r, UserTurns)
    BY <2>2, PlacesAppend
  <2>7. Places(g, UserTurns) \in Seq(1..Len(g)) /\ Places(r, UserTurns) \in Seq(1..Len(r))
    BY <2>2, PlacesType
  <2>8. \A j \in Hidden : j \notin UserTurns
    BY ItemTypes
  <2> HIDE DEF r, t
  <2>9. NoTurns(Recorded(t)) <=> NoTurns(t)
    <3> DEFINE p == Places(g, UserTurns)
               q == Places(r, UserTurns)
    <3>0. p \in Seq(Nat) /\ q \in Seq(Nat)
      BY <2>7
    <3>1. i \in UserTurns => ~NoTurns(t) /\ ~NoTurns(Append(r, i))
      <4>1. IsSeq(p) /\ IsSeq(q)
        BY <3>0 DEF IsSeq
      <4>2. \A k : Append(p, k) # <<>> /\ Append(q, k) # <<>>
        BY <4>1, AppendNotEmpty
      <4> QED  BY <4>2, <2>5, <2>6, Zenon
    <3>2. i \notin UserTurns => (NoTurns(t) <=> NoTurns(g))
                                /\ (NoTurns(Append(r, i)) <=> NoTurns(r))
      BY <2>5, <2>6
    <3> QED  BY <3>1, <3>2, <2>1, <2>3, <2>8
  <2>10. ASSUME NEW n \in Nat \ {0}
         PROVE  Recorded(DropLastTurns(t, n)) = DropLastTurns(Recorded(t), n)
    <3>1. /\ i \notin UserTurns /\ NoTurns(g) => DropLastTurns(t, n) = t
          /\ i \notin UserTurns /\ ~NoTurns(g) => DropLastTurns(t, n) = DropLastTurns(g, n)
          /\ i \in UserTurns /\ (n = 1 \/ NoTurns(g)) => DropLastTurns(t, n) = g
          /\ i \in UserTurns /\ n # 1 /\ ~NoTurns(g)
               => DropLastTurns(t, n) = DropLastTurns(g, n - 1)
      BY DropAppend DEF t
    <3>2. /\ i \notin UserTurns /\ NoTurns(r) => DropLastTurns(Append(r, i), n) = Append(r, i)
          /\ i \notin UserTurns /\ ~NoTurns(r)
               => DropLastTurns(Append(r, i), n) = DropLastTurns(r, n)
          /\ i \in UserTurns /\ (n = 1 \/ NoTurns(r)) => DropLastTurns(Append(r, i), n) = r
          /\ i \in UserTurns /\ n # 1 /\ ~NoTurns(r)
               => DropLastTurns(Append(r, i), n) = DropLastTurns(r, n - 1)
      BY <2>2, DropAppend
    <3>3. NoTurns(r) => DropLastTurns(r, n) = r
      BY DEF DropLastTurns
    <3>4. n # 1 => n - 1 \in Nat \ {0}
      OBVIOUS
    <3>5. Recorded(g) = r
      BY DEF r
    <3> HIDE DEF NoTurns
    <3>6. CASE i \in Hidden
      BY <3>1, <3>3, <3>6, <2>1, <2>3, <2>8
    <3>7. CASE i \notin Hidden /\ i \notin UserTurns
      BY <3>1, <3>2, <3>7, <2>1, <2>3
    <3>8. CASE i \in UserTurns
      BY <3>1, <3>2, <3>4, <3>5, <3>8, <2>1, <2>3, <2>8
    <3> QED  BY <3>6, <3>7, <3>8
  <2> QED  BY <2>4, <2>9, <2>10 DEF t
<1>3. Seq(Items) \subseteq P
  <2> HIDE DEF P
  <2> QED  BY <1>1, <1>2, SeqInduction
<1> QED  BY <1>3

\* Two histories that differ in hidden items only.
Same(g, h) == Recorded(g) = Recorded(h)

\* They stay alike when an item is put into both,
LEMMA SameAppend ==
    ASSUME NEW g \in Seq(Items), NEW h \in Seq(Items), NEW i \in Items, Same(g, h)
    PROVE  Same(Append(g, i), Append(h, i))
BY RecordedAppend DEF Same

\* when a hidden item is put into one of them,
LEMMA SameHidden ==
    ASSUME NEW h \in Seq(Items), NEW i \in Hidden
    PROVE  Same(Append(h, i), h)
<1>1. i \in Items
  BY ItemTypes DEF Hidden
<1> QED  BY <1>1, RecordedAppend DEF Same

\* when the same number of turns is dropped from both;
LEMMA SameDrop ==
    ASSUME NEW g \in Seq(Items), NEW h \in Seq(Items), NEW n \in Nat \ {0}, Same(g, h)
    PROVE  Same(DropLastTurns(g, n), DropLastTurns(h, n))
BY RecordedDrop, Zenon DEF Same

\* they have the same messages of the user,
LEMMA SameMessages ==
    ASSUME NEW g \in Seq(Items), NEW h \in Seq(Items), Same(g, h)
    PROVE  MessagesOf(g) = MessagesOf(h)
<1>1. UserMessages \subseteq Items \ {Draft, Reappended}
  BY ItemTypes DEF Hidden
<1>2. \A s \in Seq(Items) : Keep(Recorded(s), UserMessages) = Keep(s, UserMessages)
  BY <1>1, KeepTwice DEF Recorded
<1> QED  BY <1>2 DEF Same, MessagesOf

\* and a local compaction makes the same history of them.
LEMMA SameCompacted ==
    ASSUME NEW g \in Seq(Items), NEW h \in Seq(Items), Same(g, h)
    PROVE  LocallyCompacted(g) = LocallyCompacted(h)
BY SameMessages DEF LocallyCompacted, MessagesOf

-----------------------------------------------------------------------------
(* Compaction. *)

\* The messages a local compaction keeps are the newest.
LEMMA WithinRoomIsSuffix ==
    ASSUME NEW E, NEW users \in Seq(E)
    PROVE  \E k \in 0..Len(users) : WithinRoom(users) = SubSeq(users, k + 1, Len(users))
<1> DEFINE dropped == {n \in DOMAIN users : TokensAfter(users, n) >= Room}
<1>1. dropped \subseteq 1..Len(users) /\ Len(users) \in Nat
  OBVIOUS
<1>2. IsFiniteSet(1..Len(users)) /\ Cardinality(1..Len(users)) = Len(users)
  <2>1. 1 \in Int /\ Len(users) \in Int
    BY <1>1
  <2>2. Cardinality(1..Len(users)) = IF 1 > Len(users) THEN 0 ELSE Len(users) - 1 + 1
    BY <2>1, FS_Interval, Zenon
  <2> QED  BY <1>1, <2>1, <2>2, FS_Interval
<1> HIDE DEF dropped
<1>3. Cardinality(dropped) \in Nat /\ Cardinality(dropped) <= Len(users)
  <2>1. IsFiniteSet(dropped) /\ Cardinality(dropped) <= Cardinality(1..Len(users))
    BY <1>1, <1>2, FS_Subset
  <2> QED  BY <1>2, <2>1, FS_CardinalityType
<1>4. WithinRoom(users) = SubSeq(users, Cardinality(dropped) + 1, Len(users))
  BY DEF WithinRoom, dropped
<1> DEFINE k == Cardinality(dropped)
<1>5. k \in 0..Len(users)
  BY <1>1, <1>3
<1>6. WithinRoom(users) = SubSeq(users, k + 1, Len(users))
  BY <1>4
<1> HIDE DEF k
<1> QED  BY <1>5, <1>6

\* So it makes of a history a context, messages of the user and a summary,
LEMMA WithinRoomType ==
    ASSUME NEW h \in Seq(Items)
    PROVE  WithinRoom(Keep(h, UserMessages)) \in Seq(Items \cap UserMessages)
<1> DEFINE users == Keep(h, UserMessages)
<1>1. users \in Seq(Items \cap UserMessages)
  BY KeepType
<1> HIDE DEF users
<1>2. PICK k \in 0..Len(users) : WithinRoom(users) = SubSeq(users, k + 1, Len(users))
  BY <1>1, WithinRoomIsSuffix
<1>3. SubSeq(users, k + 1, Len(users)) \in Seq(Items \cap UserMessages)
  BY <1>1
<1> QED  BY <1>2, <1>3 DEF users

\* and whatever the server keeps, a compacted history is a history.
LEMMA CompactedTypes ==
    ASSUME NEW h \in Seq(Items), NEW kept
    PROVE  /\ LocallyCompacted(h) \in Seq(Items)
           /\ RemotelyCompacted(h, kept) \in Seq(Items)
<1>1. LocallyCompacted(h) \in Seq(Items)
  <2>1. /\ WithinRoom(Keep(h, UserMessages)) \in Seq(Items)
        /\ <<Context>> \in Seq(Items) /\ <<Summary>> \in Seq(Items)
    BY WithinRoomType, ItemTypes
  <2> QED  BY <2>1 DEF LocallyCompacted
<1>2. RemotelyCompacted(h, kept) \in Seq(Items)
  <2> DEFINE users == Keep(h, kept)
  <2>1. users \in Seq(Items \cap kept)
    BY KeepType
  <2>2. users \in Seq(Items) /\ Context \in Items /\ Opaque \in Items
    BY <2>1, ItemTypes
  <2>3. RemotelyCompacted(h, kept) = IF users = <<>> THEN <<Opaque, Context>>
                                     ELSE Front(users) \o <<Context, Last(users), Opaque>>
    BY DEF RemotelyCompacted
  <2> HIDE DEF users
  <2>4. <<Opaque, Context>> \in Seq(Items)
    BY <2>2
  <2>5. users # <<>> => Front(users) \in Seq(Items) /\ Last(users) \in Items
    BY <2>2 DEF Front, Last
  <2>6. users # <<>> => <<Context, Last(users), Opaque>> \in Seq(Items)
    BY <2>2, <2>5
  <2> QED  BY <2>3, <2>4, <2>5, <2>6
<1> QED  BY <1>1, <1>2

\* Putting an item back behind a compacted history.
LEMMA PutBack ==
    ASSUME NEW E, NEW g \in Seq(E), NEW i \in E, NEW b \in BOOLEAN
    PROVE  /\ (g \o IF b THEN <<i>> ELSE <<>>) \in Seq(E)
           /\ (g \o IF b THEN <<i>> ELSE <<>>) = IF b THEN Append(g, i) ELSE g
<1>1. g \o <<i>> = Append(g, i) /\ g \o <<>> = g
  OBVIOUS
<1> QED  BY <1>1

-----------------------------------------------------------------------------
(* The replay. *)

\* A step of the replay makes a history of a history.
LEMMA ReplayItemType ==
    ASSUME NEW h \in Seq(Items), NEW e \in Entries
    PROVE  ReplayItem(h, e) \in Seq(Items)
<1>1. CASE e \in Items
  <2>1. e.kind \notin {"compacted", "rollback"}
    BY <1>1 DEF Items
  <2>2. ReplayItem(h, e) = Append(h, e)
    BY <2>1 DEF ReplayItem
  <2> QED  BY <1>1, <2>2
<1>2. CASE e \in [kind : {"compacted"}, replacement : Seq(Items) \cup {None}]
  <2>1. e.kind = "compacted" /\ e.replacement \in Seq(Items) \cup {None}
    BY <1>2
  <2>2. ReplayItem(h, e) = IF e.replacement = None THEN LocallyCompacted(h) ELSE e.replacement
    BY <2>1 DEF ReplayItem
  <2> QED  BY <2>1, <2>2, CompactedTypes
<1>3. CASE e \in [kind : {"rollback"}, turns : Nat \ {0}]
  <2>1. e.kind = "rollback" /\ e.turns \in Nat \ {0}
    BY <1>3
  <2>2. ReplayItem(h, e) = DropLastTurns(h, e.turns)
    BY <2>1 DEF ReplayItem
  <2> QED  BY <2>1, <2>2, DropType
<1> QED  BY <1>1, <1>2, <1>3 DEF Entries

ReplayOf(f, s) ==
    f = [n \in 0..Len(s) |-> IF n = 0 THEN <<>> ELSE ReplayItem(f[n - 1], s[n])]

ReplayIs(f, s) ==
    /\ f \in [0..Len(s) -> Seq(Items)]
    /\ Replay(s) = f[Len(s)]
    /\ f[0] = <<>>
    /\ \A n \in 1..Len(s) : f[n] = ReplayItem(f[n - 1], s[n])

\* The recursive definition of Replay, unfolded.
LEMMA ReplayUnfold ==
    ASSUME NEW s \in Seq(Entries)
    PROVE  \E f : ReplayIs(f, s)
<1> DEFINE N == Len(s)
           X == Seq(Items)
           step == [n \in 1..N |-> [x \in X |-> ReplayItem(x, s[n])]]
           f == CHOOSE g : ReplayOf(g, s)
<1>1. N \in Nat /\ <<>> \in X
  OBVIOUS
<1>2. step \in [1..N -> [X -> X]]
  <2>1. \A n \in 1..N : s[n] \in Entries
    OBVIOUS
  <2>2. \A n \in 1..N, x \in X : ReplayItem(x, s[n]) \in X
    BY <2>1, ReplayItemType
  <2> HIDE DEF X
  <2> QED  BY <2>2
<1>3. PICK h : IsRecursion(h, N, X, <<>>, step)
  <2> HIDE DEF N, X, step
  <2> QED  BY <1>1, <1>2, RecursionExists
<1>4. /\ h \in [0..N -> X] /\ h[0] = <<>>
      /\ \A n \in 1..N : h[n] = ReplayItem(h[n - 1], s[n])
  <2>1. h \in [0..N -> X] /\ h[0] = <<>> /\ \A n \in 1..N : h[n] = step[n][h[n - 1]]
    BY <1>3 DEF IsRecursion
  <2>2. \A n \in 1..N : h[n - 1] \in X
    <3> HIDE DEF X, step
    <3> QED  BY <1>1, <2>1
  <2> HIDE DEF X
  <2> QED  BY <2>1, <2>2
<1>5. ReplayOf(h, s)
  <2> HIDE DEF X, step
  <2> QED  BY <1>1, <1>4 DEF ReplayOf
<1>6. ReplayOf(f, s)
  <2> HIDE DEF X, step
  <2> QED  BY <1>5
<1>7. Replay(s) = f[N]
  BY DEF Replay, ReplayOf
<1>8. f[0] = <<>> /\ \A n \in 1..N : f[n] = ReplayItem(f[n - 1], s[n])
  <2> HIDE DEF f, X, step
  <2>1. \A n \in 0..N : f[n] = IF n = 0 THEN <<>> ELSE ReplayItem(f[n - 1], s[n])
    BY <1>6, Zenon DEF ReplayOf
  <2> QED  BY <1>1, <2>1
<1>9. Alike(f, h, N)
  <2> HIDE DEF f, X, step
  <2>1. StepAlike(f, h, N)
    BY <1>4, <1>8 DEF StepAlike
  <2> QED  BY <1>1, <2>1, RecursionUnique
<1>10. f \in [0..N -> X]
  <2> HIDE DEF f, X, step
  <2> QED  BY <1>1, <1>4, <1>6, <1>9 DEF ReplayOf, Alike
<1> QED  BY <1>7, <1>8, <1>10 DEF ReplayIs

\* The replay of a rollout is a history.
LEMMA ReplayType ==
    ASSUME NEW s \in Seq(Entries)
    PROVE  Replay(s) \in Seq(Items)
<1>1. PICK f : ReplayIs(f, s)
  BY ReplayUnfold
<1>2. f \in [0..Len(s) -> Seq(Items)] /\ Len(s) \in 0..Len(s)
  BY <1>1 DEF ReplayIs
<1>3. Replay(s) = f[Len(s)]
  BY <1>1 DEF ReplayIs
<1> QED  BY <1>2, <1>3, Zenon

\* The replay of a new rollout has nothing.
LEMMA ReplayEmpty == Replay(<<>>) = <<>>
<1> DEFINE s == <<>>
<1>1. s \in Seq(Entries) /\ Len(s) = 0
  OBVIOUS
<1> HIDE DEF s
<1>2. PICK f : ReplayIs(f, s)
  BY <1>1, ReplayUnfold
<1>3. Replay(s) = <<>>
  BY <1>1, <1>2 DEF ReplayIs
<1> QED  BY <1>3 DEF s

\* One entry more is one step of the replay more.
LEMMA ReplayAppend ==
    ASSUME NEW s \in Seq(Entries), NEW e \in Entries
    PROVE  Replay(Append(s, e)) = ReplayItem(Replay(s), e)
<1> DEFINE t == Append(s, e)
           N == Len(s)
<1>1. /\ t \in Seq(Entries) /\ Len(t) = N + 1 /\ N \in Nat
      /\ \A n \in 1..N : t[n] = s[n]
      /\ t[N + 1] = e
  OBVIOUS
<1> HIDE DEF t
<1>2. PICK f : ReplayIs(f, s)
  BY ReplayUnfold
<1>3. PICK g : ReplayIs(g, t)
  BY <1>1, ReplayUnfold
<1>4. StepAlike(f, g, N)
  BY <1>1, <1>2, <1>3 DEF StepAlike, ReplayIs
<1>5. f[N] = g[N]
  BY <1>1, <1>4, RecursionUnique DEF Alike
<1>6. N + 1 \in 1..(N + 1) /\ (N + 1) - 1 = N
  BY <1>1
<1>7. g[N + 1] = ReplayItem(g[N], e)
  BY <1>1, <1>3, <1>6 DEF ReplayIs
<1>8. Replay(t) = ReplayItem(Replay(s), e)
  BY <1>1, <1>2, <1>3, <1>5, <1>7 DEF ReplayIs
<1> QED  BY <1>8 DEF t, N

-----------------------------------------------------------------------------
(* Types and control of a session. *)

Turns == Nat \ {0}

LoopPCs == {"starting", "idle", "seeding", "switched", "spawn", "marking", "rolling",
            "rolledback"}
TurnPCs == {"idle", "presampling", "prompted", "run", "compact", "requested", "drafted",
            "replacing", "done"}
PCs == LoopPCs \cup TurnPCs \cup {"leftover"}

SessionType ==
    /\ history \in Seq(Items) /\ log \in Seq(Entries)
    /\ remote \in BOOLEAN /\ active \in BOOLEAN
    /\ at \in [Callers -> PCs]
    /\ at["loop"] \in LoopPCs /\ at["turn"] \in TurnPCs /\ at["tail"] \in {"idle", "leftover"}
    /\ hold \in [Callers -> Entries \cup {None}]
    /\ copy \in [Callers -> Seq(Items) \cup {None}]
    /\ DOMAIN arg = Callers
    /\ prompt \in Inputs \cup {None}
    /\ inflight \subseteq Calls

Control ==
    /\ at["tail"] = "leftover" => arg["tail"] \in Inputs
    /\ copy["loop"] # None <=> at["loop"] = "rolling"
    /\ copy["turn"] # None <=> at["turn"] = "replacing"
    /\ copy["tail"] = None
    /\ at["loop"] = "rolling" => arg["loop"] \in Turns /\ hold["loop"] = None /\ ~active
    /\ at["turn"] = "replacing" => hold["turn"] = None
    /\ ~active => at["turn"] = "idle" /\ hold["turn"] = None
    /\ inflight # {} => at["turn"] = "run"
    /\ at["turn"] = "presampling" => prompt \in Inputs

SessionInv == SessionType /\ Control

-----------------------------------------------------------------------------
(* What the history and the rollout have to do with each other. *)

\* As long as no task has got in between the two steps of another, at most one of
\* them is midway, and the rollout lacks what that one holds.
Sync ==
    /\ (\A c \in Callers : hold[c] = None) => Same(Replay(log), history)
    /\ \A c \in Callers : hold[c] # None =>
          ~Midway(c) /\ Same(ReplayItem(Replay(log), hold[c]), history)
    /\ \A c \in Callers : copy[c] # None => ~Midway(c)
    /\ copy["loop"] # None => copy["loop"] = DropLastTurns(history, arg["loop"])
    /\ copy["turn"] # None /\ ~remote => Same(copy["turn"], LocallyCompacted(history))

SyncInv == Alive /\ ~raced => Sync

-----------------------------------------------------------------------------
(* What the steps of the session do to the rollout. *)

\* What is in the file is the beginning of the rollout.
LEMMA FileOfLog ==
    ASSUME IInv, NEW E, log \in Seq(E)
    PROVE  file \in Seq(E) /\ Len(file) \in 0..Len(log) /\ file = SubSeq(log, 1, Len(file))
<1>1. IsSeq(file) /\ \A i \in 1..Len(file) : file[i] = log[i]
  BY DEF IInv, TypeInv, ContentInv
<1>2. Len(file) \in Nat /\ Len(log) \in Nat /\ Len(file) <= Len(log)
  <2>1. /\ Len(file) \in Nat /\ Len(writing) \in Nat /\ Len(buffered) \in Nat
        /\ Len(log) \in Nat
    BY SeqFacts DEF IInv, TypeInv
  <2>2. Len(file) + Len(writing) + Len(buffered) <= Len(log)
    BY DEF IInv, ChannelInv, Taken
  <2> QED  BY <2>1, <2>2
<1>3. PICK T : file \in Seq(T)
  BY <1>1 DEF IsSeq
<1>4. file = [i \in 1..Len(file) |-> log[i]]
  BY <1>1, <1>3
<1>5. SubSeq(log, 1, Len(file)) = [i \in 1..Len(file) |-> log[i]]
  BY <1>2
<1>6. SubSeq(log, 1, Len(file)) \in Seq(E)
  BY <1>2
<1> QED  BY <1>2, <1>4, <1>5, <1>6

\* What the recorder has accepted stays as it is, or is cut back to the file.
LogKept == log' = log /\ writer' = writer
LogCut == log' = file

\* record_items: the rollout has the entry, if the writer lives.
LEMMA RecordItemsLog ==
    ASSUME NEW e, RecordItems(e)
    PROVE  /\ Alive => log' = Append(log, e)
           /\ ~Alive => log' = log
           /\ writer' = writer
BY DEF RecordItems

\* A step of the writer leaves the rollout, or cuts it back to the file when the
\* writer ends.
LEMMA WriterLog == Writer => \/ log' = log /\ (Alive' => Alive)
                             \/ LogCut /\ ~Alive'
BY DEF Writer, ReceiveItems, ReceivePersist, ReceiveFlush, OpenFile, WriteItem, WriteFails,
       FlushFails, End, Lose, Alive, LogCut, Receive

\* The steps of the session but for RecordHeld, Writer and CrashAndResume.
LEMMA SessionLog ==
    ASSUME Loop \/ Turn \/ RecordLeftover \/ \E c \in Callers : AwaitRecorder(c)
    PROVE  LogKept
BY DEF Loop, Turn, SeedContext, SwitchModel, StartTurn, StartCompact, Interrupt,
       BeginRollback, EndRollback, RecordPrompt, PollInput, RecordCall, RecordOutput,
       RetryRequest, AutoCompact, RequestSummary, RecordDraft, CopyLocally, CopyRemotely,
       ReplaceHistory, FinishTurn, RecordLeftover, AwaitRecorder, Request,
       DropTurn, Forget, recorder, LogKept

-----------------------------------------------------------------------------
(* The invariant of the session. *)

\* What the tasks record are entries of the rollout.
LEMMA NoneIsNothing ==
    /\ None \notin Entries /\ None \notin Seq(Items)
    /\ Items \subseteq Entries
    /\ \A n \in Turns : RolledBack(n) \in Entries
    /\ \A r \in Seq(Items) \cup {None} : Compacted(r) \in Entries
BY NoneAssumption DEF Entries, RolledBack, Compacted, Turns

\* A new session.
LEMMA InitSession == Init => SessionInv
<1> SUFFICES ASSUME Init PROVE SessionInv  OBVIOUS
<1> USE CallersAssumption
<1>1. history \in Seq(Items) /\ log \in Seq(Entries)
  BY ItemTypes DEF Init, RecorderInit
<1>2. Context \in Entries
  BY ItemTypes, NoneIsNothing
<1>3. SessionType
  BY <1>1, <1>2 DEF Init, SessionType, PCs, LoopPCs, TurnPCs
<1>4. Control
  BY DEF Init, Control
<1> QED  BY <1>3, <1>4 DEF SessionInv

\* A caller that puts an item into the history holds an entry of the rollout.
LEMMA LoopSession == SessionInv /\ Loop => SessionInv'
<1> SUFFICES ASSUME SessionInv, Loop PROVE SessionInv'  OBVIOUS
<1> USE CallersAssumption DEF SessionInv
<1>0. log' \in Seq(Entries)
  BY SessionLog DEF LogKept, SessionType
<1>1. CASE SeedContext
  <2>1. history' \in Seq(Items) /\ Context \in Entries
    BY <1>1, ItemTypes, NoneIsNothing DEF SeedContext, PutInHistory, SessionType
  <2>2. SessionType'
    BY <1>0, <1>1, <2>1 DEF SeedContext, PutInHistory, SessionType, PCs, LoopPCs, TurnPCs
  <2>3. Control'
    BY <1>1 DEF SeedContext, PutInHistory, SessionType, Control, At, Free
  <2> QED  BY <2>2, <2>3
<1>2. ASSUME NEW u \in Inputs, StartTurn(u) PROVE SessionInv'
  <2>1. SessionType'
    BY <1>0, <1>2 DEF StartTurn, SessionType, PCs, LoopPCs, TurnPCs
  <2>2. Control'
    BY <1>2 DEF StartTurn, SessionType, Control, Free
  <2> QED  BY <2>1, <2>2
<1>3. CASE StartCompact
  <2>1. SessionType'
    BY <1>0, <1>3 DEF StartCompact, DropTurn, SessionType, PCs, LoopPCs, TurnPCs
  <2>2. Control'
    BY <1>3 DEF StartCompact, DropTurn, SessionType, Control, At, Free
  <2> QED  BY <2>1, <2>2
<1>4. CASE Interrupt
  <2>1. history' \in Seq(Items) /\ Marker \in Entries
    BY <1>4, ItemTypes, NoneIsNothing DEF Interrupt, SessionType
  <2>2. SessionType'
    BY <1>0, <1>4, <2>1 DEF Interrupt, DropTurn, SessionType, PCs, LoopPCs, TurnPCs
  <2>3. Control'
    BY <1>4 DEF Interrupt, DropTurn, SessionType, Control, At, Free
  <2> QED  BY <2>2, <2>3
<1>5. ASSUME NEW n \in 1..2, BeginRollback(n) PROVE SessionInv'
  <2>1. DropLastTurns(history, n) \in Seq(Items) /\ n \in Turns
    BY DropType DEF SessionType, Turns
  <2>2. SessionType'
    BY <1>0, <1>5, <2>1 DEF BeginRollback, SessionType, PCs, LoopPCs, TurnPCs
  <2>3. Control'
    BY <1>5, <2>1, NoneIsNothing DEF BeginRollback, SessionType, Control, At, Free
  <2> QED  BY <2>2, <2>3
<1>6. CASE EndRollback
  <2>1. copy["loop"] \in Seq(Items) /\ RolledBack(arg["loop"]) \in Entries
    BY <1>6, NoneIsNothing DEF EndRollback, At, SessionType, Control
  <2>2. SessionType'
    BY <1>0, <1>6, <2>1 DEF EndRollback, SessionType, PCs, LoopPCs, TurnPCs
  <2>3. Control'
    BY <1>6 DEF EndRollback, SessionType, Control, At, Free
  <2> QED  BY <2>2, <2>3
<1>7. CASE SwitchModel
  <2>1. history' \in Seq(Items) /\ Switch \in Entries
    BY <1>7, ItemTypes, NoneIsNothing DEF SwitchModel, PutInHistory, SessionType
  <2>2. SessionType'
    BY <1>0, <1>7, <2>1 DEF SwitchModel, PutInHistory, SessionType, PCs, LoopPCs, TurnPCs
  <2>3. Control'
    BY <1>7 DEF SwitchModel, PutInHistory, SessionType, Control, Free
  <2> QED  BY <2>2, <2>3
<1> QED  BY <1>1, <1>2, <1>3, <1>4, <1>5, <1>6, <1>7 DEF Loop

\* What a compaction will put back is a history: the compacted one, and perhaps the
\* change of the model.
LEMMA LocalCopy ==
    ASSUME SessionInv, CopyLocally
    PROVE  \E made \in Seq(Items) :
              /\ copy' = [copy EXCEPT !["turn"] = made]
              /\ Same(made, LocallyCompacted(history))
<1> DEFINE g == LocallyCompacted(history)
           made == g \o IF arg["turn"] = Switch THEN <<Reappended>> ELSE <<>>
<1>1. g \in Seq(Items) /\ Reappended \in Items /\ Reappended \in Hidden
  BY CompactedTypes, ItemTypes DEF SessionInv, SessionType, Hidden
<1>2. copy' = [copy EXCEPT !["turn"] = made]
  BY DEF CopyLocally
<1> HIDE DEF g
<1>3. made \in Seq(Items) /\ made = IF arg["turn"] = Switch THEN Append(g, Reappended) ELSE g
  <2> DEFINE b == arg["turn"] = Switch
  <2>1. b \in BOOLEAN  OBVIOUS
  <2> HIDE DEF b
  <2>2. /\ (g \o IF b THEN <<Reappended>> ELSE <<>>) \in Seq(Items)
        /\ (g \o IF b THEN <<Reappended>> ELSE <<>>) = IF b THEN Append(g, Reappended) ELSE g
    BY <1>1, <2>1, PutBack
  <2> QED  BY <2>2 DEF b
<1> HIDE DEF made
<1>4. Same(made, g)
  BY <1>1, <1>3, SameHidden DEF Same
<1> QED  BY <1>2, <1>3, <1>4 DEF g

LEMMA RemoteCopy ==
    ASSUME SessionInv, CopyRemotely
    PROVE  \E made \in Seq(Items) : copy' = [copy EXCEPT !["turn"] = made]
<1>1. PICK kept :
         copy' = [copy EXCEPT !["turn"] =
                    RemotelyCompacted(history, kept)
                    \o IF TrailingSwitch(history) THEN <<Switch>> ELSE <<>>]
  BY DEF CopyRemotely
<1> DEFINE g == RemotelyCompacted(history, kept)
           b == TrailingSwitch(history)
<1>2. g \in Seq(Items) /\ Switch \in Items /\ b \in BOOLEAN
  BY CompactedTypes, ItemTypes DEF SessionInv, SessionType, TrailingSwitch
<1> HIDE DEF g, b
<1>3. (g \o IF b THEN <<Switch>> ELSE <<>>) \in Seq(Items)
  BY <1>2, PutBack
<1> QED  BY <1>1, <1>3 DEF g, b

\* So does the running turn, and what it leaves to on_task_finished.
LEMMA TurnSession == SessionInv /\ (Turn \/ RecordLeftover) => SessionInv'
<1> SUFFICES ASSUME SessionInv, Turn \/ RecordLeftover PROVE SessionInv'  OBVIOUS
<1> USE CallersAssumption DEF SessionInv
<1>0. log' \in Seq(Entries)
  BY SessionLog DEF LogKept, SessionType
<1>1. ASSUME NEW u \in Inputs, PollInput(u) PROVE SessionInv'
  <2>1. history' \in Seq(Items) /\ Message(u) \in Entries
    BY <1>1, ItemTypes, NoneIsNothing DEF PollInput, PutInHistory, SessionType
  <2>2. SessionType'
    BY <1>0, <1>1, <2>1 DEF PollInput, PutInHistory, SessionType, PCs, LoopPCs, TurnPCs
  <2>3. Control'
    BY <1>1 DEF PollInput, PutInHistory, SessionType, Control, At, Free
  <2> QED  BY <2>2, <2>3
<1>2. ASSUME NEW c \in Calls, RecordCall(c) PROVE SessionInv'
  <2>1. history' \in Seq(Items) /\ Call(c) \in Entries
    BY <1>2, ItemTypes, NoneIsNothing DEF RecordCall, PutInHistory, SessionType
  <2>2. SessionType'
    BY <1>0, <1>2, <2>1 DEF RecordCall, PutInHistory, SessionType, PCs, LoopPCs, TurnPCs
  <2>3. Control'
    BY <1>2 DEF RecordCall, PutInHistory, SessionType, Control, At, Free
  <2> QED  BY <2>2, <2>3
<1>3. ASSUME NEW c \in Calls, RecordOutput(c) PROVE SessionInv'
  <2>1. history' \in Seq(Items) /\ Output(c) \in Entries
    BY <1>3, ItemTypes, NoneIsNothing DEF RecordOutput, PutInHistory, SessionType
  <2>2. SessionType'
    BY <1>0, <1>3, <2>1 DEF RecordOutput, PutInHistory, SessionType, PCs, LoopPCs, TurnPCs
  <2>3. Control'
    BY <1>3 DEF RecordOutput, PutInHistory, SessionType, Control, At, Free
  <2> QED  BY <2>2, <2>3
<1>4. CASE RetryRequest \/ AutoCompact \/ RequestSummary
  <2>1. SessionType'
    BY <1>0, <1>4
       DEF RetryRequest, AutoCompact, RequestSummary, SessionType, PCs, LoopPCs, TurnPCs
  <2>2. Control'
    BY <1>4 DEF RetryRequest, AutoCompact, RequestSummary, SessionType, Control, At, Free
  <2> QED  BY <2>1, <2>2
<1>5. CASE RecordDraft
  <2>1. history' \in Seq(Items)
    BY <1>5, ItemTypes DEF RecordDraft, SessionType
  <2>2. SessionType'
    BY <1>0, <1>5, <2>1 DEF RecordDraft, SessionType, PCs, LoopPCs, TurnPCs
  <2>3. Control'
    BY <1>5 DEF RecordDraft, SessionType, Control, At, Free
  <2> QED  BY <2>2, <2>3
<1>6. CASE CopyLocally \/ CopyRemotely
  <2>1. PICK made \in Seq(Items) : copy' = [copy EXCEPT !["turn"] = made]
    BY <1>6, LocalCopy, RemoteCopy
  <2>2. SessionType'
    BY <1>0, <1>6, <2>1
       DEF CopyLocally, CopyRemotely, SessionType, PCs, LoopPCs, TurnPCs
  <2>3. Control'
    BY <1>6, <2>1, NoneIsNothing
       DEF CopyLocally, CopyRemotely, SessionType, Control, At, Free
  <2> QED  BY <2>2, <2>3
<1>7. CASE ReplaceHistory
  <2>1. copy["turn"] \in Seq(Items)
    BY <1>7 DEF ReplaceHistory, At, SessionType, Control
  <2>2. Compacted(IF remote THEN copy["turn"] ELSE None) \in Entries
    BY <2>1, NoneIsNothing
  <2>3. SessionType'
    BY <1>0, <1>7, <2>1, <2>2
       DEF ReplaceHistory, SessionType, PCs, LoopPCs, TurnPCs
  <2>4. Control'
    BY <1>7 DEF ReplaceHistory, SessionType, Control, At, Free
  <2> QED  BY <2>3, <2>4
<1>8. CASE FinishTurn
  <2>1. SessionType'
    <3>1. /\ UNCHANGED <<history, remote, hold>> /\ active' = FALSE /\ inflight' = {}
          /\ prompt' = None
          /\ copy' = [copy EXCEPT !["turn"] = None]
      BY <1>8 DEF FinishTurn
    <3>2. \/ /\ at' = [at EXCEPT !["turn"] = "idle"]
             /\ arg' = [arg EXCEPT !["turn"] = None]
          \/ /\ at' = [at EXCEPT !["turn"] = "idle", !["tail"] = "leftover"]
             /\ \E u \in Inputs : arg' = [arg EXCEPT !["turn"] = None, !["tail"] = u]
      BY <1>8 DEF FinishTurn
    <3>3. /\ at' \in [Callers -> PCs] /\ DOMAIN arg' = Callers
          /\ at'["loop"] \in LoopPCs /\ at'["turn"] \in TurnPCs
          /\ at'["tail"] \in {"idle", "leftover"}
      BY <3>2 DEF SessionType, PCs, LoopPCs, TurnPCs
    <3> QED  BY <1>0, <3>1, <3>3 DEF SessionType
  <2>2. Control'
    BY <1>8 DEF FinishTurn, SessionType, Control, At, Free
  <2> QED  BY <2>1, <2>2
<1>9. CASE RecordLeftover
  <2>1. history' \in Seq(Items) /\ Message(arg["tail"]) \in Entries
    BY <1>9, ItemTypes, NoneIsNothing
       DEF RecordLeftover, PutInHistory, At, SessionType, Control
  <2>2. SessionType'
    BY <1>0, <1>9, <2>1 DEF RecordLeftover, PutInHistory, SessionType, PCs, LoopPCs, TurnPCs
  <2>3. Control'
    BY <1>9 DEF RecordLeftover, PutInHistory, SessionType, Control, At, Free
  <2> QED  BY <2>2, <2>3
<1>10. CASE RecordPrompt
  <2>1. history' \in Seq(Items) /\ Message(prompt) \in Entries
    BY <1>10, ItemTypes, NoneIsNothing
       DEF RecordPrompt, PutInHistory, At, SessionType, Control
  <2>2. SessionType'
    BY <1>0, <1>10, <2>1 DEF RecordPrompt, PutInHistory, SessionType, PCs, LoopPCs, TurnPCs
  <2>3. Control'
    BY <1>10 DEF RecordPrompt, PutInHistory, SessionType, Control, At, Free
  <2> QED  BY <2>2, <2>3
<1> QED
  BY <1>1, <1>2, <1>3, <1>4, <1>5, <1>6, <1>7, <1>8, <1>9, <1>10 DEF Turn

\* The second halves of the steps, the writer, a crash.
LEMMA RestSession ==
    ASSUME IInv, SessionInv,
           \/ \E c \in Callers : RecordHeld(c) \/ AwaitRecorder(c)
           \/ Writer /\ UNCHANGED session
           \/ CrashAndResume
    PROVE  SessionInv'
<1> USE CallersAssumption DEF SessionInv
<1>1. ASSUME NEW c \in Callers, RecordHeld(c) PROVE SessionInv'
  <2>1. log' \in Seq(Entries)
    <3>1. hold[c] \in Entries /\ log \in Seq(Entries)
      BY <1>1 DEF RecordHeld, SessionType
    <3> QED  BY <3>1, <1>1, RecordItemsLog DEF RecordHeld
  <2>2. SessionType'
    BY <1>1, <2>1 DEF RecordHeld, SessionType
  <2>3. Control'
    BY <1>1 DEF RecordHeld, SessionType, Control
  <2> QED  BY <2>2, <2>3
<1>2. ASSUME NEW c \in Callers, AwaitRecorder(c) PROVE SessionInv'
  <2>1. log' \in Seq(Entries)
    BY <1>2, SessionLog DEF LogKept, SessionType
  <2>2. SessionType'
    BY <1>2, <2>1 DEF AwaitRecorder, AfterAck, SessionType, PCs, LoopPCs, TurnPCs
  <2>3. Control'
    BY <1>2 DEF AwaitRecorder, AfterAck, SessionType, Control, PCs, LoopPCs, TurnPCs, Free
  <2> QED  BY <2>2, <2>3
<1>3. CASE Writer /\ UNCHANGED session
  <2>1. log' \in Seq(Entries)
    BY <1>3, WriterLog, FileOfLog DEF LogCut, SessionType
  <2>2. SessionType'
    BY <1>3, <2>1 DEF session, SessionType
  <2>3. Control'
    BY <1>3 DEF session, Control
  <2> QED  BY <2>2, <2>3
<1>4. CASE CrashAndResume
  <2>1. log' = file /\ file \in Seq(Entries)
    BY <1>4, FileOfLog DEF CrashAndResume, Reopen, Lose, SessionType
  <2>2. history' \in Seq(Items)
    BY <1>4, <2>1, ReplayType DEF CrashAndResume
  <2>3. SessionType'
    BY <1>4, <2>1, <2>2 DEF CrashAndResume, SessionType, PCs, LoopPCs, TurnPCs
  <2>4. Control'
    BY <1>4 DEF CrashAndResume, Control
  <2> QED  BY <2>3, <2>4
<1> QED  BY <1>1, <1>2, <1>3, <1>4

\* Every step keeps the types and the control.
LEMMA StepSession == IInv /\ SessionInv /\ [Next]_vars => SessionInv'
<1> SUFFICES ASSUME IInv, SessionInv, [Next]_vars PROVE SessionInv'  OBVIOUS
<1>1. CASE UNCHANGED vars
  BY <1>1 DEF vars, recorder, session, SessionInv, SessionType, Control
<1>2. CASE Next
  BY <1>2, LoopSession, TurnSession, RestSession DEF Next
<1> QED  BY <1>1, <1>2

-----------------------------------------------------------------------------
(* The rollout lacks what the task that is midway holds. *)

\* What reconstruct_history_from_rollout makes of an item, of a rollback and of the
\* two kinds of compaction.
LEMMA ReplayCases ==
    /\ \A h, i : i \in Items => ReplayItem(h, i) = Append(h, i)
    /\ \A h, n : ReplayItem(h, RolledBack(n)) = DropLastTurns(h, n)
    /\ \A h : ReplayItem(h, Compacted(None)) = LocallyCompacted(h)
    /\ \A h, r : r \in Seq(Items) => ReplayItem(h, Compacted(r)) = r
<1>1. ASSUME NEW h, NEW i \in Items PROVE ReplayItem(h, i) = Append(h, i)
  <2>1. i.kind \notin {"compacted", "rollback"}
    BY DEF Items
  <2> QED  BY <2>1 DEF ReplayItem
<1>2. ASSUME NEW h, NEW n PROVE ReplayItem(h, RolledBack(n)) = DropLastTurns(h, n)
  <2>1. RolledBack(n).kind = "rollback" /\ RolledBack(n).turns = n
    BY DEF RolledBack
  <2> QED  BY <2>1 DEF ReplayItem
<1>3. ASSUME NEW h, NEW r
      PROVE  ReplayItem(h, Compacted(r)) = IF r = None THEN LocallyCompacted(h) ELSE r
  <2>1. Compacted(r).kind = "compacted" /\ Compacted(r).replacement = r
    BY DEF Compacted
  <2> QED  BY <2>1 DEF ReplayItem
<1> QED  BY <1>1, <1>2, <1>3, NoneAssumption

\* A task that puts an item into the history while the others are not midway.
LEMMA PutSync ==
    ASSUME SessionInv, SyncInv, LogKept, NEW c \in Callers, NEW i \in Items,
           hold[c] = None, copy[c] = None, PutInHistory(c, i), UNCHANGED copy
    PROVE  SyncInv'
<1> SUFFICES ASSUME Alive', ~raced' PROVE Sync'
  BY DEF SyncInv
<1> USE CallersAssumption
<1>1. Sync /\ ~Midway(c)
  BY DEF PutInHistory, Race, SyncInv, LogKept, Alive
<1>2. Replay(log) \in Seq(Items) /\ history \in Seq(Items)
  BY ReplayType DEF SessionInv, SessionType
<1>3. \A d \in Callers : hold[d] = None /\ copy[d] = None
  BY <1>1 DEF Midway
<1>4. Same(Replay(log), history)
  BY <1>1, <1>3 DEF Sync
<1>5. Same(ReplayItem(Replay(log), i), Append(history, i))
  <2>1. Same(Append(Replay(log), i), Append(history, i))
    BY <1>2, <1>4, SameAppend
  <2>2. ReplayItem(Replay(log), i) = Append(Replay(log), i)
    BY ReplayCases
  <2> QED  BY <2>1, <2>2
<1>6. \A d \in Callers : hold'[d] = IF d = c THEN i ELSE None
  BY <1>3 DEF PutInHistory, SessionInv, SessionType
<1>7. i # None
  BY NoneIsNothing
<1>8. ~Midway(c)' /\ \A d \in Callers : copy'[d] = None
  BY <1>3, <1>6 DEF Midway
<1>9. log' = log /\ history' = Append(history, i)
  BY DEF LogKept, PutInHistory
<1> QED  BY <1>5, <1>6, <1>7, <1>8, <1>9 DEF Sync

\* A new session holds its context, which the rollout lacks.
LEMMA InitSync == Init => SyncInv
<1> SUFFICES ASSUME Init PROVE Sync
  BY DEF SyncInv
<1> USE CallersAssumption
<1>1. <<>> \in Seq(Entries) /\ <<>> \in Seq(Items) /\ log = <<>> /\ history = <<Context>>
      /\ <<Context>> = Append(<<>>, Context)
  BY DEF Init, RecorderInit
<1>2. ReplayItem(Replay(log), Context) = history
  BY <1>1, ReplayEmpty, ReplayCases, ItemTypes
<1>3. \A c \in Callers : /\ hold[c] = IF c = "loop" THEN Context ELSE None
                         /\ copy[c] = None
  BY DEF Init
<1>4. Context # None
  BY NoneIsNothing, ItemTypes
<1> QED  BY <1>2, <1>3, <1>4 DEF Sync, Midway, Same

\* The submission loop: seeding, a turn, a compaction, an interrupt, a rollback in
\* its two steps.
LEMMA LoopSync == SessionInv /\ SyncInv /\ Loop => SyncInv'
<1> SUFFICES ASSUME SessionInv, SyncInv, Loop PROVE SyncInv'
  OBVIOUS
<1> USE CallersAssumption
<1>0. LogKept
  BY SessionLog
<1>a. /\ DOMAIN hold = Callers /\ DOMAIN copy = Callers /\ DOMAIN arg = Callers
      /\ history \in Seq(Items) /\ Replay(log) \in Seq(Items)
  BY ReplayType DEF SessionInv, SessionType
<1>1. CASE SeedContext
  BY <1>0, <1>1, PutSync, ItemTypes DEF SeedContext, At, Free, SessionInv, Control
<1>2. ASSUME NEW u \in Inputs, StartTurn(u) PROVE SyncInv'
  <2>1. UNCHANGED <<log, writer, history, remote, hold, copy, arg, raced>>
    BY <1>0, <1>2 DEF StartTurn, LogKept, ghosts
  <2> QED  BY <2>1 DEF SyncInv, Sync, Midway, Alive
<1>3. CASE StartCompact
  <2> SUFFICES ASSUME Alive', ~raced' PROVE Sync'
    BY DEF SyncInv
  <2>1. Sync /\ hold["turn"] = None /\ UNCHANGED <<log, history, remote>>
    BY <1>0, <1>3 DEF StartCompact, SyncInv, LogKept, Alive
  <2>2. /\ hold' = [hold EXCEPT !["turn"] = None]
        /\ copy' = [copy EXCEPT !["turn"] = None]
    BY <1>3 DEF StartCompact, DropTurn
  <2>3. copy["loop"] = None /\ copy["tail"] = None
    BY <1>3 DEF StartCompact, SessionInv, Control
  <2>4. \A c \in Callers : hold'[c] = hold[c] /\ copy'[c] = None
    BY <1>a, <2>1, <2>2, <2>3
  <2>5. \A c \in Callers : Midway(c)' => Midway(c)
    BY <2>4 DEF Midway
  <2> QED  BY <2>1, <2>4, <2>5 DEF Sync
<1>4. CASE Interrupt
  <2> SUFFICES ASSUME Alive', ~raced' PROVE Sync'
    BY DEF SyncInv
  <2>1. /\ Sync /\ log' = log /\ history' = Append(history, Marker)
        /\ hold["turn"] = None /\ hold["tail"] = None /\ hold["loop"] = None
    BY <1>0, <1>4 DEF Interrupt, At, Free, SyncInv, LogKept, Alive
  <2>2. /\ hold' = [hold EXCEPT !["turn"] = None, !["loop"] = Marker]
        /\ copy' = [copy EXCEPT !["turn"] = None]
    BY <1>4 DEF Interrupt, DropTurn
  <2>3. copy["loop"] = None /\ copy["tail"] = None
    BY <1>4 DEF Interrupt, At, SessionInv, Control
  <2>4. \A c \in Callers : /\ hold'[c] = IF c = "loop" THEN Marker ELSE None
                           /\ copy'[c] = None
    BY <1>a, <2>1, <2>2, <2>3
  <2>5. Same(Replay(log), history)
    BY <2>1 DEF Sync
  <2>6. Same(ReplayItem(Replay(log), Marker), Append(history, Marker))
    <3>1. Marker \in Items
      BY ItemTypes
    <3>2. Same(Append(Replay(log), Marker), Append(history, Marker))
      BY <1>a, <2>5, <3>1, SameAppend
    <3>3. ReplayItem(Replay(log), Marker) = Append(Replay(log), Marker)
      BY <3>1, ReplayCases
    <3> QED  BY <3>2, <3>3
  <2>7. Marker # None
    BY NoneIsNothing, ItemTypes
  <2> QED  BY <2>1, <2>4, <2>6, <2>7 DEF Sync, Midway
<1>5. ASSUME NEW n \in 1..2, BeginRollback(n) PROVE SyncInv'
  <2> SUFFICES ASSUME Alive', ~raced' PROVE Sync'
    BY DEF SyncInv
  <2>1. /\ Sync /\ UNCHANGED <<log, history, hold>> /\ ~Midway("loop") /\ hold["loop"] = None
        /\ copy' = [copy EXCEPT !["loop"] = DropLastTurns(history, n)]
        /\ arg' = [arg EXCEPT !["loop"] = n]
    BY <1>0, <1>5 DEF BeginRollback, At, Free, Race, SyncInv, LogKept, Alive
  <2>2. /\ copy'["loop"] = DropLastTurns(history, n) /\ arg'["loop"] = n
        /\ \A c \in Callers \ {"loop"} : copy'[c] = None
        /\ \A c \in Callers : hold'[c] = None
    BY <1>a, <2>1 DEF Midway
  <2>3. Same(Replay(log), history)
    BY <2>1, <2>2 DEF Sync
  <2> QED  BY <2>1, <2>2, <2>3 DEF Sync, Midway
<1>6. CASE EndRollback
  <2> SUFFICES ASSUME Alive', ~raced' PROVE Sync'
    BY DEF SyncInv
  <2> DEFINE n == arg["loop"]
  <2>1. /\ Sync /\ log' = log /\ history' = copy["loop"] /\ ~Midway("loop")
        /\ hold["loop"] = None
        /\ hold' = [hold EXCEPT !["loop"] = RolledBack(n)]
        /\ copy' = [copy EXCEPT !["loop"] = None]
    BY <1>0, <1>6 DEF EndRollback, At, Free, Race, SyncInv, LogKept, Alive
  <2>2. n \in Turns /\ copy["loop"] = DropLastTurns(history, n)
    BY <1>6, <2>1 DEF EndRollback, At, Sync, SessionInv, Control
  <2>3. \A c \in Callers : /\ hold'[c] = IF c = "loop" THEN RolledBack(n) ELSE None
                           /\ copy'[c] = None
    BY <1>a, <2>1 DEF Midway
  <2>4. Same(Replay(log), history)
    BY <2>1 DEF Sync, Midway
  <2>5. Same(ReplayItem(Replay(log), RolledBack(n)), history')
    <3> HIDE DEF n
    <3>1. n \in Nat \ {0}
      BY <2>2 DEF Turns
    <3> QED  BY <1>a, <2>1, <2>2, <2>4, <3>1, SameDrop, ReplayCases
  <2>6. RolledBack(n) # None
    BY <2>2, NoneIsNothing
  <2> HIDE DEF n
  <2> QED  BY <2>1, <2>3, <2>5, <2>6 DEF Sync, Midway
<1>7. CASE SwitchModel
  <2>1. hold["loop"] = None /\ copy["loop"] = None /\ Switch \in Items
    BY <1>7, ItemTypes DEF SwitchModel, Free, SessionInv, Control
  <2> QED  BY <1>0, <1>7, <2>1, PutSync DEF SwitchModel
<1> QED  BY <1>1, <1>2, <1>3, <1>4, <1>5, <1>6, <1>7 DEF Loop

\* The running turn: its items, the draft of a compaction, the copy and its way
\* back.
LEMMA TurnSync == SessionInv /\ SyncInv /\ (Turn \/ RecordLeftover) => SyncInv'
<1> SUFFICES ASSUME SessionInv, SyncInv, Turn \/ RecordLeftover PROVE SyncInv'
  OBVIOUS
<1> USE CallersAssumption
<1>0. LogKept
  BY SessionLog
<1>a. /\ DOMAIN hold = Callers /\ DOMAIN copy = Callers
      /\ history \in Seq(Items) /\ Replay(log) \in Seq(Items)
  BY ReplayType DEF SessionInv, SessionType
<1>1. ASSUME NEW u \in Inputs, PollInput(u) PROVE SyncInv'
  <2>1. Message(u) \in Items
    BY ItemTypes
  <2> QED  BY <1>0, <1>1, <2>1, PutSync DEF PollInput, At, Free, SessionInv, Control
<1>2. ASSUME NEW c \in Calls, RecordCall(c) PROVE SyncInv'
  <2>1. Call(c) \in Items
    BY ItemTypes
  <2> QED  BY <1>0, <1>2, <2>1, PutSync DEF RecordCall, At, Free, SessionInv, Control
<1>3. ASSUME NEW c \in Calls, RecordOutput(c) PROVE SyncInv'
  <2>1. Output(c) \in Items
    BY ItemTypes
  <2> QED  BY <1>0, <1>3, <2>1, PutSync DEF RecordOutput, At, Free, SessionInv, Control
<1>4. CASE RetryRequest \/ AutoCompact \/ RequestSummary
  <2>1. /\ UNCHANGED <<log, writer, history, remote, hold, copy, raced>>
        /\ arg'["loop"] = arg["loop"]
    BY <1>0, <1>4
       DEF RetryRequest, AutoCompact, RequestSummary, LogKept, ghosts, SessionInv, SessionType
  <2> QED  BY <2>1 DEF SyncInv, Sync, Midway, Alive
<1>5. CASE RecordDraft
  <2> SUFFICES ASSUME Alive', ~raced' PROVE Sync'
    BY DEF SyncInv
  <2>1. /\ Sync /\ UNCHANGED <<log, hold, copy>> /\ history' = Append(history, Draft)
        /\ ~Midway("turn") /\ hold["turn"] = None /\ copy["turn"] = None
    BY <1>0, <1>5 DEF RecordDraft, At, Free, Race, SyncInv, LogKept, Alive, SessionInv, Control
  <2>2. \A c \in Callers : hold'[c] = None /\ copy'[c] = None
    BY <2>1 DEF Midway
  <2>3. Same(Replay(log), history)
    BY <2>1, <2>2 DEF Sync
  <2>4. Same(Replay(log), Append(history, Draft))
    BY <1>a, <2>3, SameHidden DEF Same, Hidden
  <2> QED  BY <2>1, <2>2, <2>4 DEF Sync
<1>6. CASE CopyLocally \/ CopyRemotely
  <2> SUFFICES ASSUME Alive', ~raced' PROVE Sync'
    BY DEF SyncInv
  <2>1. /\ Sync /\ UNCHANGED <<log, hold, history, remote>>
        /\ ~Midway("turn") /\ hold["turn"] = None
    BY <1>0, <1>6
       DEF CopyLocally, CopyRemotely, At, Free, Race, SyncInv, LogKept, Alive
  <2>2. PICK made \in Seq(Items) :
           /\ copy' = [copy EXCEPT !["turn"] = made]
           /\ ~remote => Same(made, LocallyCompacted(history))
    <3>1. CASE CopyLocally  BY <3>1, LocalCopy
    <3>2. CASE CopyRemotely
      <4>1. remote  BY <3>2 DEF CopyRemotely
      <4> QED  BY <3>2, <4>1, RemoteCopy
    <3> QED  BY <1>6, <3>1, <3>2
  <2>3. /\ copy'["turn"] = made
        /\ \A c \in Callers \ {"turn"} : copy'[c] = None
        /\ \A c \in Callers : hold'[c] = None
    BY <1>a, <2>1, <2>2 DEF Midway
  <2>4. Same(Replay(log), history)
    BY <2>1, <2>3 DEF Sync
  <2> QED  BY <2>1, <2>2, <2>3, <2>4 DEF Sync, Midway
<1>7. CASE ReplaceHistory
  <2> SUFFICES ASSUME Alive', ~raced' PROVE Sync'
    BY DEF SyncInv
  <2> DEFINE e == Compacted(IF remote THEN copy["turn"] ELSE None)
  <2>1. /\ Sync /\ log' = log /\ history' = copy["turn"] /\ ~Midway("turn")
        /\ hold["turn"] = None
        /\ hold' = [hold EXCEPT !["turn"] = e]
        /\ copy' = [copy EXCEPT !["turn"] = None]
    BY <1>0, <1>7 DEF ReplaceHistory, At, Free, Race, SyncInv, LogKept, Alive
  <2>2. /\ copy["turn"] \in Seq(Items)
        /\ ~remote => Same(copy["turn"], LocallyCompacted(history))
    BY <1>7, <2>1 DEF ReplaceHistory, At, Sync, SessionInv, SessionType, Control
  <2>3. \A c \in Callers : /\ hold'[c] = IF c = "turn" THEN e ELSE None
                           /\ copy'[c] = None
    BY <1>a, <2>1 DEF Midway
  <2>4. Same(Replay(log), history)
    BY <2>1 DEF Sync, Midway
  <2>5. Same(ReplayItem(Replay(log), e), history')
    <3>1. CASE remote
      BY <2>1, <2>2, <3>1, ReplayCases DEF Same
    <3>2. CASE ~remote
      <4>1. LocallyCompacted(Replay(log)) = LocallyCompacted(history)
        BY <1>a, <2>4, SameCompacted
      <4> QED  BY <2>1, <2>2, <3>2, <4>1, ReplayCases DEF Same
    <3> QED  BY <3>1, <3>2
  <2>6. e # None
    BY <2>2, NoneIsNothing
  <2> HIDE DEF e
  <2> QED  BY <2>1, <2>3, <2>5, <2>6 DEF Sync, Midway
<1>8. CASE FinishTurn
  <2> SUFFICES ASSUME Alive', ~raced' PROVE Sync'
    BY DEF SyncInv
  <2>1. /\ Sync /\ UNCHANGED <<log, hold, history, remote>>
        /\ copy' = [copy EXCEPT !["turn"] = None]
        /\ arg'["loop"] = arg["loop"]
    BY <1>0, <1>8 DEF FinishTurn, SyncInv, LogKept, Alive, ghosts, SessionInv, SessionType
  <2>2. /\ copy'["turn"] = None
        /\ \A c \in Callers \ {"turn"} : copy'[c] = copy[c]
        /\ \A c \in Callers : hold'[c] = hold[c]
    BY <1>a, <2>1
  <2>3. \A c \in Callers : Midway(c)' => Midway(c)
    BY <2>2 DEF Midway
  <2> QED  BY <2>1, <2>2, <2>3 DEF Sync
<1>9. CASE RecordLeftover
  <2>1. Message(arg["tail"]) \in Items
    BY <1>9, ItemTypes DEF RecordLeftover, At, SessionInv, Control
  <2> QED  BY <1>0, <1>9, <2>1, PutSync DEF RecordLeftover, At, Free, SessionInv, Control
<1>10. CASE RecordPrompt
  <2>1. Message(prompt) \in Items
    BY <1>10, ItemTypes DEF RecordPrompt, At, SessionInv, Control
  <2> QED  BY <1>0, <1>10, <2>1, PutSync DEF RecordPrompt, At, Free, SessionInv, Control
<1> QED
  BY <1>1, <1>2, <1>3, <1>4, <1>5, <1>6, <1>7, <1>8, <1>9, <1>10 DEF Turn

\* RecordHeld brings the rollout up to the history; a crash brings the history back
\* to the rollout.
LEMMA RestSync ==
    ASSUME SessionInv, SyncInv,
           \/ \E c \in Callers : RecordHeld(c) \/ AwaitRecorder(c)
           \/ Writer /\ UNCHANGED session
           \/ CrashAndResume
    PROVE  SyncInv'
<1> USE CallersAssumption
<1>a. /\ DOMAIN hold = Callers /\ DOMAIN copy = Callers
      /\ history \in Seq(Items) /\ Replay(log) \in Seq(Items) /\ log \in Seq(Entries)
  BY ReplayType DEF SessionInv, SessionType
<1> SUFFICES ASSUME Alive', ~raced' PROVE Sync'
  BY DEF SyncInv
<1>1. ASSUME NEW c \in Callers, RecordHeld(c) PROVE Sync'
  <2>1. /\ Sync /\ UNCHANGED <<history, copy, arg, remote>> /\ hold[c] # None
        /\ hold' = [hold EXCEPT ![c] = None] /\ ~Midway(c)
        /\ log' = Append(log, hold[c])
    <3>1. Alive
      BY <1>1, RecordItemsLog DEF RecordHeld, Alive
    <3> QED  BY <1>1, <3>1, RecordItemsLog DEF RecordHeld, Race, SyncInv
  <2>2. hold[c] \in Entries
    BY <2>1 DEF SessionInv, SessionType
  <2>3. Same(Replay(log'), history')
    BY <1>a, <2>1, <2>2, ReplayAppend DEF Sync
  <2>4. \A d \in Callers : hold'[d] = None
    BY <1>a, <2>1 DEF Midway
  <2>5. \A d \in Callers : copy'[d] # None => ~Midway(d)'
    BY <2>1, <2>4 DEF Midway, Sync
  <2> QED  BY <2>1, <2>3, <2>4, <2>5 DEF Sync
<1>2. ASSUME NEW c \in Callers, AwaitRecorder(c) PROVE Sync'
  <2>1. LogKept
    BY <1>2, SessionLog
  <2>2. UNCHANGED <<log, writer, history, remote, hold, copy, arg, raced>>
    BY <1>2, <2>1 DEF AwaitRecorder, LogKept, ghosts
  <2> QED  BY <2>2 DEF SyncInv, Sync, Midway, Alive
<1>3. CASE Writer /\ UNCHANGED session
  <2>1. log' = log /\ Alive
    BY <1>3, WriterLog
  <2>2. UNCHANGED <<log, history, remote, hold, copy, arg, raced>>
    BY <1>3, <2>1 DEF session, ghosts
  <2> QED  BY <2>1, <2>2 DEF SyncInv, Sync, Midway
<1>4. CASE CrashAndResume
  <2>1. history' = Replay(log') /\ \A c \in Callers : hold'[c] = None /\ copy'[c] = None
    BY <1>4 DEF CrashAndResume, Reopen, Lose
  <2> QED  BY <2>1 DEF Sync, Same
<1> QED  BY <1>1, <1>2, <1>3, <1>4

\* Every step keeps the rollout up to the history.
LEMMA StepSync == SessionInv /\ SyncInv /\ [Next]_vars => SyncInv'
<1> SUFFICES ASSUME SessionInv, SyncInv, [Next]_vars PROVE SyncInv'  OBVIOUS
<1>1. CASE UNCHANGED vars
  BY <1>1 DEF vars, recorder, session, ghosts, SyncInv, Sync, Midway, Alive
<1>2. CASE Next
  BY <1>2, LoopSync, TurnSync, RestSync DEF Next
<1> QED  BY <1>1, <1>2

\* The session in every reachable state.
LEMMA SessionInvariance == Spec => [](IInv /\ SessionInv /\ SyncInv)
<1>1. Init => SessionInv /\ SyncInv
  BY InitSession, InitSync
<1>2. IInv /\ SessionInv /\ SyncInv /\ [Next]_vars => (SessionInv /\ SyncInv)'
  BY StepSession, StepSync
<1> QED  BY Invariance, <1>1, <1>2, PTL DEF Spec

\* A thread resumed by reconstruct_history_from_rollout shows the model the
\* conversation the live thread had, but for the draft of a failed compaction and for
\* the change of the model that a local one puts back into the live history only:
\* for any inputs, calls and bounds, through turns, compactions of both kinds,
\* whichever messages the server keeps, rollbacks, interrupts, I/O errors and crashes
\* whose steps were not interleaved.
THEOREM ResumedAsSeen == Spec => []ResumesAsSeen
<1>1. SyncInv => ResumesAsSeen
  BY DEF SyncInv, Sync, ResumesAsSeen, Quiet, Same
<1> QED  BY SessionInvariance, <1>1, PTL

-----------------------------------------------------------------------------
(* Calls and outputs. *)

Paired == [kind : {"call", "output"}, id : Calls]
Plain == Items \ Paired
Compactions == [kind : {"compacted"}, replacement : Seq(Plain) \cup {None}]
Rollbacks == [kind : {"rollback"}, turns : Turns]

\* Every call and every output is there once at most, an output after its call.
Tidy(items) ==
    /\ \A p, q \in DOMAIN items : items[p] = items[q] /\ items[p] \in Paired => p = q
    /\ \A q \in DOMAIN items : items[q].kind = "output" =>
          \E p \in 1..(q - 1) : items[p] = Call(items[q].id)

\* It knows of no call that has not been made and of no answer still to come.
NoSurprise(items, made, pending) ==
    /\ \A c \in Calls \ made : Call(c) \notin ToSet(items) /\ Output(c) \notin ToSet(items)
    /\ \A c \in pending : Output(c) \notin ToSet(items)
Good(items, made, pending) == Tidy(items) /\ NoSurprise(items, made, pending)

\* The conversations a crash may bring back.
Replays(rollout) == {Replay(SubSeq(rollout, 1, m)) : m \in 0..Len(rollout)}

GoodInv ==
    /\ Good(history, used, inflight)
    /\ copy["loop"] # None => Good(copy["loop"], used, inflight)
    /\ copy["turn"] # None => copy["turn"] \in Seq(Plain)
    /\ \A items \in Replays(log) : Good(items, used, inflight)

HoldInv ==
    /\ hold["tail"] \in Plain \cup {None}
    /\ hold["loop"] \in Plain \cup Rollbacks \cup {None}
    /\ hold["turn"] \in Plain \cup Paired \cup Compactions \cup {None}
    /\ hold["loop"] \in Rollbacks => ~active
    /\ hold["turn"] \in Compactions => inflight = {}

CallInv ==
    /\ inflight \subseteq used
    /\ \A c \in inflight :
          /\ Call(c) \in ToSet(history)
          /\ Alive => Call(c) \in ToSet(Replay(log)) \/ hold["turn"] = Call(c)
    /\ \A c \in Calls :
          /\ hold["turn"] = Call(c) =>
                c \in inflight /\ \A items \in Replays(log) : Call(c) \notin ToSet(items)
          /\ hold["turn"] = Output(c) =>
                /\ c \in used \ inflight
                /\ \A items \in Replays(log) : Output(c) \notin ToSet(items)
                /\ Alive => Call(c) \in ToSet(Replay(log))

PairInv == GoodInv /\ HoldInv /\ CallInv

\* Calls and outputs, and what is neither.
LEMMA PairFacts ==
    /\ \A c \in Calls : Call(c) \in Paired /\ Output(c) \in Paired
    /\ \A c, d : /\ Call(c) # Output(d)
                 /\ Call(c) = Call(d) <=> c = d
                 /\ Output(c) = Output(d) <=> c = d
    /\ \A i \in Paired : i.id \in Calls /\ (i = Call(i.id) \/ i = Output(i.id))
    /\ \A i \in Items : i.kind \in {"call", "output"} <=> i \in Paired
    /\ \A i \in Items : i.kind = "output" => i.id \in Calls /\ i = Output(i.id)
    /\ \A i \in Items : i.kind = "call" => i.id \in Calls /\ i = Call(i.id)
    /\ \A c : Call(c).kind = "call" /\ Call(c).id = c /\ Output(c).kind = "output" /\ Output(c).id = c
    /\ Paired \subseteq Items
    /\ Context \in Plain /\ Marker \in Plain /\ Switch \in Plain /\ Reappended \in Plain
    /\ Draft \in Plain /\ Summary \in Plain
    /\ Opaque \in Plain /\ UserTurns \subseteq Plain
    /\ \A u \in Inputs : Message(u) \in Plain
BY DEF Paired, Plain, Items, Call, Output, Item, Context, Marker, Switch, Reappended, Draft,
       Summary, Opaque, UserTurns, UserMessages, Message

\* The items of a history, and of parts of it.
LEMMA ToSetFacts ==
    ASSUME NEW E, NEW s \in Seq(E)
    PROVE  /\ ToSet(s) \subseteq E
           /\ \A e \in E : ToSet(Append(s, e)) = ToSet(s) \cup {e}
           /\ \A k \in 0..Len(s) : ToSet(SubSeq(s, 1, k)) \subseteq ToSet(s)
<1>1. ToSet(s) = {s[i] : i \in 1..Len(s)}
  BY DEF ToSet
<1>2. ASSUME NEW e \in E PROVE ToSet(Append(s, e)) = ToSet(s) \cup {e}
  <2> DEFINE t == Append(s, e)
  <2>1. /\ DOMAIN t = 1..(Len(s) + 1) /\ t[Len(s) + 1] = e /\ Len(s) \in Nat
        /\ \A i \in 1..Len(s) : t[i] = s[i]
    OBVIOUS
  <2>2. ToSet(t) = {t[i] : i \in 1..(Len(s) + 1)}
    BY <2>1 DEF ToSet
  <2> HIDE DEF t
  <2>3. ToSet(t) \subseteq ToSet(s) \cup {e}
    <3>1. \A i \in 1..(Len(s) + 1) : i \in 1..Len(s) \/ i = Len(s) + 1
      BY <2>1
    <3> QED  BY <1>1, <2>1, <2>2, <3>1
  <2>4. ToSet(s) \cup {e} \subseteq ToSet(t)
    <3>1. Len(s) + 1 \in 1..(Len(s) + 1) /\ \A i \in 1..Len(s) : i \in 1..(Len(s) + 1)
      BY <2>1
    <3> QED  BY <1>1, <2>1, <2>2, <3>1
  <2> QED  BY <2>3, <2>4 DEF t
<1>3. ASSUME NEW k \in 0..Len(s) PROVE ToSet(SubSeq(s, 1, k)) \subseteq ToSet(s)
  <2>1. DOMAIN SubSeq(s, 1, k) = 1..k /\ \A i \in 1..k : SubSeq(s, 1, k)[i] = s[i] /\ i \in 1..Len(s)
    OBVIOUS
  <2> QED  BY <1>1, <2>1 DEF ToSet
<1>4. ToSet(s) \subseteq E
  BY <1>1
<1> QED  BY <1>2, <1>3, <1>4

\* A history stays tidy with an item more: a new call, a new output of a call it has,
\* anything else.
LEMMA TidyAppend ==
    ASSUME NEW h \in Seq(Items), Tidy(h), NEW i \in Items,
           i \in Paired => i \notin ToSet(h),
           i.kind = "output" => Call(i.id) \in ToSet(h)
    PROVE  Tidy(Append(h, i))
<1> DEFINE t == Append(h, i)
           N == Len(h)
<1>1. /\ DOMAIN t = 1..(N + 1) /\ DOMAIN h = 1..N /\ t[N + 1] = i /\ N \in Nat
      /\ \A n \in 1..N : t[n] = h[n]
  OBVIOUS
<1> HIDE DEF t, N
<1>2. ASSUME NEW p \in 1..(N + 1), NEW q \in 1..(N + 1), t[p] = t[q], t[p] \in Paired
      PROVE  p = q
  <2>1. \A n \in 1..N : h[n] \in ToSet(h)
    BY <1>1 DEF ToSet
  <2>2. CASE p \in 1..N /\ q \in 1..N
    BY <1>1, <1>2, <2>2 DEF Tidy
  <2>3. CASE p = N + 1 /\ q \in 1..N
    BY <1>1, <1>2, <2>1, <2>3
  <2>4. CASE q = N + 1 /\ p \in 1..N
    BY <1>1, <1>2, <2>1, <2>4
  <2>5. CASE p = N + 1 /\ q = N + 1
    BY <2>5
  <2> QED  BY <1>1, <2>2, <2>3, <2>4, <2>5
<1>3. ASSUME NEW q \in 1..(N + 1), t[q].kind = "output"
      PROVE  \E p \in 1..(q - 1) : t[p] = Call(t[q].id)
  <2>1. CASE q \in 1..N
    <3>1. PICK p \in 1..(q - 1) : h[p] = Call(h[q].id)
      BY <1>1, <1>3, <2>1 DEF Tidy
    <3>2. p \in 1..N
      BY <1>1, <2>1
    <3> QED  BY <1>1, <2>1, <3>1, <3>2
  <2>2. CASE q = N + 1
    <3>1. PICK p \in 1..N : h[p] = Call(i.id)
      BY <1>1, <1>3, <2>2 DEF ToSet
    <3>2. p \in 1..(q - 1)
      BY <1>1, <2>2
    <3> QED  BY <1>1, <2>2, <3>1, <3>2
  <2> QED  BY <1>1, <2>1, <2>2
<1> QED  BY <1>1, <1>2, <1>3 DEF Tidy, t

\* The beginning of a tidy history is tidy.
LEMMA TidyPrefix ==
    ASSUME NEW h \in Seq(Items), Tidy(h), NEW k \in 0..Len(h)
    PROVE  Tidy(SubSeq(h, 1, k))
<1> DEFINE t == SubSeq(h, 1, k)
<1>1. /\ DOMAIN t = 1..k /\ \A n \in 1..k : t[n] = h[n] /\ n \in DOMAIN h
  OBVIOUS
<1> HIDE DEF t
<1>2. \A p, q \in DOMAIN t : t[p] = t[q] /\ t[p] \in Paired => p = q
  BY <1>1 DEF Tidy
<1>3. ASSUME NEW q \in 1..k, t[q].kind = "output"
      PROVE  \E p \in 1..(q - 1) : t[p] = Call(t[q].id)
  <2>1. PICK p \in 1..(q - 1) : h[p] = Call(h[q].id)
    BY <1>1, <1>3 DEF Tidy
  <2>2. p \in 1..k
    OBVIOUS
  <2> QED  BY <1>1, <2>1, <2>2
<1> QED  BY <1>1, <1>2, <1>3 DEF Tidy, t

\* Without calls and outputs a history is tidy.
LEMMA TidyPlain ==
    ASSUME NEW h \in Seq(Plain)
    PROVE  Tidy(h) /\ \A c \in Calls : Call(c) \notin ToSet(h) /\ Output(c) \notin ToSet(h)
<1>1. \A p \in DOMAIN h : h[p] \in Plain
  OBVIOUS
<1>2. \A p \in DOMAIN h : h[p] \notin Paired /\ h[p].kind # "output"
  BY <1>1, PairFacts DEF Plain
<1>3. ToSet(h) \subseteq Plain
  BY ToSetFacts
<1>4. \A c \in Calls : Call(c) \notin Plain /\ Output(c) \notin Plain
  BY PairFacts DEF Plain
<1> QED  BY <1>2, <1>3, <1>4 DEF Tidy

\* A compaction of either kind keeps no call and no output
\* (build_compacted_history, process_compacted_history).
LEMMA CompactedPlain ==
    ASSUME NEW h \in Seq(Items)
    PROVE  /\ LocallyCompacted(h) \in Seq(Plain)
           /\ \A kept \in SUBSET UserTurns : RemotelyCompacted(h, kept) \in Seq(Plain)
<1>1. LocallyCompacted(h) \in Seq(Plain)
  <2>1. WithinRoom(Keep(h, UserMessages)) \in Seq(Items \cap UserMessages)
    BY WithinRoomType
  <2>2. UserMessages \subseteq Plain /\ Context \in Plain /\ Summary \in Plain
    BY PairFacts DEF UserTurns
  <2>3. WithinRoom(Keep(h, UserMessages)) \in Seq(Plain) /\ <<Context>> \in Seq(Plain)
        /\ <<Summary>> \in Seq(Plain)
    BY <2>1, <2>2
  <2> QED  BY <2>3 DEF LocallyCompacted
<1>2. ASSUME NEW kept \in SUBSET UserTurns PROVE RemotelyCompacted(h, kept) \in Seq(Plain)
  <2> DEFINE users == Keep(h, kept)
  <2>1. users \in Seq(Items \cap kept)
    BY KeepType
  <2>2. users \in Seq(Plain) /\ Context \in Plain /\ Opaque \in Plain
    BY <2>1, PairFacts
  <2>3. RemotelyCompacted(h, kept) = IF users = <<>> THEN <<Opaque, Context>>
                                     ELSE Front(users) \o <<Context, Last(users), Opaque>>
    BY DEF RemotelyCompacted
  <2> HIDE DEF users
  <2>4. <<Opaque, Context>> \in Seq(Plain)
    BY <2>2
  <2>5. users # <<>> => Front(users) \in Seq(Plain) /\ Last(users) \in Plain
    BY <2>2 DEF Front, Last
  <2>6. users # <<>> => <<Context, Last(users), Opaque>> \in Seq(Plain)
    BY <2>2, <2>5
  <2> QED  BY <2>3, <2>4, <2>5, <2>6
<1> QED  BY <1>1, <1>2

\* So does what is put back, with the change of the model or without.
LEMMA CopyPlain ==
    ASSUME SessionInv, CopyLocally \/ CopyRemotely
    PROVE  \E made \in Seq(Plain) : copy' = [copy EXCEPT !["turn"] = made]
<1>1. history \in Seq(Items) /\ Switch \in Plain /\ Reappended \in Plain
  BY PairFacts DEF SessionInv, SessionType
<1>2. CASE CopyLocally
  <2> DEFINE g == LocallyCompacted(history)
             b == arg["turn"] = Switch
  <2>1. copy' = [copy EXCEPT !["turn"] = g \o IF b THEN <<Reappended>> ELSE <<>>]
    BY <1>2 DEF CopyLocally
  <2>2. g \in Seq(Plain) /\ b \in BOOLEAN
    BY <1>1, CompactedPlain
  <2> HIDE DEF g, b
  <2>3. (g \o IF b THEN <<Reappended>> ELSE <<>>) \in Seq(Plain)
    BY <1>1, <2>2, PutBack
  <2> QED  BY <2>1, <2>3
<1>3. CASE CopyRemotely
  <2>1. PICK kept \in SUBSET UserTurns :
           copy' = [copy EXCEPT !["turn"] =
                      RemotelyCompacted(history, kept)
                      \o IF TrailingSwitch(history) THEN <<Switch>> ELSE <<>>]
    BY <1>3 DEF CopyRemotely
  <2> DEFINE g == RemotelyCompacted(history, kept)
             b == TrailingSwitch(history)
  <2>2. g \in Seq(Plain) /\ b \in BOOLEAN
    BY <1>1, CompactedPlain DEF TrailingSwitch
  <2> HIDE DEF g, b
  <2>3. (g \o IF b THEN <<Switch>> ELSE <<>>) \in Seq(Plain)
    BY <1>1, <2>2, PutBack
  <2> QED  BY <2>1, <2>3 DEF g, b
<1> QED  BY <1>2, <1>3

-----------------------------------------------------------------------------
(* What keeps a conversation good. *)

\* The more calls have been made and the fewer are pending, the less is a surprise.
LEMMA GoodMore ==
    ASSUME NEW h, NEW u, NEW f, NEW v, NEW g, Good(h, u, f), u \subseteq v,
           g \subseteq Calls, \A c \in g : c \in f \/ c \notin u
    PROVE  Good(h, v, g)
BY DEF Good, NoSurprise

\* One item more, of each kind.
LEMMA GoodAppend ==
    ASSUME NEW h \in Seq(Items), NEW u, NEW f \in SUBSET u, Good(h, u, f), NEW i \in Items
    PROVE  /\ i \in Plain => Good(Append(h, i), u, f)
           /\ \A c \in Calls : i = Call(c) /\ c \in u /\ Call(c) \notin ToSet(h)
                => Good(Append(h, i), u, f)
           /\ \A c \in Calls : i = Output(c) /\ c \in u \ f /\ Call(c) \in ToSet(h)
                               /\ Output(c) \notin ToSet(h)
                => Good(Append(h, i), u, f)
<1>1. ToSet(Append(h, i)) = ToSet(h) \cup {i} /\ Tidy(h) /\ NoSurprise(h, u, f)
  BY ToSetFacts DEF Good
<1>2. ASSUME i \in Plain PROVE Good(Append(h, i), u, f)
  <2>1. i \notin Paired /\ i.kind # "output"
    BY <1>2, PairFacts DEF Plain
  <2>2. Tidy(Append(h, i))
    BY <1>1, <2>1, TidyAppend
  <2>3. \A c \in Calls : i # Call(c) /\ i # Output(c)
    BY <2>1, PairFacts
  <2>4. NoSurprise(Append(h, i), u, f)
    <3>1. \A c \in f : Output(c) # i
      BY <2>1, PairFacts
    <3> QED  BY <1>1, <2>3, <3>1 DEF NoSurprise
  <2> QED  BY <2>2, <2>4 DEF Good
<1>3. ASSUME NEW c \in Calls, i = Call(c), c \in u, Call(c) \notin ToSet(h)
      PROVE  Good(Append(h, i), u, f)
  <2>1. i.kind # "output"
    BY <1>3, PairFacts
  <2>2. Tidy(Append(h, i))
    BY <1>1, <1>3, <2>1, TidyAppend
  <2>3. NoSurprise(Append(h, i), u, f)
    BY <1>1, <1>3, PairFacts DEF NoSurprise
  <2> QED  BY <2>2, <2>3 DEF Good
<1>4. ASSUME NEW c \in Calls, i = Output(c), c \in u \ f, Call(c) \in ToSet(h),
             Output(c) \notin ToSet(h)
      PROVE  Good(Append(h, i), u, f)
  <2>1. i.id = c
    BY <1>4, PairFacts
  <2>2. Tidy(Append(h, i))
    BY <1>1, <1>4, <2>1, TidyAppend
  <2>3. NoSurprise(Append(h, i), u, f)
    BY <1>1, <1>4, PairFacts DEF NoSurprise
  <2> QED  BY <2>2, <2>3 DEF Good
<1> QED  BY <1>2, <1>3, <1>4

\* Without calls and outputs nothing is a surprise.
LEMMA GoodPlain ==
    ASSUME NEW h \in Seq(Plain), NEW u, NEW f \in SUBSET Calls
    PROVE  Good(h, u, f)
BY TidyPlain DEF Good, NoSurprise

\* A rollback (drop_last_n_user_turns) leaves no surprise.
LEMMA GoodDrop ==
    ASSUME NEW h \in Seq(Items), NEW u, NEW f, Good(h, u, f), NEW n \in Turns
    PROVE  Good(DropLastTurns(h, n), u, f)
<1>1. PICK k \in 0..Len(h) : DropLastTurns(h, n) = SubSeq(h, 1, k)
  BY DropIsPrefix DEF Turns
<1>2. Tidy(SubSeq(h, 1, k)) /\ ToSet(SubSeq(h, 1, k)) \subseteq ToSet(h)
  BY TidyPrefix, ToSetFacts DEF Good
<1> QED  BY <1>1, <1>2 DEF Good, NoSurprise

-----------------------------------------------------------------------------
(* The conversations that replays of the rollout may bring back. *)

\* They are the replays of what was recorded before, and one more with every entry;
\* a rollout cut back has some of them.
LEMMA ReplaysFacts ==
    ASSUME NEW s \in Seq(Entries)
    PROVE  /\ Replays(s) \subseteq Seq(Items)
           /\ Replay(s) \in Replays(s)
           /\ \A e \in Entries :
                 Replays(Append(s, e)) \subseteq Replays(s) \cup {ReplayItem(Replay(s), e)}
           /\ \A k \in 0..Len(s) : Replays(SubSeq(s, 1, k)) \subseteq Replays(s)
<1>1. ASSUME NEW m \in 0..Len(s) PROVE Replay(SubSeq(s, 1, m)) \in Seq(Items)
  <2>1. SubSeq(s, 1, m) \in Seq(Entries)
    OBVIOUS
  <2> QED  BY <2>1, ReplayType
<1>2. Replay(s) \in Replays(s)
  <2>1. SubSeq(s, 1, Len(s)) = s /\ Len(s) \in 0..Len(s)
    OBVIOUS
  <2> QED  BY <2>1 DEF Replays
<1>3. ASSUME NEW e \in Entries
      PROVE  Replays(Append(s, e)) \subseteq Replays(s) \cup {ReplayItem(Replay(s), e)}
  <2> DEFINE t == Append(s, e)
  <2>1. Len(t) = Len(s) + 1 /\ Len(s) \in Nat /\ SubSeq(t, 1, Len(s) + 1) = t
        /\ \A m \in 0..Len(s) : SubSeq(t, 1, m) = SubSeq(s, 1, m)
    OBVIOUS
  <2>2. Replay(t) = ReplayItem(Replay(s), e)
    BY ReplayAppend
  <2> HIDE DEF t
  <2>3. \A m \in 0..(Len(s) + 1) : m \in 0..Len(s) \/ m = Len(s) + 1
    BY <2>1
  <2> QED  BY <2>1, <2>2, <2>3 DEF Replays, t
<1>4. ASSUME NEW k \in 0..Len(s) PROVE Replays(SubSeq(s, 1, k)) \subseteq Replays(s)
  <2> DEFINE t == SubSeq(s, 1, k)
  <2>1. Len(t) = k /\ \A m \in 0..k : SubSeq(t, 1, m) = SubSeq(s, 1, m) /\ m \in 0..Len(s)
    OBVIOUS
  <2> HIDE DEF t
  <2> QED  BY <2>1 DEF Replays, t
<1>5. Replays(s) \subseteq Seq(Items)
  BY <1>1 DEF Replays
<1> QED  BY <1>2, <1>3, <1>4, <1>5

\* The kinds of entries are apart.
LEMMA EntryFacts ==
    /\ None \notin Plain /\ None \notin Paired /\ None \notin Compactions /\ None \notin Rollbacks
    /\ \A i \in Plain : i \notin Paired /\ i \notin Compactions /\ i \notin Rollbacks
    /\ \A i \in Paired : i \notin Compactions /\ i \notin Rollbacks
    /\ \A e \in Compactions : e \notin Rollbacks
    /\ \A n \in Turns : RolledBack(n) \in Rollbacks
    /\ \A r \in Seq(Plain) \cup {None} : Compacted(r) \in Compactions
<1>1. /\ \A i \in Plain \cup Paired : i \in Items /\ i.kind \notin {"compacted", "rollback"}
      /\ \A e \in Compactions : e.kind = "compacted"
      /\ \A e \in Rollbacks : e.kind = "rollback"
  BY DEF Plain, Paired, Items, Compactions, Rollbacks
<1>2. Compactions \subseteq Entries
  <2>1. Seq(Plain) \subseteq Seq(Items)
    BY DEF Plain
  <2> QED  BY <2>1 DEF Compactions, Entries
<1>3. Rollbacks \subseteq Entries /\ Items \subseteq Entries
  BY DEF Rollbacks, Entries, Turns
<1>4. /\ \A n \in Turns : RolledBack(n) \in Rollbacks
      /\ \A r \in Seq(Plain) \cup {None} : Compacted(r) \in Compactions
  BY DEF RolledBack, Rollbacks, Compacted, Compactions
<1>5. \A i \in Plain : i \notin Paired
  BY DEF Plain
<1> QED  BY <1>1, <1>2, <1>3, <1>4, <1>5, NoneAssumption

\* A task that puts an item that is no call and no output into the history.
LEMMA PutPlain ==
    ASSUME SessionInv, PairInv, LogKept, NEW c \in Callers, NEW i \in Plain,
           hold[c] = None, PutInHistory(c, i), UNCHANGED <<copy, inflight>>,
           used \subseteq used', hold'["loop"] \in Rollbacks => ~active'
    PROVE  PairInv'
<1> USE CallersAssumption
<1>1. history' = Append(history, i) /\ hold' = [hold EXCEPT ![c] = i] /\ log' = log
      /\ (Alive' <=> Alive) /\ history \in Seq(Items) /\ DOMAIN hold = Callers
      /\ i \in Items /\ inflight \subseteq Calls
  BY DEF PutInHistory, LogKept, Alive, SessionInv, SessionType, Plain
<1>2. GoodInv'
  <2>1. Good(Append(history, i), used, inflight)
    BY <1>1, GoodAppend DEF PairInv, GoodInv, CallInv
  <2>2. \A h : Good(h, used, inflight) => Good(h, used', inflight')
    BY <1>1, GoodMore
  <2> QED  BY <1>1, <2>1, <2>2 DEF PairInv, GoodInv
<1>3. HoldInv'
  BY <1>1, EntryFacts DEF PairInv, HoldInv
<1>4. CallInv'
  <2>1. ToSet(history') = ToSet(history) \cup {i}
    BY <1>1, ToSetFacts
  <2>2. \A d \in Calls : /\ hold["turn"] = None => hold["turn"] # Call(d)
                         /\ Call(d) # i /\ Output(d) # i
    BY PairFacts, EntryFacts
  <2>3. hold'["turn"] = hold["turn"] \/ (hold["turn"] = None /\ hold'["turn"] = i)
    BY <1>1
  <2> QED  BY <1>1, <2>1, <2>2, <2>3 DEF PairInv, CallInv
<1> QED  BY <1>2, <1>3, <1>4 DEF PairInv

\* A step that leaves the history and what is held, or drops what the turn had.
LEMMA KeepPair ==
    ASSUME SessionInv, PairInv, LogKept, UNCHANGED history, used \subseteq used',
           \/ UNCHANGED <<hold, inflight>>
           \/ hold' = [hold EXCEPT !["turn"] = None] /\ inflight' = {},
           hold'["loop"] \in Rollbacks => ~active',
           copy'["loop"] # None => Good(copy'["loop"], used, inflight),
           copy'["turn"] # None => copy'["turn"] \in Seq(Plain)
    PROVE  PairInv'
<1> USE CallersAssumption
<1>1. log' = log /\ (Alive' <=> Alive) /\ DOMAIN hold = Callers /\ inflight' \subseteq inflight
      /\ inflight \subseteq Calls
  BY DEF LogKept, Alive, SessionInv, SessionType
<1>2. GoodInv'
  <2>1. \A h : Good(h, used, inflight) => Good(h, used', inflight')
    BY <1>1, GoodMore
  <2> QED  BY <1>1, <2>1 DEF PairInv, GoodInv
<1>3. HoldInv'
  BY <1>1, EntryFacts DEF PairInv, HoldInv
<1>4. CallInv'
  <2>1. CASE UNCHANGED <<hold, inflight>>
    BY <1>1, <2>1 DEF PairInv, CallInv
  <2>2. CASE hold' = [hold EXCEPT !["turn"] = None] /\ inflight' = {}
    <3>1. \A d \in Calls : None # Call(d) /\ None # Output(d)
      BY PairFacts, EntryFacts
    <3> QED  BY <1>1, <2>2, <3>1 DEF CallInv
  <2> QED  BY <2>1, <2>2
<1> QED  BY <1>2, <1>3, <1>4 DEF PairInv

\* A new session has no calls.
LEMMA InitPair == Init => PairInv
<1> SUFFICES ASSUME Init PROVE PairInv  OBVIOUS
<1> USE CallersAssumption
<1>1. history = <<Context>> /\ log = <<>> /\ inflight = {} /\ inflight \in SUBSET Calls
      /\ \A c \in Callers : copy[c] = None /\ hold[c] = IF c = "loop" THEN Context ELSE None
  BY DEF Init, RecorderInit
<1>2. Context \in Plain /\ <<Context>> \in Seq(Plain) /\ <<>> \in Seq(Plain)
  BY PairFacts
<1>3. \A items \in Replays(log) : items = <<>>
  <2>1. Len(<<>>) = 0 /\ \A m \in 0..0 : SubSeq(<<>>, 1, m) = <<>>
    OBVIOUS
  <2> QED  BY <1>1, <2>1, ReplayEmpty DEF Replays
<1>4. GoodInv
  <2>1. Good(history, used, inflight)
    BY <1>1, <1>2, GoodPlain
  <2>2. Good(<<>>, used, inflight)
    BY <1>1, <1>2, GoodPlain
  <2> QED  BY <1>1, <1>3, <2>1, <2>2 DEF GoodInv
<1>5. HoldInv
  BY <1>1, <1>2, EntryFacts DEF HoldInv
<1>6. CallInv
  <2>1. \A d \in Calls : None # Call(d) /\ None # Output(d)
    BY PairFacts, EntryFacts
  <2> QED  BY <1>1, <2>1 DEF CallInv
<1> QED  BY <1>4, <1>5, <1>6 DEF PairInv

\* The submission loop: a turn is dropped with the calls it had in flight.
LEMMA LoopPair == SessionInv /\ PairInv /\ Loop => PairInv'
<1> SUFFICES ASSUME SessionInv, PairInv, Loop PROVE PairInv'
  OBVIOUS
<1> USE CallersAssumption
<1>0. LogKept
  BY SessionLog
<1>a. /\ DOMAIN hold = Callers /\ DOMAIN copy = Callers /\ history \in Seq(Items)
      /\ inflight \subseteq Calls
  BY DEF SessionInv, SessionType
<1>1. CASE SeedContext
  <2>1. Context \in Plain /\ hold'["loop"] = Context
    BY <1>a, <1>1, PairFacts DEF SeedContext, PutInHistory
  <2> QED  BY <1>0, <1>1, <2>1, PutPlain, EntryFacts DEF SeedContext, At, Free
<1>2. ASSUME NEW u \in Inputs, StartTurn(u) PROVE PairInv'
  <2>1. /\ UNCHANGED <<history, hold, copy, inflight>> /\ used \subseteq used'
        /\ hold["loop"] = None
    BY <1>2 DEF StartTurn, Free
  <2>2. /\ copy["loop"] # None => Good(copy["loop"], used, inflight)
        /\ copy["turn"] # None => copy["turn"] \in Seq(Plain)
    BY DEF PairInv, GoodInv
  <2> QED  BY <1>0, <2>1, <2>2, KeepPair, EntryFacts
<1>3. CASE StartCompact
  <2>1. /\ hold' = [hold EXCEPT !["turn"] = None] /\ inflight' = {}
        /\ copy' = [copy EXCEPT !["turn"] = None] /\ UNCHANGED <<history, used>>
        /\ hold["loop"] = None
    BY <1>3 DEF StartCompact, DropTurn, Free
  <2>2. /\ hold'["loop"] = None /\ copy'["loop"] = copy["loop"] /\ copy'["turn"] = None
    BY <1>a, <2>1
  <2>3. copy'["loop"] # None => Good(copy'["loop"], used, inflight)
    BY <2>2 DEF PairInv, GoodInv
  <2> QED  BY <1>0, <2>1, <2>2, <2>3, KeepPair, EntryFacts
<1>4. CASE Interrupt
  <2>1. /\ hold' = [hold EXCEPT !["turn"] = None, !["loop"] = Marker] /\ inflight' = {}
        /\ copy' = [copy EXCEPT !["turn"] = None] /\ history' = Append(history, Marker)
        /\ used' = used /\ log' = log
    BY <1>0, <1>4 DEF Interrupt, DropTurn, LogKept
  <2>2. Marker \in Plain /\ Marker \in Items
    BY PairFacts DEF Plain
  <2>3. GoodInv'
    <3>1. Good(Append(history, Marker), used, inflight)
      BY <1>a, <2>2, GoodAppend DEF PairInv, GoodInv, CallInv
    <3>2. \A h : Good(h, used, inflight) => Good(h, used, {})
      BY GoodMore
    <3>3. copy'["loop"] = copy["loop"] /\ copy'["turn"] = None
      BY <1>a, <2>1
    <3> QED  BY <2>1, <3>1, <3>2, <3>3 DEF PairInv, GoodInv
  <2>4. HoldInv'
    BY <1>a, <2>1, <2>2, EntryFacts DEF PairInv, HoldInv
  <2>5. CallInv'
    <3>1. \A d \in Calls : None # Call(d) /\ None # Output(d)
      BY PairFacts, EntryFacts
    <3>2. hold'["turn"] = None
      BY <1>a, <2>1
    <3> QED  BY <2>1, <3>1, <3>2 DEF CallInv
  <2> QED  BY <2>3, <2>4, <2>5 DEF PairInv
<1>5. ASSUME NEW n \in 1..2, BeginRollback(n) PROVE PairInv'
  <2>1. /\ copy' = [copy EXCEPT !["loop"] = DropLastTurns(history, n)]
        /\ UNCHANGED <<history, hold, inflight, used, active>>
    BY <1>5 DEF BeginRollback
  <2>2. Good(DropLastTurns(history, n), used, inflight)
    <3>1. n \in Turns
      BY DEF Turns
    <3> QED  BY <1>a, <3>1, GoodDrop DEF PairInv, GoodInv
  <2>3. copy'["loop"] = DropLastTurns(history, n) /\ copy'["turn"] = copy["turn"]
    BY <1>a, <2>1
  <2>4. copy'["turn"] # None => copy'["turn"] \in Seq(Plain)
    BY <2>3 DEF PairInv, GoodInv
  <2>5. hold'["loop"] \in Rollbacks => ~active'
    BY <2>1 DEF PairInv, HoldInv
  <2> QED  BY <1>0, <2>1, <2>2, <2>3, <2>4, <2>5, KeepPair
<1>6. CASE EndRollback
  <2>1. /\ history' = copy["loop"] /\ hold' = [hold EXCEPT !["loop"] = RolledBack(arg["loop"])]
        /\ copy' = [copy EXCEPT !["loop"] = None]
        /\ UNCHANGED <<log, active, inflight, used>> /\ (Alive' <=> Alive)
    BY <1>0, <1>6 DEF EndRollback, LogKept, Alive
  <2>2. /\ copy["loop"] # None /\ arg["loop"] \in Turns /\ ~active /\ inflight = {}
    BY <1>6 DEF EndRollback, At, SessionInv, Control
  <2>3. copy'["loop"] = None /\ copy'["turn"] = copy["turn"] /\ hold'["turn"] = hold["turn"]
        /\ hold'["tail"] = hold["tail"] /\ hold'["loop"] = RolledBack(arg["loop"])
    BY <1>a, <2>1
  <2>4. GoodInv'
    BY <2>1, <2>2, <2>3 DEF PairInv, GoodInv
  <2>5. HoldInv'
    BY <2>1, <2>2, <2>3, EntryFacts DEF PairInv, HoldInv
  <2>6. CallInv'
    BY <2>1, <2>2, <2>3 DEF PairInv, CallInv
  <2> QED  BY <2>4, <2>5, <2>6 DEF PairInv
<1>7. CASE SwitchModel
  <2>1. Switch \in Plain /\ hold'["loop"] = Switch /\ hold["loop"] = None
    BY <1>a, <1>7, PairFacts DEF SwitchModel, PutInHistory, Free
  <2> QED  BY <1>0, <1>7, <2>1, PutPlain, EntryFacts DEF SwitchModel
<1> QED  BY <1>1, <1>2, <1>3, <1>4, <1>5, <1>6, <1>7 DEF Loop

\* The running turn: calls, outputs, a retry that forgets the calls in flight, a
\* compaction, its end.
LEMMA TurnPair == SessionInv /\ PairInv /\ (Turn \/ RecordLeftover) => PairInv'
<1> SUFFICES ASSUME SessionInv, PairInv, Turn \/ RecordLeftover PROVE PairInv'
  OBVIOUS
<1> USE CallersAssumption
<1>0. LogKept
  BY SessionLog
<1>a. /\ DOMAIN hold = Callers /\ DOMAIN copy = Callers /\ history \in Seq(Items)
      /\ inflight \subseteq Calls /\ inflight \in SUBSET used
      /\ log \in Seq(Entries) /\ Replay(log) \in Replays(log)
  BY ReplaysFacts DEF SessionInv, SessionType, PairInv, CallInv
<1>b. hold["loop"] \in Rollbacks => ~active
  BY DEF PairInv, HoldInv
<1>c. /\ copy["loop"] # None => Good(copy["loop"], used, inflight)
      /\ copy["turn"] # None => copy["turn"] \in Seq(Plain)
  BY DEF PairInv, GoodInv
<1>d. \A d \in Calls : None # Call(d) /\ None # Output(d)
  BY PairFacts, EntryFacts
<1>1. ASSUME NEW u \in Inputs, PollInput(u) PROVE PairInv'
  <2>1. Message(u) \in Plain
    BY PairFacts
  <2>2. hold'["loop"] = hold["loop"] /\ hold["turn"] = None
    BY <1>a, <1>1 DEF PollInput, PutInHistory, At, Free
  <2> QED  BY <1>0, <1>1, <1>b, <2>1, <2>2, PutPlain DEF PollInput
<1>2. ASSUME NEW c \in Calls, RecordCall(c) PROVE PairInv'
  <2>1. /\ history' = Append(history, Call(c)) /\ hold' = [hold EXCEPT !["turn"] = Call(c)]
        /\ inflight' = inflight \cup {c} /\ used' = used \cup {c} /\ c \notin used
        /\ UNCHANGED <<log, copy, active>> /\ (Alive' <=> Alive) /\ hold["turn"] = None
    BY <1>0, <1>2 DEF RecordCall, PutInHistory, At, Free, LogKept, Alive
  <2>2. /\ hold'["turn"] = Call(c) /\ hold'["loop"] = hold["loop"]
        /\ hold'["tail"] = hold["tail"]
    BY <1>a, <2>1
  <2>3. \A h : Good(h, used, inflight) => Good(h, used', inflight')
    BY <1>a, <2>1, GoodMore
  <2>4. \A h : Good(h, used, inflight) => Call(c) \notin ToSet(h) /\ Output(c) \notin ToSet(h)
    BY <2>1 DEF Good, NoSurprise
  <2>5. GoodInv'
    <3>1. Good(history, used, inflight)
      BY DEF PairInv, GoodInv
    <3>2. Good(history, used', inflight') /\ Call(c) \notin ToSet(history)
      BY <2>3, <2>4, <3>1
    <3>3. inflight' \in SUBSET used' /\ c \in used' /\ Call(c) \in Items
      BY <1>a, <2>1, ItemTypes
    <3>4. Good(Append(history, Call(c)), used', inflight')
      BY <1>a, <3>2, <3>3, GoodAppend
    <3> QED  BY <2>1, <2>3, <3>4 DEF PairInv, GoodInv
  <2>6. HoldInv'
    BY <2>1, <2>2, PairFacts, EntryFacts DEF PairInv, HoldInv
  <2>7. CallInv'
    <3>1. ToSet(history') = ToSet(history) \cup {Call(c)}
      BY <1>a, <2>1, ItemTypes, ToSetFacts
    <3>2. \A items \in Replays(log) : Call(c) \notin ToSet(items)
      BY <2>4 DEF PairInv, GoodInv
    <3>3. \A d \in inflight : Alive => Call(d) \in ToSet(Replay(log))
      BY <1>a, <1>d, <2>1 DEF PairInv, CallInv
    <3>4. /\ inflight' \subseteq used'
          /\ \A d \in inflight' :
                /\ Call(d) \in ToSet(history')
                /\ Alive' => Call(d) \in ToSet(Replay(log')) \/ hold'["turn"] = Call(d)
      BY <1>a, <2>1, <2>2, <3>1, <3>3 DEF PairInv, CallInv
    <3>5. \A d \in Calls : /\ hold'["turn"] = Call(d) => d = c
                           /\ hold'["turn"] # Output(d)
      BY <2>2, PairFacts
    <3> QED  BY <2>1, <3>2, <3>4, <3>5 DEF CallInv
  <2> QED  BY <2>5, <2>6, <2>7 DEF PairInv
<1>3. ASSUME NEW c \in Calls, RecordOutput(c) PROVE PairInv'
  <2>1. /\ history' = Append(history, Output(c)) /\ hold' = [hold EXCEPT !["turn"] = Output(c)]
        /\ inflight' = inflight \ {c} /\ used' = used /\ c \in inflight
        /\ UNCHANGED <<log, copy, active>> /\ (Alive' <=> Alive) /\ hold["turn"] = None
    BY <1>0, <1>3 DEF RecordOutput, PutInHistory, At, Free, LogKept, Alive
  <2>2. /\ hold'["turn"] = Output(c) /\ hold'["loop"] = hold["loop"]
        /\ hold'["tail"] = hold["tail"]
    BY <1>a, <2>1
  <2>3. \A h : Good(h, used, inflight) => Good(h, used', inflight') /\ Output(c) \notin ToSet(h)
    <3>1. \A h : Good(h, used, inflight) => Good(h, used', inflight')
      BY <1>a, <2>1, GoodMore
    <3> QED  BY <2>1, <3>1 DEF Good, NoSurprise
  <2>4. GoodInv'
    <3>1. Good(history, used, inflight) /\ Call(c) \in ToSet(history)
      BY <2>1 DEF PairInv, GoodInv, CallInv
    <3>2. Good(history, used', inflight') /\ Output(c) \notin ToSet(history)
      BY <2>3, <3>1
    <3>3. inflight' \in SUBSET used' /\ c \in used' \ inflight' /\ Output(c) \in Items
      BY <1>a, <2>1, ItemTypes
    <3>4. Good(Append(history, Output(c)), used', inflight')
      BY <1>a, <3>1, <3>2, <3>3, GoodAppend
    <3> QED  BY <2>1, <2>3, <3>4 DEF PairInv, GoodInv
  <2>5. HoldInv'
    BY <2>1, <2>2, PairFacts, EntryFacts DEF PairInv, HoldInv
  <2>6. CallInv'
    <3>1. ToSet(history') = ToSet(history) \cup {Output(c)}
      BY <1>a, <2>1, ItemTypes, ToSetFacts
    <3>2. \A items \in Replays(log) : Output(c) \notin ToSet(items)
      BY <2>3 DEF PairInv, GoodInv
    <3>3. \A d \in inflight : Alive => Call(d) \in ToSet(Replay(log))
      BY <1>a, <1>d, <2>1 DEF PairInv, CallInv
    <3>4. /\ inflight' \subseteq used'
          /\ \A d \in inflight' :
                /\ Call(d) \in ToSet(history')
                /\ Alive' => Call(d) \in ToSet(Replay(log'))
      BY <1>a, <2>1, <3>1, <3>3 DEF PairInv, CallInv
    <3>5. \A d \in Calls : /\ hold'["turn"] = Output(d) => d = c
                           /\ hold'["turn"] # Call(d)
      BY <2>2, PairFacts
    <3> QED  BY <1>a, <2>1, <3>2, <3>3, <3>4, <3>5 DEF CallInv
  <2> QED  BY <2>4, <2>5, <2>6 DEF PairInv
<1>4. CASE RetryRequest
  <2>1. /\ UNCHANGED <<history, used, copy, hold, active>> /\ inflight' = {}
        /\ hold["turn"] = None
    BY <1>4 DEF RetryRequest, At, Free
  <2>2. hold' = [hold EXCEPT !["turn"] = None]
    BY <2>1 DEF SessionInv, SessionType
  <2> QED  BY <1>0, <1>b, <1>c, <2>1, <2>2, KeepPair
<1>5. CASE AutoCompact \/ RequestSummary
  <2>1. UNCHANGED <<history, used, copy, hold, active, inflight>>
    BY <1>5 DEF AutoCompact, RequestSummary
  <2> QED  BY <1>0, <1>b, <1>c, <2>1, KeepPair
<1>6. CASE RecordDraft
  <2>1. /\ history' = Append(history, Draft) /\ (Alive' <=> Alive)
        /\ UNCHANGED <<log, hold, copy, inflight, used, active>>
    BY <1>0, <1>6 DEF RecordDraft, LogKept, Alive
  <2>2. Draft \in Plain /\ Draft \in Items
    BY PairFacts DEF Plain
  <2>3. Good(Append(history, Draft), used, inflight)
    BY <1>a, <2>2, GoodAppend DEF PairInv, GoodInv
  <2>4. GoodInv'
    BY <2>1, <2>3 DEF PairInv, GoodInv
  <2>5. HoldInv'
    BY <2>1 DEF PairInv, HoldInv
  <2>6. CallInv'
    <3>1. ToSet(history') = ToSet(history) \cup {Draft}
      BY <1>a, <2>1, <2>2, ToSetFacts
    <3> QED  BY <2>1, <3>1 DEF PairInv, CallInv
  <2> QED  BY <2>4, <2>5, <2>6 DEF PairInv
<1>7. CASE CopyLocally \/ CopyRemotely
  <2>1. UNCHANGED <<history, used, hold, active, inflight>>
    BY <1>7 DEF CopyLocally, CopyRemotely
  <2>2. PICK made \in Seq(Plain) : copy' = [copy EXCEPT !["turn"] = made]
    BY <1>7, CopyPlain
  <2>3. copy'["turn"] = made /\ copy'["loop"] = copy["loop"]
    BY <1>a, <2>2
  <2> QED  BY <1>0, <1>b, <1>c, <2>1, <2>2, <2>3, KeepPair
<1>8. CASE ReplaceHistory
  <2> DEFINE e == Compacted(IF remote THEN copy["turn"] ELSE None)
  <2>1. /\ history' = copy["turn"] /\ hold' = [hold EXCEPT !["turn"] = e]
        /\ copy' = [copy EXCEPT !["turn"] = None]
        /\ UNCHANGED <<log, active, inflight, used>>
    BY <1>0, <1>8 DEF ReplaceHistory, LogKept
  <2>2. /\ copy["turn"] \in Seq(Plain) /\ inflight = {}
    BY <1>8, <1>c DEF ReplaceHistory, At, SessionInv, Control
  <2>3. e \in Compactions
    BY <2>2, EntryFacts
  <2> HIDE DEF e
  <2>4. copy'["turn"] = None /\ copy'["loop"] = copy["loop"] /\ hold'["turn"] = e
        /\ hold'["tail"] = hold["tail"] /\ hold'["loop"] = hold["loop"]
    BY <1>a, <2>1
  <2>5. GoodInv'
    <3>1. Good(copy["turn"], used, inflight)
      BY <1>a, <2>2, GoodPlain
    <3> QED  BY <2>1, <2>4, <3>1 DEF PairInv, GoodInv
  <2>6. HoldInv'
    BY <2>1, <2>2, <2>3, <2>4 DEF PairInv, HoldInv
  <2>7. CallInv'
    <3>1. \A d \in Calls : e # Call(d) /\ e # Output(d)
      BY <2>3, PairFacts, EntryFacts
    <3> QED  BY <2>1, <2>2, <2>4, <3>1 DEF CallInv
  <2> QED  BY <2>5, <2>6, <2>7 DEF PairInv
<1>9. CASE FinishTurn
  <2>1. /\ UNCHANGED <<history, hold>> /\ inflight' = {} /\ ~active' /\ used \subseteq used'
        /\ copy' = [copy EXCEPT !["turn"] = None] /\ hold["turn"] = None
    BY <1>9 DEF FinishTurn, Free
  <2>2. /\ hold' = [hold EXCEPT !["turn"] = None]
        /\ copy'["turn"] = None /\ copy'["loop"] = copy["loop"]
    BY <1>a, <2>1 DEF SessionInv, SessionType
  <2> QED  BY <1>0, <1>c, <2>1, <2>2, KeepPair
<1>10. CASE RecordLeftover
  <2>1. Message(arg["tail"]) \in Plain
    BY <1>10, PairFacts DEF RecordLeftover, At, SessionInv, Control
  <2>2. hold'["loop"] = hold["loop"]
    BY <1>a, <1>10 DEF RecordLeftover, PutInHistory
  <2> QED  BY <1>0, <1>10, <1>b, <2>1, <2>2, PutPlain DEF RecordLeftover, At, Free
<1>11. CASE RecordPrompt
  <2>1. Message(prompt) \in Plain
    BY <1>11, PairFacts DEF RecordPrompt, At, SessionInv, Control
  <2>2. hold'["loop"] = hold["loop"]
    BY <1>a, <1>11 DEF RecordPrompt, PutInHistory
  <2> QED  BY <1>0, <1>11, <1>b, <2>1, <2>2, PutPlain DEF RecordPrompt, At, Free
<1> QED
  BY <1>1, <1>2, <1>3, <1>4, <1>5, <1>6, <1>7, <1>8, <1>9, <1>10, <1>11 DEF Turn

\* The recorder gets what a task holds.
LEMMA HeldPair ==
    ASSUME SessionInv, PairInv, NEW c \in Callers, RecordHeld(c)
    PROVE  PairInv'
<1> USE CallersAssumption
<1> DEFINE e == hold[c]
           new == ReplayItem(Replay(log), e)
<1>1. /\ e # None /\ hold' = [hold EXCEPT ![c] = None] /\ (Alive' <=> Alive)
      /\ UNCHANGED <<history, copy, inflight, used, active>>
      /\ DOMAIN hold = Callers /\ log \in Seq(Entries) /\ e \in Entries
      /\ inflight \in SUBSET Calls /\ inflight \in SUBSET used
  BY RecordItemsLog DEF RecordHeld, Alive, SessionInv, SessionType, PairInv, CallInv
<1>2. /\ Alive => log' = Append(log, e)
      /\ ~Alive => log' = log
  BY RecordItemsLog DEF RecordHeld
<1>3. /\ Replay(log) \in Seq(Items) /\ Replay(log) \in Replays(log)
      /\ Good(Replay(log), used, inflight)
  BY <1>1, ReplaysFacts DEF PairInv, GoodInv
<1>4. /\ Alive => Replays(log') \subseteq Replays(log) \cup {new} /\ Replay(log') = new
      /\ ~Alive => Replays(log') = Replays(log)
  BY <1>1, <1>2, ReplaysFacts, ReplayAppend
<1>5. \A d \in Callers : hold'[d] = IF d = c THEN None ELSE hold[d]
  BY <1>1
<1>6. \A d \in Calls : None # Call(d) /\ None # Output(d)
  BY PairFacts, EntryFacts
<1>7. HoldInv'
  BY <1>1, <1>5, EntryFacts DEF PairInv, HoldInv
\* What the replay makes of it.
<1>8. \/ e \in Plain
      \/ e \in Paired /\ c = "turn"
      \/ e \in Rollbacks /\ c = "loop" /\ ~active
      \/ e \in Compactions /\ c = "turn" /\ inflight = {}
  BY <1>1 DEF PairInv, HoldInv
<1> HIDE DEF e
<1>9. CASE e \in Plain
  <2>1. e \in Items /\ new = Append(Replay(log), e)
    BY <1>9, ReplayCases DEF Plain
  <2>2. Good(new, used, inflight)
    BY <1>1, <1>3, <1>9, <2>1, GoodAppend
  <2>3. \A d \in Calls : e # Call(d) /\ e # Output(d)
    BY <1>9, PairFacts, EntryFacts
  <2>4. ToSet(new) = ToSet(Replay(log)) \cup {e}
    BY <1>3, <2>1, ToSetFacts
  <2> HIDE DEF new
  <2>5. GoodInv'
    BY <1>1, <1>4, <2>2 DEF PairInv, GoodInv
  <2>6. \A d \in Calls : /\ hold'["turn"] = Call(d) <=> hold["turn"] = Call(d)
                         /\ hold'["turn"] = Output(d) <=> hold["turn"] = Output(d)
    BY <1>5, <1>6, <2>3 DEF e
  <2>7. CallInv'
    <3>1. \A d \in Calls : /\ Call(d) \in ToSet(new) <=> Call(d) \in ToSet(Replay(log))
                           /\ Output(d) \in ToSet(new) <=> Output(d) \in ToSet(Replay(log))
      BY <2>3, <2>4
    <3>2. \A d \in Calls : /\ (\A items \in Replays(log) : Call(d) \notin ToSet(items))
                              => \A items \in Replays(log') : Call(d) \notin ToSet(items)
                           /\ (\A items \in Replays(log) : Output(d) \notin ToSet(items))
                              => \A items \in Replays(log') : Output(d) \notin ToSet(items)
                           /\ Alive => (Call(d) \in ToSet(Replay(log'))
                                        <=> Call(d) \in ToSet(Replay(log)))
      BY <1>3, <1>4, <3>1
    <3> QED  BY <1>1, <2>6, <3>2 DEF PairInv, CallInv
  <2> QED  BY <1>7, <2>5, <2>7 DEF PairInv
<1>10. CASE e \in Paired /\ c = "turn"
  <2>1. e \in Items /\ new = Append(Replay(log), e)
    BY <1>10, ReplayCases, PairFacts
  <2>2. PICK k \in Calls : e = Call(k) \/ e = Output(k)
    BY <1>10, PairFacts
  <2>3. ToSet(new) = ToSet(Replay(log)) \cup {e}
    BY <1>3, <2>1, ToSetFacts
  <2>4. /\ e = Call(k) => k \in inflight /\ Call(k) \notin ToSet(Replay(log))
        /\ e = Output(k) => /\ k \in used \ inflight /\ Output(k) \notin ToSet(Replay(log))
                            /\ Alive => Call(k) \in ToSet(Replay(log))
    BY <1>3, <1>10 DEF PairInv, CallInv, e
  <2>5. Alive => Good(new, used, inflight)
    BY <1>1, <1>3, <2>1, <2>2, <2>4, GoodAppend
  <2> HIDE DEF new
  <2>6. GoodInv'
    BY <1>1, <1>4, <2>5 DEF PairInv, GoodInv
  <2>7. hold'["turn"] = None /\ hold["turn"] = e
    BY <1>5, <1>10 DEF e
  <2>8. CallInv'
    <3>1. \A d \in inflight : Alive => Call(d) \in ToSet(Replay(log'))
      BY <1>4, <2>3, <2>7 DEF PairInv, CallInv
    <3> QED  BY <1>1, <1>6, <2>7, <3>1 DEF PairInv, CallInv
  <2> QED  BY <1>7, <2>6, <2>8 DEF PairInv
<1>11. CASE \/ e \in Rollbacks /\ c = "loop" /\ ~active
            \/ e \in Compactions /\ c = "turn" /\ inflight = {}
  <2>1. inflight = {} /\ (c = "loop" => hold["turn"] = None)
    BY <1>11 DEF SessionInv, Control
  <2>2. hold'["turn"] = None
    BY <1>5, <1>11, <2>1
  <2>3. Good(new, used, inflight)
    <3>1. CASE e \in Rollbacks
      <4>1. e.turns \in Turns /\ e = RolledBack(e.turns)
        BY <3>1 DEF Rollbacks, RolledBack
      <4>2. new = DropLastTurns(Replay(log), e.turns)
        BY <4>1, ReplayCases
      <4> QED  BY <1>3, <4>1, <4>2, GoodDrop
    <3>2. CASE e \in Compactions
      <4>1. e.replacement \in Seq(Plain) \cup {None} /\ e = Compacted(e.replacement)
        BY <3>2 DEF Compactions, Compacted
      <4>2. CASE e.replacement = None
        BY <1>1, <1>3, <4>1, <4>2, ReplayCases, CompactedPlain, GoodPlain
      <4>3. CASE e.replacement \in Seq(Plain)
        <5>1. e.replacement \in Seq(Items)
          BY <4>3 DEF Plain
        <5>2. new = e.replacement
          BY <4>1, <5>1, ReplayCases
        <5> QED  BY <1>1, <4>3, <5>2, GoodPlain
      <4> QED  BY <4>1, <4>2, <4>3
    <3> QED  BY <1>11, <3>1, <3>2
  <2> HIDE DEF new
  <2>4. GoodInv'
    BY <1>1, <1>4, <2>3 DEF PairInv, GoodInv
  <2>5. CallInv'
    BY <1>1, <1>6, <2>1, <2>2 DEF CallInv
  <2> QED  BY <1>7, <2>4, <2>5 DEF PairInv
<1> QED  BY <1>8, <1>9, <1>10, <1>11

\* The second halves of the steps, the writer, and a crash that brings back a
\* beginning of the rollout.
LEMMA RestPair ==
    ASSUME IInv, SessionInv, PairInv,
           \/ \E c \in Callers : RecordHeld(c) \/ AwaitRecorder(c)
           \/ Writer /\ UNCHANGED session
           \/ CrashAndResume
    PROVE  PairInv'
<1> USE CallersAssumption
<1>1. ASSUME NEW c \in Callers, RecordHeld(c) PROVE PairInv'
  BY <1>1, HeldPair
<1>2. ASSUME NEW c \in Callers, AwaitRecorder(c) PROVE PairInv'
  <2>1. LogKept
    BY <1>2, SessionLog
  <2>2. UNCHANGED <<history, used, copy, hold, active, inflight>>
    BY <1>2 DEF AwaitRecorder
  <2> QED  BY <2>1, <2>2, KeepPair DEF PairInv, HoldInv, GoodInv
<1>3. /\ file = SubSeq(log, 1, Len(file)) /\ Len(file) \in 0..Len(log) /\ log \in Seq(Entries)
  BY FileOfLog DEF SessionInv, SessionType
<1>4. Replays(file) \subseteq Replays(log) /\ Replay(file) \in Replays(log)
  <2>1. Replays(SubSeq(log, 1, Len(file))) \subseteq Replays(log)
    BY <1>3, ReplaysFacts
  <2> QED  BY <1>3, <2>1 DEF Replays
<1>5. CASE Writer /\ UNCHANGED session
  <2>1. UNCHANGED <<history, used, copy, hold, active, inflight>>
    BY <1>5 DEF session
  <2>2. HoldInv'
    BY <2>1 DEF PairInv, HoldInv
  <2>3. CASE log' = log /\ (Alive' => Alive)
    BY <2>1, <2>2, <2>3 DEF PairInv, GoodInv, CallInv
  <2>4. CASE LogCut /\ ~Alive'
    <3>1. GoodInv'
      BY <1>4, <2>1, <2>4 DEF PairInv, GoodInv, LogCut
    <3>2. CallInv'
      BY <1>4, <2>1, <2>4 DEF PairInv, CallInv, LogCut
    <3> QED  BY <2>2, <3>1, <3>2 DEF PairInv
  <2> QED  BY <1>5, <2>3, <2>4, WriterLog
<1>6. CASE CrashAndResume
  <2>1. /\ history' = Replay(file) /\ log' = file /\ used' = used /\ inflight' = {}
        /\ \A c \in Callers : hold'[c] = None /\ copy'[c] = None
    BY <1>6 DEF CrashAndResume, Reopen, Lose
  <2>2. \A h : Good(h, used, inflight) => Good(h, used, {})
    BY GoodMore
  <2>3. GoodInv'
    BY <1>4, <2>1, <2>2 DEF PairInv, GoodInv
  <2>4. HoldInv'
    BY <2>1, EntryFacts DEF HoldInv
  <2>5. CallInv'
    <3>1. \A d \in Calls : None # Call(d) /\ None # Output(d)
      BY PairFacts, EntryFacts
    <3> QED  BY <2>1, <3>1 DEF CallInv
  <2> QED  BY <2>3, <2>4, <2>5 DEF PairInv
<1> QED  BY <1>1, <1>2, <1>5, <1>6

\* Every step keeps calls and outputs paired.
LEMMA StepPair == IInv /\ SessionInv /\ PairInv /\ [Next]_vars => PairInv'
<1> SUFFICES ASSUME IInv, SessionInv, PairInv, [Next]_vars PROVE PairInv'  OBVIOUS
<1>1. CASE UNCHANGED vars
  BY <1>1 DEF vars, recorder, session, PairInv, GoodInv, HoldInv, CallInv, Alive
<1>2. CASE Next
  BY <1>2, LoopPair, TurnPair, RestPair DEF Next
<1> QED  BY <1>1, <1>2

-----------------------------------------------------------------------------
(* Trimming. *)

\* Items left in their order, no call of an output among those left out.
Embeds(g, t, h) ==
    /\ g \in [DOMAIN t -> DOMAIN h]
    /\ \A i, j \in DOMAIN t : i < j => g[i] < g[j]
    /\ \A k \in DOMAIN t : t[k] = h[g[k]]
    /\ \A q \in DOMAIN t, p \in DOMAIN h :
          t[q].kind = "output" /\ h[p] = Call(t[q].id) => \E k \in DOMAIN t : g[k] = p

\* What is embedded in a tidy history is tidy.
LEMMA TidySub ==
    ASSUME NEW h \in Seq(Items), Tidy(h), NEW t \in Seq(Items), NEW g, Embeds(g, t, h)
    PROVE  Tidy(t)
<1>0. /\ g \in [DOMAIN t -> DOMAIN h]
      /\ \A i, j \in DOMAIN t : i < j => g[i] < g[j]
      /\ \A k \in DOMAIN t : t[k] = h[g[k]]
      /\ \A q \in DOMAIN t, p \in DOMAIN h :
            t[q].kind = "output" /\ h[p] = Call(t[q].id) => \E k \in DOMAIN t : g[k] = p
  BY DEF Embeds
<1>1. DOMAIN t = 1..Len(t) /\ DOMAIN h = 1..Len(h) /\ Len(t) \in Nat /\ Len(h) \in Nat
  OBVIOUS
<1>2. ASSUME NEW p \in DOMAIN t, NEW q \in DOMAIN t, t[p] = t[q], t[p] \in Paired
      PROVE  p = q
  <2>1. g[p] = g[q]
    BY <1>0, <1>2 DEF Tidy
  <2>2. ~(p < q) /\ ~(q < p)
    BY <1>0, <1>1, <2>1
  <2> QED  BY <1>1, <2>2
<1>3. ASSUME NEW q \in DOMAIN t, t[q].kind = "output"
      PROVE  \E k \in 1..(q - 1) : t[k] = Call(t[q].id)
  <2>1. PICK p \in 1..(g[q] - 1) : h[p] = Call(h[g[q]].id)
    BY <1>0, <1>3 DEF Tidy
  <2>2. p \in DOMAIN h /\ p < g[q] /\ g[q] \in 1..Len(h)
    BY <1>0, <1>1, <2>1
  <2>3. PICK k \in DOMAIN t : g[k] = p
    BY <1>0, <1>3, <2>1, <2>2
  <2>4. ~(q < k) /\ q # k
    BY <1>0, <1>1, <2>2, <2>3
  <2>5. k \in 1..(q - 1)
    BY <1>1, <2>4
  <2> QED  BY <1>0, <2>1, <2>3, <2>5
<1> QED  BY <1>2, <1>3 DEF Tidy

\* remove_first_item takes the other half of a pair with it.
LEMMA RemoveFirstTidy ==
    ASSUME NEW h \in Seq(Items), Tidy(h)
    PROVE  RemoveFirstItem(h) \in Seq(Items) /\ Tidy(RemoveFirstItem(h))
<1>1. CASE h = <<>>
  BY <1>1 DEF RemoveFirstItem
<1>2. CASE h # <<>>
  <2> DEFINE first == Head(h)
             rest == Tail(h)
             pair == {p \in DOMAIN rest : rest[p] = Counterpart(first)}
             N == Len(h)
  <2>1. /\ rest \in Seq(Items) /\ first \in Items /\ first = h[1] /\ N \in Nat \ {0}
        /\ Len(rest) = N - 1 /\ DOMAIN rest = 1..(N - 1) /\ DOMAIN h = 1..N
        /\ \A k \in 1..(N - 1) : rest[k] = h[k + 1]
    BY <1>2
  <2>2. RemoveFirstItem(h) =
          IF first.kind \in {"call", "output"} /\ pair # {}
            THEN RemoveAt(rest, CHOOSE p \in pair : \A q \in pair : p <= q)
            ELSE rest
    BY <1>2 DEF RemoveFirstItem
  <2> HIDE DEF first, rest, N
  <2>3. first.kind # "output"
    BY <2>1 DEF Tidy
  <2>4. first.kind = "call" => first.id \in Calls /\ first = Call(first.id)
                               /\ Counterpart(first) = Output(first.id)
    BY <2>1, PairFacts DEF Counterpart
  \* The items behind the first one.
  <2>5. ASSUME pair = {} \/ first.kind # "call" PROVE Tidy(rest)
    <3> DEFINE g == [k \in 1..(N - 1) |-> k + 1]
    <3>1. g \in [DOMAIN rest -> DOMAIN h] /\ (\A k \in DOMAIN rest : rest[k] = h[g[k]])
          /\ \A i, j \in DOMAIN rest : i < j => g[i] < g[j]
      BY <2>1
    <3>2. ASSUME NEW q \in DOMAIN rest, NEW p \in DOMAIN h,
                 rest[q].kind = "output", h[p] = Call(rest[q].id)
          PROVE  \E k \in DOMAIN rest : g[k] = p
      <4>1. p # 1
        <5> SUFFICES ASSUME p = 1 PROVE FALSE
          OBVIOUS
        <5>1. first = Call(rest[q].id) /\ rest[q] \in Items
          BY <2>1, <3>2
        <5>2. first.kind = "call" /\ first.id = rest[q].id
          BY <5>1, PairFacts
        <5>3. rest[q] = Output(rest[q].id)
          BY <3>2, <5>1, PairFacts
        <5>4. q \in pair
          BY <2>4, <5>2, <5>3
        <5> QED  BY <2>5, <5>2, <5>4
      <4>2. p - 1 \in DOMAIN rest /\ (p - 1) + 1 = p
        BY <2>1, <4>1
      <4> QED  BY <2>1, <4>2, SMTT(30)
    <3> HIDE DEF g, pair
    <3>3. Embeds(g, rest, h)
      BY <3>1, <3>2 DEF Embeds
    <3> QED  BY <2>1, <3>3, TidySub
  <2>6. CASE first.kind = "call" /\ pair # {}
    <3> DEFINE p == CHOOSE k \in pair : \A q \in pair : k <= q
               t == RemoveAt(rest, p)
    <3>1. \A i, j \in pair : i = j
      <4> SUFFICES ASSUME NEW i \in pair, NEW j \in pair PROVE i = j
        OBVIOUS
      <4>1. /\ h[i + 1] = Output(first.id) /\ h[j + 1] = Output(first.id)
            /\ i + 1 \in DOMAIN h /\ j + 1 \in DOMAIN h /\ i \in Nat /\ j \in Nat
        BY <2>1, <2>4, <2>6
      <4>2. Output(first.id) \in Paired
        BY <2>4, <2>6, PairFacts
      <4>3. i + 1 = j + 1
        BY <4>1, <4>2 DEF Tidy
      <4> QED  BY <4>1, <4>3
    <3>2. pair \subseteq Nat
      BY <2>1
    <3>3. p \in pair
      <4>1. PICK i \in pair : TRUE
        BY <2>6
      <4>2. \A q \in pair : i <= q
        BY <3>1, <3>2
      <4> HIDE DEF pair
      <4> QED  BY <4>1, <4>2
    <3>4. p \in 1..(N - 1) /\ rest[p] = Output(first.id)
      BY <2>1, <2>4, <2>6, <3>3
    <3> HIDE DEF p
    <3>5. /\ t \in Seq(Items) /\ Len(t) = N - 2 /\ DOMAIN t = 1..(N - 2)
          /\ \A k \in 1..(N - 2) : t[k] = IF k < p THEN rest[k] ELSE rest[k + 1]
      <4> DEFINE a == SubSeq(rest, 1, p - 1)
                 b == SubSeq(rest, p + 1, N - 1)
      <4>1. /\ a \in Seq(Items) /\ Len(a) = p - 1 /\ \A k \in 1..(p - 1) : a[k] = rest[k]
        BY <2>1, <3>4
      <4>2. /\ b \in Seq(Items) /\ Len(b) = N - 1 - p
            /\ \A k \in 1..(N - 1 - p) : b[k] = rest[p + k]
        <5>1. p + 1 \in Nat /\ N - 1 \in Nat /\ p + 1 >= 1 /\ N - 1 <= Len(rest)
              /\ N - 1 - p \in Nat
          BY <2>1, <3>4
        <5>2. b \in Seq(Items)
          BY <2>1, <5>1
        <5>3. Len(b) = N - 1 - p
          BY <2>1, <3>4, <5>1
        <5>4. \A k \in 1..(N - 1 - p) : b[k] = rest[(p + 1) + k - 1]
          BY <2>1, <3>4, <5>1
        <5>5. \A k \in 1..(N - 1 - p) : (p + 1) + k - 1 = p + k
          BY <3>4
        <5> QED  BY <5>2, <5>3, <5>4, <5>5, SMTT(30)
      <4>3. t = a \o b
        BY <2>1 DEF RemoveAt
      <4> HIDE DEF a, b, t
      <4>4. /\ t \in Seq(Items) /\ Len(t) = N - 2
            /\ \A k \in 1..(N - 2) : t[k] = IF k <= p - 1 THEN a[k] ELSE b[k - (p - 1)]
        <5>1. /\ a \o b \in Seq(Items) /\ Len(a \o b) = Len(a) + Len(b)
              /\ \A k \in 1..(Len(a) + Len(b)) :
                    (a \o b)[k] = IF k <= Len(a) THEN a[k] ELSE b[k - Len(a)]
          <6>1. a \in Seq(Items) /\ b \in Seq(Items)
            BY <4>1, <4>2
          <6> QED  BY <6>1
        <5>2. Len(a) + Len(b) = N - 2
          BY <2>1, <3>4, <4>1, <4>2
        <5> QED  BY <4>1, <4>3, <5>1, <5>2
      <4>5. ASSUME NEW k \in 1..(N - 2)
            PROVE  t[k] = IF k < p THEN rest[k] ELSE rest[k + 1]
        <5>1. CASE k < p
          BY <2>1, <3>4, <4>1, <4>4, <5>1
        <5>2. CASE ~(k < p)
          <6>1. k - (p - 1) \in 1..(N - 1 - p) /\ p + (k - (p - 1)) = k + 1 /\ ~(k <= p - 1)
            BY <2>1, <3>4, <5>2
          <6> QED  BY <4>2, <4>4, <5>2, <6>1
        <5> QED  BY <5>1, <5>2
      <4> QED  BY <4>4, <4>5
    <3> HIDE DEF t
    <3> DEFINE g == [k \in 1..(N - 2) |-> IF k < p THEN k + 1 ELSE k + 2]
    <3>6. /\ g \in [DOMAIN t -> DOMAIN h]
          /\ \A i, j \in DOMAIN t : i < j => g[i] < g[j]
      BY <2>1, <3>4, <3>5, SMTT(30)
    <3>7. \A k \in DOMAIN t : t[k] = h[g[k]]
      BY <2>1, <3>4, <3>5
    <3>8. ASSUME NEW q \in DOMAIN t, NEW m \in DOMAIN h,
                 t[q].kind = "output", h[m] = Call(t[q].id)
          PROVE  \E k \in DOMAIN t : g[k] = m
      <4>1. m # 1
        <5> SUFFICES ASSUME m = 1 PROVE FALSE
          OBVIOUS
        <5>1. first = Call(t[q].id) /\ t[q] \in Items
          BY <2>1, <3>5, <3>8
        <5>2. first.id = t[q].id
          BY <5>1, PairFacts
        <5>3. t[q] = Output(first.id) /\ t[q] \in Paired
          BY <3>8, <5>1, <5>2, PairFacts
        <5>4. h[g[q]] = h[p + 1] /\ h[g[q]] \in Paired /\ p + 1 \in DOMAIN h
          <6> HIDE DEF g
          <6>1. h[g[q]] = t[q]
            BY <3>7
          <6>2. h[p + 1] = rest[p] /\ p + 1 \in DOMAIN h
            BY <2>1, <3>4
          <6> QED  BY <3>4, <5>3, <6>1, <6>2
        <5>5. g[q] \in DOMAIN h
          BY <3>6
        <5>6. g[q] = p + 1
          BY <5>4, <5>5 DEF Tidy
        <5> QED  BY <2>1, <3>4, <3>5, <5>6
      <4>2. m # p + 1
        <5>1. h[p + 1] = Output(first.id)
          BY <2>1, <3>4
        <5> QED  BY <3>8, <5>1, PairFacts
      <4>3. CASE m < p + 1
        <5>1. m - 1 \in DOMAIN t /\ g[m - 1] = m
          BY <2>1, <3>4, <3>5, <4>1, <4>3, SMTT(30)
        <5> QED  BY <5>1
      <4>4. CASE m > p + 1
        <5>1. m - 2 \in 1..(N - 2) /\ ~(m - 2 < p) /\ (m - 2) + 2 = m
          BY <2>1, <3>4, <4>4
        <5>2. m - 2 \in DOMAIN t /\ g[m - 2] = m
          BY <3>5, <5>1
        <5> QED  BY <5>2
      <4>5. m < p + 1 \/ m = p + 1 \/ m > p + 1
        BY <2>1, <3>4
      <4> HIDE DEF g
      <4> QED  BY <4>2, <4>3, <4>4, <4>5
    <3>9. Tidy(t)
      <4> HIDE DEF g
      <4>1. Embeds(g, t, h)
        BY <3>6, <3>7, <3>8 DEF Embeds
      <4> QED  BY <3>5, <4>1, TidySub
    <3>10. RemoveFirstItem(h) = t
      BY <2>2, <2>6 DEF t, p
    <3> QED  BY <3>5, <3>9, <3>10
  <2> HIDE DEF pair
  <2>7. CASE first.kind # "call" \/ pair = {}
    BY <2>1, <2>2, <2>3, <2>5, <2>7
  <2> QED  BY <2>6, <2>7
<1> QED  BY <1>1, <1>2

TrimmingsOf(f, h) ==
    f = [n \in 0..Len(h) |-> IF n = 0 THEN h ELSE RemoveFirstItem(f[n - 1])]

\* However often remove_first_item trims a tidy history, it stays tidy.
LEMMA TrimmingsTidy ==
    ASSUME NEW h \in Seq(Items), Tidy(h)
    PROVE  \A items \in Range(Trimmings(h)) : items \in Seq(Items) /\ Tidy(items)
<1> DEFINE N == Len(h)
           X == {x \in Seq(Items) : Tidy(x)}
           step == [n \in 1..N |-> [x \in X |-> RemoveFirstItem(x)]]
           f == CHOOSE g : TrimmingsOf(g, h)
<1>1. N \in Nat /\ h \in X
  OBVIOUS
<1>2. step \in [1..N -> [X -> X]]
  <2>1. \A x \in X : RemoveFirstItem(x) \in X
    BY RemoveFirstTidy
  <2> HIDE DEF X
  <2> QED  BY <2>1
<1>3. PICK k : IsRecursion(k, N, X, h, step)
  <2> HIDE DEF N, X, step
  <2> QED  BY <1>1, <1>2, RecursionExists
<1>4. /\ k \in [0..N -> X] /\ k[0] = h
      /\ \A n \in 1..N : k[n] = RemoveFirstItem(k[n - 1])
  <2>1. k \in [0..N -> X] /\ k[0] = h /\ \A n \in 1..N : k[n] = step[n][k[n - 1]]
    BY <1>3 DEF IsRecursion
  <2>2. \A n \in 1..N : k[n - 1] \in X
    <3> HIDE DEF X, step
    <3> QED  BY <1>1, <2>1
  <2> HIDE DEF X
  <2> QED  BY <2>1, <2>2
<1>5. TrimmingsOf(k, h)
  <2> HIDE DEF X, step
  <2> QED  BY <1>1, <1>4 DEF TrimmingsOf
<1>6. TrimmingsOf(f, h)
  <2> HIDE DEF X, step
  <2> QED  BY <1>5
<1>7. Trimmings(h) = f
  BY DEF Trimmings, TrimmingsOf
<1>8. f[0] = h /\ \A n \in 1..N : f[n] = RemoveFirstItem(f[n - 1])
  <2> HIDE DEF f, X, step
  <2>1. \A n \in 0..N : f[n] = IF n = 0 THEN h ELSE RemoveFirstItem(f[n - 1])
    BY <1>6, Zenon DEF TrimmingsOf
  <2> QED  BY <1>1, <2>1
<1>9. Alike(f, k, N)
  <2> HIDE DEF f, X, step
  <2>1. StepAlike(f, k, N)
    BY <1>4, <1>8 DEF StepAlike
  <2> QED  BY <1>1, <2>1, RecursionUnique
<1>10. \A n \in DOMAIN f : f[n] \in X
  <2> HIDE DEF f, X, step
  <2>1. DOMAIN f = 0..N
    BY <1>6 DEF TrimmingsOf
  <2> QED  BY <1>4, <1>9, <2>1 DEF Alike
<1> QED  BY <1>7, <1>10 DEF Range

\* A tidy history has no output without its call.
LEMMA TidyNoOrphans ==
    ASSUME NEW h \in Seq(Items), Tidy(h)
    PROVE  NoOrphans(h)
<1> SUFFICES ASSUME NEW q \in DOMAIN h, h[q].kind = "output"
             PROVE  Contains(h, Call(h[q].id))
  BY DEF NoOrphans, IsOrphan
<1>1. PICK p \in 1..(q - 1) : h[p] = Call(h[q].id)
  BY DEF Tidy
<1>2. p \in 1..Len(h)
  OBVIOUS
<1> QED  BY <1>1, <1>2 DEF Contains

-----------------------------------------------------------------------------
(* The prompt. *)

\* Keeping everything.
LEMMA KeepAll ==
    ASSUME NEW E, NEW S
    PROVE  \A s \in Seq(E) : ToSet(s) \subseteq S => Keep(s, S) = s
<1> DEFINE P == {s \in Seq(E) : ToSet(s) \subseteq S => Keep(s, S) = s}
<1>1. <<>> \in P
  <2>1. <<>> \in Seq(E)
    OBVIOUS
  <2> QED  BY <2>1, KeepEmpty, Zenon
<1>2. ASSUME NEW s \in Seq(E), NEW e \in E, s \in P PROVE Append(s, e) \in P
  <2>1. ToSet(Append(s, e)) = ToSet(s) \cup {e}
    BY ToSetFacts
  <2>2. Keep(Append(s, e), S) = IF e \in S THEN Append(Keep(s, S), e) ELSE Keep(s, S)
    BY KeepAppend
  <2>3. ToSet(s) \subseteq S => Keep(s, S) = s
    BY <1>2
  <2>4. Append(s, e) \in Seq(E)
    OBVIOUS
  <2> QED  BY <2>1, <2>2, <2>3, <2>4
<1>3. Seq(E) \subseteq P
  <2> HIDE DEF P
  <2> QED  BY <1>1, <1>2, SeqInduction
<1> QED  BY <1>3

Answers(h, n) == IF n \in Unanswered(h) THEN <<h[n], Output(h[n].id)>> ELSE <<h[n]>>
EnsureOf(f, h) ==
    f = [n \in 0..Len(h) |->
           IF n = 0 THEN <<>>
           ELSE f[n - 1] \o IF n \in Unanswered(h) THEN <<h[n], Output(h[n].id)>>
                                                   ELSE <<h[n]>>]
EnsureIs(f, h) ==
    /\ f \in [0..Len(h) -> Seq(Items)]
    /\ EnsureCallOutputs(h) = f[Len(h)]
    /\ f[0] = <<>>
    /\ \A n \in 1..Len(h) : f[n] = f[n - 1] \o Answers(h, n)

\* The calls ensure_call_outputs_present answers.
LEMMA UnansweredFacts ==
    ASSUME NEW h \in Seq(Items), NEW n \in Unanswered(h)
    PROVE  /\ n \in 1..Len(h) /\ h[n].id \in Calls /\ h[n] = Call(h[n].id)
           /\ Output(h[n].id) \notin ToSet(h) /\ Output(h[n].id) \in Items
<1>1. n \in 1..Len(h) /\ h[n].kind = "call" /\ ~Contains(h, Output(h[n].id))
  BY DEF Unanswered
<1>2. h[n].id \in Calls /\ h[n] = Call(h[n].id)
  <2>1. h[n] \in Items
    BY <1>1
  <2> QED  BY <1>1, <2>1, PairFacts
<1>3. Output(h[n].id) \notin ToSet(h)
  BY <1>1 DEF Contains, ToSet
<1> QED  BY <1>1, <1>2, <1>3, ItemTypes

\* The recursive definition of EnsureCallOutputs, unfolded.
LEMMA EnsureUnfold ==
    ASSUME NEW h \in Seq(Items)
    PROVE  \E f : EnsureIs(f, h)
<1> DEFINE N == Len(h)
           X == Seq(Items)
           step == [n \in 1..N |-> [x \in X |-> x \o Answers(h, n)]]
           f == CHOOSE g : EnsureOf(g, h)
<1>1. N \in Nat /\ <<>> \in X
  OBVIOUS
<1>2. step \in [1..N -> [X -> X]]
  <2>1. ASSUME NEW n \in 1..N PROVE Answers(h, n) \in Seq(Items)
    <3>1. h[n] \in Items /\ (n \in Unanswered(h) => Output(h[n].id) \in Items)
      BY UnansweredFacts
    <3> QED  BY <3>1 DEF Answers
  <2>2. \A n \in 1..N, x \in X : x \o Answers(h, n) \in X
    BY <2>1
  <2> HIDE DEF X
  <2> QED  BY <2>2
<1>3. PICK k : IsRecursion(k, N, X, <<>>, step)
  <2> HIDE DEF N, X, step
  <2> QED  BY <1>1, <1>2, RecursionExists
<1>4. /\ k \in [0..N -> X] /\ k[0] = <<>>
      /\ \A n \in 1..N : k[n] = k[n - 1] \o Answers(h, n)
  <2>1. k \in [0..N -> X] /\ k[0] = <<>> /\ \A n \in 1..N : k[n] = step[n][k[n - 1]]
    BY <1>3 DEF IsRecursion
  <2>2. \A n \in 1..N : k[n - 1] \in X
    <3> HIDE DEF X, step
    <3> QED  BY <1>1, <2>1
  <2> HIDE DEF X
  <2> QED  BY <2>1, <2>2
<1>5. EnsureOf(k, h)
  <2> HIDE DEF X, step
  <2> QED  BY <1>1, <1>4 DEF EnsureOf, Answers
<1>6. EnsureOf(f, h)
  <2> HIDE DEF X, step
  <2> QED  BY <1>5
<1>7. EnsureCallOutputs(h) = f[N]
  BY DEF EnsureCallOutputs, EnsureOf
<1>8. f[0] = <<>> /\ \A n \in 1..N : f[n] = f[n - 1] \o Answers(h, n)
  <2> HIDE DEF f, X, step
  <2>1. \A n \in 0..N : f[n] = IF n = 0 THEN <<>> ELSE f[n - 1] \o Answers(h, n)
    BY <1>6, Zenon DEF EnsureOf, Answers
  <2>2. 0 \in 0..N /\ \A n \in 1..N : n \in 0..N /\ n # 0
    BY <1>1
  <2> QED  BY <2>1, <2>2, Zenon
<1>9. Alike(f, k, N)
  <2> HIDE DEF f, X, step
  <2>1. StepAlike(f, k, N)
    BY <1>4, <1>8 DEF StepAlike
  <2> QED  BY <1>1, <2>1, RecursionUnique
<1>10. f \in [0..N -> X]
  <2> HIDE DEF f, X, step
  <2> QED  BY <1>1, <1>4, <1>6, <1>9 DEF EnsureOf, Alike
<1> QED  BY <1>7, <1>8, <1>10 DEF EnsureIs

\* What the prompt has got from the first n items.
Ensured(x, h, n) ==
    /\ Tidy(x)
    /\ ToSet(x) = ToSet(SubSeq(h, 1, n))
                  \cup {Output(h[p].id) : p \in {q \in Unanswered(h) : q <= n}}
    /\ WithoutOutputs(x) = WithoutOutputs(SubSeq(h, 1, n))

\* One more item, and its answer if it is a call that has none.
LEMMA EnsuredStep ==
    ASSUME NEW h \in Seq(Items), Tidy(h), NEW n \in 1..Len(h), NEW x \in Seq(Items),
           Ensured(x, h, n - 1)
    PROVE  Ensured(x \o Answers(h, n), h, n)
<1> DEFINE i == h[n]
           g == SubSeq(h, 1, n - 1)
           U == Unanswered(h)
           Added(m) == {Output(h[p].id) : p \in {q \in U : q <= m}}
           W == Items \ [kind : {"output"}, id : Calls]
<1>1. /\ i \in Items /\ g \in Seq(Items) /\ SubSeq(h, 1, n) = Append(g, i)
      /\ \A p \in 1..(n - 1) : p \in DOMAIN h /\ g[p] = h[p]
      /\ DOMAIN g = 1..(n - 1) /\ DOMAIN h = 1..Len(h) /\ Len(h) \in Nat
      /\ SubSeq(h, 1, n) \in Seq(Items)
  OBVIOUS
<1>2. /\ Tidy(x) /\ ToSet(x) = ToSet(g) \cup Added(n - 1) /\ Keep(x, W) = Keep(g, W)
  BY DEF Ensured, WithoutOutputs
<1>3. \A q \in U : /\ q \in 1..Len(h) /\ h[q].id \in Calls /\ h[q] = Call(h[q].id)
                   /\ Output(h[q].id) \notin ToSet(h) /\ Output(h[q].id) \in Items
  BY UnansweredFacts
<1>4. \A p \in 1..Len(h) : h[p] \in ToSet(h)
  BY <1>1 DEF ToSet
<1>5. ToSet(g) \subseteq ToSet(h)
  BY ToSetFacts
<1>6. i \in Paired => i \notin ToSet(x)
  <2> SUFFICES ASSUME i \in Paired PROVE i \notin ToSet(x)
    OBVIOUS
  <2>1. i \notin ToSet(g)
    <3> SUFFICES ASSUME NEW p \in 1..(n - 1), h[p] = i PROVE FALSE
      BY <1>1 DEF ToSet
    <3>1. p = n
      BY <1>1 DEF Tidy
    <3> QED  BY <3>1
  <2>2. i \notin Added(n - 1)
    BY <1>3, <1>4
  <2> QED  BY <1>2, <2>1, <2>2
<1>7. i.kind = "output" => Call(i.id) \in ToSet(x)
  <2> SUFFICES ASSUME i.kind = "output" PROVE Call(i.id) \in ToSet(g)
    BY <1>2
  <2>1. PICK p \in 1..(n - 1) : h[p] = Call(i.id)
    BY <1>1 DEF Tidy
  <2> QED  BY <1>1, <2>1 DEF ToSet
<1> DEFINE y == Append(x, i)
<1>8. Tidy(y) /\ y \in Seq(Items)
  BY <1>1, <1>2, <1>6, <1>7, TidyAppend
<1>9. ToSet(y) = ToSet(x) \cup {i} /\ ToSet(SubSeq(h, 1, n)) = ToSet(g) \cup {i}
  <2> HIDE DEF g
  <2> QED  BY <1>1, ToSetFacts
<1>10. Keep(y, W) = Keep(SubSeq(h, 1, n), W)
  <2> HIDE DEF W, g
  <2>1. Keep(y, W) = IF i \in W THEN Append(Keep(x, W), i) ELSE Keep(x, W)
    BY <1>1, KeepAppend
  <2>2. Keep(Append(g, i), W) = IF i \in W THEN Append(Keep(g, W), i) ELSE Keep(g, W)
    BY <1>1, KeepAppend
  <2>3. SubSeq(h, 1, n) = Append(g, i) /\ Keep(x, W) = Keep(g, W)
    BY <1>1, <1>2
  <2>4. Keep(SubSeq(h, 1, n), W) = Keep(Append(g, i), W)
    BY <2>3, Zenon
  <2>5. Keep(y, W) = Keep(Append(g, i), W)
    <3>1. CASE i \in W
      BY <2>1, <2>2, <2>3, <3>1, Zenon
    <3>2. CASE i \notin W
      BY <2>1, <2>2, <2>3, <3>2, Zenon
    <3> QED  BY <3>1, <3>2
  <2> QED  BY <2>4, <2>5, Zenon
<1>11. CASE n \notin U
  <2>1. Answers(h, n) = <<i>>
    BY <1>11 DEF Answers
  <2>2. x \o Answers(h, n) = y
    BY <1>1, <2>1
  <2>3. Added(n) = Added(n - 1)
    <3>1. \A q \in U : q <= n <=> q <= n - 1
      BY <1>3, <1>11
    <3> QED  BY <3>1
  <2> HIDE DEF y, Added, W
  <2>4. ToSet(y) = ToSet(SubSeq(h, 1, n)) \cup Added(n)
    BY <1>2, <1>9, <2>3
  <2> QED  BY <1>8, <1>10, <2>2, <2>4 DEF Ensured, WithoutOutputs, W, Added
<1>12. CASE n \in U
  <2> DEFINE o == Output(i.id)
             z == Append(y, o)
  <2>1. Answers(h, n) = <<i, o>>
    BY <1>12 DEF Answers
  <2>2. /\ o \in Items /\ o \notin ToSet(h) /\ i.id \in Calls /\ i = Call(i.id)
        /\ o.kind = "output" /\ o.id = i.id /\ i \in Paired
    BY <1>3, <1>12, PairFacts
  <2>3. x \o Answers(h, n) = z
    <3> HIDE DEF o
    <3> QED  BY <1>1, <2>1, <2>2
  <2>4. o \notin ToSet(y)
    <3>1. o \notin ToSet(g) /\ o # i
      BY <1>4, <1>5, <2>2
    <3>2. o \notin Added(n - 1)
      <4> SUFFICES ASSUME NEW q \in U, q <= n - 1, Output(h[q].id) = o PROVE FALSE
        OBVIOUS
      <4>1. h[q].id = i.id
        BY PairFacts
      <4>2. h[q] = h[n] /\ q \in DOMAIN h
        BY <1>1, <1>3, <2>2, <4>1
      <4>3. q = n
        BY <1>1, <2>2, <4>2 DEF Tidy
      <4> QED  BY <1>1, <4>3
    <3> QED  BY <1>2, <1>9, <3>1, <3>2
  <2> HIDE DEF o
  <2>5. Call(o.id) \in ToSet(y)
    BY <1>9, <2>2
  <2>6. Tidy(z) /\ ToSet(z) = ToSet(y) \cup {o}
    <3> HIDE DEF y
    <3>1. Tidy(Append(y, o))
      BY <1>8, <2>2, <2>4, <2>5, TidyAppend
    <3> QED  BY <1>8, <2>2, <3>1, ToSetFacts
  <2>7. Added(n) = Added(n - 1) \cup {o}
    <3>1. \A q \in U : q <= n <=> (q <= n - 1 \/ q = n)
      BY <1>3
    <3> QED  BY <1>12, <3>1 DEF o
  <2>8. Keep(z, W) = Keep(y, W)
    <3>1. o \notin W
      BY <2>2 DEF o, Output, Item
    <3> HIDE DEF W, y
    <3> QED  BY <1>8, <2>2, <3>1, KeepAppend
  <2> HIDE DEF y, z, Added, W
  <2>9. ToSet(z) = ToSet(SubSeq(h, 1, n)) \cup Added(n)
    BY <1>2, <1>9, <2>6, <2>7
  <2> QED  BY <1>10, <2>3, <2>6, <2>8, <2>9 DEF Ensured, WithoutOutputs, W, Added
<1> QED  BY <1>11, <1>12

\* What ensure_call_outputs_present makes of a tidy history.
LEMMA EnsureFacts ==
    ASSUME NEW h \in Seq(Items), Tidy(h)
    PROVE  EnsureCallOutputs(h) \in Seq(Items) /\ Ensured(EnsureCallOutputs(h), h, Len(h))
<1>1. PICK f : EnsureIs(f, h)
  BY EnsureUnfold
<1> DEFINE S == {n \in Nat : n <= Len(h) => Ensured(f[n], h, n)}
<1>2. 0 \in S
  <2>1. f[0] = <<>> /\ SubSeq(h, 1, 0) = <<>> /\ <<>> \in Seq(Plain)
    BY <1>1 DEF EnsureIs
  <2>2. Tidy(<<>>)
    BY <2>1, TidyPlain
  <2>3. {q \in Unanswered(h) : q <= 0} = {}
    BY DEF Unanswered
  <2> QED  BY <2>1, <2>2, <2>3 DEF Ensured
<1>3. ASSUME NEW n \in Nat, n \in S PROVE n + 1 \in S
  <2> SUFFICES ASSUME n + 1 <= Len(h) PROVE Ensured(f[n + 1], h, n + 1)
    OBVIOUS
  <2>1. n + 1 \in 1..Len(h) /\ (n + 1) - 1 = n /\ n \in 0..Len(h) /\ n <= Len(h)
    OBVIOUS
  <2>2. f[n + 1] = f[n] \o Answers(h, n + 1) /\ f[n] \in Seq(Items)
    BY <1>1, <2>1 DEF EnsureIs
  <2>3. Ensured(f[n], h, n)
    BY <1>3, <2>1
  <2>4. Ensured(f[n] \o Answers(h, n + 1), h, n + 1)
    BY <2>1, <2>2, <2>3, EnsuredStep
  <2> QED  BY <2>2, <2>4
<1>4. Nat \subseteq S
  <2> HIDE DEF S
  <2> QED  BY <1>2, <1>3, SetInduction
<1>5. Len(h) \in Nat
  OBVIOUS
<1>6. Ensured(f[Len(h)], h, Len(h))
  BY <1>4, <1>5
<1>7. f[Len(h)] \in Seq(Items)
  BY <1>1, <1>5 DEF EnsureIs
<1> QED  BY <1>1, <1>6, <1>7 DEF EnsureIs

\* A prompt made of a tidy conversation.
LEMMA PromptFacts ==
    ASSUME NEW h \in Seq(Items), Tidy(h)
    PROVE  /\ Answered(ForPrompt(h))
           /\ WithoutOutputs(ForPrompt(h)) = WithoutOutputs(h)
<1> DEFINE x == EnsureCallOutputs(h)
<1>1. x \in Seq(Items) /\ Tidy(x) /\ WithoutOutputs(x) = WithoutOutputs(h)
      /\ ToSet(x) = ToSet(h) \cup {Output(h[p].id) : p \in Unanswered(h)}
  <2>1. SubSeq(h, 1, Len(h)) = h
    OBVIOUS
  <2>2. {q \in Unanswered(h) : q <= Len(h)} = Unanswered(h)
    BY DEF Unanswered
  <2> QED  BY <2>1, <2>2, EnsureFacts DEF Ensured
<1> HIDE DEF x
<1>2. ForPrompt(h) = x
  <2> DEFINE S == {i \in Items : ~IsOrphan(x, i)}
  <2>1. ToSet(x) \subseteq S
    <3>1. \A p \in DOMAIN x : x[p] \in Items /\ ~IsOrphan(x, x[p])
      BY <1>1, TidyNoOrphans DEF NoOrphans
    <3> QED  BY <3>1 DEF ToSet
  <2> HIDE DEF S
  <2>2. Keep(x, S) = x
    BY <1>1, <2>1, KeepAll
  <2> QED  BY <2>2 DEF ForPrompt, RemoveOrphans, x, S
<1>3. ASSUME NEW p \in DOMAIN x, x[p].kind = "call"
      PROVE  Cardinality({q \in DOMAIN x : x[q] = Output(x[p].id)}) = 1
  <2> DEFINE c == x[p].id
             Q == {q \in DOMAIN x : x[q] = Output(c)}
  <2>1. x[p] = Call(c) /\ c \in Calls /\ x[p] \in ToSet(x)
    <3>1. x[p] \in Items /\ x[p] \in ToSet(x)
      BY <1>1 DEF ToSet
    <3> QED  BY <1>3, <3>1, PairFacts
  <2> HIDE DEF c
  <2>2. Output(c) \in ToSet(x)
    <3>1. Call(c) \in ToSet(h)
      <4>1. \A d : Call(c) # Output(d)
        BY PairFacts
      <4> QED  BY <1>1, <2>1, <4>1
    <3>2. PICK m \in DOMAIN h : h[m] = Call(c)
      BY <3>1 DEF ToSet
    <3>3. h[m].kind = "call" /\ h[m].id = c
      BY <3>2, PairFacts
    <3>4. CASE Contains(h, Output(c))
      <4>1. PICK r \in 1..Len(h) : h[r] = Output(c)
        BY <3>4 DEF Contains
      <4>2. r \in DOMAIN h
        OBVIOUS
      <4>3. Output(c) \in ToSet(h)
        BY <4>1, <4>2, Zenon DEF ToSet
      <4> QED  BY <1>1, <4>3
    <3>5. CASE ~Contains(h, Output(c))
      <4>1. m \in Unanswered(h)
        BY <3>3, <3>5 DEF Unanswered
      <4>2. Output(h[m].id) = Output(c)
        BY <3>3
      <4>3. Output(c) \in {Output(h[r].id) : r \in Unanswered(h)}
        BY <4>1, <4>2, Zenon
      <4> QED  BY <1>1, <4>3
    <3> QED  BY <3>4, <3>5
  <2>3. PICK q \in DOMAIN x : x[q] = Output(c)
    BY <2>2 DEF ToSet
  <2>4. Output(c) \in Paired
    BY <2>1, PairFacts
  <2>5. \A r \in DOMAIN x : x[r] = Output(c) => r = q
    BY <1>1, <2>3, <2>4 DEF Tidy
  <2>6. Q = {q}
    BY <2>3, <2>5
  <2>7. Cardinality({q}) = 1
    BY FS_Singleton
  <2> QED  BY <2>6, <2>7 DEF c
<1>4. \A q \in DOMAIN x : x[q].kind = "output" => \E p \in 1..(q - 1) : x[p] = Call(x[q].id)
  BY <1>1 DEF Tidy
<1>5. Answered(x)
  BY <1>3, <1>4 DEF Answered
<1> QED  BY <1>1, <1>2, <1>5

\* Calls and outputs in every reachable state.
LEMMA PairInvariance == Spec => [](IInv /\ SessionInv /\ PairInv)
<1>1. Init => SessionInv /\ PairInv
  BY InitSession, InitPair
<1>2. IInv /\ SessionInv /\ PairInv /\ [Next]_vars => (SessionInv /\ PairInv)'
  BY StepSession, StepPair
<1> QED  BY Invariance, <1>1, <1>2, PTL DEF Spec

\* Whatever has been rolled back, compacted, aborted or lost in a crash, a prompt
\* (for_prompt) answers every call once, after it, and keeps everything else in
\* order; and the trimming of a compaction leaves no output without its call, as
\* normalize.rs asserts: for any inputs, calls and bounds, races included.
THEOREM PromptsAreBalanced == Spec => []PromptsBalanced
<1>1. SessionInv /\ PairInv => PromptsBalanced
  <2> SUFFICES ASSUME SessionInv, PairInv PROVE PromptsBalanced
    OBVIOUS
  <2>1. history \in Seq(Items) /\ Tidy(history)
    BY DEF SessionInv, SessionType, PairInv, GoodInv, Good
  <2>2. \A items \in Range(Trimmings(history)) : NoOrphans(items)
    BY <2>1, TrimmingsTidy, TidyNoOrphans
  <2> QED  BY <2>1, <2>2, PromptFacts DEF PromptsBalanced
<1> QED  BY PairInvariance, <1>1, PTL

-----------------------------------------------------------------------------
(* Forks: the count of the messages. *)

\* A step of the count makes positions of positions.
LEMMA CountItemType ==
    ASSUME NEW positions \in Seq(Nat), NEW e \in Entries, NEW p \in Nat
    PROVE  CountItem(positions, e, p) \in Seq(Nat)
<1>1. CASE e.kind = "user"
  BY <1>1 DEF CountItem
<1>2. CASE e.kind = "rollback"
  <2>1. e.turns \in Nat
    BY <1>2 DEF Entries, Items
  <2>2. CountItem(positions, e, p) = SubSeq(positions, 1, Len(positions) - e.turns)
    BY <1>2 DEF CountItem
  <2> QED  BY <2>1, <2>2
<1>3. CASE e.kind \notin {"user", "rollback"}
  BY <1>3 DEF CountItem
<1> QED  BY <1>1, <1>2, <1>3

CountOf(f, s) ==
    f = [n \in 0..Len(s) |-> IF n = 0 THEN <<>> ELSE CountItem(f[n - 1], s[n], n)]

CountIs(f, s) ==
    /\ f \in [0..Len(s) -> Seq(Nat)]
    /\ UserPositions(s) = f[Len(s)]
    /\ f[0] = <<>>
    /\ \A n \in 1..Len(s) : f[n] = CountItem(f[n - 1], s[n], n)

\* The recursive definition of UserPositions, unfolded.
LEMMA CountUnfold ==
    ASSUME NEW s \in Seq(Entries)
    PROVE  \E f : CountIs(f, s)
<1> DEFINE N == Len(s)
           X == Seq(Nat)
           step == [n \in 1..N |-> [x \in X |-> CountItem(x, s[n], n)]]
           f == CHOOSE g : CountOf(g, s)
<1>1. N \in Nat /\ <<>> \in X
  OBVIOUS
<1>2. step \in [1..N -> [X -> X]]
  <2>1. \A n \in 1..N : s[n] \in Entries /\ n \in Nat
    OBVIOUS
  <2>2. \A n \in 1..N, x \in X : CountItem(x, s[n], n) \in X
    BY <2>1, CountItemType
  <2> HIDE DEF X
  <2> QED  BY <2>2
<1>3. PICK h : IsRecursion(h, N, X, <<>>, step)
  <2> HIDE DEF N, X, step
  <2> QED  BY <1>1, <1>2, RecursionExists
<1>4. /\ h \in [0..N -> X] /\ h[0] = <<>>
      /\ \A n \in 1..N : h[n] = CountItem(h[n - 1], s[n], n)
  <2>1. h \in [0..N -> X] /\ h[0] = <<>> /\ \A n \in 1..N : h[n] = step[n][h[n - 1]]
    BY <1>3 DEF IsRecursion
  <2>2. \A n \in 1..N : h[n - 1] \in X
    <3> HIDE DEF X, step
    <3> QED  BY <1>1, <2>1
  <2> HIDE DEF X
  <2> QED  BY <2>1, <2>2
<1>5. CountOf(h, s)
  <2> HIDE DEF X, step
  <2> QED  BY <1>1, <1>4 DEF CountOf
<1>6. CountOf(f, s)
  <2> HIDE DEF X, step
  <2> QED  BY <1>5
<1>7. UserPositions(s) = f[N]
  BY DEF UserPositions, CountOf
<1>8. f[0] = <<>> /\ \A n \in 1..N : f[n] = CountItem(f[n - 1], s[n], n)
  <2> HIDE DEF f, X, step
  <2>1. \A n \in 0..N : f[n] = IF n = 0 THEN <<>> ELSE CountItem(f[n - 1], s[n], n)
    BY <1>6, Zenon DEF CountOf
  <2> QED  BY <1>1, <2>1
<1>9. Alike(f, h, N)
  <2> HIDE DEF f, X, step
  <2>1. StepAlike(f, h, N)
    BY <1>4, <1>8 DEF StepAlike
  <2> QED  BY <1>1, <2>1, RecursionUnique
<1>10. f \in [0..N -> X]
  <2> HIDE DEF f, X, step
  <2> QED  BY <1>1, <1>4, <1>6, <1>9 DEF CountOf, Alike
<1> QED  BY <1>7, <1>8, <1>10 DEF CountIs

\* A new rollout has no messages.
LEMMA CountEmpty == UserPositions(<<>>) = <<>>
<1> DEFINE s == <<>>
<1>1. s \in Seq(Entries) /\ Len(s) = 0
  OBVIOUS
<1> HIDE DEF s
<1>2. PICK f : CountIs(f, s)
  BY <1>1, CountUnfold
<1>3. UserPositions(s) = <<>>
  BY <1>1, <1>2 DEF CountIs
<1> QED  BY <1>3 DEF s

\* One entry more is one step of the count more.
LEMMA CountAppend ==
    ASSUME NEW s \in Seq(Entries), NEW e \in Entries
    PROVE  UserPositions(Append(s, e)) = CountItem(UserPositions(s), e, Len(s) + 1)
<1> DEFINE t == Append(s, e)
           N == Len(s)
<1>1. /\ t \in Seq(Entries) /\ Len(t) = N + 1 /\ N \in Nat
      /\ \A n \in 1..N : t[n] = s[n]
      /\ t[N + 1] = e
  OBVIOUS
<1> HIDE DEF t
<1>2. PICK f : CountIs(f, s)
  BY CountUnfold
<1>3. PICK g : CountIs(g, t)
  BY <1>1, CountUnfold
<1>4. StepAlike(f, g, N)
  BY <1>1, <1>2, <1>3 DEF StepAlike, CountIs
<1>5. f[N] = g[N]
  BY <1>1, <1>4, RecursionUnique DEF Alike
<1>6. N + 1 \in 1..(N + 1) /\ (N + 1) - 1 = N
  BY <1>1
<1>7. g[N + 1] = CountItem(g[N], e, N + 1)
  BY <1>1, <1>3, <1>6 DEF CountIs
<1>8. UserPositions(t) = CountItem(UserPositions(s), e, N + 1)
  BY <1>1, <1>2, <1>3, <1>5, <1>7 DEF CountIs
<1> QED  BY <1>8 DEF t, N

-----------------------------------------------------------------------------
(* The messages of a history. *)

\* One item more is one message more, or none.
LEMMA MessagesAppend ==
    ASSUME NEW h \in Seq(Items), NEW i \in Items
    PROVE  /\ MessagesOf(h) \in Seq(UserMessages)
           /\ MessagesOf(Append(h, i)) = IF i \in UserMessages THEN Append(MessagesOf(h), i)
                                         ELSE MessagesOf(h)
<1>1. Items \cap UserMessages = UserMessages
  BY ItemTypes
<1>2. Keep(h, UserMessages) \in Seq(Items \cap UserMessages)
  BY KeepType
<1> QED  BY <1>1, <1>2, KeepAppend DEF MessagesOf

\* What is left when the last elements are cut off a sequence.
IsCut(c, s, n, S) ==
    /\ c \in Seq(S) /\ Len(c) = IF n <= Len(s) THEN Len(s) - n ELSE 0
    /\ \A k \in 1..Len(c) : k \in 1..Len(s) /\ c[k] = s[k]

\* SubSeq cuts them off, also when there are fewer than that.
LEMMA CutFacts ==
    ASSUME NEW S, NEW s \in Seq(S), NEW n \in Nat
    PROVE  IsCut(SubSeq(s, 1, Len(s) - n), s, n, S)
<1> DEFINE c == SubSeq(s, 1, Len(s) - n)
<1>1. Len(s) \in Nat
  OBVIOUS
<1>2. /\ c \in Seq(S) /\ Len(c) = IF n <= Len(s) THEN Len(s) - n ELSE 0
      /\ \A k \in 1..Len(c) : c[k] = s[k]
  OBVIOUS
<1> HIDE DEF c
<1>3. Len(c) \in Nat /\ Len(c) <= Len(s)
  BY <1>1, <1>2
<1>4. IsCut(c, s, n, S)
  BY <1>1, <1>2, <1>3 DEF IsCut
<1> QED  BY <1>4 DEF c

\* A rollback of a conversation without summaries removes as many messages as turns.
LEMMA MessagesDrop ==
    ASSUME NEW h \in Seq(Items), Summary \notin ToSet(h), NEW n \in Nat \ {0}
    PROVE  MessagesOf(DropLastTurns(h, n)) =
             SubSeq(MessagesOf(h), 1, Len(MessagesOf(h)) - n)
<1> DEFINE NoTurns(g) == Places(g, UserTurns) = <<>>
           Cut(m, k) == SubSeq(m, 1, Len(m) - k)
           Drops(g) == /\ NoTurns(g) <=> MessagesOf(g) = <<>>
                       /\ \A k \in Nat \ {0} :
                             MessagesOf(DropLastTurns(g, k)) = Cut(MessagesOf(g), k)
           P == {g \in Seq(Items) : Summary \notin ToSet(g) => Drops(g)}
<1>0. \A k \in Nat \ {0} : Cut(<<>>, k) = <<>>
  OBVIOUS
<1>1. <<>> \in P
  <2>1. <<>> \in Seq(Items)
    OBVIOUS
  <2>2. MessagesOf(<<>>) = <<>> /\ NoTurns(<<>>)
    BY KeepEmpty, PlacesEmpty DEF MessagesOf
  <2>3. \A k : DropLastTurns(<<>>, k) = <<>>
    BY PlacesEmpty DEF DropLastTurns
  <2> HIDE DEF Cut, NoTurns
  <2> QED  BY <1>0, <2>1, <2>2, <2>3, Zenon
<1>2. ASSUME NEW g \in Seq(Items), NEW i \in Items, g \in P PROVE Append(g, i) \in P
  <2> DEFINE t == Append(g, i)
             M == MessagesOf(g)
  <2> SUFFICES ASSUME Summary \notin ToSet(t) PROVE Drops(t)
    OBVIOUS
  <2>1. ToSet(t) = ToSet(g) \cup {i}
    BY ToSetFacts
  <2>2. i # Summary /\ Drops(g)
    BY <1>2, <2>1
  <2>3. M \in Seq(UserMessages)
        /\ MessagesOf(t) = IF i \in UserMessages THEN Append(M, i) ELSE M
    BY MessagesAppend
  <2>4. i \in UserTurns <=> i \in UserMessages
    BY <2>2 DEF UserTurns
  <2>5. Places(t, UserTurns) = IF i \in UserTurns THEN Append(Places(g, UserTurns), Len(g) + 1)
                               ELSE Places(g, UserTurns)
    BY PlacesAppend
  <2>6. Places(g, UserTurns) \in Seq(Nat)
    <3>1. Places(g, UserTurns) \in Seq(1..Len(g))
      BY PlacesType
    <3> QED  BY <3>1
  <2>7. i \in UserTurns => ~NoTurns(t) /\ MessagesOf(t) # <<>>
    <3> SUFFICES ASSUME i \in UserTurns PROVE ~NoTurns(t) /\ MessagesOf(t) # <<>>
      OBVIOUS
    <3>1. IsSeq(Places(g, UserTurns)) /\ IsSeq(M)
      BY <2>3, <2>6 DEF IsSeq
    <3>2. Append(Places(g, UserTurns), Len(g) + 1) # <<>> /\ Append(M, i) # <<>>
      BY <3>1, AppendNotEmpty
    <3> QED  BY <2>3, <2>4, <2>5, <3>2, Zenon
  <2>8. i \notin UserTurns => (NoTurns(t) <=> NoTurns(g)) /\ MessagesOf(t) = M
    BY <2>3, <2>4, <2>5
  <2>9. (NoTurns(g) <=> M = <<>>)
        /\ \A k \in Nat \ {0} : MessagesOf(DropLastTurns(g, k)) = Cut(M, k)
    BY <2>2
  <2>10. ASSUME NEW k \in Nat \ {0}
         PROVE  MessagesOf(DropLastTurns(t, k)) = Cut(MessagesOf(t), k)
    <3>1. /\ i \notin UserTurns /\ NoTurns(g) => DropLastTurns(t, k) = t
          /\ i \notin UserTurns /\ ~NoTurns(g) => DropLastTurns(t, k) = DropLastTurns(g, k)
          /\ i \in UserTurns /\ (k = 1 \/ NoTurns(g)) => DropLastTurns(t, k) = g
          /\ i \in UserTurns /\ k # 1 /\ ~NoTurns(g)
               => DropLastTurns(t, k) = DropLastTurns(g, k - 1)
      BY DropAppend DEF t
    <3> HIDE DEF M, NoTurns, t
    <3>2. CASE i \notin UserTurns /\ NoTurns(g)
      <4>1. MessagesOf(t) = <<>>
        BY <2>8, <2>9, <3>2
      <4> QED  BY <1>0, <3>1, <3>2, <4>1
    <3>3. CASE i \notin UserTurns /\ ~NoTurns(g)
      BY <2>8, <2>9, <3>1, <3>3
    <3>4. CASE i \in UserTurns
      <4>1. MessagesOf(t) = Append(M, i) /\ i \in UserMessages
        BY <2>3, <2>4, <3>4
      <4>2. CASE k = 1
        <5>1. Cut(Append(M, i), 1) = M
          BY <2>3, <4>1
        <5>2. MessagesOf(DropLastTurns(t, k)) = M
          BY <3>1, <3>4, <4>2 DEF M
        <5> QED  BY <4>1, <4>2, <5>1, <5>2
      <4>3. CASE NoTurns(g)
        <5>1. M = <<>>
          BY <2>9, <4>3
        <5>2. MessagesOf(DropLastTurns(t, k)) = M
          BY <3>1, <3>4, <4>3 DEF M
        <5>3. Append(<<>>, i) = <<i>> /\ Cut(<<i>>, k) = <<>>
          OBVIOUS
        <5> QED  BY <4>1, <5>1, <5>2, <5>3
      <4>4. CASE k # 1 /\ ~NoTurns(g)
        <5>1. MessagesOf(DropLastTurns(t, k)) = Cut(M, k - 1)
          <6>1. k - 1 \in Nat \ {0}
            BY <4>4
          <6> HIDE DEF Cut
          <6> QED  BY <2>9, <3>1, <3>4, <4>4, <6>1
        <5>2. Cut(Append(M, i), k) = Cut(M, k - 1)
          <6>1. Len(Append(M, i)) - k = Len(M) - (k - 1) /\ Len(M) \in Nat
            BY <2>3, <4>1
          <6>2. SubSeq(Append(M, i), 1, Len(M) - (k - 1)) = SubSeq(M, 1, Len(M) - (k - 1))
            BY <2>3, <4>1, <4>4
          <6> QED  BY <6>1, <6>2
        <5> QED  BY <4>1, <5>1, <5>2
      <4> QED  BY <4>2, <4>3, <4>4
    <3> QED  BY <3>2, <3>3, <3>4
  <2> HIDE DEF M, t, NoTurns, Cut
  <2> QED  BY <2>7, <2>8, <2>9, <2>10
<1>3. Seq(Items) \subseteq P
  <2> HIDE DEF P
  <2> QED  BY <1>1, <1>2, SeqInduction
<1> QED  BY <1>3

-----------------------------------------------------------------------------
(* The transcript of a rollout. *)

\* What the count does not pass over.
Shown == Items \cup Rollbacks

\* The conversation that a transcript shows: no compaction has been applied to it.
Shows(rollout) == Replay(Keep(rollout, Shown))

\* The positions are those of the messages of the transcript.
Counted(rollout) ==
    LET users == Transcript(rollout)
        positions == UserPositions(rollout)
    IN  /\ positions \in Seq(1..Len(rollout))
        /\ Len(positions) = Len(users)
        /\ \A k \in 1..Len(positions) : rollout[positions[k]] = users[k]

\* A transcript is what is kept of the rollout, replayed.
LEMMA ShowsFacts ==
    ASSUME NEW s \in Seq(Entries)
    PROVE  /\ Shows(s) \in Seq(Items)
           /\ Transcript(s) = MessagesOf(Shows(s))
           /\ Transcript(s) \in Seq(UserMessages)
           /\ \A e \in Entries :
                 Shows(Append(s, e)) = IF e \in Shown THEN ReplayItem(Shows(s), e) ELSE Shows(s)
<1>1. Keep(s, Shown) \in Seq(Entries)
  <2>1. Keep(s, Shown) \in Seq(Entries \cap Shown)
    BY KeepType
  <2> QED  BY <2>1
<1>2. Shows(s) \in Seq(Items)
  BY <1>1, ReplayType DEF Shows
<1>3. Transcript(s) = MessagesOf(Shows(s))
  BY DEF Transcript, Shows, Shown, Rollbacks, Turns
<1>4. Transcript(s) \in Seq(UserMessages)
  BY <1>2, <1>3, MessagesAppend, ItemTypes
<1>5. ASSUME NEW e \in Entries
      PROVE  Shows(Append(s, e)) = IF e \in Shown THEN ReplayItem(Shows(s), e) ELSE Shows(s)
  <2>1. Keep(Append(s, e), Shown) = IF e \in Shown THEN Append(Keep(s, Shown), e)
                                    ELSE Keep(s, Shown)
    BY KeepAppend
  <2>2. Replay(Append(Keep(s, Shown), e)) = ReplayItem(Replay(Keep(s, Shown)), e)
    BY <1>1, ReplayAppend
  <2> QED  BY <2>1, <2>2 DEF Shows
<1> QED  BY <1>2, <1>3, <1>4, <1>5

\* One entry more.
LEMMA CountedAppend ==
    ASSUME NEW s \in Seq(Entries), NEW e \in Entries, Counted(s), e # Summary,
           Summary \notin ToSet(Shows(s))
    PROVE  Counted(Append(s, e)) /\ Summary \notin ToSet(Shows(Append(s, e)))
<1> DEFINE t == Append(s, e)
           N == Len(s)
           h == Shows(s)
           M == Transcript(s)
           P == UserPositions(s)
<1>1. /\ t \in Seq(Entries) /\ Len(t) = N + 1 /\ N \in Nat
      /\ \A p \in 1..N : t[p] = s[p]
      /\ t[N + 1] = e
  OBVIOUS
<1>2. h \in Seq(Items) /\ M = MessagesOf(h) /\ M \in Seq(UserMessages)
  BY ShowsFacts
<1>3. /\ P \in Seq(1..N) /\ Len(P) = Len(M) /\ \A k \in 1..Len(P) : s[P[k]] = M[k]
  BY DEF Counted
<1>4. /\ Shows(t) = IF e \in Shown THEN ReplayItem(h, e) ELSE h
      /\ Transcript(t) = MessagesOf(Shows(t))
      /\ UserPositions(t) = CountItem(P, e, N + 1)
  BY <1>1, ShowsFacts, CountAppend
<1>5. \A k \in 1..Len(P) : P[k] \in 1..N /\ t[P[k]] = M[k]
  <2> HIDE DEF P, M, t
  <2>1. \A k \in 1..Len(P) : P[k] \in 1..N
    BY <1>3
  <2> QED  BY <1>1, <1>3, <2>1
<1>6. P \in Seq(1..Len(t))
  <2> HIDE DEF P, t
  <2> QED  BY <1>1, <1>3
<1> HIDE DEF t, N, h, M, P
\* The count and the messages stay as they are.
<1>7. ASSUME UserPositions(t) = P, Transcript(t) = M PROVE Counted(t)
  BY <1>3, <1>5, <1>6, <1>7 DEF Counted
<1>8. CASE e \in UserMessages
  <2>1. e.kind = "user" /\ e \in Items /\ e \in Shown
    BY <1>8, ItemTypes DEF UserMessages, Shown
  <2>2. Shows(t) = Append(h, e)
    BY <1>4, <2>1, ReplayCases
  <2>3. UserPositions(t) = Append(P, N + 1)
    BY <1>4, <2>1 DEF CountItem
  <2>4. Transcript(t) = Append(M, e)
    BY <1>2, <1>4, <1>8, <2>1, <2>2, MessagesAppend
  <2> DEFINE Q == Append(P, N + 1)
             U == Append(M, e)
  <2>5. /\ Q \in Seq(1..Len(t)) /\ Len(Q) = Len(P) + 1 /\ Len(P) \in Nat
        /\ Q[Len(P) + 1] = N + 1 /\ \A k \in 1..Len(P) : Q[k] = P[k]
    <3>1. N + 1 \in 1..Len(t)
      BY <1>1
    <3> QED  BY <1>6, <3>1
  <2>6. /\ Len(U) = Len(P) + 1 /\ U[Len(P) + 1] = e
        /\ \A k \in 1..Len(P) : U[k] = M[k]
    BY <1>2, <1>3, <1>8
  <2>7. Counted(t)
    <3> HIDE DEF Q, U
    <3>1. UserPositions(t) = Q /\ Transcript(t) = U
      BY <2>3, <2>4 DEF Q, U
    <3>2. \A k \in 1..Len(Q) : t[Q[k]] = U[k]
      <4>1. \A k \in 1..Len(Q) : k \in 1..Len(P) \/ k = Len(P) + 1
        BY <2>5
      <4> QED  BY <1>1, <1>5, <2>5, <2>6, <4>1
    <3> QED  BY <2>5, <2>6, <3>1, <3>2 DEF Counted
  <2>8. Summary \notin ToSet(Shows(t))
    BY <1>2, <2>1, <2>2, ToSetFacts DEF h
  <2> QED  BY <2>7, <2>8 DEF t
<1>9. CASE e \in Items /\ e \notin UserMessages
  <2>1. e.kind \notin {"user", "rollback"} /\ e \in Shown
    BY <1>9 DEF Items, UserMessages, Shown
  <2>2. Shows(t) = Append(h, e)
    BY <1>4, <1>9, <2>1, ReplayCases
  <2>3. UserPositions(t) = P
    BY <1>4, <2>1 DEF CountItem
  <2>4. Transcript(t) = M
    BY <1>2, <1>4, <1>9, <2>2, MessagesAppend
  <2>5. Summary \notin ToSet(Shows(t))
    BY <1>2, <1>9, <2>2, ToSetFacts DEF h
  <2> QED  BY <1>7, <2>3, <2>4, <2>5 DEF t
<1>10. CASE e \in Rollbacks
  <2> DEFINE n == e.turns
             Q == SubSeq(P, 1, Len(P) - n)
             U == SubSeq(M, 1, Len(M) - n)
  <2>1. n \in Nat \ {0} /\ e.kind = "rollback" /\ e = RolledBack(n) /\ e \in Shown
    BY <1>10 DEF RolledBack, Rollbacks, Turns, Shown
  <2> HIDE DEF n
  <2>2. Shows(t) = DropLastTurns(h, n)
    BY <1>4, <2>1, ReplayCases
  <2>3. Transcript(t) = U
    BY <1>2, <1>4, <2>1, <2>2, MessagesDrop DEF h
  <2>4. UserPositions(t) = Q
    BY <1>4, <2>1 DEF CountItem, n
  <2>5. IsCut(Q, P, n, 1..Len(t)) /\ IsCut(U, M, n, UserMessages)
    BY <1>2, <1>6, <2>1, CutFacts
  <2>6. Counted(t)
    <3> HIDE DEF Q, U
    <3> QED  BY <1>3, <1>5, <2>3, <2>4, <2>5 DEF IsCut, Counted
  <2>7. Summary \notin ToSet(Shows(t))
    <3>1. PICK k \in 0..Len(h) : DropLastTurns(h, n) = SubSeq(h, 1, k)
      BY <1>2, <2>1, DropIsPrefix
    <3>2. ToSet(SubSeq(h, 1, k)) \subseteq ToSet(h)
      BY <1>2, ToSetFacts
    <3> QED  BY <2>2, <3>1, <3>2 DEF h
  <2> QED  BY <2>6, <2>7 DEF t
<1>11. CASE e \in [kind : {"compacted"}, replacement : Seq(Items) \cup {None}]
  <2>1. e.kind = "compacted" /\ e \notin Shown
    BY <1>11 DEF Shown, Items, Rollbacks
  <2>2. UserPositions(t) = P
    BY <1>4, <2>1 DEF CountItem
  <2>3. Shows(t) = h /\ Transcript(t) = M
    BY <1>2, <1>4, <2>1
  <2> QED  BY <1>7, <2>2, <2>3 DEF t, h
<1> QED  BY <1>8, <1>9, <1>10, <1>11 DEF Entries, Rollbacks, Turns

\* user_message_positions_in_rollout finds the messages a transcript shows.
LEMMA CountedAlways ==
    ASSUME NEW r \in Seq(Entries), Summary \notin ToSet(r)
    PROVE  Counted(r)
<1> DEFINE Fine(s) == Summary \notin ToSet(s)
                        => Counted(s) /\ Summary \notin ToSet(Shows(s))
           P == {s \in Seq(Entries) : Fine(s)}
<1>1. <<>> \in P
  <2> DEFINE z == <<>>
  <2>1. /\ Len(z) = 0 /\ z \in Seq(1..Len(z)) /\ 1..Len(z) = {} /\ z \in Seq(Entries)
        /\ Keep(z, Shown) = z /\ Replay(z) = z /\ UserPositions(z) = z /\ MessagesOf(z) = z
    BY ReplayEmpty, CountEmpty, KeepEmpty DEF MessagesOf
  <2>2. Summary \notin ToSet(z)
    BY DEF ToSet
  <2> HIDE DEF z
  <2>3. Shows(z) = z /\ Transcript(z) = z
    BY <2>1, ShowsFacts DEF Shows
  <2>4. Counted(z)
    BY <2>1, <2>3 DEF Counted
  <2>5. z \in P
    BY <2>1, <2>2, <2>3, <2>4
  <2> QED  BY <2>5 DEF z
<1>2. ASSUME NEW s \in Seq(Entries), NEW e \in Entries, s \in P PROVE Append(s, e) \in P
  <2> SUFFICES ASSUME Summary \notin ToSet(Append(s, e))
               PROVE  Counted(Append(s, e)) /\ Summary \notin ToSet(Shows(Append(s, e)))
    OBVIOUS
  <2>1. Summary \notin ToSet(s) /\ e # Summary
    BY ToSetFacts
  <2> QED  BY <1>2, <2>1, CountedAppend
<1>3. Seq(Entries) \subseteq P
  <2> HIDE DEF P
  <2> QED  BY <1>1, <1>2, SeqInduction
<1> QED  BY <1>3

-----------------------------------------------------------------------------
(* Forks: what each message came after. *)

\* A message is put into the history once, and what it comes after is noted then.
FreshInv ==
    /\ before \in [Inputs -> Seq(Items) \cup {None}]
    /\ \A u \in Inputs : u \notin used => before[u] = None
    /\ prompt # None => prompt \in used /\ before[prompt] = None
    /\ at["tail"] = "leftover" =>
         /\ arg["tail"] \in used /\ before[arg["tail"]] = None
         /\ arg["tail"] # prompt

\* An entry is no summary, and what a message comes after is known;
Noted(e, notes) == e # Summary /\ (e \in UserMessages => notes[e.id] # None)

\* a message comes after what the rollout has before it.
Follows(e, rollout, notes) ==
    e \in UserMessages => Recorded(Replay(rollout)) = Recorded(notes[e.id])
Ordered(rollout, notes) ==
    \A p \in DOMAIN rollout : Follows(rollout[p], SubSeq(rollout, 1, p - 1), notes)

NotedInv ==
    /\ \A e \in ToSet(log) : Noted(e, before)
    /\ \A c \in Callers : Noted(hold[c], before)

OrderInv ==
    ~raced => /\ Ordered(log, before)
              /\ Alive => \A c \in Callers : Follows(hold[c], log, before)

ForkInv == FreshInv /\ NotedInv /\ OrderInv

\* A beginning of a rollout in order is in order, and so is one with an entry more that
\* follows it.
LEMMA OrderedFacts ==
    ASSUME NEW s \in Seq(Entries), NEW notes, Ordered(s, notes)
    PROVE  /\ \A e \in Entries : Follows(e, s, notes) => Ordered(Append(s, e), notes)
           /\ \A k \in 0..Len(s) : Ordered(SubSeq(s, 1, k), notes)
<1>1. ASSUME NEW e \in Entries, Follows(e, s, notes) PROVE Ordered(Append(s, e), notes)
  <2> DEFINE t == Append(s, e)
             N == Len(s)
  <2>1. /\ DOMAIN t = 1..(N + 1) /\ DOMAIN s = 1..N /\ N \in Nat
        /\ \A p \in 1..N : t[p] = s[p] /\ SubSeq(t, 1, p - 1) = SubSeq(s, 1, p - 1)
        /\ t[N + 1] = e /\ SubSeq(t, 1, (N + 1) - 1) = s
    OBVIOUS
  <2> HIDE DEF t, N
  <2>2. \A p : p \in 1..(N + 1) <=> p \in 1..N \/ p = N + 1
    BY <2>1
  <2>3. Ordered(t, notes)
    BY <1>1, <2>1, <2>2, Zenon DEF Ordered
  <2> QED  BY <2>3 DEF t
<1>2. ASSUME NEW k \in 0..Len(s) PROVE Ordered(SubSeq(s, 1, k), notes)
  <2> DEFINE t == SubSeq(s, 1, k)
  <2>1. /\ DOMAIN t = 1..k /\ 1..k \subseteq DOMAIN s
        /\ \A p \in 1..k : t[p] = s[p] /\ SubSeq(t, 1, p - 1) = SubSeq(s, 1, p - 1)
    OBVIOUS
  <2> HIDE DEF t
  <2>2. Ordered(t, notes)
    BY <2>1 DEF Ordered
  <2> QED  BY <2>2 DEF t
<1> QED  BY <1>1, <1>2

\* A task that puts a message into the history notes what it comes after.
Notes(c, u) ==
    /\ c \in Callers /\ u \in Inputs /\ before[u] = None
    /\ hold[c] = None /\ copy[c] = None
    /\ hold' = [hold EXCEPT ![c] = Message(u)]
    /\ before' = [before EXCEPT ![u] = history]
    /\ Race(c)

\* The other steps of the session hold an item of another kind, or a rollback.
Silent == {e \in Entries : e \notin UserTurns}
Ignores ==
    /\ before' = before
    /\ raced => raced'
    /\ \A c \in Callers : hold'[c] \in {None, hold[c]} \cup Silent

\* What a message is, and what is none.
LEMMA SilentFacts ==
    /\ \A u \in Inputs : Message(u) \in UserMessages /\ Message(u).id = u
    /\ \A e \in UserMessages : e.id \in Inputs /\ e \in Entries /\ e # Summary
    /\ None \notin UserTurns
    /\ Context \in Silent /\ Marker \in Silent /\ Switch \in Silent
    /\ \A c \in Calls : Call(c) \in Silent /\ Output(c) \in Silent
    /\ \A n \in Turns : RolledBack(n) \in Silent
    /\ \A r \in Seq(Items) \cup {None} : Compacted(r) \in Silent
<1>1. \A u \in Inputs : Message(u) \in UserMessages /\ Message(u).id = u
  <2>1. \A u : Message(u).id = u
    BY DEF Message, Item
  <2> QED  BY <2>1, ItemTypes
<1>2. \A e \in UserMessages : e.id \in Inputs
  BY DEF UserMessages
<1>3. UserTurns \subseteq Items /\ Summary \notin UserMessages /\ UserMessages \subseteq UserTurns
  BY ItemTypes
<1>4. \A e \in UserTurns : e.kind \in {"user", "summary"}
  BY DEF UserTurns, UserMessages, Summary, Item
<1>5. /\ \A n : RolledBack(n).kind = "rollback"
      /\ \A r : Compacted(r).kind = "compacted"
  BY DEF RolledBack, Compacted
<1>6. /\ \A n \in Turns : RolledBack(n) \in Silent
      /\ \A r \in Seq(Items) \cup {None} : Compacted(r) \in Silent
  BY <1>4, <1>5, NoneIsNothing DEF Silent
<1>7. /\ Context \in Silent /\ Marker \in Silent /\ Switch \in Silent
      /\ \A c \in Calls : Call(c) \in Silent /\ Output(c) \in Silent
  BY ItemTypes, NoneIsNothing DEF Silent
<1> QED  BY <1>1, <1>2, <1>3, <1>6, <1>7, NoneIsNothing

\* The submission loop notes nothing.
LEMMA LoopFork == SessionInv /\ FreshInv /\ Loop => Ignores /\ FreshInv'
<1> SUFFICES ASSUME SessionInv, FreshInv, Loop PROVE Ignores /\ FreshInv'
  OBVIOUS
<1> USE CallersAssumption
<1>1. /\ DOMAIN hold = Callers /\ DOMAIN arg = Callers /\ DOMAIN at = Callers
      /\ DOMAIN before = Inputs
  BY DEF SessionInv, SessionType, FreshInv
<1>2. /\ Context \notin UserMessages /\ Switch \notin UserMessages
      /\ Context \in Silent /\ Switch \in Silent /\ Marker \in Silent
  BY ItemTypes, SilentFacts
<1>3. CASE SeedContext
  BY <1>1, <1>2, <1>3 DEF SeedContext, PutInHistory, Race, Ignores, FreshInv
<1>4. CASE SwitchModel
  BY <1>1, <1>2, <1>4 DEF SwitchModel, PutInHistory, Race, Ignores, FreshInv
<1>5. ASSUME NEW u \in Inputs, StartTurn(u) PROVE Ignores /\ FreshInv'
  <2>1. Ignores
    BY <1>5 DEF StartTurn, ghosts, Ignores
  <2>2. u \notin used /\ used' = used \cup {u} /\ prompt' = u /\ UNCHANGED <<arg, before>>
        /\ at'["tail"] = at["tail"]
    BY <1>1, <1>5 DEF StartTurn, ghosts
  <2> QED  BY <2>1, <2>2 DEF FreshInv
<1>6. CASE StartCompact \/ Interrupt
  <2>1. /\ UNCHANGED <<before, used>> /\ prompt' = None
        /\ arg'["tail"] = arg["tail"] /\ at'["tail"] = at["tail"]
    BY <1>1, <1>6 DEF StartCompact, Interrupt, DropTurn
  <2>2. \A c \in Callers : hold'[c] \in {None, hold[c], Marker}
    BY <1>1, <1>6 DEF StartCompact, Interrupt
  <2>3. raced => raced'
    BY <1>6 DEF StartCompact, Interrupt
  <2>4. Ignores
    BY <1>2, <2>1, <2>2, <2>3 DEF Ignores
  <2>5. at'["tail"] = "leftover" => arg["tail"] # None
    BY <2>1, NoneAssumption DEF SessionInv, Control
  <2> QED  BY <2>1, <2>4, <2>5 DEF FreshInv
<1>7. ASSUME NEW n \in 1..2, BeginRollback(n) PROVE Ignores /\ FreshInv'
  BY <1>1, <1>7 DEF BeginRollback, Race, Ignores, FreshInv
<1>8. CASE EndRollback
  <2>1. RolledBack(arg["loop"]) \in Silent
    BY <1>8, SilentFacts DEF EndRollback, At, SessionInv, Control
  <2> QED  BY <1>1, <1>8, <2>1 DEF EndRollback, Race, Ignores, FreshInv
<1> QED  BY <1>3, <1>4, <1>5, <1>6, <1>7, <1>8 DEF Loop

\* The turn and the tail note what their messages come after.
LEMMA TurnFork ==
    ASSUME SessionInv, FreshInv, Turn \/ RecordLeftover
    PROVE  FreshInv' /\ (Ignores \/ \E c, u : Notes(c, u))
<1> USE CallersAssumption
<1>1. /\ DOMAIN hold = Callers /\ DOMAIN arg = Callers /\ DOMAIN at = Callers
      /\ DOMAIN before = Inputs /\ history \in Seq(Items)
  BY DEF SessionInv, SessionType, FreshInv
<1>2. /\ \A c \in Calls : /\ Call(c) \notin UserMessages /\ Output(c) \notin UserMessages
                          /\ Call(c) \in Silent /\ Output(c) \in Silent
      /\ \A u \in Inputs : Message(u) \in UserMessages /\ Message(u).id = u
  BY ItemTypes, SilentFacts
<1>3. CASE RecordPrompt
  <2>1. prompt \in Inputs /\ prompt # None
    BY <1>3, NoneAssumption DEF RecordPrompt, At, SessionInv, Control
  <2>2. before' = [before EXCEPT ![prompt] = history]
    BY <1>2, <1>3, <2>1 DEF RecordPrompt, PutInHistory
  <2>3. Notes("turn", prompt)
    BY <1>3, <2>1, <2>2
       DEF RecordPrompt, PutInHistory, At, Free, Notes, SessionInv, Control, FreshInv
  <2>4. FreshInv'
    BY <1>1, <1>3, <2>1, <2>2, NoneAssumption
       DEF RecordPrompt, FreshInv, SessionInv, Control
  <2> QED  BY <2>3, <2>4
<1>4. ASSUME NEW u \in Inputs, PollInput(u) PROVE FreshInv' /\ Notes("turn", u)
  <2>1. before' = [before EXCEPT ![u] = history] /\ before[u] = None
    BY <1>2, <1>4 DEF PollInput, PutInHistory, FreshInv
  <2>2. Notes("turn", u)
    BY <1>4, <2>1 DEF PollInput, PutInHistory, At, Free, Notes, SessionInv, Control
  <2>3. FreshInv'
    BY <1>1, <1>4, <2>1 DEF PollInput, FreshInv, SessionInv, SessionType, Control
  <2> QED  BY <2>2, <2>3
<1>5. ASSUME NEW c \in Calls, RecordCall(c) \/ RecordOutput(c) PROVE FreshInv' /\ Ignores
  <2>1. before' = before /\ UNCHANGED <<at, arg, prompt>> /\ used \subseteq used'
    BY <1>2, <1>5 DEF RecordCall, RecordOutput, PutInHistory
  <2>2. Ignores
    BY <1>1, <1>2, <1>5, <2>1 DEF RecordCall, RecordOutput, PutInHistory, Race, Ignores
  <2> QED  BY <2>1, <2>2 DEF FreshInv
<1>6. CASE RetryRequest \/ AutoCompact \/ RequestSummary \/ RecordDraft \/ CopyLocally
           \/ CopyRemotely
  <2>1. /\ UNCHANGED <<before, prompt, used, hold>> /\ (raced => raced')
        /\ arg'["tail"] = arg["tail"] /\ at'["tail"] = at["tail"]
    <3>1. RetryRequest \/ AutoCompact \/ RequestSummary => UNCHANGED ghosts
      BY DEF RetryRequest, AutoCompact, RequestSummary
    <3>2. RecordDraft \/ CopyLocally \/ CopyRemotely
            => before' = before /\ (raced => raced')
      BY DEF RecordDraft, CopyLocally, CopyRemotely, Race
    <3>3. UNCHANGED <<prompt, used, hold>>
      BY <1>6 DEF RetryRequest, AutoCompact, RequestSummary, RecordDraft, CopyLocally,
                  CopyRemotely
    <3>4. arg'["tail"] = arg["tail"] /\ at'["tail"] = at["tail"]
      BY <1>1, <1>6 DEF RetryRequest, AutoCompact, RequestSummary, RecordDraft, CopyLocally,
                        CopyRemotely
    <3> QED  BY <1>6, <3>1, <3>2, <3>3, <3>4 DEF ghosts
  <2> QED  BY <2>1 DEF Ignores, FreshInv
<1>7. CASE ReplaceHistory
  <2>1. Compacted(IF remote THEN copy["turn"] ELSE None) \in Silent
    BY <1>7, SilentFacts DEF ReplaceHistory, At, SessionInv, SessionType, Control
  <2>2. /\ UNCHANGED <<before, prompt, used, arg>> /\ at'["tail"] = at["tail"]
    BY <1>1, <1>7 DEF ReplaceHistory
  <2>3. Ignores
    BY <1>1, <1>7, <2>1 DEF ReplaceHistory, Race, Ignores
  <2> QED  BY <2>2, <2>3 DEF FreshInv
<1>8. CASE FinishTurn
  <2>1. Ignores
    BY <1>8 DEF FinishTurn, ghosts, Ignores
  <2>2. before' = before /\ prompt' = None
    BY <1>8 DEF FinishTurn, ghosts
  <2>3. \/ used' = used /\ arg'["tail"] = arg["tail"] /\ at'["tail"] = at["tail"]
        \/ \E u \in Inputs \ used : used' = used \cup {u} /\ arg'["tail"] = u
    BY <1>1, <1>8 DEF FinishTurn
  <2>4. at'["tail"] = "leftover" => arg'["tail"] \in Inputs
    BY <1>8, TurnSession DEF Turn, SessionInv, Control
  <2> QED  BY <2>1, <2>2, <2>3, <2>4, NoneAssumption DEF FreshInv
<1>9. CASE RecordLeftover
  <2> DEFINE u == arg["tail"]
  <2>1. u \in Inputs
    BY <1>9 DEF RecordLeftover, At, SessionInv, Control
  <2>2. before' = [before EXCEPT ![u] = history]
    BY <1>2, <1>9, <2>1 DEF RecordLeftover, PutInHistory
  <2>3. Notes("tail", u)
    BY <1>9, <2>1, <2>2
       DEF RecordLeftover, PutInHistory, At, Free, Notes, SessionInv, Control, FreshInv
  <2>4. FreshInv'
    BY <1>1, <1>9, <2>1, <2>2 DEF RecordLeftover, At, FreshInv, SessionInv, SessionType
  <2> QED  BY <2>3, <2>4
<1> QED  BY <1>3, <1>4, <1>5, <1>6, <1>7, <1>8, <1>9 DEF Turn

\* What is noted is what the rollout has, unless tasks have got in between each other's
\* steps.
LEMMA SessionFork ==
    ASSUME SessionInv, SyncInv, ForkInv, LogKept, Ignores \/ \E c, u : Notes(c, u)
    PROVE  NotedInv' /\ OrderInv'
<1> USE CallersAssumption
<1>1. /\ log' = log /\ (Alive' <=> Alive) /\ log \in Seq(Entries) /\ history \in Seq(Items)
      /\ DOMAIN hold = Callers /\ DOMAIN before = Inputs
  BY DEF LogKept, Alive, SessionInv, SessionType, ForkInv, FreshInv
<1>2. CASE Ignores
  <2>1. \A c \in Callers : hold'[c] = hold[c] \/ (hold'[c] \notin UserMessages /\ hold'[c] # Summary)
    BY <1>2, SilentFacts, ItemTypes DEF Ignores, Silent
  <2>2. NotedInv'
    BY <1>1, <1>2, <2>1 DEF Ignores, ForkInv, NotedInv, Noted
  <2>3. OrderInv'
    BY <1>1, <1>2, <2>1 DEF Ignores, ForkInv, OrderInv, Follows
  <2> QED  BY <2>2, <2>3
<1>3. ASSUME NEW c, NEW u, Notes(c, u) PROVE NotedInv' /\ OrderInv'
  <2>1. /\ c \in Callers /\ u \in Inputs /\ before[u] = None /\ hold[c] = None /\ copy[c] = None
        /\ before'[u] = history /\ history # None
        /\ \A v \in Inputs \ {u} : before'[v] = before[v]
        /\ hold'[c] = Message(u) /\ \A d \in Callers \ {c} : hold'[d] = hold[d]
        /\ raced' = (raced \/ Midway(c))
    BY <1>1, <1>3, NoneAssumption DEF Notes, Race
  <2>2. \A e : Noted(e, before) => Noted(e, before')
                                   /\ (e \in UserMessages => before'[e.id] = before[e.id])
    BY <2>1, SilentFacts DEF Noted
  <2>3. Noted(Message(u), before')
    BY <2>1, SilentFacts DEF Noted
  <2>4. NotedInv'
    BY <1>1, <2>1, <2>2, <2>3 DEF ForkInv, NotedInv
  <2>5. ASSUME ~raced' PROVE Ordered(log, before')
    <3>1. \A p \in DOMAIN log : log[p] \in ToSet(log)
      BY <1>1 DEF ToSet
    <3>2. Ordered(log, before)
      BY <2>1, <2>5 DEF ForkInv, OrderInv
    <3> QED  BY <2>2, <3>1, <3>2 DEF Ordered, Follows, ForkInv, NotedInv
  <2>6. ASSUME ~raced', Alive, NEW d \in Callers PROVE Follows(hold'[d], log, before')
    <3>1. Sync /\ ~Midway(c)
      BY <2>1, <2>6 DEF SyncInv
    <3>2. \A b \in Callers : hold[b] = None
      BY <2>1, <3>1 DEF Midway
    <3>3. CASE d = c
      <4>1. Recorded(Replay(log)) = Recorded(history)
        BY <3>1, <3>2 DEF Sync, Same
      <4> QED  BY <2>1, <3>3, <4>1, SilentFacts DEF Follows
    <3>4. CASE d # c
      <4>1. hold'[d] = None
        BY <2>1, <3>2, <3>4
      <4> QED  BY <4>1, SilentFacts, ItemTypes DEF Follows
    <3> QED  BY <3>3, <3>4
  <2> QED  BY <1>1, <2>4, <2>5, <2>6 DEF OrderInv
<1> QED  BY <1>2, <1>3

\* A new rollout is in order.
LEMMA InitFork == Init => ForkInv
<1> SUFFICES ASSUME Init PROVE ForkInv  OBVIOUS
<1>1. /\ log = <<>> /\ prompt = None /\ before = [u \in Inputs |-> None]
      /\ \A c \in Callers : hold[c] = Context \/ hold[c] = None
      /\ at["tail"] = "idle"
  BY CallersAssumption DEF Init, RecorderInit
<1>2. /\ Context # Summary /\ None # Summary
      /\ Context \notin UserMessages /\ None \notin UserMessages
  BY ItemTypes, NoneIsNothing, SilentFacts
<1>3. Ordered(<<>>, before) /\ ToSet(<<>>) = {}
  BY DEF Ordered, ToSet
<1>4. FreshInv
  BY <1>1 DEF FreshInv
<1>5. NotedInv
  BY <1>1, <1>2, <1>3 DEF NotedInv, Noted
<1>6. OrderInv
  BY <1>1, <1>2, <1>3 DEF OrderInv, Follows
<1> QED  BY <1>4, <1>5, <1>6 DEF ForkInv

\* An entry is recorded after what it follows; a writer that ends, and a crash, leave
\* the beginning of the rollout.
LEMMA StepFork ==
    ASSUME IInv, SessionInv, SyncInv, ForkInv, [Next]_vars
    PROVE  ForkInv'
<1> USE CallersAssumption
<1>0. log \in Seq(Entries) /\ hold \in [Callers -> Entries \cup {None}]
  BY DEF SessionInv, SessionType
<1>1. CASE UNCHANGED vars
  BY <1>1 DEF vars, recorder, session, ghosts, ForkInv, FreshInv, NotedInv, OrderInv, Alive
<1>2. CASE Loop \/ Turn \/ RecordLeftover
  <2>1. LogKept
    BY <1>2, SessionLog
  <2>2. FreshInv' /\ (Ignores \/ \E c, u : Notes(c, u))
    BY <1>2, LoopFork, TurnFork DEF ForkInv
  <2> QED  BY <2>1, <2>2, SessionFork DEF ForkInv
<1>3. ASSUME NEW c \in Callers, AwaitRecorder(c) PROVE ForkInv'
  <2>1. LogKept
    BY <1>3, SessionLog
  <2>2. /\ UNCHANGED <<before, raced, hold, prompt, arg, used>>
        /\ at'["tail"] = "leftover" => at["tail"] = "leftover"
    BY <1>3 DEF AwaitRecorder, AfterAck, ghosts, SessionInv, SessionType
  <2>3. Ignores /\ FreshInv'
    BY <2>2 DEF Ignores, ForkInv, FreshInv
  <2> QED  BY <2>1, <2>3, SessionFork DEF ForkInv
<1>4. ASSUME NEW c \in Callers, RecordHeld(c) PROVE ForkInv'
  <2> DEFINE e == hold[c]
  <2>1. /\ hold' = [hold EXCEPT ![c] = None] /\ e \in Entries
        /\ (raced' <=> raced \/ Midway(c)) /\ (Alive' <=> Alive)
        /\ log' = IF Alive THEN Append(log, e) ELSE log
        /\ UNCHANGED <<before, prompt, at, arg, used>>
    BY <1>0, <1>4, RecordItemsLog DEF RecordHeld, Race, Alive
  <2>2. \A d \in Callers : hold'[d] = IF d = c THEN None ELSE hold[d]
    BY <1>0, <2>1
  <2>3. FreshInv'
    BY <2>1 DEF ForkInv, FreshInv
  <2>4. None # Summary /\ None \notin UserMessages
    BY ItemTypes, SilentFacts
  <2>5. NotedInv'
    <3>1. ToSet(log') \subseteq ToSet(log) \cup {e}
      BY <1>0, <2>1, ToSetFacts
    <3> QED  BY <2>1, <2>2, <2>4, <3>1 DEF ForkInv, NotedInv, Noted
  <2>6. ASSUME ~raced' PROVE Ordered(log', before)
    <3>1. Ordered(log, before) /\ (Alive => Follows(e, log, before))
      BY <2>1, <2>6 DEF ForkInv, OrderInv
    <3> HIDE DEF e
    <3> QED  BY <1>0, <2>1, <3>1, OrderedFacts
  <2>7. ASSUME ~raced', NEW d \in Callers PROVE hold'[d] = None
    BY <2>1, <2>2, <2>7 DEF Midway
  <2>8. OrderInv'
    BY <2>1, <2>4, <2>6, <2>7 DEF OrderInv, Follows
  <2> QED  BY <2>3, <2>5, <2>8 DEF ForkInv
<1>5. /\ ToSet(file) \subseteq ToSet(log)
      /\ Ordered(log, before) => Ordered(file, before)
  <2>1. file = SubSeq(log, 1, Len(file)) /\ Len(file) \in 0..Len(log)
    BY <1>0, FileOfLog
  <2>2. /\ ToSet(SubSeq(log, 1, Len(file))) \subseteq ToSet(log)
        /\ Ordered(log, before) => Ordered(SubSeq(log, 1, Len(file)), before)
    BY <1>0, <2>1, ToSetFacts, OrderedFacts
  <2> QED  BY <2>1, <2>2, Zenon
<1>6. CASE Writer /\ UNCHANGED session
  <2>1. UNCHANGED <<hold, raced, before>> /\ FreshInv'
    BY <1>6 DEF session, ghosts, ForkInv, FreshInv
  <2>2. CASE log' = log /\ (Alive' => Alive)
    BY <2>1, <2>2 DEF ForkInv, NotedInv, OrderInv
  <2>3. CASE LogCut /\ ~Alive'
    BY <1>5, <2>1, <2>3 DEF ForkInv, NotedInv, OrderInv, LogCut
  <2> QED  BY <1>6, <2>2, <2>3, WriterLog
<1>7. CASE CrashAndResume
  <2>1. /\ log' = file /\ UNCHANGED <<raced, before, used>> /\ prompt' = None
        /\ at'["tail"] = "idle" /\ \A c \in Callers : hold'[c] = None
    BY <1>7 DEF CrashAndResume, Reopen, Lose, ghosts
  <2>2. None # Summary /\ None \notin UserMessages
    BY ItemTypes, SilentFacts
  <2>3. FreshInv'
    BY <2>1 DEF ForkInv, FreshInv
  <2>4. NotedInv'
    BY <1>5, <2>1, <2>2 DEF ForkInv, NotedInv, Noted
  <2>5. OrderInv'
    BY <1>5, <2>1, <2>2 DEF ForkInv, OrderInv, Follows
  <2> QED  BY <2>3, <2>4, <2>5 DEF ForkInv
<1> QED  BY <1>1, <1>2, <1>3, <1>4, <1>6, <1>7 DEF Next

\* Rollouts in every reachable state.
LEMMA ForkInvariance == Spec => [](IInv /\ SessionInv /\ SyncInv /\ ForkInv)
<1>1. Init => SessionInv /\ SyncInv /\ ForkInv
  BY InitSession, InitSync, InitFork
<1>2. IInv /\ SessionInv /\ SyncInv /\ ForkInv /\ [Next]_vars
        => (SessionInv /\ SyncInv /\ ForkInv)'
  BY StepSession, StepSync, StepFork
<1> QED  BY Invariance, <1>1, <1>2, PTL DEF Spec

\* A thread forked before a message of the transcript
\* (truncate_rollout_before_nth_user_message_from_start) starts with the conversation the
\* message came after, and afresh if there is no such message: for any inputs, calls and
\* bounds, through compactions of both kinds, whichever messages they keep, rollbacks,
\* interrupts, I/O errors and crashes, as long as no task gets in between the two steps
\* of another.
THEOREM ForksKeepPrefix == Spec => []ForkKeepsPrefix
<1>1. SessionInv /\ ForkInv => ForkKeepsPrefix
  <2> SUFFICES ASSUME SessionInv, ForkInv, ~raced PROVE ForkKeepsPrefix
    BY DEF ForkKeepsPrefix
  <2> DEFINE users == Transcript(log)
             P == UserPositions(log)
             k(n) == P[n + 1]
  <2>1. log \in Seq(Entries) /\ Ordered(log, before) /\ Summary \notin ToSet(log)
    BY DEF SessionInv, SessionType, ForkInv, OrderInv, NotedInv, Noted
  <2>2. /\ P \in Seq(1..Len(log)) /\ Len(P) = Len(users) /\ Len(P) \in Nat
        /\ \A i \in 1..Len(P) : log[P[i]] = users[i]
        /\ users \in Seq(UserMessages)
    <3>1. Counted(log)
      BY <2>1, CountedAlways
    <3>2. P \in Seq(1..Len(log)) => Len(P) \in Nat
      OBVIOUS
    <3> QED  BY <2>1, <3>1, <3>2, ShowsFacts DEF Counted
  <2>3. \A n : TruncateBefore(log, n) = IF Len(P) <= n THEN <<>> ELSE SubSeq(log, 1, k(n) - 1)
    BY DEF TruncateBefore
  <2> HIDE DEF users, P
  <2>4. ASSUME NEW n \in 0..(Len(users) - 1)
        PROVE  Recorded(Replay(TruncateBefore(log, n))) = Recorded(before[users[n + 1].id])
    <3>1. n + 1 \in 1..Len(P) /\ ~(Len(P) <= n)
      BY <2>2
    <3>2. k(n) \in DOMAIN log /\ log[k(n)] = users[n + 1] /\ users[n + 1] \in UserMessages
      <4>1. DOMAIN log = 1..Len(log)
        BY <2>1
      <4> QED  BY <2>2, <3>1, <4>1
    <3>3. TruncateBefore(log, n) = SubSeq(log, 1, k(n) - 1)
      BY <2>3, <3>1
    <3>4. Follows(log[k(n)], SubSeq(log, 1, k(n) - 1), before)
      BY <2>1, <3>2 DEF Ordered
    <3> QED  BY <3>2, <3>3, <3>4 DEF Follows
  <2>5. TruncateBefore(log, Len(users)) = <<>>
    BY <2>2, <2>3
  <2> QED  BY <2>4, <2>5 DEF ForkKeepsPrefix, users
<1> QED  BY ForkInvariance, <1>1, PTL
=============================================================================
