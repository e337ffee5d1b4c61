---------------------------- MODULE RWLockLemmas ----------------------------
(***************************************************************************)
(* Counting facts about the read-write lock, and the proof that its        *)
(* acquiring side preserves the inductive invariant of RWLock, for every   *)
(* number of threads and locks.                                            *)
(***************************************************************************)
EXTENDS RWLock, FiniteSetTheorems, TLAPS

-----------------------------------------------------------------------------
(* Counting with tokens. *)

\* Over a finite set, tokens are finitely many.
LEMMA TokensFinite ==
  ASSUME NEW S, IsFiniteSet(S), NEW h \in [S -> Nat], NEW W \in SUBSET S
  PROVE  IsFiniteSet(Tokens(S, h, W)) /\ Cardinality(Tokens(S, h, W)) \in Nat
<1> DEFINE row == [x \in S |-> {x} \X (1 .. h[x])]
           Rows == {row[x] : x \in S}
           zero == [x \in W |-> <<x, 0>>]
           Zero == {<<x, 0>> : x \in W}
<1>1. ASSUME NEW x \in S PROVE IsFiniteSet(row[x])
  <2>1. IsFiniteSet({x}) BY FS_Singleton
  <2>2. IsFiniteSet(1 .. h[x]) BY FS_Interval
  <2>3. IsFiniteSet({x} \X (1 .. h[x])) BY <2>1, <2>2, FS_Product
  <2> QED BY <2>3
<1>2. row \in Surjection(S, Rows) BY DEF Surjection
<1>3. IsFiniteSet(Rows) BY <1>2, FS_Surjection
<1>4. IsFiniteSet(UNION Rows) BY <1>1, <1>3, FS_UNION
<1>5. zero \in Surjection(W, Zero) BY DEF Surjection
<1>6. IsFiniteSet(W) BY FS_Subset
<1>7. IsFiniteSet(Zero) BY <1>5, <1>6, FS_Surjection
<1>8. Tokens(S, h, W) = (UNION Rows) \cup Zero BY DEF Tokens
<1>9. IsFiniteSet(Tokens(S, h, W))
  <2> HIDE DEF Rows, Zero
  <2>1. IsFiniteSet((UNION Rows) \cup Zero) BY <1>4, <1>7, FS_Union
  <2> QED BY <1>8, <2>1
<1> QED BY <1>9, FS_CardinalityType

\* Membership in a set of tokens.
LEMMA TokensMember ==
  ASSUME NEW S, NEW h, NEW W
  PROVE  \A x, i : <<x, i>> \in Tokens(S, h, W) <=>
                     (x \in S /\ i \in 1 .. h[x]) \/ (x \in W /\ i = 0)
BY DEF Tokens

\* Every token is a pair.
LEMMA TokensPair ==
  ASSUME NEW S, NEW h, NEW W, NEW g \in Tokens(S, h, W)
  PROVE  \E x, i : g = <<x, i>>
BY DEF Tokens

\* Two sets of pairs that differ in one pair.
LEMMA PairsDiffer ==
  \A A, B, x, i :
    /\ \A e \in A : \E y, j : e = <<y, j>>
    /\ \A e \in B : \E y, j : e = <<y, j>>
    /\ \A y, j : <<y, j>> \in A <=> <<y, j>> \in B \/ (y = x /\ j = i)
    => A = B \cup {<<x, i>>}
<1> SUFFICES ASSUME NEW A, NEW B, NEW x, NEW i,
                    \A e \in A : \E y, j : e = <<y, j>>,
                    \A e \in B : \E y, j : e = <<y, j>>,
                    \A y, j : <<y, j>> \in A <=> <<y, j>> \in B \/ (y = x /\ j = i)
             PROVE  A = B \cup {<<x, i>>}
  OBVIOUS
<1>1. ASSUME NEW e \in A PROVE e \in B \cup {<<x, i>>}
  <2>1. PICK y, j : e = <<y, j>> OBVIOUS
  <2> QED BY <2>1
<1>2. ASSUME NEW e \in B PROVE e \in A
  <2>1. PICK y, j : e = <<y, j>> OBVIOUS
  <2> QED BY <2>1
<1> QED BY <1>1, <1>2

\* Counting one more unit adds one token.
LEMMA TokensIncrement ==
  ASSUME NEW S, IsFiniteSet(S), NEW h \in [S -> Nat], NEW W \in SUBSET S,
         NEW x \in S, NEW g \in [S -> Nat],
         g[x] = h[x] + 1, \A y \in S \ {x} : g[y] = h[y]
  PROVE  Cardinality(Tokens(S, g, W)) = Cardinality(Tokens(S, h, W)) + 1
<1>1. ASSUME NEW y, NEW j
      PROVE  <<y, j>> \in Tokens(S, g, W) <=>
               <<y, j>> \in Tokens(S, h, W) \/ (y = x /\ j = h[x] + 1)
  <2>1. <<y, j>> \in Tokens(S, g, W) <=>
          (y \in S /\ j \in 1 .. g[y]) \/ (y \in W /\ j = 0)
    BY TokensMember
  <2>2. <<y, j>> \in Tokens(S, h, W) <=>
          (y \in S /\ j \in 1 .. h[y]) \/ (y \in W /\ j = 0)
    BY TokensMember
  <2>3. y \in S => (j \in 1 .. g[y] <=> j \in 1 .. h[y] \/ (y = x /\ j = h[x] + 1))
    OBVIOUS
  <2> QED BY <2>1, <2>2, <2>3
<1>2. Tokens(S, g, W) = Tokens(S, h, W) \cup {<<x, h[x] + 1>>}
  <2>1. \A y, j : <<y, j>> \in Tokens(S, g, W) <=>
                   <<y, j>> \in Tokens(S, h, W) \/ (y = x /\ j = h[x] + 1)
    BY <1>1
  <2>2. \A e \in Tokens(S, h, W) : \E y, j : e = <<y, j>> BY TokensPair
  <2>3. \A e \in Tokens(S, g, W) : \E y, j : e = <<y, j>> BY TokensPair
  <2> QED BY <2>1, <2>2, <2>3, PairsDiffer
<1>3. <<x, h[x] + 1>> \notin Tokens(S, h, W)
  <2>1. ~(h[x] + 1 \in 1 .. h[x]) /\ h[x] + 1 # 0 OBVIOUS
  <2> QED BY <2>1, TokensMember
<1>4. IsFiniteSet(Tokens(S, h, W)) BY TokensFinite
<1>5. Cardinality(Tokens(S, h, W) \cup {<<x, h[x] + 1>>}) = Cardinality(Tokens(S, h, W)) + 1
  BY <1>3, <1>4, FS_AddElement
<1> QED BY <1>2, <1>5

\* Counting one unit less removes one token.
LEMMA TokensDecrement ==
  ASSUME NEW S, IsFiniteSet(S), NEW h \in [S -> Nat], NEW W \in SUBSET S,
         NEW x \in S, h[x] > 0, NEW g \in [S -> Nat],
         g[x] = h[x] - 1, \A y \in S \ {x} : g[y] = h[y]
  PROVE  Cardinality(Tokens(S, g, W)) = Cardinality(Tokens(S, h, W)) - 1
<1>1. h[x] = g[x] + 1 OBVIOUS
<1>2. Cardinality(Tokens(S, h, W)) = Cardinality(Tokens(S, g, W)) + 1
  BY <1>1, TokensIncrement
<1>3. Cardinality(Tokens(S, g, W)) \in Nat BY TokensFinite
<1> QED BY <1>2, <1>3

\* A new member of W adds one token.
LEMMA TokensWake ==
  ASSUME NEW S, IsFiniteSet(S), NEW h \in [S -> Nat], NEW W \in SUBSET S,
         NEW x \in S \ W, NEW V \in SUBSET S, V = W \cup {x}
  PROVE  Cardinality(Tokens(S, h, V)) = Cardinality(Tokens(S, h, W)) + 1
<1>1. ASSUME NEW y, NEW j
      PROVE  <<y, j>> \in Tokens(S, h, V) <=>
               <<y, j>> \in Tokens(S, h, W) \/ (y = x /\ j = 0)
  BY TokensMember
<1>2. Tokens(S, h, V) = Tokens(S, h, W) \cup {<<x, 0>>}
  <2>1. \A y, j : <<y, j>> \in Tokens(S, h, V) <=>
                   <<y, j>> \in Tokens(S, h, W) \/ (y = x /\ j = 0)
    BY <1>1
  <2>2. \A e \in Tokens(S, h, W) : \E y, j : e = <<y, j>> BY TokensPair
  <2>3. \A e \in Tokens(S, h, V) : \E y, j : e = <<y, j>>
    BY TokensPair
  <2> QED BY SMTT(30), Zenon, <2>1, <2>2, <2>3, PairsDiffer
<1>3. <<x, 0>> \notin Tokens(S, h, W)
  <2>1. ~(0 \in 1 .. h[x]) OBVIOUS
  <2> QED BY <2>1, TokensMember
<1>4. IsFiniteSet(Tokens(S, h, W)) BY TokensFinite
<1> QED BY <1>2, <1>3, <1>4, FS_AddElement

\* A member of W that starts to count itself keeps the number of tokens.
LEMMA TokensSettle ==
  ASSUME NEW S, IsFiniteSet(S), NEW h \in [S -> Nat], NEW W \in SUBSET S,
         NEW x \in W, NEW g \in [S -> Nat],
         g[x] = h[x] + 1, \A y \in S \ {x} : g[y] = h[y]
  PROVE  Cardinality(Tokens(S, g, W \ {x})) = Cardinality(Tokens(S, h, W))
<1>1. /\ W \ {x} \in SUBSET S
      /\ x \in S
      /\ x \in S \ (W \ {x})
      /\ (W \ {x}) \cup {x} = W
  OBVIOUS
<1>2. Cardinality(Tokens(S, h, W))
        = Cardinality(Tokens(S, h, W \ {x})) + 1
  BY <1>1, TokensWake
<1>3. Cardinality(Tokens(S, g, W \ {x}))
        = Cardinality(Tokens(S, h, W \ {x})) + 1
  BY <1>1, TokensIncrement
<1> QED BY <1>1, <1>2, <1>3

\* If h counts nothing there are as many tokens as members of W.
LEMMA TokensFresh ==
  ASSUME NEW S, IsFiniteSet(S), NEW h \in [S -> Nat], NEW W \in SUBSET S,
         \A x \in S : h[x] = 0
  PROVE  Cardinality(Tokens(S, h, W)) = Cardinality(W)
<1> DEFINE f == [x \in W |-> <<x, 0>>]
<1>1. IsFiniteSet(W) BY FS_Subset
<1>2. ASSUME NEW y, NEW j PROVE <<y, j>> \in Tokens(S, h, W) <=> y \in W /\ j = 0
  <2>1. y \in S => ~(j \in 1 .. h[y]) OBVIOUS
  <2> QED BY <2>1, TokensMember
<1>3. \A e \in Tokens(S, h, W) : \E y \in W : f[y] = e
  BY <1>2, TokensPair
<1>4. f \in [W -> Tokens(S, h, W)] BY <1>2
<1>5. f \in Bijection(W, Tokens(S, h, W))
  BY <1>3, <1>4 DEF Bijection, Injection, Surjection, IsInjective
<1> QED BY <1>1, <1>5, FS_Bijection DEF ExistsBijection

\* No tokens: nothing is counted and W is empty.
LEMMA TokensNone ==
  ASSUME NEW S, IsFiniteSet(S), NEW h \in [S -> Nat], NEW W \in SUBSET S
  PROVE  Cardinality(Tokens(S, h, W)) = 0 <=> W = {} /\ \A x \in S : h[x] = 0
<1>1. IsFiniteSet(Tokens(S, h, W)) BY TokensFinite
<1>2. Cardinality(Tokens(S, h, W)) = 0 <=> Tokens(S, h, W) = {}
  BY <1>1, FS_EmptySet
<1>3. ASSUME Tokens(S, h, W) = {} PROVE W = {} /\ \A x \in S : h[x] = 0
  <2>1. \A x \in W : <<x, 0>> \in Tokens(S, h, W) BY TokensMember
  <2>2. ASSUME NEW x \in S PROVE h[x] = 0
    <3>1. h[x] # 0 => 1 \in 1 .. h[x] OBVIOUS
    <3> QED BY <3>1, <1>3, TokensMember
  <2> QED BY <1>3, <2>1, <2>2
<1>4. ASSUME W = {}, \A x \in S : h[x] = 0 PROVE Tokens(S, h, W) = {}
  <2>1. ASSUME NEW y, NEW j PROVE <<y, j>> \notin Tokens(S, h, W)
    <3>1. y \in S => ~(j \in 1 .. h[y]) BY <1>4
    <3> QED BY <1>4, <3>1, TokensMember
  <2> QED BY <2>1, TokensPair
<1> QED BY <1>2, <1>3, <1>4


-----------------------------------------------------------------------------
(* Read grants. *)

Column(l) == [t \in Threads |-> rheld[t][l]]

\* The grants on a lock are finitely many, and there are none exactly when no
\* thread holds the lock for reading.
LEMMA GrantsFacts ==
  ASSUME TypeOK, NEW l \in Locks
  PROVE  /\ Column(l) \in [Threads -> Nat]
         /\ Woken(l) \in SUBSET Threads
         /\ Cardinality(ReadGrants(l)) \in Nat
         /\ Cardinality(ReadGrants(l)) = 0 <=>
              \A t \in Threads : ~HoldsRead(t, l)
<1>1. Column(l) \in [Threads -> Nat] BY DEF Column, TypeOK
<1>2. Woken(l) \in SUBSET Threads BY DEF Woken
<1>3. ReadGrants(l) = Tokens(Threads, Column(l), Woken(l))
  BY DEF ReadGrants, Column
<1>4. Cardinality(ReadGrants(l)) \in Nat
  BY <1>1, <1>2, <1>3, TokensFinite, ThreadsAssumption
<1>5. Cardinality(ReadGrants(l)) = 0 <=>
        Woken(l) = {} /\ \A t \in Threads : Column(l)[t] = 0
  BY <1>1, <1>2, <1>3, TokensNone, ThreadsAssumption
<1>6. \A t \in Threads : Column(l)[t] = rheld[t][l] /\ rheld[t][l] \in Nat
  BY DEF Column, TypeOK
<1> QED BY <1>1, <1>2, <1>4, <1>5, <1>6 DEF Woken, HoldsRead

\* A read-locked lock has no writer, and its word counts at least one reader.
LEMMA HeldForReading ==
  ASSUME IndInv, NEW t \in Threads, NEW l \in Locks, HoldsRead(t, l)
  PROVE  state[l].wr = NoThread /\ state[l].rd > 0
<1>1. Cardinality(ReadGrants(l)) \in Nat \ {0} BY GrantsFacts DEF IndInv
<1> QED BY <1>1 DEF IndInv, WordTellsHolders

\* A thread that holds read locks has them counted.
LEMMA HoldsCounted ==
  ASSUME TypeOK, NEW t \in Threads
  PROVE  /\ Cardinality(ReadHolds(t)) \in Nat
         /\ Cardinality(ReadHolds(t)) = 0 <=> \A l \in Locks : rheld[t][l] = 0
<1>1. rheld[t] \in [Locks -> Nat] BY DEF TypeOK
<1> QED BY <1>1, TokensFinite, TokensNone, LocksAssumption DEF ReadHolds

\* One more read lock held by t on l is one more token of t.
LEMMA HoldsGain ==
  ASSUME TypeOK, TypeOK', NEW t \in Threads, NEW l \in Locks,
         rheld' = [rheld EXCEPT ![t][l] = @ + 1], NEW u \in Threads
  PROVE  Cardinality(ReadHolds(u)')
           = Cardinality(ReadHolds(u)) + IF u = t THEN 1 ELSE 0
<1>1. CASE u = t
  <2>1. rheld[t] \in [Locks -> Nat] /\ rheld'[t] \in [Locks -> Nat] BY DEF TypeOK
  <2>2. /\ rheld'[t][l] = rheld[t][l] + 1
        /\ \A k \in Locks \ {l} : rheld'[t][k] = rheld[t][k]
    BY DEF TypeOK
  <2>3. Cardinality(ReadHolds(t)') = Cardinality(ReadHolds(t)) + 1
    BY <2>1, <2>2, TokensIncrement, LocksAssumption DEF ReadHolds
  <2> QED BY <1>1, <2>3
<1>2. CASE u # t
  <2>1. ReadHolds(u)' = ReadHolds(u) BY <1>2 DEF ReadHolds, TypeOK
  <2> QED BY <1>2, <2>1, HoldsCounted
<1> QED BY <1>1, <1>2

\* One read lock less held by t on l is one token of t less.
LEMMA HoldsLoss ==
  ASSUME TypeOK, TypeOK', NEW t \in Threads, NEW l \in Locks, rheld[t][l] > 0,
         rheld' = [rheld EXCEPT ![t][l] = @ - 1], NEW u \in Threads
  PROVE  Cardinality(ReadHolds(u)')
           = Cardinality(ReadHolds(u)) - IF u = t THEN 1 ELSE 0
<1>1. CASE u = t
  <2>1. rheld[t] \in [Locks -> Nat] /\ rheld'[t] \in [Locks -> Nat] BY DEF TypeOK
  <2>2. /\ rheld'[t][l] = rheld[t][l] - 1
        /\ \A k \in Locks \ {l} : rheld'[t][k] = rheld[t][k]
    BY DEF TypeOK
  <2>3. Cardinality(ReadHolds(t)') = Cardinality(ReadHolds(t)) - 1
    BY <2>1, <2>2, TokensDecrement, LocksAssumption DEF ReadHolds
  <2> QED BY <1>1, <2>3
<1>2. CASE u # t
  <2>1. ReadHolds(u)' = ReadHolds(u) BY <1>2 DEF ReadHolds, TypeOK
  <2> QED BY <1>2, <2>1, HoldsCounted
<1> QED BY <1>1, <1>2

\* Grants depend only on the column of a lock and on who was just woken.
LEMMA GrantsSame ==
  ASSUME NEW k \in Locks, Column(k)' = Column(k), Woken(k)' = Woken(k)
  PROVE  ReadGrants(k)' = ReadGrants(k)
BY DEF ReadGrants, Column

\* A thread that acquires a read lock adds a grant.
LEMMA GrantsGain ==
  ASSUME TypeOK, TypeOK', NEW t \in Threads, NEW l \in Locks,
         rheld' = [rheld EXCEPT ![t][l] = @ + 1], Woken(l)' = Woken(l)
  PROVE  Cardinality(ReadGrants(l)') = Cardinality(ReadGrants(l)) + 1
<1>1. /\ Column(l) \in [Threads -> Nat]
      /\ Column(l)' \in [Threads -> Nat]
      /\ Woken(l) \in SUBSET Threads
  BY GrantsFacts DEF Column, TypeOK
<1>2. /\ Column(l)'[t] = Column(l)[t] + 1
      /\ \A u \in Threads \ {t} : Column(l)'[u] = Column(l)[u]
  BY DEF TypeOK, Column
<1>3. Cardinality(Tokens(Threads, Column(l)', Woken(l)))
        = Cardinality(Tokens(Threads, Column(l), Woken(l))) + 1
  BY <1>1, <1>2, TokensIncrement, ThreadsAssumption
<1> QED BY <1>3 DEF ReadGrants, Column

\* A thread that releases a read lock removes a grant.
LEMMA GrantsLoss ==
  ASSUME TypeOK, TypeOK', NEW t \in Threads, NEW l \in Locks, rheld[t][l] > 0,
         rheld' = [rheld EXCEPT ![t][l] = @ - 1], Woken(l)' = Woken(l)
  PROVE  Cardinality(ReadGrants(l)') = Cardinality(ReadGrants(l)) - 1
<1>1. /\ Column(l) \in [Threads -> Nat]
      /\ Column(l)' \in [Threads -> Nat]
      /\ Woken(l) \in SUBSET Threads
  BY GrantsFacts DEF Column, TypeOK
<1>2. /\ Column(l)'[t] = Column(l)[t] - 1
      /\ Column(l)[t] > 0
      /\ \A u \in Threads \ {t} : Column(l)'[u] = Column(l)[u]
  BY DEF TypeOK, Column
<1>3. Cardinality(Tokens(Threads, Column(l)', Woken(l)))
        = Cardinality(Tokens(Threads, Column(l), Woken(l))) - 1
  BY <1>1, <1>2, TokensDecrement, ThreadsAssumption
<1> QED BY <1>3 DEF ReadGrants, Column

\* The column of a lock nobody gains or loses.
LEMMA ColumnSame ==
  ASSUME rheld \in [Threads -> [Locks -> Nat]],
         NEW t \in Threads, NEW l \in Locks, NEW n,
         rheld' = [rheld EXCEPT ![t][l] = n], NEW k \in Locks, k # l
  PROVE  Column(k)' = Column(k)
<1>1. ASSUME NEW u \in Threads PROVE rheld'[u][k] = rheld[u][k] OBVIOUS
<1> QED BY <1>1 DEF Column

\* A lock whose word, holders and woken threads stay the same stays counted.
LEMMA GrantsKept ==
  ASSUME IndInv, UNCHANGED rheld, NEW k \in Locks,
         state'[k].rd = state[k].rd, Woken(k)' = Woken(k)
  PROVE  state'[k].rd = Cardinality(ReadGrants(k)')
BY DEF IndInv, WordTellsHolders, ReadGrants

\* The counters of threads that gain and lose nothing stay right.
LEMMA CountKept ==
  ASSUME IndInv, UNCHANGED <<rheld, rdlocks>>,
         \A u \in Threads : pc'[u] = "rdsys" <=> pc[u] = "rdsys"
  PROVE  RdlocksCount'
BY DEF IndInv, RdlocksCount, ReadHolds

\* What the updates of one field of a lock word do.
LEMMA WordGain ==
  ASSUME state \in [Locks -> Word], NEW l \in Locks,
         state' = [state EXCEPT ![l].rd = @ + 1]
  PROVE  /\ state' \in [Locks -> Word]
         /\ state'[l] = [wr |-> state[l].wr, rd |-> state[l].rd + 1, km |-> state[l].km]
         /\ \A k \in Locks : k # l => state'[k] = state[k]
<1>1. state'[l] = [state[l] EXCEPT !.rd = @ + 1] OBVIOUS
<1>2. state'[l] = [wr |-> state[l].wr, rd |-> state[l].rd + 1, km |-> state[l].km]
  BY <1>1 DEF Word
<1>3. state'[l] \in Word BY <1>2 DEF Word
<1>4. \A k \in Locks : k # l => state'[k] = state[k] OBVIOUS
<1> QED BY <1>2, <1>3, <1>4

\* One reader less in the word.
LEMMA WordLoss ==
  ASSUME state \in [Locks -> Word], NEW l \in Locks, state[l].rd > 0,
         state' = [state EXCEPT ![l].rd = @ - 1]
  PROVE  /\ state' \in [Locks -> Word]
         /\ state'[l] = [wr |-> state[l].wr, rd |-> state[l].rd - 1, km |-> state[l].km]
         /\ \A k \in Locks : k # l => state'[k] = state[k]
<1>1. state'[l] = [state[l] EXCEPT !.rd = @ - 1] OBVIOUS
<1>2. state'[l] = [wr |-> state[l].wr, rd |-> state[l].rd - 1, km |-> state[l].km]
  BY <1>1 DEF Word
<1>3. state'[l] \in Word BY <1>2 DEF Word
<1>4. \A k \in Locks : k # l => state'[k] = state[k] OBVIOUS
<1> QED BY <1>2, <1>3, <1>4

\* The word marked as kernel-managed.
LEMMA WordMark ==
  ASSUME state \in [Locks -> Word], NEW l \in Locks,
         state' = [state EXCEPT ![l].km = TRUE]
  PROVE  /\ state' \in [Locks -> Word]
         /\ state'[l] = [wr |-> state[l].wr, rd |-> state[l].rd, km |-> TRUE]
         /\ \A k \in Locks : k # l => state'[k] = state[k]
<1>1. state'[l] = [state[l] EXCEPT !.km = TRUE] OBVIOUS
<1>2. state'[l] = [wr |-> state[l].wr, rd |-> state[l].rd, km |-> TRUE]
  BY <1>1 DEF Word
<1>3. state'[l] \in Word BY <1>2 DEF Word
<1>4. \A k \in Locks : k # l => state'[k] = state[k] OBVIOUS
<1> QED BY <1>2, <1>3, <1>4

-----------------------------------------------------------------------------
(* Every step preserves the invariant: one lemma per action. *)

\* pthread_rwlock_tryrdlock(): one more read lock, counted in the word.
LEMMA Inv_tryrdlock ==
  ASSUME IndInv, NEW t \in Threads, NEW l \in Locks,
         pthread_rwlock_tryrdlock(t, l)
  PROVE  IndInv'
<1> TypeOK BY DEF IndInv
<1>a. /\ state[l].wr = NoThread
      /\ state' = [state EXCEPT ![l].rd = @ + 1]
      /\ rheld' = [rheld EXCEPT ![t][l] = @ + 1]
      /\ rdlocks' = [rdlocks EXCEPT ![t] = @ + 1]
      /\ UNCHANGED <<recursion, wrlocks, rdsleep, wrsleep, pc, arg, timed, old>>
  BY DEF pthread_rwlock_tryrdlock, tryrdlock_ok, CanTryRead, GainRead, NoCall
<1>b. /\ state' \in [Locks -> Word]
      /\ state'[l] = [wr |-> NoThread, rd |-> state[l].rd + 1, km |-> state[l].km]
      /\ \A k \in Locks : k # l => state'[k] = state[k]
  BY <1>a, WordGain DEF TypeOK
<1>1. TypeOK'
  <2>1. rheld' \in [Threads -> [Locks -> Nat]] BY <1>a DEF TypeOK
  <2>2. rdlocks' \in [Threads -> Nat] BY <1>a DEF TypeOK
  <2> QED BY <1>a, <1>b, <2>1, <2>2 DEF TypeOK
<1>2. ControlAgrees'
  <2>1. \A u \in Threads, k \in Locks : rheld[u][k] > 0 => rheld'[u][k] > 0
    BY <1>a DEF TypeOK
  <2>2. \A u \in Threads : pc[u] = "rdcas" => arg[u] \in Locks
    BY DEF IndInv, TypeOK, ControlAgrees, ControlOf
  <2> QED BY <1>a, <2>1, <2>2 DEF IndInv, ControlAgrees, ControlOf
<1>3. QueuesAgree' BY <1>a DEF IndInv, QueuesAgree
<1>4. RdlocksCount'
  <2> SUFFICES ASSUME NEW u \in Threads
      PROVE  rdlocks'[u] = Cardinality(ReadHolds(u)') + IF pc'[u] = "rdsys" THEN 1 ELSE 0
    BY DEF RdlocksCount
  <2>1. rdlocks'[u] = rdlocks[u] + IF u = t THEN 1 ELSE 0 BY <1>a DEF TypeOK
  <2>2. rdlocks[u] = Cardinality(ReadHolds(u)) + IF pc[u] = "rdsys" THEN 1 ELSE 0
    BY DEF IndInv, RdlocksCount
  <2>3. Cardinality(ReadHolds(u)') = Cardinality(ReadHolds(u)) + IF u = t THEN 1 ELSE 0
    BY <1>1, <1>a, HoldsGain
  <2>4. pc'[u] = "rdsys" <=> pc[u] = "rdsys" BY <1>a DEF TypeOK
  <2> QED BY <2>1, <2>2, <2>3, <2>4, HoldsCounted
<1>5. ASSUME NEW k \in Locks
      PROVE  /\ \A u \in Threads : state'[k].wr = u <=> OwnsWrite(u, k)'
             /\ state'[k].wr # NoThread => state'[k].rd = 0
             /\ recursion'[k] > 0 => state'[k].wr # NoThread
  BY <1>a, <1>b DEF IndInv, TypeOK, Word, WordTellsHolders, OwnsWrite
<1>6. ASSUME NEW k \in Locks PROVE state'[k].rd = Cardinality(ReadGrants(k)')
  <2>1. Woken(k)' = Woken(k) BY <1>a DEF Woken
  <2>2. state[k].rd = Cardinality(ReadGrants(k)) BY DEF IndInv, WordTellsHolders
  <2>3. CASE k = l
    <3>1. Cardinality(ReadGrants(l)') = Cardinality(ReadGrants(l)) + 1
      BY <1>1, <1>a, <2>1, <2>3, GrantsGain DEF IndInv
    <3> QED BY <1>a, <1>b, <2>2, <2>3, <3>1
  <2>4. CASE k # l
    <3>1. Column(k)' = Column(k) BY <1>a, <2>4, ColumnSame DEF TypeOK
    <3> QED BY <1>b, <2>1, <2>2, <2>4, <3>1, GrantsSame
  <2> QED BY <2>3, <2>4
<1>7. NoStrandedSleeper'
  BY <1>a, <1>b DEF IndInv, TypeOK, Word, NoStrandedSleeper
<1> QED BY <1>1, <1>2, <1>3, <1>4, <1>5, <1>6, <1>7 DEF IndInv, WordTellsHolders

\* pthread_rwlock_rdlock() going to the kernel moves control only.
LEMMA Inv_rdlock ==
  ASSUME IndInv, NEW t \in Threads, NEW l \in Locks, NEW tm \in BOOLEAN,
         pthread_rwlock_rdlock(t, l, tm)
  PROVE  IndInv'
<1> TypeOK BY DEF IndInv
<1>a. /\ pc[t] = "idle"
      /\ pc' = [pc EXCEPT ![t] = "rdpoll"]
      /\ arg' = [arg EXCEPT ![t] = l]
      /\ timed' = [timed EXCEPT ![t] = tm]
      /\ UNCHANGED <<state, recursion, rdlocks, wrlocks, rheld, rdsleep, wrsleep, old>>
  BY DEF pthread_rwlock_rdlock, MayRead, Goto
<1>1. TypeOK' BY <1>a DEF TypeOK, Labels
<1>2. ControlAgrees' BY <1>a, LocksAssumption DEF IndInv, TypeOK, ControlAgrees, ControlOf, OwningLabels
<1>3. QueuesAgree' BY SMTT(30), Zenon, <1>a DEF IndInv, TypeOK, QueuesAgree
<1>4. RdlocksCount' BY <1>a, CountKept DEF TypeOK
<1>5. ASSUME NEW k \in Locks
      PROVE  /\ \A u \in Threads : state'[k].wr = u <=> OwnsWrite(u, k)'
             /\ state'[k].wr # NoThread => state'[k].rd = 0
             /\ recursion'[k] > 0 => state'[k].wr # NoThread
  BY SMTT(30), Zenon, <1>a DEF IndInv, TypeOK, WordTellsHolders, OwnsWrite, OwningLabels
<1>6. ASSUME NEW k \in Locks PROVE state'[k].rd = Cardinality(ReadGrants(k)')
  <2>1. Woken(k)' = Woken(k) BY <1>a DEF Woken, TypeOK
  <2> QED BY <1>a, <2>1, GrantsKept
<1>7. NoStrandedSleeper' BY <1>a DEF IndInv, NoStrandedSleeper
<1> QED BY <1>1, <1>2, <1>3, <1>4, <1>5, <1>6, <1>7 DEF IndInv, WordTellsHolders

\* pthread_rwlock_wrlock() going to the kernel moves control only.
LEMMA Inv_wrlock ==
  ASSUME IndInv, NEW t \in Threads, NEW l \in Locks, NEW tm \in BOOLEAN,
         pthread_rwlock_wrlock(t, l, tm)
  PROVE  IndInv'
<1> TypeOK BY DEF IndInv
<1>a. /\ pc[t] = "idle"
      /\ pc' = [pc EXCEPT ![t] = "wrpoll"]
      /\ arg' = [arg EXCEPT ![t] = l]
      /\ timed' = [timed EXCEPT ![t] = tm]
      /\ UNCHANGED <<state, recursion, rdlocks, wrlocks, rheld, rdsleep, wrsleep, old>>
  BY DEF pthread_rwlock_wrlock, MayWrite, Goto
<1>1. TypeOK' BY <1>a DEF TypeOK, Labels
<1>2. ControlAgrees' BY <1>a, LocksAssumption DEF IndInv, TypeOK, ControlAgrees, ControlOf, OwningLabels
<1>3. QueuesAgree' BY SMTT(30), Zenon, <1>a DEF IndInv, TypeOK, QueuesAgree
<1>4. RdlocksCount' BY <1>a, CountKept DEF TypeOK
<1>5. ASSUME NEW k \in Locks
      PROVE  /\ \A u \in Threads : state'[k].wr = u <=> OwnsWrite(u, k)'
             /\ state'[k].wr # NoThread => state'[k].rd = 0
             /\ recursion'[k] > 0 => state'[k].wr # NoThread
  BY <1>a DEF IndInv, TypeOK, WordTellsHolders, OwnsWrite, OwningLabels
<1>6. ASSUME NEW k \in Locks PROVE state'[k].rd = Cardinality(ReadGrants(k)')
  <2>1. Woken(k)' = Woken(k) BY <1>a DEF Woken, TypeOK
  <2> QED BY <1>a, <2>1, GrantsKept
<1>7. NoStrandedSleeper' BY <1>a DEF IndInv, NoStrandedSleeper
<1> QED BY <1>1, <1>2, <1>3, <1>4, <1>5, <1>6, <1>7 DEF IndInv, WordTellsHolders

\* pthread_rwlock_trywrlock() on an unlocked word makes t the owner.
LEMMA Inv_trywrlock_first ==
  ASSUME IndInv, NEW t \in Threads, NEW l \in Locks,
         pthread_rwlock_trywrlock(t, l), state[l] = Unlocked
  PROVE  IndInv'
<1> TypeOK BY DEF IndInv
<1>0. state[l].wr # t BY ThreadsAssumption DEF Unlocked
<1>a. /\ state' = [state EXCEPT ![l] = WriteLocked(t, FALSE)]
      /\ wrlocks' = [wrlocks EXCEPT ![t] = @ \cup {l}]
      /\ pc[t] = "idle"
      /\ UNCHANGED <<recursion, rdlocks, rheld, rdsleep, wrsleep, pc, arg, timed, old>>
  BY <1>0 DEF pthread_rwlock_trywrlock, trywrlock_ok, MayWrite, NoCall
<1>b. arg[t] = NoLock BY <1>a DEF IndInv, ControlAgrees, ControlOf
<1>c. state'[l] = WriteLocked(t, FALSE) /\ \A k \in Locks : k # l => state'[k] = state[k]
  BY <1>a DEF TypeOK
<1>1. TypeOK' BY <1>a DEF TypeOK, Word, WriteLocked
<1>2. ControlAgrees'
  <2>1. \A u \in Threads : u # t => wrlocks'[u] = wrlocks[u] BY <1>a DEF TypeOK
  <2> QED BY <1>a, <2>1 DEF IndInv, ControlAgrees, ControlOf, OwningLabels
<1>3. QueuesAgree' BY <1>a DEF IndInv, QueuesAgree
<1>4. RdlocksCount' BY <1>a, CountKept
<1>5. ASSUME NEW k \in Locks
      PROVE  /\ \A u \in Threads : state'[k].wr = u <=> OwnsWrite(u, k)'
             /\ state'[k].wr # NoThread => state'[k].rd = 0
             /\ recursion'[k] > 0 => state'[k].wr # NoThread
  <2>1. CASE k = l
    <3>1. ASSUME NEW u \in Threads, u # t PROVE ~OwnsWrite(u, l)'
      <4>1. ~OwnsWrite(u, l)
        BY ThreadsAssumption DEF IndInv, WordTellsHolders, Unlocked
      <4> QED BY <1>a, <3>1, <4>1 DEF OwnsWrite, TypeOK
    <3>2. OwnsWrite(t, l)' BY <1>a DEF OwnsWrite, TypeOK
    <3> QED BY <1>c, <2>1, <3>1, <3>2, ThreadsAssumption DEF WriteLocked
  <2>2. CASE k # l
    <3>1. ASSUME NEW u \in Threads PROVE OwnsWrite(u, k)' <=> OwnsWrite(u, k)
      BY <1>a, <2>2 DEF OwnsWrite, TypeOK
    <3> QED BY <1>a, <1>c, <2>2, <3>1 DEF IndInv, WordTellsHolders
  <2> QED BY <2>1, <2>2
<1>6. ASSUME NEW k \in Locks PROVE state'[k].rd = Cardinality(ReadGrants(k)')
  <2>1. Woken(k)' = Woken(k) BY <1>a DEF Woken
  <2>2. state'[k].rd = state[k].rd BY <1>c DEF WriteLocked, Unlocked
  <2> QED BY <1>a, <2>1, <2>2, GrantsKept
<1>7. NoStrandedSleeper'
  <2>1. rdsleep[l] \cup wrsleep[l] = {} BY DEF IndInv, NoStrandedSleeper, Unlocked
  <2>2. ~state'[l].km BY <1>c DEF WriteLocked
  <2> QED BY <1>a, <1>c, <2>1, <2>2 DEF IndInv, NoStrandedSleeper
<1> QED BY <1>1, <1>2, <1>3, <1>4, <1>5, <1>6, <1>7 DEF IndInv, WordTellsHolders

\* pthread_rwlock_trywrlock() by the owner counts the recursion.
LEMMA Inv_trywrlock_again ==
  ASSUME IndInv, NEW t \in Threads, NEW l \in Locks,
         pthread_rwlock_trywrlock(t, l), state[l] # Unlocked
  PROVE  IndInv'
<1> TypeOK BY DEF IndInv
<1>a. /\ state[l].wr = t
      /\ recursion[l] < MaxRecursion
      /\ recursion' = [recursion EXCEPT ![l] = @ + 1]
      /\ pc[t] = "idle"
      /\ UNCHANGED <<state, wrlocks, rdlocks, rheld, rdsleep, wrsleep, pc, arg, timed, old>>
  BY DEF pthread_rwlock_trywrlock, trywrlock_ok, MayWrite, NoCall
<1>1. TypeOK' BY <1>a, BoundsAssumption DEF TypeOK
<1>2. ControlAgrees'
  <2>1. \A u \in Threads : pc[u] \in OwningLabels => arg[u] # l
    <3> SUFFICES ASSUME NEW u \in Threads, pc[u] \in OwningLabels, arg[u] = l
        PROVE  FALSE
      OBVIOUS
    <3>1. OwnsWrite(u, l) BY DEF OwnsWrite
    <3>2. state[l].wr = u BY <3>1 DEF IndInv, WordTellsHolders
    <3> QED BY <1>a, <3>2 DEF OwningLabels
  <2>2. \A u \in Threads : pc[u] \in OwningLabels => arg[u] \in Locks
    BY DEF IndInv, ControlAgrees, ControlOf, TypeOK, OwningLabels
  <2> QED BY <1>a, <2>1, <2>2 DEF IndInv, ControlAgrees, ControlOf, TypeOK
<1>3. QueuesAgree' BY <1>a DEF IndInv, QueuesAgree
<1>4. RdlocksCount' BY <1>a, CountKept
<1>5. ASSUME NEW k \in Locks
      PROVE  /\ \A u \in Threads : state'[k].wr = u <=> OwnsWrite(u, k)'
             /\ state'[k].wr # NoThread => state'[k].rd = 0
             /\ recursion'[k] > 0 => state'[k].wr # NoThread
  <2>1. recursion'[k] > 0 => state[k].wr # NoThread
    BY <1>a, ThreadsAssumption DEF IndInv, WordTellsHolders, TypeOK
  <2> QED BY <1>a, <2>1 DEF IndInv, WordTellsHolders, OwnsWrite
<1>6. ASSUME NEW k \in Locks PROVE state'[k].rd = Cardinality(ReadGrants(k)')
  <2>1. Woken(k)' = Woken(k) BY <1>a DEF Woken
  <2> QED BY <1>a, <2>1, GrantsKept
<1>7. NoStrandedSleeper' BY <1>a DEF IndInv, NoStrandedSleeper
<1> QED BY <1>1, <1>2, <1>3, <1>4, <1>5, <1>6, <1>7 DEF IndInv, WordTellsHolders

\* The kernel grants a read lock at once.
LEMMA Inv_poll_rdlock_acquire ==
  ASSUME IndInv, NEW t \in Threads, NEW l \in Locks, l = arg[t],
         sys_poll_rdlock(t), state[l].wr = NoThread, ~state[l].km
  PROVE  IndInv'
<1> TypeOK BY DEF IndInv
<1>a. /\ pc[t] = "rdpoll"
      /\ state' = [state EXCEPT ![l].rd = @ + 1]
      /\ pc' = [pc EXCEPT ![t] = "rdwoken"]
      /\ UNCHANGED <<recursion, rdlocks, wrlocks, rheld, rdsleep, wrsleep, arg, timed, old>>
  BY DEF sys_poll_rdlock, Goto, TypeOK
<1>b. /\ state' \in [Locks -> Word]
      /\ state'[l] = [wr |-> NoThread, rd |-> state[l].rd + 1, km |-> state[l].km]
      /\ \A k \in Locks : k # l => state'[k] = state[k]
  BY <1>a, WordGain DEF TypeOK
<1>1. TypeOK' BY <1>a, <1>b DEF TypeOK, Labels
<1>2. ControlAgrees' BY <1>a, LocksAssumption DEF IndInv, TypeOK, ControlAgrees, ControlOf, OwningLabels
<1>3. QueuesAgree' BY <1>a DEF IndInv, TypeOK, QueuesAgree
<1>4. RdlocksCount' BY <1>a, CountKept DEF TypeOK
<1>5. ASSUME NEW k \in Locks
      PROVE  /\ \A u \in Threads : state'[k].wr = u <=> OwnsWrite(u, k)'
             /\ state'[k].wr # NoThread => state'[k].rd = 0
             /\ recursion'[k] > 0 => state'[k].wr # NoThread
  <2>1. ASSUME NEW u \in Threads PROVE OwnsWrite(u, k)' <=> OwnsWrite(u, k)
    BY <1>a DEF OwnsWrite, OwningLabels, TypeOK
  <2>2. state'[k].wr = state[k].wr /\ (k # l => state'[k].rd = state[k].rd) BY <1>b
  <2> QED BY <1>a, <2>1, <2>2 DEF IndInv, WordTellsHolders
<1>6. ASSUME NEW k \in Locks PROVE state'[k].rd = Cardinality(ReadGrants(k)')
  <2>1. state[k].rd = Cardinality(ReadGrants(k)) BY DEF IndInv, WordTellsHolders
  <2>2. CASE k = l
    <3>1. Woken(l)' = Woken(l) \cup {t} BY <1>a DEF Woken, TypeOK
    <3>2. t \notin Woken(l) BY <1>a DEF Woken
    <3>3. /\ Column(l) \in [Threads -> Nat]
          /\ Woken(l) \in SUBSET Threads /\ Woken(l)' \in SUBSET Threads
      BY GrantsFacts DEF Column, TypeOK, Woken
    <3>4. Cardinality(Tokens(Threads, Column(l), Woken(l)'))
            = Cardinality(Tokens(Threads, Column(l), Woken(l))) + 1
      BY SMTT(30), Zenon, <3>1, <3>2, <3>3, TokensWake, ThreadsAssumption
    <3>5. Cardinality(ReadGrants(l)') = Cardinality(ReadGrants(l)) + 1
      BY <1>a, <3>4 DEF ReadGrants, Column
    <3> QED BY <1>b, <2>1, <2>2, <3>5
  <2>3. CASE k # l
    <3>1. Woken(k)' = Woken(k) BY <1>a, <2>3 DEF Woken, TypeOK
    <3> QED BY <1>a, <1>b, <2>3, <3>1, GrantsKept
  <2> QED BY <2>2, <2>3
<1>7. NoStrandedSleeper'
  <2>1. state'[l].rd > 0 BY <1>b DEF TypeOK, Word
  <2>2. state'[l].km = state[l].km BY <1>b
  <2> QED BY <1>a, <1>b, <2>1, <2>2 DEF IndInv, NoStrandedSleeper
<1> QED BY <1>1, <1>2, <1>3, <1>4, <1>5, <1>6, <1>7 DEF IndInv, WordTellsHolders

\* The kernel puts a reader to sleep and marks the word.
LEMMA Inv_poll_rdlock_sleep ==
  ASSUME IndInv, NEW t \in Threads, NEW l \in Locks, l = arg[t],
         sys_poll_rdlock(t), ~(state[l].wr = NoThread /\ ~state[l].km)
  PROVE  IndInv'
<1> TypeOK BY DEF IndInv
<1>a. /\ pc[t] = "rdpoll"
      /\ state' = [state EXCEPT ![l].km = TRUE]
      /\ pc' = [pc EXCEPT ![t] = "rdsleep"]
      /\ rdsleep' = [rdsleep EXCEPT ![l] = @ \cup {t}]
      /\ UNCHANGED <<recursion, rdlocks, wrlocks, rheld, wrsleep, arg, timed, old>>
  BY DEF sys_poll_rdlock, Goto, TypeOK
<1>b. /\ state' \in [Locks -> Word]
      /\ state'[l] = [wr |-> state[l].wr, rd |-> state[l].rd, km |-> TRUE]
      /\ \A k \in Locks : k # l => state'[k] = state[k]
  BY <1>a, WordMark DEF TypeOK
<1>c. \A k \in Locks : state'[k].wr = state[k].wr /\ state'[k].rd = state[k].rd
  BY <1>b
<1>1. TypeOK' BY <1>a, <1>b DEF TypeOK, Labels
<1>2. ControlAgrees' BY <1>a, LocksAssumption DEF IndInv, TypeOK, ControlAgrees, ControlOf, OwningLabels
<1>3. QueuesAgree' BY <1>a DEF IndInv, TypeOK, QueuesAgree
<1>4. RdlocksCount' BY <1>a, CountKept DEF TypeOK
<1>5. ASSUME NEW k \in Locks
      PROVE  /\ \A u \in Threads : state'[k].wr = u <=> OwnsWrite(u, k)'
             /\ state'[k].wr # NoThread => state'[k].rd = 0
             /\ recursion'[k] > 0 => state'[k].wr # NoThread
  BY <1>a, <1>c DEF IndInv, TypeOK, WordTellsHolders, OwnsWrite, OwningLabels
<1>6. ASSUME NEW k \in Locks PROVE state'[k].rd = Cardinality(ReadGrants(k)')
  <2>1. Woken(k)' = Woken(k) BY <1>a DEF Woken, TypeOK
  <2> QED BY <1>a, <1>c, <2>1, GrantsKept
<1>7. NoStrandedSleeper'
  <2>1. state[l].wr # NoThread \/ state[l].rd > 0
    BY DEF IndInv, NoStrandedSleeper
  <2>2. ASSUME NEW k \in Locks
        PROVE  /\ rdsleep'[k] \cup wrsleep'[k] # {} => state'[k].km
               /\ state'[k].km => state'[k].wr # NoThread \/ state'[k].rd > 0
    <3>1. CASE k = l BY <1>b, <2>1, <3>1
    <3>2. CASE k # l
      <4>1. rdsleep'[k] = rdsleep[k] /\ wrsleep'[k] = wrsleep[k]
        BY <1>a, <3>2 DEF TypeOK
      <4> QED BY <1>b, <3>2, <4>1 DEF IndInv, NoStrandedSleeper
    <3> QED BY <3>1, <3>2
  <2> QED BY <2>2 DEF NoStrandedSleeper
<1> QED BY <1>1, <1>2, <1>3, <1>4, <1>5, <1>6, <1>7 DEF IndInv, WordTellsHolders

\* The kernel puts a writer to sleep and marks the word.
LEMMA Inv_poll_wrlock_sleep ==
  ASSUME IndInv, NEW t \in Threads, NEW l \in Locks, l = arg[t],
         sys_poll_wrlock(t), state[l] # Unlocked
  PROVE  IndInv'
<1> TypeOK BY DEF IndInv
<1>a. /\ pc[t] = "wrpoll"
      /\ state' = [state EXCEPT ![l].km = TRUE]
      /\ pc' = [pc EXCEPT ![t] = "wrsleep"]
      /\ wrsleep' = [wrsleep EXCEPT ![l] = @ \cup {t}]
      /\ UNCHANGED <<recursion, rdlocks, wrlocks, rheld, rdsleep, arg, timed, old>>
  BY DEF sys_poll_wrlock, Goto, TypeOK
<1>b. /\ state' \in [Locks -> Word]
      /\ state'[l] = [wr |-> state[l].wr, rd |-> state[l].rd, km |-> TRUE]
      /\ \A k \in Locks : k # l => state'[k] = state[k]
  BY <1>a, WordMark DEF TypeOK
<1>c. \A k \in Locks : state'[k].wr = state[k].wr /\ state'[k].rd = state[k].rd
  BY SMTT(30), Zenon, <1>b
<1>1. TypeOK' BY <1>a, <1>b DEF TypeOK, Labels
<1>2. ControlAgrees' BY <1>a, LocksAssumption DEF IndInv, TypeOK, ControlAgrees, ControlOf, OwningLabels
<1>3. QueuesAgree' BY <1>a DEF IndInv, TypeOK, QueuesAgree
<1>4. RdlocksCount' BY <1>a, CountKept DEF TypeOK
<1>5. ASSUME NEW k \in Locks
      PROVE  /\ \A u \in Threads : state'[k].wr = u <=> OwnsWrite(u, k)'
             /\ state'[k].wr # NoThread => state'[k].rd = 0
             /\ recursion'[k] > 0 => state'[k].wr # NoThread
  BY <1>a, <1>c DEF IndInv, TypeOK, WordTellsHolders, OwnsWrite, OwningLabels
<1>6. ASSUME NEW k \in Locks PROVE state'[k].rd = Cardinality(ReadGrants(k)')
  <2>1. Woken(k)' = Woken(k) BY <1>a DEF Woken, TypeOK
  <2> QED BY <1>a, <1>c, <2>1, GrantsKept
<1>7. NoStrandedSleeper'
  <2>1. state[l].wr # NoThread \/ state[l].rd > 0
    <3>1. state[l] \in Word BY DEF TypeOK
    <3>2. state[l].km \/ state[l].wr # NoThread \/ state[l].rd # 0
      BY <3>1 DEF Word, Unlocked
    <3>3. state[l].rd \in Nat BY <3>1 DEF Word
    <3> QED BY <3>2, <3>3 DEF IndInv, NoStrandedSleeper
  <2>2. ASSUME NEW k \in Locks
        PROVE  /\ rdsleep'[k] \cup wrsleep'[k] # {} => state'[k].km
               /\ state'[k].km => state'[k].wr # NoThread \/ state'[k].rd > 0
    <3>1. CASE k = l BY <1>b, <2>1, <3>1
    <3>2. CASE k # l
      <4>1. rdsleep'[k] = rdsleep[k] /\ wrsleep'[k] = wrsleep[k]
        BY <1>a, <3>2 DEF TypeOK
      <4> QED BY <1>b, <3>2, <4>1 DEF IndInv, NoStrandedSleeper
    <3> QED BY <3>1, <3>2
  <2> QED BY <2>2 DEF NoStrandedSleeper
<1> QED BY <1>1, <1>2, <1>3, <1>4, <1>5, <1>6, <1>7 DEF IndInv, WordTellsHolders

\* The kernel grants the write lock of an unlocked word at once.
LEMMA Inv_poll_wrlock_acquire ==
  ASSUME IndInv, NEW t \in Threads, NEW l \in Locks, l = arg[t],
         sys_poll_wrlock(t), state[l] = Unlocked
  PROVE  IndInv'
<1> TypeOK BY DEF IndInv
<1>a. /\ pc[t] = "wrpoll"
      /\ state' = [state EXCEPT ![l] = WriteLocked(t, FALSE)]
      /\ pc' = [pc EXCEPT ![t] = "wrwoken"]
      /\ UNCHANGED <<recursion, rdlocks, wrlocks, rheld, rdsleep, wrsleep, arg, timed, old>>
  BY DEF sys_poll_wrlock, Goto, TypeOK
<1>b. state'[l] = WriteLocked(t, FALSE) /\ \A k \in Locks : k # l => state'[k] = state[k]
  BY <1>a DEF TypeOK
<1>c. recursion[l] <= 0 /\ \A u \in Threads : ~OwnsWrite(u, l)
  <2>1. recursion[l] \in Int BY DEF TypeOK
  <2> QED BY <2>1, ThreadsAssumption DEF IndInv, WordTellsHolders, Unlocked
<1>1. TypeOK' BY <1>a DEF TypeOK, Labels, Word, WriteLocked
<1>2. ControlAgrees'
  BY <1>a, <1>c, LocksAssumption DEF IndInv, TypeOK, ControlAgrees, ControlOf, OwningLabels, OwnsWrite
<1>3. QueuesAgree' BY <1>a DEF IndInv, TypeOK, QueuesAgree
<1>4. RdlocksCount' BY <1>a, CountKept DEF TypeOK
<1>5. ASSUME NEW k \in Locks
      PROVE  /\ \A u \in Threads : state'[k].wr = u <=> OwnsWrite(u, k)'
             /\ state'[k].wr # NoThread => state'[k].rd = 0
             /\ recursion'[k] > 0 => state'[k].wr # NoThread
  <2>1. CASE k = l
    <3>1. ASSUME NEW u \in Threads, u # t PROVE ~OwnsWrite(u, l)'
      BY <1>a, <1>c, <3>1 DEF OwnsWrite, TypeOK
    <3>2. OwnsWrite(t, l)' BY <1>a DEF OwnsWrite, OwningLabels, TypeOK
    <3> QED BY <1>b, <2>1, <3>1, <3>2, ThreadsAssumption DEF WriteLocked
  <2>2. CASE k # l
    <3>1. ASSUME NEW u \in Threads PROVE OwnsWrite(u, k)' <=> OwnsWrite(u, k)
      BY <1>a, <2>2 DEF OwnsWrite, TypeOK
    <3> QED BY SMTT(30), Zenon, <1>a, <1>b, <2>2, <3>1 DEF IndInv, WordTellsHolders
  <2> QED BY <2>1, <2>2
<1>6. ASSUME NEW k \in Locks PROVE state'[k].rd = Cardinality(ReadGrants(k)')
  <2>1. Woken(k)' = Woken(k) BY <1>a DEF Woken, TypeOK
  <2>2. state'[k].rd = state[k].rd BY SMTT(30), Zenon, <1>b DEF WriteLocked, Unlocked
  <2> QED BY <1>a, <2>1, <2>2, GrantsKept
<1>7. NoStrandedSleeper'
  <2>1. rdsleep[l] \cup wrsleep[l] = {} BY DEF IndInv, NoStrandedSleeper, Unlocked
  <2>2. ~state'[l].km BY <1>b DEF WriteLocked
  <2> QED BY <1>a, <1>b, <2>1, <2>2 DEF IndInv, NoStrandedSleeper
<1> QED BY <1>1, <1>2, <1>3, <1>4, <1>5, <1>6, <1>7 DEF IndInv, WordTellsHolders

\* A timeout takes the sleeper out of its queue and leaves the word.
LEMMA Inv_poll_timeout ==
  ASSUME IndInv, NEW t \in Threads, sys_poll_timeout(t)
  PROVE  IndInv'
<1> TypeOK BY DEF IndInv
<1>a. /\ pc[t] \in {"rdsleep", "wrsleep"}
      /\ rdsleep' = [rdsleep EXCEPT ![arg[t]] = @ \ {t}]
      /\ wrsleep' = [wrsleep EXCEPT ![arg[t]] = @ \ {t}]
      /\ pc' = [pc EXCEPT ![t] = "idle"]
      /\ arg' = [arg EXCEPT ![t] = NoLock]
      /\ timed' = [timed EXCEPT ![t] = FALSE]
      /\ old' = [old EXCEPT ![t] = Unlocked]
      /\ UNCHANGED <<state, recursion, rdlocks, wrlocks, rheld>>
  BY DEF sys_poll_timeout, Return, Goto
<1>b. arg[t] \in Locks BY <1>a DEF IndInv, TypeOK, ControlAgrees, ControlOf
<1>c. Unlocked \in Word BY DEF Unlocked, Word
<1>1. TypeOK' BY <1>a, <1>b, <1>c DEF TypeOK, Labels
<1>2. ControlAgrees' BY <1>a, <1>b, LocksAssumption DEF IndInv, TypeOK, ControlAgrees, ControlOf, OwningLabels
<1>3. QueuesAgree' BY SMTT(30), Zenon, <1>a, <1>b, LocksAssumption DEF IndInv, TypeOK, QueuesAgree
<1>4. RdlocksCount' BY <1>a, CountKept DEF TypeOK
<1>5. ASSUME NEW k \in Locks
      PROVE  /\ \A u \in Threads : state'[k].wr = u <=> OwnsWrite(u, k)'
             /\ state'[k].wr # NoThread => state'[k].rd = 0
             /\ recursion'[k] > 0 => state'[k].wr # NoThread
  BY SMTT(30), Zenon, <1>a DEF IndInv, TypeOK, WordTellsHolders, OwnsWrite, OwningLabels
<1>6. ASSUME NEW k \in Locks PROVE state'[k].rd = Cardinality(ReadGrants(k)')
  <2>1. Woken(k)' = Woken(k) BY <1>a DEF Woken, TypeOK
  <2> QED BY <1>a, <2>1, GrantsKept
<1>7. NoStrandedSleeper' BY <1>a, <1>b DEF IndInv, TypeOK, NoStrandedSleeper
<1> QED BY <1>1, <1>2, <1>3, <1>4, <1>5, <1>6, <1>7 DEF IndInv, WordTellsHolders

\* pthread_rwlock_rdlock() returning from the kernel counts its lock.
LEMMA Inv_rdlock_return ==
  ASSUME IndInv, NEW t \in Threads, NEW l \in Locks, l = arg[t], rdlock_return(t)
  PROVE  IndInv'
<1> TypeOK BY DEF IndInv
<1>a. /\ pc[t] = "rdwoken"
      /\ rheld' = [rheld EXCEPT ![t][l] = @ + 1]
      /\ rdlocks' = [rdlocks EXCEPT ![t] = @ + 1]
      /\ pc' = [pc EXCEPT ![t] = "idle"]
      /\ arg' = [arg EXCEPT ![t] = NoLock]
      /\ timed' = [timed EXCEPT ![t] = FALSE]
      /\ old' = [old EXCEPT ![t] = Unlocked]
      /\ UNCHANGED <<state, recursion, wrlocks, rdsleep, wrsleep>>
  BY DEF rdlock_return, GainRead, Return, Goto
<1>1. TypeOK'
  <2>1. rheld' \in [Threads -> [Locks -> Nat]] BY <1>a DEF TypeOK
  <2>2. rdlocks' \in [Threads -> Nat] BY <1>a DEF TypeOK
  <2>3. Unlocked \in Word BY DEF Unlocked, Word
  <2> QED BY <1>a, <2>1, <2>2, <2>3 DEF TypeOK, Labels
<1>2. ControlAgrees'
  <2> SUFFICES ASSUME NEW u \in Threads PROVE ControlOf(u)' BY DEF ControlAgrees
  <2>1. CASE u = t BY <1>a, <2>1 DEF TypeOK, ControlOf, OwningLabels
  <2>2. CASE u # t
    <3>1. /\ pc'[u] = pc[u] /\ arg'[u] = arg[u] /\ old'[u] = old[u]
          /\ rheld'[u] = rheld[u] /\ wrlocks' = wrlocks /\ recursion' = recursion
      BY <1>a, <2>2 DEF TypeOK
    <3>2. ControlOf(u) BY DEF IndInv, ControlAgrees
    <3> QED BY <3>1, <3>2 DEF ControlOf
  <2> QED BY <2>1, <2>2
<1>3. QueuesAgree' BY SMTT(30), Zenon, <1>a, LocksAssumption DEF IndInv, TypeOK, QueuesAgree
<1>4. RdlocksCount'
  <2> SUFFICES ASSUME NEW u \in Threads
      PROVE  rdlocks'[u] = Cardinality(ReadHolds(u)') + IF pc'[u] = "rdsys" THEN 1 ELSE 0
    BY DEF RdlocksCount
  <2>1. rdlocks'[u] = rdlocks[u] + IF u = t THEN 1 ELSE 0 BY <1>a DEF TypeOK
  <2>2. rdlocks[u] = Cardinality(ReadHolds(u)) + IF pc[u] = "rdsys" THEN 1 ELSE 0
    BY DEF IndInv, RdlocksCount
  <2>3. Cardinality(ReadHolds(u)') = Cardinality(ReadHolds(u)) + IF u = t THEN 1 ELSE 0
    BY <1>1, <1>a, HoldsGain
  <2>4. pc'[u] = "rdsys" <=> pc[u] = "rdsys" BY <1>a DEF TypeOK
  <2> QED BY <2>1, <2>2, <2>3, <2>4, HoldsCounted
<1>5. ASSUME NEW k \in Locks
      PROVE  /\ \A u \in Threads : state'[k].wr = u <=> OwnsWrite(u, k)'
             /\ state'[k].wr # NoThread => state'[k].rd = 0
             /\ recursion'[k] > 0 => state'[k].wr # NoThread
  BY SMTT(30), Zenon, <1>a DEF IndInv, TypeOK, WordTellsHolders, OwnsWrite, OwningLabels
<1>6. ASSUME NEW k \in Locks PROVE state'[k].rd = Cardinality(ReadGrants(k)')
  <2>1. CASE k = l
    <3>1. Woken(l)' = Woken(l) \ {t} /\ t \in Woken(l)
      BY <1>a, LocksAssumption DEF Woken, TypeOK
    <3>2. /\ Column(l) \in [Threads -> Nat] /\ Column(l)' \in [Threads -> Nat]
          /\ Woken(l) \in SUBSET Threads /\ Woken(l)' \in SUBSET Threads
      BY SMTT(30), Zenon, <1>1, GrantsFacts DEF Column, TypeOK, Woken
    <3>3. /\ Column(l)'[t] = Column(l)[t] + 1
          /\ \A u \in Threads \ {t} : Column(l)'[u] = Column(l)[u]
      BY <1>a DEF TypeOK, Column
    <3>4. Cardinality(Tokens(Threads, Column(l)', Woken(l)'))
            = Cardinality(Tokens(Threads, Column(l), Woken(l)))
      BY <3>1, <3>2, <3>3, TokensSettle, ThreadsAssumption
    <3>5. Cardinality(ReadGrants(l)') = Cardinality(ReadGrants(l))
      BY <3>4 DEF ReadGrants, Column
    <3> QED BY <1>a, <2>1, <3>5 DEF IndInv, WordTellsHolders
  <2>2. CASE k # l
    <3>1. Woken(k)' = Woken(k) BY <1>a, <2>2, LocksAssumption DEF Woken, TypeOK
    <3>2. Column(k)' = Column(k)
      <4>1. \A u \in Threads : rheld'[u][k] = rheld[u][k] BY <1>a, <2>2 DEF TypeOK
      <4> QED BY <4>1 DEF Column
    <3>3. ReadGrants(k)' = ReadGrants(k) BY <3>1, <3>2, GrantsSame
    <3> QED BY <1>a, <3>3 DEF IndInv, WordTellsHolders
  <2> QED BY <2>1, <2>2
<1>7. NoStrandedSleeper' BY <1>a DEF IndInv, NoStrandedSleeper
<1> QED BY <1>1, <1>2, <1>3, <1>4, <1>5, <1>6, <1>7 DEF IndInv, WordTellsHolders

\* pthread_rwlock_wrlock() returning from the kernel lists its lock.
LEMMA Inv_wrlock_return ==
  ASSUME IndInv, NEW t \in Threads, NEW l \in Locks, l = arg[t], wrlock_return(t)
  PROVE  IndInv'
<1> TypeOK BY DEF IndInv
<1>a. /\ pc[t] = "wrwoken"
      /\ wrlocks' = [wrlocks EXCEPT ![t] = @ \cup {l}]
      /\ pc' = [pc EXCEPT ![t] = "idle"]
      /\ arg' = [arg EXCEPT ![t] = NoLock]
      /\ timed' = [timed EXCEPT ![t] = FALSE]
      /\ old' = [old EXCEPT ![t] = Unlocked]
      /\ UNCHANGED <<state, recursion, rdlocks, rheld, rdsleep, wrsleep>>
  BY DEF wrlock_return, Return, Goto
<1>b. Unlocked \in Word BY DEF Unlocked, Word
<1>1. TypeOK' BY <1>a, <1>b DEF TypeOK, Labels
<1>2. ControlAgrees' BY <1>a, LocksAssumption DEF IndInv, TypeOK, ControlAgrees, ControlOf, OwningLabels
<1>3. QueuesAgree' BY SMTT(30), Zenon, <1>a, LocksAssumption DEF IndInv, TypeOK, QueuesAgree
<1>4. RdlocksCount' BY <1>a, CountKept DEF TypeOK
<1>5. ASSUME NEW k \in Locks
      PROVE  /\ \A u \in Threads : state'[k].wr = u <=> OwnsWrite(u, k)'
             /\ state'[k].wr # NoThread => state'[k].rd = 0
             /\ recursion'[k] > 0 => state'[k].wr # NoThread
  <2>1. ASSUME NEW u \in Threads PROVE OwnsWrite(u, k)' <=> OwnsWrite(u, k)
    BY <1>a, LocksAssumption DEF OwnsWrite, OwningLabels, TypeOK
  <2> QED BY <1>a, <2>1 DEF IndInv, WordTellsHolders
<1>6. ASSUME NEW k \in Locks PROVE state'[k].rd = Cardinality(ReadGrants(k)')
  <2>1. Woken(k)' = Woken(k) BY <1>a DEF Woken, TypeOK
  <2> QED BY <1>a, <2>1, GrantsKept
<1>7. NoStrandedSleeper' BY <1>a DEF IndInv, NoStrandedSleeper
<1> QED BY <1>1, <1>2, <1>3, <1>4, <1>5, <1>6, <1>7 DEF IndInv, WordTellsHolders

=============================================================================
