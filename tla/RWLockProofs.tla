---------------------------- MODULE RWLockProofs ----------------------------
(***************************************************************************)
(* The release side of the read-write lock preserves the inductive         *)
(* invariant of RWLock, and the theorems that follow from it, for every    *)
(* number of threads and locks.                                            *)
(***************************************************************************)
EXTENDS RWLockLemmas

-----------------------------------------------------------------------------
(* Releasing preserves the invariant. *)

\* Unlocking a recursive acquisition only counts down.
LEMMA Inv_unlock_recursive ==
  ASSUME IndInv, NEW t \in Threads, NEW l \in Locks, pthread_rwlock_unlock(t, l),
         state[l].wr # NoThread, recursion[l] > 0
  PROVE  IndInv'
<1> TypeOK BY DEF IndInv
<1>0. ~(recursion[l] <= 0) BY DEF TypeOK
<1>a. /\ recursion' = [recursion EXCEPT ![l] = @ - 1]
      /\ UNCHANGED <<state, rdlocks, wrlocks, rheld, rdsleep, wrsleep, pc, arg, timed, old>>
  BY <1>0 DEF pthread_rwlock_unlock, NoCall
<1>1. TypeOK' BY <1>a, BoundsAssumption DEF TypeOK
<1>2. ControlAgrees'
  <2>1. \A k \in Locks : recursion[k] <= 0 => recursion'[k] <= 0 BY <1>a DEF TypeOK
  <2>2. \A u \in Threads : pc[u] \in OwningLabels => arg[u] \in Locks
    BY DEF IndInv, ControlAgrees, ControlOf, TypeOK, OwningLabels
  <2> QED BY <1>a, <2>1, <2>2 DEF IndInv, ControlAgrees, ControlOf
<1>3. QueuesAgree' BY <1>a DEF IndInv, QueuesAgree
<1>4. RdlocksCount' BY <1>a, CountKept
<1>5. ASSUME NEW k \in Locks
      PROVE  /\ \A u \in Threads : state'[k].wr = u <=> OwnsWrite(u, k)'
             /\ state'[k].wr # NoThread => state'[k].rd = 0
             /\ recursion'[k] > 0 => state'[k].wr # NoThread
  <2>1. recursion'[k] > 0 => state[k].wr # NoThread
    BY <1>a DEF IndInv, WordTellsHolders, TypeOK
  <2> QED BY <1>a, <2>1 DEF IndInv, WordTellsHolders, OwnsWrite
<1>6. ASSUME NEW k \in Locks PROVE state'[k].rd = Cardinality(ReadGrants(k)')
  <2>1. Woken(k)' = Woken(k) BY <1>a DEF Woken
  <2> QED BY <1>a, <2>1, GrantsKept
<1>7. NoStrandedSleeper' BY <1>a DEF IndInv, NoStrandedSleeper
<1> QED BY <1>1, <1>2, <1>3, <1>4, <1>5, <1>6, <1>7 DEF IndInv, WordTellsHolders

\* A write unlock unlists the lock and still owns the word.
LEMMA Inv_unlock_write ==
  ASSUME IndInv, NEW t \in Threads, NEW l \in Locks, pthread_rwlock_unlock(t, l),
         state[l].wr # NoThread, ~(recursion[l] > 0)
  PROVE  IndInv'
<1> TypeOK BY DEF IndInv
<1>a. /\ pc[t] = "idle"
      /\ rheld[t][l] > 0 \/ l \in wrlocks[t]
      /\ wrlocks' = [wrlocks EXCEPT ![t] = @ \ {l}]
      /\ pc' = [pc EXCEPT ![t] = IF state[l].km THEN "wrsys" ELSE "wrcas"]
      /\ arg' = [arg EXCEPT ![t] = l]
      /\ timed' = [timed EXCEPT ![t] = FALSE]
      /\ old' = [old EXCEPT ![t] = state[l]]
      /\ UNCHANGED <<state, recursion, rdlocks, rheld, rdsleep, wrsleep>>
  BY DEF pthread_rwlock_unlock, MayUnlock, Goto
<1>b. l \in wrlocks[t] /\ state[l].wr = t
  <2>1. ~HoldsRead(t, l) BY HeldForReading
  <2>2. l \in wrlocks[t] BY <1>a, <2>1 DEF HoldsRead
  <2>3. OwnsWrite(t, l) BY <2>2 DEF OwnsWrite
  <2> QED BY <2>2, <2>3 DEF IndInv, WordTellsHolders
<1>c. ~state[l].km => state[l] = WriteLocked(t, FALSE)
  <2>1. state[l] \in Word BY DEF TypeOK
  <2>2. state[l].rd = 0 BY DEF IndInv, WordTellsHolders
  <2> QED BY <1>b, <2>1, <2>2 DEF Word, WriteLocked
<1>d. recursion[l] <= 0 BY DEF TypeOK
<1>e. pc'[t] \in {"wrsys", "wrcas"} BY <1>a DEF TypeOK
<1>1. TypeOK' BY <1>a DEF TypeOK, Labels
<1>2. ControlAgrees'
  <2> SUFFICES ASSUME NEW u \in Threads PROVE ControlOf(u)' BY DEF ControlAgrees
  <2>1. CASE u = t
    BY <1>a, <1>c, <1>d, <1>e, <2>1, LocksAssumption DEF TypeOK, ControlOf
  <2>2. CASE u # t BY <1>a, <2>2 DEF IndInv, ControlAgrees, ControlOf, TypeOK
  <2> QED BY <2>1, <2>2
<1>3. QueuesAgree' BY <1>a, <1>e DEF IndInv, TypeOK, QueuesAgree
<1>4. RdlocksCount'
  BY <1>a, <1>e, CountKept DEF TypeOK
<1>5. ASSUME NEW k \in Locks
      PROVE  /\ \A u \in Threads : state'[k].wr = u <=> OwnsWrite(u, k)'
             /\ state'[k].wr # NoThread => state'[k].rd = 0
             /\ recursion'[k] > 0 => state'[k].wr # NoThread
  <2>1. ASSUME NEW u \in Threads PROVE OwnsWrite(u, k)' <=> OwnsWrite(u, k)
    <3>1. CASE u = t
      <4>1. arg[t] = NoLock BY <1>a DEF IndInv, ControlAgrees, ControlOf
      <4> QED BY <1>a, <1>b, <1>e, <3>1, <4>1, LocksAssumption
              DEF OwnsWrite, OwningLabels, TypeOK
    <3>2. CASE u # t BY <1>a, <3>2 DEF OwnsWrite, TypeOK
    <3> QED BY <3>1, <3>2
  <2> QED BY <1>a, <2>1 DEF IndInv, WordTellsHolders
<1>6. ASSUME NEW k \in Locks PROVE state'[k].rd = Cardinality(ReadGrants(k)')
  <2>1. Woken(k)' = Woken(k) BY <1>a, <1>e DEF Woken, TypeOK
  <2> QED BY <1>a, <2>1, GrantsKept
<1>7. NoStrandedSleeper' BY <1>a DEF IndInv, NoStrandedSleeper
<1> QED BY <1>1, <1>2, <1>3, <1>4, <1>5, <1>6, <1>7 DEF IndInv, WordTellsHolders

\* A read unlock loads a word that counts at least its own lock.
LEMMA Inv_unlock_read ==
  ASSUME IndInv, NEW t \in Threads, NEW l \in Locks, pthread_rwlock_unlock(t, l),
         state[l].wr = NoThread
  PROVE  IndInv'
<1> TypeOK BY DEF IndInv
<1>a. /\ pc[t] = "idle"
      /\ rheld[t][l] > 0 \/ l \in wrlocks[t]
      /\ pc' = [pc EXCEPT ![t] = "rdcas"]
      /\ arg' = [arg EXCEPT ![t] = l]
      /\ timed' = [timed EXCEPT ![t] = FALSE]
      /\ old' = [old EXCEPT ![t] = state[l]]
      /\ UNCHANGED <<state, recursion, wrlocks, rdlocks, rheld, rdsleep, wrsleep>>
  BY DEF pthread_rwlock_unlock, MayUnlock, Goto
<1>b. rheld[t][l] > 0 /\ state[l].rd > 0
  <2>1. ~OwnsWrite(t, l) BY ThreadsAssumption DEF IndInv, WordTellsHolders
  <2>2. rheld[t][l] > 0 BY <1>a, <2>1 DEF OwnsWrite
  <2> QED BY <2>2, HeldForReading DEF HoldsRead
<1>1. TypeOK' BY <1>a DEF TypeOK, Labels
<1>2. ControlAgrees'
  BY <1>a, <1>b, LocksAssumption DEF IndInv, TypeOK, ControlAgrees, ControlOf, OwningLabels
<1>3. QueuesAgree' BY <1>a DEF IndInv, TypeOK, QueuesAgree
<1>4. RdlocksCount' BY <1>a, CountKept DEF TypeOK
<1>5. ASSUME NEW k \in Locks
      PROVE  /\ \A u \in Threads : state'[k].wr = u <=> OwnsWrite(u, k)'
             /\ state'[k].wr # NoThread => state'[k].rd = 0
             /\ recursion'[k] > 0 => state'[k].wr # NoThread
  <2>1. ASSUME NEW u \in Threads PROVE OwnsWrite(u, k)' <=> OwnsWrite(u, k)
    BY <1>a, LocksAssumption DEF OwnsWrite, OwningLabels, TypeOK
  <2> QED BY <1>a, <2>1 DEF IndInv, WordTellsHolders
<1>6. ASSUME NEW k \in Locks PROVE state'[k].rd = Cardinality(ReadGrants(k)')
  <2>1. Woken(k)' = Woken(k) BY <1>a DEF Woken, TypeOK
  <2> QED BY <1>a, <2>1, GrantsKept
<1>7. NoStrandedSleeper' BY <1>a DEF IndInv, NoStrandedSleeper
<1> QED BY <1>1, <1>2, <1>3, <1>4, <1>5, <1>6, <1>7 DEF IndInv, WordTellsHolders

\* The CAS of a write unlock succeeds: nobody sleeps, the word is free.
LEMMA Inv_unlock_wrcas_done ==
  ASSUME IndInv, NEW t \in Threads, NEW l \in Locks, l = arg[t],
         unlock_wrcas(t), state[l] = old[t]
  PROVE  IndInv'
<1> TypeOK BY DEF IndInv
<1>a. /\ pc[t] = "wrcas"
      /\ state' = [state EXCEPT ![l] = Unlocked]
      /\ pc' = [pc EXCEPT ![t] = "idle"]
      /\ arg' = [arg EXCEPT ![t] = NoLock]
      /\ timed' = [timed EXCEPT ![t] = FALSE]
      /\ old' = [old EXCEPT ![t] = Unlocked]
      /\ UNCHANGED <<recursion, rdlocks, wrlocks, rheld, rdsleep, wrsleep>>
  BY DEF unlock_wrcas, Return, Goto
<1>b. state[l] = WriteLocked(t, FALSE) /\ recursion[l] <= 0 /\ l \notin wrlocks[t]
  BY <1>a DEF IndInv, ControlAgrees, ControlOf, OwningLabels
<1>c. state'[l] = Unlocked /\ \A k \in Locks : k # l => state'[k] = state[k]
  BY <1>a DEF TypeOK
<1>d. Unlocked \in Word BY DEF Unlocked, Word
<1>1. TypeOK' BY <1>a, <1>d DEF TypeOK, Labels
<1>2. ControlAgrees' BY <1>a, LocksAssumption DEF IndInv, TypeOK, ControlAgrees, ControlOf, OwningLabels
<1>3. QueuesAgree' BY <1>a, LocksAssumption DEF IndInv, TypeOK, QueuesAgree
<1>4. RdlocksCount' BY <1>a, CountKept DEF TypeOK
<1>5. ASSUME NEW k \in Locks
      PROVE  /\ \A u \in Threads : state'[k].wr = u <=> OwnsWrite(u, k)'
             /\ state'[k].wr # NoThread => state'[k].rd = 0
             /\ recursion'[k] > 0 => state'[k].wr # NoThread
  <2>1. CASE k = l
    <3>1. ASSUME NEW u \in Threads PROVE ~OwnsWrite(u, l)'
      <4>1. CASE u = t BY <1>a, <1>b, <4>1, LocksAssumption DEF OwnsWrite, TypeOK
      <4>2. CASE u # t
        <5>1. ~OwnsWrite(u, l) BY <1>b, <4>2 DEF IndInv, WordTellsHolders, WriteLocked
        <5> QED BY <1>a, <4>2, <5>1 DEF OwnsWrite, TypeOK
      <4> QED BY <4>1, <4>2
    <3> QED BY <1>a, <1>b, <1>c, <2>1, <3>1, ThreadsAssumption DEF Unlocked, TypeOK
  <2>2. CASE k # l
    <3>1. ASSUME NEW u \in Threads PROVE OwnsWrite(u, k)' <=> OwnsWrite(u, k)
      BY <1>a, <2>2, LocksAssumption DEF OwnsWrite, TypeOK
    <3> QED BY <1>a, <1>c, <2>2, <3>1 DEF IndInv, WordTellsHolders
  <2> QED BY <2>1, <2>2
<1>6. ASSUME NEW k \in Locks PROVE state'[k].rd = Cardinality(ReadGrants(k)')
  <2>1. Woken(k)' = Woken(k) BY <1>a, LocksAssumption DEF Woken, TypeOK
  <2>2. state'[k].rd = state[k].rd BY <1>b, <1>c DEF WriteLocked, Unlocked
  <2> QED BY <1>a, <2>1, <2>2, GrantsKept
<1>7. NoStrandedSleeper'
  <2>1. rdsleep[l] \cup wrsleep[l] = {} BY <1>b DEF IndInv, NoStrandedSleeper, WriteLocked
  <2>2. ~state'[l].km BY <1>c DEF Unlocked
  <2> QED BY <1>a, <1>c, <2>1, <2>2 DEF IndInv, NoStrandedSleeper
<1> QED BY <1>1, <1>2, <1>3, <1>4, <1>5, <1>6, <1>7 DEF IndInv, WordTellsHolders

\* The CAS of a write unlock fails: the word is kernel-managed now.
LEMMA Inv_unlock_wrcas_sys ==
  ASSUME IndInv, NEW t \in Threads, NEW l \in Locks, l = arg[t],
         unlock_wrcas(t), state[l] # old[t]
  PROVE  IndInv'
<1> TypeOK BY DEF IndInv
<1>a. /\ pc[t] = "wrcas"
      /\ pc' = [pc EXCEPT ![t] = "wrsys"]
      /\ timed' = [timed EXCEPT ![t] = FALSE]
      /\ UNCHANGED <<state, recursion, rdlocks, wrlocks, rheld, rdsleep, wrsleep, arg, old>>
  BY DEF unlock_wrcas, Goto, TypeOK
<1>1. TypeOK' BY <1>a DEF TypeOK, Labels
<1>2. ControlAgrees' BY <1>a, LocksAssumption DEF IndInv, TypeOK, ControlAgrees, ControlOf, OwningLabels
<1>3. QueuesAgree' BY <1>a DEF IndInv, TypeOK, QueuesAgree
<1>4. RdlocksCount' BY <1>a, CountKept DEF TypeOK
<1>5. ASSUME NEW k \in Locks
      PROVE  /\ \A u \in Threads : state'[k].wr = u <=> OwnsWrite(u, k)'
             /\ state'[k].wr # NoThread => state'[k].rd = 0
             /\ recursion'[k] > 0 => state'[k].wr # NoThread
  <2>1. ASSUME NEW u \in Threads PROVE OwnsWrite(u, k)' <=> OwnsWrite(u, k)
    BY <1>a, LocksAssumption DEF OwnsWrite, OwningLabels, TypeOK
  <2> QED BY <1>a, <2>1 DEF IndInv, WordTellsHolders
<1>6. ASSUME NEW k \in Locks PROVE state'[k].rd = Cardinality(ReadGrants(k)')
  <2>1. Woken(k)' = Woken(k) BY <1>a DEF Woken, TypeOK
  <2> QED BY <1>a, <2>1, GrantsKept
<1>7. NoStrandedSleeper' BY <1>a DEF IndInv, NoStrandedSleeper
<1> QED BY <1>1, <1>2, <1>3, <1>4, <1>5, <1>6, <1>7 DEF IndInv, WordTellsHolders

\* The last reader of a kernel-managed lock becomes the owner.
LEMMA Inv_unlock_rdcas_upgrade ==
  ASSUME IndInv, NEW t \in Threads, NEW l \in Locks, l = arg[t], unlock_rdcas(t),
         state[l] = old[t], old[t] = ReadLocked(1, TRUE)
  PROVE  IndInv'
<1> TypeOK BY DEF IndInv
<1>a. /\ pc[t] = "rdcas"
      /\ state' = [state EXCEPT ![l] = WriteLocked(t, TRUE)]
      /\ rheld' = [rheld EXCEPT ![t][l] = @ - 1]
      /\ pc' = [pc EXCEPT ![t] = "rdsys"]
      /\ timed' = [timed EXCEPT ![t] = FALSE]
      /\ UNCHANGED <<recursion, rdlocks, wrlocks, rdsleep, wrsleep, arg, old>>
  BY DEF unlock_rdcas, Goto, TypeOK
<1>b. state'[l] = WriteLocked(t, TRUE) /\ \A k \in Locks : k # l => state'[k] = state[k]
  BY <1>a DEF TypeOK
<1>f. state[l].rd = 1 /\ state'[l].rd = 0 /\ state'[l].km /\ state'[l].wr = t
  <2>1. state[l].rd = 1 BY DEF ReadLocked
  <2>2. state'[l] = WriteLocked(t, TRUE) BY <1>b
  <2>3. state'[l].wr = t BY <2>2 DEF WriteLocked
  <2>4. state'[l].rd = 0 BY <2>2 DEF WriteLocked
  <2>5. state'[l].km BY <2>2 DEF WriteLocked
  <2> QED BY <2>1, <2>3, <2>4, <2>5
<1>h. rheld[t][l] > 0 /\ state[l].wr = NoThread /\ state[l].rd > 0
  <2>1. rheld[t][l] > 0 BY <1>a DEF IndInv, ControlAgrees, ControlOf
  <2> QED BY <2>1, HeldForReading DEF HoldsRead
<1>i. \A u \in Threads : ~OwnsWrite(u, l)
  BY <1>h, ThreadsAssumption DEF IndInv, WordTellsHolders
<1>c. recursion[l] <= 0 /\ l \notin wrlocks[t]
  <2>1. recursion[l] \in Int BY DEF TypeOK
  <2>2. ~(recursion[l] > 0) BY <1>h DEF IndInv, WordTellsHolders
  <2> QED BY <1>i, <2>1, <2>2 DEF OwnsWrite
<1>1. TypeOK'
  <2>1. rheld' \in [Threads -> [Locks -> Nat]]
    <3>1. rheld[t][l] - 1 \in Nat BY <1>h DEF TypeOK
    <3> QED BY <1>a, <3>1 DEF TypeOK
  <2>2. WriteLocked(t, TRUE) \in Word BY DEF WriteLocked, Word
  <2> QED BY <1>a, <2>1, <2>2 DEF TypeOK, Labels
<1>2. ControlAgrees'
  <2>1. \A u \in Threads : u # t => rheld'[u] = rheld[u] BY <1>a DEF TypeOK
  <2> QED BY <1>a, <1>c, <2>1, LocksAssumption
          DEF IndInv, TypeOK, ControlAgrees, ControlOf, OwningLabels
<1>3. QueuesAgree' BY <1>a DEF IndInv, TypeOK, QueuesAgree
<1>4. RdlocksCount'
  <2> SUFFICES ASSUME NEW u \in Threads
      PROVE  rdlocks'[u] = Cardinality(ReadHolds(u)') + IF pc'[u] = "rdsys" THEN 1 ELSE 0
    BY DEF RdlocksCount
  <2>1. rdlocks[u] = Cardinality(ReadHolds(u)) + IF pc[u] = "rdsys" THEN 1 ELSE 0
    BY DEF IndInv, RdlocksCount
  <2>2. Cardinality(ReadHolds(u)') = Cardinality(ReadHolds(u)) - IF u = t THEN 1 ELSE 0
    BY <1>1, <1>a, <1>h, HoldsLoss
  <2>3. rdlocks'[u] = rdlocks[u] BY <1>a DEF TypeOK
  <2>4. CASE u = t
    <3>1. pc[t] = "rdcas" /\ pc'[t] = "rdsys" BY <1>a DEF TypeOK
    <3> QED BY <2>1, <2>2, <2>3, <2>4, <3>1, HoldsCounted
  <2>5. CASE u # t
    <3>1. pc'[u] = pc[u] BY <1>a, <2>5 DEF TypeOK
    <3> QED BY <2>1, <2>2, <2>3, <2>5, <3>1, HoldsCounted
  <2> QED BY <2>4, <2>5
<1>5. ASSUME NEW k \in Locks
      PROVE  /\ \A u \in Threads : state'[k].wr = u <=> OwnsWrite(u, k)'
             /\ state'[k].wr # NoThread => state'[k].rd = 0
             /\ recursion'[k] > 0 => state'[k].wr # NoThread
  <2>1. CASE k = l
    <3>1. ASSUME NEW u \in Threads, u # t PROVE ~OwnsWrite(u, l)'
      BY <1>a, <1>i, <3>1 DEF OwnsWrite, TypeOK
    <3>2. OwnsWrite(t, l)' BY <1>a DEF OwnsWrite, OwningLabels, TypeOK
    <3> QED BY <1>b, <2>1, <3>1, <3>2, ThreadsAssumption DEF WriteLocked
  <2>2. CASE k # l
    <3>1. ASSUME NEW u \in Threads PROVE OwnsWrite(u, k)' <=> OwnsWrite(u, k)
      BY <1>a, <2>2 DEF OwnsWrite, TypeOK
    <3> QED BY <1>a, <1>b, <2>2, <3>1 DEF IndInv, WordTellsHolders
  <2> QED BY <2>1, <2>2
<1>6. ASSUME NEW k \in Locks PROVE state'[k].rd = Cardinality(ReadGrants(k)')
  <2>1. Woken(k)' = Woken(k) BY <1>a DEF Woken, TypeOK
  <2>2. state[k].rd = Cardinality(ReadGrants(k)) BY DEF IndInv, WordTellsHolders
  <2>3. CASE k = l
    <3>1. state[l].rd = 1 /\ state'[l].rd = 0 BY <1>f
    <3>2. Cardinality(ReadGrants(l)') = Cardinality(ReadGrants(l)) - 1
      BY <1>1, <1>a, <1>h, <2>1, <2>3, GrantsLoss
    <3>3. Cardinality(ReadGrants(l)) = 1 BY <2>2, <2>3, <3>1
    <3> QED BY <2>3, <3>1, <3>2, <3>3
  <2>4. CASE k # l
    <3>1. Column(k)' = Column(k) BY <1>a, <2>4, ColumnSame DEF TypeOK
    <3> QED BY <1>b, <2>1, <2>2, <2>4, <3>1, GrantsSame
  <2> QED BY <2>3, <2>4
<1>7. NoStrandedSleeper'
  <2>1. state'[l].km /\ state'[l].wr # NoThread BY <1>f, ThreadsAssumption
  <2> QED BY <1>a, <1>b, <2>1 DEF IndInv, NoStrandedSleeper
<1> QED BY <1>1, <1>2, <1>3, <1>4, <1>5, <1>6, <1>7 DEF IndInv, WordTellsHolders

\* Any other reader is subtracted from the word.
LEMMA Inv_unlock_rdcas_decrement ==
  ASSUME IndInv, NEW t \in Threads, NEW l \in Locks, l = arg[t], unlock_rdcas(t),
         state[l] = old[t], old[t] # ReadLocked(1, TRUE)
  PROVE  IndInv'
<1> TypeOK BY DEF IndInv
<1>a. /\ pc[t] = "rdcas"
      /\ state' = [state EXCEPT ![l].rd = @ - 1]
      /\ rheld' = [rheld EXCEPT ![t][l] = @ - 1]
      /\ rdlocks' = [rdlocks EXCEPT ![t] = @ - 1]
      /\ pc' = [pc EXCEPT ![t] = "idle"]
      /\ arg' = [arg EXCEPT ![t] = NoLock]
      /\ timed' = [timed EXCEPT ![t] = FALSE]
      /\ old' = [old EXCEPT ![t] = Unlocked]
      /\ UNCHANGED <<recursion, wrlocks, rdsleep, wrsleep>>
  BY DEF unlock_rdcas, Return, Goto
<1>h. rheld[t][l] > 0 /\ state[l].wr = NoThread /\ state[l].rd > 0
  <2>1. rheld[t][l] > 0 BY <1>a DEF IndInv, ControlAgrees, ControlOf
  <2> QED BY <2>1, HeldForReading DEF HoldsRead
<1>i. \A u \in Threads : ~OwnsWrite(u, l)
  BY <1>h, ThreadsAssumption DEF IndInv, WordTellsHolders
<1>b. /\ state' \in [Locks -> Word]
      /\ state'[l] = [wr |-> NoThread, rd |-> state[l].rd - 1, km |-> state[l].km]
      /\ \A k \in Locks : k # l => state'[k] = state[k]
  BY <1>a, <1>h, WordLoss DEF TypeOK
<1>1. TypeOK'
  <2>1. rheld' \in [Threads -> [Locks -> Nat]]
    <3>1. rheld[t][l] - 1 \in Nat BY <1>h DEF TypeOK
    <3> QED BY <1>a, <3>1 DEF TypeOK
  <2>2. rdlocks' \in [Threads -> Nat]
    <3>1. Cardinality(ReadHolds(t)) \in Nat \ {0} BY <1>h, HoldsCounted
    <3>2. rdlocks[t] = Cardinality(ReadHolds(t)) BY <1>a, <3>1 DEF IndInv, RdlocksCount
    <3>3. rdlocks[t] - 1 \in Nat BY <3>1, <3>2
    <3> QED BY <1>a, <3>3 DEF TypeOK
  <2>3. Unlocked \in Word BY DEF Unlocked, Word
  <2> QED BY <1>a, <1>b, <2>1, <2>2, <2>3 DEF TypeOK, Labels
<1>2. ControlAgrees'
  <2> SUFFICES ASSUME NEW u \in Threads PROVE ControlOf(u)' BY DEF ControlAgrees
  <2>1. CASE u = t BY <1>a, <2>1 DEF TypeOK, ControlOf, OwningLabels
  <2>2. CASE u # t
    <3>1. /\ pc'[u] = pc[u] /\ arg'[u] = arg[u] /\ old'[u] = old[u]
          /\ rheld'[u] = rheld[u] /\ wrlocks' = wrlocks /\ recursion' = recursion
      BY <1>a, <2>2 DEF TypeOK
    <3>2. ControlOf(u) BY DEF IndInv, ControlAgrees
    <3> QED BY <3>1, <3>2 DEF ControlOf
  <2> QED BY <2>1, <2>2
<1>3. QueuesAgree' BY <1>a, LocksAssumption DEF IndInv, TypeOK, QueuesAgree
<1>4. RdlocksCount'
  <2> SUFFICES ASSUME NEW u \in Threads
      PROVE  rdlocks'[u] = Cardinality(ReadHolds(u)') + IF pc'[u] = "rdsys" THEN 1 ELSE 0
    BY DEF RdlocksCount
  <2>1. rdlocks[u] = Cardinality(ReadHolds(u)) + IF pc[u] = "rdsys" THEN 1 ELSE 0
    BY DEF IndInv, RdlocksCount
  <2>2. Cardinality(ReadHolds(u)') = Cardinality(ReadHolds(u)) - IF u = t THEN 1 ELSE 0
    BY <1>1, <1>a, <1>h, HoldsLoss
  <2>3. rdlocks'[u] = rdlocks[u] - IF u = t THEN 1 ELSE 0 BY <1>a DEF TypeOK
  <2>4. CASE u = t
    <3>1. pc[t] = "rdcas" /\ pc'[t] = "idle" BY <1>a DEF TypeOK
    <3> QED BY <2>1, <2>2, <2>3, <2>4, <3>1, HoldsCounted
  <2>5. CASE u # t
    <3>1. pc'[u] = pc[u] BY <1>a, <2>5 DEF TypeOK
    <3> QED BY <2>1, <2>2, <2>3, <2>5, <3>1, HoldsCounted
  <2> QED BY <2>4, <2>5
<1>5. ASSUME NEW k \in Locks
      PROVE  /\ \A u \in Threads : state'[k].wr = u <=> OwnsWrite(u, k)'
             /\ state'[k].wr # NoThread => state'[k].rd = 0
             /\ recursion'[k] > 0 => state'[k].wr # NoThread
  <2>1. ASSUME NEW u \in Threads PROVE OwnsWrite(u, k)' <=> OwnsWrite(u, k)
    BY <1>a, LocksAssumption DEF OwnsWrite, OwningLabels, TypeOK
  <2>2. state'[k].wr = state[k].wr /\ (k # l => state'[k].rd = state[k].rd) BY <1>b, <1>h
  <2> QED BY <1>a, <1>h, <2>1, <2>2 DEF IndInv, WordTellsHolders
<1>6. ASSUME NEW k \in Locks PROVE state'[k].rd = Cardinality(ReadGrants(k)')
  <2>1. Woken(k)' = Woken(k) BY <1>a, LocksAssumption DEF Woken, TypeOK
  <2>2. state[k].rd = Cardinality(ReadGrants(k)) BY DEF IndInv, WordTellsHolders
  <2>3. CASE k = l
    <3>1. Cardinality(ReadGrants(l)') = Cardinality(ReadGrants(l)) - 1
      BY <1>1, <1>a, <1>h, <2>1, <2>3, GrantsLoss
    <3> QED BY <1>b, <2>2, <2>3, <3>1
  <2>4. CASE k # l
    <3>1. Column(k)' = Column(k) BY <1>a, <2>4, ColumnSame DEF TypeOK
    <3> QED BY <1>b, <2>1, <2>2, <2>4, <3>1, GrantsSame
  <2> QED BY <2>3, <2>4
<1>7. NoStrandedSleeper'
  <2>1. state[l].km => state[l].rd # 1
    <3>1. state[l] \in Word BY DEF TypeOK
    <3> QED BY <1>h, <3>1 DEF Word, ReadLocked
  <2>2. state[l].rd \in Nat BY DEF TypeOK, Word
  <2>3. state'[l].km => state'[l].rd > 0 BY <1>b, <1>h, <2>1, <2>2
  <2>4. state'[l].km = state[l].km BY <1>b
  <2> QED BY <1>a, <1>b, <2>3, <2>4 DEF IndInv, NoStrandedSleeper
<1> QED BY <1>1, <1>2, <1>3, <1>4, <1>5, <1>6, <1>7 DEF IndInv, WordTellsHolders

\* A failed CAS reloads a word that still counts the reader.
LEMMA Inv_unlock_rdcas_reload ==
  ASSUME IndInv, NEW t \in Threads, NEW l \in Locks, l = arg[t],
         unlock_rdcas(t), state[l] # old[t]
  PROVE  IndInv'
<1> TypeOK BY DEF IndInv
<1>a. /\ pc[t] = "rdcas"
      /\ old' = [old EXCEPT ![t] = state[l]]
      /\ UNCHANGED <<state, recursion, rdlocks, wrlocks, rheld, rdsleep, wrsleep, pc, arg, timed>>
  BY DEF unlock_rdcas
<1>b. state[l].wr = NoThread /\ state[l].rd > 0
  BY <1>a, HeldForReading DEF IndInv, ControlAgrees, ControlOf, HoldsRead
<1>1. TypeOK' BY <1>a DEF TypeOK
<1>2. ControlAgrees' BY <1>a, <1>b DEF IndInv, TypeOK, ControlAgrees, ControlOf, OwningLabels
<1>3. QueuesAgree' BY <1>a DEF IndInv, QueuesAgree
<1>4. RdlocksCount' BY <1>a, CountKept
<1>5. ASSUME NEW k \in Locks
      PROVE  /\ \A u \in Threads : state'[k].wr = u <=> OwnsWrite(u, k)'
             /\ state'[k].wr # NoThread => state'[k].rd = 0
             /\ recursion'[k] > 0 => state'[k].wr # NoThread
  BY <1>a DEF IndInv, WordTellsHolders, OwnsWrite
<1>6. ASSUME NEW k \in Locks PROVE state'[k].rd = Cardinality(ReadGrants(k)')
  <2>1. Woken(k)' = Woken(k) BY <1>a DEF Woken
  <2> QED BY <1>a, <2>1, GrantsKept
<1>7. NoStrandedSleeper' BY <1>a DEF IndInv, NoStrandedSleeper
<1> QED BY <1>1, <1>2, <1>3, <1>4, <1>5, <1>6, <1>7 DEF IndInv, WordTellsHolders

\* The kernel hands the lock to a sleeping writer.
LEMMA Inv_unlock_to_writer ==
  ASSUME IndInv, NEW t \in Threads, NEW l \in Locks, l = arg[t], sys_lock_unlock(t),
         NEW w \in wrsleep[l], HandToWriter(t, l, w)
  PROVE  IndInv'
<1> TypeOK BY DEF IndInv
<1>a. /\ pc[t] \in {"wrsys", "rdsys"}
      /\ arg' = [arg EXCEPT ![t] = NoLock]
      /\ old' = [old EXCEPT ![t] = Unlocked]
      /\ rdlocks' = IF pc[t] = "rdsys" THEN [rdlocks EXCEPT ![t] = @ - 1] ELSE rdlocks
      /\ UNCHANGED <<recursion, wrlocks, rheld, timed>>
  BY DEF sys_lock_unlock
<1>o. /\ state[l].wr = t /\ state[l].rd = 0
      /\ recursion[l] <= 0 /\ l \notin wrlocks[t] /\ arg[t] = l
      /\ \A u \in Threads : u # t => ~OwnsWrite(u, l)
  <2>1. OwnsWrite(t, l) BY <1>a DEF OwnsWrite, OwningLabels
  <2>2. state[l].wr = t BY <2>1 DEF IndInv, WordTellsHolders
  <2> QED BY <1>a, <2>2, ThreadsAssumption
          DEF IndInv, WordTellsHolders, ControlAgrees, ControlOf, OwningLabels
<1>r. rdlocks' \in [Threads -> Nat]
  <2>1. CASE pc[t] = "rdsys"
    <3>1. rdlocks[t] = Cardinality(ReadHolds(t)) + 1 BY <2>1 DEF IndInv, RdlocksCount
    <3>2. rdlocks[t] - 1 \in Nat BY <3>1, HoldsCounted
    <3> QED BY <1>a, <2>1, <3>2 DEF TypeOK
  <2> QED BY <1>a, <2>1 DEF TypeOK
<1>w. w \in Threads /\ pc[w] = "wrsleep" /\ arg[w] = l /\ w # t
  BY <1>a DEF IndInv, QueuesAgree, TypeOK
<1>p. /\ pc'[t] = "idle" /\ pc'[w] = "wrwoken"
      /\ \A u \in Threads : u # t /\ u # w => pc'[u] = pc[u]
      /\ arg'[t] = NoLock /\ \A u \in Threads : u # t => arg'[u] = arg[u]
  BY <1>a, <1>w DEF TypeOK, HandToWriter
<1>b. /\ state'[l] = WriteLocked(w, rdsleep[l] # {} \/ wrsleep[l] # {w})
      /\ \A k \in Locks : k # l => state'[k] = state[k]
      /\ wrsleep'[l] = wrsleep[l] \ {w}
      /\ \A k \in Locks : k # l => wrsleep'[k] = wrsleep[k]
      /\ rdsleep' = rdsleep
  BY DEF TypeOK, HandToWriter
<1>f. /\ state'[l].wr = w /\ state'[l].rd = 0
      /\ state'[l].km = (rdsleep[l] # {} \/ wrsleep[l] # {w})
  <2>1. state'[l] = WriteLocked(w, rdsleep[l] # {} \/ wrsleep[l] # {w}) BY <1>b
  <2> QED BY <2>1 DEF WriteLocked
<1>1. TypeOK'
  <2>1. state' \in [Locks -> Word]
    <3>1. WriteLocked(w, rdsleep[l] # {} \/ wrsleep[l] # {w}) \in Word
      BY <1>w DEF WriteLocked, Word
    <3> QED BY <3>1 DEF TypeOK, HandToWriter
  <2>2. pc' \in [Threads -> Labels] BY <1>w DEF TypeOK, Labels, HandToWriter
  <2>3. wrsleep' \in [Locks -> SUBSET Threads] BY DEF TypeOK, HandToWriter
  <2>4. Unlocked \in Word BY DEF Unlocked, Word
  <2> QED BY <1>a, <1>b, <1>r, <2>1, <2>2, <2>3, <2>4 DEF TypeOK
<1>2. ControlAgrees'
  <2> SUFFICES ASSUME NEW u \in Threads PROVE ControlOf(u)' BY DEF ControlAgrees
  <2>1. CASE u = t BY <1>p, <2>1 DEF ControlOf, OwningLabels
  <2>2. CASE u = w
    <3>1. l \notin wrlocks[w] BY <1>o, <1>w DEF OwnsWrite
    <3>2. arg'[w] = l /\ pc'[w] = "wrwoken" BY <1>p, <1>w
    <3>3. l \notin wrlocks'[w] /\ recursion'[l] <= 0 BY <1>a, <1>o, <3>1
    <3> QED BY <2>2, <3>2, <3>3, LocksAssumption DEF ControlOf
  <2>3. CASE u # t /\ u # w
    <3>1. pc'[u] = pc[u] /\ arg'[u] = arg[u] BY <1>p, <2>3
    <3>2. old'[u] = old[u] BY <1>a, <2>3 DEF TypeOK
    <3> QED BY <1>a, <3>1, <3>2 DEF IndInv, ControlAgrees, ControlOf
  <2> QED BY <2>1, <2>2, <2>3
<1>3. QueuesAgree'
  <2>1. ASSUME NEW u \in Threads, NEW k \in Locks
        PROVE  /\ u \in rdsleep'[k] <=> pc'[u] = "rdsleep" /\ arg'[u] = k
               /\ u \in wrsleep'[k] <=> pc'[u] = "wrsleep" /\ arg'[u] = k
    <3>0. /\ u \in rdsleep[k] <=> pc[u] = "rdsleep" /\ arg[u] = k
          /\ u \in wrsleep[k] <=> pc[u] = "wrsleep" /\ arg[u] = k
      BY DEF IndInv, QueuesAgree
    <3>1. /\ rdsleep'[k] = rdsleep[k]
          /\ u \in wrsleep'[k] <=> u \in wrsleep[k] /\ ~(k = l /\ u = w)
      BY <1>b
    <3>2. CASE u = t
      <4>1. pc[u] \notin {"rdsleep", "wrsleep"} BY <1>a, <3>2
      <4> QED BY <1>p, <3>0, <3>1, <3>2, <4>1
    <3>3. CASE u = w BY <1>w, <1>p, <3>0, <3>1, <3>3
    <3>4. CASE u # t /\ u # w
      <4>1. pc'[u] = pc[u] /\ arg'[u] = arg[u] BY <1>p, <3>4
      <4> QED BY <3>0, <3>1, <3>4, <4>1
    <3> QED BY <3>2, <3>3, <3>4
  <2> QED BY <2>1 DEF QueuesAgree
<1>4. RdlocksCount'
  <2> SUFFICES ASSUME NEW u \in Threads
      PROVE  rdlocks'[u] = Cardinality(ReadHolds(u)') + IF pc'[u] = "rdsys" THEN 1 ELSE 0
    BY DEF RdlocksCount
  <2>1. rdlocks[u] = Cardinality(ReadHolds(u)) + IF pc[u] = "rdsys" THEN 1 ELSE 0
    BY DEF IndInv, RdlocksCount
  <2>2. ReadHolds(u)' = ReadHolds(u) BY <1>a DEF ReadHolds
  <2>3. CASE u = t
    <3>1. pc'[t] # "rdsys" BY <1>p
    <3>2. rdlocks'[t] = rdlocks[t] - IF pc[t] = "rdsys" THEN 1 ELSE 0 BY <1>a DEF TypeOK
    <3> QED BY SMTT(30), Zenon, <2>1, <2>2, <2>3, <3>1, <3>2, HoldsCounted
  <2>4. CASE u # t
    <3>1. rdlocks'[u] = rdlocks[u] BY <1>a, <2>4 DEF TypeOK
    <3>2. pc'[u] = "rdsys" <=> pc[u] = "rdsys" BY <1>p, <1>w, <2>4
    <3> QED BY <2>1, <2>2, <3>1, <3>2
  <2> QED BY <2>3, <2>4
<1>5. ASSUME NEW k \in Locks
      PROVE  /\ \A u \in Threads : state'[k].wr = u <=> OwnsWrite(u, k)'
             /\ state'[k].wr # NoThread => state'[k].rd = 0
             /\ recursion'[k] > 0 => state'[k].wr # NoThread
  <2>1. CASE k = l
    <3>1. OwnsWrite(w, l)' BY <1>p, <1>w DEF OwnsWrite, OwningLabels
    <3>2. ASSUME NEW u \in Threads, u # w PROVE ~OwnsWrite(u, l)'
      <4>1. CASE u = t BY SMTT(30), Zenon, <1>a, <1>o, <1>p, <4>1, LocksAssumption DEF OwnsWrite
      <4>2. CASE u # t
        <5>1. pc'[u] = pc[u] /\ arg'[u] = arg[u] BY <1>p, <3>2, <4>2
        <5> QED BY <1>a, <1>o, <4>2, <5>1 DEF OwnsWrite
      <4> QED BY <4>1, <4>2
    <3>3. state'[l].wr = w /\ state'[l].rd = 0 BY <1>f
    <3>4. recursion'[l] <= 0 BY <1>a, <1>o
    <3> QED BY <1>a, <1>w, <2>1, <3>1, <3>2, <3>3, <3>4, ThreadsAssumption
  <2>2. CASE k # l
    <3>1. ASSUME NEW u \in Threads PROVE OwnsWrite(u, k)' <=> OwnsWrite(u, k)
      <4>0. wrlocks' = wrlocks BY <1>a
      <4>1. CASE u = t BY <1>o, <1>p, <2>2, <4>0, <4>1, LocksAssumption DEF OwnsWrite
      <4>3. CASE u = w BY <1>p, <1>w, <2>2, <4>0, <4>3 DEF OwnsWrite
      <4>2. CASE u # t /\ u # w
        <5>1. pc'[u] = pc[u] /\ arg'[u] = arg[u] BY <1>p, <4>2
        <5> QED BY <4>0, <5>1 DEF OwnsWrite
      <4> QED BY <4>1, <4>2, <4>3
    <3>2. state'[k] = state[k] /\ recursion' = recursion BY <1>a, <1>b, <2>2
    <3> QED BY <3>1, <3>2 DEF IndInv, WordTellsHolders
  <2> QED BY <2>1, <2>2
<1>6. ASSUME NEW k \in Locks PROVE state'[k].rd = Cardinality(ReadGrants(k)')
  <2>1. ASSUME NEW u \in Threads
        PROVE  (pc'[u] = "rdwoken" /\ arg'[u] = k) <=> (pc[u] = "rdwoken" /\ arg[u] = k)
    <3>1. CASE u = t BY <1>a, <1>p, <3>1
    <3>2. CASE u = w BY <1>p, <1>w, <3>2
    <3>3. CASE u # t /\ u # w
      <4>1. pc'[u] = pc[u] /\ arg'[u] = arg[u] BY <1>p, <3>3
      <4> QED BY <4>1
    <3> QED BY <3>1, <3>2, <3>3
  <2>2. Woken(k)' = Woken(k) BY <2>1 DEF Woken
  <2>3. state'[k].rd = state[k].rd
    <3>1. CASE k = l BY <1>f, <1>o, <3>1
    <3>2. CASE k # l BY <1>b, <3>2
    <3> QED BY <3>1, <3>2
  <2> QED BY <1>a, <2>2, <2>3, GrantsKept
<1>7. NoStrandedSleeper'
  <2>1. ASSUME NEW k \in Locks
        PROVE  /\ rdsleep'[k] \cup wrsleep'[k] # {} => state'[k].km
               /\ state'[k].km => state'[k].wr # NoThread \/ state'[k].rd > 0
    <3>1. CASE k = l
      <4>2. /\ state'[l].km = (rdsleep[l] # {} \/ wrsleep[l] # {w})
            /\ state'[l].wr = w
        BY <1>f
      <4>3. rdsleep'[l] \cup wrsleep'[l] # {} => rdsleep[l] # {} \/ wrsleep[l] # {w}
        BY <1>b
      <4> QED BY <1>w, <3>1, <4>2, <4>3, ThreadsAssumption
    <3>2. CASE k # l
      <4>1. wrsleep'[k] = wrsleep[k] /\ rdsleep'[k] = rdsleep[k] /\ state'[k] = state[k]
        BY <1>b, <3>2
      <4> QED BY <4>1 DEF IndInv, NoStrandedSleeper
    <3> QED BY <3>1, <3>2
  <2> QED BY <2>1 DEF NoStrandedSleeper
<1> QED BY <1>1, <1>2, <1>3, <1>4, <1>5, <1>6, <1>7 DEF IndInv, WordTellsHolders

\* The kernel hands the lock to every sleeping reader.
LEMMA Inv_unlock_to_readers ==
  ASSUME IndInv, NEW t \in Threads, NEW l \in Locks, l = arg[t], sys_lock_unlock(t),
         HandToReaders(t, l)
  PROVE  IndInv'
<1> TypeOK BY DEF IndInv
<1>a. /\ pc[t] \in {"wrsys", "rdsys"}
      /\ arg' = [arg EXCEPT ![t] = NoLock]
      /\ old' = [old EXCEPT ![t] = Unlocked]
      /\ rdlocks' = IF pc[t] = "rdsys" THEN [rdlocks EXCEPT ![t] = @ - 1] ELSE rdlocks
      /\ UNCHANGED <<recursion, wrlocks, rheld, timed>>
  BY DEF sys_lock_unlock
<1>o. /\ state[l].wr = t /\ state[l].rd = 0
      /\ recursion[l] <= 0 /\ l \notin wrlocks[t] /\ arg[t] = l
      /\ \A u \in Threads : u # t => ~OwnsWrite(u, l)
  <2>1. OwnsWrite(t, l) BY <1>a DEF OwnsWrite, OwningLabels
  <2>2. state[l].wr = t BY <2>1 DEF IndInv, WordTellsHolders
  <2> QED BY <1>a, <2>2, ThreadsAssumption
          DEF IndInv, WordTellsHolders, ControlAgrees, ControlOf, OwningLabels
<1>r. rdlocks' \in [Threads -> Nat]
  <2>1. CASE pc[t] = "rdsys"
    <3>1. rdlocks[t] = Cardinality(ReadHolds(t)) + 1 BY <2>1 DEF IndInv, RdlocksCount
    <3>2. rdlocks[t] - 1 \in Nat BY <3>1, HoldsCounted
    <3> QED BY <1>a, <2>1, <3>2 DEF TypeOK
  <2> QED BY <1>a, <2>1 DEF TypeOK
<1>w. \A u \in rdsleep[l] : u \in Threads /\ pc[u] = "rdsleep" /\ arg[u] = l /\ u # t
  BY <1>a DEF IndInv, QueuesAgree, TypeOK
<1>p. /\ pc'[t] = "idle"
      /\ \A u \in rdsleep[l] : pc'[u] = "rdwoken"
      /\ \A u \in Threads : u # t /\ u \notin rdsleep[l] => pc'[u] = pc[u]
      /\ arg'[t] = NoLock /\ \A u \in Threads : u # t => arg'[u] = arg[u]
  BY <1>a, <1>w DEF TypeOK, HandToReaders
<1>b. /\ state'[l] = ReadLocked(Cardinality(rdsleep[l]), FALSE)
      /\ \A k \in Locks : k # l => state'[k] = state[k]
      /\ rdsleep'[l] = {} /\ wrsleep[l] = {}
      /\ \A k \in Locks : k # l => rdsleep'[k] = rdsleep[k]
      /\ wrsleep' = wrsleep
  BY DEF TypeOK, HandToReaders
<1>f. state'[l].wr = NoThread /\ state'[l].rd = Cardinality(rdsleep[l]) /\ ~state'[l].km
  <2>1. state'[l] = ReadLocked(Cardinality(rdsleep[l]), FALSE) BY <1>b
  <2> QED BY <2>1 DEF ReadLocked
<1>c. Cardinality(rdsleep[l]) \in Nat
  BY ThreadsAssumption, FS_Subset, FS_CardinalityType DEF TypeOK
<1>1. TypeOK'
  <2>1. state' \in [Locks -> Word]
    <3>1. ReadLocked(Cardinality(rdsleep[l]), FALSE) \in Word
      BY <1>c DEF ReadLocked, Word
    <3> QED BY <3>1 DEF TypeOK, HandToReaders
  <2>2. pc' \in [Threads -> Labels] BY DEF TypeOK, Labels, HandToReaders
  <2>3. rdsleep' \in [Locks -> SUBSET Threads] BY DEF TypeOK, HandToReaders
  <2>4. Unlocked \in Word BY DEF Unlocked, Word
  <2> QED BY <1>a, <1>b, <1>r, <2>1, <2>2, <2>3, <2>4 DEF TypeOK
<1>2. ControlAgrees'
  <2> SUFFICES ASSUME NEW u \in Threads PROVE ControlOf(u)' BY DEF ControlAgrees
  <2>1. CASE u = t BY <1>p, <2>1 DEF ControlOf, OwningLabels
  <2>2. CASE u \in rdsleep[l]
    BY <1>p, <1>w, <2>2, LocksAssumption DEF ControlOf, OwningLabels
  <2>3. CASE u # t /\ u \notin rdsleep[l]
    <3>1. pc'[u] = pc[u] /\ arg'[u] = arg[u] BY <1>p, <2>3
    <3>2. old'[u] = old[u] BY <1>a, <2>3 DEF TypeOK
    <3> QED BY <1>a, <3>1, <3>2 DEF IndInv, ControlAgrees, ControlOf
  <2> QED BY <2>1, <2>2, <2>3
<1>3. QueuesAgree'
  <2>1. ASSUME NEW u \in Threads, NEW k \in Locks
        PROVE  /\ u \in rdsleep'[k] <=> pc'[u] = "rdsleep" /\ arg'[u] = k
               /\ u \in wrsleep'[k] <=> pc'[u] = "wrsleep" /\ arg'[u] = k
    <3>0. /\ u \in rdsleep[k] <=> pc[u] = "rdsleep" /\ arg[u] = k
          /\ u \in wrsleep[k] <=> pc[u] = "wrsleep" /\ arg[u] = k
      BY DEF IndInv, QueuesAgree
    <3>1. /\ wrsleep'[k] = wrsleep[k]
          /\ u \in rdsleep'[k] <=> u \in rdsleep[k] /\ k # l
      BY <1>b
    <3>2. CASE u = t
      <4>1. pc[u] \notin {"rdsleep", "wrsleep"} BY <1>a, <3>2
      <4> QED BY <1>p, <3>0, <3>1, <3>2, <4>1
    <3>3. CASE u \in rdsleep[l] BY <1>w, <1>p, <3>0, <3>1, <3>3
    <3>4. CASE u # t /\ u \notin rdsleep[l]
      <4>1. pc'[u] = pc[u] /\ arg'[u] = arg[u] BY <1>p, <3>4
      <4> QED BY <3>0, <3>1, <3>4, <4>1
    <3> QED BY <3>2, <3>3, <3>4
  <2> QED BY <2>1 DEF QueuesAgree
<1>4. RdlocksCount'
  <2> SUFFICES ASSUME NEW u \in Threads
      PROVE  rdlocks'[u] = Cardinality(ReadHolds(u)') + IF pc'[u] = "rdsys" THEN 1 ELSE 0
    BY DEF RdlocksCount
  <2>1. rdlocks[u] = Cardinality(ReadHolds(u)) + IF pc[u] = "rdsys" THEN 1 ELSE 0
    BY DEF IndInv, RdlocksCount
  <2>2. ReadHolds(u)' = ReadHolds(u) BY <1>a DEF ReadHolds
  <2>3. CASE u = t
    <3>1. pc'[t] # "rdsys" BY <1>p
    <3>2. rdlocks'[t] = rdlocks[t] - IF pc[t] = "rdsys" THEN 1 ELSE 0 BY <1>a DEF TypeOK
    <3> QED BY SMTT(30), Zenon, <2>1, <2>2, <2>3, <3>1, <3>2, HoldsCounted
  <2>4. CASE u # t
    <3>1. rdlocks'[u] = rdlocks[u] BY <1>a, <2>4 DEF TypeOK
    <3>2. pc'[u] = "rdsys" <=> pc[u] = "rdsys" BY <1>p, <1>w, <2>4
    <3> QED BY <2>1, <2>2, <3>1, <3>2
  <2> QED BY <2>3, <2>4
<1>5. ASSUME NEW k \in Locks
      PROVE  /\ \A u \in Threads : state'[k].wr = u <=> OwnsWrite(u, k)'
             /\ state'[k].wr # NoThread => state'[k].rd = 0
             /\ recursion'[k] > 0 => state'[k].wr # NoThread
  <2>1. CASE k = l
    <3>1. ASSUME NEW u \in Threads PROVE ~OwnsWrite(u, l)'
      <4>1. CASE u = t BY SMTT(30), Zenon, <1>a, <1>o, <1>p, <4>1, LocksAssumption DEF OwnsWrite
      <4>2. CASE u \in rdsleep[l]
        BY <1>a, <1>o, <1>p, <1>w, <4>2 DEF OwnsWrite, OwningLabels
      <4>3. CASE u # t /\ u \notin rdsleep[l]
        <5>1. pc'[u] = pc[u] /\ arg'[u] = arg[u] BY <1>p, <4>3
        <5> QED BY <1>a, <1>o, <4>3, <5>1 DEF OwnsWrite
      <4> QED BY <4>1, <4>2, <4>3
    <3>2. state'[l].wr = NoThread BY <1>f
    <3>3. ~(recursion'[l] > 0)
      <4>1. recursion[l] \in Int BY DEF TypeOK
      <4> QED BY SMTT(30), Zenon, <1>a, <1>o, <4>1
    <3> QED BY <2>1, <3>1, <3>2, <3>3, ThreadsAssumption
  <2>2. CASE k # l
    <3>1. ASSUME NEW u \in Threads PROVE OwnsWrite(u, k)' <=> OwnsWrite(u, k)
      <4>0. wrlocks' = wrlocks BY <1>a
      <4>1. CASE u = t BY <1>o, <1>p, <2>2, <4>0, <4>1, LocksAssumption DEF OwnsWrite
      <4>2. CASE u \in rdsleep[l] BY <1>p, <1>w, <2>2, <4>0, <4>2 DEF OwnsWrite
      <4>3. CASE u # t /\ u \notin rdsleep[l]
        <5>1. pc'[u] = pc[u] /\ arg'[u] = arg[u] BY <1>p, <4>3
        <5> QED BY <4>0, <5>1 DEF OwnsWrite
      <4> QED BY <4>1, <4>2, <4>3
    <3>2. state'[k] = state[k] /\ recursion' = recursion BY <1>a, <1>b, <2>2
    <3> QED BY <3>1, <3>2 DEF IndInv, WordTellsHolders
  <2> QED BY <2>1, <2>2
<1>6. ASSUME NEW k \in Locks PROVE state'[k].rd = Cardinality(ReadGrants(k)')
  <2>1. CASE k = l
    <3>1. Cardinality(ReadGrants(l)) = 0 BY <1>o DEF IndInv, WordTellsHolders
    <3>2. \A u \in Threads : ~HoldsRead(u, l) BY <3>1, GrantsFacts
    <3>3. Woken(l)' = rdsleep[l]
      <4>1. ASSUME NEW u \in Threads
            PROVE  (pc'[u] = "rdwoken" /\ arg'[u] = l) <=> u \in rdsleep[l]
        <5>1. CASE u = t BY <1>p, <1>w, <5>1
        <5>2. CASE u \in rdsleep[l] BY <1>p, <1>w, <5>2
        <5>3. CASE u # t /\ u \notin rdsleep[l]
          <6>1. pc'[u] = pc[u] /\ arg'[u] = arg[u] BY <1>p, <5>3
          <6> QED BY <3>2, <5>3, <6>1 DEF HoldsRead
        <5> QED BY <5>1, <5>2, <5>3
      <4> QED BY <1>w, <4>1 DEF Woken
    <3>4. Column(l) \in [Threads -> Nat] /\ \A u \in Threads : Column(l)[u] = 0
      BY <3>2, GrantsFacts DEF Column, HoldsRead, TypeOK
    <3>5. rdsleep[l] \in SUBSET Threads BY DEF TypeOK
    <3>6. Cardinality(Tokens(Threads, Column(l), rdsleep[l])) = Cardinality(rdsleep[l])
      BY <3>4, <3>5, TokensFresh, ThreadsAssumption
    <3>7. ReadGrants(l)' = Tokens(Threads, Column(l), rdsleep[l])
      BY <1>a, <3>3 DEF ReadGrants, Column
    <3>8. state'[l].rd = Cardinality(rdsleep[l]) BY <1>f
    <3> QED BY <2>1, <3>6, <3>7, <3>8
  <2>2. CASE k # l
    <3>1. ASSUME NEW u \in Threads
          PROVE  (pc'[u] = "rdwoken" /\ arg'[u] = k) <=> (pc[u] = "rdwoken" /\ arg[u] = k)
      <4>1. CASE u = t BY <1>a, <1>p, <4>1
      <4>2. CASE u \in rdsleep[l] BY <1>p, <1>w, <2>2, <4>2
      <4>3. CASE u # t /\ u \notin rdsleep[l]
        <5>1. pc'[u] = pc[u] /\ arg'[u] = arg[u] BY <1>p, <4>3
        <5> QED BY <5>1
      <4> QED BY <4>1, <4>2, <4>3
    <3>2. Woken(k)' = Woken(k) BY <3>1 DEF Woken
    <3> QED BY <1>a, <1>b, <2>2, <3>2, GrantsKept
  <2> QED BY <2>1, <2>2
<1>7. NoStrandedSleeper'
  <2>1. ASSUME NEW k \in Locks
        PROVE  /\ rdsleep'[k] \cup wrsleep'[k] # {} => state'[k].km
               /\ state'[k].km => state'[k].wr # NoThread \/ state'[k].rd > 0
    <3>1. CASE k = l
      <4>1. ~state'[l].km BY <1>f
      <4> QED BY <1>b, <3>1, <4>1
    <3>2. CASE k # l
      <4>1. wrsleep'[k] = wrsleep[k] /\ rdsleep'[k] = rdsleep[k] /\ state'[k] = state[k]
        BY <1>b, <3>2
      <4> QED BY <4>1 DEF IndInv, NoStrandedSleeper
    <3> QED BY <3>1, <3>2
  <2> QED BY <2>1 DEF NoStrandedSleeper
<1> QED BY <1>1, <1>2, <1>3, <1>4, <1>5, <1>6, <1>7 DEF IndInv, WordTellsHolders

-----------------------------------------------------------------------------
(* The theorems. *)

\* A thread inside a lock operation operates on a lock.
LEMMA ArgIsLock ==
  ASSUME IndInv, NEW t \in Threads, pc[t] # "idle"
  PROVE  arg[t] \in Locks
BY DEF IndInv, TypeOK, ControlAgrees, ControlOf

\* pthread_rwlock_init() establishes the invariant.
LEMMA InitInv == Init => IndInv
<1> SUFFICES ASSUME Init PROVE IndInv OBVIOUS
<1>1. TypeOK
  <2>1. Unlocked \in Word BY DEF Unlocked, Word
  <2>2. recursion \in [Locks -> -1 .. MaxRecursion] BY BoundsAssumption DEF Init
  <2> QED BY <2>1, <2>2 DEF Init, TypeOK, Labels
<1>2. ControlAgrees BY DEF Init, ControlAgrees, ControlOf, OwningLabels
<1>3. QueuesAgree BY DEF Init, QueuesAgree
<1>4. RdlocksCount
  <2> SUFFICES ASSUME NEW t \in Threads PROVE Cardinality(ReadHolds(t)) = 0
    BY DEF Init, RdlocksCount
  <2> QED BY <1>1, HoldsCounted DEF Init
<1>5. ASSUME NEW l \in Locks PROVE Cardinality(ReadGrants(l)) = 0
  BY <1>1, GrantsFacts DEF Init, HoldsRead
<1>6. WordTellsHolders
  BY <1>5, ThreadsAssumption DEF Init, WordTellsHolders, OwnsWrite, OwningLabels, Unlocked
<1>7. NoStrandedSleeper BY DEF Init, NoStrandedSleeper, Unlocked
<1> QED BY <1>1, <1>2, <1>3, <1>4, <1>6, <1>7 DEF IndInv

\* A step that changes nothing.
LEMMA StutterInv == ASSUME IndInv, UNCHANGED vars PROVE IndInv'
<1>1. TypeOK' BY DEF IndInv, vars, TypeOK
<1>2. ControlAgrees' BY DEF IndInv, vars, ControlAgrees, ControlOf
<1>3. QueuesAgree' BY DEF IndInv, vars, QueuesAgree
<1>4. RdlocksCount' BY DEF IndInv, vars, RdlocksCount, ReadHolds
<1>5. WordTellsHolders'
  <2>1. ASSUME NEW l \in Locks PROVE ReadGrants(l)' = ReadGrants(l)
    BY DEF vars, ReadGrants, Woken
  <2>2. ASSUME NEW l \in Locks, NEW t \in Threads
        PROVE  OwnsWrite(t, l)' <=> OwnsWrite(t, l)
    BY DEF vars, OwnsWrite
  <2> QED BY <2>1, <2>2 DEF IndInv, vars, WordTellsHolders
<1>6. NoStrandedSleeper' BY DEF IndInv, vars, NoStrandedSleeper
<1> QED BY <1>1, <1>2, <1>3, <1>4, <1>5, <1>6 DEF IndInv

\* Every call of a lock operation preserves the invariant.
LEMMA CallInv ==
  ASSUME IndInv, NEW t \in Threads, NEW l \in Locks, Call(t, l)
  PROVE  IndInv'
<1>1. CASE pthread_rwlock_tryrdlock(t, l) BY <1>1, Inv_tryrdlock
<1>2. CASE \E tm \in BOOLEAN : pthread_rwlock_rdlock(t, l, tm) BY <1>2, Inv_rdlock
<1>3. CASE pthread_rwlock_trywrlock(t, l)
  BY <1>3, Inv_trywrlock_first, Inv_trywrlock_again
<1>4. CASE \E tm \in BOOLEAN : pthread_rwlock_wrlock(t, l, tm) BY <1>4, Inv_wrlock
<1>5. CASE pthread_rwlock_unlock(t, l)
  BY <1>5, Inv_unlock_recursive, Inv_unlock_write, Inv_unlock_read
<1> QED BY <1>1, <1>2, <1>3, <1>4, <1>5 DEF Call

\* Every step of a thread inside a lock operation preserves the invariant.
LEMMA ProceedInv ==
  ASSUME IndInv, NEW t \in Threads, Proceed(t)
  PROVE  IndInv'
<1> DEFINE l == arg[t]
<1>0. l \in Locks
  <2>1. pc[t] # "idle"
    BY DEF Proceed, sys_poll_rdlock, sys_poll_wrlock, rdlock_return, wrlock_return,
           unlock_wrcas, unlock_rdcas, sys_lock_unlock
  <2> QED BY <2>1, ArgIsLock
<1> HIDE DEF l
<1>l. l = arg[t] BY DEF l
<1>1. CASE sys_poll_rdlock(t)
  BY <1>0, <1>l, <1>1, Inv_poll_rdlock_acquire, Inv_poll_rdlock_sleep
<1>2. CASE sys_poll_wrlock(t)
  BY <1>0, <1>l, <1>2, Inv_poll_wrlock_acquire, Inv_poll_wrlock_sleep
<1>3. CASE rdlock_return(t) BY <1>0, <1>l, <1>3, Inv_rdlock_return
<1>4. CASE wrlock_return(t) BY <1>0, <1>l, <1>4, Inv_wrlock_return
<1>5. CASE unlock_wrcas(t)
  BY <1>0, <1>l, <1>5, Inv_unlock_wrcas_done, Inv_unlock_wrcas_sys
<1>6. CASE unlock_rdcas(t)
  BY <1>0, <1>l, <1>6, Inv_unlock_rdcas_upgrade, Inv_unlock_rdcas_decrement,
     Inv_unlock_rdcas_reload
<1>7. CASE sys_lock_unlock(t)
  <2>1. HandOff(t, l) BY <1>7, <1>l DEF sys_lock_unlock
  <2>2. ASSUME NEW w \in wrsleep[l], HandToWriter(t, l, w) PROVE IndInv'
    BY <1>0, <1>l, <1>7, <2>2, Inv_unlock_to_writer
  <2>3. CASE HandToReaders(t, l) BY <1>0, <1>l, <1>7, <2>3, Inv_unlock_to_readers
  <2> QED BY <2>1, <2>2, <2>3 DEF HandOff
<1> QED BY <1>1, <1>2, <1>3, <1>4, <1>5, <1>6, <1>7 DEF Proceed

\* The strengthened invariant is inductive and holds in every behaviour of the
\* lock functions, for any number of threads and locks.
THEOREM Invariance == Spec => []IndInv
<1>1. Init => IndInv BY InitInv
<1>2. IndInv /\ [Next]_vars => IndInv'
  <2> SUFFICES ASSUME IndInv, [Next]_vars PROVE IndInv' OBVIOUS
  <2>1. CASE UNCHANGED vars BY <2>1, StutterInv
  <2>2. ASSUME NEW t \in Threads, Proceed(t) PROVE IndInv' BY <2>2, ProceedInv
  <2>3. ASSUME NEW t \in Threads, sys_poll_timeout(t) PROVE IndInv'
    BY <2>3, Inv_poll_timeout
  <2>4. ASSUME NEW t \in Threads, NEW l \in Locks, Call(t, l) PROVE IndInv'
    BY <2>4, CallInv
  <2> QED BY <2>1, <2>2, <2>3, <2>4 DEF Next
<1> QED BY <1>1, <1>2, PTL DEF Spec

\* The variables keep their types: no reader count, recursion count or
\* __pthread_rdlocks ever goes below zero.
THEOREM TypeCorrect == Spec => []TypeOK
<1>1. IndInv => TypeOK BY DEF IndInv
<1> QED BY <1>1, Invariance, PTL

\* The lock word names the write owner or counts the readers.
THEOREM WordCorrect == Spec => []WordTellsHolders
<1>1. IndInv => WordTellsHolders BY DEF IndInv
<1> QED BY <1>1, Invariance, PTL

\* Readers and writers exclude each other.
THEOREM Exclusion == Spec => []MutualExclusion
<1>1. IndInv => MutualExclusion
  <2> SUFFICES ASSUME IndInv, NEW l \in Locks, NEW t \in Threads, l \in wrlocks[t],
                      NEW u \in Threads \ {t}
               PROVE  l \notin wrlocks[u] /\ ~HoldsRead(u, l)
    BY DEF MutualExclusion
  <2>1. state[l].wr = t BY DEF IndInv, WordTellsHolders, OwnsWrite
  <2>2. l \notin wrlocks[u] BY <2>1 DEF IndInv, WordTellsHolders, OwnsWrite
  <2>3. ~HoldsRead(u, l) BY <2>1, HeldForReading, ThreadsAssumption
  <2> QED BY <2>2, <2>3
<1> QED BY <1>1, Invariance, PTL

\* A waiting writer is overtaken only by readers that hold read locks already.
THEOREM NoOvertaking == Spec => WritersNotOvertaken
<1> DEFINE A == \A l \in Locks, t \in Threads :
       /\ wrsleep[l] # {}
       /\ ~HoldsRead(t, l)
       /\ HoldsRead(t, l)'
       => rdlocks[t] > 0
<1>1. IndInv /\ [Next]_vars => [A]_vars
  <2> SUFFICES ASSUME IndInv, Next, NEW l \in Locks, NEW t \in Threads,
                      wrsleep[l] # {}, ~HoldsRead(t, l), HoldsRead(t, l)'
               PROVE  rdlocks[t] > 0
    OBVIOUS
  <2>1. TypeOK /\ state[l].km BY DEF IndInv, NoStrandedSleeper
  <2>2. PICK u \in Threads : Proceed(u) \/ sys_poll_timeout(u) \/ \E k \in Locks : Call(u, k)
    BY DEF Next
  <2>3. CASE \E k \in Locks : pthread_rwlock_tryrdlock(u, k)
    <3>1. PICK k \in Locks : pthread_rwlock_tryrdlock(u, k) BY <2>3
    <3>2. u = t /\ k = l
      BY <2>1, <3>1 DEF pthread_rwlock_tryrdlock, tryrdlock_ok, GainRead, NoCall, HoldsRead, TypeOK
    <3> QED BY <2>1, <3>1, <3>2 DEF pthread_rwlock_tryrdlock, tryrdlock_ok, CanTryRead
  <2>4. CASE \E k \in Locks, tm \in BOOLEAN :
               pthread_rwlock_rdlock(u, k, tm) \/ pthread_rwlock_wrlock(u, k, tm)
    BY <2>1, <2>4 DEF pthread_rwlock_rdlock, pthread_rwlock_wrlock, Goto, HoldsRead, TypeOK
  <2>5. CASE \E k \in Locks : pthread_rwlock_trywrlock(u, k)
    BY <2>5 DEF pthread_rwlock_trywrlock, NoCall, HoldsRead
  <2>6. CASE \E k \in Locks : pthread_rwlock_unlock(u, k)
    <3>1. PICK k \in Locks : pthread_rwlock_unlock(u, k) BY <2>6
    <3>2. /\ UNCHANGED rheld
          /\ \/ UNCHANGED <<pc, arg>>
             \/ \E lab \in {"wrsys", "wrcas", "rdcas"} :
                  pc' = [pc EXCEPT ![u] = lab] /\ arg' = [arg EXCEPT ![u] = k]
      BY <3>1 DEF pthread_rwlock_unlock, NoCall, Goto
    <3> QED BY <2>1, <3>2 DEF HoldsRead, TypeOK
  <2>7. CASE sys_poll_timeout(u)
    BY <2>1, <2>7 DEF sys_poll_timeout, Return, Goto, HoldsRead, TypeOK
  <2>8. CASE Proceed(u)
    <3>1. CASE sys_poll_rdlock(u)
      BY <2>1, <3>1 DEF sys_poll_rdlock, Goto, HoldsRead, TypeOK
    <3>2. CASE sys_poll_wrlock(u)
      <4>1. /\ UNCHANGED rheld
            /\ \E lab \in {"wrwoken", "wrsleep"} : pc' = [pc EXCEPT ![u] = lab]
            /\ arg' = [arg EXCEPT ![u] = arg[u]]
        BY <3>2 DEF sys_poll_wrlock, Goto
      <4> QED BY <2>1, <4>1 DEF HoldsRead, TypeOK
    <3>3. CASE rdlock_return(u)
      BY <2>1, <3>3, ArgIsLock DEF rdlock_return, GainRead, Return, Goto, HoldsRead, TypeOK
    <3>4. CASE wrlock_return(u)
      BY <2>1, <3>4 DEF wrlock_return, Return, Goto, HoldsRead, TypeOK
    <3>5. CASE unlock_wrcas(u)
      BY <2>1, <3>5 DEF unlock_wrcas, Return, Goto, HoldsRead, TypeOK
    <3>6. CASE unlock_rdcas(u)
      <4>1. \/ rheld' = [rheld EXCEPT ![u][arg[u]] = @ - 1]
            \/ UNCHANGED rheld
        BY <3>6 DEF unlock_rdcas
      <4>2. \/ UNCHANGED <<pc, arg>>
            \/ \E lab \in {"rdsys", "idle"}, k \in {arg[u], NoLock} :
                 pc' = [pc EXCEPT ![u] = lab] /\ arg' = [arg EXCEPT ![u] = k]
        BY <3>6 DEF unlock_rdcas, Return, Goto
      <4>3. pc'[t] = "rdwoken" => pc[t] = "rdwoken" /\ arg'[t] = arg[t]
        BY <2>1, <4>2 DEF TypeOK
      <4>4. arg[u] \in Locks BY <3>6, ArgIsLock DEF unlock_rdcas
      <4>5. rheld'[t][l] > 0 => rheld[t][l] > 0
        <5>1. rheld[t][l] \in Nat BY <2>1 DEF TypeOK
        <5>2. rheld \in [Threads -> [Locks -> Nat]] BY <2>1 DEF TypeOK
        <5>3. CASE rheld' = [rheld EXCEPT ![u][arg[u]] = @ - 1]
          <6>1. t # u \/ l # arg[u] => rheld'[t][l] = rheld[t][l] BY <4>4, <5>2, <5>3
          <6>2. t = u /\ l = arg[u] => rheld'[t][l] = rheld[t][l] - 1 BY <5>2, <5>3
          <6> QED BY <5>1, <6>1, <6>2
        <5> QED BY <4>1, <5>3
      <4> QED BY <4>3, <4>5 DEF HoldsRead
    <3>7. CASE sys_lock_unlock(u)
      <4>1. UNCHANGED rheld /\ arg' = [arg EXCEPT ![u] = NoLock] BY <3>7 DEF sys_lock_unlock
      <4>2. arg[u] \in Locks BY <3>7, ArgIsLock DEF sys_lock_unlock
      <4>3. pc'[t] = "rdwoken" /\ arg'[t] = l /\ t # u BY <2>1, <4>1, LocksAssumption DEF HoldsRead, TypeOK
      <4>4. arg[t] = l /\ pc[t] # "rdwoken" BY <2>1, <4>1, <4>3 DEF HoldsRead, TypeOK
      <4>5. t \in rdsleep[arg[u]] /\ wrsleep[arg[u]] = {}
        <5>1. HandOff(u, arg[u]) BY <3>7 DEF sys_lock_unlock
        <5>2. ~(\E w \in wrsleep[arg[u]] : HandToWriter(u, arg[u], w))
          BY <2>1, <4>3, <4>4 DEF TypeOK, HandToWriter
        <5> QED BY <4>3, <4>4, <5>1, <5>2 DEF HandOff, HandToReaders
      <4>6. arg[u] = l BY SMTT(30), Zenon, <4>2, <4>4, <4>5 DEF IndInv, QueuesAgree
      <4> QED BY <4>5, <4>6
    <3> QED BY <2>8, <3>1, <3>2, <3>3, <3>4, <3>5, <3>6, <3>7 DEF Proceed
  <2> QED BY <2>2, <2>3, <2>4, <2>5, <2>6, <2>7, <2>8 DEF Call
<1> QED BY <1>1, Invariance, PTL DEF Spec, WritersNotOvertaken

\* A sleeping thread always has a holder that will call the kernel.
THEOREM NobodyStranded == Spec => []NoStrandedSleeper
<1>1. IndInv => NoStrandedSleeper BY DEF IndInv
<1> QED BY <1>1, Invariance, PTL

\* The assertions inside the lock functions never fire.
THEOREM Asserts == Spec => []AssertsHold
<1>1. IndInv => AssertsHold
  <2> SUFFICES ASSUME IndInv, NEW t \in Threads
               PROVE  /\ pc[t] = "wrwoken" => recursion[arg[t]] <= 0
                      /\ pc[t] = "rdcas" => /\ rdlocks[t] > 0
                                            /\ recursion[arg[t]] <= 0
                                            /\ old[t].wr = NoThread /\ old[t].rd > 0
    BY DEF AssertsHold
  <2>1. TypeOK /\ ControlOf(t) BY DEF IndInv, ControlAgrees
  <2>2. ASSUME pc[t] = "wrwoken" PROVE recursion[arg[t]] <= 0
    BY <2>1, <2>2 DEF ControlOf, OwningLabels
  <2>3. ASSUME pc[t] = "rdcas"
        PROVE  /\ rdlocks[t] > 0 /\ recursion[arg[t]] <= 0
               /\ old[t].wr = NoThread /\ old[t].rd > 0
    <3>1. arg[t] \in Locks BY <2>3, ArgIsLock
    <3>2. rheld[t][arg[t]] > 0 /\ old[t].wr = NoThread /\ old[t].rd > 0
      BY <2>1, <2>3 DEF ControlOf
    <3>3. state[arg[t]].wr = NoThread BY <3>1, <3>2, HeldForReading DEF HoldsRead
    <3>4. recursion[arg[t]] \in Int BY <2>1, <3>1 DEF TypeOK
    <3>5. recursion[arg[t]] <= 0 BY <3>1, <3>3, <3>4 DEF IndInv, WordTellsHolders
    <3>6. Cardinality(ReadHolds(t)) \in Nat \ {0} BY <2>1, <3>1, <3>2, HoldsCounted
    <3>7. rdlocks[t] = Cardinality(ReadHolds(t)) BY SMTT(30), Zenon, <2>3, <3>6 DEF IndInv, RdlocksCount
    <3> QED BY <3>2, <3>5, <3>6, <3>7
  <2> QED BY <2>2, <2>3
<1> QED BY <1>1, Invariance, PTL

\* Outside the lock functions the thread-local lists and counters agree with
\* the lock words.
THEOREM Bookkeeping == Spec => []BookkeepingAgrees
<1>1. IndInv => BookkeepingAgrees
  <2> SUFFICES ASSUME IndInv, NEW t \in Threads, pc[t] = "idle"
               PROVE  /\ rdlocks[t] = Cardinality(ReadHolds(t))
                      /\ wrlocks[t] = {l \in Locks : state[l].wr = t}
    BY DEF BookkeepingAgrees
  <2>1. rdlocks[t] = Cardinality(ReadHolds(t))
    BY HoldsCounted DEF IndInv, RdlocksCount
  <2>2. ASSUME NEW l \in Locks PROVE l \in wrlocks[t] <=> state[l].wr = t
    BY DEF IndInv, WordTellsHolders, OwnsWrite, OwningLabels
  <2>3. wrlocks[t] \in SUBSET Locks BY DEF IndInv, TypeOK
  <2> QED BY <2>1, <2>2, <2>3
<1> QED BY <1>1, Invariance, PTL

=============================================================================
