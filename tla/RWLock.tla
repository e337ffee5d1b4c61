------------------------------- MODULE RWLock -------------------------------
(***************************************************************************)
(* The read-write locks of src/libc/pthread (mutexes and spinlocks are     *)
(* strong references to the same functions).                               *)
(*                                                                         *)
(* A lock is one word shared by userspace and the kernel.  Threads acquire *)
(* and release it with compare-and-swap as long as nobody has to sleep; a  *)
(* thread that has to sleep asks the kernel, which marks the word as       *)
(* kernel-managed, and whoever then releases the lock has to go through    *)
(* the kernel, which hands the lock over to a sleeper.                     *)
(*                                                                         *)
(* One action is one access to a lock word: a CAS (with the thread-local   *)
(* bookkeeping that follows it), a load, or a system call.  The lock word  *)
(* is a record: wr is the owner of the write lock (CLOUDABI_LOCK_WRLOCKED  *)
(* and the thread id) or NoThread, rd the number of read locks, km the bit *)
(* CLOUDABI_LOCK_KERNEL_MANAGED.                                           *)
(***************************************************************************)
EXTENDS Integers, FiniteSets

CONSTANTS
  Threads,       \* threads of the process
  NoThread,      \* no owner
  Locks,         \* lock objects
  NoLock,        \* a thread that is not inside a lock operation
  Recursive,     \* the locks created as PTHREAD_MUTEX_RECURSIVE
  MaxReads,      \* bound: read locks a thread holds at the same time
  MaxRecursion   \* bound: recursive acquisitions of one write lock

ASSUME ThreadsAssumption ==
  IsFiniteSet(Threads) /\ NoThread \notin Threads
ASSUME LocksAssumption ==
  IsFiniteSet(Locks) /\ NoLock \notin Locks /\ Recursive \subseteq Locks
ASSUME BoundsAssumption ==
  MaxReads \in Nat /\ MaxRecursion \in Nat

VARIABLES
  state,      \* __state of every lock
  recursion,  \* __write_recursion of every lock
  rdlocks,    \* __pthread_rdlocks of every thread
  wrlocks,    \* __pthread_wrlocks of every thread, as a set
  rheld,      \* read locks each thread holds on each lock (the callers' view)
  rdsleep,    \* threads asleep in the kernel for a read lock, per lock
  wrsleep,    \* threads asleep in the kernel for a write lock, per lock
  pc,         \* where a thread is
  arg,        \* the lock it operates on
  timed,      \* whether it called a timed variant
  old         \* the local variable "old" of pthread_rwlock_unlock()

vars == <<state, recursion, rdlocks, wrlocks, rheld, rdsleep, wrsleep,
          pc, arg, timed, old>>

-----------------------------------------------------------------------------
Word == [wr : Threads \cup {NoThread}, rd : Nat, km : BOOLEAN]

Unlocked == [wr |-> NoThread, rd |-> 0, km |-> FALSE]
WriteLocked(t, km) == [wr |-> t, rd |-> 0, km |-> km]
ReadLocked(n, km) == [wr |-> NoThread, rd |-> n, km |-> km]

Labels == {"idle", "rdpoll", "wrpoll", "rdsleep", "wrsleep", "rdwoken",
           "wrwoken", "wrcas", "wrsys", "rdcas", "rdsys"}

TypeOK ==
  /\ state \in [Locks -> Word]
  /\ recursion \in [Locks -> -1 .. MaxRecursion]
  /\ rdlocks \in [Threads -> Nat]
  /\ wrlocks \in [Threads -> SUBSET Locks]
  /\ rheld \in [Threads -> [Locks -> Nat]]
  /\ rdsleep \in [Locks -> SUBSET Threads]
  /\ wrsleep \in [Locks -> SUBSET Threads]
  /\ pc \in [Threads -> Labels]
  /\ arg \in [Threads -> Locks \cup {NoLock}]
  /\ timed \in [Threads -> BOOLEAN]
  /\ old \in [Threads -> Word]

\* pthread_rwlock_init() (pthread_mutex_init(), pthread_spin_init()).
Init ==
  /\ state = [l \in Locks |-> Unlocked]
  /\ recursion = [l \in Locks |-> IF l \in Recursive THEN 0 ELSE -1]
  /\ rdlocks = [t \in Threads |-> 0]
  /\ wrlocks = [t \in Threads |-> {}]
  /\ rheld = [t \in Threads |-> [l \in Locks |-> 0]]
  /\ rdsleep = [l \in Locks |-> {}]
  /\ wrsleep = [l \in Locks |-> {}]
  /\ pc = [t \in Threads |-> "idle"]
  /\ arg = [t \in Threads |-> NoLock]
  /\ timed = [t \in Threads |-> FALSE]
  /\ old = [t \in Threads |-> Unlocked]

-----------------------------------------------------------------------------
(* Control flow helpers. *)

Goto(t, label, l, tm) ==
  /\ pc' = [pc EXCEPT ![t] = label]
  /\ arg' = [arg EXCEPT ![t] = l]
  /\ timed' = [timed EXCEPT ![t] = tm]

Return(t) ==
  /\ Goto(t, "idle", NoLock, FALSE)
  /\ old' = [old EXCEPT ![t] = Unlocked]

\* Stay outside any operation: the call returned at once.
NoCall == UNCHANGED <<pc, arg, timed, old>>

-----------------------------------------------------------------------------
(* pthread_rwlock_tryrdlock(): the CAS loop decides on the last value it   *)
(* read, so it is one atomic step.                                         *)

\* Mutant: waiting threads are ignored.
CanTryRead_ignores_waiters(t, l) == state[l].wr = NoThread

\* Mutant: a thread that holds read locks gets no exemption.
CanTryRead_no_exemption(t, l) == state[l].wr = NoThread /\ ~state[l].km

\* The loop may increment the reader count: not write-locked, and no thread
\* is waiting unless the caller holds read locks already.
CanTryRead(t, l) ==
  /\ state[l].wr = NoThread
  /\ state[l].km => rdlocks[t] > 0

\* Mutant: __pthread_rdlocks is not incremented.
GainRead_uncounted(t, l) ==
  /\ rheld' = [rheld EXCEPT ![t][l] = @ + 1]
  /\ UNCHANGED rdlocks

GainRead(t, l) ==
  /\ rdlocks' = [rdlocks EXCEPT ![t] = @ + 1]
  /\ rheld' = [rheld EXCEPT ![t][l] = @ + 1]

tryrdlock_ok(t, l) ==
  /\ CanTryRead(t, l)
  /\ state' = [state EXCEPT ![l].rd = @ + 1]
  /\ GainRead(t, l)

\* Mutant: the CAS accepts a word that other readers hold.
trywrlock_ok_over_readers(t, l) ==
  \/ /\ state[l].wr = NoThread
     /\ state' = [state EXCEPT ![l] = WriteLocked(t, FALSE)]
     /\ wrlocks' = [wrlocks EXCEPT ![t] = @ \cup {l}]
     /\ UNCHANGED recursion
  \/ /\ state[l].wr = t
     /\ recursion' = [recursion EXCEPT ![l] = @ + 1]
     /\ UNCHANGED <<state, wrlocks>>

\* pthread_rwlock_trywrlock(): the CAS from CLOUDABI_LOCK_UNLOCKED, and the
\* recursive acquisition by the owner.
trywrlock_ok(t, l) ==
  \/ /\ state[l] = Unlocked
     /\ state' = [state EXCEPT ![l] = WriteLocked(t, FALSE)]
     /\ wrlocks' = [wrlocks EXCEPT ![t] = @ \cup {l}]
     /\ UNCHANGED recursion
  \/ /\ state[l].wr = t
     /\ recursion' = [recursion EXCEPT ![l] = @ + 1]
     /\ UNCHANGED <<state, wrlocks>>

CanTryWrite(t, l) == state[l] = Unlocked \/ state[l].wr = t

-----------------------------------------------------------------------------
(* Callers.  The functions assert that a write owner does not read-lock,   *)
(* that only recursive locks are acquired recursively, and that a lock is  *)
(* unlocked by a holder; a caller that write-locks a lock it holds for     *)
(* reading blocks on itself.  Callers keep to these rules.                 *)

MayRead(t, l) ==
  pc[t] = "idle" /\ state[l].wr # t /\ rdlocks[t] < MaxReads

MayWrite(t, l) ==
  /\ pc[t] = "idle"
  /\ rheld[t][l] = 0
  /\ state[l].wr = t => l \in Recursive /\ recursion[l] < MaxRecursion

MayUnlock(t, l) ==
  pc[t] = "idle" /\ (rheld[t][l] > 0 \/ l \in wrlocks[t])

-----------------------------------------------------------------------------
(* Acquiring. *)

\* pthread_rwlock_tryrdlock() that returns 0 or EBUSY (a stutter), also as the
\* first step of pthread_rwlock_rdlock() and pthread_rwlock_timedrdlock().
pthread_rwlock_tryrdlock(t, l) ==
  /\ MayRead(t, l)
  /\ tryrdlock_ok(t, l)
  /\ NoCall
  /\ UNCHANGED <<recursion, wrlocks, rdsleep, wrsleep>>

\* pthread_rwlock_rdlock() and pthread_rwlock_timedrdlock() after EBUSY: the
\* thread is about to enter the kernel (a timed call with an invalid
\* timestamp returns EINVAL instead, which changes nothing).
pthread_rwlock_rdlock(t, l, tm) ==
  /\ MayRead(t, l)
  /\ ~CanTryRead(t, l)
  /\ Goto(t, "rdpoll", l, tm)
  /\ UNCHANGED <<state, recursion, rdlocks, wrlocks, rheld, rdsleep, wrsleep,
                 old>>

\* pthread_rwlock_trywrlock() that returns 0, also as the first step of
\* pthread_rwlock_wrlock() and pthread_rwlock_timedwrlock().
pthread_rwlock_trywrlock(t, l) ==
  /\ MayWrite(t, l)
  /\ trywrlock_ok(t, l)
  /\ NoCall
  /\ UNCHANGED <<rdlocks, rheld, rdsleep, wrsleep>>

pthread_rwlock_wrlock(t, l, tm) ==
  /\ MayWrite(t, l)
  /\ ~CanTryWrite(t, l)
  /\ Goto(t, "wrpoll", l, tm)
  /\ UNCHANGED <<state, recursion, rdlocks, wrlocks, rheld, rdsleep, wrsleep,
                 old>>

\* cloudabi_sys_poll() with LOCK_RDLOCK: take a read lock if the lock is
\* neither write-locked nor kernel-managed, otherwise make it kernel-managed
\* and sleep.
sys_poll_rdlock(t) ==
  LET l == arg[t] IN
  /\ pc[t] = "rdpoll"
  /\ IF state[l].wr = NoThread /\ ~state[l].km
     THEN /\ state' = [state EXCEPT ![l].rd = @ + 1]
          /\ Goto(t, "rdwoken", l, timed[t])
          /\ UNCHANGED rdsleep
     ELSE /\ state' = [state EXCEPT ![l].km = TRUE]
          /\ Goto(t, "rdsleep", l, timed[t])
          /\ rdsleep' = [rdsleep EXCEPT ![l] = @ \cup {t}]
  /\ UNCHANGED <<recursion, rdlocks, wrlocks, rheld, wrsleep, old>>

\* cloudabi_sys_poll() with LOCK_WRLOCK.
sys_poll_wrlock(t) ==
  LET l == arg[t] IN
  /\ pc[t] = "wrpoll"
  /\ IF state[l] = Unlocked
     THEN /\ state' = [state EXCEPT ![l] = WriteLocked(t, FALSE)]
          /\ Goto(t, "wrwoken", l, timed[t])
          /\ UNCHANGED wrsleep
     ELSE /\ state' = [state EXCEPT ![l].km = TRUE]
          /\ Goto(t, "wrsleep", l, timed[t])
          /\ wrsleep' = [wrsleep EXCEPT ![l] = @ \cup {t}]
  /\ UNCHANGED <<recursion, rdlocks, wrlocks, rheld, rdsleep, old>>

\* The clock subscription of a timed variant fires first: the thread leaves
\* the queue and the call returns ETIMEDOUT.  The lock stays kernel-managed.
sys_poll_timeout(t) ==
  /\ pc[t] \in {"rdsleep", "wrsleep"} /\ timed[t]
  /\ rdsleep' = [rdsleep EXCEPT ![arg[t]] = @ \ {t}]
  /\ wrsleep' = [wrsleep EXCEPT ![arg[t]] = @ \ {t}]
  /\ Return(t)
  /\ UNCHANGED <<state, recursion, rdlocks, wrlocks, rheld>>

\* Return from the kernel with the read lock.
rdlock_return(t) ==
  /\ pc[t] = "rdwoken"
  /\ GainRead(t, arg[t])
  /\ Return(t)
  /\ UNCHANGED <<state, recursion, wrlocks, rdsleep, wrsleep>>

\* Mutant: the lock is not inserted into __pthread_wrlocks.
wrlock_return_unlisted(t) ==
  /\ pc[t] = "wrwoken"
  /\ Return(t)
  /\ UNCHANGED <<state, recursion, rdlocks, wrlocks, rheld, rdsleep, wrsleep>>

\* Return from the kernel with the write lock.
wrlock_return(t) ==
  /\ pc[t] = "wrwoken"
  /\ wrlocks' = [wrlocks EXCEPT ![t] = @ \cup {arg[t]}]
  /\ Return(t)
  /\ UNCHANGED <<state, recursion, rdlocks, rheld, rdsleep, wrsleep>>

-----------------------------------------------------------------------------
(* pthread_rwlock_unlock(). *)

\* Mutant: the last level of recursion is not counted down.
pthread_rwlock_unlock_early(t, l) ==
  /\ MayUnlock(t, l)
  /\ \/ /\ state[l].wr # NoThread
        /\ wrlocks' = [wrlocks EXCEPT ![t] = @ \ {l}]
        /\ Goto(t, IF state[l].km THEN "wrsys" ELSE "wrcas", l, FALSE)
     \/ /\ state[l].wr = NoThread
        /\ Goto(t, "rdcas", l, FALSE)
        /\ UNCHANGED wrlocks
  /\ old' = [old EXCEPT ![t] = state[l]]
  /\ UNCHANGED <<state, recursion, rdlocks, rheld, rdsleep, wrsleep>>

\* The load at the top and the branch on it: a recursive write lock is only
\* counted down; otherwise the lock leaves the list of write locks.
pthread_rwlock_unlock(t, l) ==
  /\ MayUnlock(t, l)
  /\ \/ /\ state[l].wr # NoThread
        /\ recursion[l] > 0
        /\ recursion' = [recursion EXCEPT ![l] = @ - 1]
        /\ NoCall
        /\ UNCHANGED wrlocks
     \/ /\ state[l].wr # NoThread
        /\ recursion[l] <= 0
        /\ wrlocks' = [wrlocks EXCEPT ![t] = @ \ {l}]
        /\ Goto(t, IF state[l].km THEN "wrsys" ELSE "wrcas", l, FALSE)
        /\ old' = [old EXCEPT ![t] = state[l]]
        /\ UNCHANGED recursion
     \/ /\ state[l].wr = NoThread
        /\ Goto(t, "rdcas", l, FALSE)
        /\ old' = [old EXCEPT ![t] = state[l]]
        /\ UNCHANGED <<recursion, wrlocks>>
  /\ UNCHANGED <<state, rdlocks, rheld, rdsleep, wrsleep>>

\* Mutant: a plain store instead of the CAS.
unlock_wrcas_store(t) ==
  /\ pc[t] = "wrcas"
  /\ state' = [state EXCEPT ![arg[t]] = Unlocked] /\ Return(t)
  /\ UNCHANGED <<recursion, rdlocks, wrlocks, rheld, rdsleep, wrsleep>>

\* The CAS of a write unlock; it fails if the lock became kernel-managed.
unlock_wrcas(t) ==
  LET l == arg[t] IN
  /\ pc[t] = "wrcas"
  /\ IF state[l] = old[t]
     THEN state' = [state EXCEPT ![l] = Unlocked] /\ Return(t)
     ELSE Goto(t, "wrsys", l, FALSE) /\ UNCHANGED <<state, old>>
  /\ UNCHANGED <<recursion, rdlocks, wrlocks, rheld, rdsleep, wrsleep>>

\* Mutant: any reader of a kernel-managed lock upgrades, not only the last.
unlock_rdcas_early_upgrade(t) ==
  LET l == arg[t] IN
  /\ pc[t] = "rdcas"
  /\ state[l] = old[t] /\ old[t].km
  /\ state' = [state EXCEPT ![l] = WriteLocked(t, TRUE)]
  /\ rheld' = [rheld EXCEPT ![t][l] = @ - 1]
  /\ Goto(t, "rdsys", l, FALSE)
  /\ UNCHANGED <<recursion, rdlocks, wrlocks, rdsleep, wrsleep, old>>

\* One iteration of the loop of a read unlock: the last reader of a
\* kernel-managed lock first makes itself the writer, any other reader
\* decrements the count, and a failed CAS reloads the word.
unlock_rdcas(t) ==
  LET l == arg[t] IN
  /\ pc[t] = "rdcas"
  /\ \/ /\ state[l] = old[t]
        /\ old[t] = ReadLocked(1, TRUE)
        /\ state' = [state EXCEPT ![l] = WriteLocked(t, TRUE)]
        /\ rheld' = [rheld EXCEPT ![t][l] = @ - 1]
        /\ Goto(t, "rdsys", l, FALSE)
        /\ UNCHANGED <<rdlocks, old>>
     \/ /\ state[l] = old[t]
        /\ old[t] # ReadLocked(1, TRUE)
        /\ state' = [state EXCEPT ![l].rd = @ - 1]
        /\ rheld' = [rheld EXCEPT ![t][l] = @ - 1]
        /\ rdlocks' = [rdlocks EXCEPT ![t] = @ - 1]
        /\ Return(t)
     \/ /\ state[l] # old[t]
        /\ old' = [old EXCEPT ![t] = state[l]]
        /\ UNCHANGED <<state, rdlocks, rheld, pc, arg, timed>>
  /\ UNCHANGED <<recursion, wrlocks, rdsleep, wrsleep>>

\* The kernel hands a write lock over: to one sleeping writer if there is
\* one (the lock stays kernel-managed while others sleep), otherwise to all
\* sleeping readers.
HandToWriter(t, l, w) ==
  /\ state' = [state EXCEPT ![l] =
       WriteLocked(w, rdsleep[l] # {} \/ wrsleep[l] # {w})]
  /\ wrsleep' = [wrsleep EXCEPT ![l] = @ \ {w}]
  /\ pc' = [pc EXCEPT ![t] = "idle", ![w] = "wrwoken"]
  /\ UNCHANGED rdsleep

HandToReaders(t, l) ==
  /\ wrsleep[l] = {}
  /\ state' = [state EXCEPT ![l] = ReadLocked(Cardinality(rdsleep[l]), FALSE)]
  /\ rdsleep' = [rdsleep EXCEPT ![l] = {}]
  /\ pc' = [u \in Threads |-> IF u = t THEN "idle"
                              ELSE IF u \in rdsleep[l] THEN "rdwoken"
                              ELSE pc[u]]
  /\ UNCHANGED wrsleep

HandOff(t, l) ==
  \/ \E w \in wrsleep[l] : HandToWriter(t, l, w)
  \/ HandToReaders(t, l)

\* cloudabi_sys_lock_unlock(), called at the end of a write unlock or of the
\* upgraded read unlock, and the return to the caller.
sys_lock_unlock(t) ==
  /\ pc[t] \in {"wrsys", "rdsys"}
  /\ HandOff(t, arg[t])
  /\ rdlocks' = IF pc[t] = "rdsys" THEN [rdlocks EXCEPT ![t] = @ - 1]
                                   ELSE rdlocks
  /\ arg' = [arg EXCEPT ![t] = NoLock]
  /\ old' = [old EXCEPT ![t] = Unlocked]
  /\ UNCHANGED <<recursion, wrlocks, rheld, timed>>

-----------------------------------------------------------------------------
\* Steps of a thread that has called a lock operation.
Proceed(t) ==
  \/ sys_poll_rdlock(t)
  \/ sys_poll_wrlock(t)
  \/ rdlock_return(t)
  \/ wrlock_return(t)
  \/ unlock_wrcas(t)
  \/ unlock_rdcas(t)
  \/ sys_lock_unlock(t)

Call(t, l) ==
  \/ pthread_rwlock_tryrdlock(t, l)
  \/ \E tm \in BOOLEAN : pthread_rwlock_rdlock(t, l, tm)
  \/ pthread_rwlock_trywrlock(t, l)
  \/ \E tm \in BOOLEAN : pthread_rwlock_wrlock(t, l, tm)
  \/ pthread_rwlock_unlock(t, l)

Next ==
  \E t \in Threads :
    \/ Proceed(t)
    \/ sys_poll_timeout(t)
    \/ \E l \in Locks : Call(t, l)

Spec == Init /\ [][Next]_vars

-----------------------------------------------------------------------------
(* Who has the lock, by control state. *)

\* The write unlock, the upgraded read unlock and a thread fresh out of the
\* kernel own the word without listing the lock.
OwningLabels == {"wrwoken", "wrcas", "wrsys", "rdsys"}

\* t has the write lock of l: as a caller, on its way out of the kernel, or
\* inside an unlock that has not released the word yet (an upgraded reader
\* counts).
OwnsWrite(t, l) ==
  \/ l \in wrlocks[t]
  \/ arg[t] = l /\ pc[t] \in OwningLabels

\* One token per unit that h counts over S, and one per member of W: a set
\* whose cardinality is a sum.
Tokens(S, h, W) ==
  (UNION {{x} \X (1 .. h[x]) : x \in S}) \cup {<<x, 0>> : x \in W}

\* The read locks granted on l: one token per read lock held, and one per
\* thread that the kernel has just given the lock.
Woken(l) == {t \in Threads : pc[t] = "rdwoken" /\ arg[t] = l}
ReadGrants(l) == Tokens(Threads, [t \in Threads |-> rheld[t][l]], Woken(l))

\* The read locks held by t on all locks.
ReadHolds(t) == Tokens(Locks, rheld[t], {})

HoldsRead(t, l) == rheld[t][l] > 0 \/ (pc[t] = "rdwoken" /\ arg[t] = l)

-----------------------------------------------------------------------------
(* Properties. *)

\* Readers and writers exclude each other: while a caller has the write lock
\* (between the return of a write lock and the call that unlocks it), no other
\* caller has the lock in any mode, whatever mixture of userspace and kernel
\* paths got it there.
MutualExclusion ==
  \A l \in Locks, t \in Threads : l \in wrlocks[t] =>
    \A u \in Threads \ {t} : l \notin wrlocks[u] /\ ~HoldsRead(u, l)

\* The lock word tells the truth: it names the write owner if there is one and
\* otherwise counts the read locks granted, and a recursion count is left only
\* while there is an owner.
WordTellsHolders ==
  \A l \in Locks :
    /\ \A t \in Threads : state[l].wr = t <=> OwnsWrite(t, l)
    /\ state[l].rd = Cardinality(ReadGrants(l))
    /\ state[l].wr # NoThread => state[l].rd = 0
    /\ recursion[l] > 0 => state[l].wr # NoThread

\* No sleeper is stranded: while a thread sleeps for a lock, the lock is marked
\* kernel-managed, and a lock so marked has a holder, whose unlock will call
\* the kernel (also when every sleeper has timed out since).
NoStrandedSleeper ==
  \A l \in Locks :
    /\ rdsleep[l] \cup wrsleep[l] # {} => state[l].km
    /\ state[l].km => state[l].wr # NoThread \/ state[l].rd > 0

\* The thread-local bookkeeping agrees with the lock words whenever a thread
\* is outside the lock functions: __pthread_rdlocks counts its read locks
\* (tryrdlock relies on it) and __pthread_wrlocks lists the locks whose word
\* names it (pdfork() rewrites exactly those words).
BookkeepingAgrees ==
  \A t \in Threads : pc[t] = "idle" =>
    /\ rdlocks[t] = Cardinality(ReadHolds(t))
    /\ wrlocks[t] = {l \in Locks : state[l].wr = t}

\* The assert()s inside the lock functions never fire: a write lock handed over
\* by the kernel comes without recursion (pthread_rwlock_wrlock.c:35), and a
\* read unlock finds its read lock counted, no recursion, and in the value it
\* last loaded a reader to subtract, however stale that value is
\* (pthread_rwlock_unlock.c:47, 48 and 80).
AssertsHold ==
  \A t \in Threads :
    /\ pc[t] = "wrwoken" => recursion[arg[t]] <= 0
    /\ pc[t] = "rdcas" => /\ rdlocks[t] > 0
                          /\ recursion[arg[t]] <= 0
                          /\ old[t].wr = NoThread /\ old[t].rd > 0

\* A waiting writer is overtaken by a reader only if that reader held read
\* locks already (pthread.h, "preferring write locks over read locks").
WritersNotOvertaken ==
  [][\A l \in Locks, t \in Threads :
       /\ wrsleep[l] # {}
       /\ ~HoldsRead(t, l)
       /\ HoldsRead(t, l)'
       => rdlocks[t] > 0]_vars

-----------------------------------------------------------------------------
(* The inductive invariant: what control state, kernel queues, lists and   *)
(* counters know of each other inside the lock functions.                  *)

ControlOf(t) ==
  /\ pc[t] = "idle" <=> arg[t] = NoLock
  /\ pc[t] \in OwningLabels => arg[t] \notin wrlocks[t] /\ recursion[arg[t]] <= 0
  /\ pc[t] = "wrcas" => old[t] = WriteLocked(t, FALSE)
  /\ pc[t] = "rdcas" => /\ rheld[t][arg[t]] > 0
                        /\ old[t].wr = NoThread /\ old[t].rd > 0

ControlAgrees == \A t \in Threads : ControlOf(t)

QueuesAgree ==
  \A t \in Threads, l \in Locks :
    /\ t \in rdsleep[l] <=> pc[t] = "rdsleep" /\ arg[t] = l
    /\ t \in wrsleep[l] <=> pc[t] = "wrsleep" /\ arg[t] = l

RdlocksCount ==
  \A t \in Threads :
    rdlocks[t] = Cardinality(ReadHolds(t)) + IF pc[t] = "rdsys" THEN 1 ELSE 0

IndInv ==
  /\ TypeOK
  /\ ControlAgrees
  /\ QueuesAgree
  /\ RdlocksCount
  /\ WordTellsHolders
  /\ NoStrandedSleeper

=============================================================================
