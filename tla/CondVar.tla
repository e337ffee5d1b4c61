------------------------------ MODULE CondVar -------------------------------
(***************************************************************************)
(* pthread_cond_wait(), _timedwait(), _signal() and _broadcast() on top of *)
(* the lock functions of RWLock.                                           *)
(*                                                                         *)
(* A waiter takes its lock off the list of write locks and calls the       *)
(* kernel, which releases the lock as sys_lock_unlock does and queues the  *)
(* thread.  While it sleeps there the thread is idle for RWLock.  A wakeup *)
(* moves it to the lock's queue of writers, from where it comes back like  *)
(* any writer.                                                             *)
(***************************************************************************)
EXTENDS RWLock

CONSTANTS
  Conds,   \* condition variables
  NoCond   \* not inside a condition variable operation

VARIABLES
  waiters,  \* waiters[c]: whether __waiters says that threads wait on c
  asleep,   \* asleep[c]: the kernel's queue of c
  waitsOn,  \* the condition variable a thread waits on, or NoCond
  relock,   \* the lock it gave up for that, or NoLock
  expires,  \* whether the wait has a timeout
  wakeup,   \* why it woke up: "none", "signal" or "timeout"
  signals   \* the wakeup a thread is about to ask the kernel for

condVars == <<waiters, asleep, waitsOn, relock, expires, wakeup, signals>>
allVars == <<vars, condVars>>

NoSignal == [cond |-> NoCond, all |-> FALSE]

CondTypeOK ==
  /\ TypeOK
  /\ waiters \in [Conds -> BOOLEAN]
  /\ asleep \in [Conds -> SUBSET Threads]
  /\ waitsOn \in [Threads -> Conds \cup {NoCond}]
  /\ relock \in [Threads -> Locks \cup {NoLock}]
  /\ expires \in [Threads -> BOOLEAN]
  /\ wakeup \in [Threads -> {"none", "signal", "timeout"}]
  /\ signals \in [Threads -> [cond : Conds \cup {NoCond}, all : BOOLEAN]]

\* pthread_cond_init().
CondInit ==
  /\ Init
  /\ waiters = [c \in Conds |-> FALSE]
  /\ asleep = [c \in Conds |-> {}]
  /\ waitsOn = [t \in Threads |-> NoCond]
  /\ relock = [t \in Threads |-> NoLock]
  /\ expires = [t \in Threads |-> FALSE]
  /\ wakeup = [t \in Threads |-> "none"]
  /\ signals = [t \in Threads |-> NoSignal]

\* t runs its own code, outside every lock and condition variable operation.
InCaller(t) ==
  pc[t] = "idle" /\ waitsOn[t] = NoCond /\ signals[t] = NoSignal

-----------------------------------------------------------------------------
(* Waiting. *)

\* Mutant: the lock stays on the list of write locks while the thread sleeps.
pthread_cond_wait_listed(t, c, l, tm) ==
  /\ InCaller(t)
  /\ l \in wrlocks[t] /\ recursion[l] <= 0
  /\ Goto(t, "wrsys", l, FALSE)
  /\ waitsOn' = [waitsOn EXCEPT ![t] = c]
  /\ relock' = [relock EXCEPT ![t] = l]
  /\ expires' = [expires EXCEPT ![t] = tm]
  /\ UNCHANGED <<state, recursion, rdlocks, wrlocks, rheld, rdsleep, wrsleep,
                 old, waiters, asleep, wakeup, signals>>

\* pthread_cond_wait() (tm is FALSE) and pthread_cond_timedwait() up to the
\* system call; the caller owns l and did not lock it recursively, as the
\* functions assert.
pthread_cond_wait(t, c, l, tm) ==
  /\ InCaller(t)
  /\ l \in wrlocks[t] /\ recursion[l] <= 0
  /\ wrlocks' = [wrlocks EXCEPT ![t] = @ \ {l}]
  /\ Goto(t, "wrsys", l, FALSE)
  /\ waitsOn' = [waitsOn EXCEPT ![t] = c]
  /\ relock' = [relock EXCEPT ![t] = l]
  /\ expires' = [expires EXCEPT ![t] = tm]
  /\ UNCHANGED <<state, recursion, rdlocks, rheld, rdsleep, wrsleep, old,
                 waiters, asleep, wakeup, signals>>

\* Mutant: the kernel is asked to wait in one call and to unlock in an
\* earlier one.
sys_poll_condvar_late(t) ==
  /\ waitsOn[t] # NoCond
  /\ \/ sys_lock_unlock(t) /\ UNCHANGED condVars
     \/ /\ pc[t] = "idle" /\ wakeup[t] = "none"
        /\ \A c \in Conds : t \notin asleep[c]
        /\ asleep' = [asleep EXCEPT ![waitsOn[t]] = @ \cup {t}]
        /\ waiters' = [waiters EXCEPT ![waitsOn[t]] = TRUE]
        /\ UNCHANGED <<vars, waitsOn, relock, expires, wakeup, signals>>

\* cloudabi_sys_poll() with CONDVAR: the lock is handed over and the thread
\* queued in one step.
sys_poll_condvar(t) ==
  /\ waitsOn[t] # NoCond
  /\ sys_lock_unlock(t)
  /\ asleep' = [asleep EXCEPT ![waitsOn[t]] = @ \cup {t}]
  /\ waiters' = [waiters EXCEPT ![waitsOn[t]] = TRUE]
  /\ UNCHANGED <<waitsOn, relock, expires, wakeup, signals>>

\* The kernel moves the threads in W from the queue of c to the queues of
\* their locks.
Requeue(c, W, why) ==
  /\ asleep' = [asleep EXCEPT ![c] = @ \ W]
  /\ waiters' = [waiters EXCEPT ![c] = asleep[c] # W]
  /\ wakeup' = [t \in Threads |-> IF t \in W THEN why ELSE wakeup[t]]
  /\ pc' = [t \in Threads |-> IF t \in W THEN "wrpoll" ELSE pc[t]]
  /\ arg' = [t \in Threads |-> IF t \in W THEN relock[t] ELSE arg[t]]

\* The clock subscription of pthread_cond_timedwait() fires.
sys_condvar_timeout(t) ==
  LET c == waitsOn[t] IN
  /\ c # NoCond /\ t \in asleep[c] /\ expires[t]
  /\ Requeue(c, {t}, "timeout")
  /\ UNCHANGED <<state, recursion, rdlocks, wrlocks, rheld, rdsleep, wrsleep,
                 timed, old, waitsOn, relock, expires, signals>>

\* Return from the kernel with the lock back on the list; 0 or ETIMEDOUT.
cond_return(t) ==
  /\ waitsOn[t] # NoCond
  /\ wrlock_return(t)
  /\ waitsOn' = [waitsOn EXCEPT ![t] = NoCond]
  /\ relock' = [relock EXCEPT ![t] = NoLock]
  /\ expires' = [expires EXCEPT ![t] = FALSE]
  /\ wakeup' = [wakeup EXCEPT ![t] = "none"]
  /\ UNCHANGED <<waiters, asleep, signals>>

-----------------------------------------------------------------------------
(* Signalling. *)

\* pthread_cond_signal() and pthread_cond_broadcast(): nothing to do unless
\* __waiters says that there are threads waiting.
pthread_cond_signal(t, c, all) ==
  /\ InCaller(t)
  /\ waiters[c]
  /\ signals' = [signals EXCEPT ![t] = [cond |-> c, all |-> all]]
  /\ UNCHANGED <<vars, waiters, asleep, waitsOn, relock, expires, wakeup>>

\* cloudabi_sys_condvar_signal(): one waiter, or all of them.
sys_condvar_signal(t) ==
  LET c == signals[t].cond IN
  /\ signals[t] # NoSignal
  /\ IF asleep[c] = {}
     THEN UNCHANGED <<pc, arg, waiters, asleep, wakeup>>
     ELSE \E W \in SUBSET asleep[c] :
            /\ IF signals[t].all THEN W = asleep[c] ELSE Cardinality(W) = 1
            /\ Requeue(c, W, "signal")
  /\ signals' = [signals EXCEPT ![t] = NoSignal]
  /\ UNCHANGED <<state, recursion, rdlocks, wrlocks, rheld, rdsleep, wrsleep,
                 timed, old, waitsOn, relock, expires>>

-----------------------------------------------------------------------------
\* The steps of RWLock, of threads that do not wait on a condition variable,
\* or that wait for their lock after one.
LockStep(t) ==
  /\ \/ waitsOn[t] = NoCond /\ Proceed(t)
     \/ waitsOn[t] # NoCond /\ sys_poll_wrlock(t)
     \/ sys_poll_timeout(t)
     \/ \E l \in Locks : InCaller(t) /\ Call(t, l)
  /\ UNCHANGED condVars

CondNext ==
  \E t \in Threads :
    \/ LockStep(t)
    \/ \E c \in Conds, l \in Locks, tm \in BOOLEAN : pthread_cond_wait(t, c, l, tm)
    \/ sys_poll_condvar(t)
    \/ sys_condvar_timeout(t)
    \/ cond_return(t)
    \/ \E c \in Conds, all \in BOOLEAN : pthread_cond_signal(t, c, all)
    \/ sys_condvar_signal(t)

CondSpec == CondInit /\ [][CondNext]_allVars

-----------------------------------------------------------------------------
(* Properties. *)

\* A thread is in exactly one place while it waits: giving up its lock, on
\* the kernel's queue of the condition variable, or on its way back to the
\* lock it gave up; a wakeup is never applied to a thread that is not asleep.
WaiterInOnePlace ==
  \A t \in Threads :
    LET queued == {c \in Conds : t \in asleep[c]} IN
    IF waitsOn[t] = NoCond
    THEN queued = {} /\ wakeup[t] = "none"
    ELSE \/ /\ pc[t] = "wrsys" /\ queued = {} /\ wakeup[t] = "none"
         \/ /\ pc[t] = "idle" /\ queued = {waitsOn[t]} /\ wakeup[t] = "none"
         \/ /\ pc[t] \in {"wrpoll", "wrsleep", "wrwoken"}
            /\ arg[t] = relock[t] /\ queued = {} /\ wakeup[t] # "none"

\* The bookkeeping of the lock functions survives condition variables: neither
\* a caller nor a thread asleep on a condition variable lists a lock whose
\* word names another thread (the list is taken apart around the system call).
CondBookkeeping == BookkeepingAgrees

=============================================================================
