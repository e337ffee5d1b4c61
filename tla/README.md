# TLA+ verification of cloudlibc

cloudlibc is the C library for CloudABI. Most of it is sequential string,
number and locale code. What is hard to get right, and hard to test, is its
threading core: read-write locks written from scratch on a word that the
library shares with the kernel, and everything that is built on them. This
directory holds TLA+ models of that core, TLC runs that check them on small
instances, and TLAPS proofs of the central theorems.

Source paths below are relative to the repository's `src/` directory.

## The system and its parts

| Part | Source | Module | State |
| --- | --- | --- | --- |
| read-write locks, mutexes, spinlocks | `libc/pthread/pthread_rwlock_*.c`, `common/pthread.h` | `RWLock` | checked, proved |
| condition variables | `libc/pthread/pthread_cond_*.c` | `CondVar` | checked |
| semaphores | `libc/semaphore` | `Semaphore` | checked |
| message queues | `libc/mqueue` | `MQueue` | checked |
| barriers | `libc/pthread/pthread_barrier_*.c` | `Barrier` | checked |
| once control | `libc/pthread/pthread_once.c`, `include/pthread.h` | `Once` | checked |
| thread life cycle | `libc/pthread/pthread_{create,join,detach,exit}.c` | `ThreadLife` | checked |
| per-thread values, thread exit handlers | `libc/pthread/pthread_key_*.c`, `*specific.c`, `cxa_thread_atexit.c` | | planned |
| locking pairs of mutexes | `libc/pthread/pthread_mutex_lock_pair_np.c` | | planned |
| process creation, fork handlers | `libc/sys/procdesc`, `pthread_atfork.c` | | planned |
| process exit | `libc/stdlib/{atexit,exit,quick_exit,...}.c` | | planned |
| search trees, hash tables | `libc/search` | | planned |
| streams | `common/stdio.h`, `libc/stdio` | | planned |
| random numbers | `common/arc4random.h`, `libc/stdlib/arc4random*.c` | | planned |
| time | `libc/time` | | planned |
| C11 threads | `libc/threads` | | wrappers |
| strings, characters, locales, numbers, patterns, networking tables, files and system calls, program start, logging | the rest of `libc`, `crt` | | not modelled |

The lock functions sit at the bottom. Condition variables use the same lock
words, and the kernel moves a signalled waiter from the condition variable to
the queue of the lock. Semaphores, message queues and barriers use one mutex and
one or two condition variables each. `pthread_once()` and `pthread_join()` do
not call the lock functions: they use a lock word of their own, directly.

The models follow that layering.

```
RWLock      -- refines -->  RWLockAbs      (what a read-write lock is)
CondVar (extends RWLock)  -- refines -->  Monitor  (mutex + condition variables)
Semaphore, MQueue, Barrier  extend Monitor
MQueue      -- refines -->  MQueueAbs      (a bounded priority queue)
Once, ThreadLife            have lock words of their own
```

`Monitor` is the hinge. `CondVar` shows that the detailed lock and condition
variable behave as `Monitor` says. The users are checked on top of `Monitor`,
so their state spaces do not contain lock words and kernel queues.

### The kernel

The CloudABI kernel is not in this repository. What the models assume of it is
what the library's code relies on:

* `cloudabi_sys_poll()` for a read lock takes the lock if it is neither
  write-locked nor kernel-managed, and for a write lock if the word is zero.
  Otherwise it sets the kernel-managed bit and suspends the thread.
* `cloudabi_sys_lock_unlock()` by the write owner hands the lock to one sleeping
  writer, and keeps it managed while others sleep. If no writer sleeps, it hands
  the lock to all sleeping readers and the word is no longer managed.
* a timeout takes the thread off the queue and leaves the word as it is.
* waiting on a condition variable releases the lock and starts to wait in one
  step. A signal moves waiters to the lock's queue. A waiter that was signalled
  reports the signal even if its deadline passes before it has the lock back.
  `sem_timedwait()` and the timed message queue calls need this: they give up on
  a timeout without looking at the value again.
* `cloudabi_sys_thread_exit()` releases the join lock after the thread has left
  its stack.

The atomic operations are modelled as sequentially consistent, with one
exception. `pthread_cond_signal()` and `pthread_cond_broadcast()` begin with a
relaxed load of `__waiters`, and their callers in this library have just
unlocked the mutex. The load may take effect before the unlock, so the models
record at the unlock whether anybody slept (`saw`) and allow the signal to be
skipped if nobody did.

## RWLock

`state[l]` is the record `[wr, rd, km]` for the bits of the word: the owner of
the write lock, the number of readers, and `CLOUDABI_LOCK_KERNEL_MANAGED`.
`recursion`, `rdlocks` and `wrlocks` are `__write_recursion`,
`__pthread_rdlocks` and `__pthread_wrlocks`. `rdsleep` and `wrsleep` are the
kernel's queues. `rheld` is a history variable with the read locks each caller
holds. `pc`, `arg`, `timed` and `old` are the control state of a call.

One action is one access to the word together with the thread-local bookkeeping
that follows it. A try function is a loop of compare-and-exchanges that decides
on the last value it read, so it is one step. `pthread_rwlock_unlock` is the
load with the branch on it, the compare-and-exchange, and the system call.
Callers may do whatever is legal: lock, try, time out, nest read locks, recurse.

| Run | Instance | Shows |
| --- | --- | --- |
| `rwlock_safety` | 4 threads, 1 recursive lock | exclusion, an exact lock word, no stranded sleeper, the assertions in the code, lists and counters that agree with the words, no overtaking of writers, refinement of `RWLockAbs` |
| `rwlock_nested_readers` | 2 locks | nesting readers and writers never form a circle |
| `rwlock_writer_starvation` | 2 locks, endless readers | violated: see Findings |

Four threads allow an owner, a sleeping writer, a sleeping or late reader and a
thread that times out at the same time. One lock is enough for the word: locks
share only the thread-local counter and list. The proofs below have any number
of locks. `MaxReads` bounds nested read locks, `MaxRecursion` recursive ones.

The liveness runs use `RWLockClients`, whose callers unlock what they lock.
Fairness is weak fairness of the next step of a thread that is not suspended,
and of a holder's unlock: the scheduler runs every runnable thread, and critical
sections end.

## CondVar and Monitor

`CondVar` adds `pthread_cond_wait`, its timed variant, signal and broadcast to
the threads of `RWLock`. The wait takes the lock off the thread-local list, makes
the system call, and puts it back when the kernel returns with the lock. The run
`condvar` (4 threads, 1 lock, 1 condition variable) checks that the lock's
invariants survive, that a waiter is in exactly one queue, and that the whole
implements `Monitor` (`ImplementsMonitor`, refinement mapping in `MCCondVar`).

## Semaphore, MQueue, Barrier

Every call gets the mutex, runs its critical section, and signals after it has
released the mutex. `semaphore`, `mqueue` and `barrier` check that nothing is
lost in that window. `NoLostWakeup` and `NoLostQueueWakeup` count: while somebody
sleeps, every unit, message or free place has a thread on its way that will look
again or will signal. `NobodyLeftBehind` and `NobodyLeftAtQueue` are what follows:
once the callers stop, nobody sleeps beside something to take. Fairness is weak
fairness of every thread that is not asleep. A timeout is never forced.

`MQueue` keeps the messages as cells of a heap, linked by `next_receive` and
`next_send` exactly as in `mqueue_impl.h`. `SkipListOK` says what the two lists
mean; `ImplementsQueue` that the queue delivers by priority, oldest first, and
that a receiver returns the message it took although it copies it out after
unlocking. `mqueue_list` exercises the list (3 priorities, 3 places, memory for
3 cells, 4 calls per thread, failing allocations). `mqueue` exercises
concurrency (three threads, one of which both sends and receives, 1 place,
changing `O_NONBLOCK`). `CellsAccountedFor` says that no cell leaks, is freed
while linked, or is freed twice.

`NoLostQueueWakeup` is checked with allocations that succeed. A sender that was
woken for a free place and then gets no memory returns without waking the next
sender; this is listed as a hazard.

`Barrier` numbers the arrivals. `NoEarlyRelease` says that nobody passes before
its round is complete even though the broadcast of a round may reach sleepers of
the next. `GenMod` stands for 2^32 and is larger than the number of rounds that a
waiter can miss in the bounded run.

## Once

The control word is a lock word. Everybody ends by storing UNLOCKED over it, so
the question is whether such a store can hide a sleeper, or let a caller return
before the routine has finished. Both are excluded (`SleepersWillBeWoken`,
`InitializedOnce`), and in the end the word is UNLOCKED although read locks were
taken and never released (`FastPathWorks`). Weak fairness includes the
initialisation routine: it returns.

## ThreadLife

Each handle has its memory, its join lock, its reference count and its return
value. Threads create, join and detach each other in any legal way: a handle is
joined or detached once, by a thread that can know it (after `pthread_create()`
has returned it, or the thread itself). `thread_life` (initial thread and two
more) checks that no stack is freed while its thread runs, that a handle is
joined by one thread and freed once, the assertions of `pthread_join()`, that
detached stacks are not lost, that the process ends with its last thread, and
that the chain of detached threads that wait for each other comes to an end
(weak fairness of the threads inside the library).

## Findings

* `rwlock_writer_starvation`: `common/pthread.h:92` says that the locks prevent
  writer starvation. A thread that holds any read lock ignores waiting writers on
  every lock, so readers that always hold some other lock can keep a writer
  waiting for ever.
* `creator_late`: `pthread_create()` initialises the join lock after the thread
  has started. A detached thread may have exited, and its handle may have been
  freed by the next one that exits.

## Proofs

`RWLockLemmas` and `RWLockProofs` prove, for any finite set of threads, any set
of locks and any choice of recursive ones, that `RWLock` keeps its type
invariant, excludes, counts its holders exactly, strands nobody, never fails an
assertion, keeps its bookkeeping, and lets a reader overtake a sleeping writer
only if it already holds a read lock. The assumptions are
`ThreadsAssumption` and `LocksAssumption` of `RWLock`.

None of these is inductive alone. `IndInv` adds what the code knows at each
point of a call: `ControlAgrees` (what a thread at a label has: the lock it is
about to release, the value it loaded), `QueuesAgree` (the kernel's queues hold
exactly the threads whose control state says so), and `RdlocksCount` (the
counter equals the read locks held, plus one in the middle of an unlock).

The difficult part is counting. The word has a number of readers; the model has
threads that hold a lock several times and threads the kernel has given the lock
that have not returned yet. `ReadGrants(l)` is a set with one token for each of
them, and `WordTellsHolders` says that the word's count is its cardinality. The
first half of `RWLockLemmas` shows how that cardinality changes when a thread
gains a lock, releases one, is woken, or returns. Then there is one lemma per
action, each with one step per conjunct of `IndInv`.

The proofs cover safety. The bounds on nesting and recursion are not assumptions
of the proofs: they only restrict the callers.

Model-checked only: liveness, all refinements, and all properties of the other
modules.

## Plan

1. Extend the model: per-thread values and exit handlers; lock pairs; fork and
   its treatment of locks, over `RWLock`; exit handlers; the AVL tree and hash
   table of `libc/search` against reference definitions; stream buffers; the
   random pool; calendar arithmetic.
2. Prove more: `WinnerKeepsLock` and `InitializedOnce` of `Once`,
   `StackOutlivesThread` of `ThreadLife`, `NoLostWakeup` of `Semaphore`,
   `NoEarlyRelease` of `Barrier`, and that `RWLock` implements `RWLockAbs`.

## Not modelled

Process-shared objects differ from private ones only in an argument to the
kernel. Attribute objects are plain data. Formatting, locale data, floating
point, pattern matching and networking tables have no state to speak of or are
out of reach of the tools; `PROJECT.json` gives the reason for each part.
Failures of system calls that make the library abort (`__pthread_terminate`)
are left out: they end the process.
