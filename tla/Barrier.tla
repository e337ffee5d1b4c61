------------------------------- MODULE Barrier ------------------------------
(***************************************************************************)
(* pthread_barrier_wait(), over the promises of Monitor.  The last thread  *)
(* of a round starts a new generation, releases the mutex and only then    *)
(* wakes the others, each of which compares the generation that it saw on  *)
(* arrival with the current one.                                           *)
(***************************************************************************)
EXTENDS Monitor, Naturals

CONSTANTS
  Cond,      \* __cond
  Count,     \* the threads that make a round
  GenMod,    \* __generation counts modulo this number (2^32 in the code)
  MaxCalls   \* bound: calls made by each thread

ASSUME BarrierAssumption ==
  /\ IsFiniteSet(Threads) /\ NoThread \notin Threads
  /\ Conds = {Cond}
  /\ Count \in Nat \ {0}   \* pthread_barrier_init() refuses zero
  /\ GenMod \in Nat \ {0} /\ MaxCalls \in Nat

VARIABLES
  remaining,   \* __remaining
  generation,  \* __generation
  pc,          \* where a thread is
  gen,         \* the local variable generation of a thread
  saw,         \* the condition variable had waiters at the unlock
  arrived,     \* history: how many threads have arrived
  ticket,      \* history: which of them thread t is
  calls        \* the calls made so far

barrierVars == <<remaining, generation, arrived>>
vars == <<monitorVars, barrierVars, pc, gen, saw, ticket, calls>>

TypeOK ==
  /\ MonitorTypeOK
  /\ remaining \in 0 .. Count - 1
  /\ generation \in 0 .. GenMod - 1
  /\ pc \in [Threads -> {"idle", "lock", "check", "wait", "asleep", "leave", "broadcast"}]
  /\ gen \in [Threads -> 0 .. GenMod - 1]
  /\ saw \in [Threads -> BOOLEAN]
  /\ arrived \in Nat /\ ticket \in [Threads -> Nat]
  /\ calls \in [Threads -> 0 .. MaxCalls]

\* pthread_barrier_init().
Init ==
  /\ MonitorInit
  /\ remaining = Count - 1
  /\ generation = 0
  /\ pc = [t \in Threads |-> "idle"]
  /\ gen = [t \in Threads |-> 0]
  /\ saw = [t \in Threads |-> FALSE]
  /\ arrived = 0 /\ ticket = [t \in Threads |-> 0]
  /\ calls = [t \in Threads |-> 0]

Goto(t, label) == pc' = [pc EXCEPT ![t] = label]

Call(t) ==
  /\ pc[t] = "idle" /\ calls[t] < MaxCalls
  /\ Goto(t, "lock")
  /\ calls' = [calls EXCEPT ![t] = @ + 1]
  /\ UNCHANGED <<monitorVars, barrierVars, gen, saw, ticket>>

Lock(t) ==
  /\ pc[t] = "lock"
  /\ pthread_mutex_lock(t)
  /\ Goto(t, "check")
  /\ arrived' = arrived + 1
  /\ ticket' = [ticket EXCEPT ![t] = arrived + 1]
  /\ UNCHANGED <<remaining, generation, gen, saw, calls>>

\* Mutant: the last thread does not reset the count.
last_no_reset(t) ==
  /\ pc[t] = "check" /\ remaining = 0
  /\ generation' = (generation + 1) % GenMod
  /\ pthread_mutex_unlock(t)
  /\ saw' = [saw EXCEPT ![t] = asleep[Cond] # {}]
  /\ Goto(t, "broadcast")
  /\ UNCHANGED <<remaining, arrived, gen, ticket, calls>>

\* The last thread of a round resets the barrier.
last(t) ==
  /\ pc[t] = "check" /\ remaining = 0
  /\ remaining' = Count - 1
  /\ generation' = (generation + 1) % GenMod
  /\ pthread_mutex_unlock(t)
  /\ saw' = [saw EXCEPT ![t] = asleep[Cond] # {}]
  /\ Goto(t, "broadcast")
  /\ UNCHANGED <<arrived, gen, ticket, calls>>

\* Mutant: only one of the waiting threads is woken.
wake_others_signal(t) ==
  /\ pc[t] = "broadcast"
  /\ pthread_cond_signal(Cond)
  /\ saw' = [saw EXCEPT ![t] = FALSE]
  /\ Goto(t, "idle")
  /\ UNCHANGED <<barrierVars, gen, ticket, calls>>

\* It wakes the others after it has released the mutex.  The load of __waiters
\* is relaxed: see Semaphore.
wake_others(t) ==
  /\ pc[t] = "broadcast"
  /\ pthread_cond_broadcast(Cond) \/ (~saw[t] /\ UNCHANGED monitorVars)
  /\ saw' = [saw EXCEPT ![t] = FALSE]
  /\ Goto(t, "idle")
  /\ UNCHANGED <<barrierVars, gen, ticket, calls>>

\* Mutant: the last thread waits like the others.
not_last_always(t) ==
  /\ pc[t] = "check"
  /\ remaining' = remaining - 1
  /\ gen' = [gen EXCEPT ![t] = generation]
  /\ Goto(t, "wait")
  /\ UNCHANGED <<monitorVars, generation, arrived, saw, ticket, calls>>

\* The other threads remember the generation and wait.
not_last(t) ==
  /\ pc[t] = "check" /\ remaining # 0
  /\ remaining' = remaining - 1
  /\ gen' = [gen EXCEPT ![t] = generation]
  /\ Goto(t, "wait")
  /\ UNCHANGED <<monitorVars, generation, arrived, saw, ticket, calls>>

wait(t) ==
  /\ pc[t] = "wait"
  /\ pthread_cond_wait(t, Cond)
  /\ Goto(t, "asleep")
  /\ UNCHANGED <<barrierVars, gen, saw, ticket, calls>>

\* Mutant: a thread that is woken leaves without looking at the generation.
woken_leaves(t) ==
  /\ pc[t] = "asleep"
  /\ CondReturn(t)
  /\ Goto(t, "leave")
  /\ UNCHANGED <<barrierVars, gen, saw, ticket, calls>>

\* Woken up with the mutex: wait again if it is still the same generation.
woken(t) ==
  /\ pc[t] = "asleep"
  /\ CondReturn(t)
  /\ Goto(t, IF gen[t] = generation THEN "wait" ELSE "leave")
  /\ UNCHANGED <<barrierVars, gen, saw, ticket, calls>>

leave(t) ==
  /\ pc[t] = "leave"
  /\ pthread_mutex_unlock(t)
  /\ Goto(t, "idle")
  /\ UNCHANGED <<barrierVars, gen, saw, ticket, calls>>

Step(t) ==
  \/ Lock(t) \/ last(t) \/ wake_others(t) \/ not_last(t) \/ wait(t) \/ woken(t)
  \/ leave(t)

Next == \E t \in Threads : Call(t) \/ Step(t)

Spec == Init /\ [][Next]_vars /\ \A t \in Threads : WF_vars(Step(t))

-----------------------------------------------------------------------------
(* Properties. *)

\* The round of an arrival, and the arrivals that complete it.
Round(n) == (n - 1) \div Count
Complete(n) == arrived >= (Round(n) + 1) * Count

\* Nobody gets through before its round is complete, not even a thread that a
\* late broadcast of an earlier round wakes up, and only the thread that
\* completes a round is told PTHREAD_BARRIER_SERIAL_THREAD.
NoEarlyRelease ==
  \A t \in Threads :
    /\ pc[t] = "leave" => Complete(ticket[t]) /\ ticket[t] % Count # 0
    /\ pc[t] = "broadcast" => ticket[t] % Count = 0

\* __remaining tells how many threads the current round lacks, which is what
\* pthread_barrier_destroy() asserts when nobody waits.
RemainingCounts ==
  LET counted == arrived - (IF \E t \in Threads : pc[t] = "check" THEN 1 ELSE 0)
  IN  remaining = (Count - 1) - (counted % Count)

\* When the threads stop calling, the only ones that have not returned are
\* those of the last, incomplete round.
OnlyIncompleteRoundWaits ==
  <>[](\A t \in Threads : pc[t] # "idle" => ~Complete(ticket[t]))

=============================================================================
