----------------------------- MODULE Semaphore ------------------------------
(***************************************************************************)
(* sem_wait(), sem_timedwait(), sem_trywait() and sem_post() of            *)
(* src/libc/semaphore, on top of a mutex and one condition variable.       *)
(*                                                                         *)
(* A call is three steps: it gets the mutex; it runs its critical section, *)
(* which ends by giving the mutex up or by waiting; a sem_post() then      *)
(* signals, without the mutex.                                             *)
(***************************************************************************)
EXTENDS Monitor, Naturals

CONSTANTS
  Cond,      \* the condition variable __cond
  InitValue, \* the value given to sem_init()
  UINT_MAX,  \* the largest value
  MaxCalls   \* bound: calls made by each thread

ASSUME SemAssumption ==
  /\ IsFiniteSet(Threads) /\ NoThread \notin Threads
  /\ Conds = {Cond}
  /\ UINT_MAX \in Nat /\ InitValue \in 0 .. UINT_MAX
  /\ MaxCalls \in Nat

VARIABLES
  value,  \* __value
  pc,     \* where a thread is
  op,     \* the function it called
  saw,    \* sem_post(): __cond had waiters when the mutex was released
  calls   \* the calls made so far

semVars == <<value, pc, op, saw, calls>>
vars == <<monitorVars, semVars>>

Ops == {"wait", "timedwait", "trywait", "post"}

SemTypeOK ==
  /\ MonitorTypeOK
  /\ value \in 0 .. UINT_MAX
  /\ pc \in [Threads -> {"idle", "lock", "crit", "asleep", "expired",
                     "signal"}]
  /\ op \in [Threads -> Ops]
  /\ saw \in [Threads -> BOOLEAN]
  /\ calls \in [Threads -> 0 .. MaxCalls]

\* sem_init().
Init ==
  /\ MonitorInit
  /\ value = InitValue
  /\ pc = [t \in Threads |-> "idle"]
  /\ op = [t \in Threads |-> "wait"]
  /\ saw = [t \in Threads |-> FALSE]
  /\ calls = [t \in Threads |-> 0]

Goto(t, label) == pc' = [pc EXCEPT ![t] = label]

Call(t, f) ==
  /\ pc[t] = "idle" /\ calls[t] < MaxCalls
  /\ Goto(t, "lock")
  /\ op' = [op EXCEPT ![t] = f]
  /\ calls' = [calls EXCEPT ![t] = @ + 1]
  /\ UNCHANGED <<monitorVars, value, saw>>

Lock(t) ==
  /\ pc[t] = "lock"
  /\ pthread_mutex_lock(t)
  /\ Goto(t, "crit")
  /\ UNCHANGED <<value, op, saw, calls>>

\* The critical section of sem_post(): EINVAL at the largest value.
sem_post(t) ==
  /\ pc[t] = "crit" /\ op[t] = "post"
  /\ pthread_mutex_unlock(t)
  /\ IF value = UINT_MAX
     THEN Goto(t, "idle") /\ UNCHANGED <<value, saw>>
     ELSE /\ value' = value + 1
          /\ saw' = [saw EXCEPT ![t] = asleep[Cond] # {}]
          /\ Goto(t, "signal")
  /\ UNCHANGED <<op, calls>>

\* Mutant: only the post that makes the value positive signals.
sem_post_signal_first_only(t) ==
  /\ pc[t] = "signal"
  /\ IF value = 1 THEN pthread_cond_signal(Cond) ELSE UNCHANGED monitorVars
  /\ Goto(t, "idle")
  /\ UNCHANGED <<value, op, saw, calls>>

\* The pthread_cond_signal() at the end of sem_post().  Its relaxed load of
\* __waiters may be as old as the critical section, so a thread that fell
\* asleep since may be overlooked.
sem_post_signal(t) ==
  /\ pc[t] = "signal"
  /\ \/ pthread_cond_signal(Cond)
     \/ ~saw[t] /\ UNCHANGED monitorVars
  /\ Goto(t, "idle")
  /\ UNCHANGED <<value, op, saw, calls>>

\* The loop of sem_wait() and sem_timedwait().
sem_wait(t) ==
  /\ pc[t] = "crit" /\ op[t] \in {"wait", "timedwait"}
  /\ IF value = 0
     THEN pthread_cond_wait(t, Cond) /\ Goto(t, "asleep") /\ UNCHANGED value
     ELSE pthread_mutex_unlock(t) /\ Goto(t, "idle") /\ value' = value - 1
  /\ UNCHANGED <<op, saw, calls>>

sem_trywait(t) ==
  /\ pc[t] = "crit" /\ op[t] = "trywait"
  /\ pthread_mutex_unlock(t)
  /\ Goto(t, "idle")
  /\ value' = IF value = 0 THEN value ELSE value - 1
  /\ UNCHANGED <<op, saw, calls>>

\* Mutant: a wakeup by a signal is taken for a unit.
sem_wakeup_no_loop(t) ==
  /\ pc[t] = "asleep"
  /\ CondReturn(t)
  /\ Goto(t, "expired")
  /\ value' = IF wakeup[t] = "timeout" THEN value ELSE value - 1
  /\ UNCHANGED <<op, saw, calls>>

\* Back in the loop after pthread_cond_wait() or pthread_cond_timedwait(); a
\* timeout gives up without looking at the value.
sem_wakeup(t) ==
  /\ pc[t] = "asleep"
  /\ CondReturn(t)
  /\ Goto(t, IF wakeup[t] = "timeout" THEN "expired" ELSE "crit")
  /\ UNCHANGED <<value, op, saw, calls>>

sem_timedwait_fails(t) ==
  /\ pc[t] = "expired"
  /\ pthread_mutex_unlock(t)
  /\ Goto(t, "idle")
  /\ UNCHANGED <<value, op, saw, calls>>

Expire(t) ==
  /\ op[t] = "timedwait"
  /\ Timeout(t, Cond)
  /\ UNCHANGED semVars

\* The steps a thread takes by itself once it has made a call.
Step(t) ==
  \/ Lock(t) \/ sem_post(t) \/ sem_post_signal(t)
  \/ sem_wait(t) \/ sem_trywait(t) \/ sem_wakeup(t) \/ sem_timedwait_fails(t)

Next ==
  \E t \in Threads :
    \/ \E f \in Ops : Call(t, f)
    \/ Step(t)
    \/ Expire(t)

Spec == Init /\ [][Next]_vars /\ \A t \in Threads : WF_vars(Step(t))

-----------------------------------------------------------------------------
(* Properties. *)

\* Threads that the kernel has woken and that will look at the value, and
\* posters that are certain to signal.
Rechecking == {t \in Threads :
  wakeup[t] = "signal" \/ (pc[t] = "crit" /\ op[t] \in {"wait", "timedwait"})}
Signalling == {t \in Threads : pc[t] = "signal" /\ saw[t]}

\* No wakeup is lost although sem_post() signals after it has released the
\* mutex: while a thread sleeps, every unit of the value has a wakeup on its
\* way, from a poster about to signal or in a thread about to look.
NoLostWakeup ==
  asleep[Cond] # {} => value <= Cardinality(Rechecking) + Cardinality(Signalling)

\* The semaphore does its job: once the callers have finished, nobody sleeps
\* while there are units left, whatever mixture of timeouts, failed tries and
\* stolen wakeups came before.
NobodyLeftBehind == <>[](value = 0 \/ asleep[Cond] = {})

=============================================================================
