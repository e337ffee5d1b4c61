------------------------------ MODULE Monitor -------------------------------
(***************************************************************************)
(* What a mutex and its condition variables promise the code that uses     *)
(* them (semaphores, message queues, barriers).  CondVar shows that the    *)
(* lock functions and pthread_cond_*() keep these promises; the users are  *)
(* modelled on top of this module.                                         *)
(*                                                                         *)
(* A waiter gives up the mutex and falls asleep in one step, and returns   *)
(* with the mutex after a signal or, if it called a timed variant, a       *)
(* timeout.  A waiter that was signalled reports the signal.               *)
(***************************************************************************)
EXTENDS FiniteSets

CONSTANTS
  Threads,
  NoThread,
  Conds      \* the condition variables used with the mutex

VARIABLES
  owner,   \* the thread that has the mutex, or NoThread
  asleep,  \* asleep[c]: the threads asleep on condition variable c
  wakeup   \* why a thread woke up that has to get the mutex back

monitorVars == <<owner, asleep, wakeup>>

MonitorTypeOK ==
  /\ owner \in Threads \cup {NoThread}
  /\ asleep \in [Conds -> SUBSET Threads]
  /\ wakeup \in [Threads -> {"none", "signal", "timeout"}]

MonitorInit ==
  /\ owner = NoThread
  /\ asleep = [c \in Conds |-> {}]
  /\ wakeup = [t \in Threads |-> "none"]

pthread_mutex_lock(t) ==
  /\ owner = NoThread
  /\ owner' = t
  /\ UNCHANGED <<asleep, wakeup>>

pthread_mutex_unlock(t) ==
  /\ owner = t
  /\ owner' = NoThread
  /\ UNCHANGED <<asleep, wakeup>>

\* pthread_cond_wait() and pthread_cond_timedwait() up to where they sleep.
pthread_cond_wait(t, c) ==
  /\ owner = t
  /\ owner' = NoThread
  /\ asleep' = [asleep EXCEPT ![c] = @ \cup {t}]
  /\ UNCHANGED wakeup

\* The threads in W wake up on c.
Wake(c, W, why) ==
  /\ asleep' = [asleep EXCEPT ![c] = @ \ W]
  /\ wakeup' = [t \in Threads |-> IF t \in W THEN why ELSE wakeup[t]]
  /\ UNCHANGED owner

pthread_cond_signal(c) ==
  IF asleep[c] = {} THEN UNCHANGED monitorVars
                    ELSE \E t \in asleep[c] : Wake(c, {t}, "signal")

pthread_cond_broadcast(c) == Wake(c, asleep[c], "signal")

Timeout(t, c) == t \in asleep[c] /\ Wake(c, {t}, "timeout")

\* The kernel returns from the wait with the mutex.
CondReturn(t) ==
  /\ wakeup[t] # "none"
  /\ owner = NoThread
  /\ owner' = t
  /\ wakeup' = [wakeup EXCEPT ![t] = "none"]
  /\ UNCHANGED asleep

MonitorNext ==
  \/ \E t \in Threads :
       \/ pthread_mutex_lock(t) \/ pthread_mutex_unlock(t) \/ CondReturn(t)
       \/ \E c \in Conds : pthread_cond_wait(t, c) \/ Timeout(t, c)
  \/ \E c \in Conds : pthread_cond_signal(c) \/ pthread_cond_broadcast(c)

MonitorSpec == MonitorInit /\ [][MonitorNext]_monitorVars

=============================================================================
