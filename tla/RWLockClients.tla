--------------------------- MODULE RWLockClients ----------------------------
(***************************************************************************)
(* RWLock under disciplined callers, for the liveness of its waiting       *)
(* scheme.  Readers take read locks, nested and in any order, and release  *)
(* all of them before they start over; writers take one write lock at a    *)
(* time.  Nobody else can deadlock, so whatever gets stuck is the lock's   *)
(* fault (pthread.h, lines 85 to 116).                                     *)
(***************************************************************************)
EXTENDS RWLock

CONSTANTS
  Writers,  \* the threads that write-lock; the others read-lock
  Rounds    \* bound on the times t starts over; 0 for no bound

ASSUME RoundsAssumption == Writers \subseteq Threads

Readers == Threads \ Writers

VARIABLES
  releasing,  \* the readers that are releasing what they hold
  rounds      \* the times each thread started over

clientVars == <<vars, releasing, rounds>>

\* A thread that holds nothing starts a round with its lock call.
StartsRound(t) ==
  IF rdlocks[t] = 0
  THEN /\ Rounds = 0 \/ rounds[t] < Rounds
       /\ rounds' = IF Rounds = 0 THEN rounds ELSE [rounds EXCEPT ![t] = @ + 1]
  ELSE UNCHANGED rounds

ClientInit ==
  /\ Init
  /\ releasing = {}
  /\ rounds = [t \in Threads |-> 0]

ReaderLocks(t, l) ==
  /\ t \in Readers \ releasing
  /\ pthread_rwlock_tryrdlock(t, l) \/ pthread_rwlock_rdlock(t, l, FALSE)
  /\ StartsRound(t)
  /\ UNCHANGED releasing

ReaderUnlocks(t, l) ==
  /\ t \in Readers
  /\ pthread_rwlock_unlock(t, l)
  /\ releasing' = IF rdlocks[t] > 1 THEN releasing \cup {t}
                                    ELSE releasing \ {t}
  /\ UNCHANGED rounds

WriterLocks(t, l) ==
  /\ t \in Writers
  /\ wrlocks[t] = {}
  /\ pthread_rwlock_trywrlock(t, l) \/ pthread_rwlock_wrlock(t, l, FALSE)
  /\ StartsRound(t)
  /\ UNCHANGED releasing

WriterUnlocks(t, l) ==
  t \in Writers /\ pthread_rwlock_unlock(t, l) /\ UNCHANGED <<releasing, rounds>>

Unlocks(t) == \E l \in Locks : ReaderUnlocks(t, l) \/ WriterUnlocks(t, l)
Continues(t) == Proceed(t) /\ UNCHANGED <<releasing, rounds>>

ClientNext ==
  \E t \in Threads :
    \/ Continues(t)
    \/ Unlocks(t)
    \/ \E l \in Locks : ReaderLocks(t, l) \/ WriterLocks(t, l)

\* A runnable thread runs on, and a holder of locks eventually unlocks.
Fairness == \A t \in Threads :
  WF_clientVars(Continues(t)) /\ WF_clientVars(Unlocks(t))

ClientSpec == ClientInit /\ [][ClientNext]_clientVars /\ Fairness

-----------------------------------------------------------------------------
\* A writer that has to wait gets its lock, even if the readers never stop
\* coming (pthread.h: "prevent writer starvation by preferring write locks
\* over read locks").
WriterNotStarved ==
  \A t \in Writers : pc[t] \in {"wrpoll", "wrsleep"} ~> pc[t] = "wrwoken"

\* With finitely many rounds every call returns: nested read locks on
\* several locks never end in a circle of readers behind waiting writers,
\* which is what __pthread_rdlocks is for.
EveryCallReturns ==
  \A t \in Threads : pc[t] # "idle" ~> pc[t] = "idle"

=============================================================================
