-------------------------------- MODULE Once --------------------------------
(***************************************************************************)
(* pthread_once(): the control word is a lock word.  The thread that runs  *)
(* the initialisation holds it for writing, threads that come meanwhile    *)
(* wait for a read lock that they never release: everybody finally stores  *)
(* UNLOCKED over whatever is there, so that the inline function in         *)
(* pthread.h returns at once from then on.                                 *)
(***************************************************************************)
EXTENDS Naturals, FiniteSets

CONSTANTS
  Threads,
  NoThread,
  MaxCalls   \* bound: calls made by each thread

ASSUME OnceAssumption ==
  IsFiniteSet(Threads) /\ NoThread \notin Threads /\ MaxCalls \in Nat

VARIABLES
  state,   \* once_control->__state
  rdsleep, \* the threads that the kernel has suspended on it
  pc,      \* where a thread is
  runs,    \* how often init_routine() was entered
  inited,  \* init_routine() has returned
  calls    \* the calls made so far

vars == <<state, rdsleep, pc, runs, inited, calls>>

\* A lock word: its writer, its readers and CLOUDABI_LOCK_KERNEL_MANAGED.
Word(wr, rd, km) == [wr |-> wr, rd |-> rd, km |-> km]
Unlocked == Word(NoThread, 0, FALSE)
\* CLOUDABI_LOCK_BOGUS: not locked for writing, and no word of a lock in use.
Bogus == Word(NoThread, 0, TRUE)

TypeOK ==
  /\ state \in [wr : Threads \cup {NoThread}, rd : 0 .. Cardinality(Threads) - 1,
                km : BOOLEAN]
  /\ rdsleep \subseteq Threads
  /\ pc \in [Threads -> {"idle", "cas", "init", "finish", "unlock", "poll",
                         "sleep", "store"}]
  /\ runs \in Nat /\ inited \in BOOLEAN
  /\ calls \in [Threads -> 0 .. MaxCalls]

\* PTHREAD_ONCE_INIT.
Init ==
  /\ state = Bogus
  /\ rdsleep = {}
  /\ pc = [t \in Threads |-> "idle"]
  /\ runs = 0 /\ inited = FALSE
  /\ calls = [t \in Threads |-> 0]

Goto(t, label) == pc' = [pc EXCEPT ![t] = label]

\* The inline function: it returns unless __state is nonzero.
fast_path(t) ==
  /\ pc[t] = "idle" /\ calls[t] < MaxCalls
  /\ calls' = [calls EXCEPT ![t] = @ + 1]
  /\ Goto(t, IF state = Unlocked THEN "idle" ELSE "cas")
  /\ UNCHANGED <<state, rdsleep, runs, inited>>

\* Mutant: the first caller does not claim the control word.
claim_not_stored(t) ==
  /\ pc[t] = "cas"
  /\ Goto(t, IF state = Bogus THEN "init" ELSE IF state.wr # NoThread THEN "poll" ELSE "store")
  /\ runs' = IF state = Bogus THEN runs + 1 ELSE runs
  /\ UNCHANGED <<state, rdsleep, inited, calls>>

\* Mutant: a caller that finds init_routine() running does not wait.
claim_no_wait(t) ==
  /\ pc[t] = "cas"
  /\ state' = IF state = Bogus THEN Word(t, 0, FALSE) ELSE state
  /\ runs' = IF state = Bogus THEN runs + 1 ELSE runs
  /\ Goto(t, IF state = Bogus THEN "init" ELSE "store")
  /\ UNCHANGED <<rdsleep, inited, calls>>

\* Claim the control word: the winner runs init_routine(), a thread that finds
\* it running waits, the others are done.
claim(t) ==
  /\ pc[t] = "cas"
  /\ IF state = Bogus
     THEN /\ state' = Word(t, 0, FALSE)
          /\ runs' = runs + 1
          /\ Goto(t, "init")
     ELSE /\ Goto(t, IF state.wr # NoThread THEN "poll" ELSE "store")
          /\ UNCHANGED <<state, runs>>
  /\ UNCHANGED <<rdsleep, inited, calls>>

init_routine(t) ==
  /\ pc[t] = "init"
  /\ inited' = TRUE
  /\ Goto(t, "finish")
  /\ UNCHANGED <<state, rdsleep, runs, calls>>

\* Mutant: the winner stores UNLOCKED without looking for waiting threads.
finish_blindly(t) ==
  /\ pc[t] = "finish"
  /\ state' = Unlocked
  /\ Goto(t, "store")
  /\ UNCHANGED <<rdsleep, runs, inited, calls>>

\* Mark the object as finished unless the kernel manages it.
finish(t) ==
  /\ pc[t] = "finish"
  /\ IF state = Word(t, 0, FALSE)
     THEN state' = Unlocked /\ Goto(t, "store")
     ELSE UNCHANGED state /\ Goto(t, "unlock")
  /\ UNCHANGED <<rdsleep, runs, inited, calls>>

\* Mutant: the winner is counted among the readers.
sys_lock_unlock_self(t) ==
  /\ pc[t] = "unlock"
  /\ state' = Word(NoThread, Cardinality(rdsleep) + 1, FALSE)
  /\ rdsleep' = {}
  /\ pc' = [u \in Threads |-> IF u = t \/ u \in rdsleep THEN "store" ELSE pc[u]]
  /\ UNCHANGED <<runs, inited, calls>>

\* cloudabi_sys_lock_unlock(): the waiting readers get the lock.
sys_lock_unlock(t) ==
  /\ pc[t] = "unlock"
  /\ state' = Word(NoThread, Cardinality(rdsleep), FALSE)
  /\ rdsleep' = {}
  /\ pc' = [u \in Threads |-> IF u = t \/ u \in rdsleep THEN "store" ELSE pc[u]]
  /\ UNCHANGED <<runs, inited, calls>>

\* cloudabi_sys_poll() for a read lock.
sys_poll_rdlock(t) ==
  /\ pc[t] = "poll"
  /\ IF state.wr = NoThread /\ ~state.km
     THEN /\ state' = [state EXCEPT !.rd = @ + 1]
          /\ Goto(t, "store")
          /\ UNCHANGED rdsleep
     ELSE /\ state' = [state EXCEPT !.km = TRUE]
          /\ rdsleep' = rdsleep \cup {t}
          /\ Goto(t, "sleep")
  /\ UNCHANGED <<runs, inited, calls>>

\* Mutant: stale read locks stay in the control word.
store_skipped(t) ==
  /\ pc[t] = "store"
  /\ Goto(t, "idle")
  /\ UNCHANGED <<state, rdsleep, runs, inited, calls>>

\* The store that makes the fast path work.
store(t) ==
  /\ pc[t] = "store"
  /\ state' = Unlocked
  /\ Goto(t, "idle")
  /\ UNCHANGED <<rdsleep, runs, inited, calls>>

Step(t) ==
  \/ claim(t) \/ init_routine(t) \/ finish(t) \/ sys_lock_unlock(t)
  \/ sys_poll_rdlock(t) \/ store(t)

Next == \E t \in Threads : fast_path(t) \/ Step(t)

\* A thread that is not suspended keeps running, and init_routine() returns.
Spec == Init /\ [][Next]_vars /\ \A t \in Threads : WF_vars(Step(t))

-----------------------------------------------------------------------------
(* Properties. *)

\* init_routine() runs at most once, and whoever finds the control word
\* unlocked, by the fast path or by the failed compare-and-exchange, finds the
\* initialisation complete.
InitializedOnce ==
  /\ runs <= 1
  /\ state.wr = NoThread /\ state # Bogus => inited
  /\ \A t \in Threads : pc[t] = "store" => inited

\* No store of UNLOCKED by a thread that finishes early wipes out the sign that
\* a thread is asleep: the kernel manages the word exactly while somebody
\* sleeps, and then the winner is still to call the kernel.
SleepersWillBeWoken ==
  rdsleep # {} =>
    /\ state.km
    /\ \E t \in Threads : state.wr = t /\ pc[t] \in {"init", "finish", "unlock"}

\* "Corrupt once object": the winner finds its lock, managed or not.
WinnerKeepsLock ==
  \A t \in Threads :
    pc[t] \in {"init", "finish", "unlock"} =>
      state.wr = t /\ state.rd = 0 /\ (pc[t] = "unlock" => state.km)

\* After the last caller has left, the word is UNLOCKED although threads took
\* read locks that they never release, and everybody has returned.
FastPathWorks ==
  <>[](/\ \A t \in Threads : pc[t] = "idle"
       /\ state = Unlocked \/ runs = 0)

=============================================================================
