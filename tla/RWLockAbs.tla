----------------------------- MODULE RWLockAbs ------------------------------
(***************************************************************************)
(* What a read-write lock promises: it is held by any number of readers or *)
(* by one writer.  A thread may hold several read locks on one lock.  A    *)
(* release may pass the lock on in the same step.                          *)
(***************************************************************************)
EXTENDS Naturals

CONSTANTS Threads, Locks, NoThread

VARIABLES
  readers,  \* readers[l][t]: the number of read locks t holds on l
  writer    \* writer[l]: the thread that holds the write lock, or NoThread

absVars == <<readers, writer>>

Free(l) == writer[l] = NoThread /\ \A t \in Threads : readers[l][t] = 0

Init ==
  /\ readers = [l \in Locks |-> [t \in Threads |-> 0]]
  /\ writer = [l \in Locks |-> NoThread]

AcquireRead(t, l) ==
  /\ writer[l] = NoThread
  /\ readers' = [readers EXCEPT ![l][t] = @ + 1]
  /\ UNCHANGED writer

ReleaseRead(t, l) ==
  /\ readers[l][t] > 0
  /\ readers' = [readers EXCEPT ![l][t] = @ - 1]
  /\ UNCHANGED writer

\* The last reader becomes the writer in one step, before it lets go.
Upgrade(t, l) ==
  /\ readers[l] = [u \in Threads |-> IF u = t THEN 1 ELSE 0]
  /\ readers' = [readers EXCEPT ![l][t] = 0]
  /\ writer' = [writer EXCEPT ![l] = t]

AcquireWrite(t, l) ==
  /\ Free(l)
  /\ writer' = [writer EXCEPT ![l] = t]
  /\ UNCHANGED readers

\* A write lock is released, to nobody, to another writer or to readers.
ReleaseWrite(t, l) ==
  /\ writer[l] = t
  /\ \/ \E w \in (Threads \ {t}) \cup {NoThread} :
          writer' = [writer EXCEPT ![l] = w] /\ UNCHANGED readers
     \/ \E R \in SUBSET (Threads \ {t}) :
          /\ writer' = [writer EXCEPT ![l] = NoThread]
          /\ readers' = [readers EXCEPT ![l] =
                           [u \in Threads |-> IF u \in R THEN 1 ELSE 0]]

Next ==
  \E t \in Threads, l \in Locks :
    \/ AcquireRead(t, l) \/ ReleaseRead(t, l) \/ Upgrade(t, l)
    \/ AcquireWrite(t, l) \/ ReleaseWrite(t, l)

Spec == Init /\ [][Next]_absVars

=============================================================================
