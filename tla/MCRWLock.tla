------------------------------ MODULE MCRWLock ------------------------------
(***************************************************************************)
(* Model checking of RWLock: the refinement mapping to RWLockAbs and the   *)
(* symmetry set.                                                           *)
(***************************************************************************)
EXTENDS RWLock, TLC

\* A thread that the kernel has handed a read lock holds it already.
absReaders == [l \in Locks |-> [t \in Threads |->
  rheld[t][l] + IF pc[t] = "rdwoken" /\ arg[t] = l THEN 1 ELSE 0]]
absWriter == [l \in Locks |->
  IF \E t \in Threads : OwnsWrite(t, l)
  THEN CHOOSE t \in Threads : OwnsWrite(t, l) ELSE NoThread]

Abs == INSTANCE RWLockAbs WITH readers <- absReaders, writer <- absWriter

\* The lock functions and the kernel's hand-over implement a read-write lock:
\* judged by what the callers hold, every step acquires, releases, or passes
\* on a lock in a way the abstract lock allows.
ImplementsRWLock == Abs!Spec

Symmetry == Permutations(Threads)

=============================================================================
