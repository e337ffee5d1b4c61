----------------------------- MODULE MCCondVar ------------------------------
(***************************************************************************)
(* Model checking of CondVar: the refinement mapping to Monitor and the    *)
(* symmetry set.                                                           *)
(***************************************************************************)
EXTENDS CondVar, TLC

CONSTANT Mutex  \* the lock that the callers use with the condition variables


\* A thread that the kernel has handed the lock owns it once it is back.
absOwner ==
  IF \E t \in Threads : OwnsWrite(t, Mutex) /\ pc[t] # "wrwoken"
  THEN CHOOSE t \in Threads : OwnsWrite(t, Mutex) /\ pc[t] # "wrwoken"
  ELSE NoThread

Mon == INSTANCE Monitor WITH owner <- absOwner

\* The lock functions, the condition variable functions and the kernel's
\* requeueing implement a monitor: no signal is lost between the release of
\* the lock and the sleep, and every waiter comes back with the lock.
ImplementsMonitor == Mon!MonitorSpec

Symmetry == Permutations(Threads)

=============================================================================
