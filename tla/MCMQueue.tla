------------------------------ MODULE MCMQueue ------------------------------
(***************************************************************************)
(* Model checking of MQueue: the refinement mapping to MQueueAbs and the   *)
(* symmetry set.                                                           *)
(***************************************************************************)
EXTENDS MQueue, TLC

absQueue == LET r == Received.seq IN [i \in 1 .. Len(r) |-> cell[r[i]].message]

\* A receiver has its message as soon as the cell is off the list.
absTaken == [t \in Threads |->
  IF held[t] = NULL THEN <<>> ELSE <<cell[held[t]].message>>]

Abs == INSTANCE MQueueAbs WITH queue <- absQueue, taken <- absTaken,
                               Capacity <- MaxMsg

\* The skip list under its mutex implements a bounded priority queue that is
\* first-in first-out within each priority, and a receiver returns the message
\* that it took although it copies it out after it has released the mutex.
ImplementsQueue == Abs!Spec

Symmetry == Permutations(Senders) \cup Permutations(Receivers) \cup Permutations(Cells)

=============================================================================
