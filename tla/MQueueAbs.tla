----------------------------- MODULE MQueueAbs ------------------------------
(***************************************************************************)
(* What a message queue promises: mq_receive() takes the oldest of the     *)
(* messages with the highest priority, and the queue never exceeds its     *)
(* capacity.                                                               *)
(***************************************************************************)
EXTENDS Naturals, Sequences

CONSTANTS Threads, Messages, Capacity

VARIABLES
  queue,  \* the messages in the order in which they will be received
  taken,  \* taken[t]: the message mq_receive() is returning to t, if any
  alive   \* the queue has not been destroyed

\* m goes behind every message of at least its priority.
Insert(q, m) ==
  LET ahead == {i \in 1 .. Len(q) : q[i].priority >= m.priority}
      k == IF ahead = {} THEN 0 ELSE CHOOSE i \in ahead : \A j \in ahead : j <= i
  IN  SubSeq(q, 1, k) \o <<m>> \o SubSeq(q, k + 1, Len(q))

Init == queue = <<>> /\ taken = [t \in Threads |-> <<>>] /\ alive = TRUE

Send(m) ==
  /\ Len(queue) < Capacity
  /\ queue' = Insert(queue, m)
  /\ UNCHANGED <<taken, alive>>

Receive(t) ==
  /\ queue # <<>> /\ taken[t] = <<>>
  /\ queue' = Tail(queue)
  /\ taken' = [taken EXCEPT ![t] = <<Head(queue)>>]
  /\ UNCHANGED alive

Return(t) ==
  /\ taken[t] # <<>>
  /\ taken' = [taken EXCEPT ![t] = <<>>]
  /\ UNCHANGED <<queue, alive>>

Destroy == alive /\ alive' = FALSE /\ queue' = <<>> /\ UNCHANGED taken

Next ==
  \/ \E m \in Messages : Send(m)
  \/ \E t \in Threads : Receive(t) \/ Return(t)
  \/ Destroy

Spec == Init /\ [][Next]_<<queue, taken, alive>>

=============================================================================
