------------------------------- MODULE MQueue -------------------------------
(***************************************************************************)
(* The message queues of src/libc/mqueue: a priority queue kept in a skip  *)
(* list, protected by a mutex and two condition variables.                 *)
(*                                                                         *)
(* Messages are cells of a heap.  next_receive links all of them in the    *)
(* order of reception, next_send links the last message of every priority. *)
(* As in Semaphore, a call gets the mutex, runs its critical section, and  *)
(* signals after it has released the mutex.                                *)
(***************************************************************************)
EXTENDS Monitor, Naturals, Sequences

CONSTANTS
  CondReceive, CondSend,  \* cond_receive and cond_send
  Senders,                \* the threads that send
  Receivers,              \* the threads that receive
  Setters,                \* the threads that call mq_setattr()
  Cells,                  \* addresses that malloc() returns
  NULL,                   \* the null pointer
  Priorities,             \* message priorities
  MaxMsg,                 \* mq_maxmsg
  MallocFails,            \* whether malloc() may fail
  MaxCalls                \* bound: calls made by each thread

ASSUME MQueueAssumption ==
  /\ IsFiniteSet(Threads) /\ NoThread \notin Threads
  /\ Threads = Senders \cup Receivers \cup Setters
  /\ Conds = {CondReceive, CondSend} /\ CondReceive # CondSend
  /\ IsFiniteSet(Cells) /\ NULL \notin Cells
  /\ Priorities \subseteq Nat
  /\ MaxMsg \in Nat \ {0}   \* mq_init() refuses mq_maxmsg <= 0
  /\ MallocFails \in BOOLEAN

VARIABLES
  queue_receive,  \* the message to be returned first, or NULL
  queue_send,     \* the last message of the highest priority, or NULL
  cell,           \* the heap: next_receive, next_send and the message
  curmsgs,        \* mq_curmsgs
  nonblock,       \* O_NONBLOCK in mq_flags
  alive,          \* mq_destroy() has not been called
  pc,             \* where a thread is
  call,           \* the function it called and its arguments
  held,           \* the cell that mq_receive_post() has taken off the list
  saw,            \* the condition variable had waiters at the unlock
  calls           \* the calls made so far

queueVars == <<queue_receive, queue_send, cell, curmsgs, nonblock, alive>>
threadVars == <<pc, call, held, saw, calls>>
vars == <<monitorVars, queueVars, threadVars>>

Pointers == Cells \cup {NULL}
Messages == [priority : Priorities, from : Senders, number : 1 .. MaxCalls]
NoMessage == [priority |-> NULL, from |-> NULL, number |-> NULL]

\* The calls of a thread.  mq_send() and mq_receive() are timed calls whose
\* deadline never comes.
CallsOf(t) ==
  (IF t \in Senders THEN [f : {"timedsend"}, priority : Priorities] ELSE {}) \cup
  (IF t \in Receivers THEN [f : {"timedreceive"}, priority : {NULL}] ELSE {}) \cup
  (IF t \in Setters THEN [f : {"setattr"}, priority : {NULL}] ELSE {})

NoCall == [f |-> "none", priority |-> NULL]

TypeOK ==
  /\ MonitorTypeOK
  /\ queue_receive \in Pointers /\ queue_send \in Pointers
  /\ cell \in [Cells -> [next_receive : Pointers, next_send : Pointers,
                         message : Messages \cup {NoMessage}]]
  /\ curmsgs \in 0 .. MaxMsg
  /\ nonblock \in BOOLEAN /\ alive \in BOOLEAN
  /\ pc \in [Threads -> {"idle", "pre", "loop", "asleep", "expired",
                         "signal_receive", "signal_send", "copy"}]
  /\ \A t \in Threads : call[t] \in CallsOf(t) \cup {NoCall}
  /\ held \in [Threads -> Pointers]
  /\ saw \in [Threads -> BOOLEAN]
  /\ calls \in [Threads -> 0 .. MaxCalls]

FreeCell == [next_receive |-> NULL, next_send |-> NULL, message |-> NoMessage]

\* mq_init().
Init ==
  /\ MonitorInit
  /\ queue_receive = NULL /\ queue_send = NULL
  /\ cell = [m \in Cells |-> FreeCell]
  /\ curmsgs = 0
  /\ nonblock \in BOOLEAN
  /\ alive = TRUE
  /\ pc = [t \in Threads |-> "idle"]
  /\ call = [t \in Threads |-> NoCall]
  /\ held = [t \in Threads |-> NULL]
  /\ saw = [t \in Threads |-> FALSE]
  /\ calls = [t \in Threads |-> 0]

\* Go on; a thread that returns forgets its call.
Goto(t, label) ==
  /\ pc' = [pc EXCEPT ![t] = label]
  /\ call' = [call EXCEPT ![t] = IF label = "idle" THEN NoCall ELSE @]

Sends(t) == call[t].f = "timedsend"
Receives(t) == call[t].f = "timedreceive"

-----------------------------------------------------------------------------
(* The skip list. *)

\* Mutant: the comparison of the priorities is the wrong way round.
Walk_inverted(p) ==
  LET loop[n \in 0 .. Cardinality(Cells)] ==
        IF n = 0 THEN NULL
        ELSE LET q == loop[n - 1]
                 s == IF q = NULL THEN queue_send ELSE cell[q].next_send
             IN  IF s # NULL /\ cell[s].message.priority < p THEN s ELSE q
  IN  loop[Cardinality(Cells)]

\* The scan of mq_send_post() along next_send: the last node it passes, which
\* m_send and m_receive point into, or NULL if they still point to the heads.
Walk(p) ==
  LET loop[n \in 0 .. Cardinality(Cells)] ==
        IF n = 0 THEN NULL
        ELSE LET q == loop[n - 1]
                 s == IF q = NULL THEN queue_send ELSE cell[q].next_send
             IN  IF s # NULL /\ cell[s].message.priority > p THEN s ELSE q
  IN  loop[Cardinality(Cells)]

\* The insertion: behind the last message of the same priority if there is
\* one, otherwise as the first message of its priority.
insert(m, msg) ==
  LET q == Walk(msg.priority)
      send == IF q = NULL THEN queue_send ELSE cell[q].next_send
      receive == IF q = NULL THEN queue_receive ELSE cell[q].next_receive
      same == send # NULL /\ cell[send].message.priority = msg.priority
      new == [message |-> msg,
              next_receive |-> IF same THEN cell[send].next_receive ELSE receive,
              next_send |-> IF same THEN cell[send].next_send ELSE send]
  IN  /\ cell' = [c \in Cells |->
           IF c = m THEN new
           ELSE [cell[c] EXCEPT
             !.next_receive = IF (same /\ c = send) \/ (~same /\ c = q)
                              THEN m ELSE @,
             !.next_send = IF c = q THEN m ELSE @]]
      /\ queue_send' = IF q = NULL THEN m ELSE queue_send
      /\ queue_receive' = IF ~same /\ q = NULL THEN m ELSE queue_receive

\* Mutant: the skip list is not updated when its first message leaves.
extract_keep_send(t) ==
  LET m == queue_receive IN
  /\ queue_receive' = cell[m].next_receive
  /\ held' = [held EXCEPT ![t] = m]
  /\ UNCHANGED <<cell, queue_send>>

\* The extraction of the oldest message in mq_receive_post().
extract(t) ==
  LET m == queue_receive IN
  /\ queue_receive' = cell[m].next_receive
  /\ queue_send' = IF queue_send = m THEN cell[m].next_send ELSE queue_send
  /\ held' = [held EXCEPT ![t] = m]
  /\ UNCHANGED cell

\* The messages in the order of next_receive; those linked by next_send.
Chain(head, next(_)) ==
  LET f[n \in 0 .. Cardinality(Cells)] ==
        IF n = 0 THEN [at |-> head, seq |-> <<>>]
        ELSE IF f[n - 1].at = NULL THEN f[n - 1]
        ELSE [at |-> next(f[n - 1].at), seq |-> Append(f[n - 1].seq, f[n - 1].at)]
  IN  f[Cardinality(Cells)]

NextReceive(m) == cell[m].next_receive
NextSend(m) == cell[m].next_send
Received == Chain(queue_receive, NextReceive)
Lasts == Chain(queue_send, NextSend)

-----------------------------------------------------------------------------
(* The calls. *)

Call(t, c) ==
  /\ alive /\ pc[t] = "idle" /\ calls[t] < MaxCalls
  /\ pc' = [pc EXCEPT ![t] = "pre"]
  /\ call' = [call EXCEPT ![t] = c]
  /\ calls' = [calls EXCEPT ![t] = @ + 1]
  /\ UNCHANGED <<monitorVars, queueVars, held, saw>>

\* Mutant: a sender blocks only once the queue is over its limit.
Blocks_off_by_one(t) == IF Sends(t) THEN curmsgs > MaxMsg ELSE curmsgs <= 0

\* A sender finds the queue full, a receiver finds it empty.
Blocks(t) == IF Sends(t) THEN curmsgs >= MaxMsg ELSE curmsgs <= 0

\* mq_send_pre() and mq_receive_pre(): they return with the mutex unless the
\* call would block and must not (EAGAIN).  A message or buffer of the wrong
\* size (EMSGSIZE) changes nothing.
mq_pre(t) ==
  /\ pc[t] = "pre" /\ call[t].f # "setattr"
  /\ IF Blocks(t) /\ nonblock
     THEN /\ owner = NoThread
          /\ Goto(t, "idle")
          /\ UNCHANGED monitorVars
     ELSE pthread_mutex_lock(t) /\ Goto(t, "loop")
  /\ UNCHANGED <<queueVars, held, saw, calls>>

mq_setattr(t) ==
  /\ pc[t] = "pre" /\ call[t].f = "setattr"
  /\ owner = NoThread
  /\ nonblock' \in BOOLEAN
  /\ Goto(t, "idle")
  /\ UNCHANGED <<monitorVars, queue_receive, queue_send, cell, curmsgs, alive,
                 held, saw, calls>>

\* The loop of mq_send(), mq_receive() and the timed variants.
mq_wait(t) ==
  /\ pc[t] = "loop" /\ Blocks(t)
  /\ pthread_cond_wait(t, IF Sends(t) THEN CondSend ELSE CondReceive)
  /\ Goto(t, "asleep")
  /\ UNCHANGED <<queueVars, held, saw, calls>>

\* Back from the wait; a timed call that timed out fails.
mq_wakeup(t) ==
  /\ pc[t] = "asleep"
  /\ CondReturn(t)
  /\ Goto(t, IF wakeup[t] = "timeout" THEN "expired" ELSE "loop")
  /\ UNCHANGED <<queueVars, held, saw, calls>>

mq_expired(t) ==
  /\ pc[t] = "expired"
  /\ pthread_mutex_unlock(t)
  /\ Goto(t, "idle")
  /\ UNCHANGED <<queueVars, held, saw, calls>>

\* mq_send_post(): allocate and insert, or give up without memory.
mq_send_post(t) ==
  /\ pc[t] = "loop" /\ Sends(t) /\ ~Blocks(t)
  /\ pthread_mutex_unlock(t)
  /\ \/ /\ \E m \in Cells :
             /\ cell[m] = FreeCell
             /\ insert(m, [priority |-> call[t].priority, from |-> t,
                           number |-> calls[t]])
        /\ curmsgs' = curmsgs + 1
        /\ saw' = [saw EXCEPT ![t] = asleep[CondReceive] # {}]
        /\ Goto(t, "signal_receive")
     \/ /\ MallocFails
        /\ Goto(t, "idle")
        /\ UNCHANGED <<queue_receive, queue_send, cell, curmsgs, saw>>
  /\ UNCHANGED <<nonblock, alive, held, calls>>

\* mq_receive_post() up to the unlock.
mq_receive_post(t) ==
  /\ pc[t] = "loop" /\ Receives(t) /\ ~Blocks(t)
  /\ pthread_mutex_unlock(t)
  /\ extract(t)
  /\ curmsgs' = curmsgs - 1
  /\ saw' = [saw EXCEPT ![t] = asleep[CondSend] # {}]
  /\ Goto(t, "signal_send")
  /\ UNCHANGED <<nonblock, alive, calls>>

\* Mutant: a receiver signals the receivers.
mq_signal_swapped(t) ==
  /\ pc[t] \in {"signal_receive", "signal_send"}
  /\ pthread_cond_signal(CondReceive)
  /\ Goto(t, IF pc[t] = "signal_send" THEN "copy" ELSE "idle")
  /\ saw' = [saw EXCEPT ![t] = FALSE]
  /\ UNCHANGED <<queueVars, held, calls>>

\* The signal after the unlock.  The load of __waiters is relaxed: see
\* Semaphore.
mq_signal(t) ==
  /\ pc[t] \in {"signal_receive", "signal_send"}
  /\ \/ pthread_cond_signal(IF pc[t] = "signal_send" THEN CondSend ELSE CondReceive)
     \/ ~saw[t] /\ UNCHANGED monitorVars
  /\ Goto(t, IF pc[t] = "signal_send" THEN "copy" ELSE "idle")
  /\ saw' = [saw EXCEPT ![t] = FALSE]
  /\ UNCHANGED <<queueVars, held, calls>>

\* mq_receive_post() copies the message out and frees it, without the mutex.
mq_copy(t) ==
  /\ pc[t] = "copy"
  /\ cell' = [cell EXCEPT ![held[t]] = FreeCell]
  /\ held' = [held EXCEPT ![t] = NULL]
  /\ Goto(t, "idle")
  /\ UNCHANGED <<monitorVars, queue_receive, queue_send, curmsgs, nonblock,
                 alive, saw, calls>>

Expire(t) ==
  /\ Timeout(t, IF Sends(t) THEN CondSend ELSE CondReceive)
  /\ UNCHANGED <<queueVars, threadVars>>

\* Mutant: the pending messages are not freed.
mq_destroy_leak ==
  /\ alive /\ alive' = FALSE
  /\ \A t \in Threads : pc[t] = "idle"
  /\ queue_receive' = NULL /\ queue_send' = NULL /\ curmsgs' = 0
  /\ UNCHANGED <<monitorVars, cell, nonblock, threadVars>>

\* mq_destroy() frees the pending messages in the order of next_receive, and
\* the queue.  As for every POSIX object no call may be in progress.
mq_destroy ==
  /\ alive /\ alive' = FALSE
  /\ \A t \in Threads : pc[t] = "idle"
  /\ LET r == Received.seq IN
     cell' = [m \in Cells |-> IF \E i \in 1 .. Len(r) : r[i] = m THEN FreeCell
                              ELSE cell[m]]
  /\ queue_receive' = NULL /\ queue_send' = NULL /\ curmsgs' = 0
  /\ UNCHANGED <<monitorVars, nonblock, threadVars>>

Step(t) ==
  \/ mq_pre(t) \/ mq_setattr(t) \/ mq_wait(t) \/ mq_wakeup(t) \/ mq_expired(t)
  \/ mq_send_post(t) \/ mq_receive_post(t) \/ mq_signal(t) \/ mq_copy(t)

Next ==
  \/ \E t \in Threads :
       \/ \E c \in CallsOf(t) : Call(t, c)
       \/ Step(t)
       \/ Expire(t)
  \/ mq_destroy

Spec == Init /\ [][Next]_vars /\ \A t \in Threads : WF_vars(Step(t))

-----------------------------------------------------------------------------
(* Properties. *)

\* The skip list is intact: mq_curmsgs counts the messages, and the messages
\* linked by next_send are exactly the last ones of every priority, in order.
SkipListOK ==
  LET r == Received.seq
      s == Lasts.seq
      last == {i \in 1 .. Len(r) :
                 \A j \in i + 1 .. Len(r) :
                   cell[r[j]].message.priority # cell[r[i]].message.priority}
  IN  /\ Received.at = NULL /\ Lasts.at = NULL
      /\ Len(r) = curmsgs
      /\ Len(s) = Cardinality(last)
      /\ \A i \in last : \E k \in 1 .. Len(s) : s[k] = r[i]
      /\ \A k, n \in 1 .. Len(s) : k < n =>
           cell[s[k]].message.priority > cell[s[n]].message.priority

\* Every cell belongs to the queue, to one receiver that is about to copy it
\* out, or to nobody: nothing leaks and nothing is freed while it is linked.
CellsAccountedFor ==
  LET r == Received.seq IN
  \A m \in Cells :
    LET users == {t \in Threads : held[t] = m}
        linked == \E i \in 1 .. Len(r) : r[i] = m
    IN  /\ Cardinality(users) + (IF linked THEN 1 ELSE 0) <= 1
        /\ cell[m] = FreeCell <=> users = {} /\ ~linked

\* Senders and receivers that will look at the queue again, and threads that
\* are certain to signal.
Rechecking(c) == {t \in Threads :
  /\ IF c = CondSend THEN Sends(t) ELSE Receives(t)
  /\ wakeup[t] = "signal" \/ pc[t] = "loop"}
Signalling(label) == {t \in Threads : pc[t] = label /\ saw[t]}

\* No wakeup is lost: while a receiver sleeps, every message has a wakeup on
\* its way, and while a sender sleeps, every free place has one.
NoLostQueueWakeup ==
  /\ asleep[CondReceive] # {} =>
       curmsgs <= Cardinality(Rechecking(CondReceive))
                  + Cardinality(Signalling("signal_receive"))
  /\ asleep[CondSend] # {} =>
       MaxMsg - curmsgs <= Cardinality(Rechecking(CondSend))
                           + Cardinality(Signalling("signal_send"))

\* Once the callers have finished, no receiver sleeps beside a message and no
\* sender beside a free place.
NobodyLeftAtQueue ==
  <>[]/\ curmsgs = 0 \/ asleep[CondReceive] = {}
      /\ curmsgs = MaxMsg \/ asleep[CondSend] = {}

=============================================================================
