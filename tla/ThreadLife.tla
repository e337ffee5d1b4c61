----------------------------- MODULE ThreadLife -----------------------------
(***************************************************************************)
(* The life of a thread and of its handle: pthread_create(), thread_entry, *)
(* pthread_join(), pthread_detach() and pthread_exit().                    *)
(*                                                                         *)
(* The handle lies on top of the thread's own stack, so freeing one frees  *)
(* the other.  Its word `join' is a lock that the thread holds for writing *)
(* while it lives, and that the kernel releases when the thread is gone.   *)
(* A joinable thread's handle has two references, the thread's own and the *)
(* one that pthread_join() or pthread_detach() uses up.  A thread cannot   *)
(* free its own stack: a detached one leaves its handle in                 *)
(* previous_detached_thread, for the next one that exits.                  *)
(***************************************************************************)
EXTENDS Integers, FiniteSets

CONSTANTS
  Main,      \* the initial thread
  Kids,      \* the threads that may be created, each at most once
  NoThread,
  Dead       \* the static dead_thread, which nobody has to wait for

Threads == Kids \cup {Main}
Handles == Threads \cup {Dead}

ASSUME LifeAssumption ==
  /\ IsFiniteSet(Kids) /\ Main \notin Kids
  /\ NoThread \notin Threads /\ Dead \notin Threads \cup {NoThread}

VARIABLES
  mem,       \* the memory of a handle and its stack
  join,      \* the lock word `join' of a handle
  sleeper,   \* the threads suspended on that lock
  refcount,  \* the reference count of a handle
  stored,    \* return_value was stored
  num_threads,               \* __pthread_num_threads
  previous_detached_thread,
  pc,        \* where a thread is
  arg,       \* the handle that pthread_create() or pthread_join() works on
  cont,      \* where a thread goes on after pthread_join()
  published, \* handles that pthread_create() has returned
  claimed,   \* handles that nobody may join or detach (again)
  exited     \* the process has called exit()

handleVars == <<mem, join, sleeper, refcount, stored>>
vars == <<handleVars, num_threads, previous_detached_thread, pc, arg, cont,
          published, claimed, exited>>

\* A lock word: its writer, CLOUDABI_LOCK_KERNEL_MANAGED and its readers.
Word(wr, km, rd) == [wr |-> wr, km |-> km, rd |-> rd]
Unlocked == Word(NoThread, FALSE, 0)
Bogus == Word(NoThread, TRUE, 0)   \* CLOUDABI_LOCK_BOGUS

TypeOK ==
  /\ mem \in [Handles -> {"none", "live", "freed"}]
  /\ join \in [Handles -> [wr : Threads \cup {NoThread}, km : BOOLEAN, rd : 0 .. 1]]
  /\ sleeper \in [Handles -> SUBSET Threads]
  /\ refcount \in [Handles -> 0 .. 2]
  /\ stored \in [Handles -> BOOLEAN]
  /\ num_threads \in 0 .. Cardinality(Threads)
  /\ previous_detached_thread \in Handles
  /\ pc \in [Threads -> {"none", "entry", "run", "spawn", "create_cas",
                         "join", "poll", "sleep", "free", "exit", "exit_ref",
                         "exit_swap", "exit_store", "exit_sys", "dead"}]
  /\ arg \in [Threads -> Handles]
  /\ cont \in [Threads -> {"run", "exit_store"}]
  /\ published \subseteq Threads /\ claimed \subseteq Threads
  /\ exited \in BOOLEAN

\* The initial thread has a handle like the others, made by the startup code.
Init ==
  /\ mem = [h \in Handles |-> IF h \in Kids THEN "none" ELSE "live"]
  /\ join = [h \in Handles |-> IF h = Main THEN Word(Main, FALSE, 0) ELSE Unlocked]
  /\ sleeper = [h \in Handles |-> {}]
  /\ refcount = [h \in Handles |-> IF h = Main THEN 2 ELSE 0]
  /\ stored = [h \in Handles |-> FALSE]
  /\ num_threads = 1
  /\ previous_detached_thread = Dead
  /\ pc = [t \in Threads |-> IF t = Main THEN "run" ELSE "none"]
  /\ arg = [t \in Threads |-> Dead]
  /\ cont = [t \in Threads |-> "run"]
  /\ published = {Main} /\ claimed = {}
  /\ exited = FALSE

Goto(t, label) == pc' = [pc EXCEPT ![t] = label]

\* Go on after pthread_create() or pthread_join().
Return(t, label) ==
  /\ Goto(t, label)
  /\ arg' = [arg EXCEPT ![t] = Dead]
  /\ cont' = [cont EXCEPT ![t] = "run"]

-----------------------------------------------------------------------------
(* Creating a thread. *)

\* Mutant: a joinable thread starts with one reference.
pthread_create_one_ref(t, h, detach) ==
  /\ pc[t] = "run" /\ mem[h] = "none"
  /\ mem' = [mem EXCEPT ![h] = "live"]
  /\ join' = [join EXCEPT ![h] = Bogus]
  /\ refcount' = [refcount EXCEPT ![h] = 1]
  /\ num_threads' = num_threads + 1
  /\ claimed' = IF detach THEN claimed \cup {h} ELSE claimed
  /\ arg' = [arg EXCEPT ![t] = h]
  /\ Goto(t, "spawn")
  /\ UNCHANGED <<sleeper, stored, previous_detached_thread, cont, published, exited>>

\* pthread_create() up to the system call: the handle and its references.
pthread_create(t, h, detach) ==
  /\ pc[t] = "run" /\ mem[h] = "none"
  /\ mem' = [mem EXCEPT ![h] = "live"]
  /\ join' = [join EXCEPT ![h] = Bogus]
  /\ refcount' = [refcount EXCEPT ![h] = IF detach THEN 1 ELSE 2]
  /\ num_threads' = num_threads + 1
  /\ claimed' = IF detach THEN claimed \cup {h} ELSE claimed
  /\ arg' = [arg EXCEPT ![t] = h]
  /\ Goto(t, "spawn")
  /\ UNCHANGED <<sleeper, stored, previous_detached_thread, cont, published, exited>>

\* Mutant: a failed system call leaves the thread counted.
sys_thread_create_fails_counted(t) ==
  /\ pc[t] = "spawn"
  /\ mem' = [mem EXCEPT ![arg[t]] = "freed"]
  /\ Return(t, "run")
  /\ UNCHANGED <<join, sleeper, refcount, stored, num_threads,
                 previous_detached_thread, published, claimed, exited>>

\* The system call fails: everything is undone.
sys_thread_create_fails(t) ==
  /\ pc[t] = "spawn"
  /\ mem' = [mem EXCEPT ![arg[t]] = "freed"]
  /\ num_threads' = num_threads - 1
  /\ Return(t, "run")
  /\ UNCHANGED <<join, sleeper, refcount, stored, previous_detached_thread,
                 published, claimed, exited>>

\* The new thread starts, before or after its creator goes on.
sys_thread_create(t) ==
  /\ pc[t] = "spawn"
  /\ pc' = [pc EXCEPT ![t] = "create_cas", ![arg[t]] = "entry"]
  /\ UNCHANGED <<handleVars, num_threads, previous_detached_thread, arg, cont,
                 published, claimed, exited>>

\* Creator and thread both try to make the thread the owner of `join'.
OwnJoin(h) ==
  join' = [join EXCEPT ![h] = IF @ = Bogus THEN Word(h, FALSE, 0) ELSE @]

\* Mutant: the thread relies on its creator.
thread_entry_no_cas(h) ==
  /\ pc[h] = "entry"
  /\ Goto(h, "run")
  /\ UNCHANGED <<handleVars, num_threads, previous_detached_thread, arg, cont,
                 published, claimed, exited>>

thread_entry(h) ==
  /\ pc[h] = "entry"
  /\ OwnJoin(h)
  /\ Goto(h, "run")
  /\ UNCHANGED <<mem, sleeper, refcount, stored, num_threads,
                 previous_detached_thread, arg, cont, published, claimed, exited>>

\* pthread_create() returns the handle.  If the handle is gone by now, what the
\* exchange hits is beyond this model: see CreatorFindsHandle.
create_cas(t) ==
  /\ pc[t] = "create_cas"
  /\ IF mem[arg[t]] = "live" THEN OwnJoin(arg[t]) ELSE UNCHANGED join
  /\ published' = published \cup {arg[t]}
  /\ Return(t, "run")
  /\ UNCHANGED <<mem, sleeper, refcount, stored, num_threads,
                 previous_detached_thread, claimed, exited>>

-----------------------------------------------------------------------------
(* Joining and detaching. *)

\* A caller joins or detaches a handle that it can know, once.
MayUse(t, h) ==
  /\ pc[t] = "run" /\ h \notin claimed
  /\ h \in published \/ (h = t /\ pc[h] = "run")

Join(t, h, next) ==
  /\ arg' = [arg EXCEPT ![t] = h]
  /\ cont' = [cont EXCEPT ![t] = next]
  /\ Goto(t, "join")

pthread_join(t, h) ==
  /\ MayUse(t, h) /\ h # t
  /\ claimed' = claimed \cup {h}
  /\ Join(t, h, "run")
  /\ UNCHANGED <<handleVars, num_threads, previous_detached_thread, published, exited>>

\* Mutant: detaching a thread that is already exiting is not noticed.
pthread_detach_forgets(t, h) ==
  /\ MayUse(t, h)
  /\ claimed' = claimed \cup {h}
  /\ refcount' = [refcount EXCEPT ![h] = @ - 1]
  /\ UNCHANGED <<mem, join, sleeper, stored, num_threads, pc, arg, cont,
                 previous_detached_thread, published, exited>>

\* Give up the second reference; if the thread has given up its own already,
\* join it.
pthread_detach(t, h) ==
  /\ MayUse(t, h)
  /\ claimed' = claimed \cup {h}
  /\ refcount' = [refcount EXCEPT ![h] = @ - 1]
  /\ IF refcount[h] = 1 THEN Join(t, h, "run") ELSE UNCHANGED <<pc, arg, cont>>
  /\ UNCHANGED <<mem, join, sleeper, stored, num_threads,
                 previous_detached_thread, published, exited>>

\* Mutant: pthread_join() takes a managed lock for a released one.
join_load_no_wait(t) ==
  /\ pc[t] = "join"
  /\ Goto(t, "free")
  /\ UNCHANGED <<handleVars, num_threads, previous_detached_thread, arg, cont,
                 published, claimed, exited>>

\* pthread_join() looks at the word.
join_load(t) ==
  /\ pc[t] = "join"
  /\ Goto(t, IF join[arg[t]].wr # NoThread THEN "poll" ELSE "free")
  /\ UNCHANGED <<handleVars, num_threads, previous_detached_thread, arg, cont,
                 published, claimed, exited>>

\* cloudabi_sys_poll() for a read lock.
join_poll(t) ==
  /\ pc[t] = "poll"
  /\ LET h == arg[t] IN
     IF join[h].wr = NoThread /\ ~join[h].km
     THEN /\ join' = [join EXCEPT ![h].rd = @ + 1]
          /\ Goto(t, "free")
          /\ UNCHANGED sleeper
     ELSE /\ join' = [join EXCEPT ![h].km = TRUE]
          /\ sleeper' = [sleeper EXCEPT ![h] = @ \cup {t}]
          /\ Goto(t, "sleep")
  /\ UNCHANGED <<mem, refcount, stored, num_threads, previous_detached_thread,
                 arg, cont, published, claimed, exited>>

\* Fetch the return value and free the stacks; those of the initial thread and
\* of dead_thread are null pointers.
join_free(t) ==
  /\ pc[t] = "free"
  /\ mem' = [mem EXCEPT ![arg[t]] = IF arg[t] \in Kids THEN "freed" ELSE @]
  /\ Return(t, cont[t])
  /\ UNCHANGED <<join, sleeper, refcount, stored, num_threads,
                 previous_detached_thread, published, claimed, exited>>

-----------------------------------------------------------------------------
(* The end of a thread. *)

\* pthread_exit() up to the point where the thread no longer counts: the last
\* thread ends the process.
pthread_exit(t) ==
  /\ pc[t] = "run"
  /\ num_threads' = num_threads - 1
  /\ exited' = (num_threads = 1)
  /\ Goto(t, "exit_ref")
  /\ UNCHANGED <<handleVars, previous_detached_thread, arg, cont, published, claimed>>

\* Give up the thread's own reference.
exit_ref(t) ==
  /\ pc[t] = "exit_ref"
  /\ refcount' = [refcount EXCEPT ![t] = @ - 1]
  /\ Goto(t, IF refcount[t] = 1 THEN "exit_swap" ELSE "exit_store")
  /\ UNCHANGED <<mem, join, sleeper, stored, num_threads, arg, cont,
                 previous_detached_thread, published, claimed, exited>>

\* Mutant: the thread joins what it has just stored.
exit_swap_new_value(t) ==
  /\ pc[t] = "exit_swap"
  /\ previous_detached_thread' = t
  /\ Join(t, t, "exit_store")
  /\ UNCHANGED <<handleVars, num_threads, published, claimed, exited>>

\* A detached thread leaves its handle to the next one and joins the last one.
exit_swap(t) ==
  /\ pc[t] = "exit_swap"
  /\ previous_detached_thread' = t
  /\ Join(t, previous_detached_thread, "exit_store")
  /\ UNCHANGED <<handleVars, num_threads, published, claimed, exited>>

exit_store(t) ==
  /\ pc[t] = "exit_store"
  /\ stored' = [stored EXCEPT ![t] = TRUE]
  /\ Goto(t, "exit_sys")
  /\ UNCHANGED <<mem, join, sleeper, refcount, num_threads, arg, cont,
                 previous_detached_thread, published, claimed, exited>>

\* cloudabi_sys_thread_exit(): the kernel takes the thread off its stack and
\* then releases the lock.
sys_thread_exit(t) ==
  /\ pc[t] = "exit_sys"
  /\ join' = [join EXCEPT ![t] = Word(NoThread, FALSE, Cardinality(sleeper[t]))]
  /\ sleeper' = [sleeper EXCEPT ![t] = {}]
  /\ pc' = [u \in Threads |->
              IF u = t THEN "dead" ELSE IF u \in sleeper[t] THEN "free" ELSE pc[u]]
  /\ UNCHANGED <<mem, refcount, stored, num_threads, arg, cont,
                 previous_detached_thread, published, claimed, exited>>

-----------------------------------------------------------------------------
\* What the program decides.
Call(t) ==
  \/ \E h \in Kids, detach \in BOOLEAN : pthread_create(t, h, detach)
  \/ \E h \in Threads : pthread_join(t, h) \/ pthread_detach(t, h)
  \/ pthread_exit(t)

\* What the library and the kernel do.
Step(t) ==
  \/ sys_thread_create(t) \/ sys_thread_create_fails(t) \/ thread_entry(t)
  \/ create_cas(t) \/ join_load(t) \/ join_poll(t) \/ join_free(t)
  \/ exit_ref(t) \/ exit_swap(t) \/ exit_store(t) \/ sys_thread_exit(t)

Next == ~exited /\ \E t \in Threads : Call(t) \/ Step(t)

\* A thread inside the library that is not suspended keeps running.
Spec == Init /\ [][Next]_vars /\ \A t \in Threads : WF_vars(~exited /\ Step(t))

-----------------------------------------------------------------------------
(* Properties. *)

Started(t) == pc[t] \notin {"none", "dead"}
Joining(t) == pc[t] \in {"join", "poll", "sleep", "free"}

\* Nobody frees the stack of a thread that still runs on it.
StackOutlivesThread == \A h \in Kids : Started(h) => mem[h] = "live"

\* A handle is joined by one thread at a time, exists as long as that takes,
\* and is freed when the thread has stored its value and is gone.
JoinIsExclusive ==
  \A t \in Threads :
    Joining(t) /\ arg[t] # Dead =>
      /\ mem[arg[t]] = "live"
      /\ \A u \in Threads \ {t} : Joining(u) => arg[u] # arg[t]
      /\ pc[t] = "free" => pc[arg[t]] = "dead" /\ stored[arg[t]]

\* The assertions: pthread_join() finds neither a managed lock ("Corrupt
\* pthread_t handle") nor the initial word, and no other reference ("Object is
\* still referenced multiple times").
AssertsHold ==
  \A t \in Threads :
    /\ pc[t] = "join" => ~join[arg[t]].km
    /\ pc[t] = "free" => refcount[arg[t]] <= 1

\* The stack of a detached thread is in previous_detached_thread or in the
\* hands of one thread that joins it: no more than one is left over.
DetachedNotLeaked ==
  \A h \in Kids :
    pc[h] = "dead" /\ mem[h] = "live" /\ refcount[h] = 0 =>
      \/ previous_detached_thread = h
      \/ \E t \in Threads : Joining(t) /\ arg[t] = h

\* The process ends when, and not before, no thread is left in the program.
ProcessEndsWithLastThread ==
  exited <=> \A t \in Threads :
               pc[t] \in {"none", "exit_ref", "exit_swap", "exit_store",
                          "exit_sys", "dead"} \/ cont[t] = "exit_store"

\* The chain of detached threads that wait for each other comes to an end: a
\* thread that exits dies, unless the process ends first.
ExitingThreadDies ==
  \A t \in Threads : pc[t] = "exit_ref" ~> pc[t] = "dead" \/ exited

\* pthread_create() still has the handle when it initialises "the lock object
\* used for joining".
CreatorFindsHandle ==
  \A t \in Threads : pc[t] = "create_cas" => mem[arg[t]] = "live"

=============================================================================
