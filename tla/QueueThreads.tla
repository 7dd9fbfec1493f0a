---------------------------- MODULE QueueThreads ---------------------------
(***************************************************************************)
(* queue_add and queue_remove statement by statement, called by several    *)
(* threads on one queue.  queue.c takes no lock, so driver.c must hold one *)
(* around each call (Lock, Unlock: external, driver.c has no bodies).      *)
(* queue_capacity, queue_current_size and peek_queue are called without it *)
(* (test.c, from main), between any two statements of the other threads.   *)
(*                                                                         *)
(* pc[t] is the statement t executes next: "out" of the queue's functions, *)
(* in queue_add at "add", "store" or "grow", in queue_remove at "remove",  *)
(* "shrink", "advance" or "wrap", or on its way back at "unlock".          *)
(***************************************************************************)
EXTENDS Queue

CONSTANTS Thread, Nobody

ASSUME NobodyAssumption == Nobody \notin Thread

VARIABLES
    lock,        \* the thread that has the lock, or Nobody
    pc,          \* the next statement of each thread
    inhand       \* the job t is adding, or has read from its slot

threadVars == <<vars, lock, pc, inhand>>

InitThreads ==
    /\ Init
    /\ lock = Nobody
    /\ pc = [t \in Thread |-> "out"]
    /\ inhand = [t \in Thread |-> NoJob]

At(t, statement) == pc[t] = statement
Goto(t, statement) == pc' = [pc EXCEPT ![t] = statement]

\* Mutant: the caller has no lock, or another one for each operation.
TakesNoLock(t) == lock' = lock

TakesLock(t) == lock = Nobody /\ lock' = t

Lock(t) ==
    /\ alive
    /\ At(t, "out")
    /\ TakesLock(t)
    /\ \/ \E j \in Jobs : inhand' = [inhand EXCEPT ![t] = j] /\ Goto(t, "add")
       \/ UNCHANGED inhand /\ Goto(t, "remove")
    /\ UNCHANGED vars

Unlock(t) ==
    /\ At(t, "unlock")
    /\ Goto(t, "out")
    /\ lock' = Nobody
    /\ UNCHANGED <<vars, inhand>>

---------------------------------------------------------------------------
(* queue_add *)

AddChecks(t) ==
    /\ At(t, "add")
    /\ \/ size >= capacity /\ queue_add_full /\ Goto(t, "unlock")
       \/ size < capacity /\ Goto(t, "store") /\ UNCHANGED vars
    /\ UNCHANGED <<lock, inhand>>

\* Without a lock the slot may have moved out of the array since the check.
Stores(t) ==
    /\ At(t, "store")
    /\ job' = IF AddSlot \in DOMAIN job THEN [job EXCEPT ![AddSlot] = inhand[t]] ELSE job
    /\ Goto(t, "grow")
    /\ UNCHANGED <<alive, capacity, size, next, ret, lock, inhand>>

\* queue->size++ makes the job one of the queue's.
Grows(t) ==
    /\ At(t, "grow")
    /\ size' = Plus(size, 1)
    /\ Returns("add", QUEUE_SUCCESS, NoJob)
    /\ Goto(t, "unlock")
    /\ UNCHANGED <<alive, capacity, next, job, lock, inhand>>

---------------------------------------------------------------------------
(* queue_remove *)

RemoveChecks(t) ==
    /\ At(t, "remove")
    /\ \/ queue_remove_empty /\ Goto(t, "unlock") /\ UNCHANGED inhand
       \/ /\ size > 0
          /\ inhand' = [inhand EXCEPT ![t] =
                           IF next \in DOMAIN job THEN job[next] ELSE Garbage]
          /\ Goto(t, "shrink")
          /\ UNCHANGED vars
    /\ UNCHANGED lock

\* queue->size-- in size_t: it takes the job from the queue.
Shrinks(t) ==
    /\ At(t, "shrink")
    /\ size' = IF size = 0 THEN SizeMax ELSE size - 1
    /\ Returns("remove", QUEUE_SUCCESS, inhand[t])
    /\ Goto(t, "advance")
    /\ UNCHANGED <<alive, capacity, next, job, lock, inhand>>

Advances(t) ==
    /\ At(t, "advance")
    /\ next' = Plus(next, 1)
    /\ Goto(t, "wrap")
    /\ UNCHANGED <<alive, capacity, size, job, ret, lock, inhand>>

Wrapped(n) == IF n >= capacity THEN n - capacity ELSE n

Wraps(t) ==
    /\ At(t, "wrap")
    /\ next' = Wrapped(next)
    /\ Goto(t, "unlock")
    /\ UNCHANGED <<alive, capacity, size, job, ret, lock, inhand>>

---------------------------------------------------------------------------

\* driver_create and driver_destroy are called when no other call is in
\* progress.
MakesOrFrees ==
    /\ \A t \in Thread : At(t, "out")
    /\ (\E c \in Capacities : queue_create(c)) \/ queue_free
    /\ UNCHANGED <<lock, pc, inhand>>

\* The functions that only read, by a thread that has no lock
Reads ==
    /\ \/ queue_capacity
       \/ queue_current_size
       \/ \E index \in 0 .. capacity - 1 : peek_queue(index)
    /\ UNCHANGED <<lock, pc, inhand>>

Step(t) ==
    \/ Lock(t) \/ AddChecks(t) \/ Stores(t) \/ Grows(t)
    \/ RemoveChecks(t) \/ Shrinks(t) \/ Advances(t) \/ Wraps(t) \/ Unlock(t)

NextThreads == MakesOrFrees \/ Reads \/ \E t \in Thread : Step(t)

SpecThreads == InitThreads /\ [][NextThreads]_threadVars

---------------------------------------------------------------------------
(* Properties *)

\* The slot of the oldest job: where next points, or is about to point after
\* a removal that has taken its job already.
Advancing == \E t \in Thread : At(t, "advance")

Front == Wrapped(IF Advancing THEN Plus(next, 1) ELSE next)

\* The jobs in the queue between any two statements, oldest first
ContentsNow ==
    [i \in 1 .. size |->
        LET slot == Wrapped(Front + i - 1)
        IN  IF slot \in DOMAIN job THEN job[slot] ELSE Garbage]

T == INSTANCE Fifo WITH contents <- ContentsNow

\* One lock around each call is enough: the queue is first in first out for
\* all threads together.  A job enters it at size++ and leaves it at size--,
\* so that the size read without the lock is also right at that moment.
FifoForAll == T!Spec

\* Nobody stores to or reads from a slot outside the array, at whichever
\* statement the other threads are.
ThreadsInBounds ==
    \A t \in Thread :
        /\ At(t, "store") => AddSlot \in DOMAIN job
        /\ At(t, "remove") /\ size > 0 => next \in DOMAIN job
===========================================================================
