------------------------------ MODULE Queue -------------------------------
(***************************************************************************)
(* queue.c: the ring buffer every driver stores its queued jobs in.        *)
(*                                                                         *)
(* One queue goes through queue_create, any legal sequence of calls, and   *)
(* queue_free.  The calls are atomic here because the functions take no    *)
(* lock: they are called by one thread, or under the lock of the driver.   *)
(*                                                                         *)
(* size_t arithmetic has its width: Plus wraps at SizeMax.  The size of    *)
(* the allocation, capacity * sizeof(void* ), is assumed not to wrap       *)
(* (CapacityAssumption), so that the array has capacity slots.             *)
(***************************************************************************)
EXTENDS Integers, Sequences

CONSTANTS
    Jobs,        \* job pointers callers store
    NoJob,       \* the out parameter a failing queue_remove leaves alone
    Garbage,     \* content of malloc'ed memory nothing was stored in
    Capacities,  \* arguments of queue_create
    SizeMax,     \* SIZE_MAX, the largest size_t
    PtrSize      \* sizeof(void* )

\* The capacities the program uses (0, 1 and the buffer sizes of the tests)
\* are far below the size at which the allocation of the slots would wrap.
ASSUME CapacityAssumption ==
    /\ SizeMax \in Nat
    /\ PtrSize \in Nat \ {0}
    /\ PtrSize >= 2
    /\ Capacities \subseteq Nat
    /\ \A c \in Capacities : c * PtrSize <= SizeMax

ASSUME JobAssumption == NoJob \notin Jobs /\ Garbage \notin Jobs

VARIABLES
    alive,       \* between queue_create and queue_free
    capacity,    \* queue->capacity
    size,        \* queue->size
    next,        \* queue->next, the slot of the oldest job
    job,         \* queue->job, the slots
    ret          \* what the last call returned

vars == <<alive, capacity, size, next, job, ret>>

QUEUE_SUCCESS == 1
QUEUE_ERROR == -1

\* a + b in size_t, for a and b that are size_t values
Plus(a, b) == IF a + b > SizeMax THEN a + b - (SizeMax + 1) ELSE a + b

\* queue->job as malloc leaves it
FreshSlots(c) == [s \in 0 .. c - 1 |-> Garbage]

Returns(op, status, j) == ret' = [op |-> op, status |-> status, job |-> j]

Init ==
    /\ alive = FALSE
    /\ capacity = 0
    /\ size = 0
    /\ next = 0
    /\ job = FreshSlots(0)
    /\ ret = [op |-> "none", status |-> 0, job |-> NoJob]

queue_create(c) ==
    /\ ~alive
    /\ alive' = TRUE
    /\ capacity' = c
    /\ size' = 0
    /\ next' = 0
    /\ job' = FreshSlots(c)
    /\ Returns("create", 0, NoJob)

\* Mutant: pos restarts at the first slot instead of wrapping around.
AddSlotRestarts ==
    LET pos == Plus(next, size)
    IN  IF pos >= capacity THEN 0 ELSE pos

\* The slot a new job goes to
AddSlot ==
    LET pos == Plus(next, size)
    IN  IF pos >= capacity THEN pos - capacity ELSE pos

queue_add_stores(j) ==
    /\ alive
    /\ size < capacity
    /\ job' = [job EXCEPT ![AddSlot] = j]
    /\ size' = Plus(size, 1)
    /\ Returns("add", QUEUE_SUCCESS, NoJob)
    /\ UNCHANGED <<alive, capacity, next>>

queue_add_full ==
    /\ alive
    /\ size >= capacity
    /\ Returns("add", QUEUE_ERROR, NoJob)
    /\ UNCHANGED <<alive, capacity, size, next, job>>

\* Mutant: next is allowed to reach the capacity before it wraps.
NextAfterRemoveLate ==
    LET n == Plus(next, 1)
    IN  IF n > capacity THEN n - capacity ELSE n

\* The value of next after a removal
NextAfterRemove ==
    LET n == Plus(next, 1)
    IN  IF n >= capacity THEN n - capacity ELSE n

\* Mutant: the emptiness test that is true of every size_t.
queue_remove_takes_always ==
    /\ alive
    /\ size >= 0
    /\ size' = size - 1
    /\ next' = NextAfterRemove
    /\ Returns("remove", QUEUE_SUCCESS,
               IF next \in DOMAIN job THEN job[next] ELSE Garbage)
    /\ UNCHANGED <<alive, capacity, job>>

queue_remove_takes ==
    /\ alive
    /\ size > 0
    /\ size' = size - 1
    /\ next' = NextAfterRemove
    /\ Returns("remove", QUEUE_SUCCESS, job[next])
    /\ UNCHANGED <<alive, capacity, job>>

queue_remove_empty ==
    /\ alive
    /\ size = 0
    /\ Returns("remove", QUEUE_ERROR, NoJob)
    /\ UNCHANGED <<alive, capacity, size, next, job>>

queue_capacity ==
    /\ alive
    /\ Returns("capacity", capacity, NoJob)
    /\ UNCHANGED <<alive, capacity, size, next, job>>

queue_current_size ==
    /\ alive
    /\ Returns("size", size, NoJob)
    /\ UNCHANGED <<alive, capacity, size, next, job>>

\* The tests peek at indices below the capacity.  The index is the one of a
\* slot, not a position in the queue, so the job may be a removed one.
PeekedJob(index) == job[index]

peek_queue(index) ==
    /\ alive
    /\ Returns("peek", 0, PeekedJob(index))
    /\ UNCHANGED <<alive, capacity, size, next, job>>

queue_free ==
    /\ alive
    /\ alive' = FALSE
    /\ capacity' = 0
    /\ size' = 0
    /\ next' = 0
    /\ job' = FreshSlots(0)
    /\ Returns("free", 0, NoJob)

Next ==
    \/ \E c \in Capacities : queue_create(c)
    \/ \E j \in Jobs : queue_add_stores(j)
    \/ queue_add_full
    \/ queue_remove_takes
    \/ queue_remove_empty
    \/ queue_capacity
    \/ queue_current_size
    \/ \E index \in 0 .. capacity - 1 : peek_queue(index)
    \/ queue_free

Spec == Init /\ [][Next]_vars

---------------------------------------------------------------------------
(* The abstract queue *)

\* The slot of the i-th oldest job
SlotOf(i) ==
    IF next + i - 1 >= capacity THEN next + i - 1 - capacity ELSE next + i - 1

\* The jobs in the queue, oldest first
Contents == [i \in 1 .. size |-> job[SlotOf(i)]]

F == INSTANCE Fifo WITH contents <- Contents

\* The ring buffer implements the first-in first-out buffer: queue_add and
\* queue_remove keep the order and return what they should, also when next
\* and pos wrap around the end of the array and when the capacity is 0.
FifoSpec == F!Spec

---------------------------------------------------------------------------
(* Properties *)

\* The variables have their types; an array has exactly capacity slots.
TypeOK ==
    /\ alive \in BOOLEAN
    /\ capacity \in Capacities \cup {0}
    /\ size \in Nat
    /\ next \in Nat
    /\ job \in [0 .. capacity - 1 -> Jobs \cup {Garbage}]
    /\ ret \in [op : {"none", "create", "add", "remove", "capacity", "size", "peek", "free"},
                status : Int, job : Jobs \cup {NoJob, Garbage}]

\* Every slot queue_add writes and queue_remove reads lies inside the array
\* queue_create allocated, whatever calls came before.
SlotsInBounds ==
    /\ size < capacity => AddSlot \in 0 .. capacity - 1
    /\ size > 0 => next \in 0 .. capacity - 1

\* queue.c:20-21 and queue.h:26-27: "returns QUEUE_SUCCESS if the queue is
\* full. Otherwise, it returns QUEUE_ERROR".  By that comment a call that got
\* QUEUE_ERROR met a queue with room left (a failing call changes nothing).
AddErrorMeansRoom ==
    ret.op = "add" /\ ret.status = QUEUE_ERROR => size < capacity

\* queue.c:72 and queue.h:44: "Peeks at a value in the queue".  For an index
\* below the current size, the job peek_queue shows is one of the queue's.
PeekShowsQueuedJob ==
    \A index \in 0 .. size - 1 :
        \E i \in 1 .. size : PeekedJob(index) = Contents[i]
===========================================================================
