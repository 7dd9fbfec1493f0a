------------------------------- MODULE Fifo -------------------------------
(***************************************************************************)
(* What queue.h promises its caller: a bounded first-in first-out buffer   *)
(* of job pointers, created with a capacity, used, freed.  No array, no    *)
(* index, no wrap-around: the buffer is a sequence.                        *)
(*                                                                         *)
(* Every action leaves in ret what the call handed back, so that an        *)
(* implementation of this module returns the right statuses and jobs and   *)
(* does not merely store the right ones.                                   *)
(***************************************************************************)
EXTENDS Integers, Sequences

CONSTANTS
    Jobs,        \* the job pointers callers hand to queue_add
    NoJob,       \* "no job": the out parameter of a failing queue_remove
    Garbage,     \* what a slot nothing was ever stored in holds
    Capacities   \* the capacities queue_create is called with

VARIABLES
    alive,       \* between queue_create and queue_free
    capacity,    \* the capacity of the live queue
    contents,    \* the jobs in the queue, oldest first
    ret          \* what the last call returned

vars == <<alive, capacity, contents, ret>>

QUEUE_SUCCESS == 1
QUEUE_ERROR == -1

Returns(op, status, job) == ret' = [op |-> op, status |-> status, job |-> job]

Init ==
    /\ alive = FALSE
    /\ capacity = 0
    /\ contents = <<>>
    /\ ret = [op |-> "none", status |-> 0, job |-> NoJob]

Create(c) ==
    /\ ~alive
    /\ alive' = TRUE
    /\ capacity' = c
    /\ contents' = <<>>
    /\ Returns("create", 0, NoJob)

AddOk(j) ==
    /\ alive
    /\ Len(contents) < capacity
    /\ contents' = Append(contents, j)
    /\ Returns("add", QUEUE_SUCCESS, NoJob)
    /\ UNCHANGED <<alive, capacity>>

AddFull ==
    /\ alive
    /\ Len(contents) = capacity
    /\ Returns("add", QUEUE_ERROR, NoJob)
    /\ UNCHANGED <<alive, capacity, contents>>

RemoveOk ==
    /\ alive
    /\ contents # <<>>
    /\ contents' = Tail(contents)
    /\ Returns("remove", QUEUE_SUCCESS, Head(contents))
    /\ UNCHANGED <<alive, capacity>>

RemoveEmpty ==
    /\ alive
    /\ contents = <<>>
    /\ Returns("remove", QUEUE_ERROR, NoJob)
    /\ UNCHANGED <<alive, capacity, contents>>

Capacity ==
    /\ alive
    /\ Returns("capacity", capacity, NoJob)
    /\ UNCHANGED <<alive, capacity, contents>>

CurrentSize ==
    /\ alive
    /\ Returns("size", Len(contents), NoJob)
    /\ UNCHANGED <<alive, capacity, contents>>

\* peek_queue exists "for testing code" only: the buffer promises nothing
\* about the job it shows.
Peek ==
    /\ alive
    /\ \E j \in Jobs \cup {Garbage} : Returns("peek", 0, j)
    /\ UNCHANGED <<alive, capacity, contents>>

Free ==
    /\ alive
    /\ alive' = FALSE
    /\ capacity' = 0
    /\ contents' = <<>>
    /\ Returns("free", 0, NoJob)

Next ==
    \/ \E c \in Capacities : Create(c)
    \/ \E j \in Jobs : AddOk(j)
    \/ AddFull
    \/ RemoveOk
    \/ RemoveEmpty
    \/ Capacity
    \/ CurrentSize
    \/ Peek
    \/ Free

Spec == Init /\ [][Next]_vars
===========================================================================
