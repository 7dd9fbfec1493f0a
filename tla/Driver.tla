------------------------------- MODULE Driver ------------------------------
(***************************************************************************)
(* The bounded channel of driver.h.  The functions of driver.c have empty  *)
(* bodies, so this is what their callers, test.c and stress.c, rely on.    *)
(*                                                                         *)
(* A blocking call is a select with one option.  A thread enters a call    *)
(* and returns from it in two steps, with those of other threads in        *)
(* between; a non-blocking call is one step.  On a queued driver a call    *)
(* goes through the queue; on an unqueued one (size 0) it needs a blocked  *)
(* call of the opposite kind, and both return in the same step.            *)
(***************************************************************************)
EXTENDS Integers, FiniteSets, SequencesExt, Functions

CONSTANTS
    Thread,      \* the threads that call the driver
    Drivers,     \* the drivers driver_create made
    Jobs,        \* the jobs they schedule, NULL among them
    NoJob        \* the job of a HANDLE option before the call

ASSUME JobAssumption == NoJob \notin Jobs

VARIABLES
    size,        \* size[d]: the argument of driver_create
    queue,       \* the jobs in d's queue
    state,       \* "open", "closed" or "destroyed"
    call,        \* call[t]: the options of the call t is in, <<>> in none
    returned     \* returned[t]: what t's calls returned

driverVars == <<size, queue, state, call, returned>>

DRIVER_REQUEST_EMPTY == 0
DRIVER_REQUEST_FULL == 0
SUCCESS == 1
DRIVER_CLOSED_ERROR == -2
DRIVER_GEN_ERROR == -1
DRIVER_DESTROY_ERROR == -3

select_t ==
    [driver : Drivers, op : {"SCHDLE"}, job : Jobs]
      \cup [driver : Drivers, op : {"HANDLE"}, job : {NoJob}]

SCHDLE(d, j) == [driver |-> d, op |-> "SCHDLE", job |-> j]
HANDLE(d) == [driver |-> d, op |-> "HANDLE", job |-> NoJob]

\* What a call returned by way of its i-th option o: its status, selected_index
\* and the job that went through the driver
Result(o, i, out, j) ==
    [driver |-> o.driver, op |-> o.op, index |-> i - 1, out |-> out, job |-> j]

driver_create(sizes) ==
    /\ size = sizes
    /\ queue = [d \in Drivers |-> <<>>]
    /\ state = [d \in Drivers |-> "open"]
    /\ call = [t \in Thread |-> <<>>]
    /\ returned = [t \in Thread |-> <<>>]

---------------------------------------------------------------------------
(* Which option a call takes *)

\* The calls that an unqueued driver can match with option o of t: each
\* takes part with the first of its options that fits.
Partners(o, t) ==
    {u \in Thread \ {t} : \E i \in DOMAIN call[u] :
        call[u][i].driver = o.driver /\ call[u][i].op # o.op}

PartnerIndex(o, u) ==
    CHOOSE i \in DOMAIN call[u] :
        /\ call[u][i].driver = o.driver /\ call[u][i].op # o.op
        /\ \A k \in 1 .. i - 1 : call[u][k].driver = o.driver => call[u][k].op = o.op

\* Mutant: one job more than the driver was created for.
HasRoomForOneMore(d) == size[d] > 0 /\ Len(queue[d]) <= size[d]

HasRoom(d) == Len(queue[d]) < size[d]

\* Mutant: driver_close does not wake the calls that wait.
ReadyUnlessClosed(o, t) ==
    /\ state[o.driver] = "open"
    /\ \/ o.op = "SCHDLE" /\ HasRoom(o.driver)
       \/ o.op = "HANDLE" /\ queue[o.driver] # <<>>
       \/ size[o.driver] = 0 /\ Partners(o, t) # {}

\* Option o of a call of t does not, or no longer, block.
Ready(o, t) ==
    \/ state[o.driver] = "closed"
    \/ o.op = "SCHDLE" /\ HasRoom(o.driver)
    \/ o.op = "HANDLE" /\ queue[o.driver] # <<>>
    \/ size[o.driver] = 0 /\ Partners(o, t) # {}

\* Mutant: the last available option of the list.
TakesLast(list, t, i) ==
    /\ Ready(list[i], t)
    /\ \A k \in i + 1 .. Len(list) : ~Ready(list[k], t)

\* driver_select takes the first available option of the list.
Takes(list, t, i) ==
    /\ Ready(list[i], t)
    /\ \A k \in 1 .. i - 1 : ~Ready(list[k], t)

---------------------------------------------------------------------------
(* The calls *)

\* t is no longer in a call, which returned r.
Return(t, r) ==
    /\ call' = [call EXCEPT ![t] = <<>>]
    /\ returned' = [returned EXCEPT ![t] = Append(@, r)]

OnClosed(t, o, i) ==
    /\ state[o.driver] = "closed"
    /\ Return(t, Result(o, i, DRIVER_CLOSED_ERROR, NoJob))
    /\ UNCHANGED queue

ThroughQueue(t, o, i) ==
    /\ state[o.driver] = "open" /\ size[o.driver] > 0
    /\ IF o.op = "SCHDLE"
         THEN /\ queue' = [queue EXCEPT ![o.driver] = Append(@, o.job)]
              /\ Return(t, Result(o, i, SUCCESS, o.job))
         ELSE /\ queue' = [queue EXCEPT ![o.driver] = Tail(@)]
              /\ Return(t, Result(o, i, SUCCESS, Head(queue[o.driver])))

\* The job two options hand over
Handed(o, p) == IF o.op = "SCHDLE" THEN o.job ELSE p.job

\* Mutant: the call that waited is not taken off the driver.
MeetLeavesWaiter(t, o, i, u) ==
    LET k == PartnerIndex(o, u)
    IN  /\ state[o.driver] = "open" /\ size[o.driver] = 0
        /\ Return(t, Result(o, i, SUCCESS, Handed(o, call[u][k])))
        /\ UNCHANGED queue

Meet(t, o, i, u) ==
    LET k == PartnerIndex(o, u)
        p == call[u][k]
    IN  /\ state[o.driver] = "open" /\ size[o.driver] = 0
        /\ call' = [call EXCEPT ![t] = <<>>, ![u] = <<>>]
        /\ returned' = [returned EXCEPT
              ![t] = Append(@, Result(o, i, SUCCESS, Handed(o, p))),
              ![u] = Append(@, Result(p, k, SUCCESS, Handed(o, p)))]
        /\ UNCHANGED queue

\* t's call returns by way of option i of list.
Perform(t, list, i) ==
    /\ Takes(list, t, i)
    /\ \/ OnClosed(t, list[i], i)
       \/ ThroughQueue(t, list[i], i)
       \/ \E u \in Partners(list[i], t) : Meet(t, list[i], i, u)
    /\ UNCHANGED <<size, state>>

\* driver_schedule, driver_handle and driver_select ...
Enter(t, list) ==
    /\ call[t] = <<>>
    /\ call' = [call EXCEPT ![t] = list]
    /\ UNCHANGED <<size, queue, state, returned>>

\* ... return when one of their options does not block.
Leave(t) == \E i \in DOMAIN call[t] : Perform(t, call[t], i)

\* driver_non_blocking_schedule and driver_non_blocking_handle
Try(t, o) ==
    /\ call[t] = <<>>
    /\ \/ Perform(t, <<o>>, 1)
       \/ /\ ~Ready(o, t)
          /\ Return(t, Result(o, 1, IF o.op = "SCHDLE" THEN DRIVER_REQUEST_FULL
                                    ELSE DRIVER_REQUEST_EMPTY, NoJob))
          /\ UNCHANGED <<size, queue, state>>

\* driver_close(d), which wakes every call on d, and driver_destroy(d)
Change(t, d, from, to, error) ==
    /\ call[t] = <<>>
    /\ state' = [state EXCEPT ![d] = IF @ = from THEN to ELSE @]
    /\ Return(t, Result([driver |-> d, op |-> to], 1,
                        IF state[d] = from THEN SUCCESS ELSE error, NoJob))
    /\ UNCHANGED <<size, queue>>

driver_close(t, d) == Change(t, d, "open", "closed", DRIVER_GEN_ERROR)
driver_destroy(t, d) == Change(t, d, "closed", "destroyed", DRIVER_DESTROY_ERROR)

---------------------------------------------------------------------------
(* Clients that make any calls, in any order *)

driver_select_any(t) == \E list \in Seq(select_t) : list # <<>> /\ Enter(t, list)
non_blocking_any(t) == \E o \in select_t : Try(t, o)
close_or_destroy_any(t) ==
    \E d \in Drivers : driver_close(t, d) \/ driver_destroy(t, d)

Client(t) ==
    \/ driver_select_any(t)
    \/ Leave(t)
    \/ non_blocking_any(t)
    \/ close_or_destroy_any(t)

ClientInit == \E sizes \in [Drivers -> Nat] : driver_create(sizes)
ClientSpec == ClientInit /\ [][\E t \in Thread : Client(t)]_driverVars

---------------------------------------------------------------------------
(* Properties *)

Returns ==
    [driver : Drivers, op : {"SCHDLE", "HANDLE", "closed", "destroyed"},
     index : Nat, out : Int, job : Jobs \cup {NoJob}]

\* The variables have their types, and no queue holds more jobs than its
\* driver was created for.
DriverTypeOK ==
    /\ size \in [Drivers -> Nat]
    /\ queue \in [Drivers -> Seq(Jobs)]
    /\ \A d \in Drivers : Len(queue[d]) <= size[d]
    /\ state \in [Drivers -> {"open", "closed", "destroyed"}]
    /\ call \in [Thread -> Seq(select_t)]
    /\ returned \in [Thread -> Seq(Returns)]

Succeeds(r, d, op, j) == r.driver = d /\ r.op = op /\ r.out = SUCCESS /\ r.job = j

\* The calls with operation op on d that succeeded with job j
Succeeded(results, d, op, j) ==
    UNION {{<<t, i>> : i \in {k \in DOMAIN results[t] : Succeeds(results[t][k], d, op, j)}}
             : t \in Thread}

\* A job whose schedule succeeded is in the queue or went to exactly one
\* handle, by whichever kinds of call it came and went.
HandledOnce ==
    \A d \in Drivers, j \in Jobs :
        Cardinality(Succeeded(returned, d, "SCHDLE", j)) =
            Cardinality(Succeeded(returned, d, "HANDLE", j))
              + Cardinality({i \in DOMAIN queue[d] : queue[d][i] = j})
===========================================================================
