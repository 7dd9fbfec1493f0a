----------------------------- MODULE DriverTests ---------------------------
(***************************************************************************)
(* test.c: clients of the driver.  A test is the program of its main       *)
(* thread; the threads it creates make one call each (helper_schedule and  *)
(* its siblings).  One run of the module is one test; a mu_assert that     *)
(* does not hold, or an expected result that a call does not return,       *)
(* makes passed FALSE.                                                     *)
(*                                                                         *)
(* Where a test starts ten or two hundred equal threads there are two to   *)
(* nine here.  The CPU and response times are left out.                    *)
(***************************************************************************)
EXTENDS Driver

Children == 1 .. 9

ASSUME ThreadAssumption ==
    Thread = {0} \cup Children /\ Drivers = 1 .. 3
    /\ Jobs = {"Message", "Message1", "Message2", "Message3", "Message4",
                "Message5", "NULL"}

VARIABLES
    test,      \* the test that runs
    at,        \* the next step of its main thread, 0
    todo,      \* todo[c]: the call child c is created for and has not made
    awaited,   \* how often main returned from sem_wait
    passed     \* no mu_assert has failed

vars == <<driverVars, test, at, todo, awaited, passed>>

---------------------------------------------------------------------------
(* The steps of a main thread *)

Create(c, list) == [do |-> "create", child |-> c, todo |-> list, blocks |-> TRUE]
CreateTry(c, o) == [do |-> "create", child |-> c, todo |-> <<o>>, blocks |-> FALSE]
Join(c) == [do |-> "join", child |-> c]
SemWait == [do |-> "wait"]
\* A usleep the test does not depend on, and one that it needs to be long
\* enough for the threads it created to block or return
Usleep == [do |-> "sleep", settles |-> FALSE]
UsleepEnough == [do |-> "sleep", settles |-> TRUE]
Call(list, expected) == [do |-> "call", list |-> list, expected |-> expected]
TryCall(o, expected) == [do |-> "try", option |-> o, expected |-> expected]
Close(d, expected) == [do |-> "close", driver |-> d, expected |-> expected]
Destroy(d, expected) == [do |-> "destroy", driver |-> d, expected |-> expected]
\* mu_assert that the queue of d has n jobs, that it has room for n, that
\* peek_queue shows these (in the tests that peek, slots are positions: nothing
\* was removed before, or all slots are equal), that n of the children cs have
\* returned one of the expected results, or that the calls of n of them have
\* written a job into the i-th entry of their select_list
Peeked(d, jobs) == [do |-> "peeked", driver |-> d, jobs |-> jobs]
Queued(d, n) == [do |-> "queued", driver |-> d, n |-> n]
Sized(d, n) == [do |-> "sized", driver |-> d, n |-> n]
Returned(cs, expected, n) ==
    [do |-> "returned", children |-> cs, expected |-> expected, n |-> n]
Written(cs, i, n) == [do |-> "written", children |-> cs, index |-> i, n |-> n]

\* Sets of expected results: status, selected_index, job
Outcome(out, indices, jobs) == {out} \X indices \X jobs
Success(jobs) == Outcome(SUCCESS, 0 .. 2, jobs)
Chosen(i, j) == Outcome(SUCCESS, {i}, {j})
Fails(out) == Outcome(out, 0 .. 2, {NoJob})
Anything == {-3, -2, -1, 0, 1} \X (0 .. 2) \X (Jobs \cup {NoJob})
Ok == Success(Jobs)

Do(o, expected) == Call(<<o>>, expected)
Times(n, s) == [i \in 1 .. n |-> s]
CreateAll(n, list) == [c \in 1 .. n |-> Create(c, list)]
JoinAll(n) == [c \in 1 .. n |-> Join(c)]
CloseAndDestroy(n) ==
    FlattenSeq([d \in 1 .. n |-> <<Close(d, Anything), Destroy(d, Anything)>>])

---------------------------------------------------------------------------
(* The tests: the sizes of the three drivers and the steps of main *)

test_initialization ==
    [sizes |-> <<2, 0, 0>>, steps |-> <<Queued(1, 0), Sized(1, 2)>> \o CloseAndDestroy(1)]

test_schedule_correctness ==
    [sizes |-> <<2, 0, 0>>, steps |->
       <<Create(1, <<SCHDLE(1, "Message1")>>), SemWait, Peeked(1, <<"Message1">>),
         Returned({1}, Ok, 1), Create(2, <<SCHDLE(1, "Message2")>>), SemWait,
         Peeked(1, <<"Message1", "Message2">>), Returned({2}, Ok, 1),
         Create(3, <<SCHDLE(1, "Message3")>>), Usleep,
         Peeked(1, <<"Message1", "Message2">>), Returned({3}, Anything, 0),
         Do(HANDLE(1), Anything)>> \o JoinAll(3)
       \o Times(2, Do(HANDLE(1), Anything)) \o Times(2, Do(SCHDLE(1, "NULL"), Anything))
       \o <<Peeked(1, <<"NULL", "NULL">>)>> \o CloseAndDestroy(1)]

test_handle_correctness ==
    [sizes |-> <<2, 0, 0>>, steps |->
       <<Do(SCHDLE(1, "Message4"), Anything), Do(SCHDLE(1, "Message5"), Anything),
         Do(HANDLE(1), Chosen(0, "Message4")), Queued(1, 1),
         Do(HANDLE(1), Chosen(0, "Message5")), Queued(1, 0)>>
       \o CreateAll(2, <<HANDLE(1)>>)
       \o <<Usleep, Queued(1, 0), Returned({1, 2}, Anything, 0),
            Do(SCHDLE(1, "Message1"), Anything), SemWait, Returned({1, 2}, Ok, 1),
            Returned({1, 2}, Chosen(0, "Message1"), 1),
            Do(SCHDLE(1, "Message2"), Anything), SemWait, Returned({1, 2}, Ok, 2),
            Returned({1, 2}, Chosen(0, "Message2"), 1)>> \o JoinAll(2)
       \o <<Do(SCHDLE(1, "NULL"), Anything), Do(HANDLE(1), Chosen(0, "NULL"))>>
       \o CloseAndDestroy(1)]

\* test_overall_schedule_handle, and with an unqueued driver test_zero_queue
test_overall_schedule_handle(capacity) ==
    [sizes |-> <<capacity, 0, 0>>, steps |->
       CreateAll(3, <<HANDLE(1)>>)
       \o [i \in 1 .. 3 |-> Create(i + 3, <<SCHDLE(1, "Message1")>>)]
       \o JoinAll(6) \o <<Returned(1 .. 6, Chosen(0, "Message1"), 6)>>
       \o CloseAndDestroy(1)]

test_non_blocking_schedule ==
    [sizes |-> <<2, 0, 0>>, steps |->
       [c \in 1 .. 6 |-> CreateTry(c, SCHDLE(1, "Message1"))] \o JoinAll(6)
       \o <<Returned(1 .. 6, Fails(DRIVER_REQUEST_FULL), 4)>> \o CloseAndDestroy(1)]

test_non_blocking_handle ==
    [sizes |-> <<2, 0, 0>>, steps |->
       Times(2, Do(SCHDLE(1, "Message"), Anything))
       \o <<Create(1, <<SCHDLE(1, "Message1")>>), Create(2, <<SCHDLE(1, "Message2")>>),
            Create(3, <<SCHDLE(1, "Message3")>>)>>
       \o FlattenSeq([i \in 1 .. 6 |-> <<CreateTry(i + 3, HANDLE(1)), UsleepEnough>>])
       \o JoinAll(9)
       \o <<Returned(4 .. 9, Chosen(0, "Message"), 2),
            Returned(4 .. 9, Chosen(0, "Message1"), 1),
            Returned(4 .. 9, Chosen(0, "Message2"), 1),
            Returned(4 .. 9, Chosen(0, "Message3"), 1),
            Returned(4 .. 9, Fails(DRIVER_REQUEST_EMPTY), 1)>> \o CloseAndDestroy(1)]

test_driver_close_with_schedule ==
    [sizes |-> <<2, 0, 0>>, steps |->
       CreateAll(5, <<SCHDLE(1, "Message1")>>) \o <<SemWait, SemWait, Close(1, Anything)>>
       \o JoinAll(5)
       \o <<Returned(1 .. 5, Fails(DRIVER_CLOSED_ERROR), 3),
            Do(SCHDLE(1, "Message"), Fails(DRIVER_CLOSED_ERROR)),
            TryCall(SCHDLE(1, "Message"), Fails(DRIVER_CLOSED_ERROR)),
            Close(1, Fails(DRIVER_GEN_ERROR)), Destroy(1, Anything)>>]

test_driver_close_with_handle ==
    [sizes |-> <<2, 0, 0>>, steps |->
       Times(2, Do(SCHDLE(1, "Message"), Anything)) \o CreateAll(5, <<HANDLE(1)>>)
       \o <<SemWait, SemWait, Close(1, Anything)>> \o JoinAll(5)
       \o <<Returned(1 .. 5, Fails(DRIVER_CLOSED_ERROR), 3),
            Do(HANDLE(1), Fails(DRIVER_CLOSED_ERROR)),
            TryCall(HANDLE(1), Fails(DRIVER_CLOSED_ERROR)), Destroy(1, Anything)>>]

test_multiple_drivers ==
    [sizes |-> <<1, 2, 0>>, steps |->
       <<Create(1, <<SCHDLE(1, "Message1")>>), Create(2, <<SCHDLE(2, "Message2")>>),
         Join(1), Join(2),
         Create(3, <<SCHDLE(1, "Message3")>>), Create(4, <<SCHDLE(2, "Message4")>>),
         Do(HANDLE(1), Chosen(0, "Message1")), Do(HANDLE(2), Chosen(0, "Message2")),
         Do(HANDLE(2), Chosen(0, "Message4")), Do(HANDLE(1), Chosen(0, "Message3")),
         Join(3), Join(4), Close(1, Anything), Close(2, Anything),
         Destroy(1, Anything), Destroy(2, Anything)>>]

test_select ==
    LET handles == [d \in Drivers |-> HANDLE(d)]
        schedules == [d \in Drivers |-> SCHDLE(d, "Message4")]
    IN  [sizes |-> <<1, 1, 1>>, steps |->
           <<Create(1, handles), Usleep, Returned({1}, Anything, 0),
             Do(SCHDLE(3, "Message1"), Anything), SemWait, Join(1),
             Returned({1}, Outcome(SUCCESS, {2}, Jobs), 1)>>
           \o [d \in Drivers |-> Do(SCHDLE(d, "Message"), Anything)]
           \o <<Create(2, schedules), Usleep, Returned({2}, Anything, 0),
                Do(HANDLE(1), Anything), SemWait, Join(2),
                Returned({2}, Outcome(SUCCESS, {0}, Jobs), 1),
                Create(3, schedules), Usleep, Close(1, Anything), Join(3),
                Returned({3}, Fails(DRIVER_CLOSED_ERROR), 1),
                Call(schedules, Fails(DRIVER_CLOSED_ERROR))>>
           \o CloseAndDestroy(3)]

test_free ==
    [sizes |-> <<2, 0, 0>>, steps |->
       <<Destroy(1, Fails(DRIVER_DESTROY_ERROR))>> \o CloseAndDestroy(1)]

\* The two halves of test_zero_queue_non_blocking
test_zero_queue_non_blocking ==
    [sizes |-> <<0, 0, 0>>, steps |->
       <<Create(1, <<SCHDLE(1, "Message")>>), UsleepEnough,
         TryCall(SCHDLE(1, "Message4"), Fails(DRIVER_REQUEST_FULL)),
         TryCall(HANDLE(1), Chosen(0, "Message")), Join(1),
         Create(2, <<HANDLE(1)>>), UsleepEnough,
         TryCall(HANDLE(1), Fails(DRIVER_REQUEST_EMPTY)),
         TryCall(SCHDLE(1, "Message1"), Ok), Join(2),
         Returned({2}, Chosen(0, "Message1"), 1)>> \o CloseAndDestroy(1)]
test_zero_queue_non_blocking_many ==
    [sizes |-> <<0, 0, 0>>, steps |->
       CreateAll(2, <<HANDLE(1)>>) \o <<UsleepEnough>>
       \o [i \in 1 .. 4 |-> CreateTry(i + 2, SCHDLE(1, "Message1"))] \o JoinAll(6)
       \o <<Returned(3 .. 6, Fails(DRIVER_REQUEST_FULL), 2)>> \o CloseAndDestroy(1)]

\* The threads 4 and 5 are two of the thousand iterations; the select_list the
\* threads share, in which nobody reads the job of driver 1, is one per call.
test_for_basic_global_declaration ==
    [sizes |-> <<1, 1, 0>>, steps |->
       CreateAll(2, <<HANDLE(1)>>)
       \o <<Create(3, <<HANDLE(2)>>), Usleep, Returned({3}, Anything, 0),
            Do(SCHDLE(2, "Message1"), Anything), Join(3),
            Returned({3}, Chosen(0, "Message1"), 1)>>
       \o FlattenSeq([i \in 1 .. 2 |->
            <<Create(i + 3, <<HANDLE(2)>>), Usleep,
              Do(SCHDLE(2, "Message1"), Anything), Join(i + 3)>>])
       \o Times(2, Do(SCHDLE(1, "Message"), Anything)) \o JoinAll(2)
       \o CloseAndDestroy(2)]

test_select_and_non_blocking_schedule(capacity) ==
    [sizes |-> <<capacity, 0, 0>>, steps |->
       <<Create(1, <<HANDLE(1)>>), IF capacity = 0 THEN UsleepEnough ELSE Usleep,
         Returned({1}, Anything, 0), TryCall(SCHDLE(1, "Message"), Ok), Join(1),
         Returned({1}, Chosen(0, "Message"), 1)>> \o CloseAndDestroy(1)]

test_select_and_non_blocking_handle(capacity) ==
    [sizes |-> <<capacity, 0, 0>>, steps |->
       Times(capacity, Do(SCHDLE(1, "Message"), Anything))
       \o <<Create(1, <<SCHDLE(1, "Message")>>),
            IF capacity = 0 THEN UsleepEnough ELSE Usleep, Returned({1}, Anything, 0),
            TryCall(HANDLE(1), Chosen(0, "Message")), Join(1),
            Returned({1}, Outcome(SUCCESS, {0}, Jobs), 1)>> \o CloseAndDestroy(1)]

test_select_with_select(capacity) ==
    [sizes |-> <<capacity, 0, 0>>, steps |->
       <<Create(1, <<HANDLE(1)>>), Usleep, Returned({1}, Anything, 0),
         Create(2, <<SCHDLE(1, "Message")>>), Join(2), Join(1),
         Returned({1, 2}, Chosen(0, "Message"), 2)>> \o CloseAndDestroy(1)]

test_selects_with_same_driver(capacity) ==
    [sizes |-> <<capacity, capacity, 0>>, steps |->
       CreateAll(3, <<HANDLE(1), HANDLE(2)>>)
       \o <<Do(SCHDLE(1, "Message"), Anything), Do(SCHDLE(2, "Message"), Anything),
            SemWait, SemWait, Returned(1 .. 3, Ok, 2),
            Returned(1 .. 3, Success({"Message"}), 2),
            Do(SCHDLE(1, "Message2"), Anything), SemWait,
            Returned(1 .. 3, Success({"Message"}), 2),
            Returned(1 .. 3, Success({"Message2"}), 1)>>
       \o JoinAll(3) \o CloseAndDestroy(2)]

test_select_with_schedule_handle_on_same_driver(capacity) ==
    [sizes |-> <<capacity, 0, 0>>, steps |->
       <<Create(1, <<HANDLE(1), SCHDLE(1, "Message1")>>),
         Create(2, <<HANDLE(1), SCHDLE(1, "Message2")>>), Join(1), Join(2),
         Returned({1}, Chosen(0, "Message2") \cup Chosen(1, "Message1"), 1),
         Returned({2}, Chosen(0, "Message1") \cup Chosen(1, "Message2"), 1),
         Returned({1, 2}, Outcome(SUCCESS, {0}, Jobs), 1), Written({1, 2}, 0, 1)>>
       \o CloseAndDestroy(1)]

test_select_with_duplicate_driver(capacity) ==
    [sizes |-> <<capacity, 0, 0>>, steps |->
       <<Create(1, <<HANDLE(1), HANDLE(1)>>), Do(SCHDLE(1, "Message"), Ok), Join(1),
         Returned({1}, Chosen(0, "Message"), 1)>>
       \o Times(capacity, Do(SCHDLE(1, "Message"), Anything))
       \o <<Create(2, <<SCHDLE(1, "Message1"), SCHDLE(1, "Message2")>>),
            Do(HANDLE(1), Chosen(0, IF capacity = 0 THEN "Message1" ELSE "Message")),
            Join(2)>>
       \o Times(capacity, Do(HANDLE(1), Chosen(0, "Message1"))) \o CloseAndDestroy(1)]

Tests ==
    <<test_initialization, test_schedule_correctness, test_handle_correctness,
      test_non_blocking_schedule, test_non_blocking_handle, test_driver_close_with_schedule,
      test_driver_close_with_handle, test_multiple_drivers, test_free, test_select,
      test_for_basic_global_declaration, test_zero_queue_non_blocking,
      test_zero_queue_non_blocking_many, test_overall_schedule_handle(2),
      test_overall_schedule_handle(0)>>
    \o FlattenSeq([i \in 1 .. 2 |->
         <<test_select_and_non_blocking_handle(i - 1),
           test_select_and_non_blocking_schedule(i - 1),
           test_select_with_select(i - 1), test_selects_with_same_driver(i - 1),
           test_select_with_schedule_handle_on_same_driver(i - 1),
           test_select_with_duplicate_driver(i - 1)>>])

\* What the theorems use of a test, p: its steps are well formed, a thread is
\* created once, and a driver is destroyed after the joins of the threads
\* created to call it, and after main's last call on it.
On(list, d) == \E i \in DOMAIN list : list[i].driver = d

StepTyped(s) ==
    /\ s.do = "create" =>
          s.child \in Children /\ s.todo \in Seq(select_t) \ {<<>>} /\ s.blocks \in BOOLEAN
    /\ s.do = "join" => s.child \in Children
    /\ s.do = "call" => s.list \in Seq(select_t) \ {<<>>}
    /\ s.do = "try" => s.option \in select_t
    /\ s.do \in {"close", "destroy"} => s.driver \in Drivers

JoinedBetween(p, m, k) ==
    \E l \in m + 1 .. k - 1 : p[l].do = "join" /\ p[l].child = p[m].child

WellFormed(p) ==
    /\ p \in Seq(Range(p))
    /\ \A k \in DOMAIN p : StepTyped(p[k])
    /\ \A k, m \in DOMAIN p :
          p[k].do = "create" /\ p[m].do = "create" /\ p[k].child = p[m].child => k = m
    /\ \A k, m \in DOMAIN p : p[k].do = "destroy" =>
          /\ p[m].do = "create" /\ On(p[m].todo, p[k].driver) => JoinedBetween(p, m, k)
          /\ p[m].do = "call" /\ On(p[m].list, p[k].driver) => m < k

ASSUME TestsAssumption ==
    \A n \in DOMAIN Tests :
        Tests[n].sizes \in [Drivers -> Nat] /\ WellFormed(Tests[n].steps)

---------------------------------------------------------------------------
(* The threads *)

Init ==
    /\ test \in DOMAIN Tests
    /\ driver_create(Tests[test].sizes)
    /\ at = 1
    /\ todo = [c \in Children |-> [list |-> <<>>, blocks |-> TRUE]]
    /\ awaited = 0
    /\ passed = TRUE

steps == Tests[test].steps
Running == at <= Len(steps)
Now(do) == Running /\ steps[at].do = do
Goes == at' = at + 1

\* The child has returned from its call and posted done.
HasReturned(c) == returned[c] # <<>>
Posted == Cardinality({c \in Children : HasReturned(c)})

\* What the last call of t returned is one of the expected results.
Expected(t, results, expected) ==
    LET r == Last(results[t]) IN <<r.out, r.index, r.job>> \in expected

\* The last call of child c stored the job it handled in entry i of its list.
WroteJob(c, i) ==
    /\ HasReturned(c)
    /\ LET r == Last(returned[c]) IN r.op = "HANDLE" /\ r.out = SUCCESS /\ r.index = i

\* pthread_create, pthread_join, sem_wait, usleep
CreateChild ==
    /\ Now("create")
    /\ todo' = [todo EXCEPT ![steps[at].child] =
                   [list |-> steps[at].todo, blocks |-> steps[at].blocks]]
    /\ Goes
    /\ UNCHANGED <<driverVars, test, awaited, passed>>

\* Mutant: main does not wait for the thread.
JoinNobody ==
    /\ Now("join")
    /\ Goes
    /\ UNCHANGED <<driverVars, test, todo, awaited, passed>>

JoinChild ==
    /\ Now("join")
    /\ HasReturned(steps[at].child)
    /\ Goes
    /\ UNCHANGED <<driverVars, test, todo, awaited, passed>>

\* Mutant: the semaphore is not 0 when the test begins.
WaitForNoPost ==
    /\ Now("wait")
    /\ Goes
    /\ UNCHANGED <<driverVars, test, todo, awaited, passed>>

WaitForPost ==
    /\ Now("wait")
    /\ awaited < Posted
    /\ awaited' = awaited + 1
    /\ Goes
    /\ UNCHANGED <<driverVars, test, todo, passed>>

\* Every child that was created has returned or is blocked.
Settled ==
    \A c \in Children :
        /\ todo[c].list = <<>>
        /\ \A i \in DOMAIN call[c] : ~Ready(call[c][i], c)

Sleep ==
    /\ Now("sleep")
    /\ steps[at].settles => Settled
    /\ Goes
    /\ UNCHANGED <<driverVars, test, todo, awaited, passed>>

MuAssert ==
    /\ \/ /\ Now("queued")
          /\ passed' = (passed /\ Len(queue[steps[at].driver]) = steps[at].n)
       \/ /\ Now("sized")
          /\ passed' = (passed /\ size[steps[at].driver] = steps[at].n)
       \/ /\ Now("peeked")
          /\ passed' = (passed /\ queue[steps[at].driver] = steps[at].jobs)
       \/ /\ Now("returned")
          /\ passed' = (passed /\ steps[at].n = Cardinality(
                {c \in steps[at].children :
                    HasReturned(c) /\ Expected(c, returned, steps[at].expected)}))
       \/ /\ Now("written")
          /\ passed' = (passed /\ steps[at].n = Cardinality(
                {c \in steps[at].children : WroteJob(c, steps[at].index)}))
    /\ Goes
    /\ UNCHANGED <<driverVars, test, todo, awaited>>

\* Main's blocking call: it enters ...
EnterMain ==
    /\ Now("call")
    /\ Enter(0, steps[at].list)
    /\ UNCHANGED <<test, at, todo, awaited, passed>>

\* When main is out of its call it goes on, and looks at what it got.
MainReturned ==
    /\ at' = IF 0 \in {t \in Thread : returned'[t] # returned[t]} THEN at + 1 ELSE at
    /\ passed' = (passed /\ (at' # at => Expected(0, returned', steps[at].expected)))
    /\ UNCHANGED <<test, awaited>>

\* ... and the call returns, here or in a step of the thread it meets.
LeaveMain == Leave(0) /\ MainReturned /\ UNCHANGED todo

OtherCallMain ==
    /\ \/ Now("try") /\ Try(0, steps[at].option)
       \/ Now("close") /\ driver_close(0, steps[at].driver)
       \/ Now("destroy") /\ driver_destroy(0, steps[at].driver)
    /\ MainReturned
    /\ UNCHANGED todo

\* helper_schedule, helper_handle, helper_select and their non-blocking kin
EnterChild(c) ==
    /\ todo[c].list # <<>>
    /\ \/ todo[c].blocks /\ Enter(c, todo[c].list) /\ UNCHANGED <<test, at, awaited, passed>>
       \/ ~todo[c].blocks /\ Try(c, todo[c].list[1]) /\ MainReturned
    /\ todo' = [todo EXCEPT ![c].list = <<>>]

LeaveChild(c) == Leave(c) /\ MainReturned /\ UNCHANGED todo

Main ==
    \/ CreateChild \/ JoinChild \/ WaitForPost \/ Sleep \/ MuAssert
    \/ EnterMain \/ LeaveMain \/ OtherCallMain

\* The test has returned.
Done == ~Running /\ UNCHANGED vars

Next == Main \/ (\E c \in Children : EnterChild(c) \/ LeaveChild(c)) \/ Done

Spec == Init /\ [][Next]_vars

\* The scheduler lets every thread that can go on do so.
FairSpec ==
    Spec /\ WF_vars(Main) /\ \A c \in Children : WF_vars(EnterChild(c) \/ LeaveChild(c))

---------------------------------------------------------------------------
(* Properties *)

\* The variables of the driver and of the tests have their types.
TypeOK ==
    /\ DriverTypeOK
    /\ todo \in [Children -> [list : Seq(select_t), blocks : BOOLEAN]]
    /\ test \in DOMAIN Tests
    /\ at \in 1 .. Len(steps) + 1
    /\ awaited \in 0 .. Posted
    /\ passed \in BOOLEAN

\* Whatever order the threads run in, every call of main and every mu_assert
\* finds what the test expects.
TestsPass == passed

\* test.c looks into driver->queue (queue_current_size, peek_queue) without
\* the driver's lock, and into the arguments of threads it has not joined.
\* When it does, no thread is in a call, or about to make one, that could
\* change that queue or write to those arguments.
PeeksUnraced ==
    \A c \in Children : \A o \in Range(call[c]) \cup Range(todo[c].list) :
        \/ (Now("queued") \/ Now("peeked")) /\ o.driver = steps[at].driver
        \/ (Now("returned") \/ Now("written")) /\ c \in steps[at].children
        => ~Ready(o, c)

\* When main destroys a driver, no thread is in a call on it or will make one.
DestroyedUnused ==
    \A t \in Thread : \A d \in Drivers : state[d] = "destroyed" =>
        /\ ~On(call[t], d)
        /\ t \in Children => ~On(todo[t].list, d)

\* Every test ends: no call blocks for ever that the test counts on to return,
\* and a close wakes every thread ("XXX: All the threads should return in
\* finite amount of time").
Terminates == <>(~Running)
===========================================================================
