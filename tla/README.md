# Verification of the p3 concurrency lab

The repository is a laboratory on concurrent C: a bounded channel, the *driver*,
is to be written on top of a ring buffer, and a routing program with one thread
per node uses nothing but drivers to communicate. This directory models the code
in TLA+, checks the models with TLC and proves theorems about them with TLAPS.

The C files begin with four lines that are not C, so they do not compile as they
are; the models are of the code after those lines. Line numbers below are those
of the files as they stand.

## Inventory

| Part | State | Operations | What makes it correct |
| --- | --- | --- | --- |
| ring buffer (`queue.c`, `queue.h`) | `size`, `next`, `capacity`, array `job` | `queue_create`, `queue_add`, `queue_remove`, `queue_current_size`, `peek_queue`, `queue_free` | first in first out; right statuses; never outside the array |
| driver (`driver.c`, `driver.h`) | a queue, a lock, waiters, open or closed | schedule, handle (blocking and not), close, destroy, select | every scheduled job is handled once, a close wakes everyone, select takes one option |
| routers (`stress.c`, `router`) | per thread: select list, three distance vectors, `curr/next/prev_state`, `driverged`, `select_count` | select; update `next_state` from a neighbour's vector; start an epoch; answer `check_done` | distances are never too short, news reaches all neighbours, no torn read |
| termination detection and shutdown (`check_done`, `run_stress`) | `completed[]`, `valid`, the two rounds | flush every router, collect the answers, compare epochs, close, join | accepts only when the computation is over and right; returns |
| shortest paths (`floyd_warshall`, `create_topology`) | `topology`, `solution` | the numbers of a file into distances; three nested loops over one matrix | every distance in range; computes the shortest distances |
| driver tests (`test.c`) | per test: its drivers, threads and their arguments, a semaphore | create, join and wait for threads; every call of the driver; looks into `driver->queue` | pass whatever the scheduling; look only when nobody writes; end |
| linked list (`linked_list.c`) | none: the bodies are empty | | nothing to model |
| build, grading, generation of topologies | none | | nothing to model |

How they interact. A driver stores jobs in a ring buffer, under its own lock:
`queue.c` takes none. Each router owns one driver, through which its neighbours
and main send to it; two more, `done_driver` and `completed_driver`, are shared by
all. What is sent is a *pointer*: a router broadcasts the address of one of its
three distance vectors, and the receiver reads the vector when it gets to it. So
routers share memory as well as messages, and only the protocol keeps a reader and
a writer apart.

What is hard. Which of several options a select takes; jobs that wait in drivers
while their content changes; the order of two neighbours' epochs; an improvement
that arrives while an epoch is still being announced; the detection, which
questions the routers one after another while they go on; the shutdown, which
frees buffers others may hold; starvation of sends by main's questions; two selects that have to agree on one
pair of options; a ring buffer without a lock of its own; tests that need a pause
to be long enough. Crashes and lost messages do not exist here. `PROJECT.json` lists each hazard at
its line.

## Modules

| Module | Models |
| --- | --- |
| `Fifo` | the abstract bounded buffer: a sequence, with the status and job each call returns |
| `Queue` | `queue.c`, each function an action, a function with an early return two; `size_t` arithmetic wraps. `FifoSpec` is `Fifo` under a refinement mapping |
| `QueueProofs` | theorems about `Queue` |
| `QueueThreads` | `queue_add` and `queue_remove` statement by statement, from several threads; extends `Queue` and implements `Fifo` again |
| `QueueThreadsProofs` | theorems about `QueueThreads` |
| `FloydWarshall` | `create_topology`'s conversion of the file, and `floyd_warshall`, one iteration of the inner loop per step; `Plus` wraps |
| `FloydWarshallProofs` | theorems about `FloydWarshall` |
| `Stress` | routers, `check_done`, shutdown, and the drivers between them |
| `StressAnswers` | `Stress` with a history variable: the epoch each router was in when it answered |
| `StressProofs` | types, lower bound, select lists, no torn read with rendezvous |
| `StressKnownProofs` | what spreads from router to router: epochs improve and are bounded, what was heard is known, rest means solved |
| `StressRepliesProofs` | the two rounds of `check_done` are complete, no circular wait; `check_done` is right with unqueued drivers, and with any driver unless a router was lapped |
| `Driver` | what `driver.h` promises: queued and unqueued drivers, blocking and non-blocking calls, select, close, destroy; and clients that make any of these calls |
| `DriverProofs` | theorems about all clients of `Driver` |
| `DriverTests` | the tests of `test.c` as clients of `Driver` |
| `DriverTestsProofs` | the tests are such clients; theorems about all of them |
| `MCQueue`, `MCQueueThreads`, `MCFloydWarshall`, `MCStress`, `MCStressAnswers`, `MCStressEpoch`, `MCDriverTests` | the instances TLC checks |

### Queue

The variables have the names of the fields of `queue_t`, and `ret` holds what the
last call returned, so that the refinement is about answers and not only about
stored jobs. `malloc` leaves `Garbage` in the slots. Here the calls are atomic;
`QueueThreads` says what that takes. `SizeMax` and `PtrSize` stand for `SIZE_MAX` and
`sizeof(void*)`; the one assumption is that the allocation of `capacity *
sizeof(void*)` bytes does not wrap.

### QueueThreads

`queue.c` takes no lock, so whoever uses a queue from several threads (the driver)
has to. In `QueueThreads` each statement of `queue_add` and `queue_remove` that
writes to the queue is a step, with one lock around each call (`Lock`, `Unlock`:
outside the code that exists). `queue_capacity`, `queue_current_size` and
`peek_queue` take part without the lock, as `test.c` calls them. The refinement
mapping puts the moment at which a job enters the queue at `size++` and the one at
which it leaves at `size--`; between `size--` and the wrap of `next` the oldest
job is one slot further (`Front`). So a size read without the lock is that of the
buffer at this moment. Without a lock `FifoForAll` and `ThreadsInBounds` are violated
(the mutant `TakesNoLock`). One lock for adding and another for removing is not
enough either, not even for one producer and one consumer, because both write
`size`.

### FloydWarshall

A file holds `int`'s, `fscanf` stores their bits in an unsigned `distance_t`
(`AsUnsigned`) and what is then above `inf_distance`, that is every negative
number, becomes `inf_distance` (`Link`). `file` is a variable that keeps what was read,
and what the result is compared with, `Shortest[file]`, is about the numbers in it and
not about the links made of them: a negative number is no link, the others are their own length.
The instance enumerates the paths in the file for this, and a conversion that
made a link of a negative number or dropped one would be seen (mutant
`LinkClearsSign`). `intermediate`, `src` and `dst` are the loop indices, `Advance` the three loop
headers. `distance_t` holds up to `2 * Inf + 1`: `inf_distance` is the largest
*signed* value of the unsigned type, and it is this that makes `inf + inf` safe.

### Stress

`driver.c` has empty bodies, so the drivers behave as `driver.h` and the
assignment text beside it say, in the calls `stress.c` makes: blocking schedule,
handle, select and close. A queued driver (`BufferSize = 1`) holds one job; with
an unqueued one (`BufferSize = 0`) a send and a receive happen together, in the
`...Meet` actions. `FirstOption` selects between the assignment text (a select
takes the first available option of the list) and a select that may take any.

One action is the code between two points where another thread can see it or be
seen. The loops over a vector other threads can reach (lines 179-187 and 210-212)
take `Chunk` iterations a step; with `Chunk = 1` every interleaving of a reading
and a writing loop is there. Everything between them that touches only the
thread's own data belongs to the action before: `Cycle`, for example, is lines
204-209 with the assignments that follow the copy.

| Code | Definition |
| --- | --- |
| set-up of the vectors and the select list, 126-169 | `InitRouter` |
| `driver_select`, 171, and the branch on its index | `SelectOwn`, `SelectSend`, `SelectMeet`, `SelectClosed` |
| swap of the select list after a send, 194-200 | `Sent` |
| update loop, 179-187 | `Update`, `Better`, `ViaNeighbour` |
| new epoch and copy, 203-217 | `Cycle`, `Copy` |
| answer to the NULL job, 189-191 | `Reply`, `CollectMeet`, `ReplyOf` |
| `check_done`, 245-290 | `Flush`, `Collect`, `Accepts`, `Collected`, `Close` |
| `run_stress` after the threads are started | `Sleep`, `Close`, `Join`, `Done` |

The select list is modelled by `pos`, the index of each neighbour's entry, and
`select_count`: this is all the code reads of it. `jobs` in the list are not kept,
as every entry still to be sent has the same one, the current state.
`solution` is a variable because the C program computes it before the threads
start; the module takes it from `Solution` and `FloydWarshall` shows that it is
what the program computes.

`StressAnswers` adds one variable that the program does not have: `answered[k][r]`,
the epoch router `r` was in when it answered in round `k` of the present `check_done`.
It is written beside every step of `Next` and read by none, so each behaviour of
`AnswersSpec` is one of `Spec` (lemma `OnlyRemembers`); what `check_done`
itself sees of these epochs is `Deref(completed[r]).epoch`, the one behind the
pointer at the time of the comparison. `Lapped(r)` says that the two answers of
`r` were an exact multiple of three epochs apart: its three buffers went round once
or more, and both answers were the same pointer.

### Driver and DriverTests

All eight functions of `driver.c` are empty, so there is no implementation to
translate. `Driver` is the contract, read off the declarations and comments of
`driver.h` and off what `test.c` and `stress.c` expect of each status. A blocking
call enters (`Enter`) and returns (`Leave`) in two steps, a non-blocking one (`Try`)
is one. `driver_schedule` and `driver_handle` are selects with one option. `Takes`
picks the first option that does not block; on an unqueued driver an option does
not block when another thread's call has one of the opposite kind (`Partners`), and
then both calls return in one step (`Meet`), the waiting one by way of the first of
its options that fits. `returned` keeps everything every thread got. `ClientSpec` is the
driver used without any discipline: any threads, each making any call at any time,
`driver_create` with any sizes. It has infinitely many states (`returned` only grows),
so TLC checks `HandledOnce` on the tests, and the theorems are about `ClientSpec`.

`DriverTests` has 27 tests as data: the sizes of the drivers and the steps of the
main thread, each step a record (create, join, wait for the semaphore, sleep, a
call with the results it may have, an assertion on a queue or on the results of
threads). One behaviour is one test under one scheduling. The children make the one
call their helper makes. A sleep means nothing (`Usleep`), except in five tests,
where the test needs it to last until the threads it created have blocked or
returned (`UsleepEnough`); see below. `TestsAssumption` says of these 27 programs what the
theorems use of them: steps are well formed, a thread is created once, and between
the creation of a thread that calls a driver and the destruction of that driver
there is a join of this thread. The tests are constants, so TLC evaluates this for
all of them.

`Stress` does not instantiate `Driver`: it has the calls `stress.c` makes as actions
of its own, without the history in `returned`, which would make its state space
infinite. The two follow the same reading: an option is available under the same
conditions, a rendezvous is one step, and select takes the first.

## Runs

| Run | Question | Instance |
| --- | --- | --- |
| `queue` | is the ring buffer a first-in first-out buffer, and inside its array? | capacities 0 to 4, so that `next` and `pos` wrap at different moments; 2 jobs |
| `queue_add_comment` | does the comment on `queue_add` hold? (no) | same |
| `queue_peek_comment` | does `peek_queue` show a value in the queue? (no) | same |
| `queue_threads` | is one lock around each call enough, for every interleaving of statements? | 3 threads, capacities 0 to 3, a `size_t` of 4 bits; the threads are symmetric |
| `floyd_warshall` | are all distances in range, shortest paths computed in place, without overflow? | 3 nodes, files with 1, 9 or the least `int` between two nodes and 0 or a negative number on the diagonal |
| `driver_tests` | does every test of the driver pass and end under every scheduling, without a race or a use of a destroyed driver? | 27 tests, main and up to 9 threads, `FairSpec` |
| `stress_queued` | routing, detection, shutdown and no circular wait with a buffer of 1 | 3 routers: a row, a link and a lone node, no link; `Chunk = 1`, any option |
| `stress_unqueued` | the same with rendezvous | 4 routers in a row: news crosses three links, and an end router goes through three epochs, so that all of its vectors are written again; no torn read |
| `stress_triangle` | routing when the first path found is not the best; is each epoch paid for, and is `check_done` right unless a router is lapped? | 3 routers, all linked, buffer of 1, first option; with the history of `StressAnswers` |
| `stress_terminates` | does `run_stress` return? | 3 routers in a row, `FairSpec` |
| `stress_race` | can a vector be overwritten while it is read? (yes, buffer of 1) | 4 routers, two triangles with a link in common |
| `stress_epoch` | can `check_done` accept too early? (yes, buffer of 1) | 5 routers, one schedule of the threads |

Why the bounds are enough for what they show, and what they leave out. Every
action of `Stress` is taken in the passing runs. Three routers are the least where
a router forwards what it heard; in a row of four an improvement has to be
forwarded twice; in the triangle a router first announces a distance that it
improves later, so that a second epoch starts while the first is under way. No router of the
triangle has enough to improve to be lapped, so there `AgreementUnlessLapped` is
`Agreement`; the theorem is what covers the topologies in which one is. The instances
are not enough for everything: the two violations with a buffer of 1 need four
and five routers, and the passing runs say nothing about `Agreement` at those
sizes. `NoTornRead` is not among the properties of `stress_queued`: a vector that was sent is
written again only in the sender's second rotation, its routers rotate at most once,
and where a router rotates twice the property is false with a buffer of 1
(`stress_race`). `stress_unqueued` checks it where it is true and can fail. No counter is cut off: epochs grow only as long
as distances improve, and distances are finitely many, so the state spaces are
finite as they are.

In `driver_tests` two to nine threads stand for the ten or two hundred of the C
tests: always more than the driver has room for, and at least one that is served,
one that waits and one that is refused or woken by the close, where the test has
these cases. Three threads in `queue_threads` let one wait for the lock, one be
inside a call and one have just returned; capacities 0 and 1 are where `next` and
the slot of an addition coincide. The theorems below remove both bounds of
`queue_threads`.

Deadlock is checked in every run of `Stress`, `FloydWarshall` and `DriverTests`; the
program's normal end is the action `Done`.

### Fairness

`FairSpec` says that each thread that can take a step does (weak fairness of
`Router(r)` and of main, a rendezvous with main counting for either): the scheduler of
an operating system. On top of that it assumes strong fairness of a router's
sends. Under weak fairness alone `Terminates` is violated: main's NULL jobs come
before the sends in every select list and fill the neighbours' drivers, so that a
router whose neighbour's driver is never empty *when it looks* never sends, while
main asks round after round. What the program does about it is the
`usleep(1000)` between two `check_done`s (line 320): a millisecond in which nobody
asks. The model has no time; strong fairness is what that pause amounts to, and
no more than that: a router whose neighbour's driver has room again and again
gets to send.

`DriverTests` needs less: weak fairness of main and of each child, in and out of
its calls. No call of a test depends on strong fairness, because each child makes
one call and the tests provide one partner for each call they count on.

### Tests that need a pause to be long enough

`test_non_blocking_handle` (`test.c:482`), `test_zero_queue_non_blocking` (1093, 1106
and 1131) and, with unqueued drivers, `test_select_and_non_blocking_schedule` (1295)
and `test_select_and_non_blocking_handle` (1338) make a non-blocking call that has
to find another thread blocked, or has to come after it. The sleep before it is the
only thing that brings this about. In the model these sleeps end when every thread
has blocked or returned (`Settled`). If they were plain sleeps a correct driver would
fail these tests: the non-blocking call is refused, `mu_assert` returns with
threads still running, or, where the result is only counted at the end, a join
waits for a thread that nobody will serve. All other sleeps of the tests may take
no time at all and `TestsPass`, `PeeksUnraced` and `Terminates` hold.

## Disagreements between the code and what is said about it

1. `queue.c:20-21`, `queue.h:26-27`: the comment exchanges the two statuses of
   `queue_add`. Run `queue_add_comment`.
2. `queue.c:72`, `queue.h:44`: `peek_queue` is said to peek at a value in the
   queue; the index is that of a slot, and the slot may hold a removed job. Run
   `queue_peek_comment`.
3. `stress.c:211` with a buffer of 1. Two jobs of a router can be under way to one
   neighbour (one taken out and not read yet, one in the driver). When the second
   has been put there the router may start its next epoch, and the copy writes
   the vector of two epochs before, which is the one the neighbour is about to
   read: a data race between lines 180 and 211. Run `stress_race`. `NoUnderestimate`
   holds all the same, as everything ever stored in a vector is the length of a
   path. With a buffer of 0 there is no race: theorem
   `NoRaceUnqueued`.
4. `stress.c:275` with a buffer of 1. `completed[]` keeps pointers, and the epochs
   are read through them in the second round. A router that went through exactly
   three epochs between its two answers answers with the same pointer, and the
   comparison compares one epoch with itself. `check_done` then accepts although
   an announcement waits in a driver, and the assertion at line 284 fails. Run
   `stress_epoch`: the behaviour is long, so `MCStressEpoch` fixes the order in
   which threads run (a schedule) and leaves everything else to `Stress`: each of
   its steps is a step of `Spec`. Its five routers have weights that make one of
   them improve three times. Being lapped like this is the only way in which the
   comparison can go wrong, with any number of routers and either kind of driver:
   theorems `AgreeUnlessLapped` and `ClosedUnlessLapped`. An answer that
   carried the epoch itself, and not a pointer to it, would exclude it.

## Theorems

Constants are arbitrary, subject to the `ASSUME`s of each module.

**Queue.** `QueueProofs!IInv` adds to the types that `size <= capacity` and, when
there is a slot at all, `next < capacity`. Without it nothing keeps `next + size`
below twice the capacity, and the code's single subtraction would not be enough.
From it: `FieldsTyped` (`TypeOK`), `InBounds` (`SlotsInBounds`), and `Refines` (`FifoSpec`): the contents,
slot by slot from `next`, grow at the end by `queue_add` and lose their head by
`queue_remove`, and each call returns what `Fifo` returns.

**QueueThreads.** The threads that are not at `"out"` are the one that holds the
lock; what this thread's statement relies on is an invariant per statement (at
`"store"` there is room, at `"shrink"` what it has in hand is the oldest job, at
`"wrap"` `next` is at most `capacity`). From it: `InBoundsForAll`
(`ThreadsInBounds`) and `RefinesForAll` (`FifoForAll`), for every number of threads.

**FloydWarshall.** `TypeCorrect` (`TypeOK`): whatever the file holds, no index leaves
its range and no sum wraps. `LowerBound` (`NeverTooShort`), which like `EndsShortest` is about the numbers in
the file: a detour in a matrix that is
above the shortest distances is above them too. `EndsClosed` (`DoneMeansClosed`)
is the harder one. During the pass of `k` row and column `k` do not change; the
smaller of `solution[s][d]` and its detour by way of `k` does not change either,
as an iteration only replaces one by the other; and this smaller one is, for every
`m < k`, no longer than the detour by way of `m` (`EarlierClosed`). With `Passed`,
which says that the pass has already taken the smaller one where it has been, the
end of the pass gives the same for `k`. `EndsShortest` (`DoneMeansShortest`) joins
them; its hypothesis `Greatest` says what the constant `Shortest` is: the greatest
closed matrix within the links of the file (`WithinLinks`; for a file of any `int`'s
this is to be below the links `create_topology` makes, lemma `WithinIsBelow`). It is a hypothesis of the theorem and not an
`ASSUME`, because TLC would have to enumerate all matrices; the run computes
`Shortest` by enumerating paths instead.

`EndsGreatest` needs no hypothesis. Every matrix that satisfies the inequalities of
shortest paths (`Relaxed`) and is nowhere above the links is below what the loops hold at
any time, as a detour of two distances above it is above it (`StaysUnder`); and the
final matrix satisfies the inequalities itself (`EndsClosed`). So what the program
computes is the greatest such matrix: `Greatest` holds of it, and so does
`SolutionIsShortest`, which the theorems about `Stress` assume of `Solution`.

**Stress.** `TypeCorrect` (`TypeOK`): `InHand` has to be added, that a router in
its update loop holds a state and not the NULL job. That distances stay below `Inf`
depends on the order of lines 181-183: a sum is stored only when it is below a
distance. `NeverUnder` (`NoUnderestimate`) needs no bound on the age of what is
read: every vector, of any epoch and even half overwritten, satisfies the
invariant, and a link followed by an overestimate is an overestimate. Unlike the
other safety properties of `Stress` it thus also holds with the race of line 211.
`NoRaceUnqueued` (`NoTornRead`, if `BufferSize = 0`): two invariants. `ListInv`:
the neighbours' entries have different indices between 2 and the length of the
list, whatever was swapped, and an epoch starts only when `select_count` is 2.
`HoldInv`: who reads a vector of `o` reads the current one, or the one before while
it still has an entry in `o`'s list. As it is not in its select while it reads,
`o` cannot send to it, `select_count` does not reach 2, and there is no second
rotation: the vector `o` writes is the third. With a buffer of 1 a send does not
need the receiver to be in its select, and this is exactly what fails in
`stress_race`. That the swap keeps the indices different is needed: without it
(mutant `SentNoSwap`) a neighbour would drop out unsent.

`Improves` (`EpochsImprove`): `EpochOf` relates a router's current and next vector.
During the copy loop they are equal up to the loop's index; at all other times the
next vector is nowhere larger than the current one, and smaller somewhere exactly
when `driverged` is set. A rotation happens only with `driverged`.

`Paid` (`EpochsPaid`): the epoch of a router is at most 1 plus the number of lengths its
distances have gone below since the topology file (`Gained`). A rotation makes
the next vector current; by `EpochOf` it is nowhere larger and somewhere smaller,
so `Gained` grows by at least one element whenever the epoch does (`GainedMore`).
Hence there are finitely many announcements however stale the news are that
cause them. It is the safety half of `Terminates`: only the scheduling of
what has been announced is left to fairness.

`HeardKnown` (`HeardMeansKnown`): a job is a pointer, so it has to be shown that what
the neighbour reads is what it was sent. `KnownOf(r, n)` says: if `r`'s current
state was sent to `n` and is not in `n`'s driver, then `n` knows every path by way
of `r` to the destinations its loop has passed. As long as a vector is `r`'s current
one it does not change, and only `Cycle` makes another one current, which puts `n`
back on `r`'s list. That `n` never forgets is the lemma `BestFalls`. Torn reads do
not matter: they are of vectors that are no longer current.

`QuietSolved` (`QuietMeansSolved`): at rest every neighbour has heard of every other,
so the distances satisfy the inequalities of shortest paths, and `NeverUnder` is
the other half. Its hypothesis `SolutionIsShortest` says that `Solution` is the
greatest matrix with these inequalities (`SolutionAssumption`, which TLC evaluates,
only says that it has them); `EndsGreatest` shows it of what the program computes.

`RoundsComplete` (`RepliesComplete`): answers do not name their round, and main only
counts them. `Balanced` says that the routers that were asked in this round and
have nothing outstanding are as many as the answers main has taken plus the one in
`completed_driver`, and that nobody has anything outstanding who was not asked.
At the last answer the count is `N`, so nothing is outstanding when the next round
starts; `FirstRound` adds that, if all answers so far were good, the routers
counted are the ones in `completed[]`.

`NeverInACircle` (`NoCircularWait`): until main has ended, some thread can take a step.
A router blocked on `completed_driver` does not handle its own driver, and its
neighbours may be blocked on that one, main as well. The proof follows the order in
which main asks and collects. While main collects, somebody it still waits for has
something outstanding (the count `Balanced` again), and that router has either its NULL
job to handle or its answer to give, with nobody but main between. While main
flushes, the router it is about to ask can take the NULL job, has a job in its driver,
or is on its way to its select; and if it is blocked in its answer to an earlier
job it would have something outstanding without having been asked. `CanGoOn(r)` spells
out when `Router(r)` is enabled, since `ENABLED` is beyond the provers.

`ClosedUnqueued` (`ClosedWhenQuiet`) and `AgreementUnqueued` (`Agreement`), both for
`BufferSize = 0`: an unqueued `completed_driver` holds every router in its answer
until main collects, and main collects only when it has asked everyone. So all
routers stand still at one moment, and the answers are of that moment
(`UnqueuedInv`). One round would be enough. With a buffer of 1 routers go on after
their answers, the second round is needed, and `stress_epoch` shows that it is not
enough.


`ClosedUnlessLapped` (`ClosedWhenQuietUnlessLapped`) and `AgreeUnlessLapped`
(`AgreementUnlessLapped`) say what the second round achieves whatever the driver. They
are about `AnswersSpec`, as the invariant (`AnswersInv`) is about epochs nobody keeps:

- `SlotsInv`: slot `s` of a router holds only epochs that are `s` modulo 3. So a
  pointer is an epoch modulo 3 (`At`), and two equal epochs found behind two
  pointers of one router mean two equal pointers (`EqualEpochs`). Whatever the slots
  hold by the time of line 275, what the comparison establishes is that the two epochs
  *answered* are equal modulo 3 (`SameSlot`, in `SecondInv`). If no router was
  lapped they are equal.
- `KeptInv`: a router that gave a good first answer had announced its state to
  everyone and knew of nothing better; from then on it has an unchanged list with
  nothing to send, or is `Spoiled`: it knows of something better or is in a later epoch.
  It stays spoiled (`KeptStays`).
- `RestInv` joins them. As long as no answer of the second round tells of a change
  (`Unchanged`), no router that still has to answer is spoiled, since it would
  answer NULL or with a later epoch. So nobody has sent anything since all gave their
  first answers, and a router that answers its second NULL job has taken
  everything out of its driver before it: it is at rest, and as nobody sends it
  stays so (`QuietStays`). When the last one has answered all are at rest at the same moment,
  which is `ClosedWhenQuiet`, and by `QuietSolved` their distances are the
  solution.

Whether the second round is unchanged is known only when it is over. The step that
gives an answer is therefore the hard one (`AnsweringStep`, `NextRound`): `RestInv` has to follow
from what held before it for every answer that can still turn out to be unchanged.

**Driver.** `ClientsTyped` and `ClientsHandledOnce` (`HandledOnce`) are about `ClientSpec`, for
all threads, drivers, sizes and jobs. Every step of a client has one of four effects
(`Effect`): nothing moves, a call returns without a job (`Moves0`), a job goes into a
queue or out of it (`MovesIn`, `MovesOut`), or two calls hand one over (`HandsOver`).
`PerformEffect` shows this for a call that takes one of its options. A job is counted on
both sides of `HandledOnce`: a return adds one to the calls of its side (`OneReturn`), an
addition or removal one to the slots or takes one away (`SlotsAppend`, `SlotsTail`, by a
bijection between the slots), and a meeting adds one to both sides (`BalanceOfTwo`).
That the sets counted are finite is part of the invariant (`Balanced`).
That `PartnerIndex`, a `CHOOSE`, picks an option that exists rests on `Least`: a set of
numbers that is not empty has a least one.

**DriverTests.** `TestsAreClients`: every test is a client, whose steps are calls of
`ClientSpec` or leave the driver alone, so `HandledOnce` carries over
(`TestsHandleOnce`). `TestsTyped` (`TypeOK`) and `TestsDestroyUnused` (`DestroyedUnused`) use
`TestInv`: a child is not created, about to call, in its call or back from it, the call
is the one it was created for, and a joined child is back (`ChildInv`); main is in a
call only at the step that makes it (`MainInv`), which matters because a step of *another*
thread can end it; a destroyed driver has its destroy step behind it (`DestroyInv`).
When main destroys a driver, the threads created to call it have been joined
(`TestsAssumption`), so they are back and never call again.

Model-checked only, not proved: liveness (`Terminates` of `Stress` and of
`DriverTests`); `TestsPass` and `PeeksUnraced`, whose reasons are different ones in each of
the 27 programs (each is a fixed, finite program, of which TLC goes through every
scheduling, so a proof would add only larger numbers of equal threads); and, with a buffer of 1, `Agreement` and `ClosedWhenQuiet`
for three routers: these are no theorems, as `stress_epoch` shows for more
routers; what is a theorem with a buffer of 1 is that `Agreement` and `ClosedWhenQuiet` hold
unless a router was lapped. That distances are attained by paths is not stated: shortest distances are
characterised by their inequalities (`EndsGreatest`).

## Not modelled

- `driver.c` as an implementation: its bodies are empty. `Driver` is what a body
  would have to do; a lock, a condition variable or a list of waiters is nowhere
  in the repository. An invalid argument of a call (`DRIVER_GEN_ERROR` other than from
  a second close) is not used by any caller.
- In `test.c`: the two tests of CPU time and the one of response time, which measure
  clocks; `test_stress` and `test_zero_buffer_stress`, which call `run_stress` and are
  the runs of `Stress`; the allocation of arguments. Of the tests that are modelled:
  that `driver_create` returns a driver with a queue (155-156), as it always does here;
  the CPU-time assertion at 1253; and the one select list that the threads of
  `test_for_basic_global_declaration` share (1217), in which nobody reads what they write: in the
  model each call has a list of its own. Ten, two hundred or a thousand equal threads are
  two to nine, as said under Runs.
- `linked_list.c`: its bodies are empty and nothing calls them. `grade.py`,
  `generate_graph.py` and the build files have no state of the system.
- In `create_topology` the opening and scanning of the file; `print_graph` and
  `print_solution`. `Stress` takes the topology as any matrix of distances, symmetric in which
  links exist, which is what `router` asserts.
- In `run_stress` the creation of the drivers before the first thread runs (293-316), of
  which `Init` is the result, and the destroy, close and free calls after the last
  thread is joined (331-345): main is the only thread then. `Done` is the end of the program.
- Weak memory: the steps of the loops are sequentially consistent. `NoTornRead`
  says where the code relies on nothing more.
- Failing `malloc` and `pthread_create`: `stress.c` asserts that they succeed, which ends
  the program, and `queue.c` and `test.c` do not check them.
