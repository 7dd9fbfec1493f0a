------------------------------ MODULE Stress -------------------------------
(***************************************************************************)
(* stress.c: a distance-vector routing computation, one router thread per  *)
(* node, that talk through drivers only, and the main thread that detects  *)
(* when it has converged and shuts it down.                                *)
(*                                                                         *)
(* Node r's thread owns three distance vectors (prev, curr, next state)    *)
(* whose ADDRESSES it broadcasts: a job is a pointer, [src, slot], and     *)
(* its content is read later, when the receiver gets to it.  The drivers   *)
(* come from driver.h and behave as the assignment text says: a queued     *)
(* driver holds BufferSize jobs, an unqueued one (BufferSize = 0) hands    *)
(* each job over while both sides are in their calls.                      *)
(*                                                                         *)
(* One action is the code between two points where another thread can see  *)
(* or be seen: a driver call, or Chunk iterations of a loop over a buffer  *)
(* that other threads can reach.                                           *)
(***************************************************************************)
EXTENDS Integers, Sequences, FiniteSets

CONSTANTS
    N,            \* num_driver
    Inf,          \* inf_distance
    Topologies,   \* the contents of the topology file: N x N distances
    Solution,     \* Solution[t]: what floyd_warshall computes for topology t
    BufferSize,   \* the argument of run_stress, 0 or 1
    FirstOption,  \* TRUE: driver_select takes the first available option, as
                  \* the assignment text says; FALSE: any available option
    Chunk         \* loop iterations per step: 1 is every interleaving of two
                  \* loops, N a loop in one step

Node == 0 .. N - 1
Slot == 0 .. 2
Dist == 0 .. Inf

ASSUME SizeAssumption ==
    /\ N \in Nat \ {0}
    /\ Inf \in Nat \ {0}
    /\ BufferSize \in {0, 1}
    /\ FirstOption \in BOOLEAN
    /\ Chunk \in Nat \ {0}

\* create_topology caps a distance at inf_distance.  A link has a length in
\* both directions or in none: router() asserts it of every link it hears on.
ASSUME TopologyAssumption ==
    /\ Topologies \subseteq [Node -> [Node -> Dist]]
    /\ \A t \in Topologies : \A i, j \in Node : t[i][j] = Inf <=> t[j][i] = Inf

\* The solution is below every link and every first hop: the distances are
\* those of a shortest path or shorter.
ASSUME SolutionAssumption ==
    /\ Solution \in [Topologies -> [Node -> [Node -> Dist]]]
    /\ \A t \in Topologies : \A i, d \in Node :
         /\ Solution[t][i][d] <= t[i][d]
         /\ \A m \in Node :
              t[i][m] # Inf => Solution[t][i][d] <= t[i][m] + Solution[t][m][d]

NullJob == [src |-> -1, slot |-> 0]      \* the special NULL job of check_done
Pointer == [src : Node, slot : Slot]     \* distance_vector_t*
Job == Pointer \cup {NullJob}

VARIABLES
    topology,      \* the links, read once by create_topology
    solution,      \* and the shortest distances floyd_warshall found for them
    pc,            \* where router r's thread is
    buf,           \* buf[r][s]: r's s-th distance_vector_t, its epoch and dist
    curr,          \* the slot of curr_state; next_state and prev_state follow
    driverged,     \* driverged (sic)
    select_count,  \* select_count
    pos,           \* pos[r][n]: the index of drivers[n] in r's select_list
    job,           \* select_list[1].job, the last job r handled
    at,            \* the index of the loop r is in
    queue,         \* queue[r]: the jobs in drivers[r]
    replies,       \* the jobs in completed_driver
    doneClosed,    \* done_driver is closed
    mpc,           \* where the main thread is
    round,         \* which of check_done's two rounds main is in
    mi,            \* main's loop index
    valid,         \* check_done's valid
    completed      \* check_done's completed[]

routerVars == <<pc, buf, curr, driverged, select_count, pos, job, at>>
mainVars == <<mpc, round, mi, valid, completed>>
graphVars == <<topology, solution>>
vars == <<graphVars, routerVars, queue, replies, doneClosed, mainVars>>

---------------------------------------------------------------------------
(* The routers' data *)

Link(r, n) == topology[r][n]

Neighbours(r) == {n \in Node \ {r} : Link(r, n) # Inf}

total_select_count(r) == 2 + Cardinality(Neighbours(r))

\* Mutant: two buffers instead of three.
NextSlotOfTwo(r) == (curr[r] + 1) % 2

NextSlot(r) == (curr[r] + 1) % 3
PrevSlot(r) == (curr[r] + 2) % 3

curr_state(r) == [src |-> r, slot |-> curr[r]]

\* What p points to
Deref(p) == buf[p.src][p.slot]

\* Mutant: inf_distance is the largest distance_t.
PlusOverflows(a, b) == (a + b) % (Inf + 1)

\* a + b in distance_t: inf_distance is 2^31 - 1, so that sums wrap at
\* 2 * (Inf + 1)
Plus(a, b) == (a + b) % (2 * (Inf + 1))

\* The iterations the next step of r's loop makes
Iterations(r) == {i \in Node : at[r] <= i /\ i < at[r] + Chunk}
LastIterations(r) == at[r] + Chunk >= N

\* r still has to send its current state to n
Pending(r, n) == pos[r][n] < select_count[r]

\* Mutant: an epoch ends when everyone has it, better state or not.
AfterEventAlways(count, diverged) == IF count = 2 THEN "cycle" ELSE "select"

\* Where r's thread goes after an event: a new epoch starts when everyone has
\* the current state and a better one is known.
AfterEvent(count, diverged) ==
    IF count = 2 /\ diverged THEN "cycle" ELSE "select"

InitRouter ==
    /\ pc = [r \in Node |-> "select"]
    /\ buf = [r \in Node |-> [s \in Slot |-> [epoch |-> s, dist |-> topology[r]]]]
    /\ curr = [r \in Node |-> 1]
    /\ driverged = [r \in Node |-> FALSE]
    /\ select_count = [r \in Node |-> total_select_count(r)]
    /\ pos = [r \in Node |-> [n \in Neighbours(r) |->
                2 + Cardinality({m \in Neighbours(r) : m < n})]]
    /\ job = [r \in Node |-> NullJob]
    /\ at = [r \in Node |-> 0]

InitMain ==
    /\ doneClosed = FALSE
    /\ mpc = "flush"
    /\ round = 1
    /\ mi = 0
    /\ valid = TRUE
    /\ completed = [r \in Node |-> NullJob]

Init ==
    /\ topology \in Topologies
    /\ solution = Solution[topology]
    /\ InitRouter
    /\ InitMain
    /\ queue = [r \in Node |-> <<>>]
    /\ replies = <<>>

---------------------------------------------------------------------------
(* driver_select in a router *)

\* With FirstOption, r takes an option only when no earlier one is available:
\* done_driver (index 0), its own driver (1), then its neighbours' drivers.
\* An unqueued driver matches whichever two calls it finds waiting.
FirstIsOwn(r) == FirstOption => ~doneClosed
FirstIsSend(r, n) ==
    FirstOption =>
        /\ ~doneClosed
        /\ queue[r] = <<>>
        /\ \A m \in Neighbours(r) :
             Pending(r, m) /\ queue[m] = <<>> => pos[r][n] <= pos[r][m]

\* r's own driver hands j to r
Handled(r, j) ==
    /\ job' = [job EXCEPT ![r] = j]
    /\ at' = [at EXCEPT ![r] = 0]

\* Mutant: a NULL job is read, but not answered.
AfterHandleForgets(j) == IF j = NullJob THEN "select" ELSE "update"

AfterHandle(j) == IF j = NullJob THEN "reply" ELSE "update"

\* Mutant: the list shrinks but the entries are not swapped.
SentNoSwap(r, n) ==
    /\ select_count' = [select_count EXCEPT ![r] = @ - 1]
    /\ UNCHANGED pos

\* r's select returned the index of drivers[n]: the entry is swapped with the
\* last one still to be sent and drops out of the list.
Sent(r, n) ==
    LET last == select_count[r] - 1
    IN  /\ select_count' = [select_count EXCEPT ![r] = last]
        /\ pos' = [pos EXCEPT ![r] = [m \in Neighbours(r) |->
                      CASE m = n -> last
                        [] m # n /\ pos[r][m] = last -> pos[r][n]
                        [] OTHER -> pos[r][m]]]

SelectOwn(r) ==
    /\ BufferSize = 1
    /\ pc[r] = "select"
    /\ queue[r] # <<>>
    /\ FirstIsOwn(r)
    /\ queue' = [queue EXCEPT ![r] = Tail(@)]
    /\ Handled(r, Head(queue[r]))
    /\ pc' = [pc EXCEPT ![r] = AfterHandle(Head(queue[r]))]
    /\ UNCHANGED <<graphVars, buf, curr, driverged, select_count, pos,
                   replies, doneClosed, mainVars>>

SelectSend(r, n) ==
    /\ BufferSize = 1
    /\ pc[r] = "select"
    /\ Pending(r, n)
    /\ queue[n] = <<>>
    /\ FirstIsSend(r, n)
    /\ queue' = [queue EXCEPT ![n] = Append(@, curr_state(r))]
    /\ Sent(r, n)
    /\ pc' = [pc EXCEPT ![r] = AfterEvent(select_count[r] - 1, driverged[r])]
    /\ UNCHANGED <<graphVars, buf, curr, driverged, job, at,
                   replies, doneClosed, mainVars>>

\* r's and n's selects meet at n's unqueued driver.
SelectMeet(r, n) ==
    /\ BufferSize = 0
    /\ pc[r] = "select"
    /\ pc[n] = "select"
    /\ Pending(r, n)
    /\ Sent(r, n)
    /\ Handled(n, curr_state(r))
    /\ pc' = [pc EXCEPT ![r] = AfterEvent(select_count[r] - 1, driverged[r]),
                        ![n] = AfterHandle(curr_state(r))]
    /\ UNCHANGED <<graphVars, buf, curr, driverged, queue,
                   replies, doneClosed, mainVars>>

SelectClosed(r) ==
    /\ pc[r] = "select"
    /\ doneClosed
    /\ pc' = [pc EXCEPT ![r] = "exited"]
    /\ UNCHANGED <<graphVars, buf, curr, driverged, select_count, pos, job, at,
                   queue, replies, doneClosed, mainVars>>

---------------------------------------------------------------------------
(* What a router does between two selects *)

\* The distance to d by way of the neighbour whose state r has in hand
ViaNeighbour(r, d) == Plus(Link(r, job[r].src), Deref(job[r]).dist[d])

\* Mutant: the loop stops one destination early.
BetterButLast(r) ==
    {d \in Iterations(r) \ {N - 1} :
        ViaNeighbour(r, d) < buf[r][NextSlot(r)].dist[d]}

Better(r) ==
    {d \in Iterations(r) : ViaNeighbour(r, d) < buf[r][NextSlot(r)].dist[d]}

Update(r) ==
    /\ pc[r] = "update"
    /\ buf' = [buf EXCEPT ![r][NextSlot(r)].dist =
                  [d \in Node |-> IF d \in Better(r) THEN ViaNeighbour(r, d)
                                                     ELSE @[d]]]
    /\ driverged' = [driverged EXCEPT ![r] = @ \/ Better(r) # {}]
    /\ at' = [at EXCEPT ![r] = @ + Chunk]
    /\ pc' = [pc EXCEPT ![r] = IF LastIterations(r)
                                 THEN AfterEvent(select_count[r], driverged'[r])
                                 ELSE "update"]
    /\ UNCHANGED <<graphVars, curr, select_count, pos, job,
                   queue, replies, doneClosed, mainVars>>

\* The buffers rotate.  What follows the copy in the code (select_count,
\* select_list[].job and driverged) is r's own and set here.
Cycle(r) ==
    /\ pc[r] = "cycle"
    /\ curr' = [curr EXCEPT ![r] = NextSlot(r)]
    /\ buf' = [buf EXCEPT ![r][PrevSlot(r)].epoch = buf[r][NextSlot(r)].epoch + 1]
    /\ select_count' = [select_count EXCEPT ![r] = total_select_count(r)]
    /\ driverged' = [driverged EXCEPT ![r] = FALSE]
    /\ at' = [at EXCEPT ![r] = 0]
    /\ pc' = [pc EXCEPT ![r] = "copy"]
    /\ UNCHANGED <<graphVars, pos, job, queue, replies, doneClosed, mainVars>>

Copy(r) ==
    /\ pc[r] = "copy"
    /\ buf' = [buf EXCEPT ![r][NextSlot(r)].dist =
                  [d \in Node |-> IF d \in Iterations(r) THEN buf[r][curr[r]].dist[d]
                                                         ELSE @[d]]]
    /\ at' = [at EXCEPT ![r] = @ + Chunk]
    /\ pc' = [pc EXCEPT ![r] = IF LastIterations(r) THEN "select" ELSE "copy"]
    /\ UNCHANGED <<graphVars, curr, driverged, select_count, pos, job,
                   queue, replies, doneClosed, mainVars>>

\* Mutant: converged does not ask whether the state was sent to everyone.
ReplyBeforeSent(r) == IF ~driverged[r] THEN curr_state(r) ELSE NullJob

\* Mutant: converged forgets the two entries that are always in the list.
ReplyAtZero(r) ==
    IF select_count[r] = 0 /\ ~driverged[r] THEN curr_state(r) ELSE NullJob

\* The answer to the NULL job: r's current state if r has sent it to everyone
\* and knows no better one, NULL otherwise.
ReplyOf(r) ==
    IF select_count[r] = 2 /\ ~driverged[r] THEN curr_state(r) ELSE NullJob

\* driver_schedule(completed_driver, ...) on a queued driver
Reply(r) ==
    /\ BufferSize = 1
    /\ pc[r] = "reply"
    /\ replies = <<>>
    /\ replies' = Append(replies, ReplyOf(r))
    /\ pc' = [pc EXCEPT ![r] = AfterEvent(select_count[r], driverged[r])]
    /\ UNCHANGED <<graphVars, buf, curr, driverged, select_count, pos, job, at,
                   queue, doneClosed, mainVars>>

---------------------------------------------------------------------------
(* The main thread: check_done, then the shutdown in run_stress *)

\* Mutant: the second loop goes on from the index the first one ended with.
FlushedNoReset ==
    /\ mpc' = IF mi = N - 1 THEN "collect" ELSE "flush"
    /\ mi' = mi + 1
    /\ UNCHANGED <<round, valid, completed>>

\* Main's driver_schedule(drivers[mi], NULL) returned.
Flushed ==
    /\ mpc' = IF mi = N - 1 THEN "collect" ELSE "flush"
    /\ mi' = (mi + 1) % N
    /\ UNCHANGED <<round, valid, completed>>

Flush ==
    /\ BufferSize = 1
    /\ mpc = "flush"
    /\ queue[mi] = <<>>
    /\ queue' = [queue EXCEPT ![mi] = Append(@, NullJob)]
    /\ Flushed
    /\ UNCHANGED <<graphVars, routerVars, replies, doneClosed>>

FlushMeet ==
    /\ BufferSize = 0
    /\ mpc = "flush"
    /\ pc[mi] = "select"
    /\ Handled(mi, NullJob)
    /\ pc' = [pc EXCEPT ![mi] = AfterHandle(NullJob)]
    /\ Flushed
    /\ UNCHANGED <<graphVars, buf, curr, driverged, select_count, pos,
                   queue, replies, doneClosed>>

\* Mutant: the second round does not compare epochs.
AcceptsAnyEpoch(j) == j # NullJob

\* Mutant: a NULL answer does not invalidate the round.
AcceptsNull(j) ==
    j # NullJob /\ round = 2 => Deref(completed[j.src]).epoch = Deref(j).epoch

\* The answer leaves valid as it is: in the second round the epoch of the
\* state kept from the first one is read again.
Accepts(j) ==
    /\ j # NullJob
    /\ round = 2 => Deref(completed[j.src]).epoch = Deref(j).epoch

\* Main's driver_handle(completed_driver, ...) returned j.
Collected(j) ==
    /\ valid' = (valid /\ Accepts(j))
    /\ completed' = IF round = 1 /\ j # NullJob
                      THEN [completed EXCEPT ![j.src] = j] ELSE completed
    /\ mi' = (mi + 1) % N
    /\ IF mi < N - 1 THEN UNCHANGED <<mpc, round>>
       ELSE IF ~valid' THEN mpc' = "sleep" /\ UNCHANGED round
       ELSE IF round = 1 THEN mpc' = "flush" /\ round' = 2
       ELSE mpc' = "check" /\ UNCHANGED round

Collect ==
    /\ BufferSize = 1
    /\ mpc = "collect"
    /\ replies # <<>>
    /\ replies' = Tail(replies)
    /\ Collected(Head(replies))
    /\ UNCHANGED <<graphVars, routerVars, queue, doneClosed>>

\* r's driver_schedule and main's driver_handle meet at the unqueued
\* completed_driver.
CollectMeet(r) ==
    /\ BufferSize = 0
    /\ mpc = "collect"
    /\ pc[r] = "reply"
    /\ Collected(ReplyOf(r))
    /\ pc' = [pc EXCEPT ![r] = AfterEvent(select_count[r], driverged[r])]
    /\ UNCHANGED <<graphVars, buf, curr, driverged, select_count, pos, job, at,
                   queue, replies, doneClosed>>

\* check_done returned false; after the usleep it is called again.
Sleep ==
    /\ mpc = "sleep"
    /\ mpc' = "flush"
    /\ round' = 1
    /\ mi' = 0
    /\ valid' = TRUE
    /\ completed' = [r \in Node |-> NullJob]
    /\ UNCHANGED <<graphVars, routerVars, queue, replies, doneClosed>>

\* check_done's assertions held and it returned true.
Close ==
    /\ mpc = "check"
    /\ doneClosed' = TRUE
    /\ mpc' = "join"
    /\ mi' = 0
    /\ UNCHANGED <<graphVars, routerVars, queue, replies, round, valid, completed>>

Join ==
    /\ mpc = "join"
    /\ pc[mi] = "exited"
    /\ mpc' = IF mi = N - 1 THEN "done" ELSE "join"
    /\ mi' = (mi + 1) % N
    /\ UNCHANGED <<graphVars, routerVars, queue, replies, doneClosed,
                   round, valid, completed>>

\* run_stress returned.
Done == mpc = "done" /\ UNCHANGED vars

---------------------------------------------------------------------------

Send(r) == \E n \in Neighbours(r) : SelectSend(r, n) \/ SelectMeet(r, n)

Router(r) ==
    \/ SelectOwn(r)
    \/ Send(r)
    \/ SelectClosed(r)
    \/ Update(r)
    \/ Cycle(r)
    \/ Copy(r)
    \/ Reply(r)
    \/ CollectMeet(r)

Main == Flush \/ FlushMeet \/ Collect \/ Sleep \/ Close \/ Join

Next == (\E r \in Node : Router(r)) \/ Main \/ Done

Spec == Init /\ [][Next]_vars

\* A thread that can go on does.  Beyond that, a router whose neighbours'
\* drivers have room again and again gets to send: this is what the usleep(1000)
\* between two check_done's is for, as the NULL jobs of main come before the
\* sends in every select_list and fill the neighbours' drivers.
Fairness ==
    /\ WF_vars(Main \/ \E r \in Node : CollectMeet(r))
    /\ \A r \in Node : WF_vars(Router(r)) /\ SF_vars(Send(r))

FairSpec == Spec /\ Fairness

---------------------------------------------------------------------------
(* Properties *)

\* The variables have their types.
TypeOK ==
    /\ topology \in Topologies
    /\ solution \in [Node -> [Node -> Dist]]
    /\ pc \in [Node -> {"select", "update", "cycle", "copy", "reply", "exited"}]
    /\ buf \in [Node -> [Slot -> [epoch : Nat, dist : [Node -> Dist]]]]
    /\ curr \in [Node -> Slot]
    /\ driverged \in [Node -> BOOLEAN]
    /\ select_count \in [Node -> Nat]
    /\ DOMAIN pos = Node
    /\ \A r \in Node : pos[r] \in [Neighbours(r) -> Nat]
    /\ job \in [Node -> Job]
    /\ at \in [Node -> Nat]
    /\ queue \in [Node -> Seq(Job)]
    /\ replies \in Seq(Job)
    /\ doneClosed \in BOOLEAN
    /\ mpc \in {"flush", "collect", "sleep", "check", "join", "done"}
    /\ round \in {1, 2}
    /\ mi \in Node
    /\ valid \in BOOLEAN
    /\ completed \in [Node -> Job]

\* No router ever believes in a path shorter than the shortest one, in any of
\* its three buffers, however late it reads the buffers of its neighbours.
NoUnderestimate ==
    \A r, d \in Node : \A s \in Slot : buf[r][s].dist[d] >= solution[r][d]

\* The vector r's next broadcast will improve on
Best(r) == IF pc[r] = "copy" THEN Deref(curr_state(r)).dist
                             ELSE buf[r][NextSlot(r)].dist

\* r's current state was sent to n and n is done with it.
HeardOf(r, n) ==
    /\ ~Pending(r, n)
    /\ \A i \in 1 .. Len(queue[n]) : queue[n][i] # curr_state(r)
    /\ pc[n] = "update" => job[n] # curr_state(r)

\* An entry that left the select_list of this epoch has done its work: the
\* neighbour knows every path by way of r that r announces, although r goes on
\* improving its own state and the list is permuted by every send.
HeardMeansKnown ==
    \A r \in Node : \A n \in Neighbours(r) :
        HeardOf(r, n) =>
            \A d \in Node : Best(n)[d] <= Link(n, r) + Deref(curr_state(r)).dist[d]

\* Router r has nothing to read, to send or to announce.
Quiet(r) ==
    /\ pc[r] \in {"select", "exited"}
    /\ queue[r] = <<>>
    /\ select_count[r] = 2
    /\ ~driverged[r]

\* The computation comes to rest only at the answer.
QuietMeansSolved ==
    (\A r \in Node : Quiet(r)) =>
        \A r \in Node : Deref(curr_state(r)).dist = solution[r]

\* stress.c:284: when check_done accepts, every state it collected is the
\* solution.
Agreement ==
    mpc = "check" =>
        \A r \in Node : completed[r] \in Pointer
                        /\ Deref(completed[r]).dist = solution[r]

\* stress.c:223-224 and the free()s after them: main closes done_driver only
\* when every router waits in its select with nothing left to do, so that
\* none leaves with an unannounced state or frees one another router reads.
ClosedWhenQuiet ==
    mpc \in {"check", "join", "done"} => \A r \in Node : Quiet(r)

\* The slots the loop r is in writes
Writes(r) == IF pc[r] \in {"update", "copy"} THEN {NextSlot(r)} ELSE {}

\* No router reads a distance vector while its owner overwrites it: three
\* buffers are enough for the drivers' buffering.  (That main does not, when it
\* looks at completed[], is part of ClosedWhenQuiet.)
NoTornRead ==
    \A r \in Node : pc[r] = "update" => job[r].slot \notin Writes(job[r].src)

\* In a round every router answers exactly once: when the second round starts
\* completed[] has no entry left that malloc filled, and none twice.
RepliesComplete ==
    (mpc = "check" \/ round = 2) => \A r \in Node : completed[r].src = r

\* r has a NULL job it did not answer.
Waits(r) == queue[r] # <<>> /\ Head(queue[r]) = NullJob
Outstanding(r) == Waits(r) \/ pc[r] = "reply"

\* r's next step waits for nobody.
CanGoOn(r) ==
    \/ pc[r] \in {"update", "cycle", "copy"}
    \/ pc[r] = "select" /\ (doneClosed \/ queue[r] # <<>>)
    \/ pc[r] = "reply" /\ BufferSize = 1 /\ replies = <<>>

\* There is no circle of threads that wait for each other, although a router
\* that answers reads no jobs and main collects no answer before it has asked
\* everyone: whenever main's next call blocks, a router it waits for goes on
\* without main and without the other routers.
NoCircularWait ==
    /\ mpc = "flush" =>
         \/ IF BufferSize = 1 THEN queue[mi] = <<>> ELSE pc[mi] = "select"
         \/ CanGoOn(mi)
    /\ mpc = "collect" =>
         \/ replies # <<>>
         \/ \E r \in Node : Outstanding(r) /\ ((BufferSize = 0 /\ pc[r] = "reply") \/ CanGoOn(r))
    /\ mpc = "join" => pc[mi] = "exited" \/ CanGoOn(mi)

\* An epoch is announced for a reason: each one is the next in number, and its
\* distances are nowhere worse and somewhere better than the last one's.
EpochsImprove ==
    [][\A r \in Node : curr'[r] # curr[r] =>
         LET old == buf[r][curr[r]]
             new == buf'[r][curr'[r]]
         IN  /\ new.epoch = old.epoch + 1
             /\ \A d \in Node : new.dist[d] <= old.dist[d]
             /\ new.dist # old.dist]_vars

\* What r has gained on the topology file: the lengths its distances have gone
\* below, one by one.
Gained(r) ==
    UNION {{d} \X (Deref(curr_state(r)).dist[d] .. topology[r][d] - 1) : d \in Node}

\* Every epoch is paid for with a shorter distance.  So a router announces
\* itself a bounded number of times, in whatever order the news of its
\* neighbours come in and however stale they are.
EpochsPaid ==
    \A r \in Node : Deref(curr_state(r)).epoch <= 1 + Cardinality(Gained(r))

\* run_stress returns: the routing converges, the detection notices and every
\* thread is joined.
Terminates == <>(mpc = "done")
=============================================================================
