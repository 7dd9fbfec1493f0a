---------------------------- MODULE StressProofs ----------------------------
(***************************************************************************)
(* For every number of routers, every topology and every interleaving of   *)
(* the threads: the variables keep their types, distances are never too    *)
(* short, and, with unqueued drivers, nobody reads a distance vector while *)
(* its owner writes it.                                                    *)
(*                                                                         *)
(* The last of these rests on the select lists.  A router starts an epoch  *)
(* when its list is down to two entries (ListInv), and a neighbour that is *)
(* still reading its last state keeps an entry in the list (HoldInv); so   *)
(* of its three vectors only the current one and the one before are read,  *)
(* and the one it writes is the third.                                     *)
(***************************************************************************)
EXTENDS Stress, FiniteSetTheorems, SequenceTheorems, TLAPS

\* The types of one distance vector and of all of them
Vector == [epoch : Nat, dist : [Node -> Dist]]
Vectors == [Node -> [Slot -> Vector]]

---------------------------------------------------------------------------
(* Arithmetic and cardinalities *)

\* A remainder is below its modulus, and of a smaller number the number itself.
LEMMA SmallMod ==
    ASSUME NEW M \in Nat \ {0}, NEW x \in Nat
    PROVE  /\ x % M \in 0 .. M - 1
           /\ x < M => x % M = x
           /\ M % M = 0
<1>1. M % M = 0
  OBVIOUS
<1> QED
  BY <1>1

\* Two distances add up without wrapping: inf_distance is half of what a
\* distance_t holds.
LEMMA PlusExact ==
    ASSUME NEW a \in Dist, NEW b \in Dist
    PROVE  Plus(a, b) = a + b
<1> DEFINE M == 2 * (Inf + 1)
           x == a + b
<1>1. M \in Nat \ {0} /\ x \in Nat /\ x < M
  BY SizeAssumption DEF Dist
<1> HIDE DEF M, x
<1>2. x % M = x
  BY <1>1, SmallMod
<1> QED
  BY <1>2 DEF Plus, M, x

\* The three buffers rotate: current, next and previous are three, and what was
\* current is previous after a rotation.
LEMMA SlotRotation ==
    ASSUME NEW s \in Slot
    PROVE  /\ (s + 1) % 3 \in Slot /\ (s + 2) % 3 \in Slot
           /\ (s + 1) % 3 # s /\ (s + 2) % 3 # s /\ (s + 1) % 3 # (s + 2) % 3
           /\ (((s + 1) % 3) + 2) % 3 = s
BY DEF Slot

\* The index of the loops of main over the drivers.
LEMMA NextIndex ==
    ASSUME NEW i \in Node
    PROVE  /\ (i + 1) % N \in Node
           /\ i < N - 1 => (i + 1) % N = i + 1
           /\ i = N - 1 => (i + 1) % N = 0
<1>1. N \in Nat \ {0} /\ i \in Nat /\ i + 1 <= N
  BY SizeAssumption DEF Node
<1> DEFINE x == i + 1
<1>2. x \in Nat /\ N \in Nat \ {0} /\ x <= N
  BY <1>1
<1> HIDE DEF x
<1>3. x % N \in 0 .. N - 1 /\ (x < N => x % N = x) /\ (x = N => x % N = 0)
  BY <1>2, SmallMod
<1> QED
  BY <1>1, <1>3 DEF Node, x

\* Select lists are finite, and have at least two entries.
LEMMA CountsAreNat ==
    ASSUME NEW r \in Node
    PROVE  /\ IsFiniteSet(Neighbours(r))
           /\ total_select_count(r) \in Nat
           /\ total_select_count(r) >= 2
           /\ \A n \in Node :
                 Cardinality({m \in Neighbours(r) : m < n}) \in Nat
<1>1. IsFiniteSet(Node)
  BY FS_Interval, SizeAssumption DEF Node
<1>2. IsFiniteSet(Neighbours(r)) /\ Neighbours(r) \subseteq Node
  BY <1>1, FS_Subset DEF Neighbours
<1>3. \A n \in Node : IsFiniteSet({m \in Neighbours(r) : m < n})
  BY <1>2, FS_Subset
<1> QED
  BY <1>2, <1>3, FS_CardinalityType DEF total_select_count

---------------------------------------------------------------------------
(* Types *)

\* What the types need besides themselves: a router that is in the update loop
\* has a state in hand.
InHand ==
    /\ solution = Solution[topology]
    /\ \A r \in Node : pc[r] = "update" => job[r] \in Pointer

TypeInv == TypeOK /\ InHand

\* The set-up in create_topology, router and run_stress.
LEMMA InitTypes == Init => TypeInv
<1> SUFFICES ASSUME Init PROVE TypeInv
  OBVIOUS
<1>1. topology \in Topologies /\ topology \in [Node -> [Node -> Dist]]
  BY TopologyAssumption DEF Init
<1>2. solution = Solution[topology] /\ solution \in [Node -> [Node -> Dist]]
  BY <1>1, SolutionAssumption DEF Init
<1>3. buf \in [Node -> [Slot -> [epoch : Nat, dist : [Node -> Dist]]]]
  BY <1>1 DEF Init, InitRouter, Slot
<1>4. curr \in [Node -> Slot] /\ select_count \in [Node -> Nat] /\ at \in [Node -> Nat]
  BY CountsAreNat DEF Init, InitRouter, Slot
<1>5. \A r \in Node : pos[r] \in [Neighbours(r) -> Nat]
  <2> SUFFICES ASSUME NEW r \in Node
               PROVE  pos[r] \in [Neighbours(r) -> Nat]
    OBVIOUS
  <2>1. pos[r] = [n \in Neighbours(r) |->
                    2 + Cardinality({m \in Neighbours(r) : m < n})]
    BY DEF Init, InitRouter
  <2>2. \A n \in Neighbours(r) : Cardinality({m \in Neighbours(r) : m < n}) \in Nat
    BY CountsAreNat DEF Neighbours
  <2> QED
    BY <2>1, <2>2
<1>6. /\ DOMAIN pos = Node /\ pc \in [Node -> {"select", "update", "cycle", "copy", "reply", "exited"}]
      /\ \A r \in Node : pc[r] # "update"
      /\ driverged \in [Node -> BOOLEAN]
  BY DEF Init, InitRouter
<1>7. job \in [Node -> Job] /\ completed \in [Node -> Job]
  BY DEF Init, InitRouter, InitMain, Job
<1>8. queue \in [Node -> Seq(Job)] /\ replies \in Seq(Job)
  <2>1. <<>> \in Seq(Job)
    BY EmptySeq
  <2> QED
    BY <2>1 DEF Init
<1>9. /\ doneClosed \in BOOLEAN
      /\ mpc \in {"flush", "collect", "sleep", "check", "join", "done"}
      /\ round \in {1, 2} /\ mi \in Node /\ valid \in BOOLEAN
  <2>1. mi \in Node
    BY SizeAssumption DEF Init, InitMain, Node
  <2> QED
    BY <2>1 DEF Init, InitMain
<1>10. InHand
  BY <1>2, <1>6 DEF InHand
<1> QED
  BY <1>1, <1>2, <1>3, <1>4, <1>5, <1>6, <1>7, <1>8, <1>9, <1>10
     DEF TypeInv, TypeOK

\* Of the jobs in the drivers the first is one, and so are all that are added.
LEMMA JobsOfDrivers ==
    ASSUME TypeOK, NEW r \in Node, NEW j \in Job
    PROVE  /\ curr_state(r) \in Pointer /\ ReplyOf(r) \in Job
           /\ [queue EXCEPT ![r] = Append(@, j)] \in [Node -> Seq(Job)]
           /\ Append(replies, j) \in Seq(Job)
           /\ queue[r] # <<>> => /\ Head(queue[r]) \in Job
                                 /\ [queue EXCEPT ![r] = Tail(@)] \in [Node -> Seq(Job)]
           /\ replies # <<>> => Head(replies) \in Job /\ Tail(replies) \in Seq(Job)
<1>1. curr_state(r) \in Pointer /\ ReplyOf(r) \in Job
  BY DEF TypeOK, curr_state, ReplyOf, Pointer, Job
<1>2. queue \in [Node -> Seq(Job)] /\ queue[r] \in Seq(Job) /\ replies \in Seq(Job)
  BY DEF TypeOK
<1>3. Append(queue[r], j) \in Seq(Job) /\ Append(replies, j) \in Seq(Job)
  BY <1>2, AppendProperties
<1>4. queue[r] # <<>> => Head(queue[r]) \in Job /\ Tail(queue[r]) \in Seq(Job)
  BY <1>2, HeadTailProperties
<1>5. replies # <<>> => Head(replies) \in Job /\ Tail(replies) \in Seq(Job)
  BY <1>2, HeadTailProperties
<1> QED
  BY <1>1, <1>2, <1>3, <1>4, <1>5

\* A router that has sent its state to n has one entry less in its list.
LEMMA SentTypes ==
    ASSUME TypeInv, NEW r \in Node, NEW n \in Neighbours(r), Pending(r, n), Sent(r, n)
    PROVE  /\ select_count' \in [Node -> Nat]
           /\ select_count'[r] = select_count[r] - 1
           /\ \A q \in Node : pos'[q] \in [Neighbours(q) -> Nat]
<1>1. /\ pos[r] \in [Neighbours(r) -> Nat] /\ select_count \in [Node -> Nat]
      /\ \A q \in Node : pos[q] \in [Neighbours(q) -> Nat]
  BY DEF TypeInv, TypeOK
<1>2. select_count[r] - 1 \in Nat
  BY <1>1 DEF Pending
<1>3. select_count' \in [Node -> Nat] /\ select_count'[r] = select_count[r] - 1
  BY <1>1, <1>2 DEF Sent
<1>4. pos'[r] \in [Neighbours(r) -> Nat]
  <2> DEFINE f == [m \in Neighbours(r) |->
                      CASE m = n -> select_count[r] - 1
                        [] m # n /\ pos[r][m] = select_count[r] - 1 -> pos[r][n]
                        [] OTHER -> pos[r][m]]
  <2>1. f \in [Neighbours(r) -> Nat]
    BY <1>1, <1>2
  <2>2. pos' = [pos EXCEPT ![r] = f]
    BY DEF Sent
  <2>3. pos'[r] = f
    BY <2>2 DEF TypeInv, TypeOK
  <2> QED
    BY <2>1, <2>3
<1>5. \A q \in Node \ {r} : pos'[q] = pos[q]
  BY DEF Sent, TypeInv, TypeOK
<1> QED
  BY <1>1, <1>3, <1>4, <1>5

\* Nothing changes the links.
LEMMA SameGraph ==
    ASSUME UNCHANGED graphVars
    PROVE  /\ topology' = topology /\ solution' = solution
           /\ \A r : Neighbours(r)' = Neighbours(r)
BY DEF graphVars, Neighbours, Link

\* Receiving a job leaves the receiver with it, and in the update loop only
\* when it is a state.
LEMMA HandledTypes ==
    ASSUME TypeInv, NEW r \in Node, NEW j \in Job, Handled(r, j),
           pc'[r] = AfterHandle(j),
           \A q \in Node : q # r /\ pc'[q] = "update" => pc[q] = "update"
    PROVE  /\ job' \in [Node -> Job] /\ at' \in [Node -> Nat]
           /\ \A q \in Node : pc'[q] = "update" => job'[q] \in Pointer
<1>1. job \in [Node -> Job] /\ at \in [Node -> Nat]
  BY DEF TypeInv, TypeOK
<1>2. /\ job' \in [Node -> Job] /\ at' \in [Node -> Nat] /\ job'[r] = j
      /\ \A q \in Node : q # r => job'[q] = job[q]
  BY <1>1 DEF Handled
<1>3. AfterHandle(j) = "update" => j \in Pointer
  BY DEF AfterHandle, Job
<1> QED
  BY <1>2, <1>3 DEF TypeInv, InHand

\* Main goes through the routers in order, over and over.
LEMMA MainTypes ==
    ASSUME TypeInv, NEW j \in Job, Flushed \/ Collected(j)
    PROVE  /\ mpc' \in {"flush", "collect", "sleep", "check", "join", "done"}
           /\ round' \in {1, 2}
           /\ mi' \in Node
           /\ valid' \in BOOLEAN
           /\ completed' \in [Node -> Job]
<1>1. mi' \in Node
  BY NextIndex DEF TypeInv, TypeOK, Flushed, Collected
<1>2. CASE Flushed
  BY <1>1, <1>2 DEF TypeInv, TypeOK, Flushed
<1>3. CASE Collected(j)
  <2>1. valid' \in BOOLEAN
    BY <1>3 DEF TypeInv, TypeOK, Collected, Accepts
  <2>2. completed' \in [Node -> Job]
    BY <1>3 DEF TypeInv, TypeOK, Collected, Job, Pointer
  <2>3. /\ mpc' \in {"flush", "collect", "sleep", "check", "join", "done"}
        /\ round' \in {1, 2}
    BY <1>3 DEF TypeInv, TypeOK, Collected
  <2> QED
    BY <1>1, <2>1, <2>2, <2>3
<1> QED
  BY <1>2, <1>3

\* b with the distances, or the epoch, of one vector replaced
WithDist(b, r, s, v) == [b EXCEPT ![r][s].dist = v]
WithEpoch(b, r, s, v) == [b EXCEPT ![r][s].epoch = v]

\* Writing the distances of a vector.
LEMMA WriteDist ==
    ASSUME NEW b \in Vectors,
           NEW r \in Node, NEW s \in Slot, NEW v \in [Node -> Dist]
    PROVE  LET c == WithDist(b, r, s, v) IN
           /\ c \in Vectors
           /\ \A q \in Node : q # r => c[q] = b[q]
           /\ \A t \in Slot : t # s => c[r][t] = b[r][t]
           /\ c[r][s].dist = v
           /\ c[r][s].epoch = b[r][s].epoch
<1> DEFINE c == WithDist(b, r, s, v)
           w == [b[r][s] EXCEPT !.dist = v]
<1>1. b[r][s] \in Vector
  BY DEF Vectors
<1>2. w \in Vector /\ w.dist = v /\ w.epoch = b[r][s].epoch
  BY <1>1 DEF Vector
<1>3. c = [b EXCEPT ![r] = [b[r] EXCEPT ![s] = w]]
  BY DEF WithDist
<1>4. b \in [Node -> [Slot -> Vector]]
  BY DEF Vectors
<1> HIDE DEF w, c
<1> DEFINE f == [b[r] EXCEPT ![s] = w]
<1>5. f \in [Slot -> Vector] /\ f[s] = w /\ \A t \in Slot : t # s => f[t] = b[r][t]
  BY <1>2, <1>4
<1>6. c = [b EXCEPT ![r] = f]
  BY <1>3
<1> HIDE DEF f
<1>7. /\ c \in [Node -> [Slot -> Vector]]
      /\ \A q \in Node : q # r => c[q] = b[q]
      /\ c[r] = f
  BY <1>4, <1>5, <1>6
<1> QED
  BY <1>2, <1>5, <1>7 DEF c, Vectors

\* Writing the epoch of a vector.
LEMMA WriteEpoch ==
    ASSUME NEW b \in Vectors,
           NEW r \in Node, NEW s \in Slot, NEW v \in Nat
    PROVE  LET c == WithEpoch(b, r, s, v) IN
           /\ c \in Vectors
           /\ \A q \in Node : q # r => c[q] = b[q]
           /\ \A t \in Slot : t # s => c[r][t] = b[r][t]
           /\ c[r][s].dist = b[r][s].dist
           /\ c[r][s].epoch = v
<1> DEFINE c == WithEpoch(b, r, s, v)
           w == [b[r][s] EXCEPT !.epoch = v]
<1>1. b[r][s] \in Vector
  BY DEF Vectors
<1>2. w \in Vector /\ w.dist = b[r][s].dist /\ w.epoch = v
  BY <1>1 DEF Vector
<1>3. c = [b EXCEPT ![r] = [b[r] EXCEPT ![s] = w]]
  BY DEF WithEpoch
<1>4. b \in [Node -> [Slot -> Vector]]
  BY DEF Vectors
<1> HIDE DEF w, c
<1> DEFINE f == [b[r] EXCEPT ![s] = w]
<1>5. f \in [Slot -> Vector] /\ f[s] = w /\ \A t \in Slot : t # s => f[t] = b[r][t]
  BY <1>2, <1>4
<1>6. c = [b EXCEPT ![r] = f]
  BY <1>3
<1> HIDE DEF f
<1>7. /\ c \in [Node -> [Slot -> Vector]]
      /\ \A q \in Node : q # r => c[q] = b[q]
      /\ c[r] = f
  BY <1>4, <1>5, <1>6
<1> QED
  BY <1>2, <1>5, <1>7 DEF c, Vectors

\* A router writes distances into its vectors and nothing else: what it adds up
\* it only keeps when it is below a distance.
LEMMA WrittenVectors ==
    ASSUME TypeInv, NEW r \in Node, Update(r) \/ Copy(r) \/ Cycle(r)
    PROVE  /\ buf' \in [Node -> [Slot -> [epoch : Nat, dist : [Node -> Dist]]]]
           /\ \A q \in Node : q # r => buf'[q] = buf[q]
           /\ \A s \in Slot : s # NextSlot(r) => buf'[r][s].dist = buf[r][s].dist
           /\ Cycle(r) => buf'[r][NextSlot(r)].dist = buf[r][NextSlot(r)].dist
           /\ Copy(r) => \A d \in Node :
                 \/ buf'[r][NextSlot(r)].dist[d] = buf[r][NextSlot(r)].dist[d]
                 \/ buf'[r][NextSlot(r)].dist[d] = buf[r][curr[r]].dist[d]
           /\ Update(r) => \A d \in Node :
                 buf'[r][NextSlot(r)].dist[d] =
                     IF d \in Better(r) THEN ViaNeighbour(r, d)
                                        ELSE buf[r][NextSlot(r)].dist[d]
<1>0. buf \in Vectors /\ NextSlot(r) \in Slot
  BY SlotRotation DEF TypeInv, TypeOK, Vectors, Vector, NextSlot
<1>1. /\ buf \in [Node -> [Slot -> [epoch : Nat, dist : [Node -> Dist]]]]
      /\ NextSlot(r) \in Slot /\ PrevSlot(r) \in Slot /\ curr[r] \in Slot
      /\ PrevSlot(r) # NextSlot(r)
  BY SlotRotation DEF TypeInv, TypeOK, NextSlot, PrevSlot
<1>2. CASE Update(r)
  <2> DEFINE D == [d \in Node |-> IF d \in Better(r) THEN ViaNeighbour(r, d)
                                  ELSE buf[r][NextSlot(r)].dist[d]]
  <2>1. D \in [Node -> Dist]
    <3>1. \A d \in Better(r) : ViaNeighbour(r, d) \in Dist
      <4> SUFFICES ASSUME NEW d \in Better(r)
                   PROVE  ViaNeighbour(r, d) \in Dist
        OBVIOUS
      <4>1. /\ d \in Node /\ ViaNeighbour(r, d) < buf[r][NextSlot(r)].dist[d]
            /\ buf[r][NextSlot(r)].dist[d] \in Dist
        BY <1>1 DEF Better, Iterations
      <4>2. ViaNeighbour(r, d) \in Nat
        <5>1. job[r] \in Pointer
          BY <1>2 DEF TypeInv, InHand, Update
        <5>2. /\ job[r].src \in Node
              /\ Deref(job[r]).dist[d] \in Dist
          BY <1>1, <4>1, <5>1 DEF Pointer, Deref
        <5>3. Link(r, job[r].src) \in Dist
          BY <5>2, TopologyAssumption DEF Link, TypeInv, TypeOK
        <5> QED
          BY <5>2, <5>3, PlusExact, SizeAssumption DEF ViaNeighbour, Dist
      <4> QED
        BY <4>1, <4>2, SizeAssumption DEF Dist
    <3> QED
      BY <1>1, <3>1
  <2>2. buf' = WithDist(buf, r, NextSlot(r), D)
    BY <1>2 DEF Update, WithDist
  <2>3. ~Cycle(r) /\ ~Copy(r)
    BY <1>2 DEF Update, Cycle, Copy
  <2> HIDE DEF D
  <2>4. /\ buf' \in Vectors
        /\ \A q \in Node : q # r => buf'[q] = buf[q]
        /\ \A s \in Slot : s # NextSlot(r) => buf'[r][s] = buf[r][s]
        /\ buf'[r][NextSlot(r)].dist = D
        /\ buf'[r][NextSlot(r)].epoch = buf[r][NextSlot(r)].epoch
    BY <1>0, <2>1, <2>2, WriteDist
  <2> QED
    BY <2>3, <2>4 DEF D, Vectors, Vector
<1>3. CASE Copy(r)
  <2> DEFINE D == [d \in Node |-> IF d \in Iterations(r) THEN buf[r][curr[r]].dist[d]
                                  ELSE buf[r][NextSlot(r)].dist[d]]
  <2>1. D \in [Node -> Dist]
    BY <1>1
  <2>2. buf' = WithDist(buf, r, NextSlot(r), D)
    BY <1>3 DEF Copy, WithDist
  <2>3. ~Cycle(r) /\ ~Update(r)
    BY <1>3 DEF Update, Cycle, Copy
  <2> HIDE DEF D
  <2>4. /\ buf' \in Vectors
        /\ \A q \in Node : q # r => buf'[q] = buf[q]
        /\ \A s \in Slot : s # NextSlot(r) => buf'[r][s] = buf[r][s]
        /\ buf'[r][NextSlot(r)].dist = D
        /\ buf'[r][NextSlot(r)].epoch = buf[r][NextSlot(r)].epoch
    BY <1>0, <2>1, <2>2, WriteDist
  <2> QED
    BY <2>3, <2>4 DEF D, Vectors, Vector
<1>4. CASE Cycle(r)
  <2> DEFINE e == buf[r][NextSlot(r)].epoch + 1
  <2>0. PrevSlot(r) \in Slot
    BY <1>1
  <2>1. buf' = WithEpoch(buf, r, PrevSlot(r), e)
    BY <1>4 DEF Cycle, WithEpoch
  <2>2. ~Copy(r) /\ ~Update(r)
    BY <1>4 DEF Update, Cycle, Copy
  <2>3. e \in Nat
    BY <1>1
  <2> HIDE DEF e
  <2>4. /\ buf' \in Vectors
        /\ \A q \in Node : q # r => buf'[q] = buf[q]
        /\ \A s \in Slot : s # PrevSlot(r) => buf'[r][s] = buf[r][s]
        /\ buf'[r][PrevSlot(r)].dist = buf[r][PrevSlot(r)].dist
        /\ buf'[r][PrevSlot(r)].epoch = e
    BY <1>0, <2>0, <2>1, <2>3, WriteEpoch
  <2> QED
    BY <1>1, <2>2, <2>4 DEF Vectors, Vector
<1> QED
  BY <1>2, <1>3, <1>4

\* Each step of a router or of main keeps the types.
LEMMA StepTypes == TypeInv /\ [Next]_vars => TypeInv'
<1> SUFFICES ASSUME TypeInv, [Next]_vars
             PROVE  TypeInv'
  OBVIOUS
<1> USE DEF routerVars, mainVars
<1>0. ASSUME UNCHANGED <<graphVars, queue, replies, doneClosed, mainVars>>,
             pc' \in [Node -> {"select", "update", "cycle", "copy", "reply", "exited"}],
             buf' \in [Node -> [Slot -> [epoch : Nat, dist : [Node -> Dist]]]],
             curr' \in [Node -> Slot], driverged' \in [Node -> BOOLEAN],
             select_count' \in [Node -> Nat], at' \in [Node -> Nat],
             UNCHANGED <<pos, job>>,
             \A r \in Node : pc'[r] = "update" => pc[r] = "update"
      PROVE  TypeInv'
  BY <1>0, SameGraph DEF TypeInv, TypeOK, InHand
<1>1. ASSUME NEW r \in Node, SelectOwn(r)
      PROVE  TypeInv'
  <2>1. /\ Head(queue[r]) \in Job /\ queue' \in [Node -> Seq(Job)]
        /\ UNCHANGED graphVars
    <3>1. NullJob \in Job
      BY DEF Job
    <3> QED
      BY <1>1, <3>1, JobsOfDrivers DEF SelectOwn, TypeInv
  <2>2. /\ pc' \in [Node -> {"select", "update", "cycle", "copy", "reply", "exited"}]
        /\ pc'[r] = AfterHandle(Head(queue[r]))
        /\ \A q \in Node : q # r => pc'[q] = pc[q]
    BY <1>1 DEF SelectOwn, AfterHandle, TypeInv, TypeOK
  <2>3. /\ job' \in [Node -> Job] /\ at' \in [Node -> Nat]
        /\ \A q \in Node : pc'[q] = "update" => job'[q] \in Pointer
    BY <1>1, <2>1, <2>2, HandledTypes DEF SelectOwn
  <2> QED
    BY <1>1, <2>1, <2>2, <2>3, SameGraph DEF SelectOwn, TypeInv, TypeOK, InHand
<1>2. ASSUME NEW r \in Node, NEW n \in Neighbours(r), SelectSend(r, n)
      PROVE  TypeInv'
  <2>1. /\ curr_state(r) \in Job /\ queue' \in [Node -> Seq(Job)]
        /\ UNCHANGED graphVars
    <3>1. n \in Node
      BY DEF Neighbours
    <3>2. curr_state(r) \in Job
      BY JobsOfDrivers DEF TypeInv, Job
    <3> QED
      BY <1>2, <3>1, <3>2, JobsOfDrivers DEF SelectSend, TypeInv
  <2>2. /\ select_count' \in [Node -> Nat]
        /\ \A q \in Node : pos'[q] \in [Neighbours(q) -> Nat]
        /\ DOMAIN pos' = Node
    BY <1>2, SentTypes DEF SelectSend, Sent, TypeInv, TypeOK
  <2>3. /\ pc' \in [Node -> {"select", "update", "cycle", "copy", "reply", "exited"}]
        /\ \A q \in Node : pc'[q] = "update" => pc[q] = "update"
    BY <1>2 DEF SelectSend, AfterEvent, TypeInv, TypeOK
  <2> QED
    <3>1. /\ UNCHANGED <<buf, curr, driverged, job, at, replies, doneClosed>>
          /\ UNCHANGED <<mpc, round, mi, valid, completed>>
      BY <1>2 DEF SelectSend, mainVars
    <3>2. TypeOK'
      BY <2>1, <2>2, <2>3, <3>1, SameGraph DEF TypeInv, TypeOK
    <3>3. InHand'
      BY <2>1, <2>3, <3>1, SameGraph DEF TypeInv, InHand
    <3> QED
      BY <3>2, <3>3 DEF TypeInv
<1>3. ASSUME NEW r \in Node, NEW n \in Neighbours(r), SelectMeet(r, n)
      PROVE  TypeInv'
  <2>1. n \in Node /\ n # r /\ curr_state(r) \in Pointer /\ curr_state(r) \in Job
        /\ UNCHANGED graphVars
    BY <1>3, JobsOfDrivers DEF Neighbours, Job, TypeInv, SelectMeet
  <2>2. /\ select_count' \in [Node -> Nat]
        /\ \A q \in Node : pos'[q] \in [Neighbours(q) -> Nat]
        /\ DOMAIN pos' = Node
    BY <1>3, SentTypes DEF SelectMeet, Sent, TypeInv, TypeOK
  <2>3. /\ pc' \in [Node -> {"select", "update", "cycle", "copy", "reply", "exited"}]
        /\ pc'[n] = AfterHandle(curr_state(r))
        /\ \A q \in Node : q # n /\ pc'[q] = "update" => pc[q] = "update"
    BY <1>3, <2>1 DEF SelectMeet, AfterEvent, AfterHandle, TypeInv, TypeOK
  <2>4. /\ job' \in [Node -> Job] /\ at' \in [Node -> Nat]
        /\ \A q \in Node : pc'[q] = "update" => job'[q] \in Pointer
    BY <1>3, <2>1, <2>3, HandledTypes DEF SelectMeet
  <2> QED
    <3>1. /\ UNCHANGED <<buf, curr, driverged, queue, replies, doneClosed>>
          /\ UNCHANGED <<mpc, round, mi, valid, completed>>
      BY <1>3 DEF SelectMeet, mainVars
    <3>2. TypeOK'
      BY <2>1, <2>2, <2>3, <2>4, <3>1, SameGraph DEF TypeInv, TypeOK
    <3>3. InHand'
      BY <2>1, <2>4, <3>1, SameGraph DEF TypeInv, InHand
    <3> QED
      BY <3>2, <3>3 DEF TypeInv
<1>4. ASSUME NEW r \in Node, SelectClosed(r)
      PROVE  TypeInv'
  BY <1>0, <1>4 DEF SelectClosed, TypeInv, TypeOK
<1>5. ASSUME NEW r \in Node, Update(r)
      PROVE  TypeInv'
  <2>1. buf' \in [Node -> [Slot -> [epoch : Nat, dist : [Node -> Dist]]]]
    BY <1>5, WrittenVectors
  <2>2. at' \in [Node -> Nat]
    BY <1>5, SizeAssumption DEF Update, TypeInv, TypeOK
  <2>3. driverged' \in [Node -> BOOLEAN]
    BY <1>5 DEF Update, TypeInv, TypeOK
  <2>4. /\ pc' \in [Node -> {"select", "update", "cycle", "copy", "reply", "exited"}]
        /\ \A q \in Node : pc'[q] = "update" => pc[q] = "update"
    BY <1>5 DEF Update, AfterEvent, TypeInv, TypeOK
  <2> QED
    BY <1>0, <1>5, <2>1, <2>2, <2>3, <2>4 DEF Update, TypeInv, TypeOK
<1>6. ASSUME NEW r \in Node, Cycle(r)
      PROVE  TypeInv'
  <2>1. buf' \in [Node -> [Slot -> [epoch : Nat, dist : [Node -> Dist]]]]
    BY <1>6, WrittenVectors
  <2>2. /\ at' \in [Node -> Nat] /\ driverged' \in [Node -> BOOLEAN]
        /\ select_count' \in [Node -> Nat]
    BY <1>6, CountsAreNat DEF Cycle, TypeInv, TypeOK
  <2>3. curr' \in [Node -> Slot]
    BY <1>6, SlotRotation DEF Cycle, NextSlot, TypeInv, TypeOK
  <2>4. /\ pc' \in [Node -> {"select", "update", "cycle", "copy", "reply", "exited"}]
        /\ \A q \in Node : pc'[q] = "update" => pc[q] = "update"
    BY <1>6 DEF Cycle, TypeInv, TypeOK
  <2> QED
    BY <1>0, <1>6, <2>1, <2>2, <2>3, <2>4 DEF Cycle, TypeInv, TypeOK
<1>7. ASSUME NEW r \in Node, Copy(r)
      PROVE  TypeInv'
  <2>1. buf' \in [Node -> [Slot -> [epoch : Nat, dist : [Node -> Dist]]]]
    BY <1>7, WrittenVectors
  <2>2. at' \in [Node -> Nat]
    BY <1>7, SizeAssumption DEF Copy, TypeInv, TypeOK
  <2>4. /\ pc' \in [Node -> {"select", "update", "cycle", "copy", "reply", "exited"}]
        /\ \A q \in Node : pc'[q] = "update" => pc[q] = "update"
    BY <1>7 DEF Copy, TypeInv, TypeOK
  <2> QED
    BY <1>0, <1>7, <2>1, <2>2, <2>4 DEF Copy, TypeInv, TypeOK
<1>8. ASSUME NEW r \in Node, Reply(r)
      PROVE  TypeInv'
  <2>1. replies' \in Seq(Job)
    <3>1. ReplyOf(r) \in Job
      BY JobsOfDrivers DEF TypeInv, Job
    <3> QED
      BY <1>8, <3>1, JobsOfDrivers DEF Reply, TypeInv
  <2>2. /\ pc' \in [Node -> {"select", "update", "cycle", "copy", "reply", "exited"}]
        /\ \A q \in Node : pc'[q] = "update" => pc[q] = "update"
    BY <1>8 DEF Reply, AfterEvent, TypeInv, TypeOK
  <2> QED
    BY <1>8, <2>1, <2>2, SameGraph DEF Reply, TypeInv, TypeOK, InHand
<1>9. ASSUME NEW r \in Node, CollectMeet(r)
      PROVE  TypeInv'
  <2>1. /\ mpc' \in {"flush", "collect", "sleep", "check", "join", "done"}
        /\ round' \in {1, 2} /\ mi' \in Node /\ valid' \in BOOLEAN
        /\ completed' \in [Node -> Job]
    <3>1. NullJob \in Job /\ ReplyOf(r) \in Job
      BY JobsOfDrivers DEF TypeInv, Job
    <3> QED
      BY <1>9, <3>1, MainTypes DEF CollectMeet
  <2>2. /\ pc' \in [Node -> {"select", "update", "cycle", "copy", "reply", "exited"}]
        /\ \A q \in Node : pc'[q] = "update" => pc[q] = "update"
    BY <1>9 DEF CollectMeet, AfterEvent, TypeInv, TypeOK
  <2> QED
    BY <1>9, <2>1, <2>2, SameGraph DEF CollectMeet, TypeInv, TypeOK, InHand
<1>10. ASSUME Flush
       PROVE  TypeInv'
  <2>1. NullJob \in Job /\ mi \in Node
    BY DEF Job, TypeInv, TypeOK
  <2>2. queue' \in [Node -> Seq(Job)]
    BY <1>10, <2>1, JobsOfDrivers DEF Flush, TypeInv
  <2>3. /\ mpc' \in {"flush", "collect", "sleep", "check", "join", "done"}
        /\ round' \in {1, 2} /\ mi' \in Node /\ valid' \in BOOLEAN
        /\ completed' \in [Node -> Job]
    BY <1>10, <2>1, MainTypes DEF Flush
  <2> QED
    BY <1>10, <2>2, <2>3, SameGraph DEF Flush, TypeInv, TypeOK, InHand
<1>11. ASSUME FlushMeet
       PROVE  TypeInv'
  <2>1. NullJob \in Job /\ mi \in Node
    BY DEF Job, TypeInv, TypeOK
  <2>2. /\ mpc' \in {"flush", "collect", "sleep", "check", "join", "done"}
        /\ round' \in {1, 2} /\ mi' \in Node /\ valid' \in BOOLEAN
        /\ completed' \in [Node -> Job]
    BY <1>11, <2>1, MainTypes DEF FlushMeet
  <2>3. /\ pc' \in [Node -> {"select", "update", "cycle", "copy", "reply", "exited"}]
        /\ pc'[mi] = AfterHandle(NullJob)
        /\ \A q \in Node : q # mi => pc'[q] = pc[q]
    BY <1>11, <2>1 DEF FlushMeet, AfterHandle, TypeInv, TypeOK
  <2>4. /\ job' \in [Node -> Job] /\ at' \in [Node -> Nat]
        /\ \A q \in Node : pc'[q] = "update" => job'[q] \in Pointer
    BY <1>11, <2>1, <2>3, HandledTypes DEF FlushMeet
  <2> QED
    BY <1>11, <2>2, <2>3, <2>4, SameGraph DEF FlushMeet, TypeInv, TypeOK, InHand
<1>12. ASSUME Collect
       PROVE  TypeInv'
  <2>1. NullJob \in Job /\ mi \in Node
    BY DEF Job, TypeInv, TypeOK
  <2>2. Head(replies) \in Job /\ replies' \in Seq(Job)
    BY <1>12, <2>1, JobsOfDrivers DEF Collect, TypeInv
  <2>3. /\ mpc' \in {"flush", "collect", "sleep", "check", "join", "done"}
        /\ round' \in {1, 2} /\ mi' \in Node /\ valid' \in BOOLEAN
        /\ completed' \in [Node -> Job]
    BY <1>12, <2>2, MainTypes DEF Collect
  <2> QED
    BY <1>12, <2>2, <2>3, SameGraph DEF Collect, TypeInv, TypeOK, InHand
<1>13. ASSUME Sleep \/ Close \/ Join
       PROVE  TypeInv'
  <2>1. /\ mpc' \in {"flush", "collect", "sleep", "check", "join", "done"}
        /\ round' \in {1, 2} /\ valid' \in BOOLEAN
        /\ completed' \in [Node -> Job] /\ doneClosed' \in BOOLEAN
    BY <1>13 DEF Sleep, Close, Join, TypeInv, TypeOK, Job
  <2>2. mi' \in Node
    <3>1. 0 \in Node
      BY SizeAssumption DEF Node
    <3> QED
      BY <1>13, <3>1, NextIndex DEF Sleep, Close, Join, TypeInv, TypeOK
  <2>3. UNCHANGED <<graphVars, routerVars, queue, replies>>
    BY <1>13 DEF Sleep, Close, Join
  <2> QED
    BY <2>1, <2>2, <2>3, SameGraph DEF TypeInv, TypeOK, InHand
<1>14. CASE Done \/ UNCHANGED vars
  BY <1>14, SameGraph DEF Done, vars, TypeInv, TypeOK, InHand
<1> QED
  BY <1>1, <1>2, <1>3, <1>4, <1>5, <1>6, <1>7, <1>8, <1>9, <1>10, <1>11, <1>12,
     <1>13, <1>14 DEF Next, Router, Send, Main

\* The variables keep their types, for every number of routers, topology and
\* size of the drivers' queues: no distance exceeds inf_distance, no index
\* leaves its array.
THEOREM TypeCorrect == Spec => []TypeOK
<1>1. TypeInv => TypeOK
  BY DEF TypeInv
<1> QED
  BY <1>1, InitTypes, StepTypes, PTL DEF Spec

---------------------------------------------------------------------------
(* No underestimate *)

\* A path that starts with a link and goes on as the neighbour says is no
\* shorter than the shortest one, if the neighbour's distance is none too
\* short.  The neighbour's vector may be of any age: only its owner's epoch
\* changed since, not this fact.
LEMMA ViaIsAbove ==
    ASSUME TypeInv, NoUnderestimate, NEW r \in Node, pc[r] = "update", NEW d \in Node
    PROVE  ViaNeighbour(r, d) >= solution[r][d]
<1> DEFINE n == job[r].src
           x == Deref(job[r]).dist[d]
<1>1. n \in Node /\ job[r].slot \in Slot /\ x = buf[n][job[r].slot].dist[d]
  BY DEF TypeInv, InHand, Pointer, Deref
<1>2. x \in Dist /\ x >= solution[n][d]
  <2>1. buf \in [Node -> [Slot -> [epoch : Nat, dist : [Node -> Dist]]]]
    BY DEF TypeInv, TypeOK
  <2> HIDE DEF n, x
  <2>2. x \in Dist
    BY <1>1, <2>1
  <2>3. x >= solution[n][d]
    BY <1>1 DEF NoUnderestimate
  <2> QED
    BY <2>2, <2>3
<1>3. Link(r, n) \in Dist /\ solution[r][d] \in Dist /\ solution[n][d] \in Dist
  <2>1. topology \in [Node -> [Node -> Dist]] /\ solution \in [Node -> [Node -> Dist]]
    BY TopologyAssumption DEF TypeInv, TypeOK
  <2> HIDE DEF n, x
  <2> QED
    BY <1>1, <2>1 DEF Link
<1>4. Link(r, n) # Inf => solution[r][d] <= Link(r, n) + solution[n][d]
  BY <1>1, SolutionAssumption DEF Link, TypeInv, TypeOK, InHand
<1>5. ViaNeighbour(r, d) = Link(r, n) + x
  BY <1>2, <1>3, PlusExact DEF ViaNeighbour
<1> HIDE DEF n, x
<1> QED
  BY <1>2, <1>3, <1>4, <1>5, SizeAssumption DEF Dist

\* No router believes in a path shorter than the shortest, in any of its three
\* vectors, whatever it reads of its neighbours' and whenever.
THEOREM NeverUnder == Spec => []NoUnderestimate
<1>1. Init => NoUnderestimate
  <2> SUFFICES ASSUME Init, NEW r \in Node, NEW d \in Node, NEW s \in Slot
               PROVE  buf[r][s].dist[d] >= solution[r][d]
    BY DEF NoUnderestimate
  <2>1. buf[r][s].dist = topology[r]
    BY DEF Init, InitRouter
  <2>2. topology[r][d] \in Dist /\ solution[r][d] \in Dist
        /\ solution[r][d] <= topology[r][d]
    BY TopologyAssumption, SolutionAssumption DEF Init
  <2> QED
    BY <2>1, <2>2, SizeAssumption DEF Dist
<1>2. TypeInv /\ NoUnderestimate /\ [Next]_vars => NoUnderestimate'
  <2> SUFFICES ASSUME TypeInv, NoUnderestimate, [Next]_vars
               PROVE  NoUnderestimate'
    OBVIOUS
  <2>1. ASSUME NEW r \in Node, Update(r) \/ Copy(r) \/ Cycle(r)
        PROVE  NoUnderestimate'
    <3>1. solution' = solution /\ NextSlot(r) \in Slot /\ curr[r] \in Slot
      BY <2>1, SameGraph, SlotRotation
         DEF Update, Copy, Cycle, NextSlot, TypeInv, TypeOK
    <3>2. \A q, d \in Node : \A s \in Slot : q # r \/ s # NextSlot(r) =>
             buf'[q][s].dist[d] >= solution[q][d]
      BY <2>1, WrittenVectors DEF NoUnderestimate
    <3>3. \A d \in Node : buf'[r][NextSlot(r)].dist[d] >= solution[r][d]
      <4> SUFFICES ASSUME NEW d \in Node
                   PROVE  buf'[r][NextSlot(r)].dist[d] >= solution[r][d]
        OBVIOUS
      <4>1. /\ buf[r][NextSlot(r)].dist[d] >= solution[r][d]
            /\ buf[r][curr[r]].dist[d] >= solution[r][d]
        BY <3>1 DEF NoUnderestimate
      <4>2. CASE Update(r)
        <5>1. ViaNeighbour(r, d) >= solution[r][d]
          BY <4>2, ViaIsAbove DEF Update
        <5> QED
          BY <4>1, <4>2, <5>1, WrittenVectors
      <4>3. CASE Copy(r)
        BY <4>1, <4>3, WrittenVectors
      <4>4. CASE Cycle(r)
        BY <4>1, <4>4, WrittenVectors
      <4> QED
        BY <2>1, <4>2, <4>3, <4>4
    <3> QED
      BY <3>1, <3>2, <3>3 DEF NoUnderestimate
  <2>2. ASSUME UNCHANGED <<graphVars, buf>>
        PROVE  NoUnderestimate'
    BY <2>2, SameGraph DEF NoUnderestimate
  <2>3. \/ UNCHANGED <<graphVars, buf>>
        \/ \E r \in Node : Update(r) \/ Copy(r) \/ Cycle(r)
    BY DEF Next, Router, Send, Main, vars, routerVars, SelectOwn, SelectSend, SelectMeet,
           SelectClosed, Reply, CollectMeet, Flush, FlushMeet, Collect, Sleep,
           Close, Join, Done
  <2> QED
    BY <2>1, <2>2, <2>3
<1> QED
  BY <1>1, <1>2, InitTypes, StepTypes, PTL DEF Spec

---------------------------------------------------------------------------
(* The select lists *)

\* Every neighbour has an entry behind the two that are always in the list,
\* and an epoch ends only when no entry is left to be sent.
ListInv ==
    \A r \in Node :
        /\ select_count[r] <= total_select_count(r)
        /\ pc[r] = "cycle" => select_count[r] = 2
        /\ \A n \in Neighbours(r) : 2 <= pos[r][n] /\ pos[r][n] < total_select_count(r)
        /\ \A m, n \in Neighbours(r) : m # n => pos[r][m] # pos[r][n]

\* The entries drivers[0], drivers[1], ... of the neighbours are in the list
\* when it is built, in this order.
LEMMA InitList == Init => ListInv
<1> SUFFICES ASSUME Init, NEW r \in Node
             PROVE  /\ select_count[r] <= total_select_count(r)
                    /\ pc[r] = "cycle" => select_count[r] = 2
                    /\ \A n \in Neighbours(r) :
                          2 <= pos[r][n] /\ pos[r][n] < total_select_count(r)
                    /\ \A m, n \in Neighbours(r) : m # n => pos[r][m] # pos[r][n]
  BY DEF ListInv
<1>1. select_count[r] = total_select_count(r) /\ pc[r] = "select"
      /\ total_select_count(r) \in Nat
  BY CountsAreNat DEF Init, InitRouter
<1>2. ASSUME NEW n \in Neighbours(r)
      PROVE  2 <= pos[r][n] /\ pos[r][n] < total_select_count(r)
  <2> DEFINE L == {m \in Neighbours(r) : m < n}
  <2>1. pos[r][n] = 2 + Cardinality(L)
    BY DEF Init, InitRouter
  <2>2. IsFiniteSet(Neighbours(r)) /\ Cardinality(Neighbours(r)) \in Nat
    BY CountsAreNat, FS_CardinalityType
  <2>3. L \subseteq Neighbours(r) /\ n \notin L
    BY SizeAssumption DEF Neighbours, Node
  <2>4. Cardinality(L) \in Nat /\ Cardinality(L) < Cardinality(Neighbours(r))
    <3> HIDE DEF L
    <3>1. IsFiniteSet(L) /\ Cardinality(L) <= Cardinality(Neighbours(r))
          /\ (Cardinality(L) = Cardinality(Neighbours(r)) => L = Neighbours(r))
      BY <2>2, <2>3, FS_Subset
    <3>2. Cardinality(L) \in Nat
      BY <3>1, FS_CardinalityType
    <3> QED
      BY <1>2, <2>2, <2>3, <3>1, <3>2
  <2> HIDE DEF L
  <2> QED
    BY <2>1, <2>2, <2>4 DEF total_select_count
<1>3. ASSUME NEW m \in Neighbours(r), NEW n \in Neighbours(r), m < n
      PROVE  pos[r][m] # pos[r][n]
  <2> DEFINE K == {x \in Neighbours(r) : x < m}
             L == {x \in Neighbours(r) : x < n}
  <2>1. pos[r][m] = 2 + Cardinality(K) /\ pos[r][n] = 2 + Cardinality(L)
    BY DEF Init, InitRouter
  <2>2. K \subseteq L /\ m \in L /\ m \notin K /\ L \subseteq Neighbours(r)
    BY <1>3, SizeAssumption DEF Neighbours, Node
  <2>3. IsFiniteSet(Neighbours(r))
    BY CountsAreNat
  <2> HIDE DEF K, L
  <2>4. IsFiniteSet(L) /\ IsFiniteSet(K) /\ Cardinality(L) # Cardinality(K)
    BY <2>2, <2>3, FS_Subset
  <2>5. Cardinality(L) \in Nat /\ Cardinality(K) \in Nat
    BY <2>4, FS_CardinalityType
  <2> QED
    BY <2>1, <2>4, <2>5
<1>4. \A m, n \in Neighbours(r) : m # n => m < n \/ n < m
  BY SizeAssumption DEF Neighbours, Node
<1> QED
  BY <1>1, <1>2, <1>3, <1>4

\* A send permutes the entries behind the second and shortens the list; who is
\* still to be sent to, but for the receiver, stays in it.
LEMMA SentList ==
    ASSUME TypeInv, ListInv, NEW r \in Node, NEW n \in Neighbours(r), Pending(r, n),
           Sent(r, n)
    PROVE  /\ select_count'[r] = select_count[r] - 1
           /\ \A q \in Node : q # r => /\ select_count'[q] = select_count[q]
                                       /\ pos'[q] = pos[q]
           /\ \A m \in Neighbours(r) : /\ 2 <= pos'[r][m]
                                       /\ pos'[r][m] < total_select_count(r)
           /\ \A m \in Neighbours(r) : m # n /\ Pending(r, m) =>
                                       pos'[r][m] < select_count'[r]
           /\ \A k, m \in Neighbours(r) : k # m => pos'[r][k] # pos'[r][m]
<1> DEFINE last == select_count[r] - 1
           f == [m \in Neighbours(r) |->
                      CASE m = n -> last
                        [] m # n /\ pos[r][m] = last -> pos[r][n]
                        [] OTHER -> pos[r][m]]
<1>1. /\ pos[r] \in [Neighbours(r) -> Nat] /\ select_count \in [Node -> Nat]
      /\ DOMAIN pos = Node
  BY DEF TypeInv, TypeOK
<1>2. select_count' = [select_count EXCEPT ![r] = last] /\ pos' = [pos EXCEPT ![r] = f]
  BY DEF Sent
<1>3. /\ pos[r][n] < select_count[r] /\ select_count[r] <= total_select_count(r)
      /\ \A m \in Neighbours(r) : 2 <= pos[r][m] /\ pos[r][m] < total_select_count(r)
      /\ total_select_count(r) \in Nat
      /\ \A k, m \in Neighbours(r) : k # m => pos[r][k] # pos[r][m]
  BY CountsAreNat DEF ListInv, Pending
<1>4. pos'[r] = f /\ select_count'[r] = last
      /\ \A q \in Node : q # r => select_count'[q] = select_count[q] /\ pos'[q] = pos[q]
  <2> HIDE DEF f, last
  <2> QED
    BY <1>1, <1>2
<1>5. ASSUME NEW m \in Neighbours(r)
      PROVE  /\ 2 <= f[m] /\ f[m] < total_select_count(r)
             /\ m # n /\ Pending(r, m) => f[m] < last
  <2>1. pos[r][m] \in Nat /\ pos[r][n] \in Nat /\ select_count[r] \in Nat
    BY <1>1
  <2>2. CASE m = n
    <3>1. f[m] = last
      BY <2>2
    <3> QED
      BY <1>3, <2>1, <2>2, <3>1
  <2>3. CASE m # n /\ pos[r][m] = last
    <3>1. f[m] = pos[r][n]
      BY <2>3
    <3> HIDE DEF f
    <3>2. m # n /\ Pending(r, m) => f[m] < last
      BY <1>3, <2>1, <2>3, <3>1
    <3> QED
      BY <1>3, <2>1, <3>1, <3>2
  <2>4. CASE m # n /\ pos[r][m] # last
    <3>1. f[m] = pos[r][m]
      BY <2>4
    <3> HIDE DEF f
    <3> QED
      BY <1>3, <2>1, <2>4, <3>1 DEF Pending
  <2> QED
    BY <2>2, <2>3, <2>4
<1>6. ASSUME NEW k \in Neighbours(r), NEW m \in Neighbours(r), k # m
      PROVE  f[k] # f[m]
  <2>1. \A i \in Neighbours(r) : f[i] = IF i = n THEN last
                                       ELSE IF pos[r][i] = last THEN pos[r][n]
                                       ELSE pos[r][i]
    OBVIOUS
  <2> HIDE DEF f
  <2> QED
    BY <1>3, <1>6, <2>1
<1> HIDE DEF f
<1> QED
  BY <1>4, <1>5, <1>6

\* The neighbours of a router do not change in number either.
LEMMA SameCount ==
    ASSUME UNCHANGED graphVars
    PROVE  \A r : total_select_count(r)' = total_select_count(r)
BY SameGraph DEF total_select_count

\* Who goes on after an event starts an epoch only with everything sent.
LEMMA StepList == TypeInv /\ ListInv /\ [Next]_vars => ListInv'
<1> SUFFICES ASSUME TypeInv, ListInv, [Next]_vars
             PROVE  ListInv'
  OBVIOUS
<1> USE DEF routerVars, mainVars
<1>1. ASSUME UNCHANGED <<graphVars, select_count, pos>>,
             \A q \in Node : pc'[q] = "cycle" => select_count[q] = 2
      PROVE  ListInv'
  BY <1>1, SameGraph, SameCount DEF ListInv
<1>2. ASSUME NEW r \in Node, NEW n \in Neighbours(r), UNCHANGED graphVars,
             Pending(r, n), Sent(r, n),
             \A q \in Node : pc'[q] = "cycle" => select_count'[q] = 2
      PROVE  ListInv'
  <2>1. select_count[r] - 1 <= total_select_count(r)
    BY CountsAreNat DEF ListInv, TypeInv, TypeOK
  <2>2. \A q \in Node : /\ select_count'[q] <= total_select_count(q)
                        /\ \A m \in Neighbours(q) :
                              2 <= pos'[q][m] /\ pos'[q][m] < total_select_count(q)
                        /\ \A k, m \in Neighbours(q) : k # m => pos'[q][k] # pos'[q][m]
    BY <1>2, <2>1, SentList DEF ListInv
  <2> QED
    BY <1>2, <2>2, SameGraph, SameCount DEF ListInv
<1>3. ASSUME NEW r \in Node, NEW n \in Neighbours(r), SelectSend(r, n) \/ SelectMeet(r, n)
      PROVE  ListInv'
  <2>1. /\ UNCHANGED graphVars /\ Pending(r, n) /\ Sent(r, n)
        /\ n \in Node /\ n # r
    BY <1>3 DEF SelectSend, SelectMeet, Neighbours
  <2>2. /\ select_count'[r] = select_count[r] - 1
        /\ \A q \in Node : q # r => select_count'[q] = select_count[q]
    BY <2>1, SentList
  <2>3. pc \in [Node -> {"select", "update", "cycle", "copy", "reply", "exited"}]
    BY DEF TypeInv, TypeOK
  <2>4. /\ pc'[r] = "cycle" => select_count[r] - 1 = 2
        /\ \A q \in Node : q # r /\ pc'[q] = "cycle" => pc[q] = "cycle"
    BY <1>3, <2>1, <2>3 DEF SelectSend, SelectMeet, AfterEvent, AfterHandle
  <2> QED
    BY <1>2, <2>1, <2>2, <2>4 DEF ListInv
<1>4. ASSUME NEW r \in Node, Cycle(r)
      PROVE  ListInv'
  <2>1. /\ UNCHANGED <<graphVars, pos>>
        /\ select_count'[r] = total_select_count(r) /\ pc'[r] = "copy"
        /\ \A q \in Node : q # r => select_count'[q] = select_count[q] /\ pc'[q] = pc[q]
        /\ total_select_count(r) \in Nat
    BY <1>4, CountsAreNat DEF Cycle, TypeInv, TypeOK
  <2> QED
    BY <2>1, SameGraph, SameCount DEF ListInv
<1>5. ASSUME NEW r \in Node,
             SelectOwn(r) \/ SelectClosed(r) \/ Update(r) \/ Copy(r) \/ Reply(r)
               \/ CollectMeet(r)
      PROVE  ListInv'
  <2>1. pc \in [Node -> {"select", "update", "cycle", "copy", "reply", "exited"}]
    BY DEF TypeInv, TypeOK
  <2>2. /\ UNCHANGED <<graphVars, select_count, pos>>
        /\ pc'[r] = "cycle" => select_count[r] = 2
        /\ \A q \in Node : q # r => pc'[q] = pc[q]
    BY <1>5, <2>1 DEF SelectOwn, SelectClosed, Update, Copy, Reply, CollectMeet,
                      AfterEvent, AfterHandle
  <2> QED
    BY <1>1, <2>2 DEF ListInv
<1>6. ASSUME Main \/ Done \/ UNCHANGED vars
      PROVE  ListInv'
  <2>1. pc \in [Node -> {"select", "update", "cycle", "copy", "reply", "exited"}]
    BY DEF TypeInv, TypeOK
  <2>2. /\ UNCHANGED <<graphVars, select_count, pos>>
        /\ \A q \in Node : pc'[q] = "cycle" => pc[q] = "cycle"
    BY <1>6, <2>1 DEF Main, Flush, FlushMeet, Collect, Sleep, Close, Join, Done, vars,
                      AfterHandle
  <2> QED
    BY <1>1, <2>2 DEF ListInv
<1> QED
  BY <1>3, <1>4, <1>5, <1>6 DEF Next, Router, Send

---------------------------------------------------------------------------
(* Three vectors are enough for unqueued drivers *)

\* Who reads a router's vector reads its current state, or the one before if
\* the router has still to send it the current one.  The vector the router
\* writes is the third.
HoldInv ==
    \A r \in Node : pc[r] = "update" =>
        LET o == job[r].src
        IN  /\ r \in Neighbours(o)
            /\ \/ job[r].slot = curr[o]
               \/ job[r].slot = PrevSlot(o) /\ Pending(o, r)

\* No step of an unqueued system hands a vector to its writer.
LEMMA StepHold ==
    BufferSize = 0 /\ TypeInv /\ ListInv /\ HoldInv /\ [Next]_vars => HoldInv'
<1> SUFFICES ASSUME BufferSize = 0, TypeInv, ListInv, HoldInv, [Next]_vars
             PROVE  HoldInv'
  OBVIOUS
<1> USE DEF routerVars, mainVars
<1>0. /\ pc \in [Node -> {"select", "update", "cycle", "copy", "reply", "exited"}]
      /\ curr \in [Node -> Slot]
      /\ \A r \in Node : pc[r] = "update" => job[r].src \in Node
  BY DEF TypeInv, TypeOK, InHand, Pointer
<1>1. ASSUME UNCHANGED <<graphVars, curr, select_count, pos>>,
             \A q \in Node : pc'[q] = "update" => pc[q] = "update" /\ job'[q] = job[q]
      PROVE  HoldInv'
  BY <1>1, SameGraph DEF HoldInv, PrevSlot, Pending
\* A rendezvous: the receiver takes the current state, and its entry drops out
\* of the list.  Who still reads the sender's last state is another one.
<1>2. ASSUME NEW r \in Node, NEW n \in Neighbours(r), SelectMeet(r, n)
      PROVE  HoldInv'
  <2>1. /\ UNCHANGED <<graphVars, curr>> /\ Pending(r, n) /\ Sent(r, n)
        /\ n \in Node /\ n # r /\ pc[n] = "select" /\ Handled(n, curr_state(r))
    BY <1>2 DEF SelectMeet, Neighbours
  <2>2. \A q \in Node : q # n /\ pc'[q] = "update" => pc[q] = "update"
    BY <1>0, <1>2, <2>1 DEF SelectMeet, AfterEvent, AfterHandle
  <2>3. /\ job'[n].src = r /\ job'[n].slot = curr[r]
        /\ \A q \in Node : q # n => job'[q] = job[q]
    BY <2>1 DEF Handled, curr_state, TypeInv, TypeOK
  <2> SUFFICES ASSUME NEW q \in Node, pc'[q] = "update"
               PROVE  /\ q \in Neighbours(job'[q].src)
                      /\ \/ job'[q].slot = curr[job'[q].src]
                         \/ /\ job'[q].slot = PrevSlot(job'[q].src)
                            /\ pos'[job'[q].src][q] < select_count'[job'[q].src]
    BY <2>1, SameGraph DEF HoldInv, PrevSlot, Pending
  <2>4. CASE q = n
    BY <2>3, <2>4
  <2>5. CASE q # n
    <3>1. /\ pc[q] = "update" /\ job'[q] = job[q] /\ job[q].src \in Node
          /\ q \in Neighbours(job[q].src)
          /\ \/ job[q].slot = curr[job[q].src]
             \/ job[q].slot = PrevSlot(job[q].src) /\ Pending(job[q].src, q)
      BY <1>0, <2>2, <2>3, <2>5 DEF HoldInv
    <3>2. Pending(job[q].src, q) =>
             pos'[job[q].src][q] < select_count'[job[q].src]
      <4>1. CASE job[q].src = r
        BY <2>1, <2>5, <3>1, <4>1, SentList DEF Pending
      <4>2. CASE job[q].src # r
        BY <2>1, <3>1, <4>2, SentList DEF Pending
      <4> QED
        BY <4>1, <4>2
    <3> QED
      BY <3>1, <3>2
  <2> QED
    BY <2>4, <2>5
\* A new epoch: everything has been sent, so who reads reads the current state,
\* which becomes the one before, and its reader has an entry in the new list.
<1>3. ASSUME NEW r \in Node, Cycle(r)
      PROVE  HoldInv'
  <2>1. /\ UNCHANGED <<graphVars, pos, job>> /\ pc[r] = "cycle"
        /\ curr'[r] = NextSlot(r) /\ pc'[r] = "copy"
        /\ select_count'[r] = total_select_count(r)
        /\ \A q \in Node : q # r => /\ select_count'[q] = select_count[q]
                                    /\ curr'[q] = curr[q] /\ pc'[q] = pc[q]
    BY <1>0, <1>3 DEF Cycle, TypeInv, TypeOK
  <2> SUFFICES ASSUME NEW q \in Node, pc'[q] = "update"
               PROVE  /\ q \in Neighbours(job[q].src)
                      /\ \/ job[q].slot = curr'[job[q].src]
                         \/ /\ job[q].slot = (curr'[job[q].src] + 2) % 3
                            /\ pos[job[q].src][q] < select_count'[job[q].src]
    BY <2>1, SameGraph DEF HoldInv, Pending, PrevSlot
  <2>2. /\ pc[q] = "update" /\ job[q].src \in Node
        /\ q \in Neighbours(job[q].src)
        /\ \/ job[q].slot = curr[job[q].src]
           \/ job[q].slot = PrevSlot(job[q].src) /\ Pending(job[q].src, q)
    BY <1>0, <2>1 DEF HoldInv
  <2>3. CASE job[q].src = r
    <3>1. ~Pending(r, q)
      <4>1. q \in Neighbours(r) /\ select_count[r] = 2 /\ 2 <= pos[r][q]
        BY <2>1, <2>2, <2>3 DEF ListInv
      <4>2. pos[r] \in [Neighbours(r) -> Nat]
        BY DEF TypeInv, TypeOK
      <4> QED
        BY <4>1, <4>2 DEF Pending
    <3>2. job[q].slot = (curr'[r] + 2) % 3
      <4>1. job[q].slot = curr[r] /\ curr[r] \in Slot
        BY <1>0, <2>2, <2>3, <3>1
      <4>2. (((curr[r] + 1) % 3) + 2) % 3 = curr[r]
        BY <4>1, SlotRotation
      <4> QED
        BY <2>1, <4>1, <4>2 DEF NextSlot
    <3>3. pos[r][q] < select_count'[r]
      BY <2>1, <2>2, <2>3 DEF ListInv
    <3> QED
      BY <2>2, <2>3, <3>2, <3>3
  <2>4. CASE job[q].src # r
    BY <2>1, <2>2, <2>4 DEF Pending, PrevSlot
  <2> QED
    BY <2>3, <2>4
<1>4. ASSUME NEW r \in Node,
             SelectClosed(r) \/ Update(r) \/ Copy(r) \/ CollectMeet(r)
      PROVE  HoldInv'
  BY <1>0, <1>1, <1>4 DEF SelectClosed, Update, Copy, CollectMeet, AfterEvent
<1>5. ASSUME FlushMeet
      PROVE  HoldInv'
  <2>1. /\ mi \in Node /\ job \in [Node -> Job]
    BY DEF TypeInv, TypeOK
  <2>2. /\ UNCHANGED <<graphVars, curr, select_count, pos>>
        /\ pc'[mi] = "reply"
        /\ \A q \in Node : q # mi => pc'[q] = pc[q] /\ job'[q] = job[q]
    BY <1>0, <1>5, <2>1 DEF FlushMeet, Handled, AfterHandle
  <2> QED
    BY <1>1, <2>2
<1>6. ASSUME Sleep \/ Close \/ Join \/ Done \/ UNCHANGED vars
      PROVE  HoldInv'
  BY <1>1, <1>6 DEF Sleep, Close, Join, Done, vars
<1>7. /\ ~Flush /\ ~Collect
      /\ \A r \in Node : /\ ~SelectOwn(r) /\ ~Reply(r)
                         /\ \A n \in Neighbours(r) : ~SelectSend(r, n)
  BY DEF Flush, Collect, SelectOwn, Reply, SelectSend
<1> QED
  BY <1>2, <1>3, <1>4, <1>5, <1>6, <1>7 DEF Next, Router, Send, Main

\* With unqueued drivers no router reads a distance vector while its owner
\* writes it, for any number of routers and any topology: three vectors each
\* are enough.
THEOREM NoRaceUnqueued == BufferSize = 0 => (Spec => []NoTornRead)
<1> SUFFICES ASSUME BufferSize = 0 PROVE Spec => []NoTornRead
  OBVIOUS
<1>1. Init => HoldInv
  BY DEF Init, InitRouter, HoldInv
<1>2. TypeInv /\ ListInv /\ HoldInv /\ [Next]_vars => HoldInv'
  BY StepHold
<1>3. TypeInv /\ HoldInv => NoTornRead
  <2> SUFFICES ASSUME TypeInv, HoldInv, NEW r \in Node, pc[r] = "update"
               PROVE  job[r].slot \notin Writes(job[r].src)
    BY DEF NoTornRead
  <2>1. job[r].src \in Node /\ curr[job[r].src] \in Slot
    BY DEF TypeInv, TypeOK, InHand, Pointer
  <2>2. job[r].slot = curr[job[r].src] \/ job[r].slot = PrevSlot(job[r].src)
    BY DEF HoldInv
  <2> QED
    BY <2>1, <2>2, SlotRotation DEF Writes, NextSlot, PrevSlot
<1> QED
  BY <1>1, <1>2, <1>3, InitTypes, StepTypes, InitList, StepList, PTL DEF Spec
=============================================================================
