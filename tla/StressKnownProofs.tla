-------------------------- MODULE StressKnownProofs --------------------------
(***************************************************************************)
(* What spreads from router to router, for every number of routers, every  *)
(* topology and every interleaving, torn reads included: an epoch improves *)
(* on the last one; who was sent a router's state and is done with it      *)
(* knows every path by way of that router; and when nobody has anything    *)
(* left to read, to send or to announce, the distances are the solution.   *)
(*                                                                         *)
(* A job is a pointer, so that the state a neighbour reads may not be the  *)
(* one it was sent.  The argument is about what the pointer points to when *)
(* it is read: as long as it is the sender's current vector, that vector   *)
(* does not change.                                                        *)
(***************************************************************************)
EXTENDS StressProofs

this(r) == Deref(curr_state(r))
fresh(r) == buf[r][NextSlot(r)]

\* One router's current and next vector.  While the copy loop runs the first
\* at[r] entries of the next vector are the current ones; otherwise it is
\* nowhere worse than the current one, and better somewhere exactly when
\* driverged says so.
EpochOf(r) ==
    /\ fresh(r).epoch = this(r).epoch + 1
    /\ pc[r] = "cycle" => driverged[r]
    /\ pc[r] = "copy" =>
          /\ ~driverged[r]
          /\ \A d \in Node : d < at[r] => fresh(r).dist[d] = this(r).dist[d]
    /\ pc[r] # "copy" =>
          /\ \A d \in Node : fresh(r).dist[d] <= this(r).dist[d]
          /\ driverged[r] => \E d \in Node : fresh(r).dist[d] < this(r).dist[d]
          /\ ~driverged[r] => \A d \in Node : fresh(r).dist[d] = this(r).dist[d]

EpochInv == \A r \in Node : EpochOf(r)

LEMMA InitEpoch == Init => EpochInv
<1> SUFFICES ASSUME Init, NEW r \in Node
             PROVE  EpochOf(r)
  BY DEF EpochInv
<1>1. /\ this(r) = [epoch |-> 1, dist |-> topology[r]]
      /\ fresh(r) = [epoch |-> 2, dist |-> topology[r]]
      /\ pc[r] = "select" /\ driverged[r] = FALSE
  BY DEF Init, InitRouter, this, fresh, Deref, curr_state, NextSlot, Slot
<1>2. \A d \in Node : topology[r][d] \in Dist
  BY TopologyAssumption DEF Init
<1> QED
  BY <1>1, <1>2, SizeAssumption DEF EpochOf, Dist

\* The vectors of one router, as the rest of the proofs reads them.
LEMMA VectorTypes ==
    ASSUME TypeInv, NEW r \in Node
    PROVE  /\ this(r) \in Vector /\ fresh(r) \in Vector
           /\ curr[r] \in Slot /\ NextSlot(r) \in Slot /\ PrevSlot(r) \in Slot
           /\ curr[r] # NextSlot(r) /\ PrevSlot(r) # NextSlot(r) /\ PrevSlot(r) # curr[r]
           /\ this(r) = buf[r][curr[r]]
<1>1. /\ curr[r] \in Slot /\ NextSlot(r) \in Slot /\ PrevSlot(r) \in Slot
      /\ curr[r] # NextSlot(r) /\ PrevSlot(r) # NextSlot(r) /\ PrevSlot(r) # curr[r]
  BY SlotRotation DEF TypeInv, TypeOK, NextSlot, PrevSlot
<1>2. this(r) = buf[r][curr[r]]
  BY DEF this, Deref, curr_state
<1> QED
  BY <1>1, <1>2 DEF fresh, TypeInv, TypeOK, Vector

\* What Update, Copy and Cycle leave of a router's two vectors.
LEMMA UpdateVectors ==
    ASSUME TypeInv, NEW r \in Node, Update(r)
    PROVE  /\ this(r)' = this(r)
           /\ fresh(r)'.epoch = fresh(r).epoch
           /\ \A d \in Node : fresh(r)'.dist[d] =
                 IF d \in Better(r) THEN ViaNeighbour(r, d) ELSE fresh(r).dist[d]
<1>1. buf \in Vectors /\ curr' = curr
  BY DEF TypeInv, TypeOK, Vectors, Vector, Update
<1> DEFINE D == [d \in Node |-> IF d \in Better(r) THEN ViaNeighbour(r, d)
                                ELSE buf[r][NextSlot(r)].dist[d]]
<1>2. buf' = WithDist(buf, r, NextSlot(r), D)
  BY DEF Update, WithDist
<1>3. D \in [Node -> Dist]
  <2>1. \A d \in Node : D[d] = buf'[r][NextSlot(r)].dist[d]
    BY WrittenVectors
  <2>2. buf'[r][NextSlot(r)].dist \in [Node -> Dist]
    BY WrittenVectors, VectorTypes
  <2> HIDE DEF D
  <2>3. D = [d \in Node |-> D[d]]
    BY DEF D
  <2> QED
    BY <2>1, <2>2, <2>3
<1> HIDE DEF D
<1>4. /\ \A s \in Slot : s # NextSlot(r) => buf'[r][s] = buf[r][s]
      /\ buf'[r][NextSlot(r)].dist = D
      /\ buf'[r][NextSlot(r)].epoch = buf[r][NextSlot(r)].epoch
  BY <1>1, <1>2, <1>3, VectorTypes, WriteDist
<1>5. this(r)' = buf'[r][curr[r]] /\ fresh(r)' = buf'[r][NextSlot(r)]
  BY <1>1 DEF this, fresh, Deref, curr_state, NextSlot
<1> QED
  BY <1>4, <1>5, VectorTypes DEF D, fresh

LEMMA CopyVectors ==
    ASSUME TypeInv, NEW r \in Node, Copy(r)
    PROVE  /\ this(r)' = this(r)
           /\ fresh(r)'.epoch = fresh(r).epoch
           /\ \A d \in Node : fresh(r)'.dist[d] =
                 IF d \in Iterations(r) THEN this(r).dist[d] ELSE fresh(r).dist[d]
<1>1. buf \in Vectors /\ curr' = curr
  BY DEF TypeInv, TypeOK, Vectors, Vector, Copy
<1> DEFINE D == [d \in Node |-> IF d \in Iterations(r) THEN buf[r][curr[r]].dist[d]
                                ELSE buf[r][NextSlot(r)].dist[d]]
<1>2. buf' = WithDist(buf, r, NextSlot(r), D)
  BY DEF Copy, WithDist
<1>3. D \in [Node -> Dist]
  BY VectorTypes DEF fresh, Vector
<1> HIDE DEF D
<1>4. /\ \A s \in Slot : s # NextSlot(r) => buf'[r][s] = buf[r][s]
      /\ buf'[r][NextSlot(r)].dist = D
      /\ buf'[r][NextSlot(r)].epoch = buf[r][NextSlot(r)].epoch
  BY <1>1, <1>2, <1>3, VectorTypes, WriteDist
<1>5. this(r)' = buf'[r][curr[r]] /\ fresh(r)' = buf'[r][NextSlot(r)]
  BY <1>1 DEF this, fresh, Deref, curr_state, NextSlot
<1> QED
  BY <1>4, <1>5, VectorTypes DEF D, fresh

LEMMA CycleVectors ==
    ASSUME TypeInv, NEW r \in Node, Cycle(r)
    PROVE  /\ this(r)' = fresh(r)
           /\ fresh(r)'.epoch = fresh(r).epoch + 1
<1>1. buf \in Vectors /\ curr \in [Node -> Slot] /\ fresh(r).epoch \in Nat
  BY VectorTypes DEF TypeInv, TypeOK, Vectors, Vector
<1>2. buf' = WithEpoch(buf, r, PrevSlot(r), fresh(r).epoch + 1) /\ curr'[r] = NextSlot(r)
  BY <1>1 DEF Cycle, WithEpoch, fresh
<1>3. /\ \A s \in Slot : s # PrevSlot(r) => buf'[r][s] = buf[r][s]
      /\ buf'[r][PrevSlot(r)].epoch = fresh(r).epoch + 1
  <2> DEFINE e == fresh(r).epoch + 1
  <2>1. e \in Nat
    BY <1>1
  <2>2. buf' = WithEpoch(buf, r, PrevSlot(r), e)
    BY <1>2
  <2> HIDE DEF e
  <2>3. /\ \A s \in Slot : s # PrevSlot(r) => buf'[r][s] = buf[r][s]
        /\ buf'[r][PrevSlot(r)].epoch = e
    BY <1>1, <2>1, <2>2, VectorTypes, WriteEpoch
  <2> QED
    BY <2>3 DEF e
<1>4. NextSlot(r)' = PrevSlot(r)
  <2>1. curr[r] \in Slot
    BY VectorTypes
  <2>2. (((curr[r] + 1) % 3) + 1) % 3 = (curr[r] + 2) % 3
    BY <2>1 DEF Slot
  <2> QED
    BY <1>2, <2>2 DEF NextSlot, PrevSlot
<1>5. this(r)' = buf'[r][NextSlot(r)] /\ fresh(r)' = buf'[r][PrevSlot(r)]
  BY <1>2, <1>4 DEF this, fresh, Deref, curr_state
<1> QED
  BY <1>3, <1>5, VectorTypes DEF fresh

---------------------------------------------------------------------------
(* Epochs *)

\* A router whose vectors nobody writes, and which is not in its copy loop or
\* stays where it is in it.
LEMMA EpochKept ==
    ASSUME TypeInv, NEW r \in Node, EpochOf(r),
           buf'[r] = buf[r], curr'[r] = curr[r], driverged'[r] = driverged[r],
           \/ pc'[r] = pc[r] /\ at'[r] = at[r]
           \/ pc[r] # "copy" /\ pc'[r] # "copy" /\ (pc'[r] = "cycle" => driverged[r])
    PROVE  EpochOf(r)'
<1>1. this(r)' = this(r) /\ fresh(r)' = fresh(r)
  BY DEF this, fresh, Deref, curr_state, NextSlot
<1> QED
  BY <1>1 DEF EpochOf

\* The loop over the destinations has come to its end.
LEMMA LoopEnd ==
    ASSUME TypeInv, NEW r \in Node
    PROVE  /\ Iterations(r) \subseteq Node
           /\ \A d \in Node : d < at[r] + Chunk => d < at[r] \/ d \in Iterations(r)
           /\ LastIterations(r) => \A d \in Node : d < at[r] + Chunk
<1>1. at[r] \in Nat /\ Chunk \in Nat /\ N \in Nat /\ Node = 0 .. N - 1
  BY SizeAssumption DEF TypeInv, TypeOK, Node
<1>2. Iterations(r) = {i \in Node : at[r] <= i /\ i < at[r] + Chunk}
  BY DEF Iterations
<1>3. \A d \in Node : d < at[r] + Chunk => d < at[r] \/ d \in Iterations(r)
  BY <1>1, <1>2
<1>4. LastIterations(r) => \A d \in Node : d < at[r] + Chunk
  BY <1>1 DEF LastIterations
<1> QED
  BY <1>2, <1>3, <1>4

LEMMA UpdateEpoch ==
    ASSUME TypeInv, NEW r \in Node, EpochOf(r), Update(r)
    PROVE  EpochOf(r)'
<1>1. /\ this(r)' = this(r)
      /\ fresh(r)'.epoch = fresh(r).epoch
      /\ \A d \in Node : fresh(r)'.dist[d] =
            IF d \in Better(r) THEN ViaNeighbour(r, d) ELSE fresh(r).dist[d]
  BY UpdateVectors
<1>2. /\ pc[r] = "update" /\ pc'[r] # "copy"
      /\ driverged'[r] = (driverged[r] \/ Better(r) # {})
      /\ pc'[r] = "cycle" => driverged'[r]
  BY DEF Update, AfterEvent, TypeInv, TypeOK
<1>3. \A d \in Node : this(r).dist[d] \in Dist /\ fresh(r).dist[d] \in Dist
  BY VectorTypes DEF Vector
<1>4. \A d \in Better(r) : /\ d \in Node /\ ViaNeighbour(r, d) < fresh(r).dist[d]
                           /\ ViaNeighbour(r, d) \in Dist
  <2>1. \A d \in Better(r) : d \in Node /\ ViaNeighbour(r, d) < fresh(r).dist[d]
    BY DEF Better, Iterations, fresh
  <2>2. fresh(r)' = buf'[r][NextSlot(r)] /\ NextSlot(r) \in Slot
    BY VectorTypes DEF fresh, NextSlot, Update
  <2>3. \A d \in Node : fresh(r)'.dist[d] \in Dist
    BY <2>2, WrittenVectors
  <2> QED
    BY <1>1, <2>1, <2>3
<1>5. \A d \in Node : fresh(r)'.dist[d] <= this(r)'.dist[d]
  <2> SUFFICES ASSUME NEW d \in Node
               PROVE  fresh(r)'.dist[d] <= this(r).dist[d]
    BY <1>1
  <2>1. fresh(r).dist[d] <= this(r).dist[d]
    BY <1>2 DEF EpochOf
  <2>2. CASE d \in Better(r)
    <3>1. ViaNeighbour(r, d) < fresh(r).dist[d] /\ ViaNeighbour(r, d) \in Dist
      BY <1>4, <2>2
    <3>2. fresh(r)'.dist[d] = ViaNeighbour(r, d)
      BY <1>1, <2>2
    <3> QED
      BY <1>3, <2>1, <3>1, <3>2, SizeAssumption DEF Dist
  <2>3. CASE d \notin Better(r)
    BY <1>1, <2>1, <2>3
  <2> QED
    BY <2>2, <2>3
<1>6. ASSUME driverged'[r]
      PROVE  \E d \in Node : fresh(r)'.dist[d] < this(r)'.dist[d]
  <2>1. CASE Better(r) # {}
    <3>1. PICK d \in Better(r) : TRUE
      BY <2>1
    <3>2. /\ d \in Node /\ ViaNeighbour(r, d) < fresh(r).dist[d]
          /\ ViaNeighbour(r, d) \in Dist
          /\ fresh(r).dist[d] <= this(r).dist[d]
          /\ fresh(r)'.dist[d] = ViaNeighbour(r, d)
      BY <1>1, <1>2, <1>4, <3>1 DEF EpochOf
    <3> QED
      BY <1>1, <1>3, <3>2, SizeAssumption DEF Dist
  <2>2. CASE Better(r) = {}
    BY <1>1, <1>2, <1>6, <2>2 DEF EpochOf
  <2> QED
    BY <2>1, <2>2
<1>7. ASSUME ~driverged'[r]
      PROVE  \A d \in Node : fresh(r)'.dist[d] = this(r)'.dist[d]
  BY <1>1, <1>2, <1>7 DEF EpochOf
<1>8. fresh(r)'.epoch = this(r)'.epoch + 1
  BY <1>1 DEF EpochOf
<1> QED
  BY <1>2, <1>5, <1>6, <1>7, <1>8 DEF EpochOf

LEMMA CopyEpoch ==
    ASSUME TypeInv, NEW r \in Node, EpochOf(r), Copy(r)
    PROVE  EpochOf(r)'
<1>1. /\ this(r)' = this(r)
      /\ fresh(r)'.epoch = fresh(r).epoch
      /\ \A d \in Node : fresh(r)'.dist[d] =
            IF d \in Iterations(r) THEN this(r).dist[d] ELSE fresh(r).dist[d]
  BY CopyVectors
<1>2. /\ pc[r] = "copy" /\ driverged'[r] = driverged[r] /\ ~driverged[r]
      /\ at'[r] = at[r] + Chunk
      /\ pc'[r] = IF LastIterations(r) THEN "select" ELSE "copy"
      /\ fresh(r).epoch = this(r).epoch + 1
      /\ \A d \in Node : d < at[r] => fresh(r).dist[d] = this(r).dist[d]
  BY DEF Copy, EpochOf, TypeInv, TypeOK
<1>3. \A d \in Node : d < at[r] + Chunk => fresh(r)'.dist[d] = this(r).dist[d]
  BY <1>1, <1>2, LoopEnd
<1>4. \A d \in Node : this(r).dist[d] \in Dist
  BY VectorTypes DEF Vector
<1>5. CASE LastIterations(r)
  <2>1. \A d \in Node : fresh(r)'.dist[d] = this(r)'.dist[d]
    BY <1>1, <1>3, <1>5, LoopEnd
  <2>2. \A d \in Node : fresh(r)'.dist[d] <= this(r)'.dist[d]
    BY <1>1, <1>4, <2>1, SizeAssumption DEF Dist
  <2>3. pc'[r] = "select"
    BY <1>2, <1>5
  <2> QED
    BY <1>1, <1>2, <2>1, <2>2, <2>3 DEF EpochOf
<1>6. CASE ~LastIterations(r)
  <2>1. pc'[r] = "copy"
    BY <1>2, <1>6
  <2> QED
    BY <1>1, <1>2, <1>3, <2>1 DEF EpochOf
<1> QED
  BY <1>5, <1>6

LEMMA StepEpoch == TypeInv /\ EpochInv /\ [Next]_vars => EpochInv'
<1> SUFFICES ASSUME TypeInv, EpochInv, [Next]_vars, NEW q \in Node
             PROVE  EpochOf(q)'
  BY DEF EpochInv
<1>0. EpochOf(q) /\ pc \in [Node -> {"select", "update", "cycle", "copy", "reply", "exited"}]
      /\ driverged \in [Node -> BOOLEAN] /\ at \in [Node -> Nat] /\ curr \in [Node -> Slot]
  BY DEF EpochInv, TypeInv, TypeOK
<1>1. ASSUME NEW r \in Node, Update(r) \/ Copy(r) \/ Cycle(r)
      PROVE  EpochOf(q)'
  <2>1. CASE q # r
    <3>1. buf'[q] = buf[q]
      BY <1>1, <2>1, WrittenVectors
    <3>2. /\ curr'[q] = curr[q] /\ driverged'[q] = driverged[q]
          /\ pc'[q] = pc[q] /\ at'[q] = at[q]
      BY <1>0, <1>1, <2>1 DEF Update, Copy, Cycle
    <3> QED
      BY <1>0, <3>1, <3>2, EpochKept
  <2>2. CASE q = r /\ Update(r)
    BY <1>0, <2>2, UpdateEpoch
  <2>3. CASE q = r /\ Copy(r)
    BY <1>0, <2>3, CopyEpoch
  <2>4. CASE q = r /\ Cycle(r)
    <3>1. this(r)' = fresh(r) /\ fresh(r)'.epoch = fresh(r).epoch + 1
      BY <2>4, CycleVectors
    <3>2. pc'[r] = "copy" /\ at'[r] = 0 /\ driverged'[r] = FALSE
      BY <1>0, <2>4 DEF Cycle
    <3>3. \A d \in Node : ~(d < 0)
      BY SizeAssumption DEF Node
    <3> QED
      BY <2>4, <3>1, <3>2, <3>3 DEF EpochOf
  <2> QED
    BY <1>1, <2>1, <2>2, <2>3, <2>4
<1>2. ASSUME UNCHANGED <<buf, curr, driverged>>,
             \/ pc'[q] = pc[q] /\ at'[q] = at[q]
             \/ pc[q] # "copy" /\ pc'[q] # "copy" /\ (pc'[q] = "cycle" => driverged[q])
      PROVE  EpochOf(q)'
  BY <1>0, <1>2, EpochKept
<1>3. ASSUME NEW r \in Node,
             SelectOwn(r) \/ SelectClosed(r) \/ Reply(r) \/ CollectMeet(r)
      PROVE  EpochOf(q)'
  <2>1. UNCHANGED <<buf, curr, driverged>>
    BY <1>3 DEF SelectOwn, SelectClosed, Reply, CollectMeet
  <2>2. \/ pc'[q] = pc[q] /\ at'[q] = at[q]
        \/ pc[q] # "copy" /\ pc'[q] # "copy" /\ (pc'[q] = "cycle" => driverged[q])
    BY <1>0, <1>3 DEF SelectOwn, SelectClosed, Reply, CollectMeet, Handled,
                      AfterHandle, AfterEvent
  <2> QED
    BY <1>2, <2>1, <2>2
<1>4. ASSUME NEW r \in Node, NEW n \in Neighbours(r), SelectSend(r, n) \/ SelectMeet(r, n)
      PROVE  EpochOf(q)'
  <2>1. UNCHANGED <<buf, curr, driverged>> /\ n \in Node
    BY <1>4 DEF SelectSend, SelectMeet, Neighbours
  <2>2. \/ pc'[q] = pc[q] /\ at'[q] = at[q]
        \/ pc[q] # "copy" /\ pc'[q] # "copy" /\ (pc'[q] = "cycle" => driverged[q])
    BY <1>0, <1>4, <2>1 DEF SelectSend, SelectMeet, Handled, AfterHandle, AfterEvent
  <2> QED
    BY <1>2, <2>1, <2>2
<1>5. ASSUME Main \/ Done \/ UNCHANGED vars
      PROVE  EpochOf(q)'
  <2>1. UNCHANGED <<buf, curr, driverged>> /\ mi \in Node
    BY <1>5 DEF Main, Flush, FlushMeet, Collect, Sleep, Close, Join, Done, vars,
                routerVars, TypeInv, TypeOK
  <2>2. \/ pc'[q] = pc[q] /\ at'[q] = at[q]
        \/ pc[q] # "copy" /\ pc'[q] # "copy" /\ (pc'[q] = "cycle" => driverged[q])
    BY <1>0, <1>5, <2>1 DEF Main, Flush, FlushMeet, Collect, Sleep, Close, Join, Done,
                            vars, routerVars, Handled, AfterHandle
  <2> QED
    BY <1>2, <2>1, <2>2
<1> QED
  BY <1>1, <1>3, <1>4, <1>5 DEF Next, Router, Send

\* An epoch is announced for a reason, in every topology and whatever a router
\* read of its neighbours' vectors: its number is the next one, and its
\* distances are nowhere worse and somewhere better.
THEOREM Improves == Spec => EpochsImprove
<1>1. TypeInv /\ EpochInv /\ [Next]_vars =>
         [\A r \in Node : curr'[r] # curr[r] =>
            LET old == buf[r][curr[r]]
                new == buf'[r][curr'[r]]
            IN  /\ new.epoch = old.epoch + 1
                /\ \A d \in Node : new.dist[d] <= old.dist[d]
                /\ new.dist # old.dist]_vars
  <2> SUFFICES ASSUME TypeInv, EpochInv, Next, NEW r \in Node, curr'[r] # curr[r]
               PROVE  LET old == buf[r][curr[r]]
                          new == buf'[r][curr'[r]]
                      IN  /\ new.epoch = old.epoch + 1
                          /\ \A d \in Node : new.dist[d] <= old.dist[d]
                          /\ new.dist # old.dist
    BY DEF vars, routerVars
  <2>1. Cycle(r)
    <3>1. ASSUME NEW q \in Node, Cycle(q)
          PROVE  q = r
      BY <3>1 DEF Cycle, TypeInv, TypeOK
    <3>2. (\E q \in Node : Cycle(q)) \/ UNCHANGED curr
      BY DEF Next, Router, Send, Main, vars, routerVars, SelectOwn, SelectSend, SelectMeet,
             SelectClosed, Update, Copy, Reply, CollectMeet, Flush, FlushMeet, Collect,
             Sleep, Close, Join, Done
    <3> QED
      BY <3>1, <3>2
  <2>2. this(r)' = buf'[r][curr'[r]] /\ this(r) = buf[r][curr[r]]
    BY DEF this, Deref, curr_state
  <2>3. this(r)' = fresh(r)
    BY <2>1, CycleVectors
  <2>4. pc[r] = "cycle" /\ EpochOf(r)
    BY <2>1 DEF Cycle, EpochInv
  <2>5. /\ fresh(r).epoch = this(r).epoch + 1
        /\ \A d \in Node : fresh(r).dist[d] <= this(r).dist[d]
        /\ \E d \in Node : fresh(r).dist[d] < this(r).dist[d]
    BY <2>4 DEF EpochOf
  <2>6. fresh(r).dist # this(r).dist
    <3>1. \A d \in Node : fresh(r).dist[d] \in Nat /\ this(r).dist[d] \in Nat
      BY VectorTypes, SizeAssumption DEF Vector, Dist
    <3> QED
      BY <2>5, <3>1
  <2> QED
    BY <2>2, <2>3, <2>5, <2>6
<1> QED
  BY <1>1, InitTypes, StepTypes, InitEpoch, StepEpoch, PTL DEF Spec, EpochsImprove

---------------------------------------------------------------------------
(* What a neighbour knows *)

\* p is one of the jobs in n's driver.
InDriver(n, p) == \E i \in 1 .. Len(queue[n]) : queue[n][i] = p

\* If n is in its update loop with p, it has been at destination d.
Past(n, p, d) == pc[n] = "update" /\ job[n] = p => d < at[n]

KnownOf(r, n) ==
    ~Pending(r, n) /\ ~InDriver(n, curr_state(r)) =>
        \A d \in Node : Past(n, curr_state(r), d) =>
            Best(n)[d] <= Link(n, r) + this(r).dist[d]

KnownInv == \A r \in Node : \A n \in Neighbours(r) : KnownOf(r, n)

\* Before the first epoch was sent to anyone nobody is known to anyone.
LEMMA InitKnown == Init => KnownInv
<1> SUFFICES ASSUME Init, NEW r \in Node, NEW n \in Neighbours(r)
             PROVE  Pending(r, n)
  BY DEF KnownInv, KnownOf
<1>1. select_count[r] = total_select_count(r)
  BY DEF Init, InitRouter
<1> QED
  BY <1>1, InitList DEF ListInv, Pending

\* Types of what KnownOf compares.
LEMMA KnownTypes ==
    ASSUME TypeInv, NEW r \in Node, NEW n \in Neighbours(r), NEW d \in Node
    PROVE  /\ n \in Node /\ n # r
           /\ Best(n)[d] \in Nat /\ this(r).dist[d] \in Dist
           /\ Link(n, r) \in Dist
           /\ Plus(Link(n, r), this(r).dist[d]) = Link(n, r) + this(r).dist[d]
<1>1. n \in Node /\ n # r
  BY DEF Neighbours
<1>2. Best(n) = this(n).dist \/ Best(n) = fresh(n).dist
  BY DEF Best, this, fresh
<1>3. this(n).dist[d] \in Dist /\ fresh(n).dist[d] \in Dist /\ this(r).dist[d] \in Dist
  BY <1>1, VectorTypes DEF Vector
<1>4. Link(n, r) \in Dist
  BY <1>1, TopologyAssumption DEF Link, TypeInv, TypeOK
<1>5. Best(n)[d] \in Nat
  BY <1>2, <1>3, SizeAssumption DEF Dist
<1> QED
  BY <1>1, <1>3, <1>4, <1>5, PlusExact

\* Only the start of an epoch replaces the state a router announces.
LEMMA ThisKept ==
    ASSUME TypeInv, [Next]_vars, NEW r \in Node, ~Cycle(r)
    PROVE  this(r)' = this(r) /\ curr'[r] = curr[r] /\ curr_state(r)' = curr_state(r)
<1>1. this(r) = buf[r][curr[r]] /\ this(r)' = buf'[r][curr'[r]]
  BY DEF this, Deref, curr_state
<1>2. ASSUME NEW q \in Node, Update(q) \/ Copy(q) \/ Cycle(q)
      PROVE  this(r)' = this(r) /\ curr'[r] = curr[r]
  <2>1. CASE q # r
    <3>1. buf'[r] = buf[r]
      BY <1>2, <2>1, WrittenVectors
    <3>2. curr'[r] = curr[r]
      BY <1>2, <2>1 DEF Update, Copy, Cycle, TypeInv, TypeOK
    <3> QED
      BY <1>1, <3>1, <3>2
  <2>2. CASE q = r
    <3>1. curr' = curr
      BY <1>2, <2>2 DEF Update, Copy
    <3> QED
      BY <1>2, <2>2, <3>1, UpdateVectors, CopyVectors
  <2> QED
    BY <2>1, <2>2
<1>3. (\E q \in Node : Update(q) \/ Copy(q) \/ Cycle(q)) \/ UNCHANGED <<buf, curr>>
  BY DEF Next, Router, Send, Main, vars, routerVars, SelectOwn, SelectSend, SelectMeet,
         SelectClosed, Reply, CollectMeet, Flush, FlushMeet, Collect, Sleep, Close, Join,
         Done
<1>4. curr'[r] = curr[r] => curr_state(r)' = curr_state(r)
  BY DEF curr_state
<1> QED
  BY <1>1, <1>2, <1>3, <1>4

\* A router never forgets a path: what its next broadcast will improve on only
\* becomes shorter.
LEMMA BestFalls ==
    ASSUME TypeInv, EpochInv, EpochInv', [Next]_vars, NEW n \in Node, NEW d \in Node
    PROVE  Best(n)'[d] <= Best(n)[d]
<1>1. /\ Best(n) = IF pc[n] = "copy" THEN this(n).dist ELSE fresh(n).dist
      /\ Best(n)' = IF pc'[n] = "copy" THEN this(n)'.dist ELSE fresh(n)'.dist
  BY DEF Best, this, fresh
<1>2. this(n).dist[d] \in Nat /\ fresh(n).dist[d] \in Nat
  BY VectorTypes, SizeAssumption DEF Vector, Dist
<1>3. EpochOf(n) /\ EpochOf(n)'
  BY DEF EpochInv
<1>4. CASE Update(n)
  <2>1. pc[n] = "update" /\ pc'[n] # "copy"
    BY <1>4 DEF Update, AfterEvent, TypeInv, TypeOK
  <2>2. fresh(n)'.dist[d] = IF d \in Better(n) THEN ViaNeighbour(n, d)
                                               ELSE fresh(n).dist[d]
    BY <1>4, UpdateVectors
  <2>3. d \in Better(n) => ViaNeighbour(n, d) < fresh(n).dist[d]
    BY DEF Better, fresh
  <2>4. fresh(n)'.dist[d] \in Nat
    <3>1. fresh(n)' = buf'[n][NextSlot(n)] /\ NextSlot(n) \in Slot
      BY <1>4, VectorTypes DEF fresh, NextSlot, Update
    <3>2. fresh(n)'.dist[d] \in Dist
      BY <1>4, <3>1, WrittenVectors
    <3> QED
      BY <3>2, SizeAssumption DEF Dist
  <2>5. fresh(n)'.dist[d] <= fresh(n).dist[d]
    <3>1. CASE d \in Better(n)
      BY <1>2, <2>2, <2>3, <2>4, <3>1
    <3>2. CASE d \notin Better(n)
      BY <1>2, <2>2, <3>2
    <3> QED
      BY <3>1, <3>2
  <2> QED
    BY <1>1, <2>1, <2>5
<1>5. CASE Copy(n)
  <2>1. this(n)' = this(n) /\ pc[n] = "copy" /\ pc'[n] \in {"copy", "select"}
    BY <1>5, CopyVectors DEF Copy, TypeInv, TypeOK
  <2>2. pc'[n] # "copy" => fresh(n)'.dist[d] <= this(n)'.dist[d]
    BY <1>3 DEF EpochOf
  <2> QED
    BY <1>1, <1>2, <2>1, <2>2
<1>6. CASE Cycle(n)
  <2>1. this(n)' = fresh(n) /\ pc[n] = "cycle" /\ pc'[n] = "copy"
    BY <1>6, CycleVectors DEF Cycle, TypeInv, TypeOK
  <2> QED
    BY <1>1, <1>2, <2>1
<1>7. CASE ~Update(n) /\ ~Copy(n) /\ ~Cycle(n)
  <2>1. buf'[n] = buf[n] /\ curr'[n] = curr[n]
    <3>1. ASSUME NEW q \in Node, Update(q) \/ Copy(q) \/ Cycle(q), q # n
          PROVE  buf'[n] = buf[n] /\ curr'[n] = curr[n]
      <4>1. buf'[n] = buf[n]
        BY <3>1, WrittenVectors
      <4> QED
        BY <3>1, <4>1 DEF Update, Copy, Cycle, TypeInv, TypeOK
    <3>2. (\E q \in Node : Update(q) \/ Copy(q) \/ Cycle(q)) \/ UNCHANGED <<buf, curr>>
      BY DEF Next, Router, Send, Main, vars, routerVars, SelectOwn, SelectSend, SelectMeet,
             SelectClosed, Reply, CollectMeet, Flush, FlushMeet, Collect, Sleep, Close,
             Join, Done
    <3> QED
      BY <1>7, <3>1, <3>2
  <2>2. this(n)' = this(n) /\ fresh(n)' = fresh(n)
    BY <2>1 DEF this, fresh, Deref, curr_state, NextSlot
  <2>3. pc[n] = "copy" <=> pc'[n] = "copy"
    <3>1. pc \in [Node -> {"select", "update", "cycle", "copy", "reply", "exited"}]
          /\ mi \in Node /\ \A q \in Node : \A m \in Neighbours(q) : m \in Node
      BY DEF TypeInv, TypeOK, Neighbours
    <3>2. ASSUME NEW q \in Node, Router(q)
          PROVE  pc[n] = "copy" <=> pc'[n] = "copy"
      <4>1. CASE SelectOwn(q) \/ SelectClosed(q) \/ Reply(q) \/ CollectMeet(q)
        BY <3>1, <4>1 DEF SelectOwn, SelectClosed, Reply, CollectMeet, AfterHandle,
                          AfterEvent
      <4>2. CASE Send(q)
        BY <3>1, <4>2 DEF Send, SelectSend, SelectMeet, AfterHandle, AfterEvent
      <4>3. CASE Update(q) \/ Copy(q) \/ Cycle(q)
        <5>1. q # n
          BY <1>7, <4>3
        <5>2. pc'[n] = pc[n]
          BY <3>1, <4>3, <5>1 DEF Update, Copy, Cycle
        <5> QED
          BY <5>2
      <4> QED
        BY <3>2, <4>1, <4>2, <4>3 DEF Router
    <3>3. ASSUME Main \/ Done \/ UNCHANGED vars
          PROVE  pc[n] = "copy" <=> pc'[n] = "copy"
      BY <3>1, <3>3 DEF Main, Flush, FlushMeet, Collect, Sleep, Close, Join, Done, vars,
                        routerVars, AfterHandle
    <3> QED
      BY <3>2, <3>3 DEF Next
  <2> QED
    BY <1>1, <1>2, <2>2, <2>3
<1> QED
  BY <1>4, <1>5, <1>6, <1>7

\* Nothing is taken back: if r's state neither comes nor goes, and n is no
\* further in it, then n knows what it knew.
LEMMA KnownKept ==
    ASSUME TypeInv, EpochInv, EpochInv', [Next]_vars,
           NEW r \in Node, NEW n \in Neighbours(r), KnownOf(r, n),
           ~Cycle(r),
           (~Pending(r, n))' /\ (~InDriver(n, curr_state(r)))' =>
               ~Pending(r, n) /\ ~InDriver(n, curr_state(r)),
           \A d \in Node : Past(n, curr_state(r), d)' => Past(n, curr_state(r), d)
    PROVE  KnownOf(r, n)'
<1>1. this(r)' = this(r) /\ Link(n, r)' = Link(n, r)
  <2>1. topology' = topology
    BY DEF Next, Router, Send, Main, vars, graphVars, SelectOwn, SelectSend, SelectMeet,
           SelectClosed, Update, Copy, Cycle, Reply, CollectMeet, Flush, FlushMeet,
           Collect, Sleep, Close, Join, Done
  <2> QED
    BY <2>1, ThisKept DEF Link
<1> SUFFICES ASSUME (~Pending(r, n))', (~InDriver(n, curr_state(r)))',
                    NEW d \in Node, Past(n, curr_state(r), d)'
             PROVE  Best(n)'[d] <= Link(n, r) + this(r).dist[d]
  BY <1>1 DEF KnownOf
<1>2. Best(n)[d] <= Link(n, r) + this(r).dist[d]
  BY DEF KnownOf
<1>3. Best(n)'[d] <= Best(n)[d]
  BY KnownTypes, BestFalls
<1>4. Best(n)[d] \in Nat /\ this(r).dist[d] \in Nat /\ Link(n, r) \in Nat
  BY KnownTypes, SizeAssumption DEF Dist
<1>5. TypeInv' /\ n \in Node
  BY StepTypes, KnownTypes
<1>6. Best(n)'[d] \in Nat
  <2>1. Best(n)' = this(n)'.dist \/ Best(n)' = fresh(n)'.dist
    BY DEF Best, this, fresh
  <2>2. this(n)' = buf'[n][curr'[n]] /\ fresh(n)' = buf'[n][(curr'[n] + 1) % 3]
    BY DEF this, fresh, Deref, curr_state, NextSlot
  <2>3. /\ buf' \in [Node -> [Slot -> [epoch : Nat, dist : [Node -> Dist]]]]
        /\ curr'[n] \in Slot
    BY <1>5 DEF TypeInv, TypeOK
  <2>4. (curr'[n] + 1) % 3 \in Slot
    BY <2>3, SlotRotation
  <2>5. this(n)'.dist[d] \in Dist /\ fresh(n)'.dist[d] \in Dist
    BY <1>5, <2>2, <2>3, <2>4
  <2> QED
    BY <2>1, <2>5, SizeAssumption DEF Dist
<1> QED
  BY <1>2, <1>3, <1>4, <1>6

\* The update loop takes in what it reads.
LEMMA LoopKnows ==
    ASSUME TypeInv, NEW r \in Node, NEW n \in Neighbours(r), Update(n),
           job[n] = curr_state(r), NEW d \in Iterations(n)
    PROVE  Best(n)'[d] <= Link(n, r) + this(r).dist[d]
<1>1. n \in Node /\ d \in Node
  BY DEF Neighbours, Iterations
<1>2. Best(n)' = fresh(n)'.dist
  <2>1. pc'[n] # "copy"
    BY <1>1 DEF Update, AfterEvent, TypeInv, TypeOK
  <2> QED
    BY <2>1 DEF Best, fresh
<1>3. ViaNeighbour(n, d) = Link(n, r) + this(r).dist[d]
  <2>1. job[n].src = r /\ Deref(job[n]) = this(r)
    BY DEF curr_state, this
  <2> QED
    BY <1>1, <2>1, KnownTypes DEF ViaNeighbour
<1>4. fresh(n)'.dist[d] = IF d \in Better(n) THEN ViaNeighbour(n, d)
                                             ELSE fresh(n).dist[d]
  BY <1>1, UpdateVectors
<1>5. d \notin Better(n) => ~(ViaNeighbour(n, d) < fresh(n).dist[d])
  BY DEF Better, fresh
<1>6. /\ Link(n, r) \in Nat /\ this(r).dist[d] \in Nat /\ fresh(n).dist[d] \in Nat
      /\ ViaNeighbour(n, d) \in Nat
  <2>1. Link(n, r) \in Nat /\ this(r).dist[d] \in Nat
    BY <1>1, KnownTypes, SizeAssumption DEF Dist
  <2>2. fresh(n).dist[d] \in Nat
    BY <1>1, VectorTypes, SizeAssumption DEF Vector, Dist
  <2> QED
    BY <1>3, <2>1, <2>2
<1>7. fresh(n)'.dist[d] <= ViaNeighbour(n, d)
  <2>1. CASE d \in Better(n)
    BY <1>4, <1>6, <2>1
  <2>2. CASE d \notin Better(n)
    BY <1>4, <1>5, <1>6, <2>2
  <2> QED
    BY <2>1, <2>2
<1> QED
  BY <1>2, <1>3, <1>7

\* Jobs join a driver's queue at its end and leave it at its head.
LEMMA JobsMove ==
    ASSUME NEW q \in Seq(Job), NEW j \in Job, NEW p
    PROVE  /\ (\E i \in 1 .. Len(q) : q[i] = p) =>
                  \E i \in 1 .. Len(Append(q, j)) : Append(q, j)[i] = p
           /\ \E i \in 1 .. Len(Append(q, j)) : Append(q, j)[i] = j
           /\ q # <<>> /\ (\E i \in 1 .. Len(q) : q[i] = p) =>
                  Head(q) = p \/ \E i \in 1 .. Len(Tail(q)) : Tail(q)[i] = p
<1>1. Len(q) \in Nat /\ Len(Append(q, j)) = Len(q) + 1
      /\ Append(q, j)[Len(q) + 1] = j
      /\ \A i \in 1 .. Len(q) : Append(q, j)[i] = q[i]
  BY AppendProperties, LenProperties
<1>2. ASSUME q # <<>>, NEW i \in 1 .. Len(q), q[i] = p, Head(q) # p
      PROVE  \E k \in 1 .. Len(Tail(q)) : Tail(q)[k] = p
  <2>1. Head(q) = q[1] /\ Len(Tail(q)) = Len(q) - 1
        /\ \A k \in 1 .. Len(Tail(q)) : Tail(q)[k] = q[k + 1]
    BY <1>2, HeadTailProperties
  <2>2. i - 1 \in 1 .. Len(Tail(q)) /\ (i - 1) + 1 = i
    BY <1>1, <1>2, <2>1
  <2> QED
    BY <1>2, <2>1, <2>2
<1> QED
  BY <1>1, <1>2

\* The steps of n itself, after which it may be done with r's state.
LEMMA KnownByReader ==
    ASSUME TypeInv, EpochInv, EpochInv', [Next]_vars,
           NEW r \in Node, NEW n \in Neighbours(r), KnownOf(r, n),
           SelectOwn(n) \/ Update(n)
    PROVE  KnownOf(r, n)'
<1> DEFINE p == curr_state(r)
<1>0. /\ n \in Node /\ n # r /\ pc \in [Node -> {"select", "update", "cycle", "copy", "reply", "exited"}]
      /\ job \in [Node -> Job] /\ at \in [Node -> Nat] /\ queue \in [Node -> Seq(Job)]
      /\ curr \in [Node -> Slot]
  BY KnownTypes DEF TypeInv, TypeOK, Neighbours
<1>1. ~Cycle(r)
  BY <1>0 DEF SelectOwn, Update, Cycle
<1>2. p' = p
  BY <1>1, ThisKept
<1>3. CASE SelectOwn(n)
  <2>1. /\ pc[n] = "select" /\ queue[n] # <<>> /\ queue'[n] = Tail(queue[n])
        /\ job'[n] = Head(queue[n]) /\ at'[n] = 0 /\ UNCHANGED <<select_count, pos>>
        /\ pc'[n] = AfterHandle(Head(queue[n]))
    BY <1>0, <1>3 DEF SelectOwn, Handled
  <2>2. CASE Head(queue[n]) = p
    <3>1. pc'[n] = "update"
      BY <2>1, <2>2 DEF AfterHandle, curr_state, NullJob, Node
    <3>2. \A d \in Node : ~Past(n, p, d)'
      BY <1>2, <2>1, <2>2, <3>1, SizeAssumption DEF Past, Node
    <3> QED
      BY <3>2 DEF KnownOf
  <2>3. CASE Head(queue[n]) # p
    <3>1. InDriver(n, p) => InDriver(n, p)'
      <4>1. queue[n] \in Seq(Job) /\ Head(queue[n]) \in Job
        BY <1>0, <2>1, HeadTailProperties
      <4>2. (\E i \in 1 .. Len(queue[n]) : queue[n][i] = p) =>
               \E i \in 1 .. Len(queue'[n]) : queue'[n][i] = p
        BY <2>1, <2>3, <4>1, JobsMove
      <4> QED
        BY <1>2, <4>2 DEF InDriver
    <3>2. Pending(r, n)' = Pending(r, n)
      BY <2>1 DEF Pending
    <3>3. \A d \in Node : Past(n, p, d)
      BY <2>1 DEF Past
    <3> QED
      BY <1>1, <3>1, <3>2, <3>3, KnownKept
  <2> QED
    BY <2>2, <2>3
<1>4. CASE Update(n)
  <2>1. /\ pc[n] = "update" /\ UNCHANGED <<queue, job, select_count, pos, topology>>
        /\ at'[n] = at[n] + Chunk
        /\ pc'[n] = "update" \/ LastIterations(n)
    BY <1>0, <1>4 DEF Update, graphVars
  <2>2. Pending(r, n)' = Pending(r, n) /\ InDriver(n, p)' = InDriver(n, p)
    BY <1>2, <2>1 DEF Pending, InDriver
  <2>3. CASE job[n] # p
    <3>1. \A d \in Node : Past(n, p, d)
      BY <2>3 DEF Past
    <3> QED
      BY <1>1, <2>2, <3>1, KnownKept
  <2>4. CASE job[n] = p
    <3> SUFFICES ASSUME ~Pending(r, n), ~InDriver(n, p), NEW d \in Node, Past(n, p, d)'
                 PROVE  Best(n)'[d] <= Link(n, r) + this(r).dist[d]
      <4>1. this(r)' = this(r) /\ Link(n, r)' = Link(n, r)
        BY <1>1, <2>1, ThisKept DEF Link
      <4> QED
        BY <2>2, <4>1 DEF KnownOf
    <3>1. d < at[n] \/ d \in Iterations(n)
      <4>1. pc'[n] = "update" => d < at[n] + Chunk
        BY <1>2, <2>1, <2>4 DEF Past
      <4>2. d < at[n] + Chunk
        BY <1>0, <2>1, <4>1, LoopEnd
      <4> QED
        BY <1>0, <4>2, LoopEnd
    <3>2. CASE d \in Iterations(n)
      BY <1>4, <2>4, <3>2, LoopKnows
    <3>3. CASE d < at[n]
      <4>1. Best(n)[d] <= Link(n, r) + this(r).dist[d]
        BY <3>3 DEF KnownOf, Past
      <4>2. Best(n)'[d] <= Best(n)[d]
        BY <1>0, BestFalls
      <4>3. Best(n)[d] \in Nat /\ this(r).dist[d] \in Nat /\ Link(n, r) \in Nat
        BY KnownTypes, SizeAssumption DEF Dist
      <4>4. Best(n)'[d] \in Int
        <5>1. pc'[n] # "copy"
          BY <1>0, <1>4 DEF Update, AfterEvent
        <5>2. Best(n)' = buf'[n][NextSlot(n)].dist
          BY <1>4, <5>1 DEF Best, NextSlot, Update
        <5>3. Best(n)'[d] \in Dist
          BY <1>0, <1>4, <5>2, WrittenVectors, VectorTypes
        <5> QED
          BY <5>3, SizeAssumption DEF Dist
      <4> QED
        BY <4>1, <4>2, <4>3, <4>4
    <3> QED
      BY <3>1, <3>2, <3>3
  <2> QED
    BY <2>3, <2>4
<1> QED
  BY <1>3, <1>4

\* The steps of r, or of another router towards n, by which n gets a state.
LEMMA KnownBySend ==
    ASSUME TypeInv, ListInv, EpochInv, EpochInv', [Next]_vars,
           NEW r \in Node, NEW n \in Neighbours(r), KnownOf(r, n),
           NEW q \in Node, NEW m \in Neighbours(q), SelectSend(q, m) \/ SelectMeet(q, m)
    PROVE  KnownOf(r, n)'
<1> DEFINE p == curr_state(r)
<1>0. /\ n \in Node /\ n # r /\ m \in Node /\ m # q
      /\ pc \in [Node -> {"select", "update", "cycle", "copy", "reply", "exited"}]
      /\ job \in [Node -> Job] /\ at \in [Node -> Nat] /\ queue \in [Node -> Seq(Job)]
      /\ curr_state(q) \in Job
  BY KnownTypes, JobsOfDrivers DEF TypeInv, TypeOK, Neighbours, Job
<1>1. ~Cycle(r)
  BY <1>0 DEF SelectSend, SelectMeet, Cycle, AfterEvent, AfterHandle, TypeInv, TypeOK
<1>2. p' = p
  BY <1>1, ThisKept
<1>3. Pending(q, m) /\ Sent(q, m)
  BY DEF SelectSend, SelectMeet
<1>4. ~(q = r /\ m = n) => ((~Pending(r, n))' => ~Pending(r, n))
  BY <1>3, SentList DEF Pending
<1>5. CASE SelectSend(q, m)
  <2>1. /\ queue'[m] = Append(queue[m], curr_state(q))
        /\ \A k \in Node : k # m => queue'[k] = queue[k]
        /\ UNCHANGED <<job, at>>
        /\ pc[q] = "select" /\ pc'[q] \in {"select", "cycle"}
        /\ \A k \in Node : k # q => pc'[k] = pc[k]
    BY <1>0, <1>5 DEF SelectSend, AfterEvent
  <2>2. CASE q = r /\ m = n
    <3>1. \E i \in 1 .. Len(queue'[n]) : queue'[n][i] = p
      <4>1. queue[m] \in Seq(Job) /\ p \in Job
        BY <1>0, <2>2
      <4> DEFINE old == queue[m]
      <4> HIDE DEF old, p
      <4>2. \E i \in 1 .. Len(Append(old, p)) : Append(old, p)[i] = p
        BY <4>1, JobsMove DEF old
      <4> QED
        BY <2>1, <2>2, <4>2 DEF old, p
    <3> QED
      BY <1>2, <3>1 DEF KnownOf, InDriver
  <2>3. CASE ~(q = r /\ m = n)
    <3>1. InDriver(n, p) => InDriver(n, p)'
      <4>1. (\E i \in 1 .. Len(queue[n]) : queue[n][i] = p) =>
               \E i \in 1 .. Len(queue'[n]) : queue'[n][i] = p
        <5> DEFINE old == queue[m]
                   j == curr_state(q)
        <5>1. old \in Seq(Job) /\ j \in Job
          BY <1>0
        <5> HIDE DEF old, j, p
        <5>2. (\E i \in 1 .. Len(old) : old[i] = p) =>
                 \E i \in 1 .. Len(Append(old, j)) : Append(old, j)[i] = p
          BY <5>1, JobsMove
        <5> QED
          BY <1>0, <2>1, <5>2 DEF old, j
      <4> QED
        BY <1>2, <4>1 DEF InDriver
    <3>2. \A d \in Node : Past(n, p, d)' => Past(n, p, d)
      BY <1>0, <1>2, <2>1 DEF Past
    <3> QED
      BY <1>1, <1>4, <2>3, <3>1, <3>2, KnownKept
  <2> QED
    BY <2>2, <2>3
<1>6. CASE SelectMeet(q, m)
  <2>1. /\ UNCHANGED queue /\ pc[m] = "select"
        /\ pc'[m] = AfterHandle(curr_state(q)) /\ job'[m] = curr_state(q) /\ at'[m] = 0
        /\ pc[q] = "select" /\ pc'[q] \in {"select", "cycle"}
        /\ \A k \in Node : k # m => job'[k] = job[k] /\ at'[k] = at[k]
        /\ \A k \in Node : k # q /\ k # m => pc'[k] = pc[k]
    BY <1>0, <1>6 DEF SelectMeet, AfterEvent, Handled
  <2>2. CASE q = r /\ m = n
    <3>1. pc'[n] = "update" /\ job'[n] = p
      BY <2>1, <2>2 DEF AfterHandle, curr_state, NullJob, Node
    <3>2. \A d \in Node : ~Past(n, p, d)'
      BY <1>2, <2>1, <2>2, <3>1, SizeAssumption DEF Past, Node
    <3> QED
      BY <3>2 DEF KnownOf
  <2>3. CASE ~(q = r /\ m = n)
    <3>1. InDriver(n, p)' = InDriver(n, p)
      BY <1>2, <2>1 DEF InDriver
    <3>2. \A d \in Node : Past(n, p, d)' => Past(n, p, d)
      <4>1. CASE n = m \/ n = q
        BY <2>1, <4>1 DEF Past
      <4>2. CASE n # m /\ n # q
        BY <1>0, <1>2, <2>1, <4>2 DEF Past
      <4> QED
        BY <4>1, <4>2
    <3> QED
      BY <1>1, <1>4, <2>3, <3>1, <3>2, KnownKept
  <2> QED
    BY <2>2, <2>3
<1> QED
  BY <1>5, <1>6

LEMMA StepKnown ==
    TypeInv /\ ListInv /\ ListInv' /\ EpochInv /\ EpochInv' /\ KnownInv /\ [Next]_vars
        => KnownInv'
<1> SUFFICES ASSUME TypeInv, ListInv, ListInv', EpochInv, EpochInv', KnownInv,
                    [Next]_vars
             PROVE  KnownInv'
  OBVIOUS
<1>a. \A q : Neighbours(q)' = Neighbours(q)
  <2>1. UNCHANGED graphVars
    BY DEF Next, Router, Send, Main, vars, SelectOwn, SelectSend, SelectMeet,
           SelectClosed, Update, Copy, Cycle, Reply, CollectMeet, Flush, FlushMeet,
           Collect, Sleep, Close, Join, Done
  <2> QED
    BY <2>1, SameGraph
<1> SUFFICES ASSUME NEW r \in Node, NEW n \in Neighbours(r)
             PROVE  KnownOf(r, n)'
  BY <1>a DEF KnownInv
<1>0. /\ KnownOf(r, n) /\ n \in Node /\ n # r /\ mi \in Node
      /\ pc \in [Node -> {"select", "update", "cycle", "copy", "reply", "exited"}]
      /\ job \in [Node -> Job] /\ at \in [Node -> Nat] /\ queue \in [Node -> Seq(Job)]
  BY DEF KnownInv, Neighbours, TypeInv, TypeOK
<1>1. CASE Cycle(r)
  <2>1. /\ select_count'[r] = total_select_count(r) /\ UNCHANGED graphVars
        /\ pos' = pos
    BY <1>1 DEF Cycle, TypeInv, TypeOK
  <2>2. pos[r][n] < total_select_count(r)
    BY DEF ListInv
  <2> QED
    BY <2>1, <2>2 DEF KnownOf, Pending
<1>2. CASE ~Cycle(r)
  <2> DEFINE p == curr_state(r)
  <2>0. p' = p
    BY <1>2, ThisKept
  <2>1. CASE SelectOwn(n) \/ Update(n)
    BY <1>0, <2>1, KnownByReader
  <2>2. ASSUME NEW q \in Node, NEW m \in Neighbours(q), SelectSend(q, m) \/ SelectMeet(q, m)
        PROVE  KnownOf(r, n)'
    BY <1>0, <2>2, KnownBySend
  <2>3. ASSUME UNCHANGED <<select_count, pos>>,
               InDriver(n, p) => InDriver(n, p)',
               \A d \in Node : Past(n, p, d)' => Past(n, p, d)
        PROVE  KnownOf(r, n)'
    <3>1. Pending(r, n)' = Pending(r, n)
      BY <2>3 DEF Pending
    <3> QED
      BY <1>0, <1>2, <2>3, <3>1, KnownKept
  <2>4. ASSUME NEW q \in Node,
               \/ q # n /\ (SelectOwn(q) \/ Update(q))
               \/ SelectClosed(q) \/ Copy(q) \/ Reply(q) \/ CollectMeet(q)
        PROVE  KnownOf(r, n)'
    <3>1. queue'[n] = queue[n] /\ UNCHANGED <<select_count, pos>>
      BY <1>0, <2>4 DEF SelectOwn, Update, SelectClosed, Copy, Reply, CollectMeet
    <3>2. InDriver(n, p)' = InDriver(n, p)
      BY <2>0, <3>1 DEF InDriver
    <3>3. \A d \in Node : Past(n, p, d)' => Past(n, p, d)
      <4>1. CASE q # n
        <5>1. pc'[n] = pc[n] /\ job'[n] = job[n] /\ at'[n] = at[n]
          BY <1>0, <2>4, <4>1 DEF SelectOwn, Update, SelectClosed, Copy, Reply, CollectMeet,
                                  Handled
        <5> QED
          BY <2>0, <5>1 DEF Past
      <4>2. CASE q = n
        <5>1. pc[n] # "update"
          BY <2>4, <4>2 DEF SelectClosed, Copy, Reply, CollectMeet
        <5> QED
          BY <5>1 DEF Past
      <4> QED
        BY <4>1, <4>2
    <3> QED
      BY <2>3, <3>1, <3>2, <3>3
  <2>5. ASSUME NEW q \in Node, q # r, Cycle(q)
        PROVE  KnownOf(r, n)'
    <3>1. Pending(r, n)' = Pending(r, n)
      BY <2>5 DEF Cycle, Pending, TypeInv, TypeOK
    <3>2. InDriver(n, p)' = InDriver(n, p)
      BY <2>0, <2>5 DEF Cycle, InDriver
    <3>3. \A d \in Node : Past(n, p, d)' => Past(n, p, d)
      <4>1. CASE q # n
        <5>1. pc'[n] = pc[n] /\ job'[n] = job[n] /\ at'[n] = at[n]
          BY <1>0, <2>5, <4>1 DEF Cycle
        <5> QED
          BY <2>0, <5>1 DEF Past
      <4>2. CASE q = n
        <5>1. pc[n] # "update"
          BY <2>5, <4>2 DEF Cycle
        <5> QED
          BY <5>1 DEF Past
      <4> QED
        BY <4>1, <4>2
    <3> QED
      BY <1>0, <1>2, <3>1, <3>2, <3>3, KnownKept
  <2>6. ASSUME Main \/ Done \/ UNCHANGED vars
        PROVE  KnownOf(r, n)'
    <3>1. UNCHANGED <<select_count, pos>>
      BY <2>6 DEF Main, Flush, FlushMeet, Collect, Sleep, Close, Join, Done, vars,
                  routerVars
    <3>2. InDriver(n, p) => InDriver(n, p)'
      <4>1. queue'[n] = queue[n] \/ queue'[n] = Append(queue[n], NullJob)
        BY <1>0, <2>6 DEF Main, Flush, FlushMeet, Collect, Sleep, Close, Join, Done, vars,
                          routerVars
      <4> DEFINE old == queue[n]
      <4>2. old \in Seq(Job) /\ NullJob \in Job
        BY <1>0 DEF Job
      <4> HIDE DEF old, p
      <4>3. (\E i \in 1 .. Len(old) : old[i] = p) =>
               \E i \in 1 .. Len(Append(old, NullJob)) : Append(old, NullJob)[i] = p
        BY <4>2, JobsMove
      <4> QED
        BY <2>0, <4>1, <4>3 DEF InDriver, old
    <3>3. \A d \in Node : Past(n, p, d)' => Past(n, p, d)
      <4>1. \/ pc'[n] = pc[n] /\ job'[n] = job[n] /\ at'[n] = at[n]
            \/ pc[n] # "update"
        BY <1>0, <2>6 DEF Main, Flush, FlushMeet, Collect, Sleep, Close, Join, Done, vars,
                          routerVars, Handled
      <4> QED
        BY <2>0, <4>1 DEF Past
    <3> QED
      BY <2>3, <3>1, <3>2, <3>3
  <2> QED
    BY <1>2, <2>1, <2>2, <2>4, <2>5, <2>6 DEF Next, Router, Send
<1> QED
  BY <1>1, <1>2

\* An entry that left the select_list has done its work, for every topology,
\* every size of the drivers and although vectors are read while they are
\* written.
THEOREM HeardKnown == Spec => []HeardMeansKnown
<1>1. TypeInv /\ KnownInv => HeardMeansKnown
  <2> SUFFICES ASSUME KnownInv, NEW r \in Node, NEW n \in Neighbours(r), HeardOf(r, n),
                      NEW d \in Node
               PROVE  Best(n)[d] <= Link(n, r) + Deref(curr_state(r)).dist[d]
    BY DEF HeardMeansKnown
  <2> QED
    BY DEF KnownInv, KnownOf, HeardOf, InDriver, Past, this
<1> QED
  BY <1>1, InitTypes, StepTypes, InitList, StepList, InitEpoch, StepEpoch, InitKnown,
     StepKnown, PTL DEF Spec

---------------------------------------------------------------------------
(* At rest *)

\* No router forgets its own links.
LinksInv == \A r, d \in Node : Best(r)[d] <= topology[r][d]

LEMMA InitLinks == Init => LinksInv
<1> SUFFICES ASSUME Init, NEW r \in Node, NEW d \in Node
             PROVE  Best(r)[d] <= topology[r][d]
  BY DEF LinksInv
<1>1. NextSlot(r) \in Slot /\ pc[r] = "select"
  BY DEF Init, InitRouter, NextSlot, Slot
<1>2. Best(r) = topology[r]
  BY <1>1 DEF Init, InitRouter, Best
<1>3. topology[r][d] \in Dist
  BY TopologyAssumption DEF Init
<1> QED
  BY <1>2, <1>3, SizeAssumption DEF Dist

BestTyped == \A r, d \in Node : Best(r)[d] \in Dist

LEMMA BestTypes == TypeInv => BestTyped
BY VectorTypes DEF BestTyped, Best, this, fresh, Vector

LEMMA StepLinks ==
    TypeInv /\ TypeInv' /\ EpochInv /\ EpochInv' /\ LinksInv /\ [Next]_vars => LinksInv'
<1> SUFFICES ASSUME TypeInv, TypeInv', EpochInv, EpochInv', LinksInv, [Next]_vars
             PROVE  LinksInv'
  OBVIOUS
<1>1. topology' = topology
  BY DEF Next, Router, Send, Main, vars, graphVars, SelectOwn, SelectSend, SelectMeet,
         SelectClosed, Update, Copy, Cycle, Reply, CollectMeet, Flush, FlushMeet, Collect,
         Sleep, Close, Join, Done
<1> SUFFICES ASSUME NEW r \in Node, NEW d \in Node
             PROVE  Best(r)'[d] <= topology[r][d]
  BY <1>1 DEF LinksInv
<1>2. Best(r)'[d] <= Best(r)[d]
  BY BestFalls
<1>3. Best(r)[d] <= topology[r][d]
  BY DEF LinksInv
<1>4. Best(r)[d] \in Dist /\ topology[r][d] \in Dist
  <2>1. topology \in [Node -> [Node -> Dist]]
    BY TopologyAssumption DEF TypeInv, TypeOK
  <2> QED
    BY <2>1, BestTypes DEF BestTyped
<1>5. Best(r)'[d] \in Dist
  <2>1. BestTyped'
    BY BestTypes, PTL
  <2> QED
    BY <2>1 DEF BestTyped
<1> QED
  BY <1>2, <1>3, <1>4, <1>5, SizeAssumption DEF Dist

\* What may be announced with a link m away of distances x: no more than the
\* link and the way on, and no more than one's own link.
Relaxed(t, x) ==
    \A i, d \in Node :
        /\ x[i][d] <= t[i][d]
        /\ \A m \in Node : t[i][m] # Inf => x[i][d] <= t[i][m] + x[m][d]

\* The solution is the greatest of them: besides no longer than any path, which
\* SolutionAssumption says, it is as long as the shortest one.
SolutionIsShortest ==
    \A t \in Topologies : \A x \in [Node -> [Node -> Dist]] :
        Relaxed(t, x) => \A i, d \in Node : x[i][d] <= Solution[t][i][d]

\* A router at rest announces what it has, and has sent it to every neighbour.
LEMMA QuietKnows ==
    ASSUME TypeInv, EpochInv, ListInv, KnownInv, LinksInv, \A r \in Node : Quiet(r)
    PROVE  /\ \A r, d \in Node : Best(r)[d] = this(r).dist[d]
           /\ Relaxed(topology, [r \in Node |-> this(r).dist])
<1>1. ASSUME NEW r \in Node
      PROVE  /\ pc[r] # "copy" /\ pc[r] # "update" /\ ~driverged[r]
             /\ queue[r] = <<>> /\ select_count[r] = 2
  BY DEF Quiet
<1>2. \A r, d \in Node : Best(r)[d] = this(r).dist[d]
  BY <1>1 DEF EpochInv, EpochOf, Best, this, fresh
<1>3. \A r, d \in Node : this(r).dist[d] \in Nat /\ topology[r][d] \in Nat
  <2>1. topology \in [Node -> [Node -> Dist]]
    BY TopologyAssumption DEF TypeInv, TypeOK
  <2> QED
    BY <2>1, VectorTypes, SizeAssumption DEF Vector, Dist
<1>4. \A i, d \in Node : this(i).dist[d] <= topology[i][d]
  BY <1>2 DEF LinksInv
<1>5. ASSUME NEW i \in Node, NEW d \in Node, NEW m \in Node, topology[i][m] # Inf
      PROVE  this(i).dist[d] <= topology[i][m] + this(m).dist[d]
  <2>1. CASE m = i
    BY <1>3, <2>1
  <2>2. CASE m # i
    <3>1. topology[m][i] # Inf
      BY <1>5, TopologyAssumption DEF TypeInv, TypeOK
    <3>2. i \in Neighbours(m)
      BY <2>2, <3>1 DEF Neighbours, Link
    <3>3. pos[m][i] \in Nat /\ 2 <= pos[m][i]
      BY <3>2 DEF ListInv, TypeInv, TypeOK
    <3>4. ~Pending(m, i)
      BY <1>1, <3>3 DEF Pending
    <3>5. ~InDriver(i, curr_state(m)) /\ Past(i, curr_state(m), d)
      BY <1>1 DEF InDriver, Past
    <3>6. Best(i)[d] <= Link(i, m) + this(m).dist[d]
      BY <3>2, <3>4, <3>5 DEF KnownInv, KnownOf
    <3> QED
      BY <1>2, <3>6 DEF Link
  <2> QED
    BY <2>1, <2>2
<1> QED
  BY <1>2, <1>4, <1>5 DEF Relaxed

\* When nobody has anything to read, to send or to announce, the distances are
\* the shortest ones: the computation does not come to rest before the answer.
THEOREM QuietSolved == SolutionIsShortest => (Spec => []QuietMeansSolved)
<1> SUFFICES ASSUME SolutionIsShortest PROVE Spec => []QuietMeansSolved
  OBVIOUS
<1>1. TypeInv /\ EpochInv /\ ListInv /\ KnownInv /\ LinksInv /\ NoUnderestimate
        => QuietMeansSolved
  <2> SUFFICES ASSUME TypeInv, EpochInv, ListInv, KnownInv, LinksInv, NoUnderestimate,
                      \A q \in Node : Quiet(q), NEW r \in Node
               PROVE  this(r).dist = solution[r]
    BY DEF QuietMeansSolved, this
  <2> DEFINE x == [q \in Node |-> this(q).dist]
  <2>1. Relaxed(topology, x)
    BY QuietKnows
  <2>2. x \in [Node -> [Node -> Dist]]
    BY VectorTypes DEF Vector
  <2>3. topology \in Topologies /\ solution = Solution[topology]
        /\ solution \in [Node -> [Node -> Dist]]
    BY DEF TypeInv, TypeOK, InHand
  <2>4. \A d \in Node : this(r).dist[d] <= solution[r][d]
    <3>1. \A d \in Node : x[r][d] <= Solution[topology][r][d]
      <4> HIDE DEF x
      <4> QED
        BY <2>1, <2>2, <2>3 DEF SolutionIsShortest
    <3> QED
      BY <2>3, <3>1
  <2>5. \A d \in Node : this(r).dist[d] >= solution[r][d]
    <3>1. curr[r] \in Slot /\ this(r) = buf[r][curr[r]]
      BY VectorTypes
    <3> QED
      BY <3>1 DEF NoUnderestimate
  <2>6. this(r).dist \in [Node -> Dist] /\ solution[r] \in [Node -> Dist]
    BY <2>3, VectorTypes DEF Vector
  <2>7. \A d \in Node : this(r).dist[d] = solution[r][d]
    BY <2>4, <2>5, <2>6, SizeAssumption DEF Dist
  <2> QED
    BY <2>6, <2>7
<1> QED
  BY <1>1, InitTypes, StepTypes, InitList, StepList, InitEpoch, StepEpoch, InitKnown,
     StepKnown, InitLinks, StepLinks, NeverUnder, PTL DEF Spec

---------------------------------------------------------------------------
(* Epochs are paid for *)

\* What a vector x has gained on the links t.
GainedBy(t, x) == UNION {{d} \X (x[d] .. t[d] - 1) : d \in Node}

LEMMA GainedFinite ==
    ASSUME NEW t \in [Node -> Dist], NEW x \in [Node -> Dist]
    PROVE  IsFiniteSet(GainedBy(t, x)) /\ Cardinality(GainedBy(t, x)) \in Nat
<1>1. IsFiniteSet(Node) /\ IsFiniteSet(Dist) /\ Dist \subseteq Nat
  BY FS_Interval, SizeAssumption DEF Node, Dist
<1>2. \A d \in Node : {d} \X (x[d] .. t[d] - 1) \subseteq Node \X Dist
  <2> SUFFICES ASSUME NEW d \in Node, NEW k \in x[d] .. t[d] - 1
               PROVE  k \in Dist
    OBVIOUS
  <2>1. x[d] \in Dist /\ t[d] \in Dist
    OBVIOUS
  <2> QED
    BY <2>1, SizeAssumption DEF Dist
<1>3. GainedBy(t, x) \subseteq Node \X Dist
  BY <1>2 DEF GainedBy
<1>4. IsFiniteSet(Node \X Dist)
  BY <1>1, FS_Product
<1>5. IsFiniteSet(GainedBy(t, x))
  BY <1>3, <1>4, FS_Subset
<1> QED
  BY <1>5, FS_CardinalityType

\* A vector that is nowhere worse and somewhere better has gained at least one
\* more.
LEMMA GainedMore ==
    ASSUME NEW t \in [Node -> Dist], NEW x \in [Node -> Dist], NEW y \in [Node -> Dist],
           \A d \in Node : y[d] <= x[d],
           \A d \in Node : x[d] <= t[d],
           \E d \in Node : y[d] < x[d]
    PROVE  Cardinality(GainedBy(t, x)) + 1 <= Cardinality(GainedBy(t, y))
<1>0. \A d \in Node : x[d] \in Nat /\ y[d] \in Nat /\ t[d] \in Nat
  BY SizeAssumption DEF Dist
<1>1. PICK d \in Node : y[d] < x[d]
  OBVIOUS
<1> DEFINE p == <<d, y[d]>>
<1>2. GainedBy(t, x) \subseteq GainedBy(t, y)
  <2> SUFFICES ASSUME NEW e \in Node
               PROVE  {e} \X (x[e] .. t[e] - 1) \subseteq {e} \X (y[e] .. t[e] - 1)
    BY DEF GainedBy
  <2>1. x[e] .. t[e] - 1 \subseteq y[e] .. t[e] - 1
    BY <1>0
  <2> QED
    BY <2>1
<1>3. p \in GainedBy(t, y)
  <2>1. y[d] \in y[d] .. t[d] - 1
    BY <1>0, <1>1
  <2> QED
    BY <2>1 DEF GainedBy
<1>4. p \notin GainedBy(t, x)
  <2> SUFFICES ASSUME NEW e \in Node, p \in {e} \X (x[e] .. t[e] - 1)
               PROVE  FALSE
    BY DEF GainedBy
  <2>1. e = d /\ y[d] \in x[d] .. t[d] - 1
    OBVIOUS
  <2> QED
    BY <1>0, <1>1, <2>1
<1>5. /\ IsFiniteSet(GainedBy(t, x)) /\ IsFiniteSet(GainedBy(t, y))
      /\ Cardinality(GainedBy(t, x)) \in Nat
  BY GainedFinite
<1> HIDE DEF p
<1>6. Cardinality(GainedBy(t, x) \cup {p}) = Cardinality(GainedBy(t, x)) + 1
  BY <1>4, <1>5, FS_AddElement
<1>7. GainedBy(t, x) \cup {p} \subseteq GainedBy(t, y)
  BY <1>2, <1>3
<1>8. Cardinality(GainedBy(t, x) \cup {p}) <= Cardinality(GainedBy(t, y))
  BY <1>5, <1>7, FS_Subset
<1> QED
  BY <1>6, <1>8

\* Nothing that a router announces is longer than its links, and the number of
\* its epoch is paid for.
PaidOf(r) ==
    /\ \A d \in Node : this(r).dist[d] <= topology[r][d]
    /\ this(r).epoch <= 1 + Cardinality(GainedBy(topology[r], this(r).dist))

PaidInv == \A r \in Node : PaidOf(r)

LEMMA InitPaid == Init => PaidInv
<1> SUFFICES ASSUME Init, NEW r \in Node
             PROVE  PaidOf(r)
  BY DEF PaidInv
<1>1. this(r) = [epoch |-> 1, dist |-> topology[r]]
  BY DEF Init, InitRouter, this, Deref, curr_state, Slot
<1>2. topology[r] \in [Node -> Dist] /\ \A d \in Node : topology[r][d] \in Nat
  BY TopologyAssumption, SizeAssumption DEF Init, Dist
<1>3. Cardinality(GainedBy(topology[r], topology[r])) \in Nat
  BY <1>2, GainedFinite
<1> QED
  BY <1>1, <1>2, <1>3 DEF PaidOf

LEMMA StepPaid == TypeInv /\ EpochInv /\ PaidInv /\ [Next]_vars => PaidInv'
<1> SUFFICES ASSUME TypeInv, EpochInv, PaidInv, [Next]_vars, NEW r \in Node
             PROVE  PaidOf(r)'
  BY DEF PaidInv
<1>1. topology' = topology
  BY DEF Next, Router, Send, Main, vars, graphVars, SelectOwn, SelectSend, SelectMeet,
         SelectClosed, Update, Copy, Cycle, Reply, CollectMeet, Flush, FlushMeet, Collect,
         Sleep, Close, Join, Done
<1>2. PaidOf(r)
  BY DEF PaidInv
<1>3. CASE ~Cycle(r)
  <2>1. this(r)' = this(r)
    BY <1>3, ThisKept
  <2> QED
    BY <1>1, <1>2, <2>1 DEF PaidOf, GainedBy
<1>4. CASE Cycle(r)
  <2> DEFINE t == topology[r]
             x == this(r).dist
             y == fresh(r).dist
  <2>1. this(r)' = fresh(r) /\ t' = t
    BY <1>1, <1>4, CycleVectors
  <2>2. /\ fresh(r).epoch = this(r).epoch + 1
        /\ \A d \in Node : y[d] <= x[d]
        /\ \E d \in Node : y[d] < x[d]
    BY <1>4 DEF EpochInv, EpochOf, Cycle
  <2>3. /\ t \in [Node -> Dist] /\ x \in [Node -> Dist] /\ y \in [Node -> Dist]
        /\ this(r).epoch \in Nat
    <3>1. topology \in [Node -> [Node -> Dist]]
      BY TopologyAssumption DEF TypeInv, TypeOK
    <3>2. this(r) \in Vector /\ fresh(r) \in Vector
      BY VectorTypes
    <3> QED
      BY <3>1, <3>2 DEF Vector
  <2>4. /\ \A d \in Node : x[d] <= t[d]
        /\ this(r).epoch <= 1 + Cardinality(GainedBy(t, x))
    BY <1>2 DEF PaidOf
  <2>5. PaidOf(r)' <=> /\ \A d \in Node : y[d] <= t[d]
                       /\ fresh(r).epoch <= 1 + Cardinality(GainedBy(t, y))
    BY <1>1, <2>1 DEF PaidOf, GainedBy
  <2> HIDE DEF t, x, y
  <2>6. Cardinality(GainedBy(t, x)) + 1 <= Cardinality(GainedBy(t, y))
    BY <2>2, <2>3, <2>4, GainedMore
  <2>7. Cardinality(GainedBy(t, x)) \in Nat /\ Cardinality(GainedBy(t, y)) \in Nat
    BY <2>3, GainedFinite
  <2>8. \A d \in Node : y[d] <= t[d]
    <3>1. \A d \in Node : x[d] \in Nat /\ y[d] \in Nat /\ t[d] \in Nat
      BY <2>3, SizeAssumption DEF Dist
    <3> QED
      BY <2>2, <2>4, <3>1
  <2> QED
    BY <2>2, <2>3, <2>4, <2>5, <2>6, <2>7, <2>8
<1> QED
  BY <1>3, <1>4

\* Every epoch is paid for with a shorter distance, for every topology and
\* however stale the vectors are that a router reads: it announces itself no
\* more often than its distances can become shorter.
THEOREM Paid == Spec => []EpochsPaid
<1>1. PaidInv => EpochsPaid
  BY DEF PaidInv, PaidOf, EpochsPaid, Gained, GainedBy, this
<1> QED
  BY <1>1, InitTypes, StepTypes, InitEpoch, StepEpoch, InitPaid, StepPaid, PTL DEF Spec
=============================================================================
