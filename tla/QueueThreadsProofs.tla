------------------------- MODULE QueueThreadsProofs ------------------------
(***************************************************************************)
(* For every set of threads, every capacity and every interleaving of      *)
(* statements: with one lock around each call queue.c is a first-in first- *)
(* out buffer, and nobody leaves the array.                                *)
(*                                                                         *)
(* The inductive invariant says that only the thread with the lock is      *)
(* inside a function, and what the statements it has executed leave for    *)
(* the next one.                                                           *)
(***************************************************************************)
EXTENDS QueueThreads, QueueProofs

Statements ==
    {"out", "add", "store", "grow", "remove", "shrink", "advance", "wrap", "unlock"}

ThreadTypes ==
    /\ TypeOK
    /\ pc \in [Thread -> Statements]
    /\ inhand \in [Thread -> Jobs \cup {NoJob, Garbage}]

\* next reaches the capacity only between next++ and the subtraction.
Indices ==
    /\ size <= capacity
    /\ next <= capacity
    /\ capacity > 0 /\ next = capacity => \E t \in Thread : At(t, "wrap")
    /\ ~alive => capacity = 0

\* What the thread at each statement relies on.
Held(t) ==
    /\ pc[t] # "out" <=> lock = t
    /\ pc[t] # "out" => alive
    /\ At(t, "add") => inhand[t] \in Jobs
    /\ At(t, "store") => inhand[t] \in Jobs /\ size < capacity
    /\ At(t, "grow") => inhand[t] \in Jobs /\ size < capacity /\ job[AddSlot] = inhand[t]
    /\ At(t, "shrink") => size > 0 /\ inhand[t] = job[next]
    /\ At(t, "advance") => size < capacity
    /\ At(t, "wrap") => size < capacity

ThreadInv == ThreadTypes /\ Indices /\ \A t \in Thread : Held(t)

\* Only the thread with the lock is inside a function.
LEMMA Exclusive ==
    ASSUME ThreadInv, NEW t \in Thread, pc[t] # "out", NEW u \in Thread, u # t
    PROVE  pc[u] = "out"
BY DEF ThreadInv, Held

\* Where the statements compute in size_t the sums are exact, and outside
\* "wrap" the slots they lead to are those of the array.
LEMMA ThreadSums ==
    ASSUME ThreadInv
    PROVE  /\ capacity \in Nat /\ size \in Nat /\ next \in Nat /\ SizeMax \in Nat
           /\ 2 * capacity <= SizeMax /\ size <= capacity /\ next <= capacity
           /\ Plus(next, size) = next + size
           /\ capacity > 0 => Plus(next, 1) = next + 1
           /\ size < capacity => Plus(size, 1) = size + 1
           /\ size < capacity /\ next < capacity => AddSlot \in 0 .. capacity - 1
           /\ job \in [0 .. capacity - 1 -> Jobs \cup {Garbage}]
<1>1. /\ capacity \in Nat /\ 2 * capacity <= SizeMax
      /\ size \in Nat /\ next \in Nat /\ SizeMax \in Nat
      /\ size <= capacity /\ next <= capacity
      /\ job \in [0 .. capacity - 1 -> Jobs \cup {Garbage}]
  BY RoomToWrap, CapacityAssumption DEF ThreadInv, ThreadTypes, TypeOK, Indices
<1> QED
  BY <1>1 DEF Plus, AddSlot

\* Unless somebody is at "wrap", next is the index of a slot.
LEMMA NextIsSlot ==
    ASSUME ThreadInv, NEW t \in Thread, pc[t] # "out", ~At(t, "wrap"), capacity > 0
    PROVE  next < capacity
<1>1. \A u \in Thread : ~At(u, "wrap")
  BY Exclusive DEF At
<1> QED
  BY <1>1, ThreadSums DEF ThreadInv, Indices

\* A thread that has or takes the lock leaves the others outside.
LEMMA OthersStay ==
    ASSUME ThreadInv, NEW t \in Thread, lock = t \/ lock = Nobody,
           NEW s, Goto(t, s), lock' = t \/ lock' = Nobody,
           NEW u \in Thread, u # t
    PROVE  Held(u)'
<1>1. pc[u] = "out" /\ lock' # u
  BY NobodyAssumption DEF ThreadInv, Held
<1>2. pc'[u] = "out"
  BY <1>1 DEF Goto, ThreadInv, ThreadTypes
<1> QED
  BY <1>1, <1>2 DEF Held, At

\* Where t goes, in terms of pc'.
LEMMA Arrives ==
    ASSUME ThreadInv, NEW t \in Thread, NEW s \in Statements, Goto(t, s)
    PROVE  pc' \in [Thread -> Statements] /\ pc'[t] = s
BY DEF Goto, ThreadInv, ThreadTypes

\* Only the thread with the lock is inside, every slot that is used lies in
\* the array, and next and size keep their ranges at every statement.
LEMMA ThreadInvHolds == SpecThreads => []ThreadInv
<1>1. InitThreads => ThreadInv
  <2> SUFFICES ASSUME InitThreads PROVE ThreadInv
    OBVIOUS
  <2>1. IInv
    <3>1. alive = FALSE /\ capacity = 0 /\ size = 0 /\ next = 0
      BY DEF InitThreads, Init
    <3>2. job \in [0 .. capacity - 1 -> Jobs \cup {Garbage}]
      BY DEF InitThreads, Init, FreshSlots
    <3>3. ret \in [op : {"none", "create", "add", "remove", "capacity", "size", "peek", "free"},
                  status : Int, job : Jobs \cup {NoJob, Garbage}]
      BY DEF InitThreads, Init
    <3>4. IndexInv
      BY <3>1 DEF IndexInv
    <3> QED
      BY <3>1, <3>2, <3>3, <3>4 DEF IInv, TypeOK
  <2>2. ThreadTypes
    BY <2>1 DEF InitThreads, IInv, ThreadTypes, Statements
  <2>3. Indices
    BY <2>1 DEF InitThreads, Init, Indices
  <2>4. \A t \in Thread : Held(t)
    BY NobodyAssumption DEF InitThreads, Held, At
  <2> QED
    BY <2>2, <2>3, <2>4 DEF ThreadInv
<1>2. ThreadInv /\ [NextThreads]_threadVars => ThreadInv'
  <2> SUFFICES ASSUME ThreadInv, [NextThreads]_threadVars
               PROVE  ThreadInv'
    OBVIOUS
  <2> DEFINE RetType == [op : {"none", "create", "add", "remove", "capacity", "size",
                               "peek", "free"},
                         status : Int, job : Jobs \cup {NoJob, Garbage}]
  <2>0. /\ alive \in BOOLEAN /\ capacity \in Capacities \cup {0}
        /\ ret \in RetType
        /\ inhand \in [Thread -> Jobs \cup {NoJob, Garbage}]
    BY DEF ThreadInv, ThreadTypes, TypeOK
  <2>a. ASSUME NEW t \in Thread, Lock(t)
        PROVE  ThreadInv'
    <3>1. /\ lock = Nobody /\ lock' = t /\ UNCHANGED vars /\ alive /\ pc[t] = "out"
      BY <2>a DEF Lock, TakesLock, At
    <3>2. \A u \in Thread : pc[u] = "out"
      BY <3>1, NobodyAssumption DEF ThreadInv, Held
    <3>3. PICK s \in {"add", "remove"} :
            /\ Goto(t, s)
            /\ inhand' \in [Thread -> Jobs \cup {NoJob, Garbage}]
            /\ s = "add" => inhand'[t] \in Jobs
      BY <2>a, <2>0 DEF Lock
    <3>4. pc' \in [Thread -> Statements] /\ pc'[t] = s
      BY <3>3, Arrives DEF Statements
    <3>5. ThreadTypes'
      BY <3>1, <3>3, <3>4 DEF vars, ThreadInv, ThreadTypes, TypeOK
    <3>6. Indices'
      BY <3>1, <3>2, ThreadSums DEF vars, ThreadInv, Indices, At
    <3>7. Held(t)'
      BY <3>1, <3>3, <3>4 DEF vars, Held, At
    <3> QED
      BY <3>1, <3>3, <3>5, <3>6, <3>7, OthersStay DEF ThreadInv
  <2>b. ASSUME NEW t \in Thread, AddChecks(t) \/ Unlock(t)
        PROVE  ThreadInv'
    <3>1. /\ UNCHANGED <<alive, capacity, size, next, job, inhand>>
          /\ pc[t] # "out" /\ ~At(t, "wrap") /\ lock = t
          /\ ret' \in RetType
      BY <2>b, <2>0 DEF AddChecks, Unlock, queue_add_full, vars, Returns, QUEUE_ERROR,
                        At, ThreadInv, Held
    <3>2. PICK s \in {"unlock", "store", "out"} :
            /\ Goto(t, s)
            /\ s = "store" => At(t, "add") /\ size < capacity
            /\ IF s = "out" THEN lock' = Nobody ELSE lock' = t
      BY <2>b, <3>1 DEF AddChecks, Unlock
    <3>3. pc' \in [Thread -> Statements] /\ pc'[t] = s
      BY <3>2, Arrives DEF Statements
    <3>4. ThreadTypes'
      BY <3>1, <3>3 DEF ThreadInv, ThreadTypes, TypeOK
    <3>5. Indices'
      BY <3>1, NextIsSlot, ThreadSums DEF ThreadInv, Indices
    <3>6. Held(t)'
      BY <3>1, <3>2, <3>3, NobodyAssumption DEF ThreadInv, Held, At
    <3> QED
      BY <3>1, <3>2, <3>4, <3>5, <3>6, OthersStay DEF ThreadInv
  <2>c. ASSUME NEW t \in Thread, Stores(t)
        PROVE  ThreadInv'
    <3>1. /\ UNCHANGED <<alive, capacity, size, next, ret, lock, inhand>>
          /\ pc[t] = "store" /\ lock = t /\ inhand[t] \in Jobs /\ size < capacity
          /\ alive
      BY <2>c DEF Stores, At, ThreadInv, Held
    <3>2. next < capacity
      BY <3>1, NextIsSlot, ThreadSums DEF At
    <3>3. AddSlot \in DOMAIN job
      BY <3>1, <3>2, ThreadSums
    <3>4. job' = [job EXCEPT ![AddSlot] = inhand[t]]
      BY <2>c, <3>3 DEF Stores
    <3>5. job' \in [0 .. capacity - 1 -> Jobs \cup {Garbage}] /\ job'[AddSlot] = inhand[t]
      BY <3>1, <3>3, <3>4, ThreadSums
    <3>6. pc' \in [Thread -> Statements] /\ pc'[t] = "grow" /\ Goto(t, "grow")
      BY <2>c, Arrives DEF Stores, Statements
    <3>7. ThreadTypes'
      BY <3>1, <3>5, <3>6 DEF ThreadInv, ThreadTypes, TypeOK
    <3>8. Indices'
      BY <3>1, <3>2, ThreadSums DEF ThreadInv, Indices
    <3>9. Held(t)'
      <4>1. AddSlot' = AddSlot
        BY <3>1 DEF AddSlot, Plus
      <4> QED
        BY <3>1, <3>5, <3>6, <4>1 DEF Held, At
    <3> QED
      BY <3>1, <3>6, <3>7, <3>8, <3>9, OthersStay DEF ThreadInv
  <2>d. ASSUME NEW t \in Thread, Grows(t)
        PROVE  ThreadInv'
    <3>1. /\ UNCHANGED <<alive, capacity, next, job, lock, inhand>>
          /\ pc[t] = "grow" /\ lock = t /\ size < capacity /\ alive
      BY <2>d DEF Grows, At, ThreadInv, Held
    <3>2. next < capacity /\ size' = size + 1
      BY <2>d, <3>1, NextIsSlot, ThreadSums DEF At, Grows
    <3>3. pc' \in [Thread -> Statements] /\ pc'[t] = "unlock" /\ Goto(t, "unlock")
      BY <2>d, Arrives DEF Grows, Statements
    <3>4. ret' \in RetType
      BY <2>d DEF Grows, Returns, QUEUE_SUCCESS
    <3>5. ThreadTypes'
      BY <3>1, <3>2, <3>3, <3>4, ThreadSums DEF ThreadInv, ThreadTypes, TypeOK
    <3>6. Indices'
      BY <3>1, <3>2, ThreadSums DEF ThreadInv, Indices
    <3>7. Held(t)'
      BY <3>1, <3>3 DEF Held, At
    <3> QED
      BY <3>1, <3>3, <3>5, <3>6, <3>7, OthersStay DEF ThreadInv
  <2>e. ASSUME NEW t \in Thread, RemoveChecks(t)
        PROVE  ThreadInv'
    <3>1. /\ UNCHANGED <<alive, capacity, size, next, job, lock>>
          /\ pc[t] = "remove" /\ lock = t /\ alive /\ ret' \in RetType
      BY <2>e, <2>0 DEF RemoveChecks, queue_remove_empty, vars, Returns, QUEUE_ERROR,
                        At, ThreadInv, Held
    <3>2. PICK s \in {"unlock", "shrink"} :
            /\ Goto(t, s)
            /\ s = "unlock" => inhand' = inhand
            /\ s = "shrink" =>
                 /\ size > 0
                 /\ inhand' = [inhand EXCEPT ![t] =
                                  IF next \in DOMAIN job THEN job[next] ELSE Garbage]
      BY <2>e DEF RemoveChecks
    <3>3. pc' \in [Thread -> Statements] /\ pc'[t] = s
      BY <3>2, Arrives DEF Statements
    <3>4. size > 0 => next \in DOMAIN job /\ job[next] \in Jobs \cup {Garbage}
      <4>1. pc[t] # "out" /\ ~At(t, "wrap")
        BY <3>1 DEF At
      <4>2. size > 0 => next \in 0 .. capacity - 1
        BY <4>1, NextIsSlot, ThreadSums
      <4> QED
        BY <4>2, ThreadSums
    <3>5. /\ inhand' \in [Thread -> Jobs \cup {NoJob, Garbage}]
          /\ s = "shrink" => inhand'[t] = job[next]
      BY <2>0, <3>2, <3>4
    <3>6. ThreadTypes'
      BY <3>1, <3>3, <3>5 DEF ThreadInv, ThreadTypes, TypeOK
    <3>7. Indices'
      BY <3>1, NextIsSlot, ThreadSums DEF ThreadInv, Indices, At
    <3>8. Held(t)'
      BY <3>1, <3>2, <3>3, <3>5 DEF Held, At
    <3> QED
      BY <3>1, <3>2, <3>6, <3>7, <3>8, OthersStay DEF ThreadInv
  <2>f. ASSUME NEW t \in Thread, Shrinks(t)
        PROVE  ThreadInv'
    <3>1. /\ UNCHANGED <<alive, capacity, next, job, lock, inhand>>
          /\ pc[t] = "shrink" /\ lock = t /\ size > 0 /\ alive
      BY <2>f DEF Shrinks, At, ThreadInv, Held
    <3>2. next < capacity /\ size' = size - 1
      BY <2>f, <3>1, NextIsSlot, ThreadSums DEF At, Shrinks
    <3>3. pc' \in [Thread -> Statements] /\ pc'[t] = "advance" /\ Goto(t, "advance")
      BY <2>f, Arrives DEF Shrinks, Statements
    <3>4. ret' \in RetType
      BY <2>0, <2>f DEF Shrinks, Returns, QUEUE_SUCCESS
    <3>5. ThreadTypes'
      BY <3>1, <3>2, <3>3, <3>4, ThreadSums DEF ThreadInv, ThreadTypes, TypeOK
    <3>6. Indices'
      BY <3>1, <3>2, ThreadSums DEF ThreadInv, Indices
    <3>7. Held(t)'
      BY <3>1, <3>2, <3>3, ThreadSums DEF Held, At
    <3> QED
      BY <3>1, <3>3, <3>5, <3>6, <3>7, OthersStay DEF ThreadInv
  <2>g. ASSUME NEW t \in Thread, Advances(t)
        PROVE  ThreadInv'
    <3>1. /\ UNCHANGED <<alive, capacity, size, job, ret, lock, inhand>>
          /\ pc[t] = "advance" /\ lock = t /\ size < capacity /\ alive
      BY <2>g DEF Advances, At, ThreadInv, Held
    <3>2. next < capacity /\ next' = next + 1
      BY <2>g, <3>1, NextIsSlot, ThreadSums DEF At, Advances
    <3>3. pc' \in [Thread -> Statements] /\ pc'[t] = "wrap" /\ Goto(t, "wrap")
      BY <2>g, Arrives DEF Advances, Statements
    <3>4. ThreadTypes'
      BY <3>1, <3>2, <3>3, ThreadSums DEF ThreadInv, ThreadTypes, TypeOK
    <3>5. Indices'
      BY <3>1, <3>2, <3>3, ThreadSums DEF ThreadInv, Indices, At
    <3>6. Held(t)'
      BY <3>1, <3>3 DEF Held, At
    <3> QED
      BY <3>1, <3>3, <3>4, <3>5, <3>6, OthersStay DEF ThreadInv
  <2>h. ASSUME NEW t \in Thread, Wraps(t)
        PROVE  ThreadInv'
    <3>1. /\ UNCHANGED <<alive, capacity, size, job, ret, lock, inhand>>
          /\ pc[t] = "wrap" /\ lock = t /\ size < capacity /\ alive
      BY <2>h DEF Wraps, At, ThreadInv, Held
    <3>2. next' \in Nat /\ next' < capacity
      BY <2>h, <3>1, ThreadSums DEF Wraps, Wrapped
    <3>3. pc' \in [Thread -> Statements] /\ pc'[t] = "unlock" /\ Goto(t, "unlock")
      BY <2>h, Arrives DEF Wraps, Statements
    <3>4. ThreadTypes'
      BY <3>1, <3>2, <3>3 DEF ThreadInv, ThreadTypes, TypeOK
    <3>5. Indices'
      BY <3>1, <3>2, ThreadSums DEF ThreadInv, Indices
    <3>6. Held(t)'
      BY <3>1, <3>3 DEF Held, At
    <3> QED
      BY <3>1, <3>3, <3>4, <3>5, <3>6, OthersStay DEF ThreadInv
  <2>i. ASSUME MakesOrFrees
        PROVE  ThreadInv'
    <3>1. /\ \A t \in Thread : pc[t] = "out"
          /\ UNCHANGED <<lock, pc, inhand>>
      BY <2>i DEF MakesOrFrees, At
    <3>2. /\ alive' \in BOOLEAN /\ capacity' \in Capacities \cup {0}
          /\ size' = 0 /\ next' = 0
          /\ job' = FreshSlots(capacity') /\ ret' \in RetType
          /\ ~alive' => capacity' = 0
      <4>1. ASSUME queue_free
            PROVE  /\ alive' = FALSE /\ capacity' = 0 /\ size' = 0 /\ next' = 0
                   /\ job' = FreshSlots(0) /\ ret' \in RetType
        BY <4>1 DEF queue_free, Returns
      <4>2. ASSUME NEW c \in Capacities, queue_create(c)
            PROVE  /\ alive' = TRUE /\ capacity' = c /\ size' = 0 /\ next' = 0
                   /\ job' = FreshSlots(c) /\ ret' \in RetType
        BY <4>2 DEF queue_create, Returns
      <4> HIDE DEF RetType
      <4> QED
        BY <2>i, <4>1, <4>2 DEF MakesOrFrees
    <3>3. ThreadTypes'
      BY <3>1, <3>2 DEF ThreadInv, ThreadTypes, TypeOK, FreshSlots
    <3>4. Indices'
      BY <3>2, CapacityAssumption DEF Indices
    <3>5. \A t \in Thread : Held(t)'
      BY <3>1 DEF ThreadInv, Held, At
    <3> QED
      BY <3>3, <3>4, <3>5 DEF ThreadInv
  <2>j. ASSUME Reads \/ UNCHANGED threadVars
        PROVE  ThreadInv'
    <3>1. UNCHANGED <<alive, capacity, size, next, job, lock, pc, inhand>>
      BY <2>j DEF Reads, threadVars, vars, queue_capacity, queue_current_size, peek_queue
    <3>2. ret' \in RetType
      <4>1. \A i \in 0 .. capacity - 1 : PeekedJob(i) \in Jobs \cup {Garbage}
        BY ThreadSums DEF PeekedJob
      <4>2. capacity \in Nat /\ size \in Nat
        BY ThreadSums
      <4> QED
        BY <2>0, <2>j, <4>1, <4>2 DEF Reads, threadVars, vars, queue_capacity, queue_current_size,
                               peek_queue, Returns
    <3>3. ThreadTypes'
      BY <3>1, <3>2 DEF ThreadInv, ThreadTypes, TypeOK
    <3>4. Indices'
      BY <3>1 DEF ThreadInv, Indices, At
    <3>5. ASSUME NEW t \in Thread PROVE Held(t)'
      <4>1. AddSlot' = AddSlot
        BY <3>1 DEF AddSlot, Plus
      <4> QED
        BY <3>1, <4>1 DEF ThreadInv, Held, At
    <3> QED
      BY <3>3, <3>4, <3>5 DEF ThreadInv
  <2> QED
    BY <2>a, <2>b, <2>c, <2>d, <2>e, <2>f, <2>g, <2>h, <2>i, <2>j DEF NextThreads, Step
<1> QED
  BY <1>1, <1>2, PTL DEF SpecThreads

\* The slots that queue_add and queue_remove use lie in the array whatever the
\* other threads are doing, for every number of them.
THEOREM InBoundsForAll == SpecThreads => []ThreadsInBounds
<1>1. ThreadInv => ThreadsInBounds
  <2> SUFFICES ASSUME ThreadInv, NEW t \in Thread
               PROVE  /\ At(t, "store") => AddSlot \in DOMAIN job
                      /\ At(t, "remove") /\ size > 0 => next \in DOMAIN job
    BY DEF ThreadsInBounds
  <2>1. At(t, "store") => size < capacity
    BY DEF ThreadInv, Held
  <2>2. (At(t, "store") \/ At(t, "remove")) /\ capacity > 0 => next < capacity
    BY NextIsSlot DEF At
  <2> QED
    BY <2>1, <2>2, ThreadSums
<1> QED
  BY <1>1, ThreadInvHolds, PTL

---------------------------------------------------------------------------
(* Refinement *)

\* Whether a removal is between size-- and next++ is up to the thread that has
\* the lock.
HolderAdvances ==
    \A t \in Thread : lock \in {t, Nobody} => (Advancing <=> At(t, "advance"))

LEMMA WhoAdvances == ThreadInv => HolderAdvances
<1> SUFFICES ASSUME ThreadInv, NEW t \in Thread, lock \in {t, Nobody}
             PROVE  Advancing <=> At(t, "advance")
  BY DEF HolderAdvances
<1>1. \A u \in Thread : pc[u] # "out" => u = t
  BY NobodyAssumption DEF ThreadInv, Held
<1> QED
  BY <1>1 DEF Advancing, At

LEMMA FrontInRange ==
    ASSUME ThreadInv, capacity > 0
    PROVE  Front \in 0 .. capacity - 1
<1>1. CASE Advancing
  <2>1. next < capacity
    BY <1>1, NextIsSlot DEF Advancing, At
  <2> QED
    BY <1>1, <2>1, ThreadSums DEF Front, Wrapped
<1>2. CASE ~Advancing
  BY <1>2, ThreadSums DEF Front, Wrapped
<1> QED
  BY <1>1, <1>2

\* The slot of the i-th oldest job
SlotNow(i) == Wrapped(Front + i - 1)

NowIsSeq ==
    /\ ContentsNow \in Seq(Jobs \cup {Garbage})
    /\ Len(ContentsNow) = size
    /\ \A i \in 1 .. size : ContentsNow[i] = job[SlotNow(i)]

\* The queue is a sequence with a job for each of the queued ones.
LEMMA NowSeq == ThreadInv => NowIsSeq
<1> SUFFICES ASSUME ThreadInv PROVE NowIsSeq
  OBVIOUS
<1>1. /\ capacity \in Nat /\ size \in Nat /\ size <= capacity
      /\ job \in [0 .. capacity - 1 -> Jobs \cup {Garbage}]
      /\ capacity > 0 => Front \in 0 .. capacity - 1
  BY ThreadSums, FrontInRange
<1>2. \A i \in 1 .. size : SlotNow(i) \in 0 .. capacity - 1
  BY <1>1 DEF SlotNow, Wrapped
<1>3. ContentsNow = [i \in 1 .. size |-> job[SlotNow(i)]]
  BY <1>1, <1>2 DEF ContentsNow, SlotNow
<1>4. ContentsNow \in [1 .. size -> Jobs \cup {Garbage}]
  BY <1>1, <1>2, <1>3
<1>5. ContentsNow \in Seq(Jobs \cup {Garbage}) /\ Len(ContentsNow) = size
  BY <1>1, <1>4, SeqDef, LenProperties
<1> QED
  BY <1>3, <1>5 DEF NowIsSeq

\* A step that leaves the front, the size and the slots alone keeps the queue.
LEMMA SameNow ==
    ASSUME UNCHANGED <<capacity, size, job>>, Front' = Front
    PROVE  ContentsNow' = ContentsNow
BY DEF ContentsNow, Wrapped

LEMMA SameFront ==
    ASSUME UNCHANGED <<capacity, next>>, Advancing' = Advancing
    PROVE  Front' = Front
BY DEF Front, Wrapped, Plus

\* A queue of size 0 is the empty sequence.
LEMMA EmptyNow == ThreadInv /\ size = 0 => ContentsNow = <<>>
<1> SUFFICES ASSUME ThreadInv, size = 0 PROVE ContentsNow = <<>>
  OBVIOUS
<1>1. ContentsNow \in Seq(Jobs \cup {Garbage}) /\ Len(ContentsNow) = 0
  BY NowSeq DEF NowIsSeq
<1> QED
  BY <1>1, EmptySeq

\* Storing to the slot behind the last job changes nothing yet.
LEMMA StoreHides ==
    ASSUME ThreadInv, ThreadInv', NEW t \in Thread, Stores(t)
    PROVE  ContentsNow' = ContentsNow
<1>1. /\ UNCHANGED <<capacity, size, next>> /\ lock = t /\ lock' = t
      /\ pc[t] = "store" /\ pc'[t] = "grow" /\ size < capacity
  BY Arrives DEF Stores, At, ThreadInv, Held, Statements
<1>2. ~Advancing /\ next < capacity
  BY <1>1, WhoAdvances, NextIsSlot, ThreadSums DEF HolderAdvances, At
<1>3. ~Advancing'
  <2>1. HolderAdvances'
    BY WhoAdvances, PTL
  <2> QED
    BY <1>1, <2>1 DEF HolderAdvances, At
<1>4. Front = next /\ Front' = next
  BY <1>1, <1>2, <1>3, ThreadSums DEF Front, Wrapped
<1>5. \A i \in 1 .. size : SlotNow(i)' = SlotNow(i) /\ SlotNow(i) # AddSlot
  BY <1>1, <1>2, <1>4, ThreadSums DEF SlotNow, Wrapped, AddSlot
<1>6. AddSlot \in DOMAIN job /\ job' = [job EXCEPT ![AddSlot] = inhand[t]]
  BY <1>1, <1>2, ThreadSums DEF Stores
<1>7. \A i \in 1 .. size : SlotNow(i) \in DOMAIN job
  BY <1>2, <1>4, ThreadSums DEF SlotNow, Wrapped
<1>8. NowIsSeq'
  BY NowSeq, PTL
<1>9. \A i \in 1 .. size : ContentsNow'[i] = ContentsNow[i]
  BY <1>1, <1>5, <1>6, <1>7, <1>8, NowSeq DEF NowIsSeq
<1> QED
  BY <1>1, <1>8, <1>9, NowSeq, SameSeq DEF NowIsSeq

\* size++ puts the job behind all others.
LEMMA GrowAppends ==
    ASSUME ThreadInv, ThreadInv', NEW t \in Thread, Grows(t)
    PROVE  ContentsNow' = Append(ContentsNow, inhand[t])
<1>1. /\ UNCHANGED <<capacity, next, job>> /\ lock = t /\ lock' = t
      /\ pc[t] = "grow" /\ pc'[t] = "unlock" /\ size < capacity
      /\ inhand[t] \in Jobs /\ job[AddSlot] = inhand[t]
      /\ size' = size + 1
  BY Arrives, ThreadSums DEF Grows, At, ThreadInv, Held, Statements
<1>2. ~Advancing /\ next < capacity
  BY <1>1, WhoAdvances, NextIsSlot, ThreadSums DEF HolderAdvances, At
<1>3. ~Advancing'
  <2>1. HolderAdvances'
    BY WhoAdvances, PTL
  <2> QED
    BY <1>1, <2>1 DEF HolderAdvances, At
<1>4. Front = next /\ Front' = next
  BY <1>1, <1>2, <1>3, ThreadSums DEF Front, Wrapped
<1>5. \A i \in 1 .. size + 1 : SlotNow(i)' = SlotNow(i)
  BY <1>1, <1>4 DEF SlotNow, Wrapped
<1>6. SlotNow(size + 1) = AddSlot
  BY <1>2, <1>4, ThreadSums DEF SlotNow, Wrapped, AddSlot
<1>7. NowIsSeq'
  BY NowSeq, PTL
<1>8. /\ Append(ContentsNow, inhand[t]) \in Seq(Jobs \cup {Garbage})
      /\ Len(Append(ContentsNow, inhand[t])) = size + 1
      /\ \A i \in 1 .. size : Append(ContentsNow, inhand[t])[i] = ContentsNow[i]
      /\ Append(ContentsNow, inhand[t])[size + 1] = inhand[t]
  BY <1>1, NowSeq, AppendProperties, ThreadSums DEF NowIsSeq
<1>9. \A i \in 1 .. size + 1 : ContentsNow'[i] = job[SlotNow(i)]
  BY <1>1, <1>5, <1>7 DEF NowIsSeq
<1>10. \A i \in 1 .. size + 1 : ContentsNow'[i] = Append(ContentsNow, inhand[t])[i]
  <2>1. size \in Nat
    BY ThreadSums
  <2>2. ContentsNow'[size + 1] = inhand[t]
    BY <1>1, <1>6, <1>9, <2>1
  <2>3. \A i \in 1 .. size : ContentsNow'[i] = ContentsNow[i]
    <3>1. \A i \in 1 .. size : ContentsNow[i] = job[SlotNow(i)]
      BY NowSeq DEF NowIsSeq
    <3>2. \A i \in 1 .. size : i \in 1 .. size + 1
      BY <2>1
    <3> QED
      BY <1>9, <3>1, <3>2
  <2>4. \A i \in 1 .. size + 1 : i \in 1 .. size \/ i = size + 1
    BY <2>1
  <2> QED
    BY <1>8, <2>2, <2>3, <2>4
<1> QED
  BY <1>1, <1>7, <1>8, <1>10, SameSeq DEF NowIsSeq

\* size-- takes the job that was read off the queue, though next still points
\* to its slot.
LEMMA ShrinkTakesHead ==
    ASSUME ThreadInv, ThreadInv', NEW t \in Thread, Shrinks(t)
    PROVE  /\ ContentsNow # <<>>
           /\ ContentsNow' = Tail(ContentsNow)
           /\ inhand[t] = Head(ContentsNow)
<1>1. /\ UNCHANGED <<capacity, next, job>> /\ lock = t /\ lock' = t
      /\ pc[t] = "shrink" /\ pc'[t] = "advance" /\ size > 0
      /\ inhand[t] = job[next]
      /\ size' = size - 1
  BY Arrives, ThreadSums DEF Shrinks, At, ThreadInv, Held, Statements
<1>2. ~Advancing /\ next < capacity
  BY <1>1, WhoAdvances, NextIsSlot, ThreadSums DEF HolderAdvances, At
<1>3. Advancing'
  BY <1>1 DEF Advancing, At
<1>4. Front = next /\ Front' = Wrapped(next + 1)
  BY <1>1, <1>2, <1>3, ThreadSums DEF Front, Wrapped, Plus
<1>5. \A i \in 1 .. size - 1 : SlotNow(i)' = SlotNow(i + 1)
  <2>1. \A i \in 1 .. size - 1 :
          Wrapped(Wrapped(next + 1) + i - 1) = Wrapped(next + (i + 1) - 1)
    <3>1. SUFFICES ASSUME NEW i \in 1 .. size - 1
                   PROVE  Wrapped(Wrapped(next + 1) + i - 1) = Wrapped(next + (i + 1) - 1)
      OBVIOUS
    <3>2. /\ next \in Nat /\ capacity \in Nat /\ size \in Nat /\ next < capacity
          /\ i \in Nat /\ i >= 1
      BY <1>1, <1>2, ThreadSums
    <3>3. CASE next + 1 = capacity
      <4>1. Wrapped(next + 1) = 0 /\ next + (i + 1) - 1 >= capacity
        BY <3>2, <3>3 DEF Wrapped
      <4>2. Wrapped(0 + i - 1) = i - 1
        BY <1>1, <3>2, ThreadSums DEF Wrapped
      <4>3. Wrapped(next + (i + 1) - 1) = i - 1
        BY <3>2, <3>3 DEF Wrapped
      <4> QED
        BY <4>1, <4>2, <4>3
    <3>4. CASE next + 1 # capacity
      BY <3>2, <3>4 DEF Wrapped
    <3> QED
      BY <3>3, <3>4
  <2>2. \A i : SlotNow(i)' = Wrapped(Wrapped(next + 1) + i - 1)
    BY <1>1, <1>4 DEF SlotNow, Wrapped
  <2> QED
    BY <1>4, <2>1, <2>2 DEF SlotNow
<1>6. SlotNow(1) = next
  BY <1>2, <1>4, ThreadSums DEF SlotNow, Wrapped
<1>7. NowIsSeq'
  BY NowSeq, PTL
<1>8. ContentsNow # <<>> /\ Head(ContentsNow) = ContentsNow[1]
  BY <1>1, ThreadSums, NowSeq, HeadTailProperties, EmptySeq DEF NowIsSeq
<1>9. /\ Tail(ContentsNow) \in Seq(Jobs \cup {Garbage})
      /\ Len(Tail(ContentsNow)) = size - 1
      /\ \A i \in 1 .. size - 1 : Tail(ContentsNow)[i] = ContentsNow[i + 1]
  BY <1>8, ThreadSums, NowSeq, HeadTailProperties DEF NowIsSeq
<1>10. \A i \in 1 .. size - 1 : ContentsNow'[i] = job[SlotNow(i + 1)]
  BY <1>1, <1>5, <1>7 DEF NowIsSeq
<1>11. \A i \in 1 .. size - 1 : ContentsNow'[i] = Tail(ContentsNow)[i]
  <2>1. \A i \in 1 .. size - 1 : i + 1 \in 1 .. size
    BY ThreadSums
  <2>2. \A i \in 1 .. size : ContentsNow[i] = job[SlotNow(i)]
    BY NowSeq DEF NowIsSeq
  <2> QED
    BY <1>9, <1>10, <2>1, <2>2
<1>12. inhand[t] = ContentsNow[1]
  BY <1>1, <1>6, NowSeq, ThreadSums DEF NowIsSeq
<1> QED
  BY <1>1, <1>7, <1>8, <1>9, <1>11, <1>12, SameSeq DEF NowIsSeq

\* The other statements of a function leave the queue as it is.
LEMMA OthersKeep ==
    ASSUME ThreadInv, ThreadInv', NEW t \in Thread,
           Lock(t) \/ Unlock(t) \/ AddChecks(t) \/ RemoveChecks(t)
             \/ Advances(t) \/ Wraps(t)
    PROVE  ContentsNow' = ContentsNow /\ UNCHANGED <<alive, capacity, size>>
<1>1. UNCHANGED <<alive, capacity, size, job>>
  BY DEF Lock, Unlock, AddChecks, RemoveChecks, Advances, Wraps, vars,
         queue_add_full, queue_remove_empty
<1>2. lock \in {t, Nobody} /\ lock' \in {t, Nobody}
  BY DEF Lock, TakesLock, Unlock, AddChecks, RemoveChecks, Advances, Wraps, At, ThreadInv, Held
<1>3. Advancing <=> At(t, "advance")
  BY <1>2, WhoAdvances DEF HolderAdvances
<1>4. Advancing' <=> At(t, "advance")'
  <2>1. HolderAdvances'
    BY WhoAdvances, PTL
  <2> QED
    BY <1>2, <2>1 DEF HolderAdvances
<1>5. Front' = Front
  <2>1. CASE Lock(t) \/ Unlock(t) \/ AddChecks(t) \/ RemoveChecks(t)
    <3>1. UNCHANGED <<capacity, next>>
      BY <2>1 DEF Lock, Unlock, AddChecks, RemoveChecks, vars, queue_add_full,
                  queue_remove_empty
    <3>2. pc[t] # "advance" /\ pc'[t] # "advance"
      BY <2>1, Arrives DEF Lock, Unlock, AddChecks, RemoveChecks, At, Statements
    <3> QED
      BY <1>3, <1>4, <3>1, <3>2, SameFront DEF At
  <2>2. CASE Advances(t)
    <3>1. pc[t] = "advance" /\ pc'[t] = "wrap" /\ next' = Plus(next, 1)
      BY <2>2, Arrives DEF Advances, At, Statements
    <3> QED
      BY <1>1, <1>3, <1>4, <3>1 DEF Front, At, Wrapped
  <2>3. CASE Wraps(t)
    <3>1. pc[t] = "wrap" /\ pc'[t] = "unlock" /\ next' = Wrapped(next) /\ size < capacity
      BY <2>3, Arrives DEF Wraps, At, Statements, ThreadInv, Held
    <3>2. Wrapped(next) < capacity
      BY <3>1, ThreadSums DEF Wrapped
    <3>3. Front = Wrapped(next)
      BY <1>3, <3>1 DEF Front, At
    <3>4. Front' = next'
      BY <1>1, <1>4, <3>1, <3>2, ThreadSums DEF Front, At, Wrapped
    <3> QED
      BY <3>1, <3>3, <3>4
  <2> QED
    BY <2>1, <2>2, <2>3
<1> QED
  BY <1>1, <1>5, SameNow

\* One lock around each call makes queue.c a first-in first-out buffer for any
\* number of threads, with size++ and size-- as the moments at which a job
\* enters and leaves it, so that the size read without the lock is exact.
THEOREM RefinesForAll == SpecThreads => FifoForAll
<1> USE DEF QUEUE_SUCCESS, QUEUE_ERROR, T!QUEUE_SUCCESS, T!QUEUE_ERROR,
            Returns, T!Returns
<1>1. InitThreads => T!Init
  <2> SUFFICES ASSUME InitThreads PROVE T!Init
    OBVIOUS
  <2>1. ContentsNow = <<>>
    BY DEF InitThreads, Init, ContentsNow
  <2> QED
    BY <2>1 DEF InitThreads, Init, T!Init
<1>2. ThreadInv /\ ThreadInv' /\ [NextThreads]_threadVars => [T!Next]_(T!vars)
  <2> SUFFICES ASSUME ThreadInv, ThreadInv', [NextThreads]_threadVars
               PROVE  T!Next \/ UNCHANGED T!vars
    BY DEF T!vars
  <2>0. /\ Len(ContentsNow) = size /\ capacity \in Nat /\ size \in Nat
        /\ size <= capacity
    BY NowSeq, ThreadSums DEF NowIsSeq
  <2>d. size' = 0 => ContentsNow' = <<>>
    <3>1. NowIsSeq'
      BY NowSeq, PTL
    <3> QED
      BY <3>1, EmptySeq DEF NowIsSeq
  <2>1. ASSUME NEW t \in Thread, Lock(t) \/ Unlock(t) \/ Advances(t) \/ Wraps(t) \/ Stores(t)
        PROVE  UNCHANGED T!vars
    <3>1. UNCHANGED <<alive, capacity, ret>>
      BY <2>1 DEF Lock, Unlock, Advances, Wraps, Stores, vars
    <3>2. ContentsNow' = ContentsNow
      BY <2>1, OthersKeep, StoreHides
    <3> QED
      BY <3>1, <3>2 DEF T!vars
  <2>2. ASSUME NEW t \in Thread, AddChecks(t)
        PROVE  T!AddFull \/ UNCHANGED T!vars
    <3>1. ContentsNow' = ContentsNow
      BY <2>2, OthersKeep
    <3>2. queue_add_full \/ UNCHANGED vars
      BY <2>2 DEF AddChecks
    <3>3. queue_add_full => size = capacity
      BY <2>0 DEF queue_add_full
    <3> QED
      BY <2>0, <3>1, <3>2, <3>3 DEF queue_add_full, vars, T!AddFull, T!vars
  <2>3. ASSUME NEW t \in Thread, Grows(t)
        PROVE  T!AddOk(inhand[t]) /\ inhand[t] \in Jobs
    <3>1. alive /\ size < capacity /\ inhand[t] \in Jobs
      BY <2>3 DEF Grows, At, ThreadInv, Held
    <3>2. ContentsNow' = Append(ContentsNow, inhand[t])
      BY <2>3, GrowAppends
    <3> QED
      BY <2>0, <2>3, <3>1, <3>2 DEF Grows, T!AddOk
  <2>4. ASSUME NEW t \in Thread, RemoveChecks(t)
        PROVE  T!RemoveEmpty \/ UNCHANGED T!vars
    <3>1. ContentsNow' = ContentsNow
      BY <2>4, OthersKeep
    <3>2. queue_remove_empty \/ UNCHANGED vars
      BY <2>4 DEF RemoveChecks
    <3>3. queue_remove_empty => ContentsNow = <<>>
      BY EmptyNow DEF queue_remove_empty
    <3> QED
      BY <3>1, <3>2, <3>3 DEF queue_remove_empty, vars, T!RemoveEmpty, T!vars
  <2>5. ASSUME NEW t \in Thread, Shrinks(t)
        PROVE  T!RemoveOk
    <3>1. alive
      BY <2>5 DEF Shrinks, At, ThreadInv, Held
    <3> QED
      BY <2>5, <3>1, ShrinkTakesHead DEF Shrinks, T!RemoveOk
  <2>6. ASSUME MakesOrFrees
        PROVE  T!Next
    <3>1. size' = 0
      BY <2>6 DEF MakesOrFrees, queue_create, queue_free
    <3>2. (\E c \in Capacities : T!Create(c)) \/ T!Free
      BY <2>6, <2>d, <3>1 DEF MakesOrFrees, queue_create, queue_free, T!Create, T!Free
    <3> QED
      BY <3>2 DEF T!Next
  <2>7. ASSUME Reads \/ UNCHANGED threadVars
        PROVE  T!Next \/ UNCHANGED T!vars
    <3>1. UNCHANGED <<alive, capacity, size, next, job, pc>>
      BY <2>7 DEF Reads, threadVars, vars, queue_capacity, queue_current_size, peek_queue
    <3>2. ContentsNow' = ContentsNow
      <4>1. Advancing' = Advancing
        BY <3>1 DEF Advancing, At
      <4> QED
        BY <3>1, <4>1, SameFront, SameNow
    <3>3. CASE UNCHANGED threadVars
      BY <3>2, <3>3 DEF threadVars, vars, T!vars
    <3>4. CASE Reads
      <4>1. CASE queue_capacity
        BY <3>2, <4>1 DEF queue_capacity, T!Capacity, T!Next
      <4>2. CASE queue_current_size
        BY <2>0, <3>2, <4>2 DEF queue_current_size, T!CurrentSize, T!Next
      <4>3. ASSUME NEW i \in 0 .. capacity - 1, peek_queue(i)
            PROVE  T!Next
        <5>1. PeekedJob(i) \in Jobs \cup {Garbage}
          BY ThreadSums DEF PeekedJob
        <5>2. T!Peek
          BY <3>2, <4>3, <5>1 DEF peek_queue, T!Peek
        <5> QED
          BY <5>2 DEF T!Next
      <4> QED
        BY <3>4, <4>1, <4>2, <4>3 DEF Reads
    <3> QED
      BY <2>7, <3>3, <3>4
  <2>8. ASSUME NEW t \in Thread, Step(t)
        PROVE  T!Next \/ UNCHANGED T!vars
    <3>1. \/ T!AddFull \/ T!RemoveEmpty \/ T!RemoveOk \/ UNCHANGED T!vars
          \/ \E j \in Jobs : T!AddOk(j)
      BY <2>1, <2>2, <2>3, <2>4, <2>5, <2>8 DEF Step
    <3> QED
      BY <3>1 DEF T!Next
  <2> QED
    BY <2>6, <2>7, <2>8 DEF NextThreads
<1> QED
  BY <1>1, <1>2, ThreadInvHolds, PTL DEF SpecThreads, FifoForAll, T!Spec
=============================================================================
