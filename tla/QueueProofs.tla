---------------------------- MODULE QueueProofs ----------------------------
(***************************************************************************)
(* For every capacity, every width of size_t that holds the array, and     *)
(* every sequence of calls: the ring buffer of queue.c keeps its types,    *)
(* stays inside its array and implements Fifo.                             *)
(*                                                                         *)
(* The invariant that makes it inductive is that next is the index of a    *)
(* slot and size at most the capacity; then next + size is below twice the *)
(* capacity and one subtraction brings it back into the array.             *)
(***************************************************************************)
EXTENDS Queue, SequenceTheorems, TLAPS

\* next and size as queue_add and queue_remove keep them.
IndexInv ==
    /\ size <= capacity
    /\ next <= capacity
    /\ capacity > 0 => next < capacity
    /\ ~alive => capacity = 0

IInv == TypeOK /\ IndexInv

\* Twice the capacity fits into a size_t: this is what the allocation of the
\* slots leaves over for the sum next + size.
LEMMA RoomToWrap ==
    ASSUME TypeOK
    PROVE  capacity \in Nat /\ 2 * capacity <= SizeMax
<1>1. \A c \in Capacities : 2 * c <= SizeMax
  <2>1. SUFFICES ASSUME NEW c \in Capacities
                 PROVE  2 * c <= SizeMax
    OBVIOUS
  <2>2. c \in Nat /\ c * PtrSize <= SizeMax /\ PtrSize \in Nat /\ PtrSize >= 2
    BY CapacityAssumption
  <2>3. 2 * c <= c * PtrSize
    BY <2>2
  <2> QED
    BY <2>2, <2>3, CapacityAssumption
<1> QED
  BY <1>1, CapacityAssumption DEF TypeOK

\* Where queue_add and queue_remove compute in size_t, the sums are exact and
\* the slots they lead to are those of the array.
LEMMA SlotsExact ==
    ASSUME IInv
    PROVE  /\ Plus(next, size) = next + size
           /\ size < capacity => Plus(size, 1) = size + 1
           /\ size < capacity => AddSlot \in 0 .. capacity - 1
           /\ size > 0 => /\ next \in 0 .. capacity - 1
                          /\ Plus(next, 1) = next + 1
                          /\ NextAfterRemove \in 0 .. capacity - 1
<1>1. /\ capacity \in Nat /\ 2 * capacity <= SizeMax
      /\ size \in Nat /\ next \in Nat /\ SizeMax \in Nat
      /\ size <= capacity /\ (capacity > 0 => next < capacity) /\ next <= capacity
  BY RoomToWrap, CapacityAssumption DEF IInv, TypeOK, IndexInv
<1> QED
  BY <1>1 DEF Plus, AddSlot, NextAfterRemove

\* The variables of the ring buffer keep their types, and next and size their
\* ranges, whatever is called.
THEOREM TypeCorrect == Spec => []IInv
<1>1. Init => IInv
  <2> SUFFICES ASSUME Init PROVE IInv
    OBVIOUS
  <2>1. job \in [0 .. capacity - 1 -> Jobs \cup {Garbage}]
    BY DEF Init, FreshSlots
  <2>2. ret \in [op : {"none", "create", "add", "remove", "capacity", "size", "peek", "free"},
                status : Int, job : Jobs \cup {NoJob, Garbage}]
    BY DEF Init
  <2>3. alive = FALSE /\ capacity = 0 /\ size = 0 /\ next = 0
    BY DEF Init
  <2>4. IndexInv
    BY <2>3 DEF IndexInv
  <2> QED
    BY <2>1, <2>2, <2>3, <2>4 DEF IInv, TypeOK
<1>2. IInv /\ [Next]_vars => IInv'
  <2> SUFFICES ASSUME IInv, [Next]_vars
               PROVE  IInv'
    OBVIOUS
  <2> USE DEF IInv, TypeOK, IndexInv, Returns, QUEUE_SUCCESS, QUEUE_ERROR
  <2>0. capacity \in Nat
    BY RoomToWrap
  <2>1. ASSUME NEW c \in Capacities, queue_create(c)
        PROVE  IInv'
    <3>1. c \in Nat
      BY CapacityAssumption
    <3> QED
      BY <2>1, <3>1 DEF queue_create, FreshSlots
  <2>2. ASSUME NEW j \in Jobs, queue_add_stores(j)
        PROVE  IInv'
    <3>1. size' = size + 1 /\ size < capacity
      BY <2>2, SlotsExact DEF queue_add_stores
    <3>2. job' \in [0 .. capacity - 1 -> Jobs \cup {Garbage}]
      BY <2>2 DEF queue_add_stores
    <3>3. ret' \in [op : {"none", "create", "add", "remove", "capacity", "size", "peek", "free"},
                    status : Int, job : Jobs \cup {NoJob, Garbage}]
      BY <2>2 DEF queue_add_stores
    <3> QED
      BY <2>0, <2>2, <3>1, <3>2, <3>3 DEF queue_add_stores
  <2>3. ASSUME queue_remove_takes
        PROVE  IInv'
    <3>1. next \in 0 .. capacity - 1 /\ next' \in 0 .. capacity - 1
      BY <2>3, SlotsExact DEF queue_remove_takes
    <3>2. size' \in Nat /\ size' <= capacity
      BY <2>0, <2>3 DEF queue_remove_takes
    <3>3. job[next] \in Jobs \cup {Garbage}
      BY <3>1
    <3> QED
      BY <2>0, <2>3, <3>1, <3>2, <3>3 DEF queue_remove_takes
  <2>4. CASE queue_add_full
    BY <2>4 DEF queue_add_full
  <2>5. CASE queue_remove_empty
    BY <2>5 DEF queue_remove_empty
  <2>6. CASE queue_capacity \/ queue_current_size
    BY <2>0, <2>6 DEF queue_capacity, queue_current_size
  <2>7. ASSUME NEW i \in 0 .. capacity - 1, peek_queue(i)
        PROVE  IInv'
    BY <2>7 DEF peek_queue, PeekedJob
  <2>8. ASSUME queue_free
        PROVE  IInv'
    <3>1. job' \in [0 .. capacity' - 1 -> Jobs \cup {Garbage}]
      BY <2>8 DEF queue_free, FreshSlots
    <3>2. alive' = FALSE /\ capacity' = 0 /\ size' = 0 /\ next' = 0
      BY <2>8 DEF queue_free
    <3>4. IndexInv'
      BY <3>2
    <3>3. ret' \in [op : {"none", "create", "add", "remove", "capacity", "size", "peek", "free"},
                    status : Int, job : Jobs \cup {NoJob, Garbage}]
      BY <2>8 DEF queue_free
    <3> HIDE DEF IndexInv
    <3> QED
      BY <3>1, <3>2, <3>3, <3>4
  <2>9. CASE UNCHANGED vars
    BY <2>9 DEF vars
  <2> QED
    BY <2>1, <2>2, <2>3, <2>4, <2>5, <2>6, <2>7, <2>8, <2>9 DEF Next
<1> QED
  BY <1>1, <1>2, PTL DEF Spec

\* No field of the queue leaves its type and the array keeps its length, for
\* every capacity and every sequence of calls.
THEOREM FieldsTyped == Spec => []TypeOK
<1>1. IInv => TypeOK
  BY DEF IInv
<1> QED
  BY <1>1, TypeCorrect, PTL

\* queue_add and queue_remove never leave the array queue_create allocated.
THEOREM InBounds == Spec => []SlotsInBounds
<1>1. IInv => SlotsInBounds
  BY SlotsExact DEF SlotsInBounds
<1> QED
  BY <1>1, TypeCorrect, PTL

---------------------------------------------------------------------------
(* Refinement *)

\* Contents is a sequence with a job for each of the queued ones.
ContentsIsSeq ==
    /\ Contents \in Seq(Jobs \cup {Garbage})
    /\ Len(Contents) = size
    /\ \A i \in 1 .. size : Contents[i] = job[SlotOf(i)]

\* The slots of the queued jobs lie in the array, so that it is one.
LEMMA ContentsSeq == IInv => ContentsIsSeq
<1> SUFFICES ASSUME IInv PROVE ContentsIsSeq
  OBVIOUS
<1>1. /\ capacity \in Nat /\ size \in Nat /\ next \in Nat /\ size <= capacity
      /\ (capacity > 0 => next < capacity)
      /\ job \in [0 .. capacity - 1 -> Jobs \cup {Garbage}]
  BY RoomToWrap DEF IInv, TypeOK, IndexInv
<1>2. \A i \in 1 .. size : SlotOf(i) \in 0 .. capacity - 1
  BY <1>1 DEF SlotOf
<1>3. Contents \in [1 .. size -> Jobs \cup {Garbage}]
  BY <1>1, <1>2 DEF Contents
<1>4. Contents \in Seq(Jobs \cup {Garbage}) /\ Len(Contents) = size
  BY <1>1, <1>3, SeqDef, LenProperties
<1> QED
  BY <1>2, <1>4 DEF Contents, ContentsIsSeq

\* A sequence of length n is the function on 1 .. n that agrees with it.
LEMMA SameSeq ==
    ASSUME NEW S, NEW s \in Seq(S), NEW t \in Seq(S), Len(s) = Len(t),
           \A i \in 1 .. Len(s) : s[i] = t[i]
    PROVE  s = t
BY SeqEqual

\* queue_add puts the job behind all others.
LEMMA AddAppends ==
    ASSUME IInv, IInv', NEW j \in Jobs, queue_add_stores(j)
    PROVE  Contents' = Append(Contents, j)
<1>1. /\ size' = size + 1 /\ next' = next /\ capacity' = capacity
      /\ job' = [job EXCEPT ![AddSlot] = j]
      /\ AddSlot \in 0 .. capacity - 1 /\ size < capacity
      /\ job \in [0 .. capacity - 1 -> Jobs \cup {Garbage}]
  BY SlotsExact DEF queue_add_stores, IInv, TypeOK
<1>2. /\ size \in Nat /\ next \in Nat /\ capacity \in Nat
      /\ next < capacity
  BY RoomToWrap, <1>1 DEF IInv, TypeOK, IndexInv
<1>3. AddSlot = SlotOf(size + 1)
  BY <1>1, <1>2, SlotsExact DEF AddSlot, SlotOf
<1>4. \A i \in 1 .. size : SlotOf(i) # AddSlot
  BY <1>1, <1>2, <1>3 DEF SlotOf
<1>5. \A i \in 1 .. size + 1 : SlotOf(i)' = SlotOf(i)
  BY <1>1 DEF SlotOf
<1>6. Contents' \in Seq(Jobs \cup {Garbage}) /\ Len(Contents') = size + 1
      /\ \A i \in 1 .. size + 1 : Contents'[i] = job'[SlotOf(i)]
  <2>1. ContentsIsSeq'
    BY ContentsSeq, PTL
  <2> QED
    BY <1>1, <1>5, <2>1 DEF ContentsIsSeq
<1>7. /\ Append(Contents, j) \in Seq(Jobs \cup {Garbage})
      /\ Len(Append(Contents, j)) = size + 1
      /\ \A i \in 1 .. size : Append(Contents, j)[i] = Contents[i]
      /\ Append(Contents, j)[size + 1] = j
  BY ContentsSeq, AppendProperties, <1>2 DEF ContentsIsSeq
<1>8. \A i \in 1 .. size : Contents'[i] = Contents[i]
  <2>1. \A i \in 1 .. size : job'[SlotOf(i)] = job[SlotOf(i)]
    BY <1>1, <1>4
  <2>2. \A i \in 1 .. size : i \in 1 .. size + 1 /\ Contents[i] = job[SlotOf(i)]
    BY <1>1, <1>2, ContentsSeq DEF ContentsIsSeq
  <2> QED
    BY <1>6, <2>1, <2>2
<1>9. Contents'[size + 1] = j
  BY <1>1, <1>2, <1>3, <1>6
<1>10. \A i \in 1 .. size + 1 : Contents'[i] = Append(Contents, j)[i]
  BY <1>2, <1>7, <1>8, <1>9
<1> QED
  BY <1>6, <1>7, <1>10, SameSeq

\* queue_remove takes the first job and leaves the others.
LEMMA RemoveTakesHead ==
    ASSUME IInv, IInv', queue_remove_takes
    PROVE  /\ Contents # <<>>
           /\ Contents' = Tail(Contents)
           /\ job[next] = Head(Contents)
<1>1. /\ size' = size - 1 /\ next' = NextAfterRemove /\ capacity' = capacity
      /\ job' = job /\ size > 0
      /\ Plus(next, 1) = next + 1 /\ next \in 0 .. capacity - 1
  BY SlotsExact DEF queue_remove_takes
<1>2. /\ size \in Nat /\ next \in Nat /\ capacity \in Nat /\ next < capacity
      /\ size <= capacity
  BY RoomToWrap, <1>1 DEF IInv, TypeOK, IndexInv
<1>3. \A i \in 1 .. size - 1 : SlotOf(i)' = SlotOf(i + 1)
  BY <1>1, <1>2 DEF SlotOf, NextAfterRemove
<1>4. Contents' \in Seq(Jobs \cup {Garbage}) /\ Len(Contents') = size - 1
      /\ \A i \in 1 .. size - 1 : Contents'[i] = job[SlotOf(i + 1)]
  <2>1. ContentsIsSeq'
    BY ContentsSeq, PTL
  <2> QED
    BY <1>1, <1>3, <2>1 DEF ContentsIsSeq
<1>5. Contents # <<>> /\ Head(Contents) = Contents[1]
  BY <1>1, <1>2, ContentsSeq, HeadTailProperties, EmptySeq DEF ContentsIsSeq
<1>6. SlotOf(1) = next
  BY <1>1, <1>2 DEF SlotOf
<1>7. /\ Tail(Contents) \in Seq(Jobs \cup {Garbage})
      /\ Len(Tail(Contents)) = size - 1
      /\ \A i \in 1 .. size - 1 : Tail(Contents)[i] = Contents[i + 1]
  BY <1>2, <1>5, ContentsSeq, HeadTailProperties DEF ContentsIsSeq
<1>8. \A i \in 1 .. size - 1 : Contents'[i] = Tail(Contents)[i]
  BY <1>2, <1>4, <1>7, ContentsSeq DEF ContentsIsSeq
<1>9. job[next] = Contents[1]
  BY <1>1, <1>2, <1>6, ContentsSeq DEF ContentsIsSeq
<1> QED
  BY <1>4, <1>5, <1>7, <1>8, <1>9, SameSeq

\* A queue of size 0 is the empty sequence.
LEMMA EmptyContents == IInv /\ size = 0 => Contents = <<>>
<1> SUFFICES ASSUME IInv, size = 0 PROVE Contents = <<>>
  OBVIOUS
<1>1. Contents \in Seq(Jobs \cup {Garbage}) /\ Len(Contents) = 0
  BY ContentsSeq DEF ContentsIsSeq
<1> QED
  BY <1>1, EmptySeq

\* A call that touches neither the indices nor the slots keeps the contents.
LEMMA SameContents ==
    ASSUME UNCHANGED <<capacity, size, next, job>>
    PROVE  Contents' = Contents
<1>1. \A i : SlotOf(i)' = SlotOf(i)
  BY DEF SlotOf
<1> QED
  BY <1>1 DEF Contents

\* The ring buffer of queue.c is a first-in first-out buffer: every call does
\* to the contents, and returns, what Fifo says, for every capacity and every
\* sequence of calls.
THEOREM Refines == Spec => FifoSpec
<1> USE DEF QUEUE_SUCCESS, QUEUE_ERROR, F!QUEUE_SUCCESS, F!QUEUE_ERROR,
            Returns, F!Returns
<1>1. Init => F!Init
  <2> SUFFICES ASSUME Init PROVE F!Init
    OBVIOUS
  <2>1. Contents = <<>>
    BY DEF Init, Contents
  <2> QED
    BY <2>1 DEF Init, F!Init
<1>2. IInv /\ IInv' /\ [Next]_vars => [F!Next]_(F!vars)
  <2> SUFFICES ASSUME IInv, IInv', [Next]_vars
               PROVE  F!Next \/ UNCHANGED F!vars
    BY DEF F!vars
  <2>0. capacity \in Nat /\ size \in Nat /\ size <= capacity
    BY RoomToWrap DEF IInv, TypeOK, IndexInv
  <2>c. Len(Contents) = size
    BY ContentsSeq DEF ContentsIsSeq
  <2>d. size' = 0 => Contents' = <<>>
    <3>1. ContentsIsSeq'
      BY ContentsSeq, PTL
    <3> QED
      BY <3>1, EmptySeq DEF ContentsIsSeq
  <2>1. ASSUME NEW c \in Capacities, queue_create(c)
        PROVE  F!Create(c)
    <3>1. size' = 0
      BY <2>1 DEF queue_create
    <3>2. Contents' = <<>>
      BY <2>d, <3>1
    <3> QED
      BY <2>1, <3>2 DEF queue_create, F!Create
  <2>2. ASSUME NEW j \in Jobs, queue_add_stores(j)
        PROVE  F!AddOk(j)
    <3>1. Contents' = Append(Contents, j)
      BY <2>2, AddAppends
    <3> QED
      BY <2>2, <2>c, <3>1 DEF queue_add_stores, F!AddOk
  <2>3. ASSUME queue_add_full
        PROVE  F!AddFull
    <3>1. Contents' = Contents
      BY <2>3, SameContents DEF queue_add_full
    <3>2. size = capacity
      BY <2>0, <2>3 DEF queue_add_full
    <3> QED
      BY <2>3, <2>c, <3>1, <3>2 DEF queue_add_full, F!AddFull
  <2>4. ASSUME queue_remove_takes
        PROVE  F!RemoveOk
    BY <2>4, RemoveTakesHead DEF queue_remove_takes, F!RemoveOk
  <2>5. ASSUME queue_remove_empty
        PROVE  F!RemoveEmpty
    <3>1. Contents' = Contents
      BY <2>5, SameContents DEF queue_remove_empty
    <3>2. Contents = <<>>
      BY <2>5, EmptyContents DEF queue_remove_empty
    <3> QED
      BY <2>5, <3>1, <3>2 DEF queue_remove_empty, F!RemoveEmpty
  <2>6. ASSUME queue_current_size
        PROVE  F!CurrentSize
    <3>1. Contents' = Contents
      BY <2>6, SameContents DEF queue_current_size
    <3> QED
      BY <2>6, <2>c, <3>1 DEF queue_current_size, F!CurrentSize
  <2>10. ASSUME queue_capacity
         PROVE  F!Capacity
    <3>1. Contents' = Contents
      BY <2>10, SameContents DEF queue_capacity
    <3> QED
      BY <2>10, <3>1 DEF queue_capacity, F!Capacity
  <2>7. ASSUME NEW i \in 0 .. capacity - 1, peek_queue(i)
        PROVE  F!Peek
    <3>1. Contents' = Contents
      BY <2>7, SameContents DEF peek_queue
    <3>2. PeekedJob(i) \in Jobs \cup {Garbage}
      BY DEF PeekedJob, IInv, TypeOK
    <3> QED
      BY <2>7, <3>1, <3>2 DEF peek_queue, F!Peek
  <2>8. ASSUME queue_free
        PROVE  F!Free
    <3>1. size' = 0
      BY <2>8 DEF queue_free
    <3>2. Contents' = <<>>
      BY <2>d, <3>1
    <3> QED
      BY <2>8, <3>2 DEF queue_free, F!Free
  <2>9. ASSUME UNCHANGED vars
        PROVE  UNCHANGED F!vars
    BY <2>9, SameContents DEF vars, F!vars
  <2> QED
    BY <2>1, <2>2, <2>3, <2>4, <2>5, <2>6, <2>7, <2>8, <2>9, <2>10 DEF Next, F!Next
<1> QED
  BY <1>1, <1>2, TypeCorrect, PTL DEF Spec, FifoSpec, F!Spec
=============================================================================
