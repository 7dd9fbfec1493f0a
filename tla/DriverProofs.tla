---------------------------- MODULE DriverProofs ----------------------------
(***************************************************************************)
(* What driver.h promises, for any threads, drivers and jobs and whatever  *)
(* calls the threads make: no job is lost and none is handled twice.       *)
(*                                                                         *)
(* Every step of a call is one of four (Effect): it moves nothing, it      *)
(* returns without having moved a job, it moves one through the queue, or  *)
(* two calls hand one over.  The two sides of HandledOnce count returned   *)
(* calls and slots; each effect adds as much to one as to the other.       *)
(***************************************************************************)
EXTENDS Driver, FiniteSetTheorems, SequenceTheorems, WellFoundedInduction, TLAPS

---------------------------------------------------------------------------
(* Numbers and lists *)

\* A set of numbers that is not empty has a least one.
LEMMA Least ==
    ASSUME NEW S \in SUBSET Nat, S # {}
    PROVE  \E n \in S : \A m \in S : n <= m
<1> DEFINE T == {0 .. n : n \in S}
<1>1. T \subseteq FiniteSubsetsOf(Nat) /\ T # {}
  <2>1. \A n \in S : IsFiniteSet(0 .. n) /\ 0 .. n \in SUBSET Nat
    BY FS_Interval
  <2> QED
    BY <2>1 DEF FiniteSubsetsOf
<1>2. PICK x \in T : \A y \in T : <<y, x>> \notin StrictSubsetOrdering(Nat)
  <2> HIDE DEF T
  <2> QED
    BY <1>1, FS_StrictSubsetOrderingWellFounded, WFMin
<1>3. PICK n \in S : x = 0 .. n
  OBVIOUS
<1>4. ASSUME NEW m \in S, m < n
      PROVE  FALSE
  <2>1. 0 .. m \subseteq 0 .. n /\ 0 .. m # 0 .. n
    <3>1. n \in 0 .. n /\ n \notin 0 .. m
      BY <1>4
    <3> QED
      BY <1>4, <3>1
  <2>2. <<0 .. m, x>> \in StrictSubsetOrdering(Nat)
    BY <1>1, <1>3, <2>1 DEF StrictSubsetOrdering, FiniteSubsetsOf
  <2> QED
    BY <1>2, <2>2
<1> QED
  BY <1>4

LEMMA Options ==
    ASSUME NEW o \in select_t
    PROVE  /\ o.driver \in Drivers
           /\ o.op \in {"SCHDLE", "HANDLE"}
           /\ o.op = "SCHDLE" => o.job \in Jobs
           /\ o.job \in Jobs \cup {NoJob}
  BY DEF select_t

LEMMA OptionsOfList ==
    ASSUME NEW list \in Seq(select_t), NEW i \in DOMAIN list
    PROVE  list[i] \in select_t /\ i \in Nat \ {0} /\ i \in 1 .. Len(list)
<1>1. DOMAIN list = 1 .. Len(list) /\ Len(list) \in Nat
  BY LenProperties
<1> QED
  BY <1>1, ElementOfSeq

\* The call an unqueued driver matches with o has an option for it, and
\* PartnerIndex is its place.
LEMMA PartnerFound ==
    ASSUME call \in [Thread -> Seq(select_t)],
           NEW o \in select_t, NEW t \in Thread, NEW u \in Partners(o, t)
    PROVE  /\ u \in Thread /\ u # t
           /\ PartnerIndex(o, u) \in DOMAIN call[u]
           /\ call[u][PartnerIndex(o, u)].driver = o.driver
           /\ call[u][PartnerIndex(o, u)].op # o.op
<1> DEFINE Fits(i) == call[u][i].driver = o.driver /\ call[u][i].op # o.op
           S == {i \in DOMAIN call[u] : Fits(i)}
<1>1. u \in Thread /\ u # t /\ S # {} /\ call[u] \in Seq(select_t)
  BY DEF Partners
<1>2. DOMAIN call[u] = 1 .. Len(call[u]) /\ Len(call[u]) \in Nat
  BY <1>1, LenProperties
<1>3. PICK n \in S : \A m \in S : n <= m
  <2>1. S \in SUBSET Nat
    BY <1>2
  <2> HIDE DEF S
  <2> QED
    BY <1>1, <2>1, Least
<1>4. \A k \in 1 .. n - 1 : ~Fits(k)
  <2> SUFFICES ASSUME NEW k \in 1 .. n - 1, Fits(k)
               PROVE  FALSE
    OBVIOUS
  <2>1. n \in 1 .. Len(call[u]) /\ k \in 1 .. Len(call[u]) /\ k < n
    BY <1>2, <1>3
  <2>2. k \in S
    BY <1>2, <2>1
  <2>3. n <= k
    BY <1>3, <2>2
  <2> QED
    BY <2>1, <2>3
<1>5. /\ n \in DOMAIN call[u] /\ Fits(n)
      /\ \A k \in 1 .. n - 1 : call[u][k].driver = o.driver => call[u][k].op = o.op
  BY <1>3, <1>4
<1> HIDE DEF S
<1>6. PartnerIndex(o, u) \in DOMAIN call[u] /\ Fits(PartnerIndex(o, u))
  BY <1>5 DEF PartnerIndex
<1> QED
  BY <1>1, <1>6

---------------------------------------------------------------------------
(* What a step does to the queues and to what was returned *)

LEMMA ResultTyped ==
    ASSUME NEW o, o.driver \in Drivers, o.op \in {"SCHDLE", "HANDLE", "closed", "destroyed"},
           NEW i \in Nat \ {0}, NEW out \in Int, NEW j \in Jobs \cup {NoJob}
    PROVE  /\ Result(o, i, out, j) \in Returns
           /\ Result(o, i, out, j).driver = o.driver /\ Result(o, i, out, j).op = o.op
           /\ Result(o, i, out, j).out = out /\ Result(o, i, out, j).job = j
<1>1. i - 1 \in Nat
  OBVIOUS
<1> QED
  BY <1>1 DEF Result, Returns

Logs(t, r) == returned' = [returned EXCEPT ![t] = Append(@, r)]

\* A call returned r and moved no job.
Moves0(t, r) ==
    /\ Logs(t, r) /\ UNCHANGED queue
    /\ r.out # SUCCESS \/ r.op \notin {"SCHDLE", "HANDLE"}

\* A job went into a queue, or out of it.
MovesIn(t, r) ==
    /\ Logs(t, r) /\ r.op = "SCHDLE" /\ r.out = SUCCESS /\ r.job \in Jobs
    /\ HasRoom(r.driver)
    /\ queue' = [queue EXCEPT ![r.driver] = Append(@, r.job)]

MovesOut(t, r) ==
    /\ Logs(t, r) /\ r.op = "HANDLE" /\ r.out = SUCCESS
    /\ queue[r.driver] # <<>> /\ r.job = Head(queue[r.driver])
    /\ queue' = [queue EXCEPT ![r.driver] = Tail(@)]

\* One call handed a job to another.
HandsOver(t, u, r, q) ==
    /\ t # u
    /\ returned' = [returned EXCEPT ![t] = Append(@, r), ![u] = Append(@, q)]
    /\ UNCHANGED queue
    /\ r.driver = q.driver /\ r.job = q.job /\ r.out = SUCCESS /\ q.out = SUCCESS
    /\ {r.op, q.op} = {"SCHDLE", "HANDLE"}

Effect ==
    \/ UNCHANGED <<queue, returned>>
    \/ \E t \in Thread, r \in Returns : Moves0(t, r) \/ MovesIn(t, r) \/ MovesOut(t, r)
    \/ \E t, u \in Thread, r, q \in Returns : HandsOver(t, u, r, q)

\* The part of TypeOK that a call changes besides queue and returned
Rest ==
    /\ size' = size
    /\ state' \in [Drivers -> {"open", "closed", "destroyed"}]
    /\ call' \in [Thread -> Seq(select_t)]

LEMMA Statuses ==
    /\ SUCCESS = 1 /\ DRIVER_CLOSED_ERROR = -2 /\ DRIVER_GEN_ERROR = -1
    /\ DRIVER_DESTROY_ERROR = -3 /\ DRIVER_REQUEST_FULL = 0 /\ DRIVER_REQUEST_EMPTY = 0
  BY DEF SUCCESS, DRIVER_CLOSED_ERROR, DRIVER_GEN_ERROR, DRIVER_DESTROY_ERROR,
         DRIVER_REQUEST_FULL, DRIVER_REQUEST_EMPTY

\* A call that returns by way of one of its options
LEMMA PerformEffect ==
    ASSUME DriverTypeOK, NEW t \in Thread, NEW list \in Seq(select_t),
           NEW i \in DOMAIN list, Perform(t, list, i)
    PROVE  Effect /\ Rest
<1> DEFINE o == list[i]
<1>1. /\ o \in select_t /\ i \in Nat \ {0}
      /\ o.driver \in Drivers /\ o.op \in {"SCHDLE", "HANDLE"}
      /\ o.op = "SCHDLE" => o.job \in Jobs
      /\ o.job \in Jobs \cup {NoJob}
  BY OptionsOfList, Options
<1>2. /\ Ready(o, t) /\ UNCHANGED <<size, state>>
      /\ \/ OnClosed(t, o, i) \/ ThroughQueue(t, o, i)
         \/ \E u \in Partners(o, t) : Meet(t, o, i, u)
  BY DEF Perform, Takes
<1>3. /\ call \in [Thread -> Seq(select_t)] /\ size \in [Drivers -> Nat]
      /\ queue \in [Drivers -> Seq(Jobs)]
      /\ state \in [Drivers -> {"open", "closed", "destroyed"}]
      /\ returned \in [Thread -> Seq(Returns)] /\ <<>> \in Seq(select_t)
  BY EmptySeq DEF DriverTypeOK
<1> HIDE DEF o
<1>4. ASSUME OnClosed(t, o, i)
      PROVE  Effect /\ Rest
  <2> DEFINE r == Result(o, i, DRIVER_CLOSED_ERROR, NoJob)
  <2>1. /\ r \in Returns /\ r.out # SUCCESS
    BY <1>1, Statuses, ResultTyped
  <2>2. Logs(t, r) /\ UNCHANGED queue /\ call' = [call EXCEPT ![t] = <<>>]
    BY <1>4 DEF OnClosed, Return, Logs
  <2> HIDE DEF r
  <2>3. Moves0(t, r)
    BY <2>1, <2>2 DEF Moves0
  <2> QED
    BY <1>2, <1>3, <2>1, <2>2, <2>3 DEF Effect, Rest
<1>5. ASSUME ThroughQueue(t, o, i), o.op = "SCHDLE"
      PROVE  Effect /\ Rest
  <2> DEFINE r == Result(o, i, SUCCESS, o.job)
  <2>1. /\ r \in Returns /\ r.out = SUCCESS /\ r.op = "SCHDLE" /\ r.job = o.job
        /\ r.driver = o.driver /\ r.job \in Jobs
    <3>1. o.job \in Jobs /\ o.job \in Jobs \cup {NoJob} /\ SUCCESS \in Int
      BY <1>1, <1>5, Statuses
    <3>2. /\ r \in Returns /\ r.out = SUCCESS /\ r.op = o.op /\ r.job = o.job
          /\ r.driver = o.driver
      BY <1>1, <3>1, ResultTyped
    <3> QED
      BY <1>5, <3>1, <3>2
  <2>2. HasRoom(o.driver)
    BY <1>1, <1>2, <1>3, <1>5 DEF ThroughQueue, Ready
  <2>3. /\ Logs(t, r) /\ call' = [call EXCEPT ![t] = <<>>]
        /\ queue' = [queue EXCEPT ![o.driver] = Append(@, o.job)]
    BY <1>5 DEF ThroughQueue, Return, Logs
  <2> HIDE DEF r
  <2>4. MovesIn(t, r)
    BY <2>1, <2>2, <2>3 DEF MovesIn
  <2> QED
    BY <1>2, <1>3, <2>1, <2>3, <2>4 DEF Effect, Rest
<1>6. ASSUME ThroughQueue(t, o, i), o.op = "HANDLE"
      PROVE  Effect /\ Rest
  <2> DEFINE r == Result(o, i, SUCCESS, Head(queue[o.driver]))
  <2>1. queue[o.driver] # <<>>
    BY <1>1, <1>2, <1>3, <1>6 DEF ThroughQueue, Ready
  <2>2. Head(queue[o.driver]) \in Jobs
    BY <1>1, <1>3, <2>1, HeadTailProperties
  <2>3. /\ r \in Returns /\ r.out = SUCCESS /\ r.op = "HANDLE" /\ r.driver = o.driver
        /\ r.job = Head(queue[o.driver])
    BY <1>1, <1>6, <2>2, Statuses, ResultTyped
  <2>4. /\ Logs(t, r) /\ call' = [call EXCEPT ![t] = <<>>]
        /\ queue' = [queue EXCEPT ![o.driver] = Tail(@)]
    BY <1>6 DEF ThroughQueue, Return, Logs
  <2> HIDE DEF r
  <2>5. MovesOut(t, r)
    BY <2>1, <2>3, <2>4 DEF MovesOut
  <2> QED
    BY <1>2, <1>3, <2>3, <2>4, <2>5 DEF Effect, Rest
<1>7. ASSUME NEW u \in Partners(o, t), Meet(t, o, i, u)
      PROVE  Effect /\ Rest
  <2> DEFINE k == PartnerIndex(o, u)
             p == call[u][k]
             j == Handed(o, p)
             r == Result(o, i, SUCCESS, j)
             q == Result(p, k, SUCCESS, j)
  <2>1. /\ u \in Thread /\ u # t /\ k \in DOMAIN call[u]
        /\ p.driver = o.driver /\ p.op # o.op
    BY <1>1, <1>3, PartnerFound
  <2>2. /\ p \in select_t /\ k \in Nat \ {0}
        /\ p.op \in {"SCHDLE", "HANDLE"} /\ (p.op = "SCHDLE" => p.job \in Jobs)
    <3>1. call[u] \in Seq(select_t)
      BY <1>3, <2>1
    <3> HIDE DEF k
    <3>2. p \in select_t /\ k \in Nat \ {0}
      BY <2>1, <3>1, OptionsOfList
    <3> QED
      BY <3>2, Options
  <2>3. j \in Jobs
    BY <1>1, <2>1, <2>2 DEF Handed
  <2>4. /\ call' = [call EXCEPT ![t] = <<>>, ![u] = <<>>]
        /\ returned' = [returned EXCEPT ![t] = Append(@, r), ![u] = Append(@, q)]
        /\ UNCHANGED queue
    BY <1>7 DEF Meet
  <2> HIDE DEF k, p, j
  <2> HIDE DEF q
  <2>5. /\ r \in Returns /\ r.driver = o.driver /\ r.op = o.op /\ r.out = SUCCESS
        /\ r.job = j
    <3>1. i - 1 \in Nat /\ SUCCESS \in Int /\ j \in Jobs \cup {NoJob}
      BY <1>1, <2>3, Statuses
    <3>2. /\ r.driver = o.driver /\ r.op = o.op /\ r.out = SUCCESS /\ r.job = j
      BY DEF Result
    <3>3. r \in Returns
      BY <1>1, <3>1 DEF Result, Returns
    <3> QED
      BY <3>2, <3>3
  <2> USE DEF q
  <2> HIDE DEF r
  <2>6. /\ q \in Returns /\ q.driver = o.driver /\ q.op = p.op /\ q.out = SUCCESS
        /\ q.job = j
    BY <1>1, <2>1, <2>2, <2>3, Statuses, ResultTyped
  <2> HIDE DEF r, q
  <2>7. {r.op, q.op} = {"SCHDLE", "HANDLE"}
    BY <1>1, <2>1, <2>2, <2>5, <2>6
  <2>8. HandsOver(t, u, r, q)
    BY <2>1, <2>4, <2>5, <2>6, <2>7 DEF HandsOver
  <2>9. call' \in [Thread -> Seq(select_t)]
    BY <1>3, <2>1, <2>4
  <2> QED
    BY <1>2, <1>3, <2>1, <2>5, <2>6, <2>8, <2>9 DEF Effect, Rest
<1> QED
  BY <1>1, <1>2, <1>4, <1>5, <1>6, <1>7

LEMMA ClientEffect ==
    ASSUME DriverTypeOK, NEW t \in Thread, Client(t)
    PROVE  Effect /\ Rest
<1>1. /\ call \in [Thread -> Seq(select_t)] /\ <<>> \in Seq(select_t)
      /\ state \in [Drivers -> {"open", "closed", "destroyed"}]
  BY EmptySeq DEF DriverTypeOK
<1>2. CASE driver_select_any(t)
  BY <1>1, <1>2 DEF driver_select_any, Enter, Effect, Rest
<1>3. CASE Leave(t)
  BY <1>1, <1>3, PerformEffect DEF Leave
<1>4. ASSUME NEW o \in select_t, Try(t, o)
      PROVE  Effect /\ Rest
  <2>1. CASE Perform(t, <<o>>, 1)
    <3>1. <<o>> \in Seq(select_t) /\ 1 \in DOMAIN <<o>>
      OBVIOUS
    <3> QED
      BY <2>1, <3>1, PerformEffect
  <2>2. ASSUME NEW out \in {DRIVER_REQUEST_FULL, DRIVER_REQUEST_EMPTY},
               Return(t, Result(o, 1, out, NoJob)), UNCHANGED <<size, queue, state>>
        PROVE  Effect /\ Rest
    <3> DEFINE r == Result(o, 1, out, NoJob)
    <3>1. out \in Int /\ out # SUCCESS
      BY <2>2, Statuses
    <3>2. r \in Returns /\ r.out # SUCCESS
      BY <3>1, Options, ResultTyped
    <3>3. Logs(t, r) /\ UNCHANGED queue /\ call' = [call EXCEPT ![t] = <<>>]
      BY <2>2 DEF Return, Logs
    <3> HIDE DEF r
    <3>4. Moves0(t, r)
      BY <3>2, <3>3 DEF Moves0
    <3> QED
      BY <1>1, <2>2, <3>2, <3>3, <3>4 DEF Effect, Rest
  <2> QED
    BY <1>4, <2>1, <2>2 DEF Try
<1>5. ASSUME NEW d \in Drivers, NEW from, NEW to \in {"closed", "destroyed"},
             NEW error \in {DRIVER_GEN_ERROR, DRIVER_DESTROY_ERROR},
             Change(t, d, from, to, error)
      PROVE  Effect /\ Rest
  <2> DEFINE o == [driver |-> d, op |-> to]
             out == IF state[d] = from THEN SUCCESS ELSE error
             r == Result(o, 1, out, NoJob)
  <2>1. out \in Int /\ o.driver = d /\ o.op = to /\ o.driver \in Drivers
        /\ o.op \in {"SCHDLE", "HANDLE", "closed", "destroyed"}
    BY Statuses
  <2>2. /\ Logs(t, r) /\ UNCHANGED <<size, queue>> /\ call' = [call EXCEPT ![t] = <<>>]
        /\ state' = [state EXCEPT ![d] = IF @ = from THEN to ELSE @]
    BY <1>5 DEF Change, Return, Logs
  <2> HIDE DEF o, out
  <2>3. r \in Returns /\ r.op = to
    BY <2>1, ResultTyped
  <2> HIDE DEF r
  <2>4. Moves0(t, r)
    BY <2>2, <2>3 DEF Moves0
  <2>5. state' \in [Drivers -> {"open", "closed", "destroyed"}]
    BY <1>1, <2>2
  <2> QED
    BY <1>1, <2>2, <2>3, <2>4, <2>5 DEF Effect, Rest
<1> QED
  BY <1>2, <1>3, <1>4, <1>5
     DEF Client, non_blocking_any, close_or_destroy_any, driver_close, driver_destroy

LEMMA InitDriver == ClientInit => DriverTypeOK
<1> SUFFICES ASSUME ClientInit PROVE DriverTypeOK
  OBVIOUS
<1>1. /\ size \in [Drivers -> Nat] /\ queue = [d \in Drivers |-> <<>>]
      /\ state = [d \in Drivers |-> "open"] /\ call = [t \in Thread |-> <<>>]
      /\ returned = [t \in Thread |-> <<>>]
  BY DEF ClientInit, driver_create
<1>2. Len(<<>>) = 0
  OBVIOUS
<1>3. \A d \in Drivers : Len(queue[d]) <= size[d]
  BY <1>1, <1>2
<1> QED
  BY <1>1, <1>3 DEF DriverTypeOK

\* The types are those of the effects; a job goes only where there is room.
LEMMA StepDriver ==
    ASSUME DriverTypeOK, Effect, Rest
    PROVE  DriverTypeOK'
<1>1. /\ size \in [Drivers -> Nat] /\ queue \in [Drivers -> Seq(Jobs)]
      /\ \A d \in Drivers : Len(queue[d]) <= size[d] /\ Len(queue[d]) \in Nat
      /\ returned \in [Thread -> Seq(Returns)]
      /\ \A r \in Returns : r.driver \in Drivers
  BY LenProperties DEF DriverTypeOK, Returns
<1>2. returned' \in [Thread -> Seq(Returns)]
  <2>1. ASSUME NEW t \in Thread, NEW r \in Returns, Logs(t, r)
        PROVE  returned' \in [Thread -> Seq(Returns)]
    BY <1>1, <2>1 DEF Logs
  <2>2. ASSUME NEW t \in Thread, NEW u \in Thread, NEW r \in Returns, NEW q \in Returns,
               HandsOver(t, u, r, q)
        PROVE  returned' \in [Thread -> Seq(Returns)]
    <3>1. /\ t # u
          /\ returned' = [returned EXCEPT ![t] = Append(returned[t], r),
                                          ![u] = Append(returned[u], q)]
      BY <1>1, <2>2 DEF HandsOver
    <3>2. Append(returned[t], r) \in Seq(Returns) /\ Append(returned[u], q) \in Seq(Returns)
      BY <1>1, AppendProperties
    <3> QED
      BY <1>1, <3>1, <3>2
  <2> QED
    BY <1>1, <2>1, <2>2 DEF Effect, Moves0, MovesIn, MovesOut
<1>3. /\ queue' \in [Drivers -> Seq(Jobs)]
      /\ \A d \in Drivers : Len(queue'[d]) <= size[d]
  <2>1. CASE UNCHANGED queue
    BY <1>1, <2>1
  <2>2. ASSUME NEW t \in Thread, NEW r \in Returns, MovesIn(t, r)
        PROVE  <1>3!1 /\ <1>3!2
    <3>1. /\ r.driver \in Drivers /\ r.job \in Jobs
          /\ queue' = [queue EXCEPT ![r.driver] = Append(queue[r.driver], r.job)]
          /\ Len(queue[r.driver]) < size[r.driver]
      BY <1>1, <2>2 DEF MovesIn, HasRoom
    <3>2. /\ Append(queue[r.driver], r.job) \in Seq(Jobs)
          /\ Len(Append(queue[r.driver], r.job)) = Len(queue[r.driver]) + 1
      BY <1>1, <3>1, AppendProperties
    <3>3. Len(Append(queue[r.driver], r.job)) <= size[r.driver]
      BY <1>1, <3>1, <3>2
    <3> QED
      BY <1>1, <3>1, <3>2, <3>3
  <2>3. ASSUME NEW t \in Thread, NEW r \in Returns, MovesOut(t, r)
        PROVE  <1>3!1 /\ <1>3!2
    <3>1. /\ r.driver \in Drivers /\ queue[r.driver] # <<>>
          /\ queue' = [queue EXCEPT ![r.driver] = Tail(queue[r.driver])]
      BY <1>1, <2>3 DEF MovesOut
    <3>2. /\ Tail(queue[r.driver]) \in Seq(Jobs)
          /\ Len(Tail(queue[r.driver])) = Len(queue[r.driver]) - 1
      BY <1>1, <3>1, HeadTailProperties
    <3>3. Len(Tail(queue[r.driver])) <= size[r.driver]
      BY <1>1, <3>1, <3>2
    <3> QED
      BY <1>1, <3>1, <3>2, <3>3
  <2> QED
    BY <2>1, <2>2, <2>3 DEF Effect, Moves0, HandsOver
<1> QED
  BY <1>1, <1>2, <1>3 DEF DriverTypeOK, Rest

\* Whatever calls any threads make, in any order: no queue ever holds more jobs
\* than its driver was created for, and only jobs.
THEOREM ClientsTyped == ClientSpec => []DriverTypeOK
<1>1. DriverTypeOK /\ [\E t \in Thread : Client(t)]_driverVars => DriverTypeOK'
  <2>1. DriverTypeOK /\ UNCHANGED driverVars => DriverTypeOK'
    BY DEF driverVars, DriverTypeOK
  <2> QED
    BY <2>1, ClientEffect, StepDriver
<1> QED
  BY <1>1, InitDriver, PTL DEF ClientSpec

---------------------------------------------------------------------------
(* Counting *)

LEMMA SucceededMember ==
    ASSUME NEW rs, NEW d, NEW op, NEW j
    PROVE  \A x : x \in Succeeded(rs, d, op, j) <=>
              \E t \in Thread : \E i \in DOMAIN rs[t] :
                 Succeeds(rs[t][i], d, op, j) /\ x = <<t, i>>
  BY DEF Succeeded

\* new is rs after a call of t returned r
Logged(new, rs, t, r) == new = [rs EXCEPT ![t] = Append(@, r)]

\* How many r adds to the calls counted
One(r, d, op, j) == IF Succeeds(r, d, op, j) THEN 1 ELSE 0

\* A call that returned r is one more of the calls r is counted among.
LEMMA OneReturn ==
    ASSUME NEW rs \in [Thread -> Seq(Returns)], NEW t \in Thread, NEW r \in Returns,
           NEW new, Logged(new, rs, t, r),
           NEW d, NEW op, NEW j, IsFiniteSet(Succeeded(rs, d, op, j))
    PROVE  /\ new \in [Thread -> Seq(Returns)]
           /\ IsFiniteSet(Succeeded(new, d, op, j))
           /\ Cardinality(Succeeded(rs, d, op, j)) \in Nat
           /\ Cardinality(Succeeded(new, d, op, j)) =
                Cardinality(Succeeded(rs, d, op, j)) + One(r, d, op, j)
<1> DEFINE n == Len(rs[t]) + 1
           S == Succeeded(rs, d, op, j)
           T == Succeeded(new, d, op, j)
<1>0. /\ \A x : x \in S <=> \E u \in Thread : \E i \in DOMAIN rs[u] :
                             Succeeds(rs[u][i], d, op, j) /\ x = <<u, i>>
      /\ \A x : x \in T <=> \E u \in Thread : \E i \in DOMAIN new[u] :
                             Succeeds(new[u][i], d, op, j) /\ x = <<u, i>>
  BY DEF Succeeded
<1>1. /\ Append(rs[t], r) \in Seq(Returns) /\ new \in [Thread -> Seq(Returns)]
      /\ new[t] = Append(rs[t], r) /\ \A u \in Thread \ {t} : new[u] = rs[u]
      /\ n \in Nat /\ DOMAIN rs[t] = 1 .. n - 1 /\ DOMAIN new[t] = 1 .. n
      /\ \A i \in 1 .. n - 1 : new[t][i] = rs[t][i]
      /\ new[t][n] = r
  <2>1. rs[t] \in Seq(Returns) /\ Len(rs[t]) \in Nat /\ DOMAIN rs[t] = 1 .. Len(rs[t])
    BY LenProperties
  <2>2. /\ Append(rs[t], r) \in Seq(Returns)
        /\ Len(Append(rs[t], r)) = Len(rs[t]) + 1
        /\ \A i \in 1 .. Len(rs[t]) : Append(rs[t], r)[i] = rs[t][i]
        /\ Append(rs[t], r)[Len(rs[t]) + 1] = r
    BY <2>1, AppendProperties
  <2>3. DOMAIN Append(rs[t], r) = 1 .. n
    BY <2>1, <2>2, LenProperties
  <2>4. new[t] = Append(rs[t], r) /\ \A u \in Thread \ {t} : new[u] = rs[u]
    BY DEF Logged
  <2>5. new \in [Thread -> Seq(Returns)]
    BY <2>2 DEF Logged
  <2>6. n \in Nat /\ n - 1 = Len(rs[t])
    BY <2>1
  <2> QED
    BY <2>1, <2>2, <2>3, <2>4, <2>5, <2>6
<1> HIDE DEF n
<1> HIDE DEF S, T
<1>2. n \notin DOMAIN rs[t] /\ n \in DOMAIN new[t] /\ DOMAIN new[t] = DOMAIN rs[t] \cup {n}
  BY <1>1
<1>3. T = IF Succeeds(r, d, op, j) THEN S \cup {<<t, n>>} ELSE S
  <2>1. ASSUME NEW x, x \in T
        PROVE  x \in S \/ (Succeeds(r, d, op, j) /\ x = <<t, n>>)
    <3>0. PICK u \in Thread : \E i \in DOMAIN new[u] :
            Succeeds(new[u][i], d, op, j) /\ x = <<u, i>>
      BY <2>1, <1>0
    <3>1. PICK i \in DOMAIN new[u] : Succeeds(new[u][i], d, op, j) /\ x = <<u, i>>
      BY <3>0
    <3>2. CASE u = t /\ i = n
      BY <1>1, <3>1, <3>2
    <3>3. CASE ~(u = t /\ i = n)
      <4>1. i \in DOMAIN rs[u] /\ Succeeds(rs[u][i], d, op, j)
        BY <1>1, <1>2, <3>1, <3>3
      <4> QED
        BY <3>1, <4>1, <1>0
    <3> QED
      BY <3>2, <3>3
  <2>2. ASSUME NEW x, x \in S
        PROVE  x \in T
    <3>0. PICK u \in Thread : \E i \in DOMAIN rs[u] :
            Succeeds(rs[u][i], d, op, j) /\ x = <<u, i>>
      BY <2>2, <1>0
    <3>1. PICK i \in DOMAIN rs[u] : Succeeds(rs[u][i], d, op, j) /\ x = <<u, i>>
      BY <3>0
    <3>2. i \in DOMAIN new[u] /\ Succeeds(new[u][i], d, op, j)
      BY <1>1, <1>2, <3>1
    <3> QED
      BY <3>1, <3>2, <1>0
  <2>3. ASSUME Succeeds(r, d, op, j)
        PROVE  <<t, n>> \in T
    BY <1>1, <1>2, <2>3, <1>0
  <2> QED
    BY <2>1, <2>2, <2>3
<1>4. <<t, n>> \notin S
  BY <1>2, <1>0
<1>5. Cardinality(S) \in Nat
  BY FS_CardinalityType DEF S
<1>6. IsFiniteSet(S)
  BY DEF S
<1>7. /\ IsFiniteSet(T)
      /\ Cardinality(T) = Cardinality(S) + One(r, d, op, j)
  <2>1. CASE Succeeds(r, d, op, j)
    BY <1>3, <1>4, <1>6, <2>1, FS_AddElement DEF One
  <2>2. CASE ~Succeeds(r, d, op, j)
    BY <1>3, <1>5, <1>6, <2>2 DEF One
  <2> QED
    BY <2>1, <2>2
<1> QED
  BY <1>1, <1>5, <1>7 DEF S, T

\* The slots of a queue that hold job j
Slots(q, j) == {i \in DOMAIN q : q[i] = j}

LEMMA SlotsFinite ==
    ASSUME NEW q \in Seq(Jobs), NEW j
    PROVE  IsFiniteSet(Slots(q, j)) /\ Cardinality(Slots(q, j)) \in Nat
<1>1. DOMAIN q = 1 .. Len(q) /\ Len(q) \in Nat
  BY LenProperties
<1>2. IsFiniteSet(DOMAIN q) /\ Slots(q, j) \subseteq DOMAIN q
  BY <1>1, FS_Interval DEF Slots
<1>3. IsFiniteSet(Slots(q, j))
  BY <1>2, FS_Subset
<1> QED
  BY <1>3, FS_CardinalityType

LEMMA SlotsAppend ==
    ASSUME NEW q \in Seq(Jobs), NEW x \in Jobs, NEW j
    PROVE  Cardinality(Slots(Append(q, x), j)) =
             Cardinality(Slots(q, j)) + (IF x = j THEN 1 ELSE 0)
<1> DEFINE n == Len(q) + 1
           a == Append(q, x)
<1>1. /\ DOMAIN q = 1 .. Len(q) /\ Len(q) \in Nat
      /\ a \in Seq(Jobs) /\ Len(a) = n /\ DOMAIN a = 1 .. n
      /\ \A i \in 1 .. Len(q) : a[i] = q[i]
      /\ a[n] = x
  BY LenProperties, AppendProperties
<1> HIDE DEF a
<1>2. n \notin DOMAIN q /\ DOMAIN a = DOMAIN q \cup {n}
  BY <1>1
<1> HIDE DEF n
<1>3. n \notin Slots(q, j)
  BY <1>2 DEF Slots
<1>4. CASE x = j
  <2>1. Slots(a, j) = Slots(q, j) \cup {n}
    BY <1>1, <1>2, <1>4 DEF Slots
  <2> QED
    BY <1>3, <1>4, <2>1, SlotsFinite, FS_AddElement DEF a
<1>5. CASE x # j
  <2>1. Slots(a, j) = Slots(q, j)
    BY <1>1, <1>2, <1>5 DEF Slots
  <2> QED
    BY <1>5, <2>1, SlotsFinite DEF a
<1> QED
  BY <1>4, <1>5

LEMMA SlotsTail ==
    ASSUME NEW q \in Seq(Jobs), q # <<>>, NEW j
    PROVE  Cardinality(Slots(q, j)) =
             Cardinality(Slots(Tail(q), j)) + (IF Head(q) = j THEN 1 ELSE 0)
<1> DEFINE s == Tail(q)
           S == Slots(q, j) \ {1}
           T == Slots(s, j)
           f == [i \in T |-> i + 1]
<1>1. /\ DOMAIN q = 1 .. Len(q) /\ Len(q) \in Nat \ {0} /\ Head(q) = q[1]
      /\ s \in Seq(Jobs) /\ Len(s) = Len(q) - 1 /\ DOMAIN s = 1 .. Len(q) - 1
      /\ \A i \in 1 .. Len(q) - 1 : s[i] = q[i + 1]
  <2>1. /\ DOMAIN q = 1 .. Len(q) /\ Len(q) \in Nat
        /\ s \in Seq(Jobs) /\ Len(s) = Len(q) - 1
        /\ \A i \in 1 .. Len(s) : s[i] = q[i + 1]
    BY LenProperties, HeadTailProperties
  <2>2. Len(q) # 0 /\ Head(q) = q[1]
    BY EmptySeq
  <2>3. DOMAIN s = 1 .. Len(s)
    BY <2>1, LenProperties
  <2> QED
    BY <2>1, <2>2, <2>3
<1> HIDE DEF s
<1>2. f \in Bijection(T, S)
  <2>1. ASSUME NEW i \in T
        PROVE  i \in Int /\ i + 1 \in S
    BY <1>1 DEF Slots
  <2>2. ASSUME NEW k \in S
        PROVE  k - 1 \in T /\ f[k - 1] = k
    BY <1>1 DEF Slots
  <2>3. f \in [T -> S]
    BY <2>1
  <2>4. \A i, k \in T : f[i] = f[k] => i = k
    BY <2>1
  <2>5. \A k \in S : \E i \in T : f[i] = k
    BY <2>2
  <2> HIDE DEF S, T, f
  <2> QED
    BY <2>3, <2>4, <2>5 DEF Bijection, Injection, Surjection, IsInjective
<1>3. ExistsBijection(T, S)
  BY <1>2 DEF ExistsBijection
<1>4. IsFiniteSet(T) /\ Cardinality(T) \in Nat /\ Cardinality(S) = Cardinality(T)
  <2>1. IsFiniteSet(T) /\ Cardinality(T) \in Nat
    BY <1>1, SlotsFinite
  <2> HIDE DEF S, T
  <2> QED
    BY <1>3, <2>1, FS_Bijection
<1>5. /\ Cardinality(S) = IF 1 \in Slots(q, j) THEN Cardinality(Slots(q, j)) - 1
                          ELSE Cardinality(Slots(q, j))
      /\ Cardinality(Slots(q, j)) \in Nat
  BY SlotsFinite, FS_RemoveElement
<1>6. 1 \in Slots(q, j) <=> Head(q) = j
  BY <1>1 DEF Slots
<1> QED
  BY <1>4, <1>5, <1>6 DEF s
---------------------------------------------------------------------------
(* No job is lost and none is handled twice *)

\* What HandledOnce says of one driver and one job, with the sets it counts finite
Balanced(results, q, d, j) ==
    /\ IsFiniteSet(Succeeded(results, d, "SCHDLE", j))
    /\ IsFiniteSet(Succeeded(results, d, "HANDLE", j))
    /\ Cardinality(Succeeded(results, d, "SCHDLE", j)) =
         Cardinality(Succeeded(results, d, "HANDLE", j)) + Cardinality(Slots(q, j))

HandledInv == \A d \in Drivers, j \in Jobs : Balanced(returned, queue[d], d, j)

LEMMA InitHandled == ClientInit => HandledInv
<1> SUFFICES ASSUME ClientInit, NEW d \in Drivers, NEW j \in Jobs
             PROVE  Balanced(returned, queue[d], d, j)
  BY DEF HandledInv
<1>1. queue[d] = <<>> /\ \A t \in Thread : returned[t] = <<>>
  BY DEF ClientInit, driver_create
<1>2. Succeeded(returned, d, "SCHDLE", j) = {} /\ Succeeded(returned, d, "HANDLE", j) = {}
  BY <1>1 DEF Succeeded
<1>3. Slots(queue[d], j) = {}
  BY <1>1 DEF Slots
<1> QED
  BY <1>2, <1>3, FS_EmptySet DEF Balanced

\* The calls that scheduled j on d are s, and those that handled it h.
Tallied(rs, d, j, s, h) ==
    /\ rs \in [Thread -> Seq(Returns)]
    /\ IsFiniteSet(Succeeded(rs, d, "SCHDLE", j)) /\ s \in Nat
    /\ IsFiniteSet(Succeeded(rs, d, "HANDLE", j)) /\ h \in Nat
    /\ Cardinality(Succeeded(rs, d, "SCHDLE", j)) = s
    /\ Cardinality(Succeeded(rs, d, "HANDLE", j)) = h

LEMMA OneTallied ==
    ASSUME NEW rs, NEW t \in Thread, NEW r \in Returns, NEW new, Logged(new, rs, t, r),
           NEW d, NEW j, NEW s, NEW h, Tallied(rs, d, j, s, h)
    PROVE  Tallied(new, d, j, s + One(r, d, "SCHDLE", j), h + One(r, d, "HANDLE", j))
<1>1. rs \in [Thread -> Seq(Returns)]
  BY DEF Tallied
<1>2. ASSUME NEW op, IsFiniteSet(Succeeded(rs, d, op, j))
      PROVE  /\ new \in [Thread -> Seq(Returns)]
             /\ IsFiniteSet(Succeeded(new, d, op, j))
             /\ Cardinality(Succeeded(new, d, op, j)) =
                  Cardinality(Succeeded(rs, d, op, j)) + One(r, d, op, j)
  BY <1>1, <1>2, OneReturn
<1>3. s \in Nat /\ h \in Nat
  BY DEF Tallied
<1>4. s + One(r, d, "SCHDLE", j) \in Nat /\ h + One(r, d, "HANDLE", j) \in Nat
  BY <1>3 DEF One
<1> QED
  BY <1>2, <1>4 DEF Tallied

LEMMA BalancedTallied ==
    ASSUME NEW rs \in [Thread -> Seq(Returns)], NEW a, NEW d, NEW j
    PROVE  Balanced(rs, a, d, j) <=>
             \E s, h : Tallied(rs, d, j, s, h) /\ s = h + Cardinality(Slots(a, j))
<1>1. ASSUME Balanced(rs, a, d, j)
      PROVE  Tallied(rs, d, j, Cardinality(Succeeded(rs, d, "SCHDLE", j)),
                     Cardinality(Succeeded(rs, d, "HANDLE", j)))
  BY <1>1, FS_CardinalityType DEF Balanced, Tallied
<1> QED
  BY <1>1 DEF Balanced, Tallied

\* r and the change of the queue from a to b keep the two sides equal.
Tally(a, b, r, d, j) ==
    Cardinality(Slots(b, j)) + One(r, d, "HANDLE", j) =
      Cardinality(Slots(a, j)) + One(r, d, "SCHDLE", j)

LEMMA BalanceOfOne ==
    ASSUME NEW rs \in [Thread -> Seq(Returns)], NEW t \in Thread, NEW r \in Returns,
           NEW new, Logged(new, rs, t, r), NEW d, NEW j,
           NEW a \in Seq(Jobs), NEW b \in Seq(Jobs), Balanced(rs, a, d, j),
           Tally(a, b, r, d, j)
    PROVE  Balanced(new, b, d, j)
<1>1. PICK s, h : Tallied(rs, d, j, s, h) /\ s = h + Cardinality(Slots(a, j))
  BY BalancedTallied
<1>2. Tallied(new, d, j, s + One(r, d, "SCHDLE", j), h + One(r, d, "HANDLE", j))
  BY <1>1, OneTallied
<1>3. /\ h \in Nat /\ Cardinality(Slots(a, j)) \in Nat /\ Cardinality(Slots(b, j)) \in Nat
      /\ One(r, d, "SCHDLE", j) \in Nat /\ One(r, d, "HANDLE", j) \in Nat
  BY <1>1, SlotsFinite DEF Tallied, One
<1>4. s + One(r, d, "SCHDLE", j) =
        h + One(r, d, "HANDLE", j) + Cardinality(Slots(b, j))
  <2> DEFINE x == One(r, d, "SCHDLE", j)
             y == One(r, d, "HANDLE", j)
             m == Cardinality(Slots(a, j))
             n == Cardinality(Slots(b, j))
  <2>1. /\ s = h + m /\ n + y = m + x
        /\ h \in Nat /\ m \in Nat /\ n \in Nat /\ x \in Nat /\ y \in Nat
    BY <1>1, <1>3 DEF Tally
  <2> HIDE DEF x, y, m, n
  <2>2. s + x = h + y + n
    BY <2>1
  <2> QED
    BY <2>2 DEF x, y, n
<1> QED
  BY <1>2, <1>4 DEF Balanced, Tallied

\* The two calls that met return one after the other; either is counted
\* exactly if the other is.
LEMMA BalanceOfTwo ==
    ASSUME NEW rs \in [Thread -> Seq(Returns)], NEW t \in Thread, NEW u \in Thread,
           NEW r \in Returns, NEW q \in Returns, NEW mid, Logged(mid, rs, t, r),
           NEW new, Logged(new, mid, u, q),
           NEW d, NEW j, NEW a \in Seq(Jobs), Balanced(rs, a, d, j),
           One(r, d, "SCHDLE", j) = One(q, d, "HANDLE", j),
           One(r, d, "HANDLE", j) = One(q, d, "SCHDLE", j)
    PROVE  Balanced(new, a, d, j)
<1> DEFINE x == One(r, d, "SCHDLE", j)
           y == One(r, d, "HANDLE", j)
           m == Cardinality(Slots(a, j))
<1>1. PICK s, h : Tallied(rs, d, j, s, h) /\ s = h + m
  BY BalancedTallied
<1>2. Tallied(mid, d, j, s + x, h + y)
  BY <1>1, OneTallied
<1>3. One(q, d, "SCHDLE", j) = y /\ One(q, d, "HANDLE", j) = x
  OBVIOUS
<1>4. /\ h \in Nat /\ m \in Nat /\ x \in Nat /\ y \in Nat
  BY <1>1, SlotsFinite DEF Tallied, One
<1> HIDE DEF x, y
<1>5. Tallied(new, d, j, (s + x) + One(q, d, "SCHDLE", j), (h + y) + One(q, d, "HANDLE", j))
  BY <1>2, OneTallied
<1>6. (s + x) + y = (h + y) + x + m
  <2> HIDE DEF m
  <2> QED
    BY <1>1, <1>4
<1> QED
  BY <1>3, <1>5, <1>6 DEF Balanced, Tallied

LEMMA StepHandled ==
    ASSUME DriverTypeOK, HandledInv, Effect
    PROVE  HandledInv'
<1> SUFFICES ASSUME NEW d \in Drivers, NEW j \in Jobs
             PROVE  Balanced(returned', queue'[d], d, j)
  BY DEF HandledInv
<1>1. /\ Balanced(returned, queue[d], d, j) /\ queue[d] \in Seq(Jobs)
      /\ returned \in [Thread -> Seq(Returns)] /\ queue \in [Drivers -> Seq(Jobs)]
      /\ Cardinality(Slots(queue[d], j)) \in Nat
  BY SlotsFinite DEF HandledInv, DriverTypeOK
<1>2. CASE UNCHANGED <<queue, returned>>
  BY <1>1, <1>2
\* What remains of a return is what it does to the queue of d.
<1>3. ASSUME NEW t \in Thread, NEW r \in Returns, Logs(t, r),
             queue'[d] \in Seq(Jobs), Tally(queue[d], queue'[d], r, d, j)
      PROVE  Balanced(returned', queue'[d], d, j)
  <2>1. Logged(returned', returned, t, r)
    BY <1>3 DEF Logs, Logged
  <2> QED
    BY <1>1, <1>3, <2>1, BalanceOfOne
<1>4. ASSUME NEW r, queue'[d] = queue[d],
             ~Succeeds(r, d, "HANDLE", j) /\ ~Succeeds(r, d, "SCHDLE", j)
      PROVE  queue'[d] \in Seq(Jobs) /\ Tally(queue[d], queue'[d], r, d, j)
  BY <1>1, <1>4 DEF Tally, One
<1>5. ASSUME NEW t \in Thread, NEW r \in Returns, Moves0(t, r)
      PROVE  Balanced(returned', queue'[d], d, j)
  <2>1. /\ queue'[d] = queue[d] /\ Logs(t, r)
        /\ ~Succeeds(r, d, "HANDLE", j) /\ ~Succeeds(r, d, "SCHDLE", j)
    BY <1>5 DEF Moves0, Succeeds
  <2> QED
    BY <1>3, <1>4, <2>1
<1>6. ASSUME NEW t \in Thread, NEW r \in Returns, MovesIn(t, r)
      PROVE  Balanced(returned', queue'[d], d, j)
  <2>1. /\ Logs(t, r) /\ r.job \in Jobs /\ ~Succeeds(r, d, "HANDLE", j)
        /\ Succeeds(r, d, "SCHDLE", j) <=> (r.driver = d /\ r.job = j)
        /\ queue' = [queue EXCEPT ![r.driver] = Append(queue[r.driver], r.job)]
    BY <1>6 DEF MovesIn, Succeeds
  <2>2. CASE r.driver = d
    <3>1. queue'[d] = Append(queue[d], r.job) /\ Append(queue[d], r.job) \in Seq(Jobs)
      BY <1>1, <2>1, <2>2, AppendProperties
    <3>2. Cardinality(Slots(queue'[d], j)) =
            Cardinality(Slots(queue[d], j)) + (IF r.job = j THEN 1 ELSE 0)
      BY <1>1, <2>1, <3>1, SlotsAppend
    <3>3. Tally(queue[d], queue'[d], r, d, j)
      BY <1>1, <2>1, <2>2, <3>2 DEF Tally, One
    <3> QED
      BY <1>3, <2>1, <3>1, <3>3
  <2>3. CASE r.driver # d
    BY <1>1, <1>3, <1>4, <2>1, <2>3
  <2> QED
    BY <2>2, <2>3
<1>7. ASSUME NEW t \in Thread, NEW r \in Returns, MovesOut(t, r)
      PROVE  Balanced(returned', queue'[d], d, j)
  <2>1. /\ Logs(t, r) /\ r.job = Head(queue[r.driver])
        /\ queue[r.driver] # <<>> /\ ~Succeeds(r, d, "SCHDLE", j)
        /\ Succeeds(r, d, "HANDLE", j) <=> (r.driver = d /\ r.job = j)
        /\ queue' = [queue EXCEPT ![r.driver] = Tail(queue[r.driver])]
    BY <1>7 DEF MovesOut, Succeeds
  <2>2. CASE r.driver = d
    <3>1. queue'[d] = Tail(queue[d]) /\ Tail(queue[d]) \in Seq(Jobs)
      BY <1>1, <2>1, <2>2, HeadTailProperties
    <3>2. Cardinality(Slots(queue[d], j)) =
            Cardinality(Slots(queue'[d], j)) + (IF r.job = j THEN 1 ELSE 0)
      BY <1>1, <2>1, <2>2, <3>1, SlotsTail
    <3>3. Tally(queue[d], queue'[d], r, d, j)
      BY <1>1, <2>1, <2>2, <3>2 DEF Tally, One
    <3> QED
      BY <1>3, <2>1, <3>1, <3>3
  <2>3. CASE r.driver # d
    BY <1>1, <1>3, <1>4, <2>1, <2>3
  <2> QED
    BY <2>2, <2>3
<1>8. ASSUME NEW t \in Thread, NEW u \in Thread, NEW r \in Returns, NEW q \in Returns,
             HandsOver(t, u, r, q)
      PROVE  Balanced(returned', queue'[d], d, j)
  <2> DEFINE mid == [returned EXCEPT ![t] = Append(@, r)]
  <2>1. /\ t # u /\ queue'[d] = queue[d]
        /\ returned' = [returned EXCEPT ![t] = Append(returned[t], r),
                                        ![u] = Append(returned[u], q)]
    BY <1>1, <1>8 DEF HandsOver
  <2>2. Logged(mid, returned, t, r)
    BY DEF Logged
  <2>3. Logged(returned', mid, u, q)
    BY <1>1, <2>1 DEF Logged
  <2>4. /\ Succeeds(r, d, "SCHDLE", j) <=> Succeeds(q, d, "HANDLE", j)
        /\ Succeeds(r, d, "HANDLE", j) <=> Succeeds(q, d, "SCHDLE", j)
    <3>1. /\ r.driver = q.driver /\ r.job = q.job /\ r.out = SUCCESS /\ q.out = SUCCESS
          /\ \/ r.op = "SCHDLE" /\ q.op = "HANDLE"
             \/ q.op = "SCHDLE" /\ r.op = "HANDLE"
      BY <1>8 DEF HandsOver
    <3> QED
      BY <3>1 DEF Succeeds
  <2>5. /\ One(r, d, "SCHDLE", j) = One(q, d, "HANDLE", j)
        /\ One(r, d, "HANDLE", j) = One(q, d, "SCHDLE", j)
    BY <2>4 DEF One
  <2> HIDE DEF mid
  <2>6. Balanced(returned', queue[d], d, j)
    BY <1>1, <2>2, <2>3, <2>5, BalanceOfTwo
  <2> QED
    BY <2>1, <2>6
<1> QED
  BY <1>2, <1>5, <1>6, <1>7, <1>8 DEF Effect

\* Whatever calls any threads make, and whether a job goes through a queue or
\* from one thread to another: the calls that scheduled a job are as many as
\* those that handled it and the slots that hold it together.
THEOREM ClientsHandledOnce == ClientSpec => []HandledOnce
<1>1. HandledInv => HandledOnce
  BY DEF HandledInv, HandledOnce, Balanced, Slots
<1>2. DriverTypeOK /\ HandledInv /\ [\E t \in Thread : Client(t)]_driverVars => HandledInv'
  <2>1. HandledInv /\ UNCHANGED driverVars => HandledInv'
    BY DEF driverVars, HandledInv
  <2> QED
    BY <2>1, ClientEffect, StepHandled
<1> QED
  BY <1>1, <1>2, InitHandled, ClientsTyped, PTL DEF ClientSpec
=============================================================================
