------------------------- MODULE StressRepliesProofs -------------------------
(***************************************************************************)
(* check_done, for every number of routers and every interleaving: when    *)
(* its second round starts main has one answer from every router and       *)
(* completed[] is full, the threads never wait for one another in a        *)
(* circle, with unqueued drivers what it accepts is the solution, and      *)
(* with a buffer it is unless the vectors of a router went round between   *)
(* the router's two answers.                                               *)
(*                                                                         *)
(* No answer says in which round it was given, and completed_driver is one *)
(* for all.  Main counts to num_driver, no more.  The argument is a count  *)
(* as well: the routers that were asked and have nothing outstanding are   *)
(* as many as the answers main has taken and the one that may still be in  *)
(* the driver (Balanced).  So main leaves a round when nothing is          *)
(* outstanding, no answer is late for its round and none is counted twice. *)
(***************************************************************************)
EXTENDS StressKnownProofs, StressAnswers

\* Main has sent the NULL job of this round to r.
Asked(r) == mpc = "collect" \/ (mpc = "flush" /\ r < mi)

Answered == {r \in Node : Asked(r) /\ ~Outstanding(r)}

\* Drivers hold one job at most, and a router has one NULL job at most.
OneEach ==
    /\ \A r \in Node : Len(queue[r]) <= 1 /\ ~(Waits(r) /\ pc[r] = "reply")
    /\ Len(replies) <= 1
    /\ BufferSize = 0 => replies = <<>>

Balanced ==
    /\ \A r \in Node : Outstanding(r) => Asked(r)
    /\ Cardinality(Answered) = (IF mpc = "collect" THEN mi ELSE 0) + Len(replies)

\* As long as the first round may succeed, whoever answered is in completed[],
\* or the answer is in completed_driver.
FirstRound ==
    round = 1 /\ valid =>
        \A r \in Answered :
            \/ completed[r].src = r
            \/ replies # <<>> /\ Head(replies).src \in {r, -1}

SecondRound ==
    /\ mpc = "check" => round = 2
    /\ round = 2 => \A r \in Node : completed[r].src = r

RoundInv == OneEach /\ Balanced /\ FirstRound /\ SecondRound

---------------------------------------------------------------------------
(* What a step does to the NULL jobs and their answers *)

\* Nobody but r gets or loses a NULL job, or answers.
OnlyOf(r) ==
    \A q \in Node : q # r => (Outstanding(q)' <=> Outstanding(q)) /\ ~Answering(q)

\* Nobody gets or loses a NULL job, or answers.
AsBefore == \A q \in Node : (Outstanding(q)' <=> Outstanding(q)) /\ ~Answering(q)

Elsewhere ==
    /\ UNCHANGED <<replies, mainVars>>
    /\ AsBefore

Asks(r) ==
    /\ mpc = "flush" /\ mi = r /\ Flushed /\ UNCHANGED replies
    /\ Outstanding(r)' /\ ~Answering(r) /\ OnlyOf(r)

Answers(r) ==
    /\ UNCHANGED mainVars
    /\ replies = <<>> /\ replies' = <<ReplyOf(r)>>
    /\ Outstanding(r) /\ ~Outstanding(r)' /\ Answering(r) /\ OnlyOf(r)

Takes ==
    /\ mpc = "collect" /\ Len(replies) = 1 /\ replies' = <<>>
    /\ Collected(Head(replies))
    /\ AsBefore

Meets(r) ==
    /\ mpc = "collect" /\ replies = <<>> /\ replies' = <<>>
    /\ Collected(ReplyOf(r))
    /\ Outstanding(r) /\ ~Outstanding(r)' /\ Answering(r) /\ OnlyOf(r)

Rests ==
    /\ Sleep \/ Close \/ Join
    /\ UNCHANGED replies
    /\ AsBefore

Effect ==
    \/ Elsewhere
    \/ \E r \in Node : Asks(r) \/ Answers(r) \/ Meets(r)
    \/ Takes
    \/ Rests

\* A driver of one job.
LEMMA OneJob ==
    ASSUME NEW s \in Seq(Job), Len(s) <= 1, NEW j \in Job
    PROVE  /\ s = <<>> => /\ Len(Append(s, j)) = 1 /\ Append(s, j) # <<>>
                          /\ Head(Append(s, j)) = j /\ Append(s, j) = <<j>>
           /\ s # <<>> => Tail(s) = <<>> /\ Len(Tail(s)) = 0 /\ Len(s) = 1
<1>1. s = <<>> => Append(s, j) = <<j>>
  OBVIOUS
<1>2. ASSUME s # <<>>
      PROVE  Len(s) = 1 /\ Tail(s) = <<>> /\ Len(Tail(s)) = 0
  <2>1. Tail(s) \in Seq(Job) /\ Len(Tail(s)) = Len(s) - 1
    BY <1>2, HeadTailProperties
  <2>2. Len(s) \in Nat /\ Len(s) # 0
    BY <1>2, EmptySeq
  <2>3. Len(Tail(s)) = 0
    BY <2>1, <2>2
  <2> QED
    BY <2>1, <2>2, <2>3, EmptySeq
<1> QED
  BY <1>1, <1>2

LEMMA StepEffect ==
    ASSUME TypeInv, OneEach, Balanced, [Next]_vars
    PROVE  OneEach' /\ Effect
<1> USE DEF mainVars
<1>0. /\ pc \in [Node -> {"select", "update", "cycle", "copy", "reply", "exited"}]
      /\ queue \in [Node -> Seq(Job)] /\ replies \in Seq(Job) /\ mi \in Node
      /\ \A r \in Node : curr_state(r) \in Job /\ ReplyOf(r) \in Job
      /\ \A r \in Node : curr_state(r) # NullJob
      /\ \A r \in Node : \A n \in Neighbours(r) : n \in Node /\ n # r
      /\ NullJob \in Job /\ BufferSize \in {0, 1}
  <2>1. TypeOK /\ NullJob \in Job
    BY DEF TypeInv, Job
  <2>2. \A r \in Node : curr_state(r) \in Pointer /\ ReplyOf(r) \in Job
    BY <2>1, JobsOfDrivers
  <2>3. \A r \in Node : curr_state(r) # NullJob
    BY SizeAssumption DEF curr_state, NullJob, Node
  <2>4. /\ pc \in [Node -> {"select", "update", "cycle", "copy", "reply", "exited"}]
        /\ queue \in [Node -> Seq(Job)] /\ replies \in Seq(Job) /\ mi \in Node
    BY <2>1 DEF TypeOK
  <2> QED
    BY <2>1, <2>2, <2>3, <2>4, SizeAssumption DEF Job, Neighbours
<1>1. ASSUME UNCHANGED <<queue, replies, mainVars>>,
             \A q \in Node : pc'[q] = "reply" <=> pc[q] = "reply"
      PROVE  OneEach' /\ Effect
  BY <1>1 DEF OneEach, Effect, Elsewhere, AsBefore, Answering, Outstanding, Waits
<1>2. ASSUME NEW r \in Node, SelectOwn(r)
      PROVE  OneEach' /\ Effect
  <2>1. queue[r] # <<>> /\ Len(queue[r]) <= 1 /\ queue[r] \in Seq(Job)
    BY <1>0, <1>2 DEF SelectOwn, OneEach
  <2>2. Tail(queue[r]) = <<>> /\ Len(Tail(queue[r])) = 0
    <3> DEFINE s == queue[r]
    <3>1. s # <<>> /\ Len(s) <= 1 /\ s \in Seq(Job) /\ NullJob \in Job
      BY <1>0, <2>1
    <3> HIDE DEF s
    <3>2. Tail(s) = <<>> /\ Len(Tail(s)) = 0
      BY <3>1, OneJob
    <3> QED
      BY <3>2 DEF s
  <2>3. /\ queue'[r] = <<>> /\ Len(queue'[r]) = 0 /\ pc[r] = "select"
        /\ pc'[r] = AfterHandle(Head(queue[r]))
        /\ \A q \in Node : q # r => queue'[q] = queue[q] /\ pc'[q] = pc[q]
        /\ UNCHANGED <<replies, mainVars>>
    BY <1>0, <1>2, <2>2 DEF SelectOwn
  <2>4. pc'[r] = "reply" <=> Head(queue[r]) = NullJob
    BY <2>3 DEF AfterHandle
  <2> QED
    BY <1>0, <2>1, <2>3, <2>4 DEF OneEach, Effect, Elsewhere, AsBefore, Answering, Outstanding, Waits
<1>3. ASSUME NEW r \in Node, NEW n \in Neighbours(r), SelectSend(r, n)
      PROVE  OneEach' /\ Effect
  <2>1. /\ queue'[n] = <<curr_state(r)>>
        /\ \A q \in Node : q # n => queue'[q] = queue[q]
    <3> DEFINE s == queue[n]
               j == curr_state(r)
    <3>1. s = <<>> /\ s \in Seq(Job) /\ j \in Job /\ queue'[n] = Append(s, j) /\ Len(s) <= 1
      BY <1>0, <1>3 DEF SelectSend
    <3> HIDE DEF s, j
    <3>2. queue'[n] = <<j>>
      BY <3>1, OneJob
    <3> QED
      BY <1>0, <1>3, <3>2 DEF SelectSend, j
  <2>2. /\ queue[n] = <<>> /\ pc[r] = "select" /\ pc'[r] # "reply"
        /\ \A q \in Node : q # r => pc'[q] = pc[q]
        /\ UNCHANGED <<replies, mainVars>>
    BY <1>0, <1>3 DEF SelectSend, AfterEvent
  <2>3. Len(queue'[n]) = 1 /\ Head(queue'[n]) = curr_state(r)
    BY <1>0, <2>1
  <2>4. \A q \in Node : (Waits(q)' <=> Waits(q)) /\ (pc'[q] = "reply" <=> pc[q] = "reply")
                        /\ Len(queue'[q]) <= 1
    <3>1. \A q \in Node : Waits(q)' <=> Waits(q)
      BY <1>0, <2>1, <2>2, <2>3 DEF Waits
    <3>2. \A q \in Node : pc'[q] = "reply" <=> pc[q] = "reply"
      BY <2>2
    <3>3. \A q \in Node : Len(queue'[q]) <= 1
      <4>1. \A q \in Node : q # n => Len(queue'[q]) = Len(queue[q])
        BY <2>1
      <4>2. \A q \in Node : Len(queue[q]) <= 1
        BY DEF OneEach
      <4>3. Len(queue'[n]) <= 1
        BY <2>3
      <4> QED
        BY <4>1, <4>2, <4>3
    <3> QED
      BY <3>1, <3>2, <3>3
  <2> QED
    BY <2>2, <2>4 DEF OneEach, Effect, Elsewhere, AsBefore, Answering, Outstanding
<1>4. ASSUME NEW r \in Node, NEW n \in Neighbours(r), SelectMeet(r, n)
      PROVE  OneEach' /\ Effect
  BY <1>0, <1>1, <1>4 DEF SelectMeet, AfterEvent, AfterHandle
<1>5. ASSUME NEW r \in Node, SelectClosed(r) \/ Update(r) \/ Cycle(r) \/ Copy(r)
      PROVE  OneEach' /\ Effect
  BY <1>0, <1>1, <1>5 DEF SelectClosed, Update, Cycle, Copy, AfterEvent
<1>6. ASSUME NEW r \in Node, Reply(r)
      PROVE  OneEach' /\ Effect
  <2>1. replies = <<>> /\ replies' = <<ReplyOf(r)>>
    <3> DEFINE s == replies
               j == ReplyOf(r)
    <3>1. s = <<>> /\ s \in Seq(Job) /\ j \in Job /\ replies' = Append(s, j) /\ Len(s) <= 1
      BY <1>0, <1>6 DEF Reply
    <3> HIDE DEF j
    <3>2. replies' = <<j>>
      BY <3>1, OneJob
    <3> QED
      BY <3>1, <3>2 DEF j
  <2>2. /\ pc[r] = "reply" /\ pc'[r] # "reply" /\ BufferSize = 1
        /\ \A q \in Node : q # r => pc'[q] = pc[q]
        /\ UNCHANGED <<queue, mainVars>>
    BY <1>0, <1>6 DEF Reply, AfterEvent
  <2>3. \A q \in Node : Waits(q)' <=> Waits(q)
    BY <2>2 DEF Waits
  <2>4. ~Waits(r)
    BY <2>2 DEF OneEach
  <2>5. Answers(r)
    BY <2>1, <2>2, <2>3, <2>4 DEF Answers, OnlyOf, Answering, Outstanding
  <2>6. Len(replies') <= 1
    BY <2>1
  <2>7. OneEach'
    BY <2>2, <2>3, <2>6 DEF OneEach
  <2> QED
    BY <2>5, <2>7 DEF Effect
<1>7. ASSUME NEW r \in Node, CollectMeet(r)
      PROVE  OneEach' /\ Effect
  <2>1. /\ pc[r] = "reply" /\ pc'[r] # "reply" /\ BufferSize = 0 /\ mpc = "collect"
        /\ \A q \in Node : q # r => pc'[q] = pc[q]
        /\ UNCHANGED <<queue, replies>> /\ Collected(ReplyOf(r))
    BY <1>0, <1>7 DEF CollectMeet, AfterEvent
  <2>2. \A q \in Node : Waits(q)' <=> Waits(q)
    BY <2>1 DEF Waits
  <2>3. ~Waits(r) /\ replies = <<>>
    BY <2>1 DEF OneEach
  <2>4. Meets(r)
    BY <2>1, <2>2, <2>3 DEF Meets, OnlyOf, Answering, Outstanding
  <2>5. OneEach'
    BY <2>1, <2>2 DEF OneEach
  <2> QED
    BY <2>4, <2>5 DEF Effect
<1>8. ASSUME NEW m \in Node, m = mi, Flush
      PROVE  OneEach' /\ Effect
  <2>1. /\ queue'[m] = <<NullJob>>
        /\ \A q \in Node : q # m => queue'[q] = queue[q]
    <3> DEFINE s == queue[m]
               j == NullJob
    <3>1. s = <<>> /\ s \in Seq(Job) /\ j \in Job /\ queue'[m] = Append(s, j) /\ Len(s) <= 1
      BY <1>0, <1>8 DEF Flush
    <3> HIDE DEF s, j
    <3>2. queue'[m] = <<j>>
      BY <3>1, OneJob
    <3> QED
      BY <1>0, <1>8, <3>2 DEF Flush, j
  <2>2. /\ mpc = "flush" /\ Flushed /\ UNCHANGED <<pc, replies>>
        /\ ~Asked(m)
    BY <1>0, <1>8, SizeAssumption DEF Flush, routerVars, Asked, Node
  <2>3. Waits(m)' /\ Len(queue'[m]) = 1
    BY <2>1 DEF Waits
  <2>4. \A q \in Node : q # m => (Waits(q)' <=> Waits(q)) /\ queue'[q] = queue[q]
    BY <2>1 DEF Waits
  <2>5. pc[m] # "reply"
    BY <2>2 DEF Balanced, Outstanding
  <2>6. OneEach'
    <3>1. Len(queue'[m]) <= 1 /\ ~(Waits(m)' /\ pc'[m] = "reply")
      BY <2>2, <2>3, <2>5
    <3>2. ASSUME NEW q \in Node, q # m
          PROVE  Len(queue'[q]) <= 1 /\ ~(Waits(q)' /\ pc'[q] = "reply")
      <4>1. Len(queue'[q]) = Len(queue[q]) /\ (Waits(q)' <=> Waits(q)) /\ pc'[q] = pc[q]
        BY <2>2, <2>4, <3>2
      <4> QED
        BY <4>1 DEF OneEach
    <3>3. Len(replies') <= 1 /\ (BufferSize = 0 => replies' = <<>>)
      BY <2>2 DEF OneEach
    <3> QED
      BY <3>1, <3>2, <3>3 DEF OneEach
  <2>7. Asks(m)
    BY <1>8, <2>2, <2>3, <2>4 DEF Asks, OnlyOf, Answering, Outstanding
  <2> QED
    BY <2>6, <2>7 DEF Effect
<1>9. ASSUME NEW m \in Node, m = mi, FlushMeet
      PROVE  OneEach' /\ Effect
  <2>1. /\ pc'[m] = "reply" /\ mpc = "flush" /\ Flushed
        /\ \A q \in Node : q # m => pc'[q] = pc[q]
        /\ UNCHANGED <<queue, replies>> /\ ~Asked(m)
    BY <1>0, <1>9, SizeAssumption DEF FlushMeet, AfterHandle, Asked, Node
  <2>2. \A q \in Node : Waits(q)' <=> Waits(q)
    BY <2>1 DEF Waits
  <2>3. ~Waits(m)
    BY <2>1 DEF Balanced, Outstanding
  <2>4. OneEach'
    BY <2>1, <2>2, <2>3 DEF OneEach
  <2>5. Asks(m)
    BY <1>9, <2>1, <2>2 DEF Asks, OnlyOf, Answering, Outstanding
  <2> QED
    BY <2>4, <2>5 DEF Effect
<1>10. ASSUME Collect
       PROVE  OneEach' /\ Effect
  <2>1. /\ mpc = "collect" /\ replies # <<>> /\ Collected(Head(replies))
        /\ replies' = Tail(replies) /\ UNCHANGED <<queue, pc>>
    BY <1>10 DEF Collect, routerVars
  <2>2. Len(replies) = 1 /\ replies' = <<>> /\ Len(replies') = 0
    <3>1. replies \in Seq(Job) /\ Len(replies) <= 1 /\ NullJob \in Job
      BY <1>0 DEF OneEach
    <3> QED
      BY <2>1, <3>1, OneJob
  <2>3. \A q \in Node : Waits(q)' <=> Waits(q)
    BY <2>1 DEF Waits
  <2>4. OneEach'
    BY <2>1, <2>2, <2>3 DEF OneEach
  <2>5. Takes
    BY <2>1, <2>2, <2>3 DEF Takes, AsBefore, Answering, Outstanding
  <2> QED
    BY <2>4, <2>5 DEF Effect
<1>11. ASSUME Sleep \/ Close \/ Join
       PROVE  OneEach' /\ Effect
  <2>1. UNCHANGED <<queue, pc, replies>>
    BY <1>11 DEF Sleep, Close, Join, routerVars
  <2>2. \A q \in Node : Waits(q)' <=> Waits(q)
    BY <2>1 DEF Waits
  <2>3. OneEach'
    BY <2>1, <2>2 DEF OneEach
  <2>4. Rests
    BY <1>11, <2>1, <2>2 DEF Rests, AsBefore, Answering, Outstanding
  <2> QED
    BY <2>3, <2>4 DEF Effect
<1>12. CASE Done \/ UNCHANGED vars
  BY <1>1, <1>12 DEF Done, vars, routerVars
<1> QED
  BY <1>0, <1>2, <1>3, <1>4, <1>5, <1>6, <1>7, <1>8, <1>9, <1>10, <1>11, <1>12
     DEF Next, Router, Send, Main
---------------------------------------------------------------------------
(* The count *)

LEMMA AnsweredSet ==
    ASSUME TypeInv
    PROVE  /\ Answered \subseteq Node /\ IsFiniteSet(Answered)
           /\ IsFiniteSet(Node) /\ Cardinality(Node) = N
<1>1. IsFiniteSet(Node) /\ Cardinality(Node) = N
  BY FS_Interval, SizeAssumption DEF Node
<1>2. Answered \subseteq Node
  BY DEF Answered
<1> QED
  BY <1>1, <1>2, FS_Subset

\* Main asks the next router, and it has something outstanding.
LEMMA AskingSet ==
    ASSUME TypeInv, NEW r \in Node, Asks(r)
    PROVE  /\ \A q \in Node : (Asked(q) <=> q < r) /\ (Asked(q)' <=> q <= r)
           /\ Answered' = Answered
<1>0. mi \in Node /\ mi \in Nat /\ N \in Nat /\ Node \subseteq Nat
  BY SizeAssumption DEF TypeInv, TypeOK, Node
<1>1. /\ mpc = "flush" /\ mi = r /\ UNCHANGED <<replies, round, valid, completed>>
      /\ mpc' = IF mi = N - 1 THEN "collect" ELSE "flush"
      /\ mi' = (mi + 1) % N
  BY DEF Asks, Flushed
<1>2. \A q \in Node : (Asked(q) <=> q < r) /\ (Asked(q)' <=> q <= r)
  <2>1. CASE mi = N - 1
    <3>1. mpc' = "collect" /\ \A q \in Node : q <= N - 1
      BY <1>1, <2>1, SizeAssumption DEF Node
    <3> QED
      BY <1>1, <2>1, <3>1 DEF Asked
  <2>2. CASE mi < N - 1
    <3>1. mpc' = "flush" /\ mi' = r + 1
      BY <1>0, <1>1, <2>2, NextIndex
    <3>2. \A q \in Node : q < r + 1 <=> q <= r
      BY <1>0, <1>1
    <3> QED
      BY <1>1, <3>1, <3>2 DEF Asked
  <2> QED
    BY <1>0, <2>1, <2>2, SizeAssumption DEF Node
<1>3. Outstanding(r)' /\ \A q \in Node : q # r => (Outstanding(q)' <=> Outstanding(q))
  BY DEF Asks, OnlyOf
<1>4. \A q \in Node : q # r => (q <= r <=> q < r)
  BY <1>0
<1>5. r <= r /\ ~(r < r)
  BY <1>0
<1>6. Answered' = Answered
  BY <1>2, <1>3, <1>4, <1>5 DEF Answered
<1> QED
  BY <1>2, <1>6

\* Main takes an answer.  A are the routers that have nothing outstanding then;
\* when it is the last answer of the round these are all.
LEMMA Collecting ==
    ASSUME TypeInv, SecondRound, mpc = "collect", replies' = <<>>,
           NEW j \in Job, Collected(j),
           NEW A, A = {q \in Node : ~Outstanding(q)'}, Cardinality(A) = mi + 1,
           round = 1 /\ valid => \A q \in A : completed[q].src = q \/ j.src \in {q, -1}
    PROVE  Balanced' /\ FirstRound' /\ SecondRound'
<1>0. /\ mi \in Node /\ mi \in Nat /\ N \in Nat /\ round \in {1, 2}
      /\ completed \in [Node -> Job] /\ Len(replies') = 0
      /\ valid' = (valid /\ Accepts(j)) /\ mi' = (mi + 1) % N
  BY SizeAssumption DEF TypeInv, TypeOK, Collected, Node
<1>1. round = 2 => completed' = completed
  BY DEF Collected
<1>2. ASSUME round = 1, valid', NEW q \in A
      PROVE  completed'[q].src = q
  <2>1. valid /\ j # NullJob
    BY <1>0, <1>2 DEF Accepts
  <2>2. j \in Pointer
    BY <2>1 DEF Job
  <2>3. j.src \in Node /\ j.src # -1
    BY <2>2, SizeAssumption DEF Pointer, Node
  <2>4. completed' = [completed EXCEPT ![j.src] = j]
    BY <1>2, <2>1 DEF Collected
  <2>5. completed[q].src = q \/ j.src = q
    BY <1>2, <2>1, <2>3
  <2> QED
    BY <1>0, <2>3, <2>4, <2>5
<1>3. CASE mi < N - 1
  <2>1. mpc' = "collect" /\ round' = round /\ mi' = mi + 1
    BY <1>0, <1>3, NextIndex DEF Collected
  <2>2. \A q \in Node : Asked(q)'
    BY <2>1 DEF Asked
  <2>3. Answered' = A
    BY <2>2 DEF Answered
  <2>4. Balanced'
    <3>1. Cardinality(Answered)' = mi' + Len(replies')
      BY <1>0, <2>1, <2>3
    <3> QED
      BY <2>1, <2>2, <3>1 DEF Balanced
  <2>5. FirstRound'
    BY <1>2, <2>1, <2>3 DEF FirstRound
  <2>6. SecondRound'
    BY <1>1, <2>1 DEF SecondRound
  <2> QED
    BY <2>4, <2>5, <2>6
<1>4. CASE mi = N - 1
  <2>1. A = Node
    <3>1. IsFiniteSet(Node) /\ Cardinality(Node) = Cardinality(A) /\ A \subseteq Node
      BY <1>0, <1>4, AnsweredSet
    <3> QED
      BY <3>1, FS_Subset
  <2>2. mi' = 0
    BY <1>0, <1>4, NextIndex
  <2>3. \/ ~valid' /\ mpc' = "sleep" /\ round' = round
        \/ valid' /\ round = 1 /\ mpc' = "flush" /\ round' = 2
        \/ valid' /\ round = 2 /\ mpc' = "check" /\ round' = round
    BY <1>0, <1>4 DEF Collected
  <2>4. \A q \in Node : ~Asked(q)' /\ ~Outstanding(q)'
    <3>1. \A q \in Node : ~Asked(q)'
      BY <2>2, <2>3, SizeAssumption DEF Asked, Node
    <3> QED
      BY <2>1, <3>1
  <2>5. Answered' = {}
    BY <2>4 DEF Answered
  <2>6. Balanced'
    <3>1. Cardinality(Answered)' = 0
      BY <2>5, FS_EmptySet
    <3> QED
      BY <1>0, <2>3, <2>4, <3>1 DEF Balanced
  <2>7. FirstRound'
    BY <2>5 DEF FirstRound
  <2>8. SecondRound'
    BY <1>1, <1>2, <2>1, <2>3 DEF SecondRound
  <2> QED
    BY <2>6, <2>7, <2>8
<1> QED
  BY <1>0, <1>3, <1>4, SizeAssumption DEF Node

LEMMA StepRound ==
    ASSUME TypeInv, RoundInv, Effect
    PROVE  Balanced' /\ FirstRound' /\ SecondRound'
<1>0. /\ mi \in Node /\ mi \in Nat /\ N \in Nat /\ replies \in Seq(Job)
      /\ Node \subseteq Nat /\ Cardinality(Answered) \in Nat
      /\ \A r \in Node : ReplyOf(r) \in Job /\ ReplyOf(r).src \in {r, -1}
  <2>1. TypeOK /\ NullJob \in Job
    BY DEF TypeInv, Job
  <2>2. \A r \in Node : ReplyOf(r) \in Job /\ ReplyOf(r).src \in {r, -1}
    BY <2>1, JobsOfDrivers DEF ReplyOf, curr_state, NullJob
  <2>3. Cardinality(Answered) \in Nat
    BY AnsweredSet, FS_CardinalityType
  <2> QED
    BY <2>1, <2>2, <2>3, SizeAssumption DEF TypeOK, Node
<1>1. OneEach /\ Balanced /\ FirstRound /\ SecondRound
  BY DEF RoundInv
<1>2. CASE Elsewhere
  <2>1. UNCHANGED <<replies, mpc, round, mi, valid, completed>>
    BY <1>2 DEF Elsewhere, mainVars
  <2>2. \A q \in Node : (Asked(q)' <=> Asked(q)) /\ (Outstanding(q)' <=> Outstanding(q))
    BY <1>2, <2>1 DEF Elsewhere, AsBefore, Asked
  <2>3. Answered' = Answered
    BY <2>2 DEF Answered
  <2> QED
    BY <1>1, <2>1, <2>2, <2>3 DEF Balanced, FirstRound, SecondRound
<1>3. ASSUME NEW r \in Node, Asks(r)
      PROVE  Balanced' /\ FirstRound' /\ SecondRound'
  <2>1. /\ mpc = "flush" /\ mi = r /\ UNCHANGED <<replies, round, valid, completed>>
        /\ mpc' = IF mi = N - 1 THEN "collect" ELSE "flush"
        /\ mi' = (mi + 1) % N
    BY <1>3 DEF Asks, Flushed
  <2>2. \A q \in Node : (Asked(q) <=> q < r) /\ (Asked(q)' <=> q <= r)
    BY <1>3, AskingSet
  <2>3. Outstanding(r)' /\ \A q \in Node : q # r => (Outstanding(q)' <=> Outstanding(q))
    BY <1>3 DEF Asks, OnlyOf
  <2>4. \A q \in Node : q # r => (q <= r <=> q < r)
    BY <1>0
  <2>5. r <= r /\ ~(r < r)
    BY <1>0
  <2>6. Answered' = Answered
    BY <1>3, AskingSet
  <2>7. Balanced'
    <3>1. mpc' = "collect" => mi' = 0
      BY <1>0, <2>1, NextIndex
    <3>2. Cardinality(Answered)' = (IF mpc' = "collect" THEN mi' ELSE 0) + Len(replies')
      BY <1>1, <2>1, <2>6, <3>1 DEF Balanced
    <3>3. \A q \in Node : Outstanding(q)' => Asked(q)'
      BY <1>1, <2>2, <2>3, <2>4, <2>5 DEF Balanced
    <3> QED
      BY <3>2, <3>3 DEF Balanced
  <2>8. FirstRound' /\ SecondRound'
    BY <1>1, <2>1, <2>6 DEF FirstRound, SecondRound
  <2> QED
    BY <2>7, <2>8
<1>4. ASSUME NEW r \in Node, Outstanding(r), ~Outstanding(r)', OnlyOf(r)
      PROVE  LET A == Answered \cup {r} IN
             /\ Cardinality(A) = Cardinality(Answered) + 1
             /\ \A q \in Node : Asked(q) => (q \in A <=> ~Outstanding(q)')
             /\ Asked(r) /\ A \subseteq Node
  <2>1. r \notin Answered /\ IsFiniteSet(Answered)
    BY <1>4, AnsweredSet DEF Answered
  <2>2. Cardinality(Answered \cup {r}) = Cardinality(Answered) + 1
    BY <2>1, FS_AddElement
  <2> QED
    BY <1>1, <1>4, <2>2 DEF Balanced, OnlyOf, Answered
<1>5. ASSUME NEW r \in Node, Answers(r)
      PROVE  Balanced' /\ FirstRound' /\ SecondRound'
  <2> DEFINE A == Answered \cup {r}
  <2>1. /\ UNCHANGED <<mpc, round, mi, valid, completed>>
        /\ replies = <<>> /\ replies' = <<ReplyOf(r)>>
        /\ Outstanding(r) /\ ~Outstanding(r)' /\ OnlyOf(r)
    BY <1>5 DEF Answers, mainVars
  <2>2. /\ Cardinality(A) = Cardinality(Answered) + 1
        /\ \A q \in Node : Asked(q) => (q \in A <=> ~Outstanding(q)')
        /\ Asked(r) /\ A \subseteq Node
    BY <1>4, <2>1
  <2>3. \A q \in Node : Asked(q)' <=> Asked(q)
    BY <2>1 DEF Asked
  <2>4. Answered' = A
    BY <2>2, <2>3 DEF Answered
  <2>5. Len(replies) = 0 /\ Len(replies') = 1 /\ Head(replies') = ReplyOf(r)
        /\ replies' # <<>>
    BY <2>1
  <2>6. Balanced'
    <3>1. Cardinality(Answered)' = (IF mpc' = "collect" THEN mi' ELSE 0) + Len(replies')
      BY <1>0, <1>1, <2>1, <2>2, <2>4, <2>5 DEF Balanced
    <3>2. \A q \in Node : Outstanding(q)' => Asked(q)'
      BY <1>1, <2>1, <2>3 DEF Balanced, OnlyOf
    <3> QED
      BY <3>1, <3>2 DEF Balanced
  <2>7. FirstRound'
    <3>1. round = 1 /\ valid => \A q \in Answered : completed[q].src = q
      BY <1>1, <2>1 DEF FirstRound
    <3>2. Head(replies').src \in {r, -1}
      BY <1>0, <2>5
    <3> QED
      BY <2>1, <2>4, <2>5, <3>1, <3>2 DEF FirstRound
  <2>8. SecondRound'
    BY <1>1, <2>1 DEF SecondRound
  <2> QED
    BY <2>6, <2>7, <2>8
<1>6. ASSUME NEW r \in Node, Meets(r)
      PROVE  Balanced' /\ FirstRound' /\ SecondRound'
  <2> DEFINE A == Answered \cup {r}
             j == ReplyOf(r)
  <2>1. /\ mpc = "collect" /\ replies = <<>> /\ replies' = <<>> /\ Collected(j)
        /\ Outstanding(r) /\ ~Outstanding(r)' /\ OnlyOf(r) /\ j \in Job /\ j.src \in {r, -1}
    BY <1>0, <1>6 DEF Meets
  <2>2. /\ Cardinality(A) = Cardinality(Answered) + 1
        /\ \A q \in Node : Asked(q) => (q \in A <=> ~Outstanding(q)')
        /\ Asked(r) /\ A \subseteq Node
    BY <1>4, <2>1
  <2>3. A = {q \in Node : ~Outstanding(q)'}
    BY <2>1, <2>2 DEF Asked
  <2>4. Cardinality(A) = mi + 1
    BY <1>0, <1>1, <2>1, <2>2 DEF Balanced
  <2>5. round = 1 /\ valid => \A q \in A : completed[q].src = q \/ j.src \in {q, -1}
    BY <1>1, <2>1 DEF FirstRound
  <2> HIDE DEF A, j
  <2> QED
    BY <1>1, <2>1, <2>3, <2>4, <2>5, Collecting
<1>7. ASSUME Takes
      PROVE  Balanced' /\ FirstRound' /\ SecondRound'
  <2> DEFINE A == Answered
             j == Head(replies)
  <2>1. /\ mpc = "collect" /\ Len(replies) = 1 /\ replies' = <<>> /\ Collected(j)
        /\ \A q \in Node : Outstanding(q)' <=> Outstanding(q)
    BY <1>7 DEF Takes, AsBefore
  <2>2. j \in Job
    BY <1>0, <2>1, HeadTailProperties, EmptySeq
  <2>3. A = {q \in Node : ~Outstanding(q)'}
    BY <2>1 DEF Asked, Answered
  <2>4. Cardinality(A) = mi + 1
    BY <1>0, <1>1, <2>1 DEF Balanced
  <2>5. round = 1 /\ valid => \A q \in A : completed[q].src = q \/ j.src \in {q, -1}
    BY <1>1, <2>1 DEF FirstRound
  <2> HIDE DEF A, j
  <2> QED
    BY <1>1, <2>1, <2>2, <2>3, <2>4, <2>5, Collecting
<1>8. ASSUME Rests
      PROVE  Balanced' /\ FirstRound' /\ SecondRound'
  <2>1. /\ \/ mpc = "sleep" /\ mpc' = "flush" /\ mi' = 0 /\ round' = 1
           \/ mpc = "check" /\ mpc' = "join" /\ UNCHANGED <<round, completed>>
           \/ mpc = "join" /\ mpc' \in {"join", "done"} /\ UNCHANGED <<round, completed>>
        /\ replies' = replies
        /\ \A q \in Node : Outstanding(q)' <=> Outstanding(q)
    BY <1>8 DEF Rests, AsBefore, Sleep, Close, Join
  <2>2. \A q \in Node : ~Asked(q) /\ ~Asked(q)'
    BY <1>0, <2>1 DEF Asked
  <2>3. Answered = {} /\ Answered' = {}
    BY <2>2 DEF Answered
  <2>4. Cardinality(Answered) = 0 /\ Cardinality(Answered)' = 0
    BY <2>3, FS_EmptySet
  <2>5. Len(replies) = 0
    BY <1>0, <1>1, <2>1, <2>4, LenProperties DEF Balanced
  <2>6. Balanced'
    <3>1. mpc' # "collect" /\ Len(replies') = 0
      BY <2>1, <2>5
    <3>2. \A q \in Node : ~Outstanding(q)'
      BY <1>1, <2>1, <2>2 DEF Balanced
    <3> QED
      BY <2>4, <3>1, <3>2 DEF Balanced
  <2>7. FirstRound' /\ SecondRound'
    BY <1>1, <2>1, <2>3 DEF FirstRound, SecondRound
  <2> QED
    BY <2>6, <2>7
<1> QED
  BY <1>2, <1>3, <1>5, <1>6, <1>7, <1>8 DEF Effect

LEMMA InitRound == Init => RoundInv
<1> SUFFICES ASSUME Init PROVE RoundInv
  OBVIOUS
<1>1. /\ mpc = "flush" /\ mi = 0 /\ round = 1 /\ replies = <<>> /\ Len(replies) = 0
      /\ \A r \in Node : queue[r] = <<>> /\ Len(queue[r]) = 0 /\ pc[r] = "select"
  BY DEF Init, InitMain, InitRouter
<1>2. \A r \in Node : ~Outstanding(r) /\ ~Asked(r)
  BY <1>1, SizeAssumption DEF Outstanding, Waits, Asked, Node
<1>3. Answered = {}
  BY <1>2 DEF Answered
<1>4. Cardinality(Answered) = 0
  BY <1>3, FS_EmptySet
<1> QED
  BY <1>1, <1>2, <1>3, <1>4 DEF RoundInv, OneEach, Balanced, FirstRound, SecondRound

\* In every round every router answers exactly once: when the second round
\* starts, and when check_done reads completed[], all of it was filled in the
\* first round.
THEOREM RoundsComplete == Spec => []RepliesComplete
<1>1. TypeInv /\ RoundInv /\ [Next]_vars => RoundInv'
  BY StepEffect, StepRound DEF RoundInv
<1>2. RoundInv => RepliesComplete
  BY DEF RoundInv, SecondRound, RepliesComplete
<1> QED
  BY <1>1, <1>2, InitTypes, StepTypes, InitRound, PTL DEF Spec

---------------------------------------------------------------------------
(* Nobody waits in a circle *)

\* A router leaves its loop only when done_driver is closed, and main closes it
\* when it has nothing left to ask.  Unqueued drivers hold no jobs.
ShutInv ==
    /\ doneClosed <=> mpc \in {"join", "done"}
    /\ \A r \in Node : pc[r] = "exited" => doneClosed
    /\ BufferSize = 0 => \A r \in Node : queue[r] = <<>>

LEMMA InitShut == Init => ShutInv
<1> SUFFICES ASSUME Init PROVE ShutInv
  OBVIOUS
<1>1. ~doneClosed /\ mpc = "flush" /\ \A r \in Node : pc[r] = "select" /\ queue[r] = <<>>
  BY DEF Init, InitMain, InitRouter
<1> QED
  BY <1>1 DEF ShutInv

LEMMA StepShut ==
    ASSUME TypeInv, ShutInv, [Next]_vars
    PROVE  ShutInv'
<1>0. /\ pc \in [Node -> {"select", "update", "cycle", "copy", "reply", "exited"}]
      /\ mi \in Node
      /\ \A r \in Node : \A n \in Neighbours(r) : n \in Node
  BY DEF TypeInv, TypeOK, Neighbours
<1>1. ASSUME NEW r \in Node,
             \/ SelectOwn(r) \/ Update(r) \/ Cycle(r) \/ Copy(r) \/ Reply(r)
             \/ \E n \in Neighbours(r) : SelectSend(r, n)
      PROVE  ShutInv'
  <2>1. /\ UNCHANGED <<doneClosed, mpc>>
        /\ \/ UNCHANGED queue
           \/ BufferSize = 1
        /\ \E p \in {"select", "update", "cycle", "copy", "reply"} :
              pc' = [pc EXCEPT ![r] = p]
    <3>1. CASE SelectOwn(r)
      BY <3>1 DEF SelectOwn, mainVars, AfterHandle
    <3>2. CASE Update(r)
      BY <3>2 DEF Update, mainVars, AfterEvent
    <3>3. CASE Cycle(r) \/ Copy(r)
      BY <3>3 DEF Cycle, Copy, mainVars
    <3>4. CASE Reply(r)
      BY <3>4 DEF Reply, mainVars, AfterEvent
    <3>5. CASE \E n \in Neighbours(r) : SelectSend(r, n)
      BY <3>5 DEF SelectSend, mainVars, AfterEvent
    <3> QED
      BY <1>1, <3>1, <3>2, <3>3, <3>4, <3>5
  <2> QED
    BY <1>0, <2>1 DEF ShutInv
<1>2. ASSUME NEW r \in Node, NEW n \in Neighbours(r), SelectMeet(r, n)
      PROVE  ShutInv'
  <2>1. /\ UNCHANGED <<doneClosed, mpc, queue>>
        /\ \E p, q \in {"select", "update", "cycle", "reply"} :
              pc' = [pc EXCEPT ![r] = p, ![n] = q]
    BY <1>2 DEF SelectMeet, mainVars, AfterEvent, AfterHandle
  <2> QED
    BY <1>0, <2>1 DEF ShutInv
<1>3. ASSUME NEW r \in Node, SelectClosed(r)
      PROVE  ShutInv'
  BY <1>0, <1>3 DEF SelectClosed, mainVars, ShutInv
<1>4. ASSUME NEW r \in Node, CollectMeet(r)
      PROVE  ShutInv'
  <2>1. /\ mpc = "collect" /\ mpc' \in {"collect", "sleep", "flush", "check"}
        /\ UNCHANGED <<doneClosed, queue>>
        /\ \E p \in {"select", "cycle"} : pc' = [pc EXCEPT ![r] = p]
    BY <1>4 DEF CollectMeet, Collected, AfterEvent
  <2> QED
    BY <1>0, <2>1 DEF ShutInv
<1>5. ASSUME Flush \/ Collect
      PROVE  ShutInv'
  <2>1. /\ mpc \in {"flush", "collect"} /\ mpc' \in {"collect", "sleep", "flush", "check"}
        /\ UNCHANGED <<doneClosed, pc>> /\ BufferSize = 1
    BY <1>5 DEF Flush, Flushed, Collect, Collected, routerVars
  <2> QED
    BY <2>1 DEF ShutInv
<1>6. ASSUME NEW m \in Node, m = mi, FlushMeet
      PROVE  ShutInv'
  <2>1. /\ mpc = "flush" /\ mpc' \in {"flush", "collect"}
        /\ UNCHANGED <<doneClosed, queue>>
        /\ pc' = [pc EXCEPT ![m] = "reply"]
    BY <1>6 DEF FlushMeet, Flushed, AfterHandle
  <2> QED
    BY <1>0, <2>1 DEF ShutInv
<1>7. ASSUME Sleep \/ Close \/ Join
      PROVE  ShutInv'
  BY <1>7 DEF Sleep, Close, Join, routerVars, ShutInv
<1>8. CASE Done \/ UNCHANGED vars
  BY <1>8 DEF Done, vars, routerVars, mainVars, ShutInv
<1> QED
  BY <1>0, <1>1, <1>2, <1>3, <1>4, <1>5, <1>6, <1>7, <1>8 DEF Next, Router, Send, Main

\* A router that has nothing outstanding and has not left is where no other
\* thread is needed, or in its select.
LEMMA GoesOn ==
    ASSUME TypeInv, ShutInv, NEW r \in Node, pc[r] # "reply", ~doneClosed
    PROVE  pc[r] = "select" \/ CanGoOn(r)
<1>1. pc[r] \in {"select", "update", "cycle", "copy", "reply", "exited"}
  BY DEF TypeInv, TypeOK
<1> QED
  BY <1>1 DEF ShutInv, CanGoOn

\* check_done and the shutdown never wait in a circle with the routers, for
\* every number of them, both kinds of driver and every order of selection.
\* When main asks r, r has nothing outstanding, hence is not at completed_driver;
\* when main collects and finds nothing, the count says that a router still
\* owes an answer; and at the end nobody does.
THEOREM NeverInACircle == Spec => []NoCircularWait
<1>1. TypeInv /\ RoundInv /\ ShutInv => NoCircularWait
  <2> SUFFICES ASSUME TypeInv, RoundInv, ShutInv
               PROVE  NoCircularWait
    OBVIOUS
  <2>0. /\ mi \in Node /\ mi \in Nat /\ N \in Nat /\ mi < N
        /\ BufferSize \in {0, 1} /\ OneEach /\ Balanced
    BY SizeAssumption DEF TypeInv, TypeOK, RoundInv, Node
  <2>1. ASSUME mpc = "flush"
        PROVE  \/ IF BufferSize = 1 THEN queue[mi] = <<>> ELSE pc[mi] = "select"
               \/ CanGoOn(mi)
    <3>1. pc[mi] # "reply"
      BY <2>0, <2>1 DEF Balanced, Asked, Outstanding
    <3>2. ~doneClosed
      BY <2>1 DEF ShutInv
    <3>3. CASE pc[mi] = "select"
      BY <2>0, <3>3 DEF CanGoOn
    <3> QED
      BY <2>0, <3>1, <3>2, <3>3, GoesOn
  <2>2. ASSUME mpc = "collect", replies = <<>>
        PROVE  \E r \in Node : /\ Outstanding(r)
                               /\ (BufferSize = 0 /\ pc[r] = "reply") \/ CanGoOn(r)
    <3>1. PICK r \in Node : Outstanding(r)
      <4> SUFFICES ASSUME \A r \in Node : ~Outstanding(r)
                   PROVE  FALSE
        OBVIOUS
      <4>1. Answered = Node
        BY <2>2 DEF Answered, Asked
      <4>2. Cardinality(Answered) = mi
        BY <2>0, <2>2 DEF Balanced
      <4> QED
        BY <2>0, <4>1, <4>2, AnsweredSet
    <3>2. CASE pc[r] = "reply"
      BY <2>0, <2>2, <3>1, <3>2 DEF CanGoOn
    <3>3. CASE pc[r] # "reply"
      <4>1. queue[r] # <<>>
        BY <3>1, <3>3 DEF Outstanding, Waits
      <4>2. ~doneClosed
        BY <2>2 DEF ShutInv
      <4>3. CanGoOn(r)
        BY <3>3, <4>1, <4>2, GoesOn DEF CanGoOn
      <4> QED
        BY <3>1, <4>3
    <3> QED
      BY <3>2, <3>3
  <2>3. ASSUME mpc = "join"
        PROVE  pc[mi] = "exited" \/ CanGoOn(mi)
    <3>1. pc[mi] # "reply"
      BY <2>0, <2>3 DEF Balanced, Asked, Outstanding
    <3>2. doneClosed
      BY <2>3 DEF ShutInv
    <3>3. pc[mi] \in {"select", "update", "cycle", "copy", "reply", "exited"}
      BY <2>0 DEF TypeInv, TypeOK
    <3> QED
      BY <3>1, <3>2, <3>3 DEF CanGoOn
  <2> QED
    BY <2>1, <2>2, <2>3 DEF NoCircularWait
<1>2. TypeInv /\ RoundInv /\ [Next]_vars => RoundInv'
  BY StepEffect, StepRound DEF RoundInv
<1>3. TypeInv /\ ShutInv /\ [Next]_vars => ShutInv'
  BY StepShut
<1> QED
  BY <1>1, <1>2, <1>3, InitTypes, StepTypes, InitRound, InitShut, PTL DEF Spec

---------------------------------------------------------------------------
(* Unqueued drivers                                                        *)
(*                                                                         *)
(* An unqueued completed_driver holds a router in its answer until main    *)
(* collects, and main collects only after it has asked everyone.  So when  *)
(* the last router is asked all of them stand still, and the answers are   *)
(* of one moment.  If none of them is NULL nobody has anything to send,    *)
(* and the routers that main has released stay at rest (UnqueuedInv).  The *)
(* second round finds what the first one found.                            *)
(*                                                                         *)
(* With a buffer of 1 an answer may be given as soon as there is room, and *)
(* this argument, as well as its conclusion, fails; the next section says  *)
(* what is left of it.                                                     *)

\* r has sent its state to everyone and knows no better one.
Settled(r) ==
    /\ pc[r] \in {"select", "reply", "exited"}
    /\ select_count[r] = 2
    /\ ~driverged[r]

\* Main has r's current state, and it is final.
Final(r) == Settled(r) /\ completed[r] = curr_state(r)

UnqueuedInv ==
    /\ \A r \in Node : queue[r] = <<>>
    /\ mpc = "flush" => \A r \in Node : r < mi => pc[r] = "reply"
    /\ mpc = "collect" /\ round = 1 /\ valid =>
          \A r \in Node : pc[r] = "reply" \/ Final(r)
    /\ round = 2 => \A r \in Node : Final(r)
    /\ mpc \in {"join", "done"} => round = 2

LEMMA InitUnqueued == Init => UnqueuedInv
<1> SUFFICES ASSUME Init PROVE UnqueuedInv
  OBVIOUS
<1>1. /\ mpc = "flush" /\ mi = 0 /\ round = 1
      /\ \A r \in Node : queue[r] = <<>>
  BY DEF Init, InitMain
<1> QED
  BY <1>1, SizeAssumption DEF UnqueuedInv, Node

\* A router that has nothing to send does not send.
LEMMA SettledSilent ==
    ASSUME TypeInv, ListInv, NEW r \in Node, Settled(r)
    PROVE  \A n \in Neighbours(r) : ~Pending(r, n)
BY DEF TypeInv, TypeOK, ListInv, Settled, Pending

\* The steps of the routers among themselves.
LEMMA RouterUnqueued ==
    ASSUME BufferSize = 0, TypeInv, ListInv, UnqueuedInv, NEW r \in Node,
           Send(r) \/ SelectClosed(r) \/ Update(r) \/ Cycle(r) \/ Copy(r)
    PROVE  UnqueuedInv'
<1>0. /\ pc \in [Node -> {"select", "update", "cycle", "copy", "reply", "exited"}]
      /\ UNCHANGED <<queue, mpc, round, mi, valid, completed>>
  BY DEF TypeInv, TypeOK, Send, SelectSend, SelectMeet, SelectClosed, Update, Cycle, Copy,
         mainVars
<1>1. \A q \in Node : pc[q] = "reply" => pc'[q] = "reply"
  <2>1. CASE Send(r)
    <3>1. PICK n \in Neighbours(r) : SelectMeet(r, n)
      BY <2>1 DEF Send, SelectSend
    <3>2. n \in Node
      BY DEF Neighbours
    <3> QED
      BY <1>0, <3>1, <3>2 DEF SelectMeet
  <2>2. CASE SelectClosed(r) \/ Update(r) \/ Cycle(r) \/ Copy(r)
    BY <1>0, <2>2 DEF SelectClosed, Update, Cycle, Copy
  <2> QED
    BY <2>1, <2>2
<1>2. ASSUME \A q \in Node : pc[q] = "reply" \/ Final(q)
      PROVE  /\ \A q \in Node : Final(q) => Final(q)'
  <2>1. Settled(r) \/ pc[r] = "reply"
    BY <1>2 DEF Final
  <2>2. SelectClosed(r)
    <3>1. ~Send(r)
      BY <2>1, SettledSilent DEF Send, SelectSend, SelectMeet
    <3>2. ~Update(r) /\ ~Cycle(r) /\ ~Copy(r)
      BY <2>1 DEF Settled, Update, Cycle, Copy
    <3> QED
      BY <3>1, <3>2
  <2>3. /\ UNCHANGED <<select_count, driverged, curr>>
        /\ \A q \in Node : pc'[q] = pc[q] \/ pc'[q] = "exited"
    BY <1>0, <2>2 DEF SelectClosed
  <2> QED
    BY <1>0, <2>3 DEF Final, Settled, curr_state
<1>3. /\ \A q \in Node : queue'[q] = <<>>
      /\ mpc' = "flush" => \A q \in Node : q < mi' => pc'[q] = "reply"
      /\ mpc' \in {"join", "done"} => round' = 2
  BY <1>0, <1>1 DEF UnqueuedInv
<1>4. ASSUME mpc' = "collect" /\ round' = 1 /\ valid', NEW q \in Node
      PROVE  pc'[q] = "reply" \/ Final(q)'
  BY <1>0, <1>1, <1>2, <1>4 DEF UnqueuedInv
<1>5. ASSUME round' = 2, NEW q \in Node
      PROVE  Final(q)'
  BY <1>0, <1>2, <1>5 DEF UnqueuedInv
<1> QED
  BY <1>3, <1>4, <1>5 DEF UnqueuedInv

\* Main takes the answer of r, which has been standing still in it.
LEMMA CollectUnqueued ==
    ASSUME BufferSize = 0, TypeInv, RoundInv', UnqueuedInv, NEW r \in Node, CollectMeet(r)
    PROVE  UnqueuedInv'
<1>0. /\ pc \in [Node -> {"select", "update", "cycle", "copy", "reply", "exited"}]
      /\ completed \in [Node -> Job] /\ mi \in Node /\ round \in {1, 2}
      /\ mpc = "collect" /\ pc[r] = "reply" /\ Collected(ReplyOf(r))
      /\ pc'[r] = AfterEvent(select_count[r], driverged[r])
      /\ \A q \in Node : q # r => pc'[q] = pc[q]
      /\ UNCHANGED <<queue, select_count, driverged, curr>>
  BY DEF TypeInv, TypeOK, CollectMeet
<1>1. \A q \in Node : Settled(q) => Settled(q)'
  BY <1>0 DEF Settled, AfterEvent
<1>2. ASSUME NEW q \in Node, Final(q), completed'[q] = completed[q]
      PROVE  Final(q)'
  <2>1. curr_state(q)' = curr_state(q)
    BY <1>0 DEF curr_state
  <2> QED
    BY <1>1, <1>2, <2>1 DEF Final
<1>3. ASSUME round = 1, valid'
      PROVE  /\ Final(r)'
             /\ \A q \in Node : q # r => completed'[q] = completed[q]
  <2>1. valid /\ ReplyOf(r) # NullJob
    BY <1>0, <1>3 DEF Collected, Accepts
  <2>2. select_count[r] = 2 /\ ~driverged[r] /\ ReplyOf(r) = curr_state(r)
    BY <2>1 DEF ReplyOf
  <2>3. completed' = [completed EXCEPT ![r] = curr_state(r)]
    <3>1. curr_state(r).src = r
      BY DEF curr_state
    <3> QED
      BY <1>0, <1>3, <2>1, <2>2, <3>1 DEF Collected
  <2>4. curr_state(r)' = curr_state(r) /\ completed'[r] = curr_state(r)
    BY <1>0, <2>3 DEF curr_state
  <2>5. Settled(r)'
    BY <1>0, <2>2 DEF Settled, AfterEvent
  <2> QED
    BY <1>0, <2>3, <2>4, <2>5 DEF Final
<1>4. /\ \A q \in Node : queue'[q] = <<>>
      /\ mpc' = "flush" => mi' = 0
      /\ mpc' \notin {"join", "done"}
  <2>1. \A q \in Node : queue'[q] = <<>>
    BY <1>0 DEF UnqueuedInv
  <2>2. mpc' \in {"collect", "sleep", "flush", "check"}
    BY <1>0 DEF Collected
  <2>3. mpc' = "flush" => mi' = 0
    <3>1. mi < N - 1 \/ mi = N - 1
      BY <1>0, SizeAssumption DEF Node
    <3>2. mi < N - 1 => mpc' = "collect"
      BY <1>0 DEF Collected
    <3>3. mi = N - 1 => mi' = 0
      BY <1>0, NextIndex DEF Collected
    <3> QED
      BY <3>1, <3>2, <3>3
  <2> QED
    BY <2>1, <2>2, <2>3
<1>5. mpc' = "flush" => \A q \in Node : q < mi' => pc'[q] = "reply"
  BY <1>4, SizeAssumption DEF Node
<1>6. ASSUME mpc' = "collect", round' = 1, valid', NEW q \in Node
      PROVE  pc'[q] = "reply" \/ Final(q)'
  <2>1. round = 1 /\ valid
    BY <1>0, <1>6 DEF Collected
  <2>2. pc[q] = "reply" \/ Final(q)
    BY <1>0, <2>1 DEF UnqueuedInv
  <2> QED
    BY <1>0, <1>2, <1>3, <1>6, <2>1, <2>2
<1>7. ASSUME round' = 2, NEW q \in Node
      PROVE  Final(q)'
  <2>1. CASE round = 2
    <3>1. completed' = completed
      BY <1>0, <2>1 DEF Collected
    <3> QED
      BY <1>2, <2>1, <3>1 DEF UnqueuedInv
  <2>2. CASE round = 1
    <3>1. valid' /\ valid /\ mpc' = "flush"
      <4>1. /\ valid' = (valid /\ Accepts(ReplyOf(r)))
            /\ IF mi < N - 1 THEN UNCHANGED <<mpc, round>>
               ELSE IF ~valid' THEN mpc' = "sleep" /\ UNCHANGED round
               ELSE IF round = 1 THEN mpc' = "flush" /\ round' = 2
               ELSE mpc' = "check" /\ UNCHANGED round
        BY <1>0 DEF Collected
      <4>2. round' # round
        BY <1>7, <2>2
      <4>3. ~(mi < N - 1) /\ valid'
        BY <4>1, <4>2
      <4>4. mpc' = "flush"
        BY <2>2, <4>1, <4>3
      <4> QED
        BY <4>1, <4>3, <4>4
    <3>2. ~Asked(q)'
      BY <1>4, <3>1, SizeAssumption DEF Asked, Node
    <3>3. pc'[q] # "reply"
      BY <3>2 DEF RoundInv, Balanced, Outstanding
    <3>4. pc[q] = "reply" \/ Final(q)
      BY <1>0, <2>2, <3>1 DEF UnqueuedInv
    <3> QED
      BY <1>0, <1>2, <1>3, <2>2, <3>1, <3>3, <3>4
  <2> QED
    BY <1>0, <2>1, <2>2
<1> QED
  BY <1>4, <1>5, <1>6, <1>7 DEF UnqueuedInv

LEMMA StepUnqueued ==
    BufferSize = 0 /\ TypeInv /\ ListInv /\ RoundInv /\ RoundInv' /\ UnqueuedInv /\ [Next]_vars
        => UnqueuedInv'
<1> SUFFICES ASSUME BufferSize = 0, TypeInv, ListInv, RoundInv, RoundInv', UnqueuedInv,
                    [Next]_vars
             PROVE  UnqueuedInv'
  OBVIOUS
<1>0. /\ pc \in [Node -> {"select", "update", "cycle", "copy", "reply", "exited"}]
      /\ mi \in Node /\ N \in Nat
  BY SizeAssumption DEF TypeInv, TypeOK
<1>1. CASE FlushMeet
  <2>1. /\ mpc = "flush" /\ pc'[mi] = "reply" /\ pc[mi] = "select"
        /\ \A q \in Node : q # mi => pc'[q] = pc[q]
        /\ UNCHANGED <<queue, select_count, driverged, curr, round, valid, completed>>
        /\ mpc' = IF mi = N - 1 THEN "collect" ELSE "flush"
        /\ mi' = (mi + 1) % N
    BY <1>0, <1>1 DEF FlushMeet, Flushed, AfterHandle
  <2>2. \A q \in Node : q <= mi => pc'[q] = "reply"
    <3>1. \A q \in Node : q < mi => pc[q] = "reply"
      BY <2>1 DEF UnqueuedInv
    <3>2. \A q \in Node : q <= mi => q < mi \/ q = mi
      BY <1>0, SizeAssumption DEF Node
    <3> QED
      BY <2>1, <3>1, <3>2
  <2>3. mpc' = "flush" => \A q \in Node : q < mi' => pc'[q] = "reply"
    <3>1. mpc' = "flush" => mi' = mi + 1
      <4>1. mi # N - 1 => mi < N - 1
        BY <1>0, SizeAssumption DEF Node
      <4> QED
        BY <1>0, <2>1, <4>1, NextIndex
    <3>2. \A q \in Node : q < mi + 1 => q <= mi
      BY <1>0, SizeAssumption DEF Node
    <3> QED
      BY <2>2, <3>1, <3>2
  <2>4. mpc' = "collect" => \A q \in Node : pc'[q] = "reply"
    <3>1. mi = N - 1 => \A q \in Node : q <= mi
      BY SizeAssumption DEF Node
    <3> QED
      BY <2>1, <2>2, <3>1
  <2>5. \A q \in Node : Final(q) => Final(q)'
    BY <1>0, <2>1 DEF Final, Settled, curr_state
  <2> QED
    BY <2>1, <2>3, <2>4, <2>5 DEF UnqueuedInv
<1>2. CASE Sleep \/ Close \/ Join \/ Done \/ UNCHANGED vars
  <2>1. UNCHANGED <<pc, select_count, driverged, curr, queue>>
    BY <1>2 DEF Sleep, Close, Join, Done, vars, routerVars
  <2>2. CASE Sleep
    BY <1>0, <2>1, <2>2, SizeAssumption DEF Sleep, UnqueuedInv, Node
  <2>3. CASE Close \/ Join \/ Done \/ UNCHANGED vars
    <3>1. UNCHANGED <<round, completed>>
      BY <2>3 DEF Close, Join, Done, vars, mainVars
    <3>2. /\ mpc' \in {"flush", "collect"} => UNCHANGED <<mpc, mi, valid>>
          /\ mpc' \in {"join", "done"} => mpc \in {"check", "join", "done"}
      BY <2>3 DEF Close, Join, Done, vars, mainVars
    <3>3. \A q \in Node : Final(q)' <=> Final(q)
      BY <2>1, <3>1 DEF Final, Settled, curr_state
    <3>4. mpc = "check" => round = 2
      BY DEF RoundInv, SecondRound
    <3> QED
      BY <2>1, <3>1, <3>2, <3>3, <3>4 DEF UnqueuedInv
  <2> QED
    BY <1>2, <2>2, <2>3
<1>3. ~Flush /\ ~Collect /\ \A r \in Node : ~SelectOwn(r) /\ ~Reply(r)
  BY DEF Flush, Collect, SelectOwn, Reply
<1> QED
  BY <1>1, <1>2, <1>3, RouterUnqueued, CollectUnqueued DEF Next, Router, Main

\* In an unqueued system that has passed check_done everything is at rest.
LEMMA CheckedQuiet ==
    ASSUME UnqueuedInv, RoundInv, mpc \in {"check", "join", "done"}
    PROVE  \A r \in Node : Quiet(r) /\ completed[r] = curr_state(r)
<1>1. round = 2
  BY DEF UnqueuedInv, RoundInv, SecondRound
<1>2. \A r \in Node : ~Asked(r)
  BY DEF Asked
<1>3. \A r \in Node : pc[r] # "reply"
  BY <1>2 DEF RoundInv, Balanced, Outstanding
<1> QED
  BY <1>1, <1>3 DEF UnqueuedInv, Final, Settled, Quiet

\* With unqueued drivers main closes done_driver only when every router waits
\* in its select with nothing left to read, to send or to announce.
THEOREM ClosedUnqueued == BufferSize = 0 => (Spec => []ClosedWhenQuiet)
<1> SUFFICES ASSUME BufferSize = 0 PROVE Spec => []ClosedWhenQuiet
  OBVIOUS
<1>1. UnqueuedInv /\ RoundInv => ClosedWhenQuiet
  BY CheckedQuiet DEF ClosedWhenQuiet
<1>2. TypeInv /\ RoundInv /\ [Next]_vars => RoundInv'
  BY StepEffect, StepRound DEF RoundInv
<1>3. TypeInv /\ ListInv /\ RoundInv /\ RoundInv' /\ UnqueuedInv /\ [Next]_vars => UnqueuedInv'
  BY StepUnqueued
<1> QED
  BY <1>1, <1>2, <1>3, InitTypes, StepTypes, InitList, StepList, InitRound, InitUnqueued,
     PTL DEF Spec

\* With unqueued drivers the assertions of check_done hold: what it accepts is
\* the solution.
THEOREM AgreementUnqueued ==
    BufferSize = 0 /\ SolutionIsShortest => (Spec => []Agreement)
<1> SUFFICES ASSUME BufferSize = 0, SolutionIsShortest PROVE Spec => []Agreement
  OBVIOUS
<1>1. TypeInv /\ UnqueuedInv /\ RoundInv /\ QuietMeansSolved => Agreement
  <2> SUFFICES ASSUME TypeInv, UnqueuedInv, RoundInv, QuietMeansSolved, mpc = "check",
                      NEW r \in Node
               PROVE  completed[r] \in Pointer /\ Deref(completed[r]).dist = solution[r]
    BY DEF Agreement
  <2>1. \A q \in Node : Quiet(q) /\ completed[q] = curr_state(q)
    BY CheckedQuiet
  <2>2. curr_state(r) \in Pointer
    BY DEF curr_state, Pointer, TypeInv, TypeOK
  <2> QED
    BY <2>1, <2>2 DEF QuietMeansSolved
<1>2. TypeInv /\ RoundInv /\ [Next]_vars => RoundInv'
  BY StepEffect, StepRound DEF RoundInv
<1>3. TypeInv /\ ListInv /\ RoundInv /\ RoundInv' /\ UnqueuedInv /\ [Next]_vars => UnqueuedInv'
  BY StepUnqueued
<1>4. Spec => []QuietMeansSolved
  BY QuietSolved
<1> QED
  BY <1>1, <1>2, <1>3, <1>4, InitTypes, StepTypes, InitList, StepList, InitRound,
     InitUnqueued, PTL DEF Spec

---------------------------------------------------------------------------
(* check_done with any driver: right, unless a router was lapped           *)
(*                                                                         *)
(* Main keeps a pointer from the first round and compares epochs in the    *)
(* second one.  Each slot of a router holds every third epoch (SlotsInv),  *)
(* so that two equal epochs behind two pointers are two equal pointers,    *)
(* and the epochs the router was in are the same modulo 3, whatever the    *)
(* slots hold by now.  If they are all the same epochs, nobody had a new   *)
(* state to send from the first answer to the second; so since all have    *)
(* answered once nobody sends, and whoever has answered twice stays at     *)
(* rest (RestInv).                                                         *)

\* The pointer to r's state of epoch e
At(r, e) == [src |-> r, slot |-> e % 3]

\* No answer so far invalidates the round.
Alive == valid /\ (replies # <<>> => Head(replies) # NullJob)

\* r's answer is still in completed_driver.
OnItsWay(r) == replies # <<>> /\ Head(replies).src = r

\* r has answered in this round.
Served(r) == r \in Answered \/ mpc \in {"check", "join", "done"}

\* r has, or had, a better state than the one it gave as its first answer.
Spoiled(r) == driverged[r] \/ answered[1][r] < Epoch(r)

\* What remains of a first answer that was not NULL
Kept(r) ==
    /\ answered[1][r] <= Epoch(r)
    /\ Spoiled(r) \/ select_count[r] = 2

\* Both answers were the same pointer.
SameSlot(r) == answered[1][r] % 3 = answered[2][r] % 3

AnsweredOK == answered \in [1 .. 2 -> [Node -> Nat]]

SlotsInv == \A r \in Node : \A s \in Slot : buf[r][s].epoch % 3 = s

CheckedInv == mpc \in {"check", "join", "done"} => valid /\ round = 2

TakenInv ==
    Alive /\ replies # <<>> =>
        \E r \in Answered : Head(replies) = At(r, answered[round][r])

FirstInv ==
    round = 1 /\ Alive =>
        \A r \in Answered : Kept(r) /\ (OnItsWay(r) \/ completed[r] = At(r, answered[1][r]))

KeptInv ==
    round = 2 => \A r \in Node : Kept(r) /\ completed[r] = At(r, answered[1][r])

SecondInv ==
    round = 2 /\ Alive =>
        \A r \in Node : Served(r) =>
            answered[1][r] <= answered[2][r] /\ (OnItsWay(r) \/ SameSlot(r))

\* The second round confirms the first one, as far as it has come.
Unchanged ==
    /\ round = 2 /\ Alive
    /\ \A r \in Node : IF Served(r) THEN answered[2][r] = answered[1][r] ELSE ~Spoiled(r)

RestInv ==
    Unchanged =>
        \A r \in Node : /\ Served(r) => Quiet(r) /\ Epoch(r) = answered[1][r]
                        /\ pc[r] = "reply" => queue[r] = <<>>

AnswersInv ==
    /\ AnsweredOK /\ SlotsInv /\ CheckedInv /\ TakenInv
    /\ FirstInv /\ KeptInv /\ SecondInv /\ RestInv

LEMMA InitAnswers == AnswersInit => AnswersInv
<1> SUFFICES ASSUME AnswersInit PROVE AnswersInv
  OBVIOUS
<1>1. /\ mpc = "flush" /\ mi = 0 /\ round = 1 /\ replies = <<>>
      /\ answered = [k \in 1 .. 2 |-> [r \in Node |-> 0]]
      /\ buf = [r \in Node |-> [s \in Slot |-> [epoch |-> s, dist |-> topology[r]]]]
  BY DEF AnswersInit, Nothing, Init, InitMain, InitRouter
<1>2. Answered = {}
  BY <1>1, SizeAssumption DEF Answered, Asked, Node
<1>3. AnsweredOK
  BY <1>1 DEF AnsweredOK
<1>4. SlotsInv
  <2> SUFFICES ASSUME NEW r \in Node, NEW s \in Slot
               PROVE  buf[r][s].epoch % 3 = s
    BY DEF SlotsInv
  <2>1. buf[r][s].epoch = s
    BY <1>1
  <2> QED
    BY <2>1 DEF Slot
<1>5. CheckedInv /\ TakenInv /\ KeptInv /\ SecondInv /\ RestInv
  BY <1>1 DEF CheckedInv, TakenInv, KeptInv, SecondInv, RestInv, Unchanged
<1>6. FirstInv
  BY <1>2 DEF FirstInv
<1> QED
  BY <1>3, <1>4, <1>5, <1>6 DEF AnswersInv

\* Remainders of epochs.
LEMMA ModThree ==
    ASSUME NEW a \in Nat, NEW b \in Nat
    PROVE  /\ (a + 1) % 3 = ((a % 3) + 1) % 3
           /\ a % 3 \in Slot
           /\ a % 3 = b % 3 => (b - a) % 3 = 0
BY DEF Slot

\* Writing distances leaves the epochs.
LEMMA EpochsUnwritten ==
    ASSUME NEW b \in Vectors, NEW r \in Node, NEW s \in Slot, NEW v,
           NEW q \in Node, NEW t \in Slot
    PROVE  WithDist(b, r, s, v)[q][t].epoch = b[q][t].epoch
<1>1. b \in [Node -> [Slot -> Vector]] /\ b[r][s] \in Vector
  BY DEF Vectors
<1> DEFINE w == [b[r][s] EXCEPT !.dist = v]
           f == [b[r] EXCEPT ![s] = w]
<1>2. w.epoch = b[r][s].epoch
  BY <1>1 DEF Vector
<1>3. WithDist(b, r, s, v) = [b EXCEPT ![r] = f]
  BY DEF WithDist
<1> HIDE DEF w
<1>4. f[s] = w /\ (t # s => f[t] = b[r][t])
  BY <1>1
<1> HIDE DEF f
<1>5. WithDist(b, r, s, v)[q] = IF q = r THEN f ELSE b[q]
  BY <1>1, <1>3
<1> QED
  BY <1>2, <1>4, <1>5

\* A slot is used for every third epoch.
LEMMA StepSlots == TypeInv /\ EpochInv /\ SlotsInv /\ [Next]_vars => SlotsInv'
<1> SUFFICES ASSUME TypeInv, EpochInv, SlotsInv, [Next]_vars, NEW q \in Node, NEW t \in Slot
             PROVE  buf'[q][t].epoch % 3 = t
  BY DEF SlotsInv
<1>0. buf \in Vectors /\ buf[q][t].epoch % 3 = t
  BY DEF SlotsInv, TypeInv, TypeOK, Vectors, Vector
<1>1. ASSUME NEW r \in Node, Update(r) \/ Copy(r)
      PROVE  buf'[q][t].epoch % 3 = t
  <2>1. NextSlot(r) \in Slot
    BY VectorTypes
  <2>2. \E v : buf' = WithDist(buf, r, NextSlot(r), v)
    <3>1. CASE Update(r)
      BY <3>1 DEF Update, WithDist
    <3>2. CASE Copy(r)
      BY <3>2 DEF Copy, WithDist
    <3> QED
      BY <1>1, <3>1, <3>2
  <2>3. PICK v : buf' = WithDist(buf, r, NextSlot(r), v)
    BY <2>2
  <2>4. buf'[q][t].epoch = buf[q][t].epoch
    BY <1>0, <2>1, <2>3, EpochsUnwritten
  <2> QED
    BY <1>0, <2>4
<1>2. ASSUME NEW r \in Node, Cycle(r)
      PROVE  buf'[q][t].epoch % 3 = t
  <2> DEFINE e == fresh(r).epoch
  <2>1. /\ NextSlot(r) \in Slot /\ PrevSlot(r) \in Slot /\ e \in Nat /\ e + 1 \in Nat
        /\ curr[r] \in Slot
    BY VectorTypes DEF Vector
  <2>2. buf' = WithEpoch(buf, r, PrevSlot(r), e + 1)
    BY <1>2 DEF Cycle, WithEpoch, fresh
  <2>3. e % 3 = NextSlot(r)
    BY <2>1 DEF SlotsInv, fresh
  <2> HIDE DEF e
  <2>4. (e + 1) % 3 = PrevSlot(r)
    <3>1. (e + 1) % 3 = (NextSlot(r) + 1) % 3
      BY <2>1, <2>3, ModThree
    <3>2. (NextSlot(r) + 1) % 3 = PrevSlot(r)
      BY <2>1 DEF NextSlot, PrevSlot, Slot
    <3> QED
      BY <3>1, <3>2
  <2> DEFINE k == e + 1
             p == PrevSlot(r)
  <2>5. k \in Nat /\ p \in Slot /\ buf' = WithEpoch(buf, r, p, k)
    BY <2>1, <2>2
  <2>7. k % 3 = p
    BY <2>4
  <2>8. buf \in Vectors
    BY <1>0
  <2> HIDE DEF k, p
  <2>6. /\ \A o \in Node : o # r => buf'[o] = buf[o]
        /\ \A s \in Slot : s # p => buf'[r][s] = buf[r][s]
        /\ buf'[r][p].epoch = k
    BY <2>5, <2>8, WriteEpoch
  <2> QED
    BY <1>0, <2>6, <2>7
<1>3. (\E r \in Node : Update(r) \/ Copy(r) \/ Cycle(r)) \/ UNCHANGED buf
  BY DEF Next, Router, Send, Main, vars, routerVars, SelectOwn, SelectSend, SelectMeet,
         SelectClosed, Reply, CollectMeet, Flush, FlushMeet, Collect, Sleep, Close, Join,
         Done
<1> QED
  BY <1>0, <1>1, <1>2, <1>3

\* The epochs of the answers are written down; the others stay.
LEMMA StepMemory ==
    ASSUME TypeInv, AnsweredOK, Remember
    PROVE  /\ AnsweredOK'
           /\ ~Sleep => \A k \in 1 .. 2 : \A r \in Node :
                 answered'[k][r] =
                     IF k = round /\ Answering(r) THEN Epoch(r) ELSE answered[k][r]
<1>1. \A r \in Node : Epoch(r) \in Nat
  BY VectorTypes DEF Epoch, this, Vector
<1>2. round \in 1 .. 2 /\ answered \in [1 .. 2 -> [Node -> Nat]]
  BY DEF TypeInv, TypeOK, AnsweredOK
<1>3. CASE Sleep
  BY <1>3 DEF Remember, Nothing, AnsweredOK
<1>4. CASE ~Sleep
  <2> DEFINE g == [r \in Node |-> IF Answering(r) THEN Epoch(r) ELSE answered[round][r]]
  <2>1. answered' = [answered EXCEPT ![round] = g]
    BY <1>4 DEF Remember
  <2>2. g \in [Node -> Nat]
    BY <1>1, <1>2
  <2>3. \A r \in Node : g[r] = IF Answering(r) THEN Epoch(r) ELSE answered[round][r]
    OBVIOUS
  <2> HIDE DEF g
  <2>4. answered' \in [1 .. 2 -> [Node -> Nat]]
    BY <1>2, <2>1, <2>2
  <2>5. \A k \in 1 .. 2 : answered'[k] = IF k = round THEN g ELSE answered[k]
    BY <1>2, <2>1
  <2> QED
    BY <1>4, <2>3, <2>4, <2>5 DEF AnsweredOK
<1> QED
  BY <1>3, <1>4

\* A router that has sent its state to everyone has nothing to send.
LEMMA Silent ==
    ASSUME TypeInv, ListInv, NEW r \in Node, select_count[r] = 2, NEW n \in Neighbours(r)
    PROVE  ~Pending(r, n)
BY DEF TypeInv, TypeOK, ListInv, Pending

\* Within an epoch a router stays with a better state and with everything sent.
LEMMA Aging ==
    ASSUME TypeInv, EpochInv, ListInv, [Next]_vars, NEW r \in Node
    PROVE  /\ Epoch(r) \in Nat /\ Epoch(r)' \in Nat /\ Epoch(r) <= Epoch(r)'
           /\ Epoch(r)' = Epoch(r) =>
                 /\ driverged[r] => driverged'[r]
                 /\ select_count[r] = 2 => select_count'[r] = 2
<1>0. /\ Epoch(r) = this(r).epoch /\ Epoch(r)' = this(r)'.epoch /\ this(r).epoch \in Nat
      /\ fresh(r).epoch = this(r).epoch + 1
  BY VectorTypes DEF Epoch, this, Vector, EpochInv, EpochOf
<1>1. CASE Cycle(r)
  <2>1. Epoch(r)' = Epoch(r) + 1
    BY <1>0, <1>1, CycleVectors
  <2> QED
    BY <1>0, <2>1
<1>2. CASE ~Cycle(r)
  <2>1. Epoch(r)' = Epoch(r)
    BY <1>0, <1>2, ThisKept
  <2>2. driverged \in [Node -> BOOLEAN] /\ select_count \in [Node -> Nat]
    BY DEF TypeInv, TypeOK
  <2>3. ASSUME NEW q \in Node, Cycle(q)
        PROVE  driverged'[r] = driverged[r] /\ select_count'[r] = select_count[r]
    BY <1>2, <2>2, <2>3 DEF Cycle
  <2>4. ASSUME NEW q \in Node, Update(q)
        PROVE  (driverged[r] => driverged'[r]) /\ select_count'[r] = select_count[r]
    BY <2>2, <2>4 DEF Update
  <2>5. ASSUME NEW q \in Node, NEW n \in Neighbours(q), SelectSend(q, n) \/ SelectMeet(q, n),
               select_count[r] = 2
        PROVE  driverged'[r] = driverged[r] /\ select_count'[r] = 2
    <3>1. Pending(q, n) /\ Sent(q, n) /\ UNCHANGED driverged
      BY <2>5 DEF SelectSend, SelectMeet
    <3>2. q # r
      BY <2>5, <3>1, Silent
    <3> QED
      BY <2>2, <2>5, <3>1, <3>2 DEF Sent
  <2>6. ASSUME NEW q \in Node, Send(q)
        PROVE  UNCHANGED driverged
    BY <2>6 DEF Send, SelectSend, SelectMeet
  <2>7. \/ \E q \in Node : Cycle(q) \/ Update(q) \/ Send(q)
        \/ UNCHANGED <<driverged, select_count>>
    BY DEF Next, Router, Main, vars, routerVars, SelectOwn, SelectClosed, Copy, Reply,
           CollectMeet, Flush, FlushMeet, Collect, Sleep, Close, Join, Done
  <2>8. driverged[r] => driverged'[r]
    BY <2>3, <2>4, <2>6, <2>7
  <2>9. select_count[r] = 2 => select_count'[r] = 2
    BY <2>3, <2>4, <2>5, <2>7 DEF Send
  <2> QED
    BY <1>0, <2>1, <2>8, <2>9
<1> QED
  BY <1>1, <1>2

\* What a first answer leaves behind stays.
LEMMA KeptStays ==
    ASSUME TypeInv, EpochInv, ListInv, AnsweredOK, [Next]_vars, NEW r \in Node,
           answered'[1][r] = answered[1][r], Kept(r)
    PROVE  Kept(r)' /\ (Spoiled(r) => Spoiled(r)')
<1>1. /\ answered[1][r] \in Nat /\ Epoch(r) \in Nat /\ Epoch(r)' \in Nat
      /\ answered[1][r] <= Epoch(r)
  BY Aging DEF AnsweredOK, Kept
<1>2. /\ Kept(r)' <=> /\ answered[1][r] <= Epoch(r)'
                      /\ Spoiled(r)' \/ select_count'[r] = 2
      /\ Spoiled(r)' <=> driverged'[r] \/ answered[1][r] < Epoch(r)'
  BY DEF Kept, Spoiled
<1>3. CASE Epoch(r)' = Epoch(r)
  BY <1>1, <1>2, <1>3, Aging DEF Kept, Spoiled
<1>4. CASE Epoch(r)' # Epoch(r)
  <2>1. answered[1][r] < Epoch(r)'
    BY <1>1, <1>4, Aging
  <2> QED
    BY <1>1, <1>2, <2>1
<1> QED
  BY <1>3, <1>4

\* A router at rest among routers that send nothing stays at rest until main
\* asks it.
LEMMA QuietStays ==
    ASSUME TypeInv, ListInv, [Next]_vars, \A q \in Node : select_count[q] = 2,
           NEW r \in Node, Quiet(r), ~(mpc = "flush" /\ mi = r)
    PROVE  Quiet(r)' /\ ~Cycle(r)
<1>0. /\ pc \in [Node -> {"select", "update", "cycle", "copy", "reply", "exited"}]
      /\ driverged \in [Node -> BOOLEAN] /\ queue \in [Node -> Seq(Job)]
      /\ select_count \in [Node -> Nat] /\ mi \in Node
      /\ pc[r] \in {"select", "exited"} /\ queue[r] = <<>> /\ select_count[r] = 2
      /\ ~driverged[r]
  BY DEF TypeInv, TypeOK, Quiet
<1>1. ASSUME NEW q \in Node
      PROVE  ~Send(q)
  BY Silent DEF Send, SelectSend, SelectMeet
<1>2. ASSUME NEW q \in Node, SelectOwn(q) \/ Update(q) \/ Cycle(q) \/ Copy(q) \/ Reply(q)
                              \/ CollectMeet(q)
      PROVE  /\ q # r
             /\ UNCHANGED <<pc[r], queue[r], select_count[r], driverged[r]>>
  BY <1>0, <1>2 DEF SelectOwn, Update, Cycle, Copy, Reply, CollectMeet
<1>3. ASSUME NEW q \in Node, SelectClosed(q)
      PROVE  /\ pc'[r] \in {pc[r], "exited"}
             /\ UNCHANGED <<queue, select_count, driverged>>
  BY <1>0, <1>3 DEF SelectClosed
<1>4. ASSUME Flush \/ FlushMeet
      PROVE  UNCHANGED <<pc[r], queue[r], select_count[r], driverged[r]>>
  BY <1>0, <1>4 DEF Flush, FlushMeet, routerVars
<1>5. ASSUME Collect \/ Sleep \/ Close \/ Join \/ Done \/ UNCHANGED vars
      PROVE  UNCHANGED <<pc, queue, select_count, driverged>>
  BY <1>5 DEF Collect, Sleep, Close, Join, Done, vars, routerVars
<1>6. ~Cycle(r)
  BY <1>0 DEF Cycle
<1> QED
  BY <1>0, <1>1, <1>2, <1>3, <1>4, <1>5, <1>6 DEF Next, Router, Main, Quiet

\* A router that answers among routers that send nothing has an empty driver.
LEMMA AnswererStays ==
    ASSUME TypeInv, ListInv, ShutInv, OneEach, [Next]_vars,
           \A q \in Node : select_count[q] = 2,
           NEW r \in Node, pc'[r] = "reply",
           pc[r] = "reply" => queue[r] = <<>> /\ ~(mpc = "flush" /\ mi = r)
    PROVE  queue'[r] = <<>>
<1>0. /\ pc \in [Node -> {"select", "update", "cycle", "copy", "reply", "exited"}]
      /\ queue \in [Node -> Seq(Job)] /\ mi \in Node /\ NullJob \in Job
      /\ BufferSize = 0 => queue[r] = <<>>
  BY DEF TypeInv, TypeOK, ShutInv, Job
<1>1. ASSUME NEW q \in Node
      PROVE  ~Send(q)
  BY Silent DEF Send, SelectSend, SelectMeet
<1>2. ASSUME SelectOwn(r)
      PROVE  queue'[r] = <<>>
  <2> DEFINE s == queue[r]
  <2>1. s \in Seq(Job) /\ Len(s) <= 1 /\ s # <<>> /\ queue'[r] = Tail(s)
    BY <1>0, <1>2 DEF SelectOwn, OneEach
  <2> HIDE DEF s
  <2> QED
    BY <1>0, <2>1, OneJob
<1>3. ASSUME NEW q \in Node, q # r, SelectOwn(q)
      PROVE  UNCHANGED <<pc[r], queue[r]>>
  BY <1>0, <1>3 DEF SelectOwn
<1>4. ASSUME NEW q \in Node, SelectClosed(q) \/ Update(q) \/ Cycle(q) \/ Copy(q) \/ Reply(q)
                              \/ CollectMeet(q)
      PROVE  UNCHANGED queue /\ pc[r] = "reply"
  BY <1>0, <1>4 DEF SelectClosed, Update, Cycle, Copy, Reply, CollectMeet, AfterEvent
<1>5. ASSUME Flush
      PROVE  pc[r] = "reply" /\ queue'[r] = <<>>
  <2>1. pc[r] = "reply"
    BY <1>5 DEF Flush, routerVars
  <2>2. mi # r
    BY <1>5, <2>1 DEF Flush
  <2> QED
    BY <1>0, <1>5, <2>1, <2>2 DEF Flush
<1>6. ASSUME FlushMeet
      PROVE  queue'[r] = <<>>
  BY <1>0, <1>6 DEF FlushMeet
<1>7. ASSUME Collect \/ Sleep \/ Close \/ Join \/ Done \/ UNCHANGED vars
      PROVE  UNCHANGED <<pc, queue>>
  BY <1>7 DEF Collect, Sleep, Close, Join, Done, vars, routerVars
<1> QED
  BY <1>1, <1>2, <1>3, <1>4, <1>5, <1>6, <1>7 DEF Next, Router, Main

\* An answer that is not NULL is the current state, sent to everyone and without
\* a better one.
LEMMA AnswerIs ==
    ASSUME TypeInv, EpochInv, ListInv, SlotsInv, AnsweredOK, Remember, [Next]_vars, ~Sleep,
           NEW r \in Node, Answering(r), ReplyOf(r) # NullJob
    PROVE  /\ ReplyOf(r) = At(r, answered'[round][r]) /\ ReplyOf(r).src = r
           /\ answered'[round][r] = Epoch(r) /\ Epoch(r)' = Epoch(r)
           /\ select_count[r] = 2 /\ ~driverged[r] /\ select_count'[r] = 2
<1>1. select_count[r] = 2 /\ ~driverged[r] /\ ReplyOf(r) = curr_state(r)
  BY DEF ReplyOf
<1>2. curr[r] = Epoch(r) % 3
  <2>1. curr[r] \in Slot /\ Epoch(r) = buf[r][curr[r]].epoch
    BY VectorTypes DEF Epoch, this
  <2> QED
    BY <2>1 DEF SlotsInv
<1>3. answered'[round][r] = Epoch(r)
  <2>1. round \in 1 .. 2
    BY DEF TypeInv, TypeOK
  <2> QED
    BY <2>1, StepMemory
<1>4. Epoch(r)' = Epoch(r)
  <2>1. ~Cycle(r)
    BY DEF Answering, Cycle
  <2>2. Epoch(r) = this(r).epoch /\ Epoch(r)' = this(r)'.epoch
    BY DEF Epoch, this
  <2> QED
    BY <2>1, <2>2, ThisKept
<1>5. select_count'[r] = 2
  BY <1>1, <1>4, Aging
<1> QED
  BY <1>1, <1>2, <1>3, <1>4, <1>5 DEF At, curr_state

\* Who has answered when main takes an answer.
LEMMA CollectedSet ==
    ASSUME TypeInv, mpc = "collect", NEW j, Collected(j),
           NEW A, A = {q \in Node : ~Outstanding(q)'}, Cardinality(A) = mi + 1
    PROVE  /\ mpc' = "collect" => Answered' = A /\ round' = round
           /\ mpc' # "collect" => A = Node /\ Answered' = {}
           /\ mpc' # "collect" /\ valid' =>
                 \/ round = 1 /\ mpc' = "flush" /\ round' = 2
                 \/ round = 2 /\ mpc' = "check" /\ round' = 2
           /\ mpc' # "collect" /\ ~valid' => mpc' = "sleep" /\ round' = round
<1>0. mi \in Node /\ mi \in Nat /\ N \in Nat /\ round \in {1, 2} /\ mi' = (mi + 1) % N
  BY SizeAssumption DEF TypeInv, TypeOK, Node, Collected
<1>1. CASE mi < N - 1
  <2>1. mpc' = "collect" /\ round' = round
    BY <1>1 DEF Collected
  <2> QED
    BY <2>1 DEF Answered, Asked
<1>2. CASE mi = N - 1
  <2>1. A = Node
    <3>1. IsFiniteSet(Node) /\ Cardinality(Node) = Cardinality(A) /\ A \subseteq Node
      BY <1>0, <1>2, AnsweredSet
    <3> QED
      BY <3>1, FS_Subset
  <2>2. mi' = 0
    BY <1>0, <1>2, NextIndex
  <2>3. \/ ~valid' /\ mpc' = "sleep" /\ round' = round
        \/ valid' /\ round = 1 /\ mpc' = "flush" /\ round' = 2
        \/ valid' /\ round = 2 /\ mpc' = "check" /\ round' = round
    BY <1>0, <1>2 DEF Collected
  <2>4. Answered' = {}
    BY <2>2, <2>3, SizeAssumption DEF Answered, Asked, Node
  <2> QED
    BY <2>1, <2>3, <2>4
<1> QED
  BY <1>0, <1>1, <1>2, SizeAssumption DEF Node

\* Two pointers to equal epochs are one.
LEMMA EqualEpochs ==
    ASSUME SlotsInv, NEW r \in Node, NEW a \in Nat, NEW b \in Nat,
           Deref(At(r, a)).epoch = Deref(At(r, b)).epoch
    PROVE  a % 3 = b % 3
<1>1. a % 3 \in Slot /\ b % 3 \in Slot
  BY ModThree
<1>2. buf[r][a % 3].epoch = buf[r][b % 3].epoch
  BY DEF At, Deref
<1> QED
  BY <1>1, <1>2 DEF SlotsInv

\* Main takes an answer.  A are the routers that have answered.
LEMMA CollectingAnswers ==
    ASSUME TypeInv, SlotsInv, AnsweredOK', mpc = "collect", replies' = <<>>,
           NEW j \in Job, Collected(j),
           NEW A, A = {q \in Node : ~Outstanding(q)'}, Cardinality(A) = mi + 1,
           valid /\ j # NullJob => \E r \in A : j = At(r, answered'[round][r]),
           round = 1 /\ valid /\ j # NullJob =>
               \A r \in A : Kept(r)' /\ (j.src = r \/ completed[r] = At(r, answered'[1][r])),
           round = 2 =>
               \A r \in Node : Kept(r)' /\ completed[r] = At(r, answered'[1][r]),
           round = 2 /\ valid /\ j # NullJob =>
               \A r \in A : /\ answered'[1][r] <= answered'[2][r]
                            /\ j.src = r \/ SameSlot(r)'
    PROVE  CheckedInv' /\ TakenInv' /\ FirstInv' /\ KeptInv' /\ SecondInv'
<1>0. /\ round \in {1, 2} /\ valid' = (valid /\ Accepts(j))
      /\ valid' => valid /\ j # NullJob
      /\ completed \in [Node -> Job]
      /\ completed' = IF round = 1 /\ j # NullJob
                        THEN [completed EXCEPT ![j.src] = j] ELSE completed
      /\ mpc' \in {"collect", "sleep", "flush", "check"}
  BY DEF TypeInv, TypeOK, Collected, Accepts
<1>1. /\ mpc' = "collect" => Answered' = A /\ round' = round
      /\ mpc' # "collect" => A = Node /\ Answered' = {}
      /\ mpc' # "collect" /\ valid' =>
            \/ round = 1 /\ mpc' = "flush" /\ round' = 2
            \/ round = 2 /\ mpc' = "check" /\ round' = 2
      /\ mpc' # "collect" /\ ~valid' => mpc' = "sleep" /\ round' = round
  BY CollectedSet
<1>2. CheckedInv'
  BY <1>0, <1>1 DEF CheckedInv
<1>3. TakenInv'
  BY DEF TakenInv
<1>4. ASSUME round = 1, valid', NEW r \in A
      PROVE  completed'[r] = At(r, answered'[1][r])
  <2>1. valid /\ j # NullJob
    BY <1>0, <1>4
  <2>2. PICK h \in A : j = At(h, answered'[1][h])
    BY <1>4, <2>1
  <2>3. j.src = h /\ h \in Node /\ r \in Node
    BY <2>2 DEF At
  <2>4. completed' = [completed EXCEPT ![h] = j]
    BY <1>0, <1>4, <2>1, <2>3
  <2>5. j.src = r \/ completed[r] = At(r, answered'[1][r])
    BY <1>4, <2>1
  <2> QED
    BY <1>0, <2>2, <2>3, <2>4, <2>5
<1>5. FirstInv'
  <2> SUFFICES ASSUME round' = 1, Alive', NEW r \in Answered'
               PROVE  Kept(r)' /\ completed'[r] = At(r, answered'[1][r])
    BY DEF FirstInv
  <2>1. valid' /\ round = 1 /\ r \in A
    BY <1>0, <1>1 DEF Alive
  <2> QED
    BY <1>0, <1>4, <2>1
<1>6. KeptInv'
  <2> SUFFICES ASSUME round' = 2, NEW r \in Node
               PROVE  Kept(r)' /\ completed'[r] = At(r, answered'[1][r])
    BY DEF KeptInv
  <2>1. CASE round = 2
    BY <1>0, <2>1
  <2>2. CASE round = 1
    <3>1. valid' /\ A = Node
      BY <1>1, <2>2
    <3> QED
      BY <1>0, <1>4, <2>2, <3>1
  <2> QED
    BY <1>0, <2>1, <2>2
<1>7. SecondInv'
  <2> SUFFICES ASSUME round' = 2, Alive', NEW r \in Node, Served(r)'
               PROVE  answered'[1][r] <= answered'[2][r] /\ SameSlot(r)'
    BY DEF SecondInv
  <2>1. valid' /\ valid /\ j # NullJob
    BY <1>0 DEF Alive
  <2>2. round = 2 /\ r \in A
    BY <1>0, <1>1, <2>1 DEF Served
  <2>3. answered'[1][r] <= answered'[2][r] /\ (j.src = r \/ SameSlot(r)')
    BY <2>1, <2>2
  <2>4. ASSUME j.src = r
        PROVE  SameSlot(r)'
    <3>1. j = At(r, answered'[2][r])
      BY <2>1, <2>2, <2>4 DEF At
    <3>2. completed[r] = At(r, answered'[1][r])
      BY <2>2
    <3>3. Deref(At(r, answered'[1][r])).epoch = Deref(At(r, answered'[2][r])).epoch
      BY <1>0, <2>1, <2>2, <2>4, <3>1, <3>2 DEF Accepts
    <3>4. answered'[1][r] \in Nat /\ answered'[2][r] \in Nat
      BY DEF AnsweredOK
    <3>5. answered'[1][r] % 3 = answered'[2][r] % 3
      BY <3>3, <3>4, EqualEpochs
    <3> QED
      BY <3>5 DEF SameSlot
  <2> QED
    BY <2>3, <2>4
<1> QED
  BY <1>2, <1>3, <1>5, <1>6, <1>7

\* The rounds, whatever happens to the NULL jobs and their answers.
LEMMA StepRounds ==
    ASSUME TypeInv, EpochInv, ListInv, RoundInv, AnswersInv, [Next]_vars, Remember, Effect
    PROVE  CheckedInv' /\ TakenInv' /\ FirstInv' /\ KeptInv' /\ SecondInv'
<1>0. /\ round \in {1, 2} /\ round \in 1 .. 2 /\ mi \in Nat /\ replies \in Seq(Job)
      /\ OneEach /\ Balanced /\ SecondRound
      /\ AnsweredOK /\ SlotsInv /\ CheckedInv /\ TakenInv /\ FirstInv /\ KeptInv /\ SecondInv
      /\ AnsweredOK'
  <2>1. AnsweredOK
    BY DEF AnswersInv
  <2>2. AnsweredOK'
    BY <2>1, StepMemory
  <2>3. round \in {1, 2} /\ mi \in Nat /\ replies \in Seq(Job)
    BY SizeAssumption DEF TypeInv, TypeOK, Node
  <2> QED
    BY <2>1, <2>2, <2>3 DEF AnswersInv, RoundInv
<1>1. ~Sleep => \A k \in 1 .. 2 : \A q \in Node :
                   ~Answering(q) => answered'[k][q] = answered[k][q]
  BY <1>0, StepMemory
<1>2. \A q \in Node : answered'[1][q] = answered[1][q] /\ Kept(q) => Kept(q)'
  BY <1>0, KeptStays
<1>3. \A q \in Node : ReplyOf(q) \in Job
  BY JobsOfDrivers DEF TypeInv, Job
<1>4. ASSUME UNCHANGED <<replies, round, valid, completed>>, Answered' = Answered,
             mpc' \in {"check", "join", "done"} <=> mpc \in {"check", "join", "done"},
             \A q \in Node : ~Answering(q), ~Sleep
      PROVE  CheckedInv' /\ TakenInv' /\ FirstInv' /\ KeptInv' /\ SecondInv'
  <2>1. \A q \in Node : /\ answered'[1][q] = answered[1][q]
                        /\ answered'[2][q] = answered[2][q]
                        /\ answered'[round][q] = answered[round][q]
    BY <1>0, <1>1, <1>4
  <2>2. Alive' = Alive
    BY <1>4 DEF Alive
  <2>3. \A q \in Node : /\ OnItsWay(q)' <=> OnItsWay(q)
                        /\ Served(q)' <=> Served(q)
                        /\ SameSlot(q)' <=> SameSlot(q)
    BY <1>4, <2>1 DEF OnItsWay, Served, SameSlot
  <2>4. \A q \in Node : Kept(q) => Kept(q)'
    BY <1>2, <2>1
  <2>5. Answered \subseteq Node
    BY DEF Answered
  <2>6. CheckedInv'
    BY <1>0, <1>4 DEF CheckedInv
  <2>7. TakenInv'
    BY <1>0, <1>4, <2>1, <2>2, <2>5 DEF TakenInv
  <2>8. FirstInv'
    BY <1>0, <1>4, <2>1, <2>2, <2>3, <2>4, <2>5 DEF FirstInv
  <2>9. KeptInv'
    BY <1>0, <1>4, <2>1, <2>4 DEF KeptInv
  <2>10. SecondInv'
    BY <1>0, <1>4, <2>1, <2>2, <2>3 DEF SecondInv
  <2> QED
    BY <2>6, <2>7, <2>8, <2>9, <2>10
<1>5. CASE Elsewhere
  <2>1. UNCHANGED <<replies, mpc, round, mi, valid, completed>>
    BY <1>5 DEF Elsewhere, mainVars
  <2>2. /\ \A q \in Node : (Asked(q)' <=> Asked(q)) /\ (Outstanding(q)' <=> Outstanding(q))
        /\ \A q \in Node : ~Answering(q)
        /\ ~Sleep
    BY <1>5, <2>1 DEF Elsewhere, AsBefore, Asked, Sleep
  <2>3. Answered' = Answered
    BY <2>2 DEF Answered
  <2> QED
    BY <1>4, <2>1, <2>2, <2>3
<1>6. ASSUME NEW r \in Node, Asks(r)
      PROVE  CheckedInv' /\ TakenInv' /\ FirstInv' /\ KeptInv' /\ SecondInv'
  <2>1. /\ mpc = "flush" /\ mpc' \in {"flush", "collect"}
        /\ UNCHANGED <<replies, round, valid, completed>>
        /\ \A q \in Node : ~Answering(q)
        /\ ~Sleep
    BY <1>6 DEF Asks, Flushed, OnlyOf, Sleep
  <2>2. Answered' = Answered
    BY <1>6, AskingSet
  <2> QED
    BY <1>4, <2>1, <2>2
<1>7. ASSUME NEW r \in Node, Outstanding(r), ~Outstanding(r)', Answering(r), OnlyOf(r), ~Sleep
      PROVE  LET A == Answered \cup {r} IN
             /\ r \notin Answered /\ Asked(r) /\ A \subseteq Node
             /\ Cardinality(A) = Cardinality(Answered) + 1
             /\ \A q \in Node : Asked(q) => (q \in A <=> ~Outstanding(q)')
             /\ \A k \in 1 .. 2 : \A q \in Node :
                   answered'[k][q] = IF k = round /\ q = r THEN Epoch(r) ELSE answered[k][q]
             /\ ReplyOf(r) # NullJob =>
                   /\ ReplyOf(r) = At(r, answered'[round][r]) /\ ReplyOf(r).src = r
                   /\ round = 1 => Kept(r)'
                   /\ round = 2 => answered'[1][r] <= answered'[2][r]
  <2>1. r \notin Answered /\ IsFiniteSet(Answered)
    BY <1>7, AnsweredSet DEF Answered
  <2>2. Cardinality(Answered \cup {r}) = Cardinality(Answered) + 1
    BY <2>1, FS_AddElement
  <2>3. \A k \in 1 .. 2 : \A q \in Node :
          answered'[k][q] = IF k = round /\ q = r THEN Epoch(r) ELSE answered[k][q]
    BY <1>0, <1>7, StepMemory DEF OnlyOf
  <2>4. ASSUME ReplyOf(r) # NullJob
        PROVE  /\ ReplyOf(r) = At(r, answered'[round][r]) /\ ReplyOf(r).src = r
               /\ round = 1 => Kept(r)'
               /\ round = 2 => answered'[1][r] <= answered'[2][r]
    <3>1. /\ ReplyOf(r) = At(r, answered'[round][r]) /\ ReplyOf(r).src = r
          /\ answered'[round][r] = Epoch(r) /\ Epoch(r)' = Epoch(r) /\ select_count'[r] = 2
      BY <1>0, <1>7, <2>4, AnswerIs
    <3>2. Epoch(r) \in Nat
      BY Aging
    <3>3. round = 1 => Kept(r)'
      BY <3>1, <3>2 DEF Kept
    <3>4. round = 2 => answered'[1][r] <= answered'[2][r]
      BY <1>0, <2>3, <3>1 DEF KeptInv, Kept
    <3> QED
      BY <3>1, <3>3, <3>4
  <2>5. Asked(r)
    BY <1>0, <1>7 DEF Balanced
  <2>6. /\ Answered \cup {r} \subseteq Node
        /\ \A q \in Node : Asked(q) => (q \in Answered \cup {r} <=> ~Outstanding(q)')
    BY <1>7, <2>5 DEF OnlyOf, Answered
  <2> QED
    BY <2>1, <2>2, <2>3, <2>4, <2>5, <2>6
<1>8. ASSUME NEW r \in Node, Answers(r)
      PROVE  CheckedInv' /\ TakenInv' /\ FirstInv' /\ KeptInv' /\ SecondInv'
  <2> DEFINE A == Answered \cup {r}
             j == ReplyOf(r)
  <2>1. /\ UNCHANGED <<mpc, round, mi, valid, completed>>
        /\ replies = <<>> /\ replies' = <<j>>
        /\ Outstanding(r) /\ ~Outstanding(r)' /\ Answering(r) /\ OnlyOf(r) /\ ~Sleep
    BY <1>8 DEF Answers, mainVars, Sleep
  <2>2. /\ r \notin Answered /\ Asked(r) /\ A \subseteq Node
        /\ \A q \in Node : Asked(q) => (q \in A <=> ~Outstanding(q)')
        /\ \A k \in 1 .. 2 : \A q \in Node :
              answered'[k][q] = IF k = round /\ q = r THEN Epoch(r) ELSE answered[k][q]
        /\ j # NullJob =>
              /\ j = At(r, answered'[round][r]) /\ j.src = r
              /\ round = 1 => Kept(r)'
              /\ round = 2 => answered'[1][r] <= answered'[2][r]
    BY <1>7, <2>1
  <2>3. \A q \in Node : Asked(q)' <=> Asked(q)
    BY <2>1 DEF Asked
  <2>4. Answered' = A
    BY <2>2, <2>3 DEF Answered
  <2>5. replies' # <<>> /\ Head(replies') = j
    BY <2>1
  <2>6. Asked(r) => mpc \in {"flush", "collect"}
    BY DEF Asked
  <2> HIDE DEF A, j
  <2>7. Alive' => Alive /\ j # NullJob
    BY <2>1, <2>5 DEF Alive
  <2>8. CheckedInv'
    BY <1>0, <2>1 DEF CheckedInv
  <2>9. TakenInv'
    <3>1. r \in A
      BY DEF A
    <3> QED
      BY <2>1, <2>2, <2>4, <2>5, <2>7, <3>1 DEF TakenInv
  <2>10. FirstInv'
    <3> SUFFICES ASSUME round' = 1, Alive', NEW q \in Answered'
                 PROVE  Kept(q)' /\ (OnItsWay(q)' \/ completed'[q] = At(q, answered'[1][q]))
      BY DEF FirstInv
    <3>1. round = 1 /\ Alive /\ j # NullJob /\ q \in A /\ q \in Node
      BY <2>1, <2>2, <2>4, <2>7
    <3>2. CASE q = r
      <4>1. OnItsWay(q)'
        BY <2>2, <2>5, <3>1, <3>2 DEF OnItsWay
      <4> QED
        BY <2>2, <3>1, <3>2, <4>1
    <3>3. CASE q # r
      <4>1. q \in Answered
        BY <3>1, <3>3 DEF A
      <4>2. answered'[1][q] = answered[1][q]
        BY <2>2, <3>1, <3>3
      <4>3. Kept(q) /\ completed[q] = At(q, answered[1][q])
        BY <1>0, <2>1, <3>1, <4>1 DEF FirstInv, OnItsWay
      <4> QED
        BY <1>2, <2>1, <3>1, <4>2, <4>3
    <3> QED
      BY <3>2, <3>3
  <2>11. KeptInv'
    <3> SUFFICES ASSUME round' = 2, NEW q \in Node
                 PROVE  Kept(q)' /\ completed'[q] = At(q, answered'[1][q])
      BY DEF KeptInv
    <3>1. round = 2 /\ answered'[1][q] = answered[1][q]
      BY <2>1, <2>2
    <3> QED
      BY <1>0, <1>2, <2>1, <3>1 DEF KeptInv
  <2>12. SecondInv'
    <3> SUFFICES ASSUME round' = 2, Alive', NEW q \in Node, Served(q)'
                 PROVE  answered'[1][q] <= answered'[2][q] /\ (OnItsWay(q)' \/ SameSlot(q)')
      BY DEF SecondInv
    <3>1. round = 2 /\ Alive /\ j # NullJob /\ q \in A
      BY <2>1, <2>2, <2>4, <2>6, <2>7 DEF Served
    <3>2. CASE q = r
      <4>1. OnItsWay(q)'
        BY <2>2, <2>5, <3>1, <3>2 DEF OnItsWay
      <4> QED
        BY <2>2, <3>1, <3>2, <4>1
    <3>3. CASE q # r
      <4>1. Served(q)
        BY <3>1, <3>3 DEF A, Served
      <4>2. answered'[1][q] = answered[1][q] /\ answered'[2][q] = answered[2][q]
        BY <2>2, <3>3
      <4>3. answered[1][q] <= answered[2][q] /\ SameSlot(q)
        BY <1>0, <2>1, <3>1, <4>1 DEF SecondInv, OnItsWay
      <4> QED
        BY <4>2, <4>3 DEF SameSlot
    <3> QED
      BY <3>2, <3>3
  <2> QED
    BY <2>8, <2>9, <2>10, <2>11, <2>12
<1>9. ASSUME NEW r \in Node, Meets(r)
      PROVE  CheckedInv' /\ TakenInv' /\ FirstInv' /\ KeptInv' /\ SecondInv'
  <2> DEFINE A == Answered \cup {r}
             j == ReplyOf(r)
  <2>1. /\ mpc = "collect" /\ replies = <<>> /\ replies' = <<>> /\ Collected(j)
        /\ Outstanding(r) /\ ~Outstanding(r)' /\ Answering(r) /\ OnlyOf(r) /\ ~Sleep
        /\ j \in Job
    BY <1>3, <1>9 DEF Meets, Sleep
  <2>2. /\ r \notin Answered /\ Asked(r) /\ A \subseteq Node
        /\ Cardinality(A) = Cardinality(Answered) + 1
        /\ \A q \in Node : Asked(q) => (q \in A <=> ~Outstanding(q)')
        /\ \A k \in 1 .. 2 : \A q \in Node :
              answered'[k][q] = IF k = round /\ q = r THEN Epoch(r) ELSE answered[k][q]
        /\ j # NullJob =>
              /\ j = At(r, answered'[round][r]) /\ j.src = r
              /\ round = 1 => Kept(r)'
              /\ round = 2 => answered'[1][r] <= answered'[2][r]
    BY <1>7, <2>1
  <2>3. A = {q \in Node : ~Outstanding(q)'}
    BY <2>1, <2>2 DEF Asked
  <2>4. Cardinality(A) = mi + 1
    BY <1>0, <2>1, <2>2 DEF Balanced
  <2>5. valid => Alive
    BY <2>1 DEF Alive
  <2>6. r \in A /\ \A q \in A : q \in Node /\ (q = r \/ q \in Answered)
    BY <2>2
  <2> HIDE DEF A, j
  <2>7. valid /\ j # NullJob => \E q \in A : j = At(q, answered'[round][q])
    BY <2>2, <2>6
  <2>8. ASSUME round = 1, valid, j # NullJob, NEW q \in A
        PROVE  Kept(q)' /\ (j.src = q \/ completed[q] = At(q, answered'[1][q]))
    <3>1. CASE q = r
      BY <2>2, <2>8, <3>1
    <3>2. CASE q # r
      <4>1. q \in Answered /\ q \in Node /\ answered'[1][q] = answered[1][q]
        BY <2>2, <2>6, <3>2
      <4>2. Kept(q) /\ completed[q] = At(q, answered[1][q])
        BY <1>0, <2>1, <2>5, <2>8, <4>1 DEF FirstInv, OnItsWay
      <4> QED
        BY <1>2, <4>1, <4>2
    <3> QED
      BY <3>1, <3>2
  <2>9. ASSUME round = 2, NEW q \in Node
        PROVE  Kept(q)' /\ completed[q] = At(q, answered'[1][q])
    <3>1. answered'[1][q] = answered[1][q]
      BY <2>2, <2>9
    <3> QED
      BY <1>0, <1>2, <2>9, <3>1 DEF KeptInv
  <2>10. ASSUME round = 2, valid, j # NullJob, NEW q \in A
         PROVE  answered'[1][q] <= answered'[2][q] /\ (j.src = q \/ SameSlot(q)')
    <3>1. CASE q = r
      BY <2>2, <2>10, <3>1
    <3>2. CASE q # r
      <4>1. /\ q \in Answered /\ q \in Node
            /\ answered'[1][q] = answered[1][q] /\ answered'[2][q] = answered[2][q]
        BY <2>2, <2>6, <3>2
      <4>2. answered[1][q] <= answered[2][q] /\ SameSlot(q)
        BY <1>0, <2>1, <2>5, <2>10, <4>1 DEF SecondInv, OnItsWay, Served
      <4> QED
        BY <4>1, <4>2 DEF SameSlot
    <3> QED
      BY <3>1, <3>2
  <2> QED
    BY <1>0, <2>1, <2>3, <2>4, <2>7, <2>8, <2>9, <2>10, CollectingAnswers
<1>10. CASE Takes
  <2> DEFINE A == Answered
             j == Head(replies)
  <2>1. /\ mpc = "collect" /\ Len(replies) = 1 /\ replies' = <<>> /\ Collected(j)
        /\ \A q \in Node : (Outstanding(q)' <=> Outstanding(q)) /\ ~Answering(q)
        /\ ~Sleep
    BY <1>10 DEF Takes, AsBefore, Sleep
  <2>2. replies # <<>> /\ j \in Job
    BY <1>0, <2>1, HeadTailProperties, EmptySeq
  <2>3. A = {q \in Node : ~Outstanding(q)'}
    BY <2>1 DEF Asked, Answered
  <2>4. Cardinality(A) = mi + 1
    BY <1>0, <2>1 DEF Balanced
  <2>5. valid /\ j # NullJob => Alive
    BY DEF Alive
  <2>6. /\ \A q \in Node : /\ answered'[1][q] = answered[1][q]
                           /\ answered'[2][q] = answered[2][q]
                           /\ answered'[round][q] = answered[round][q]
        /\ A \subseteq Node
    BY <1>0, <1>1, <2>1, <2>3
  <2>7. \A q \in Node : /\ OnItsWay(q) <=> j.src = q
                        /\ SameSlot(q)' <=> SameSlot(q)
    BY <2>2, <2>6 DEF OnItsWay, SameSlot
  <2>8. valid /\ j # NullJob => \E q \in A : j = At(q, answered'[round][q])
    BY <1>0, <2>2, <2>5, <2>6 DEF TakenInv
  <2>9. \A q \in A : Served(q)
    BY DEF Served
  <2>10. ASSUME round = 1, valid, j # NullJob, NEW q \in A
         PROVE  Kept(q)' /\ (j.src = q \/ completed[q] = At(q, answered'[1][q]))
    BY <1>0, <1>2, <2>5, <2>6, <2>7, <2>10 DEF FirstInv
  <2>11. ASSUME round = 2, NEW q \in Node
         PROVE  Kept(q)' /\ completed[q] = At(q, answered'[1][q])
    BY <1>0, <1>2, <2>6, <2>11 DEF KeptInv
  <2>12. ASSUME round = 2, valid, j # NullJob, NEW q \in A
         PROVE  answered'[1][q] <= answered'[2][q] /\ (j.src = q \/ SameSlot(q)')
    BY <1>0, <2>5, <2>6, <2>7, <2>9, <2>12 DEF SecondInv
  <2> HIDE DEF A, j
  <2> QED
    BY <1>0, <2>1, <2>2, <2>3, <2>4, <2>8, <2>10, <2>11, <2>12, CollectingAnswers
<1>11. CASE Rests
  <2>1. /\ \/ mpc = "sleep" /\ mpc' = "flush" /\ mi' = 0 /\ round' = 1
           \/ /\ mpc \in {"check", "join"} /\ mpc' \in {"join", "done"}
              /\ UNCHANGED <<round, valid, completed>> /\ ~Sleep
        /\ replies' = replies
        /\ \A q \in Node : ~Answering(q)
    BY <1>11 DEF Rests, AsBefore, Sleep, Close, Join
  <2>2. \A q \in Node : ~Asked(q) /\ ~Asked(q)'
    BY <2>1, SizeAssumption DEF Asked, Node
  <2>3. Answered = {} /\ Answered' = {}
    BY <2>2 DEF Answered
  <2>4. replies = <<>> /\ replies' = <<>>
    <3>1. Cardinality(Answered) = 0
      BY <2>3, FS_EmptySet
    <3>2. Len(replies) = 0
      BY <1>0, <2>1, <3>1, LenProperties DEF Balanced
    <3> QED
      BY <1>0, <2>1, <3>2, EmptySeq
  <2>5. CASE mpc' = "flush" /\ round' = 1
    BY <2>3, <2>4, <2>5 DEF CheckedInv, TakenInv, FirstInv, KeptInv, SecondInv
  <2>6. CASE /\ mpc \in {"check", "join"} /\ mpc' \in {"join", "done"}
             /\ UNCHANGED <<round, valid, completed>> /\ ~Sleep
    BY <1>4, <2>1, <2>3, <2>6
  <2> QED
    BY <2>1, <2>5, <2>6
<1> QED
  BY <1>5, <1>6, <1>8, <1>9, <1>10, <1>11 DEF Effect

\* Who has answered in the second round stays in it, and is not asked again;
\* nobody joins but by answering.
LEMMA StepServed ==
    ASSUME TypeInv, RoundInv, [Next]_vars, Effect, round = 2, round' = 2, valid',
           NEW r \in Node
    PROVE  /\ Served(r) => ~Answering(r) /\ Served(r)' /\ ~(mpc = "flush" /\ mi = r)
           /\ Served(r)' => Served(r) \/ Answering(r)
<1>0. /\ OneEach /\ Balanced /\ mi \in Nat /\ N \in Nat /\ r \in Nat /\ mi \in Node
  BY SizeAssumption DEF RoundInv, TypeInv, TypeOK, Node
<1>1. Served(r) => ~Outstanding(r) /\ ~(mpc = "flush" /\ mi = r)
  <2>1. CASE r \in Answered
    BY <1>0, <2>1 DEF Answered, Asked
  <2>2. CASE mpc \in {"check", "join", "done"}
    BY <1>0, <2>2 DEF Balanced, Asked
  <2> QED
    BY <2>1, <2>2 DEF Served
<1>2. Served(r) => ~Answering(r)
  BY <1>1 DEF Answering, Outstanding
<1>3. CASE Elsewhere
  <2>1. UNCHANGED <<mpc, mi>> /\ (Outstanding(r)' <=> Outstanding(r))
    BY <1>3 DEF Elsewhere, AsBefore, mainVars
  <2>2. r \in Answered' <=> r \in Answered
    BY <2>1 DEF Answered, Asked
  <2> QED
    BY <1>1, <1>2, <2>1, <2>2 DEF Served
<1>4. ASSUME NEW q \in Node, Asks(q)
      PROVE  Served(r)' <=> Served(r)
  <2>1. Answered' = Answered /\ mpc = "flush" /\ mpc' \in {"flush", "collect"}
    BY <1>4, AskingSet DEF Asks, Flushed
  <2> QED
    BY <2>1 DEF Served
<1>5. ASSUME NEW q \in Node, Answers(q)
      PROVE  (Served(r) => Served(r)') /\ (Served(r)' => Served(r) \/ Answering(r))
  <2>1. /\ UNCHANGED <<mpc, mi>> /\ Answering(q) /\ ~Outstanding(q)'
        /\ q # r => (Outstanding(r)' <=> Outstanding(r))
    BY <1>5 DEF Answers, OnlyOf, mainVars
  <2>2. Asked(r)' <=> Asked(r)
    BY <2>1 DEF Asked
  <2>3. CASE q = r
    BY <1>2, <2>1, <2>2, <2>3 DEF Served, Answered
  <2>4. CASE q # r
    BY <2>1, <2>2, <2>4 DEF Served, Answered
  <2> QED
    BY <2>3, <2>4
<1>6. ASSUME NEW j, Collected(j), mpc = "collect",
             NEW A, A = {q \in Node : ~Outstanding(q)'}, Cardinality(A) = mi + 1,
             r \in Answered => r \in A, r \in A => r \in Answered \/ Answering(r)
      PROVE  (Served(r) => Served(r)') /\ (Served(r)' => Served(r) \/ Answering(r))
  <2>1. /\ mpc' = "collect" => Answered' = A
        /\ mpc' # "collect" => A = Node /\ mpc' = "check"
    BY <1>6, CollectedSet
  <2> QED
    BY <1>6, <2>1 DEF Served
<1>7. ASSUME NEW q \in Node, Meets(q)
      PROVE  (Served(r) => Served(r)') /\ (Served(r)' => Served(r) \/ Answering(r))
  <2> DEFINE A == Answered \cup {q}
             j == ReplyOf(q)
  <2>1. /\ mpc = "collect" /\ replies = <<>> /\ Collected(j)
        /\ Outstanding(q) /\ ~Outstanding(q)' /\ Answering(q)
        /\ \A p \in Node : p # q => (Outstanding(p)' <=> Outstanding(p))
    BY <1>7 DEF Meets, OnlyOf
  <2>2. A = {p \in Node : ~Outstanding(p)'}
    BY <2>1 DEF Answered, Asked
  <2>3. Cardinality(A) = mi + 1
    <3>1. q \notin Answered /\ IsFiniteSet(Answered)
      BY <2>1, AnsweredSet DEF Answered
    <3>2. Cardinality(Answered) = mi
      BY <1>0, <2>1 DEF Balanced
    <3> QED
      BY <3>1, <3>2, FS_AddElement
  <2>4. (r \in Answered => r \in A) /\ (r \in A => r \in Answered \/ Answering(r))
    BY <2>1
  <2> HIDE DEF A, j
  <2> QED
    BY <1>6, <2>1, <2>2, <2>3, <2>4
<1>8. ASSUME Takes
      PROVE  (Served(r) => Served(r)') /\ (Served(r)' => Served(r) \/ Answering(r))
  <2> DEFINE A == Answered
             j == Head(replies)
  <2>1. /\ mpc = "collect" /\ Len(replies) = 1 /\ Collected(j)
        /\ \A p \in Node : Outstanding(p)' <=> Outstanding(p)
    BY <1>8 DEF Takes, AsBefore
  <2>2. A = {p \in Node : ~Outstanding(p)'}
    BY <2>1 DEF Answered, Asked
  <2>3. Cardinality(A) = mi + 1
    BY <1>0, <2>1 DEF Balanced
  <2>4. r \in Answered <=> r \in A
    OBVIOUS
  <2> HIDE DEF A, j
  <2> QED
    BY <1>6, <2>1, <2>2, <2>3, <2>4
<1>9. CASE Rests
  <2>1. Close \/ Join
    BY <1>9 DEF Rests, Sleep
  <2>2. mpc \in {"check", "join", "done"} /\ mpc' \in {"check", "join", "done"}
    BY <2>1 DEF Close, Join
  <2> QED
    BY <1>1, <1>2, <2>2 DEF Served
<1> QED
  BY <1>1, <1>2, <1>3, <1>4, <1>5, <1>7, <1>8, <1>9 DEF Effect

\* Who answers does nothing else in this step.
LEMMA AnsweringStep ==
    ASSUME TypeInv, [Next]_vars, NEW r \in Node, Answering(r)
    PROVE  /\ pc'[r] = AfterEvent(select_count[r], driverged[r])
           /\ UNCHANGED <<queue, select_count, driverged>>
<1>0. /\ pc \in [Node -> {"select", "update", "cycle", "copy", "reply", "exited"}]
      /\ pc[r] = "reply" /\ pc'[r] # "reply" /\ mi \in Node
      /\ \A q \in Node : \A n \in Neighbours(q) : n \in Node
  BY DEF TypeInv, TypeOK, Answering, Neighbours
<1>1. ASSUME NEW q \in Node, SelectOwn(q) \/ SelectClosed(q) \/ Update(q) \/ Cycle(q) \/ Copy(q)
      PROVE  FALSE
  BY <1>0, <1>1 DEF SelectOwn, SelectClosed, Update, Cycle, Copy
<1>2. ASSUME NEW q \in Node, NEW n \in Neighbours(q), SelectSend(q, n) \/ SelectMeet(q, n)
      PROVE  FALSE
  BY <1>0, <1>2 DEF SelectSend, SelectMeet
<1>3. ASSUME Main \/ Done \/ UNCHANGED vars
      PROVE  FALSE
  BY <1>0, <1>3 DEF Main, Flush, FlushMeet, Collect, Sleep, Close, Join, Done, vars,
                    routerVars
<1>4. PICK q \in Node : Reply(q) \/ CollectMeet(q)
  BY <1>1, <1>2, <1>3 DEF Next, Router, Send
<1>5. q = r
  BY <1>0, <1>4 DEF Reply, CollectMeet
<1> QED
  BY <1>0, <1>4, <1>5 DEF Reply, CollectMeet

\* Nothing that happened before spoils a round that is still good.
LEMMA AliveBefore ==
    ASSUME TypeInv, RoundInv, Effect, ~Sleep, Alive'
    PROVE  /\ Alive
           /\ \A r \in Node : Answering(r) => ReplyOf(r) # NullJob
<1>0. Len(replies) = 1 => replies # <<>>
  OBVIOUS
<1>1. CASE Elsewhere
  BY <1>1 DEF Elsewhere, AsBefore, mainVars, Alive
<1>2. ASSUME NEW r \in Node, Asks(r)
      PROVE  Alive /\ \A q \in Node : ~Answering(q)
  BY <1>2 DEF Asks, OnlyOf, Flushed, Alive
<1>3. ASSUME NEW r \in Node, Answers(r)
      PROVE  Alive /\ ReplyOf(r) # NullJob /\ \A q \in Node : Answering(q) => q = r
  <2>1. valid' = valid /\ replies = <<>> /\ replies' = <<ReplyOf(r)>>
        /\ \A q \in Node : Answering(q) => q = r
    BY <1>3 DEF Answers, OnlyOf, mainVars
  <2>2. replies' # <<>> /\ Head(replies') = ReplyOf(r)
    BY <2>1
  <2> QED
    BY <2>1, <2>2 DEF Alive
<1>4. ASSUME NEW r \in Node, Meets(r)
      PROVE  Alive /\ ReplyOf(r) # NullJob /\ \A q \in Node : Answering(q) => q = r
  BY <1>4 DEF Meets, OnlyOf, Collected, Accepts, Alive
<1>5. CASE Takes
  BY <1>5 DEF Takes, AsBefore, Collected, Accepts, Alive
<1>6. CASE Rests
  BY <1>6 DEF Rests, AsBefore, Close, Join, Alive
<1> QED
  BY <1>1, <1>2, <1>3, <1>4, <1>5, <1>6 DEF Effect

\* The second round starts with nobody asked.
LEMMA NextRound ==
    ASSUME TypeInv, Effect, round = 1, round' = 2
    PROVE  mpc' = "flush" /\ mi' = 0
<1>0. mi \in Node /\ (mi < N - 1 \/ mi = N - 1)
  BY SizeAssumption DEF TypeInv, TypeOK, Node
<1>1. ASSUME NEW j, Collected(j)
      PROVE  mpc' = "flush" /\ mi' = 0
  <2>1. mi = N - 1 /\ mpc' = "flush" /\ mi' = (mi + 1) % N
    BY <1>0, <1>1 DEF Collected
  <2> QED
    BY <1>0, <2>1, NextIndex
<1>2. \E j : Collected(j)
  BY DEF Effect, Elsewhere, Asks, Answers, Meets, Takes, Rests, Flushed, Sleep, Close, Join,
         mainVars
<1> QED
  BY <1>1, <1>2

\* As long as the second round confirms the first one nobody has anything to
\* send, and whoever has answered twice is at rest.
LEMMA StepRest ==
    ASSUME TypeInv, EpochInv, ListInv, ShutInv, RoundInv, RoundInv', AnswersInv, [Next]_vars,
           Remember, Effect
    PROVE  RestInv'
<1> SUFFICES ASSUME Unchanged', NEW r \in Node
             PROVE  /\ Served(r)' => Quiet(r)' /\ Epoch(r)' = answered'[1][r]
                    /\ pc'[r] = "reply" => queue'[r] = <<>>
  BY DEF RestInv
<1>0. /\ round \in {1, 2} /\ round' = 2 /\ Alive' /\ valid' /\ ~Sleep /\ OneEach /\ Balanced
      /\ Balanced'
      /\ AnsweredOK /\ SlotsInv /\ KeptInv /\ RestInv
  BY DEF TypeInv, TypeOK, Unchanged, Alive, Sleep, RoundInv, AnswersInv
<1>1. CASE round = 1
  <2>1. mpc' = "flush" /\ mi' = 0
    BY <1>0, <1>1, NextRound
  <2>2. ~Asked(r)' /\ ~Served(r)'
    BY <2>1, SizeAssumption DEF Asked, Served, Answered, Node
  <2>3. pc'[r] # "reply"
    BY <1>0, <2>2 DEF Balanced, Outstanding
  <2> QED
    BY <2>2, <2>3
<1>2. CASE round = 2
  <2>1. \A q \in Node : answered'[1][q] = answered[1][q] /\ Kept(q)
    BY <1>0, <1>2, StepMemory DEF KeptInv
  <2>2. ASSUME NEW q \in Node, Answering(q)
        PROVE  /\ answered'[2][q] = Epoch(q) /\ Epoch(q)' = Epoch(q)
               /\ select_count[q] = 2 /\ ~driverged[q]
    <3>1. ReplyOf(q) # NullJob
      BY <1>0, <2>2, AliveBefore
    <3> QED
      BY <1>0, <1>2, <2>2, <3>1, AnswerIs
  <2>3. Unchanged
    <3>1. Alive
      BY <1>0, AliveBefore
    <3>2. ASSUME NEW q \in Node, Served(q)
          PROVE  answered[2][q] = answered[1][q]
      <4>1. ~Answering(q) /\ Served(q)'
        BY <1>0, <1>2, <3>2, StepServed
      <4>2. answered'[2][q] = answered[2][q]
        BY <1>0, <4>1, StepMemory
      <4> QED
        BY <2>1, <4>1, <4>2 DEF Unchanged
    <3>3. ASSUME NEW q \in Node, ~Served(q)
          PROVE  ~Spoiled(q)
      <4>1. CASE Served(q)'
        <5>1. Answering(q)
          BY <1>0, <1>2, <3>3, <4>1, StepServed
        <5>2. answered'[2][q] = answered'[1][q]
          BY <4>1 DEF Unchanged
        <5>3. answered[1][q] = Epoch(q) /\ ~driverged[q] /\ Epoch(q) \in Nat
          BY <2>1, <2>2, <5>1, <5>2, Aging
        <5> QED
          BY <5>3 DEF Spoiled
      <4>2. CASE ~Served(q)'
        <5>1. ~Spoiled(q)'
          BY <4>2 DEF Unchanged
        <5> QED
          BY <1>0, <2>1, <5>1, KeptStays
      <4> QED
        BY <4>1, <4>2
    <3> QED
      BY <1>2, <3>1, <3>2, <3>3 DEF Unchanged
  <2>4. \A q \in Node : /\ Served(q) => Quiet(q) /\ Epoch(q) = answered[1][q]
                        /\ pc[q] = "reply" => queue[q] = <<>>
    BY <1>0, <2>3 DEF RestInv
  <2>5. \A q \in Node : select_count[q] = 2
    BY <2>1, <2>3, <2>4 DEF Unchanged, Kept, Quiet
  <2>6. pc'[r] = "reply" => queue'[r] = <<>>
    <3>1. pc[r] = "reply" => ~(mpc = "flush" /\ mi = r)
      <4>1. pc[r] = "reply" => Asked(r)
        BY <1>0 DEF Balanced, Outstanding
      <4> QED
        BY <4>1, SizeAssumption DEF Asked, Node
    <3> QED
      BY <1>0, <2>4, <2>5, <3>1, AnswererStays
  <2>7. ASSUME Served(r)'
        PROVE  Quiet(r)' /\ Epoch(r)' = answered'[1][r]
    <3>1. CASE Served(r)
      <4>1. Quiet(r)' /\ ~Cycle(r)
        BY <1>0, <1>2, <2>4, <2>5, <3>1, QuietStays, StepServed
      <4>2. Epoch(r)' = Epoch(r)
        BY <4>1, ThisKept DEF Epoch, this
      <4> QED
        BY <2>1, <2>4, <3>1, <4>1, <4>2
    <3>2. CASE Answering(r)
      <4>1. /\ answered'[2][r] = Epoch(r) /\ Epoch(r)' = Epoch(r)
            /\ select_count[r] = 2 /\ ~driverged[r]
        BY <2>2, <3>2
      <4>2. /\ pc'[r] = AfterEvent(select_count[r], driverged[r])
            /\ UNCHANGED <<queue, select_count, driverged>>
        BY <3>2, AnsweringStep
      <4>3. queue[r] = <<>>
        BY <2>4, <3>2 DEF Answering
      <4>4. Quiet(r)'
        BY <4>1, <4>2, <4>3 DEF Quiet, AfterEvent
      <4>5. answered'[2][r] = answered'[1][r]
        BY <2>7 DEF Unchanged
      <4> QED
        BY <4>1, <4>4, <4>5
    <3> QED
      BY <1>0, <1>2, <2>7, <3>1, <3>2, StepServed
  <2> QED
    BY <2>6, <2>7
<1> QED
  BY <1>0, <1>1, <1>2

\* The invariant is one of every step, and of none.
LEMMA StepAnswers ==
    TypeInv /\ EpochInv /\ ListInv /\ ShutInv /\ RoundInv /\ RoundInv' /\ AnswersInv
        /\ [Next /\ Remember]_answersVars => AnswersInv'
<1> SUFFICES ASSUME TypeInv, EpochInv, ListInv, ShutInv, RoundInv, RoundInv', AnswersInv,
                    [Next /\ Remember]_answersVars
             PROVE  AnswersInv'
  OBVIOUS
<1>1. CASE Next /\ Remember
  <2>1. OneEach /\ Balanced /\ AnsweredOK /\ SlotsInv /\ [Next]_vars
    BY <1>1 DEF RoundInv, AnswersInv
  <2>2. Effect
    BY <2>1, StepEffect
  <2>3. AnsweredOK'
    BY <1>1, <2>1, StepMemory
  <2>4. SlotsInv'
    BY <2>1, StepSlots
  <2>5. CheckedInv' /\ TakenInv' /\ FirstInv' /\ KeptInv' /\ SecondInv'
    BY <1>1, <2>1, <2>2, StepRounds
  <2>6. RestInv'
    BY <1>1, <2>1, <2>2, StepRest
  <2> QED
    BY <2>3, <2>4, <2>5, <2>6 DEF AnswersInv
<1>2. CASE UNCHANGED answersVars
  <2>1. /\ UNCHANGED <<topology, pc, buf, curr, driverged, select_count, queue, replies, mpc,
                      round, mi, valid, completed, answered>>
    BY <1>2 DEF answersVars, vars, routerVars, mainVars, graphVars
  <2>2. \A r \in Node : /\ Outstanding(r)' <=> Outstanding(r)
                        /\ Asked(r)' <=> Asked(r)
                        /\ Epoch(r)' = Epoch(r)
                        /\ Quiet(r)' <=> Quiet(r)
    BY <2>1 DEF Outstanding, Waits, Asked, Epoch, Deref, curr_state, Quiet
  <2>3. Answered' = Answered
    BY <2>2 DEF Answered
  <2>4. Alive' = Alive
    BY <2>1 DEF Alive
  <2>5. \A r \in Node : /\ OnItsWay(r)' <=> OnItsWay(r)
                        /\ Served(r)' <=> Served(r)
                        /\ Spoiled(r)' <=> Spoiled(r)
                        /\ Kept(r)' <=> Kept(r)
                        /\ SameSlot(r)' <=> SameSlot(r)
    BY <2>1, <2>2, <2>3 DEF OnItsWay, Served, Spoiled, Kept, SameSlot
  <2>6. AnsweredOK' /\ SlotsInv' /\ CheckedInv' /\ TakenInv'
    BY <2>1, <2>3, <2>4 DEF AnswersInv, AnsweredOK, SlotsInv, CheckedInv, TakenInv
  <2>7. Answered \subseteq Node
    BY DEF Answered
  <2>8. FirstInv' /\ KeptInv' /\ SecondInv'
    BY <2>1, <2>3, <2>4, <2>5, <2>7 DEF AnswersInv, FirstInv, KeptInv, SecondInv
  <2>9. Unchanged' <=> Unchanged
    BY <2>1, <2>4, <2>5 DEF Unchanged
  <2>10. RestInv'
    BY <2>1, <2>2, <2>5, <2>9 DEF AnswersInv, RestInv
  <2> QED
    BY <2>6, <2>8, <2>10 DEF AnswersInv
<1> QED
  BY <1>1, <1>2

\* When check_done accepts and no router was lapped the second round confirms
\* the first one: all are at rest, and main has their current states.
LEMMA CheckedUnlapped ==
    ASSUME TypeInv, RoundInv, AnswersInv, mpc \in {"check", "join", "done"},
           \A r \in Node : ~Lapped(r)
    PROVE  \A r \in Node : Quiet(r) /\ completed[r] = curr_state(r)
<1>1. valid /\ round = 2
  BY DEF AnswersInv, CheckedInv
<1>2. replies = <<>>
  <2>1. Answered = {}
    BY DEF Answered, Asked
  <2>2. Len(replies) = 0
    <3>1. Cardinality(Answered) = 0 /\ replies \in Seq(Job)
      BY <2>1, FS_EmptySet DEF TypeInv, TypeOK
    <3> QED
      BY <3>1, LenProperties DEF RoundInv, Balanced
  <2> QED
    BY <2>2, EmptySeq DEF TypeInv, TypeOK
<1>3. Alive /\ \A r \in Node : Served(r) /\ ~OnItsWay(r)
  BY <1>1, <1>2 DEF Alive, Served, OnItsWay
<1>4. ASSUME NEW r \in Node
      PROVE  answered[2][r] = answered[1][r]
  <2>1. answered[1][r] \in Nat /\ answered[2][r] \in Nat
    BY DEF AnswersInv, AnsweredOK
  <2>2. answered[1][r] <= answered[2][r] /\ answered[1][r] % 3 = answered[2][r] % 3
    BY <1>1, <1>3 DEF AnswersInv, SecondInv, SameSlot
  <2>3. (answered[2][r] - answered[1][r]) % 3 = 0
    BY <2>1, <2>2, ModThree
  <2>4. ~(answered[1][r] < answered[2][r])
    BY <2>3 DEF Lapped
  <2> QED
    BY <2>1, <2>2, <2>4
<1>5. Unchanged
  BY <1>1, <1>3, <1>4 DEF Unchanged
<1>6. ASSUME NEW r \in Node
      PROVE  Quiet(r) /\ completed[r] = curr_state(r)
  <2>1. Quiet(r) /\ Epoch(r) = answered[1][r]
    BY <1>3, <1>5 DEF AnswersInv, RestInv
  <2>2. completed[r] = At(r, Epoch(r))
    BY <1>1, <2>1 DEF AnswersInv, KeptInv
  <2>3. Epoch(r) % 3 = curr[r]
    <3>1. curr[r] \in Slot /\ Epoch(r) = buf[r][curr[r]].epoch
      BY VectorTypes DEF Epoch, this
    <3> QED
      BY <3>1 DEF AnswersInv, SlotsInv
  <2> QED
    BY <2>1, <2>2, <2>3 DEF At, curr_state
<1> QED
  BY <1>6

\* The memory takes no part in the program.
LEMMA OnlyRemembers == AnswersSpec => Spec
<1>1. AnswersInit => Init
  BY DEF AnswersInit
<1>2. [Next /\ Remember]_answersVars => [Next]_vars
  BY DEF answersVars
<1> QED
  BY <1>1, <1>2, PTL DEF AnswersSpec, Spec

LEMMA AnswersInvariant ==
    AnswersSpec => [](TypeInv /\ RoundInv /\ AnswersInv)
<1>1. AnswersInit => Init
  BY DEF AnswersInit
<1>2. [Next /\ Remember]_answersVars => [Next]_vars
  BY DEF answersVars
<1>3. TypeInv /\ RoundInv /\ [Next]_vars => RoundInv'
  BY StepEffect, StepRound DEF RoundInv
<1>4. TypeInv /\ ShutInv /\ [Next]_vars => ShutInv'
  BY StepShut
<1> QED
  BY <1>1, <1>2, <1>3, <1>4, InitTypes, StepTypes, InitList, StepList, InitEpoch, StepEpoch,
     InitShut, InitRound, InitAnswers, StepAnswers, PTL DEF AnswersSpec

\* Whatever the drivers: main closes done_driver only when every router waits in
\* its select with nothing left to read, to send or to announce, unless the
\* buffers of one went round between its two answers.  The pointers of
\* stress.c:275 are compared too late, but that is all there is to it.
THEOREM ClosedUnlessLapped == AnswersSpec => []ClosedWhenQuietUnlessLapped
<1>1. TypeInv /\ RoundInv /\ AnswersInv => ClosedWhenQuietUnlessLapped
  BY CheckedUnlapped DEF ClosedWhenQuietUnlessLapped, ClosedWhenQuiet
<1> QED
  BY <1>1, AnswersInvariant, PTL

\* Whatever the drivers: what check_done accepts is the solution, unless a
\* router was lapped.
THEOREM AgreeUnlessLapped ==
    SolutionIsShortest => (AnswersSpec => []AgreementUnlessLapped)
<1> SUFFICES ASSUME SolutionIsShortest PROVE AnswersSpec => []AgreementUnlessLapped
  OBVIOUS
<1>1. TypeInv /\ RoundInv /\ AnswersInv /\ QuietMeansSolved => AgreementUnlessLapped
  <2> SUFFICES ASSUME TypeInv, RoundInv, AnswersInv, QuietMeansSolved, mpc = "check",
                      \A q \in Node : ~Lapped(q), NEW r \in Node
               PROVE  completed[r] \in Pointer /\ Deref(completed[r]).dist = solution[r]
    BY DEF AgreementUnlessLapped, Agreement
  <2>1. \A q \in Node : Quiet(q) /\ completed[q] = curr_state(q)
    BY CheckedUnlapped
  <2>2. curr_state(r) \in Pointer
    BY DEF curr_state, Pointer, TypeInv, TypeOK
  <2> QED
    BY <2>1, <2>2 DEF QuietMeansSolved
<1>2. Spec => []QuietMeansSolved
  BY QuietSolved
<1> QED
  BY <1>1, <1>2, AnswersInvariant, OnlyRemembers, PTL
=============================================================================
