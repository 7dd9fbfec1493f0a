-------------------------- MODULE DriverTestsProofs --------------------------
(***************************************************************************)
(* test.c under every scheduling: the tests only make calls that driver.h  *)
(* allows, in any order of the threads, so that they inherit what          *)
(* DriverProofs shows of all clients; and main destroys a driver only when *)
(* nobody uses it any more.                                                *)
(*                                                                         *)
(* The second is an argument about joins.  Of the tests themselves it uses *)
(* that they are well formed (TestsAssumption): before main destroys a     *)
(* driver it joins every thread that it created to call it.  What is left  *)
(* to the proof is what the steps do: a joined thread has returned, has    *)
(* nothing left to call and is on no driver, and no later step of any      *)
(* thread puts it on one (ChildInv).                                       *)
(***************************************************************************)
EXTENDS DriverTests, DriverProofs

\* TypeOK without what DriverProofs shows of the driver and without awaited
TestTyped ==
    /\ todo \in [Children -> [list : Seq(select_t), blocks : BOOLEAN]]
    /\ test \in DOMAIN Tests
    /\ at \in 1 .. Len(steps) + 1
    /\ passed \in BOOLEAN

\* Step k is behind main and is a step do of child c.
Behind(k, do, c) == k < at /\ steps[k].do = do /\ steps[k].child = c

\* A child is in one place: not created, about to call, in its call, or back
\* from it; and the call is the one it was created for.
ChildOf(c) ==
    /\ (\A k \in DOMAIN steps : ~Behind(k, "create", c)) =>
          todo[c].list = <<>> /\ call[c] = <<>> /\ ~HasReturned(c)
    /\ \A k \in DOMAIN steps : Behind(k, "create", c) =>
          todo[c].list \in {<<>>, steps[k].todo} /\ call[c] \in {<<>>, steps[k].todo}
    /\ HasReturned(c) => todo[c].list = <<>> /\ call[c] = <<>>
    /\ call[c] # <<>> => todo[c].list = <<>>
    /\ \A k \in DOMAIN steps : Behind(k, "join", c) => HasReturned(c)

ChildInv == \A c \in Children : ChildOf(c)

\* Main is in a call only at the step that makes it.
MainInv == call[0] # <<>> => Now("call") /\ call[0] = steps[at].list

DestroyInv ==
    \A d \in Drivers : state[d] = "destroyed" =>
        \E k \in DOMAIN steps : k < at /\ steps[k].do = "destroy" /\ steps[k].driver = d
---------------------------------------------------------------------------
(* The tests are clients of the driver *)

LEMMA ThreadFacts ==
    /\ Thread = {0} \cup Children /\ 0 \in Thread /\ 0 \notin Children
    /\ Children \subseteq Thread
  BY ThreadAssumption DEF Children

LEMMA StepsFacts ==
    ASSUME TestTyped
    PROVE  /\ WellFormed(steps)
           /\ DOMAIN steps = 1 .. Len(steps) /\ Len(steps) \in Nat
           /\ at \in Nat \ {0}
           /\ Running => at \in DOMAIN steps /\ at + 1 \in 1 .. Len(steps) + 1
           /\ \A k \in DOMAIN steps : StepTyped(steps[k])
<1>1. WellFormed(steps)
  BY TestsAssumption DEF TestTyped, steps
<1>2. steps \in Seq(Range(steps)) /\ \A k \in DOMAIN steps : StepTyped(steps[k])
  BY <1>1 DEF WellFormed
<1>3. DOMAIN steps = 1 .. Len(steps) /\ Len(steps) \in Nat
  BY <1>2, LenProperties
<1>4. at \in 1 .. Len(steps) + 1
  BY DEF TestTyped
<1> HIDE DEF TestTyped
<1> QED
  BY <1>1, <1>2, <1>3, <1>4 DEF Running

\* An option list of a thread that is about to call
LEMMA TodoTyped ==
    ASSUME TestTyped, NEW c \in Children, todo[c].list # <<>>
    PROVE  todo[c].list \in Seq(select_t) /\ todo[c].list[1] \in select_t
<1>1. todo[c].list \in Seq(select_t)
  BY DEF TestTyped
<1>2. todo[c].list[1] \in select_t
  BY <1>1, ElementOfSeq, EmptySeq, LenProperties
<1> QED
  BY <1>1, <1>2

LEMMA InitClient == Init => ClientInit
<1> SUFFICES ASSUME Init PROVE ClientInit
  OBVIOUS
<1>1. Tests[test].sizes \in [Drivers -> Nat]
  BY TestsAssumption DEF Init
<1> QED
  BY <1>1 DEF Init, ClientInit

LEMMA StepClient ==
    ASSUME TestTyped, Next
    PROVE  (\E t \in Thread : Client(t)) \/ UNCHANGED driverVars
<1>1. Running => at \in DOMAIN steps /\ StepTyped(steps[at])
  BY StepsFacts
<1>2. CASE CreateChild \/ JoinChild \/ WaitForPost \/ Sleep \/ MuAssert \/ Done
  BY <1>2 DEF CreateChild, JoinChild, WaitForPost, Sleep, MuAssert, Done, driverVars, vars
<1>3. CASE EnterMain
  <2>1. steps[at].list \in Seq(select_t) \ {<<>>} /\ Enter(0, steps[at].list)
    BY <1>1, <1>3 DEF EnterMain, Now, StepTyped
  <2>2. Client(0)
    BY <2>1 DEF Client, driver_select_any
  <2> QED
    BY <2>2, ThreadFacts
<1>4. CASE LeaveMain
  BY <1>4, ThreadFacts DEF LeaveMain, Client
<1>5. CASE OtherCallMain
  <2>1. CASE Now("try") /\ Try(0, steps[at].option)
    BY <1>1, <2>1, ThreadFacts DEF Now, StepTyped, Client, non_blocking_any
  <2>2. CASE Now("close") /\ driver_close(0, steps[at].driver)
    BY <1>1, <2>2, ThreadFacts DEF Now, StepTyped, Client, close_or_destroy_any
  <2>3. CASE Now("destroy") /\ driver_destroy(0, steps[at].driver)
    BY <1>1, <2>3, ThreadFacts DEF Now, StepTyped, Client, close_or_destroy_any
  <2> QED
    BY <1>5, <2>1, <2>2, <2>3 DEF OtherCallMain
<1>6. ASSUME NEW c \in Children, EnterChild(c)
      PROVE  Client(c)
  <2>1. /\ todo[c].list \in Seq(select_t) /\ todo[c].list # <<>>
        /\ todo[c].list[1] \in select_t
        /\ Enter(c, todo[c].list) \/ Try(c, todo[c].list[1])
    BY <1>6, TodoTyped DEF EnterChild
  <2> QED
    BY <2>1 DEF Client, driver_select_any, non_blocking_any
<1>7. ASSUME NEW c \in Children, LeaveChild(c)
      PROVE  Client(c)
  BY <1>7 DEF LeaveChild, Client
<1> QED
  BY <1>2, <1>3, <1>4, <1>5, <1>6, <1>7, ThreadFacts DEF Next, Main

---------------------------------------------------------------------------
(* Types *)

LEMMA InitTyped == Init => TestTyped
<1> SUFFICES ASSUME Init PROVE TestTyped
  OBVIOUS
<1>1. test \in DOMAIN Tests /\ at = 1 /\ passed \in BOOLEAN
  BY DEF Init
<1>2. todo \in [Children -> [list : Seq(select_t), blocks : BOOLEAN]]
  BY EmptySeq DEF Init
<1>3. WellFormed(steps)
  BY <1>1, TestsAssumption DEF steps
<1>4. Len(steps) \in Nat
  BY <1>3, LenProperties DEF WellFormed
<1> QED
  BY <1>1, <1>2, <1>4 DEF TestTyped

LEMMA StepTodo ==
    ASSUME TestTyped, Next
    PROVE  /\ todo' \in [Children -> [list : Seq(select_t), blocks : BOOLEAN]]
           /\ test' = test /\ steps' = steps
           /\ passed' \in BOOLEAN
<1>1. /\ Running => at \in DOMAIN steps /\ at + 1 \in 1 .. Len(steps) + 1
                    /\ StepTyped(steps[at])
      /\ at \in 1 .. Len(steps) + 1 /\ test \in DOMAIN Tests /\ passed \in BOOLEAN
      /\ todo \in [Children -> [list : Seq(select_t), blocks : BOOLEAN]]
  BY StepsFacts DEF TestTyped
<1>2. test' = test /\ steps' = steps
  BY DEF Next, Main, CreateChild, JoinChild, WaitForPost, Sleep, MuAssert, EnterMain,
         LeaveMain, OtherCallMain, EnterChild, LeaveChild, Done, MainReturned, vars, steps
<1>3. todo' \in [Children -> [list : Seq(select_t), blocks : BOOLEAN]]
  <2>1. CASE CreateChild
    BY <1>1, <2>1 DEF CreateChild, Now, StepTyped
  <2>2. ASSUME NEW c \in Children, EnterChild(c)
        PROVE  todo' \in [Children -> [list : Seq(select_t), blocks : BOOLEAN]]
    BY <1>1, <2>2, EmptySeq DEF EnterChild
  <2>3. CASE UNCHANGED todo
    BY <1>1, <2>3
  <2> QED
    BY <2>1, <2>2, <2>3 DEF Next, Main, JoinChild, WaitForPost, Sleep, MuAssert, EnterMain,
         LeaveMain, OtherCallMain, LeaveChild, Done, vars
<1>4. passed' \in BOOLEAN
  BY <1>1 DEF Next, Main, CreateChild, JoinChild, WaitForPost, Sleep, MuAssert, EnterMain,
         LeaveMain, OtherCallMain, EnterChild, LeaveChild, Done, MainReturned, vars
<1> QED
  BY <1>1, <1>2, <1>3, <1>4

---------------------------------------------------------------------------
(* Which calls return in a step *)

LEMMA Longer ==
    ASSUME NEW s \in Seq(Returns), NEW r
    PROVE  Append(s, r) # s /\ Append(s, r) # <<>>
<1>1. s \in Seq(Returns \cup {r}) /\ r \in Returns \cup {r}
  <2>1. s \in [1 .. Len(s) -> Returns] /\ Len(s) \in Nat
    BY LenProperties
  <2>2. s \in [1 .. Len(s) -> Returns \cup {r}]
    BY <2>1
  <2> QED
    BY <2>1, <2>2, IsASeq
<1>2. Len(Append(s, r)) = Len(s) + 1 /\ Len(s) \in Nat
  BY <1>1, AppendProperties, LenProperties
<1> QED
  BY <1>2, EmptySeq

\* The calls of the threads in A return, and no other.
Back(A) ==
    /\ \A u \in Thread : call'[u] = IF u \in A THEN <<>> ELSE call[u]
    /\ \A u \in Thread : returned'[u] # returned[u] <=> u \in A
    /\ \A u \in A : returned'[u] # <<>>

LEMMA ReturnBack ==
    ASSUME DriverTypeOK, NEW t \in Thread, NEW r, Return(t, r)
    PROVE  Back({t})
<1>1. /\ call \in [Thread -> Seq(select_t)] /\ returned \in [Thread -> Seq(Returns)]
      /\ call' = [call EXCEPT ![t] = <<>>]
      /\ returned' = [returned EXCEPT ![t] = Append(returned[t], r)]
  BY DEF DriverTypeOK, Return
<1>2. returned'[t] # returned[t] /\ returned'[t] # <<>>
  BY <1>1, Longer
<1> QED
  BY <1>1, <1>2 DEF Back

\* A call returns alone or with one that waited.
LEMMA PerformBack ==
    ASSUME DriverTypeOK, NEW t \in Thread, NEW list \in Seq(select_t),
           NEW i \in DOMAIN list, Perform(t, list, i)
    PROVE  /\ state' = state
           /\ \E A \in SUBSET Thread :
                t \in A /\ Back(A) /\ \A u \in A \ {t} : call[u] # <<>>
<1> DEFINE o == list[i]
<1>1. o \in select_t
  BY OptionsOfList
<1>2. /\ state' = state
      /\ \/ OnClosed(t, o, i) \/ ThroughQueue(t, o, i)
         \/ \E u \in Partners(o, t) : Meet(t, o, i, u)
  BY DEF Perform
<1> HIDE DEF o
<1>3. ASSUME NEW r, Return(t, r)
      PROVE  \E A \in SUBSET Thread :
               t \in A /\ Back(A) /\ \A u \in A \ {t} : call[u] # <<>>
  <2>1. {t} \in SUBSET Thread /\ t \in {t} /\ \A u \in {t} \ {t} : call[u] # <<>>
    OBVIOUS
  <2> QED
    BY <1>3, <2>1, ReturnBack
<1>4. ASSUME NEW u \in Partners(o, t), Meet(t, o, i, u)
      PROVE  \E A \in SUBSET Thread :
               t \in A /\ Back(A) /\ \A v \in A \ {t} : call[v] # <<>>
  <2>1. u \in Thread /\ u # t /\ call[u] # <<>>
    BY DEF Partners
  <2>2. PICK r, q :
          /\ call' = [call EXCEPT ![t] = <<>>, ![u] = <<>>]
          /\ returned' = [returned EXCEPT ![t] = Append(@, r), ![u] = Append(@, q)]
    BY <1>4 DEF Meet
  <2>3. /\ returned'[t] = Append(returned[t], r) /\ returned'[u] = Append(returned[u], q)
        /\ \A v \in Thread \ {t, u} : returned'[v] = returned[v]
        /\ \A v \in Thread : call'[v] = IF v \in {t, u} THEN <<>> ELSE call[v]
        /\ \A v \in Thread : returned[v] \in Seq(Returns)
    BY <2>1, <2>2 DEF DriverTypeOK
  <2>4. \A v \in {t, u} : returned'[v] # returned[v] /\ returned'[v] # <<>>
    BY <2>1, <2>3, Longer
  <2>5. Back({t, u})
    BY <2>3, <2>4 DEF Back
  <2>6. {t, u} \in SUBSET Thread /\ t \in {t, u} /\ \A v \in {t, u} \ {t} : call[v] # <<>>
    BY <2>1
  <2> QED
    BY <2>5, <2>6
<1> QED
  BY <1>2, <1>3, <1>4 DEF OnClosed, ThroughQueue

LEMMA TryBack ==
    ASSUME DriverTypeOK, NEW t \in Thread, NEW o \in select_t, Try(t, o)
    PROVE  /\ state' = state
           /\ \E A \in SUBSET Thread :
                t \in A /\ Back(A) /\ \A u \in A \ {t} : call[u] # <<>>
<1>1. CASE Perform(t, <<o>>, 1)
  <2>1. <<o>> \in Seq(select_t) /\ 1 \in DOMAIN <<o>>
    OBVIOUS
  <2> QED
    BY <1>1, <2>1, PerformBack
<1>2. ASSUME NEW r, Return(t, r), state' = state
      PROVE  /\ state' = state
             /\ \E A \in SUBSET Thread :
                  t \in A /\ Back(A) /\ \A u \in A \ {t} : call[u] # <<>>
  <2>1. {t} \in SUBSET Thread /\ t \in {t} /\ \A u \in {t} \ {t} : call[u] # <<>>
    OBVIOUS
  <2> QED
    BY <1>2, <2>1, ReturnBack
<1> QED
  BY <1>1, <1>2 DEF Try

---------------------------------------------------------------------------
(* The steps of a test, by what they do to the threads *)

\* Main takes a step that calls no driver.
MainGoes ==
    /\ Running /\ at' = at + 1
    /\ UNCHANGED <<driverVars, test>>
    /\ steps[at].do # "call"
    /\ steps[at].do = "join" => HasReturned(steps[at].child)
    /\ IF steps[at].do = "create"
         THEN todo' = [todo EXCEPT ![steps[at].child] =
                          [list |-> steps[at].todo, blocks |-> steps[at].blocks]]
         ELSE todo' = todo

MainEnters ==
    /\ Now("call")
    /\ call' = [call EXCEPT ![0] = steps[at].list]
    /\ UNCHANGED <<state, returned, test, at, todo>>

ChildEnters(c) ==
    /\ todo[c].list # <<>>
    /\ call' = [call EXCEPT ![c] = todo[c].list]
    /\ todo' = [todo EXCEPT ![c].list = <<>>]
    /\ UNCHANGED <<state, returned, test, at>>

CallsReturn(A) ==
    /\ Back(A)
    /\ test' = test /\ at' = IF 0 \in A THEN at + 1 ELSE at
    /\ \A c \in Children : todo'[c].list = IF c \in A THEN <<>> ELSE todo[c].list
    /\ \A c \in A \cap Children : call[c] # <<>> \/ todo[c].list # <<>>
    /\ 0 \in A => Running /\ steps[at].do \notin {"create", "join"}
    /\ \A d \in Drivers : state'[d] = "destroyed" =>
          \/ state[d] = "destroyed"
          \/ 0 \in A /\ steps[at].do = "destroy" /\ steps[at].driver = d

\* t's call returns, with those it meets, and main goes on if its call is one.
LEMMA ReturnsOf ==
    ASSUME TestTyped, ChildInv, MainInv, NEW t \in Thread, NEW A \in SUBSET Thread,
           t \in A, Back(A), \A u \in A \ {t} : call[u] # <<>>,
           t = 0 => Running /\ steps[at].do \notin {"create", "join"},
           t \in Children => call[t] # <<>> \/ todo[t].list # <<>>,
           \A c \in Children : todo'[c].list = IF c = t THEN <<>> ELSE todo[c].list,
           state' = state \/ (t = 0 /\ \A d \in Drivers : state'[d] = "destroyed" =>
                                \/ state[d] = "destroyed"
                                \/ steps[at].do = "destroy" /\ steps[at].driver = d),
           MainReturned
    PROVE  CallsReturn(A)
<1>1. 0 \in A => Running /\ steps[at].do \notin {"create", "join"}
  BY DEF MainInv, Now
<1>2. \A c \in A \cap Children : call[c] # <<>> \/ todo[c].list # <<>>
  OBVIOUS
<1>3. \A c \in Children : todo'[c].list = IF c \in A THEN <<>> ELSE todo[c].list
  BY DEF ChildInv, ChildOf
<1>4. test' = test /\ at' = IF 0 \in A THEN at + 1 ELSE at
  BY ThreadFacts DEF MainReturned, Back
<1> QED
  BY <1>1, <1>2, <1>3, <1>4 DEF CallsReturn
LEMMA NextSteps ==
    ASSUME DriverTypeOK, TestTyped, ChildInv, MainInv, Next
    PROVE  \/ UNCHANGED vars
           \/ MainGoes
           \/ MainEnters
           \/ \E c \in Children : ChildEnters(c)
           \/ \E A \in SUBSET Thread : CallsReturn(A)
<1>1. /\ Running => at \in DOMAIN steps /\ StepTyped(steps[at])
      /\ todo \in [Children -> [list : Seq(select_t), blocks : BOOLEAN]]
      /\ call \in [Thread -> Seq(select_t)]
  BY StepsFacts DEF TestTyped, DriverTypeOK
<1>2. CASE CreateChild
  BY <1>2 DEF CreateChild, MainGoes, Goes, Now
<1>3. CASE JoinChild
  BY <1>3 DEF JoinChild, MainGoes, Goes, Now
<1>4. CASE WaitForPost \/ Sleep \/ MuAssert
  BY <1>4 DEF WaitForPost, Sleep, MuAssert, MainGoes, Goes, Now
<1>5. CASE EnterMain
  BY <1>5 DEF EnterMain, Enter, MainEnters
<1>6. CASE LeaveMain
  <2>1. PICK i \in DOMAIN call[0] : Perform(0, call[0], i)
    BY <1>6 DEF LeaveMain, Leave
  <2>2. call[0] \in Seq(select_t) /\ call[0] # <<>>
    BY <1>1, <2>1, ThreadFacts
  <2>3. PICK A \in SUBSET Thread : 0 \in A /\ Back(A) /\ \A u \in A \ {0} : call[u] # <<>>
    BY <2>1, <2>2, ThreadFacts, PerformBack
  <2>4. state' = state
    BY <2>1, <2>2, ThreadFacts, PerformBack
  <2>5. Running /\ steps[at].do \notin {"create", "join"}
    BY <2>2 DEF MainInv, Now
  <2>6. \A c \in Children : todo'[c].list = IF c = 0 THEN <<>> ELSE todo[c].list
    BY <1>6, ThreadFacts DEF LeaveMain
  <2>7. CallsReturn(A)
    BY <1>6, <2>3, <2>4, <2>5, <2>6, ThreadFacts, ReturnsOf DEF LeaveMain
  <2> QED
    BY <2>7
<1>7. CASE OtherCallMain
  <2>1. /\ Running /\ steps[at].do \notin {"create", "join"}
        /\ MainReturned /\ StepTyped(steps[at])
        /\ \A c \in Children : todo'[c].list = IF c = 0 THEN <<>> ELSE todo[c].list
    BY <1>1, <1>7, ThreadFacts DEF OtherCallMain, Now
  <2>2. CASE Now("try") /\ Try(0, steps[at].option)
    <3>1. steps[at].option \in select_t
      BY <2>1, <2>2 DEF Now, StepTyped
    <3>2. PICK A \in SUBSET Thread : 0 \in A /\ Back(A) /\ \A u \in A \ {0} : call[u] # <<>>
      BY <2>2, <3>1, ThreadFacts, TryBack
    <3>3. state' = state
      BY <2>2, <3>1, ThreadFacts, TryBack
    <3>4. CallsReturn(A)
      BY <2>1, <3>2, <3>3, ThreadFacts, ReturnsOf
    <3> QED
      BY <3>4
  <2>3. CASE \/ Now("close") /\ driver_close(0, steps[at].driver)
             \/ Now("destroy") /\ driver_destroy(0, steps[at].driver)
    <3>1. PICK r : Return(0, r)
      BY <2>3 DEF driver_close, driver_destroy, Change
    <3>2. Back({0})
      BY <3>1, ThreadFacts, ReturnBack
    <3>3. \A d \in Drivers : state'[d] = "destroyed" =>
            state[d] = "destroyed" \/ (steps[at].do = "destroy" /\ steps[at].driver = d)
      <4>1. CASE Now("close") /\ driver_close(0, steps[at].driver)
        BY <4>1 DEF driver_close, Change, DriverTypeOK
      <4>2. CASE Now("destroy") /\ driver_destroy(0, steps[at].driver)
        BY <4>2 DEF driver_destroy, Change, DriverTypeOK, Now
      <4> QED
        BY <2>3, <4>1, <4>2
    <3>4. CallsReturn({0})
      BY <2>1, <3>2, <3>3, ThreadFacts, ReturnsOf
    <3> QED
      BY <3>4, ThreadFacts
  <2> QED
    BY <1>7, <2>2, <2>3 DEF OtherCallMain
<1>8. ASSUME NEW c \in Children, EnterChild(c)
      PROVE  ChildEnters(c) \/ \E A \in SUBSET Thread : CallsReturn(A)
  <2>1. todo[c].list # <<>> /\ todo' = [todo EXCEPT ![c].list = <<>>]
    BY <1>8 DEF EnterChild
  <2>2. CASE Enter(c, todo[c].list) /\ UNCHANGED <<test, at, awaited, passed>>
    BY <2>1, <2>2 DEF Enter, ChildEnters
  <2>3. CASE Try(c, todo[c].list[1]) /\ MainReturned
    <3>1. todo[c].list[1] \in select_t /\ c \in Thread /\ c # 0
      BY <2>1, TodoTyped, ThreadFacts
    <3>2. PICK A \in SUBSET Thread : c \in A /\ Back(A) /\ \A u \in A \ {c} : call[u] # <<>>
      BY <2>3, <3>1, TryBack
    <3>3. state' = state
      BY <2>3, <3>1, TryBack
    <3>4. \A e \in Children : todo'[e].list = IF e = c THEN <<>> ELSE todo[e].list
      BY <1>1, <2>1
    <3>5. CallsReturn(A)
      BY <2>1, <2>3, <3>1, <3>2, <3>3, <3>4, ReturnsOf
    <3> QED
      BY <3>5
  <2> QED
    BY <1>8, <2>2, <2>3 DEF EnterChild
<1>9. ASSUME NEW c \in Children, LeaveChild(c)
      PROVE  \E A \in SUBSET Thread : CallsReturn(A)
  <2>1. PICK i \in DOMAIN call[c] : Perform(c, call[c], i)
    BY <1>9 DEF LeaveChild, Leave
  <2>2. call[c] \in Seq(select_t) /\ call[c] # <<>> /\ c \in Thread /\ c # 0
    BY <1>1, <2>1, ThreadFacts
  <2>3. PICK A \in SUBSET Thread : c \in A /\ Back(A) /\ \A u \in A \ {c} : call[u] # <<>>
    BY <2>1, <2>2, PerformBack
  <2>4. state' = state
    BY <2>1, <2>2, PerformBack
  <2>5. \A e \in Children : todo'[e].list = IF e = c THEN <<>> ELSE todo[e].list
    BY <1>9, <2>2 DEF LeaveChild, ChildInv, ChildOf
  <2>6. CallsReturn(A)
    BY <1>9, <2>2, <2>3, <2>4, <2>5, ReturnsOf DEF LeaveChild
  <2> QED
    BY <2>6
<1> QED
  BY <1>2, <1>3, <1>4, <1>5, <1>6, <1>7, <1>8, <1>9 DEF Next, Main, Done

---------------------------------------------------------------------------
(* Where main is *)

LEMMA StepTested ==
    ASSUME DriverTypeOK, TestTyped, ChildInv, MainInv, Next
    PROVE  /\ TestTyped' /\ test' = test /\ steps' = steps
           /\ at' = at \/ at' = at + 1
<1>1. /\ Running => at + 1 \in 1 .. Len(steps) + 1
      /\ at \in 1 .. Len(steps) + 1 /\ test \in DOMAIN Tests
  BY StepsFacts DEF TestTyped
<1>2. at' = at \/ (Running /\ at' = at + 1)
  BY NextSteps DEF MainGoes, MainEnters, ChildEnters, CallsReturn, vars
<1>3. /\ todo' \in [Children -> [list : Seq(select_t), blocks : BOOLEAN]]
      /\ test' = test /\ steps' = steps /\ passed' \in BOOLEAN
  BY StepTodo
<1>4. at' \in 1 .. Len(steps) + 1
  BY <1>1, <1>2
<1> QED
  BY <1>1, <1>2, <1>3, <1>4 DEF TestTyped

LEMMA StepMain ==
    ASSUME DriverTypeOK, TestTyped, ChildInv, MainInv, Next
    PROVE  MainInv'
<1>1. steps' = steps
  BY StepTested
<1>2. CASE UNCHANGED vars
  BY <1>1, <1>2 DEF vars, driverVars, MainInv, Now, Running
<1>3. CASE MainGoes
  <2>1. call'[0] = <<>>
    BY <1>3 DEF MainGoes, MainInv, Now, driverVars
  <2> QED
    BY <2>1 DEF MainInv
<1>4. CASE MainEnters
  BY <1>1, <1>4, ThreadFacts DEF MainEnters, MainInv, Now, Running, DriverTypeOK
<1>5. ASSUME NEW c \in Children, ChildEnters(c)
      PROVE  MainInv'
  <2>1. call'[0] = call[0] /\ at' = at
    BY <1>5, ThreadFacts DEF ChildEnters, DriverTypeOK
  <2> QED
    BY <1>1, <2>1 DEF MainInv, Now, Running
<1>6. ASSUME NEW A \in SUBSET Thread, CallsReturn(A)
      PROVE  MainInv'
  <2>1. IF 0 \in A THEN call'[0] = <<>> ELSE call'[0] = call[0] /\ at' = at
    BY <1>6, ThreadFacts DEF CallsReturn, Back
  <2> QED
    BY <1>1, <2>1 DEF MainInv, Now, Running
<1> QED
  BY <1>2, <1>3, <1>4, <1>5, <1>6, NextSteps

LEMMA StepDestroy ==
    ASSUME DriverTypeOK, TestTyped, ChildInv, MainInv, DestroyInv, Next
    PROVE  DestroyInv'
<1> SUFFICES ASSUME NEW d \in Drivers, state'[d] = "destroyed"
             PROVE  \E k \in DOMAIN steps :
                      k < at' /\ steps[k].do = "destroy" /\ steps[k].driver = d
  BY StepTested DEF DestroyInv
<1>1. /\ at \in Nat /\ (at' = at \/ at' = at + 1)
      /\ DOMAIN steps \subseteq Nat /\ (Running => at \in DOMAIN steps)
  BY StepTested, StepsFacts
<1>2. CASE state[d] = "destroyed"
  <2>1. PICK k \in DOMAIN steps : k < at /\ steps[k].do = "destroy" /\ steps[k].driver = d
    BY <1>2 DEF DestroyInv
  <2>2. k < at'
    BY <1>1, <2>1
  <2> QED
    BY <2>1, <2>2
<1>3. CASE state[d] # "destroyed"
  <2>1. PICK A \in SUBSET Thread : CallsReturn(A)
    BY <1>3, NextSteps DEF MainGoes, MainEnters, ChildEnters, vars, driverVars
  <2>2. /\ at' = at + 1 /\ Running /\ steps[at].do = "destroy" /\ steps[at].driver = d
    BY <1>3, <2>1 DEF CallsReturn
  <2> QED
    BY <1>1, <2>2
<1> QED
  BY <1>2, <1>3
---------------------------------------------------------------------------
(* Where the children are *)

\* Which steps are behind main after a step: the one it has left, if it has
LEMMA StepBehind ==
    ASSUME DriverTypeOK, TestTyped, ChildInv, MainInv, Next
    PROVE  \A k \in DOMAIN steps : \A do, c :
              Behind(k, do, c)' <=>
                \/ Behind(k, do, c)
                \/ k = at /\ at' = at + 1 /\ steps[k].do = do /\ steps[k].child = c
<1>1. /\ steps' = steps /\ (at' = at \/ at' = at + 1)
      /\ at \in Nat /\ DOMAIN steps \subseteq Nat
  BY StepTested, StepsFacts
<1>2. \A k \in DOMAIN steps : k < at' <=> k < at \/ (k = at /\ at' = at + 1)
  BY <1>1
<1> QED
  BY <1>1, <1>2 DEF Behind

\* A thread is created once.
LEMMA CreatedNow ==
    ASSUME TestTyped, Running, steps[at].do = "create",
           NEW k \in DOMAIN steps, Behind(k, "create", steps[at].child)
    PROVE  FALSE
<1>1. at \in DOMAIN steps /\ WellFormed(steps) /\ at \in Nat
  BY StepsFacts
<1>2. steps[k].do = "create" /\ steps[k].child = steps[at].child /\ k < at
  BY DEF Behind
<1>3. k = at
  BY <1>1, <1>2 DEF WellFormed
<1> QED
  BY <1>1, <1>2, <1>3

LEMMA StepChild ==
    ASSUME DriverTypeOK, TestTyped, ChildInv, MainInv, Next
    PROVE  ChildInv'
<1> SUFFICES ASSUME NEW c \in Children
             PROVE  ChildOf(c)'
  BY DEF ChildInv
<1>1. /\ steps' = steps /\ c \in Thread /\ c # 0
      /\ call \in [Thread -> Seq(select_t)]
      /\ todo \in [Children -> [list : Seq(select_t), blocks : BOOLEAN]]
      /\ ChildOf(c)
  BY StepTested, ThreadFacts DEF DriverTypeOK, TestTyped, ChildInv
<1>2. \A k \in DOMAIN steps : \A do :
         Behind(k, do, c)' <=>
           \/ Behind(k, do, c)
           \/ k = at /\ at' = at + 1 /\ steps[k].do = do /\ steps[k].child = c
  BY StepBehind
\* A thread nobody moves, and that main neither creates nor joins, is where it was.
<1>3. ASSUME call'[c] = call[c], returned'[c] = returned[c], todo'[c].list = todo[c].list,
             at' = at + 1 => steps[at].do \notin {"create", "join"}
                             \/ steps[at].child # c
      PROVE  ChildOf(c)'
  <2>1. \A k \in DOMAIN steps, do \in {"create", "join"} :
           Behind(k, do, c)' <=> Behind(k, do, c)
    BY <1>2, <1>3
  <2>2. HasReturned(c)' <=> HasReturned(c)
    BY <1>3 DEF HasReturned
  <2> QED
    BY <1>1, <1>3, <2>1, <2>2 DEF ChildOf
<1>4. CASE UNCHANGED vars
  <2>1. /\ call'[c] = call[c] /\ returned'[c] = returned[c] /\ todo'[c].list = todo[c].list
        /\ at' = at /\ at \in Nat
    BY <1>4, StepsFacts DEF vars, driverVars
  <2> QED
    BY <1>3, <2>1
<1>5. CASE MainGoes
  <2>1. /\ call' = call /\ returned' = returned /\ at' = at + 1 /\ Running
        /\ at \in DOMAIN steps /\ StepTyped(steps[at]) /\ StepTyped(steps[at])
    BY <1>5, StepsFacts DEF MainGoes, driverVars
  <2>2. CASE steps[at].do = "create" /\ steps[at].child = c
    <3>1. \A k \in DOMAIN steps : ~Behind(k, "create", c)
      BY <2>1, <2>2, CreatedNow
    <3>2. todo[c].list = <<>> /\ call[c] = <<>> /\ ~HasReturned(c)
      BY <1>1, <3>1 DEF ChildOf
    <3>3. todo'[c].list = steps[at].todo /\ call'[c] = <<>> /\ ~HasReturned(c)'
      BY <1>1, <1>5, <2>1, <2>2, <3>2 DEF MainGoes, HasReturned
    <3>4. \A k \in DOMAIN steps : Behind(k, "create", c)' <=> k = at
      BY <1>2, <2>1, <2>2, <3>1
    <3>5. \A k \in DOMAIN steps : ~Behind(k, "join", c)'
      BY <1>1, <1>2, <2>2, <3>2 DEF ChildOf
    <3> QED
      BY <1>1, <2>1, <3>3, <3>4, <3>5 DEF ChildOf
  <2>3. CASE steps[at].do = "join" /\ steps[at].child = c
    <3>1. HasReturned(c) /\ HasReturned(c)' /\ todo' = todo
      BY <1>5, <2>1, <2>3 DEF MainGoes, HasReturned
    <3>2. \A k \in DOMAIN steps : Behind(k, "create", c)' <=> Behind(k, "create", c)
      BY <1>2, <2>3
    <3> QED
      BY <1>1, <2>1, <3>1, <3>2 DEF ChildOf
  <2>4. CASE steps[at].do \notin {"create", "join"} \/ steps[at].child # c
    <3>1. todo'[c].list = todo[c].list
      BY <1>1, <1>5, <2>1, <2>4 DEF MainGoes, StepTyped
    <3> QED
      BY <1>3, <2>1, <2>4, <3>1
  <2> QED
    BY <2>2, <2>3, <2>4
<1>6. CASE MainEnters
  <2>1. /\ call'[c] = call[c] /\ returned'[c] = returned[c] /\ todo'[c].list = todo[c].list
        /\ at' = at /\ at \in Nat
    BY <1>1, <1>6, StepsFacts DEF MainEnters
  <2> QED
    BY <1>3, <2>1
<1>7. ASSUME NEW e \in Children, ChildEnters(e)
      PROVE  ChildOf(c)'
  <2>1. /\ returned' = returned /\ at' = at /\ at \in Nat /\ todo[e].list # <<>>
        /\ call' = [call EXCEPT ![e] = todo[e].list]
        /\ todo' = [todo EXCEPT ![e].list = <<>>]
    BY <1>7, StepsFacts DEF ChildEnters
  <2>2. CASE e # c
    <3>1. call'[c] = call[c] /\ todo'[c].list = todo[c].list
      BY <1>1, <2>1, <2>2
    <3> QED
      BY <1>3, <2>1, <3>1
  <2>3. CASE e = c
    <3>1. call'[c] = todo[c].list /\ todo'[c].list = <<>> /\ todo[c].list # <<>>
      BY <1>1, <2>1, <2>3
    <3>2. \A k \in DOMAIN steps : \A do : Behind(k, do, c)' <=> Behind(k, do, c)
      BY <1>2, <2>1
    <3>3. ~HasReturned(c) /\ ~HasReturned(c)'
      BY <1>1, <2>1, <3>1 DEF ChildOf, HasReturned
    <3> QED
      BY <1>1, <3>1, <3>2, <3>3 DEF ChildOf
  <2> QED
    BY <2>2, <2>3
<1>8. ASSUME NEW A \in SUBSET Thread, CallsReturn(A)
      PROVE  ChildOf(c)'
  <2>1. /\ at' = at + 1 => steps[at].do \notin {"create", "join"}
        /\ call'[c] = IF c \in A THEN <<>> ELSE call[c]
        /\ returned'[c] # returned[c] <=> c \in A
        /\ c \in A => returned'[c] # <<>>
        /\ todo'[c].list = IF c \in A THEN <<>> ELSE todo[c].list
        /\ c \in A => call[c] # <<>> \/ todo[c].list # <<>>
    <3>1. at \in Nat
      BY StepsFacts
    <3> QED
      BY <1>1, <1>8, <3>1 DEF CallsReturn, Back
  <2>2. CASE c \in A
    <3>1. HasReturned(c)' /\ call'[c] = <<>> /\ todo'[c].list = <<>>
      BY <2>1, <2>2 DEF HasReturned
    <3>2. \A k \in DOMAIN steps, do \in {"create", "join"} :
             Behind(k, do, c)' <=> Behind(k, do, c)
      BY <1>2, <2>1
    <3>3. \E k \in DOMAIN steps : Behind(k, "create", c)
      BY <1>1, <2>1, <2>2 DEF ChildOf
    <3> QED
      BY <1>1, <3>1, <3>2, <3>3 DEF ChildOf
  <2>3. CASE c \notin A
    BY <1>3, <2>1, <2>3
  <2> QED
    BY <2>2, <2>3
<1> QED
  BY <1>4, <1>5, <1>6, <1>7, <1>8, NextSteps
---------------------------------------------------------------------------
(* The semaphore *)

\* sem_wait returned no more often than children have posted.
AwaitedInv == awaited \in 0 .. Posted

LEMMA ChildrenFinite == IsFiniteSet(Children)
<1>1. PICK n \in Nat : Children = 1 .. n
  BY DEF Children
<1>2. IsFiniteSet(1 .. n)
  BY FS_Interval
<1> QED
  BY <1>1, <1>2

LEMMA PostedTypes == Posted \in Nat
<1>1. IsFiniteSet({c \in Children : HasReturned(c)})
  BY ChildrenFinite, FS_Subset
<1> QED
  BY <1>1, FS_CardinalityType DEF Posted

\* A thread that has returned stays so.
LEMMA PostedGrows ==
    ASSUME DriverTypeOK, TestTyped, ChildInv, MainInv, Next
    PROVE  Posted' \in Nat /\ Posted <= Posted'
<1> DEFINE S == {c \in Children : HasReturned(c)}
           T == {c \in Children : returned'[c] # <<>>}
<1>1. ASSUME NEW c \in Children, HasReturned(c)
      PROVE  returned'[c] # <<>>
  BY <1>1, NextSteps, ThreadFacts
     DEF HasReturned, MainGoes, MainEnters, ChildEnters, CallsReturn, Back, vars, driverVars
<1>2. S \subseteq T
  BY <1>1
<1>3. IsFiniteSet(T)
  BY ChildrenFinite, FS_Subset
<1>4. Cardinality(S) <= Cardinality(T) /\ Cardinality(T) \in Nat
  <2> HIDE DEF S, T
  <2> QED
    BY <1>2, <1>3, FS_Subset, FS_CardinalityType
<1>5. Posted = Cardinality(S) /\ Posted' = Cardinality(T)
  BY DEF Posted, HasReturned
<1> QED
  BY <1>4, <1>5

LEMMA StepAwaited ==
    ASSUME DriverTypeOK, TestTyped, ChildInv, MainInv, AwaitedInv, Next
    PROVE  AwaitedInv'
<1>1. /\ awaited \in Nat /\ awaited <= Posted /\ Posted \in Nat
      /\ Posted' \in Nat /\ Posted <= Posted'
  BY PostedTypes, PostedGrows DEF AwaitedInv
<1>2. CASE WaitForPost
  <2>1. awaited < Posted /\ awaited' = awaited + 1
    BY <1>2 DEF WaitForPost
  <2> QED
    BY <1>1, <2>1 DEF AwaitedInv
<1>3. CASE awaited' = awaited
  BY <1>1, <1>3 DEF AwaitedInv
<1> QED
  BY <1>2, <1>3
     DEF Next, Main, CreateChild, JoinChild, Sleep, MuAssert, EnterMain, LeaveMain,
         OtherCallMain, EnterChild, LeaveChild, Done, MainReturned, vars
---------------------------------------------------------------------------
(* The theorems *)

TestInv == TestTyped /\ ChildInv /\ MainInv /\ DestroyInv /\ AwaitedInv

LEMMA InitTests == Init => TestInv
<1> SUFFICES ASSUME Init PROVE TestInv
  OBVIOUS
<1>1. /\ at = 1 /\ awaited = 0 /\ TestTyped
      /\ todo = [c \in Children |-> [list |-> <<>>, blocks |-> TRUE]]
      /\ state = [d \in Drivers |-> "open"] /\ call = [t \in Thread |-> <<>>]
      /\ returned = [t \in Thread |-> <<>>]
  BY InitTyped DEF Init, driver_create
<1>2. \A k \in DOMAIN steps : \A do, c : ~Behind(k, do, c)
  BY <1>1, StepsFacts DEF Behind
<1>3. ChildInv
  BY <1>1, <1>2, ThreadFacts DEF ChildInv, ChildOf, HasReturned
<1>4. MainInv /\ DestroyInv
  BY <1>1, ThreadFacts DEF MainInv, DestroyInv
<1>5. AwaitedInv
  BY <1>1, PostedTypes DEF AwaitedInv
<1> QED
  BY <1>1, <1>3, <1>4, <1>5 DEF TestInv

LEMMA StepTests == DriverTypeOK /\ TestInv /\ [Next]_vars => TestInv'
<1>1. ASSUME DriverTypeOK, TestInv, Next
      PROVE  TestInv'
  BY <1>1, StepTested, StepChild, StepMain, StepDestroy, StepAwaited DEF TestInv
<1>2. ASSUME TestInv, UNCHANGED vars
      PROVE  TestInv'
  BY <1>2 DEF vars, driverVars, TestInv, TestTyped, ChildInv, ChildOf, Behind, HasReturned,
              MainInv, Now, Running, DestroyInv, AwaitedInv, Posted, steps
<1> QED
  BY <1>1, <1>2

LEMMA TestsInductive == Spec => [](DriverTypeOK /\ TestInv)
<1>1. TestInv => TestTyped
  BY DEF TestInv
<1>2. DriverTypeOK /\ TestInv /\ [Next]_vars => DriverTypeOK'
  <2>1. DriverTypeOK /\ UNCHANGED driverVars => DriverTypeOK'
    BY DEF driverVars, DriverTypeOK
  <2>2. UNCHANGED vars => UNCHANGED driverVars
    BY DEF vars
  <2> QED
    BY <1>1, <2>1, <2>2, StepClient, ClientEffect, StepDriver
<1>3. Init => DriverTypeOK
  BY InitClient, InitDriver
<1> QED
  BY <1>2, <1>3, InitTests, StepTests, PTL DEF Spec

\* Main and the threads it creates make no call that Client does not.
THEOREM TestsAreClients == Spec => ClientSpec
<1>1. TestInv /\ [Next]_vars => [\E t \in Thread : Client(t)]_driverVars
  BY StepClient DEF TestInv, vars
<1> QED
  BY <1>1, InitClient, TestsInductive, PTL DEF Spec, ClientSpec

\* The variables of the driver and of the tests have their types, no queue is
\* over its size, and main is past its last step at most.
THEOREM TestsTyped == Spec => []TypeOK
<1>1. DriverTypeOK /\ TestInv => TypeOK
  BY DEF TestInv, TestTyped, AwaitedInv, TypeOK
<1> QED
  BY <1>1, TestsInductive, PTL

\* In every test and every scheduling a job whose schedule succeeded is in the
\* queue or went to exactly one handle.
THEOREM TestsHandleOnce == Spec => []HandledOnce
  BY TestsAreClients, ClientsHandledOnce, PTL

LEMMA DestroyedFree == TestInv => DestroyedUnused
<1> SUFFICES ASSUME TestInv, NEW t \in Thread, NEW d \in Drivers, state[d] = "destroyed"
             PROVE  ~On(call[t], d) /\ (t \in Children => ~On(todo[t].list, d))
  BY DEF DestroyedUnused
<1>1. PICK k \in DOMAIN steps : k < at /\ steps[k].do = "destroy" /\ steps[k].driver = d
  BY DEF TestInv, DestroyInv
<1>2. WellFormed(steps) /\ DOMAIN steps \subseteq Nat /\ at \in Nat
      /\ (Running => at \in DOMAIN steps)
  BY StepsFacts DEF TestInv
<1>3. ~On(<<>>, d)
  BY DEF On
<1>4. ASSUME t = 0, On(call[t], d)
      PROVE  FALSE
  <2>1. Now("call") /\ On(steps[at].list, d)
    BY <1>3, <1>4 DEF TestInv, MainInv
  <2>2. at < k
    BY <1>1, <1>2, <2>1 DEF WellFormed, Now
  <2> QED
    BY <1>1, <1>2, <2>2
<1>5. ASSUME t \in Children, On(call[t], d) \/ On(todo[t].list, d)
      PROVE  FALSE
  <2>1. ChildOf(t)
    BY <1>5 DEF TestInv, ChildInv
  <2>2. PICK m \in DOMAIN steps : Behind(m, "create", t)
    BY <1>3, <1>5, <2>1 DEF ChildOf
  <2>3. On(steps[m].todo, d) /\ steps[m].do = "create" /\ steps[m].child = t
    BY <1>3, <1>5, <2>1, <2>2 DEF ChildOf, Behind
  <2>4. JoinedBetween(steps, m, k)
    BY <1>1, <1>2, <2>3 DEF WellFormed
  <2>5. PICK l \in m + 1 .. k - 1 : steps[l].do = "join" /\ steps[l].child = t
    BY <2>3, <2>4 DEF JoinedBetween
  <2>6. l \in DOMAIN steps /\ l < at
    <3>1. DOMAIN steps = 1 .. Len(steps) /\ Len(steps) \in Nat
      BY StepsFacts DEF TestInv
    <3> QED
      BY <1>1, <1>2, <3>1
  <2>7. HasReturned(t)
    BY <2>1, <2>5, <2>6 DEF ChildOf, Behind
  <2> QED
    BY <1>3, <1>5, <2>1, <2>7 DEF ChildOf
<1> QED
  BY <1>4, <1>5, ThreadFacts

\* Main destroys a driver only when no thread is in a call on it and none will
\* make one.
THEOREM TestsDestroyUnused == Spec => []DestroyedUnused
  BY DestroyedFree, TestsInductive, PTL
=============================================================================
