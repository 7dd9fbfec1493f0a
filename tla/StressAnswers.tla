--------------------------- MODULE StressAnswers ---------------------------
(***************************************************************************)
(* Stress with a memory: the epoch each router was in when it answered     *)
(* check_done in each round.  The program has no such memory; check_done   *)
(* keeps a pointer from the first round and reads the epoch behind it in   *)
(* the second one (stress.c:275), when the vector may hold another epoch.  *)
(* With it one can say what check_done does establish, although with a     *)
(* buffer of 1 Agreement and ClosedWhenQuiet are violated.                 *)
(***************************************************************************)
EXTENDS Stress

VARIABLE answered    \* answered[k][r]: r's epoch when it answered in round k of
                     \* this check_done, 0 before

answersVars == <<vars, answered>>

\* The number of r's current state
Epoch(r) == Deref(curr_state(r)).epoch

\* r answers in this step.
Answering(r) == pc[r] = "reply" /\ pc'[r] # "reply"

Nothing == [k \in 1 .. 2 |-> [r \in Node |-> 0]]

Remember ==
    answered' = IF Sleep THEN Nothing
                ELSE [answered EXCEPT ![round] =
                        [r \in Node |-> IF Answering(r) THEN Epoch(r) ELSE @[r]]]

AnswersInit == Init /\ answered = Nothing

AnswersSpec == AnswersInit /\ [][Next /\ Remember]_answersVars

---------------------------------------------------------------------------
(* Properties *)

\* r's buffers have gone round between its two answers, once or several times,
\* so that both are the same pointer.
Lapped(r) ==
    /\ answered[1][r] < answered[2][r]
    /\ (answered[2][r] - answered[1][r]) % 3 = 0

\* check_done accepts nothing but the solution, unless a router was lapped: the
\* comparison of epochs at stress.c:275 detects every router that went through
\* one or two epochs between its answers, although it reads both epochs late.
AgreementUnlessLapped == Agreement \/ \E r \in Node : Lapped(r)

\* For the same reason main closes done_driver only when nothing is left to
\* read, to send or to announce, or a router was lapped.
ClosedWhenQuietUnlessLapped == ClosedWhenQuiet \/ \E r \in Node : Lapped(r)
=============================================================================
