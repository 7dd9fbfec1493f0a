--------------------------- MODULE MCStressEpoch ---------------------------
(***************************************************************************)
(* One behaviour of Stress, on five routers and with buffers of size 1, in *)
(* which check_done accepts although a router has not converged.           *)
(*                                                                         *)
(* Every router takes the first available option of its select_list, so    *)
(* that the order in which the threads run determines the behaviour.       *)
(*                                                                         *)
(* Router 1 answers the first round and is the only one whose answer fits  *)
(* into completed_driver; 0 waits to deliver its own.  Routers 2, 3 and 4  *)
(* improve router 1's distances three times before main comes to them, so  *)
(* that 1's three buffers go round exactly once: its answer in the second  *)
(* round is the same pointer as in the first, and check_done compares the  *)
(* epoch behind it with itself.  Router 1's third announcement still waits *)
(* in router 0's driver.                                                   *)
(***************************************************************************)
EXTENDS MCStress

VARIABLE turn      \* how much of the schedule has run

I == MCInf

Links ==
    << <<0, 1, I, I, 1>>,
       <<20, 0, 6, 1, I>>,
       <<I, 1, 0, 1, 8>>,
       <<I, 1, 1, 0, 1>>,
       <<1, I, 20, 20, 0>> >>

FromZero(m) == [i \in 0 .. 4 |-> [j \in 0 .. 4 |-> m[i + 1][j + 1]]]

OneWayWeights == {FromZero(Links)}

M == -1            \* the main thread; i >= 0 is the thread of router i

Schedule ==
    <<0, 1, 4, 0, 1, 4, 3, 0, 1, 4, 2, 3, 0, 1, 2, 3, 0, 1, 2, 3, 0, 1,
      4, 2, 0, 1, 4, 0, 1, 4, 2, 0, 1, 4, 2, 0, 1, 4, 3, 0, 4, 3, 0, 1,
      4, 2, 1, 4, 2, 0, 4, 3, 0, 4, 3, 4, 4, 3, 4, 2, 3, 4, 2, 0, 0, M,
      M, 1, 1, 2, 1, 1, 1, 1, 0, 1, 2, 3, 3, 2, 2, 2, 2, 3, 3, 3, 1, 1,
      1, 2, 2, 2, 4, 4, 2, 2, 2, 2, 1, 1, 1, 1, 1, 2, 2, 3, 3, 2, 3, 3,
      3, 1, 1, 4, 4, 2, 4, 4, 3, 3, 3, 3, 1, 1, 3, 2, 2, 2, 2, 2, 2, 3,
      3, 4, 4, 2, 4, 4, 3, 4, 4, M, 2, M, 3, M, 4, M, 0, M, 2, M, 3, M,
      4, M, 0, 0, 1, 1, 1, 1, 1, 1, 1, 0, 0, 2, 2, 3, 3, M, 0, 0, 1, 1,
      1, 2, 2, 3, 3, M, 1, M, 2, M, 3, M, 4, M, 1, M, 2, M, 3, M, 4, M>>

ScheduledInit == Init /\ turn = 0

ScheduledNext ==
    /\ turn < Len(Schedule)
    /\ turn' = turn + 1
    /\ IF Schedule[turn + 1] = M THEN Main ELSE Router(Schedule[turn + 1])

ScheduledSpec == ScheduledInit /\ [][ScheduledNext]_<<vars, turn>>
=============================================================================
