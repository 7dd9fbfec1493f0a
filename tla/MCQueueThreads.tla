-------------------------- MODULE MCQueueThreads ---------------------------
(***************************************************************************)
(* QueueThreads for TLC: three threads, so that two can be in calls while  *)
(* a third returns, and capacities up to 3 with a size_t of four bits.     *)
(***************************************************************************)
EXTENDS QueueThreads, TLC

CONSTANTS j1, j2, t1, t2, t3

MCJobs == {j1, j2}
MCThread == {t1, t2, t3}
MCCapacities == 0 .. 3
MCSizeMax == 15
MCPtrSize == 4

Symmetric == Permutations(MCThread)
===========================================================================
