------------------------------ MODULE MCQueue ------------------------------
(***************************************************************************)
(* Queue for TLC: capacities 0 to 4, which include the empty array, the    *)
(* one slot that is both first and last, and sizes at which next and pos   *)
(* wrap independently, with size_t five bits wide.                         *)
(***************************************************************************)
EXTENDS Queue

CONSTANTS j1, j2

MCJobs == {j1, j2}
MCCapacities == 0 .. 4
MCSizeMax == 31
MCPtrSize == 4

=============================================================================
