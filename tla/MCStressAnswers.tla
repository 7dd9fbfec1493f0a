--------------------------- MODULE MCStressAnswers --------------------------
(***************************************************************************)
(* StressAnswers on the topologies of MCStress                             *)
(***************************************************************************)
EXTENDS MCStress, StressAnswers
=============================================================================
