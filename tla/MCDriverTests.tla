--------------------------- MODULE MCDriverTests ---------------------------
(***************************************************************************)
(* DriverTests for TLC: main and up to nine other threads.                 *)
(***************************************************************************)
EXTENDS DriverTests

MCThread == 0 .. 9
MCDrivers == 1 .. 3
MCJobs == {"Message", "Message1", "Message2", "Message3", "Message4",
           "Message5", "NULL"}
===========================================================================
