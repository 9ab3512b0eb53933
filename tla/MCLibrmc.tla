------------------------------ MODULE MCLibrmc ------------------------------
(* Readings of the clock 20 seconds apart: a lease taken at the first is   *)
(* overdue at the second, one taken at the second is not at the first.     *)
(* The clock is probed with the stamps of the minute that follows a        *)
(* reading, and with those from 57:50 to 01:20, around the hour.           *)
EXTENDS CtimeProbe

MCTwoTimes == {<<30, 10>>, <<30, 30>>}
MCDelays   == 0..59 \cup 1660..1850
=============================================================================
