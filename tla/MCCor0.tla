------------------------------- MODULE MCCor0 -------------------------------
(* Four requests: the slot is filled, emptied and filled again, with the   *)
(* same code as before or with another one.                                *)
EXTENDS Cor0
=============================================================================
