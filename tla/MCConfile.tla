------------------------------ MODULE MCConfile -----------------------------
(* A code of four characters and one of ten; the option is the last one  *)
(* of the command line (behind it comes the environment) or another one    *)
(* follows.  Six runs: an encoding, a decoding and loads, and each again.   *)
EXTENDS Confile
=============================================================================
