----------------------------- MODULE MCModStack -----------------------------
(* Three files, two names: namesakes, and a module before and after one    *)
(* that is incomplete.  Nothing tells files or names apart but their order *)
(* of loading, so both are symmetric.                                      *)
EXTENDS ModStack

MCSymmetry == Permutations(Files) \cup Permutations(Names)
=============================================================================
