----------------------------- MODULE MCTeardown -----------------------------
(* Two modules: the first handles the worker's posts and writes files,     *)
(* so that the worker may be cancelled inside it; the second is thi0, with *)
(* the thread that walks the registry.                                     *)
EXTENDS Teardown

MCNone  == <<>>
MCOrder == <<2>>
=============================================================================
