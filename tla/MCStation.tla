----------------------------- MODULE MCStation -----------------------------
(* The server with its 2048 entries and one module, and one microphone     *)
(* program.  Of the counts of freed entries only the last is looked at.     *)
EXTENDS Station

CONSTANT mic
MCClients  == {mic}
MCFewLooks == {2048}
=============================================================================
