---------------------------- MODULE MCDescriptors ----------------------------
(* Two connections, two descriptors, a buffer of three bytes.  A client    *)
(* sends a line that fills the buffer and then an empty one, or a line     *)
(* whose end hides behind a second CR, so that it grows too long.          *)
EXTENDS Descriptors

CONSTANTS c1, c2

Full   == <<"x", "r", "n", "r", "n">>
Hidden == <<"r", "r", "n", "r">>

MCScripts  == {Full, Hidden}
TwoClients == {c1, c2}
=============================================================================
