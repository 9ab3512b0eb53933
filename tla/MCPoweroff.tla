----------------------------- MODULE MCPoweroff -----------------------------
(* The sizes of the program itself, 2048 entries (CORE_BITS) and 20        *)
(* modules.  Of the counts of freed entries only a few are looked at: the  *)
(* ends, and the two sides of each percentage the programs compare with    *)
(* (60, 90 and 99 percent of 4159 are reached at 405, 1653 and 2027).      *)
EXTENDS Poweroff

MCLooks    == {1, 404, 405, 1652, 1653, 2026, 2027, 2047, 2048}
MCFewLooks == {405, 1653, 2027, 2048}
=============================================================================
