-------------------------------- MODULE Ctl10 --------------------------------
(***************************************************************************)
(* driver/ctl10/ctl10.c: the character device /dev/crlx0.  It keeps two    *)
(* integers for whichever programs open it, and outlives all of them: the  *)
(* server publishes its progress in one and croffw asks for power-off in   *)
(* the other.  The module gives the write commands as actions; the read    *)
(* commands PROGREAD and STATEOFF are the variables themselves.            *)
(***************************************************************************)
EXTENDS Integers

DISABLE == 2             \* CTL10_DISABLE_VALUE

VARIABLES progress_value, poweroff_value
ctl10 == <<progress_value, poweroff_value>>

DriverInit ==
    /\ progress_value = -1
    /\ poweroff_value = 1

PROGWRITE(v) ==
    /\ progress_value' = v
    /\ UNCHANGED poweroff_value

POWEROFF(v) ==
    /\ poweroff_value' = v
    /\ UNCHANGED progress_value

(* Any value but 1 is replaced by a copy from user address 1, which fails  *)
(* and leaves zero.                                                        *)
RESTART(v) ==
    /\ poweroff_value' = IF v = 1 THEN 1 ELSE 0
    /\ UNCHANGED progress_value
=============================================================================
