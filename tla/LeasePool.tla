----------------------------- MODULE LeasePool ------------------------------
(***************************************************************************)
(* What a request may rely on: a slot is lent to one holder at a time and  *)
(* comes back, one slot at a time, only through a collector; a collector   *)
(* that has stopped does not start again.                                  *)
(***************************************************************************)
CONSTANT Slots

VARIABLES leased,   \* slots that are lent
          alive     \* the collector still works

vars == <<leased, alive>>

Init ==
    /\ leased = {}
    /\ alive = TRUE

Lend(s) ==
    /\ s \in Slots \ leased
    /\ leased' = leased \cup {s}
    /\ UNCHANGED alive

Collect(s) ==
    /\ alive
    /\ s \in leased
    /\ leased' = leased \ {s}
    /\ alive' \in BOOLEAN

Stop ==
    /\ alive
    /\ alive' = FALSE
    /\ UNCHANGED leased

Next == Stop \/ \E s \in Slots : Lend(s) \/ Collect(s)

Spec == Init /\ [][Next]_vars
=============================================================================
