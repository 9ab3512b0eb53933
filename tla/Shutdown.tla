------------------------------ MODULE Shutdown ------------------------------
(***************************************************************************)
(* What the users of the server may rely on when it ends.  While it serves *)
(* nothing of it is freed; it closes once, on a wish that was expressed    *)
(* since it began to serve; it gives back what it holds bit by bit, never  *)
(* more than there is; and it leaves by itself only when all is freed.     *)
(* Killing it is possible at any time, and forgets all of this but the     *)
(* wish.                                                                   *)
(***************************************************************************)
EXTENDS Integers

CONSTANT All       \* how much there is to free

VARIABLES stage,   \* see TypeOK; "down" if it was killed or never started
          freed,   \* how much of it is freed
          wanted   \* somebody wishes it to end

vars == <<stage, freed, wanted>>

TypeOK ==
    /\ stage \in {"down", "starting", "serving", "closing", "closed", "off"}
    /\ freed \in 0..All
    /\ wanted \in BOOLEAN

Init == stage = "down" /\ freed = 0 /\ wanted = FALSE

Wish ==
    /\ wanted' = TRUE
    /\ UNCHANGED <<stage, freed>>

Start ==
    /\ stage \in {"down", "off"}
    /\ stage' = "starting" /\ freed' = 0
    /\ UNCHANGED wanted

(* What was wished for before it serves is forgotten.                      *)
Serve ==
    /\ stage = "starting"
    /\ stage' = "serving" /\ wanted' = FALSE
    /\ UNCHANGED freed

Close ==
    /\ stage = "serving" /\ wanted
    /\ stage' = "closing"
    /\ freed' \in 1..All
    /\ UNCHANGED wanted

Free ==
    /\ stage = "closing"
    /\ freed' \in (freed + 1)..All
    /\ UNCHANGED <<stage, wanted>>

Closed ==
    /\ stage = "closing" /\ freed = All
    /\ stage' = "closed"
    /\ UNCHANGED <<freed, wanted>>

Leave ==
    /\ stage = "closed"
    /\ stage' = "off"
    /\ UNCHANGED <<freed, wanted>>

Kill ==
    /\ stage \notin {"down", "off"}
    /\ stage' = "down" /\ freed' = 0
    /\ UNCHANGED wanted

Next == Wish \/ Start \/ Serve \/ Close \/ Free \/ Closed \/ Leave \/ Kill

Spec == Init /\ [][Next]_vars
=============================================================================
