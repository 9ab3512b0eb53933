----------------------------- MODULE CtimeProbe -----------------------------
(***************************************************************************)
(* The clock as the request table uses it: a stamp that get_time_start     *)
(* takes some seconds from the present, polled once a second from then on, *)
(* as the reaper polls every request (library/librmc/proc.c).  The present *)
(* is the start of the server, before its table has an entry: what the     *)
(* clock will show of a stamp does not depend on what the table does.      *)
(***************************************************************************)
EXTENDS Librmc

CONSTANTS Delays,    \* seconds until a stamp is taken
          MaxAge     \* BOUND: how long it is followed, in seconds

ASSUME ProbeAssumption == Delays \subseteq Nat /\ MaxAge \in 1..3599

(* What the clock shows age seconds after it showed t.                     *)
After(t, age) ==
    <<(Min(t) + (Sec(t) + age) \div 60) % 60, (Sec(t) + age) % 60>>

AtStart == phase = "init" /\ count = 0

Stamped == {After(clock, delay) : delay \in Delays}

Judged(t, age) == GetTimeFinal(t, After(t, age)).utime > Limit
-----------------------------------------------------------------------------
(* The loop of get_time_final comes to one of its seven breaks, and the    *)
(* closed form used by the other modules is what it then returns, result   *)
(* and both output parameters.                                             *)
LoopIsClosedForm ==
    AtStart => \A t \in Stamped, age \in 0..MaxAge :
        LET now == After(t, age)
        IN  /\ Breaks(t, now, LoopEnd(t, now))
            /\ GetTimeFinal(t, now) = GetTimeFinalLoop(t, now)

(* No poll of a real stamp finds it overdue before it is Limit seconds     *)
(* old: a request is never released early on account of its own stamp.     *)
NeverOverdueEarly ==
    AtStart => \A t \in Stamped, age \in 0..MaxAge :
        Judged(t, age) => age >= Limit

(* Three stamps at the edge of the hour, 00:00, 58:59 and 59:59, are never *)
(* judged overdue, however long they are polled.  Every other stamp is     *)
(* found overdue by the 121st poll: the loop may run late (a stamp late in *)
(* a minute counts 61 - sec for the whole of the next minute) but it does  *)
(* not miss a stamp that is polled each second.                            *)
HourEdge == {<<0, 0>>, <<58, 59>>, <<59, 59>>}
LatestDetection == 121
OnlyTheHourEdgeIsMissed ==
    AtStart => \A t \in Stamped :
        IF t \in HourEdge THEN \A age \in 0..3599 : ~Judged(t, age)
                          ELSE \E age \in 0..LatestDetection : Judged(t, age)
=============================================================================
