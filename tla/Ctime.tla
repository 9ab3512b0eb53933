-------------------------------- MODULE Ctime --------------------------------
(***************************************************************************)
(* library/libcrt/ctime.c: the only notion of elapsed time the server has. *)
(* A time stamp is the pair <<minute, second>> of the local clock, so it   *)
(* repeats every hour.  get_time_final measures the distance of a stamp    *)
(* from the present by counting in a loop; the request table releases a    *)
(* request when that count exceeds 15.                                     *)
(*                                                                         *)
(* GetTimeFinalLoop is the loop as written; GetTimeFinal is the closed     *)
(* form the other modules use (and prove about).  LoopIsClosedForm in      *)
(* CtimeProbe says that the two agree.                                     *)
(***************************************************************************)
EXTENDS Integers

Min(t) == t[1]
Sec(t) == t[2]

(* Stamps of the clock, and the stamp <<0, 60>> the loop itself can leave. *)
ClockStamps == (0..59) \X (0..59)
Stamps      == (0..59) \X (0..60)

-----------------------------------------------------------------------------
\* MUTANT of Breaks: the limit of 60 is off by one.
BreaksLate(t, now, s) ==
    \/ t = <<0, 0>> \/ t = now
    \/ s.utime + Sec(t) = Sec(now) /\ Min(now) = Min(t)
    \/ s.utime + Sec(t) > 60 /\ Min(now) = Min(t) + 1
    \/ s.cmin = Min(now) /\ s.csec = Sec(now)
    \/ s.utime > 60
    \/ s.i > 60

(* One evaluation of the loop's breaks, in the order they are written.     *)
Breaks(t, now, s) ==
    \/ Min(t) = 0 /\ Sec(t) = 0
    \/ t = now
    \/ s.utime + Sec(t) = Sec(now) /\ Min(now) = Min(t)
    \/ s.utime + Sec(t) > 60 /\ Min(now) = Min(t) + 1
    \/ s.cmin = Min(now) /\ s.csec = Sec(now)
    \/ s.utime >= 60
    \/ s.i > 60

(* The rest of the body: i only counts the rounds in which utime stays 0.  *)
Round(t, now, s) ==
    LET later  == Sec(now) > Sec(t)
        minute == Sec(now) < Sec(t) /\ Min(now) > Min(t)
    IN  [utime |-> IF later \/ minute THEN s.utime + 1 ELSE s.utime,
         cmin  |-> IF later /\ s.csec >= 60 THEN s.cmin + 1 ELSE s.cmin,
         csec  |-> CASE later /\ s.csec >= 60 -> 0
                     [] later /\ s.csec < 60  -> s.csec + 1
                     [] OTHER                 -> s.csec,
         i     |-> IF s.utime = 0 THEN s.i + 1 ELSE s.i]

LoopStates == [utime : Nat, cmin : Nat, csec : Nat, i : Nat]

(* The state in which a break leaves the loop that goes on from s.         *)
LoopFrom(t, now) ==
    LET run[s \in LoopStates] ==
            IF Breaks(t, now, s) THEN s ELSE run[Round(t, now, s)]
    IN  run

LoopEnd(t, now) ==
    LoopFrom(t, now)[[utime |-> 0, cmin |-> 0, csec |-> 0, i |-> 1]]

GetTimeFinalLoop(t, now) ==
    LET end == LoopEnd(t, now)
    IN  [utime |-> end.utime, last |-> <<end.cmin, end.csec>>]

-----------------------------------------------------------------------------
Least(a, b) == IF a <= b THEN a ELSE b

\* MUTANT of CountsSeconds: a stamp of zero is not special.
CountsSecondsFromZero(t, now) == Sec(now) > Sec(t)

(* The second of the clock is past the second of the stamp: the loop       *)
(* counts, and leaves its count in the second of *lmin:*lsec.              *)
CountsSeconds(t, now) == t # <<0, 0>> /\ Sec(now) > Sec(t)

(* The second has wrapped but the minute is later: the loop counts in      *)
(* utime only.                                                             *)
CountsMinutes(t, now) ==
    t # <<0, 0>> /\ Sec(now) < Sec(t) /\ Min(now) > Min(t)

Counts(t, now) == CountsSeconds(t, now) \/ CountsMinutes(t, now)

\* MUTANT of Elapsed: the second of the stamp is not subtracted.
ElapsedFromMinute(t, now) == IF Counts(t, now) THEN Sec(now) ELSE 0

Elapsed(t, now) ==
    CASE ~Counts(t, now)                                   -> 0
      [] CountsSeconds(t, now) /\ Min(now) = Min(t)        -> Sec(now) - Sec(t)
      [] CountsSeconds(t, now) /\ Min(now) = 0 /\ Min(t) # 0 -> Sec(now)
      [] Counts(t, now) /\ Min(now) = Min(t) + 1      -> Least(60, 61 - Sec(t))
      [] OTHER                                             -> 60

(* What get_time_final returns, and what it leaves in *lmin, *lsec.        *)
GetTimeFinal(t, now) ==
    [utime |-> Elapsed(t, now),
     last  |-> <<0, IF CountsSeconds(t, now) THEN Elapsed(t, now) ELSE 0>>]
=============================================================================
