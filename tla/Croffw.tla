------------------------------- MODULE Croffw -------------------------------
(***************************************************************************)
(* runexec/croffw/main.c: the program that powers the server off.  It      *)
(* asks through the driver, polls the server's progress once a second and  *)
(* withdraws the request when it leaves, whatever it saw.                  *)
(***************************************************************************)
EXTENDS Ctl10

GiveUp == 5              \* polls without progress before it leaves

VARIABLES
    cpc,        \* "idle", "poll" or "withdraw"
    count,      \* polls that showed no progress
    old_value,  \* the last progress that was new
    ptty_value  \* the last progress read
croffw == <<cpc, count, old_value, ptty_value>>

CroffwInit == cpc = "idle" /\ count = 0 /\ old_value = 0 /\ ptty_value = 0

(* croffw restart: nobody reads the 1 it leaves in the driver.             *)
AskRestart ==
    /\ cpc = "idle"
    /\ RESTART(1)
    /\ UNCHANGED croffw

AskPoweroff ==
    /\ cpc = "idle"
    /\ POWEROFF(DISABLE)
    /\ cpc' = "poll" /\ ptty_value' = DISABLE
    /\ UNCHANGED <<count, old_value>>

(* ptty_value is unsigned: the -1 of a driver nobody wrote to is above 99. *)
Complete == progress_value < 0 \/ progress_value >= 99

\* MUTANT of Stalled: a progress that repeats itself is not counted.
StalledAtZero == progress_value = 0

Stalled == progress_value = 0 \/ progress_value = old_value

PollComplete ==
    /\ cpc = "poll" /\ count < GiveUp
    /\ Complete
    /\ ptty_value' = progress_value
    /\ cpc' = "withdraw"
    /\ UNCHANGED <<ctl10, count, old_value>>

PollAgain ==
    /\ cpc = "poll" /\ count < GiveUp
    /\ ~Complete
    /\ ptty_value' = progress_value
    /\ count' = IF Stalled THEN count + 1 ELSE count
    /\ old_value' = IF Stalled THEN old_value ELSE progress_value
    /\ UNCHANGED <<ctl10, cpc>>

PollEnough ==
    /\ cpc = "poll" /\ count >= GiveUp
    /\ cpc' = "withdraw"
    /\ UNCHANGED <<ctl10, count, old_value, ptty_value>>

(* The process ends, and its variables with it.                            *)
Leave == cpc' = "idle" /\ count' = 0 /\ old_value' = 0 /\ ptty_value' = 0

Withdraw ==
    /\ cpc = "withdraw"
    /\ RESTART(ptty_value)
    /\ Leave

(* croffw is interrupted while it polls: the request stays.                *)
Interrupted ==
    /\ cpc = "poll"
    /\ Leave
    /\ UNCHANGED ctl10

CroffwRuns == PollComplete \/ PollAgain \/ PollEnough \/ Withdraw

CroffwTypeOK ==
    /\ cpc \in {"idle", "poll", "withdraw"}
    /\ count \in 0..GiveUp
    /\ old_value \in 0..98
    /\ ptty_value \in -1..100
=============================================================================
