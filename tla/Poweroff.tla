------------------------------ MODULE Poweroff ------------------------------
(***************************************************************************)
(* The shutdown of the server: crserv and croffw, two processes that see   *)
(* each other only through the two integers of the driver.  croffw may be  *)
(* started, restarted and interrupted at any time; so may the server, and  *)
(* the driver keeps its values through all of it.                          *)
(***************************************************************************)
EXTENDS Crserv, Croffw

CONSTANTS Runs,      \* BOUND: times the server is started
          Requests   \* BOUND: times croffw is started

ASSUME PoweroffAssumption == Runs \in Nat /\ Requests \in Nat

VARIABLES
    runs, requests,
    ended,      \* HISTORY: how the last run ended: "none", "off", "signal"
    asked       \* HISTORY: croffw asked since main last reset the driver
vars == <<ctl10, crserv, croffw, runs, requests, ended, asked>>

Init ==
    /\ DriverInit /\ CrservInit /\ CroffwInit
    /\ runs = 0 /\ requests = 0
    /\ ended = "none" /\ asked = FALSE

StartServer ==
    /\ runs < Runs
    /\ Start
    /\ runs' = runs + 1
    /\ ended' = "none"
    /\ UNCHANGED <<croffw, requests, asked>>

MainStep ==
    /\ LoadFails \/ Main
    /\ ended' = IF srv' = "down" THEN "off" ELSE ended
    /\ asked' = (asked /\ srv # "reset")
    /\ UNCHANGED <<croffw, runs, requests>>

CloserStep ==
    /\ Closer
    /\ UNCHANGED <<croffw, runs, requests, ended, asked>>

Signal ==
    /\ libcrt_signal_handle
    /\ ended' = "signal"
    /\ UNCHANGED <<croffw, runs, requests, asked>>

StartCroffw ==
    /\ requests < Requests
    /\ requests' = requests + 1
    /\ \/ AskRestart /\ UNCHANGED asked
       \/ AskPoweroff /\ asked' = TRUE
    /\ UNCHANGED <<crserv, runs, ended>>

CroffwStep ==
    /\ CroffwRuns \/ Interrupted
    /\ UNCHANGED <<crserv, runs, requests, ended, asked>>

Next ==
    \/ StartServer \/ MainStep \/ CloserStep \/ Signal
    \/ StartCroffw \/ CroffwStep

Spec == Init /\ [][Next]_vars

(* The processes that run are scheduled; nobody is bound to start one, to  *)
(* interrupt one or to send a signal.                                      *)
FairMain   == WF_vars(MainStep /\ Main)
FairCloser == WF_vars(CloserStep)
FairCroffw == WF_vars(CroffwStep /\ CroffwRuns)
FairSpec   == Spec /\ FairMain /\ FairCloser /\ FairCroffw
-----------------------------------------------------------------------------
TypeOK ==
    /\ progress_value \in -1..100 /\ poweroff_value \in 0..2
    /\ CrservTypeOK /\ CroffwTypeOK
    /\ runs \in 0..Runs /\ requests \in 0..Requests
    /\ ended \in {"none", "off", "signal"} /\ asked \in BOOLEAN

InLoop == srv \in {"look", "report", "act"}

(* However often main looks at a request while the closing thread works,   *)
(* it starts that thread once: the nodes it frees in the same round keep   *)
(* the percentage away from zero.  A second one would free everything      *)
(* twice.                                                                  *)
OneCloser == closers <= 1

(* main leaves the loop by itself only when the nodes, the table and the   *)
(* modules are all freed, although it looks at the percentage before it    *)
(* looks at close_final and the closing thread runs in between.            *)
OffMeansAllFreed == ended = "off" => cfree = Total

(* A server that tears itself down was asked to by croffw since it last    *)
(* reset the driver: neither a request left over from an earlier run nor   *)
(* the power-off that a failed module asks for survives the start.         *)
TeardownWasAsked == (srv # "down" /\ closers > 0) => asked

(* What the driver shows of a server in its loop is never ahead of what    *)
(* that server has freed: a croffw that reads 99 from it, a value left by  *)
(* an earlier run apart, has 99 percent of it freed.                       *)
ReportNeverAhead == InLoop => progress_value \in 0..Percent(cfree)

(* A server that has powered itself off leaves at least 90 in the driver,  *)
(* the percentage at which main lets go, though not always the 99 that     *)
(* croffw waits for.                                                       *)
OffShowsAtLeast90 ==
    (srv = "down" /\ ended = "off") => progress_value >= 90

(* croffw/main.c:40 prints "Disable Project : complete progress" and       *)
(* leaves: the server it polled is off, or on its way to be.               *)
CompleteMeansOff ==
    (InLoop /\ cpc = "withdraw" /\ ptty_value >= 99) ~> (srv = "down")
-----------------------------------------------------------------------------
(* The six stages of a run.  More than one closing thread is no stage.     *)
Stage ==
    CASE srv = "down"                            -> IF ended = "off" THEN "off" ELSE "down"
      [] srv \in {"load", "progress", "reset"}   -> "starting"
      [] InLoop /\ closers = 0                   -> "serving"
      [] InLoop /\ closers = 1 /\ xpc # "done"   -> "closing"
      [] InLoop /\ closers = 1 /\ xpc = "done"   -> "closed"
      [] OTHER                                   -> "torn"

Promise == INSTANCE Shutdown
               WITH All <- Total, stage <- Stage, freed <- cfree, wanted <- asked

(* However main's rounds, the closing thread, croffw, signals and failed   *)
(* loads interleave, a run of the server goes through its stages in order: *)
(* nothing is freed while it serves, the closing thread starts once and on *)
(* a request made since the start, what is freed only grows, and main      *)
(* leaves when everything is.                                              *)
ShutdownSpec == Promise!Spec
=============================================================================
