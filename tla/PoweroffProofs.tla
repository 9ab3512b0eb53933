---------------------------- MODULE PoweroffProofs ----------------------------
(***************************************************************************)
(* Proofs about the shutdown of the server, for any size of the request    *)
(* table, any number of modules and any number of runs and requests.       *)
(***************************************************************************)
EXTENDS Poweroff, CrservProofs

(* What main has read of it since it looked last, and has published.       *)
Shown ==
    /\ srv \in {"load", "progress", "reset"} => closers = 0 /\ ctrl_state = 0
    /\ srv \in {"report", "act"} => ptty <= Percent(cfree)
    /\ srv \in {"report", "act"} /\ ctrl_state = 1 => ptty >= 1
    /\ srv = "reset" => progress_value = 0
    /\ srv = "act" => progress_value = ptty

(* A request in the driver, or in main's hands, is one of croffw's.        *)
Caused ==
    /\ InLoop /\ poweroff_value = DISABLE => asked
    /\ srv \in {"report", "act"} /\ value = DISABLE => asked

IInv ==
    /\ TypeOK /\ Progress /\ Shown /\ Caused
    /\ OffMeansAllFreed /\ TeardownWasAsked /\ ReportNeverAhead /\ OffShowsAtLeast90
    /\ srv # "down" => ended = "none"

LEMMA IInvInit == Init => IInv
  <1> SUFFICES ASSUME Init PROVE IInv
    OBVIOUS
  <1> USE CrservAssumption, PoweroffAssumption, Sizes
      DEF Init, DriverInit, CrservInit, CroffwInit
  <1>1. TypeOK
    <2>1. CrservTypeOK
      BY DEF CrservTypeOK
    <2>2. CroffwTypeOK
      BY DEF CroffwTypeOK, GiveUp
    <2>3. asked \in BOOLEAN
      OBVIOUS
    <2>4. /\ progress_value \in -1..100 /\ poweroff_value \in 0..2
          /\ runs \in 0..Runs /\ requests \in 0..Requests /\ ended = "none"
      OBVIOUS
    <2>5. QED
      BY <2>1, <2>2, <2>3, <2>4, Zenon DEF TypeOK
  <1>2. Progress /\ Shown /\ Caused
    BY DEF Progress, Shown, Caused, InLoop
  <1>3. QED
    BY <1>1, <1>2 DEF IInv, OffMeansAllFreed, TeardownWasAsked, ReportNeverAhead,
       OffShowsAtLeast90, InLoop

LEMMA ServerSteps == IInv /\ (StartServer \/ MainStep) => IInv'
  <1> SUFFICES ASSUME IInv, StartServer \/ MainStep PROVE IInv'
    OBVIOUS
  <1> USE CrservAssumption, PoweroffAssumption, Sizes
      DEF IInv, TypeOK, CrservTypeOK, CroffwTypeOK, Progress, Shown, Caused,
          OffMeansAllFreed, TeardownWasAsked, ReportNeverAhead, OffShowsAtLeast90,
          InLoop, DISABLE, GiveUp, ctl10, crserv, croffw, rest, teardown
  <1>0. cfree \in 0..Total /\ Percent(cfree) \in 0..100
    BY FreedRange, PercentAtMost100 DEF TypeOK
  <1>1. CASE StartServer
    BY <1>1 DEF StartServer, Start, Fresh
  <1>2. CASE MainStep /\ LoadFails
    BY <1>2 DEF MainStep, LoadFails, POWEROFF, cfree
  <1>3. CASE MainStep /\ LoadModules
    BY <1>3 DEF MainStep, LoadModules, cfree
  <1>4. CASE MainStep /\ ResetProgress
    BY <1>0, <1>4 DEF MainStep, ResetProgress, PROGWRITE, cfree
  <1>5. CASE MainStep /\ ResetPoweroff
    BY <1>0, <1>5 DEF MainStep, ResetPoweroff, RESTART, cfree
  <1>6. CASE MainStep /\ Look
    BY <1>0, <1>6, NodesShow DEF MainStep, Look, cfree
  <1>7. CASE MainStep /\ Report
    BY <1>0, <1>7 DEF MainStep, Report, PROGWRITE, cfree
  <1>8. CASE MainStep /\ Idle
    BY <1>0, <1>8 DEF MainStep, Idle, cfree
  <1>9. CASE MainStep /\ Act
    <2> USE <1>9 DEF MainStep, Act, SpawnsCloser, FreesNodes, Leaves
    <2>a. srv = "act" /\ asked
      BY Zenon
    <2>b. asked'
      BY <2>a, Zenon
    <2>1. asked' /\ ptty >= 0 /\ progress_value = ptty /\ UNCHANGED progress_value
      BY <2>a, <2>b
    <2>2. cfree \in Nat /\ cfree' \in Nat /\ cfree <= cfree'
      BY DEF cfree
    <2>3. Percent(cfree) <= Percent(cfree') /\ Percent(cfree') \in Nat
      BY <2>2, PercentGrows
    <2>4. Progress'
      OBVIOUS
    <2>5. TypeOK'
      OBVIOUS
    <2>6. srv' = "down" => cfree = Total /\ UNCHANGED cfree /\ ptty >= 90
      BY DEF cfree, Total
    <2>7. /\ srv' = "down" => ended' = "off"
          /\ srv' # "down" => ended' = "none" /\ srv' = "look"
      OBVIOUS
    <2>c. srv' # "down" => progress_value \in 0..Percent(cfree)
      BY <2>a, Zenon
    <2>8. ReportNeverAhead'
      BY <2>1, <2>3, <2>7, <2>c, Sizes, FreedRange, PercentAtMost100
    <2>9. OffMeansAllFreed' /\ TeardownWasAsked' /\ OffShowsAtLeast90' /\ Shown' /\ Caused'
      BY <2>1, <2>6, <2>7
    <2>10. QED
      BY <2>4, <2>5, <2>7, <2>8, <2>9
  <1>10. QED
    BY <1>1, <1>2, <1>3, <1>4, <1>5, <1>6, <1>7, <1>8, <1>9 DEF MainStep, Main

LEMMA CloserSteps == IInv /\ CloserStep => IInv'
  <1> SUFFICES ASSUME IInv, CloserStep PROVE IInv'
    OBVIOUS
  <1> USE CrservAssumption, PoweroffAssumption, Sizes
      DEF IInv, TypeOK, CrservTypeOK, CroffwTypeOK, Progress, Shown, Caused,
          OffMeansAllFreed, TeardownWasAsked, ReportNeverAhead, OffShowsAtLeast90,
          InLoop, croffw, CloserStep, ctl10
  <1>1. ASSUME cfree \in Nat, cfree' \in Nat, cfree <= cfree',
               UNCHANGED <<progress_value, srv, ptty>>
        PROVE  /\ ReportNeverAhead'
               /\ srv' \in {"report", "act"} => ptty' <= Percent(cfree')
    <2>1. Percent(cfree) <= Percent(cfree') /\ Percent(cfree') \in Nat
                                           /\ Percent(cfree) \in Nat
      BY <1>1, PercentGrows
    <2>2. QED
      BY <1>1, <2>1
  <1>2. CASE librmc_free
    <2>a. rmcfree \in Nat /\ rmcfree' \in Nat /\ rmcfree' > rmcfree
      BY <1>2 DEF librmc_free
    <2>b. sysfree \in Nat /\ modfree \in Nat /\ UNCHANGED <<sysfree, modfree>>
      BY <1>2 DEF librmc_free
    <2>1. cfree \in Nat /\ cfree' \in Nat /\ cfree <= cfree'
      BY <2>a, <2>b, SumGrows, Zenon DEF cfree
    <2>2. /\ ReportNeverAhead'
          /\ srv' \in {"report", "act"} => ptty' <= Percent(cfree')
      BY <1>1, <1>2, <2>1 DEF librmc_free
    <2>3. TypeOK'
      BY <1>2 DEF librmc_free
    <2>4. Progress'
      BY <1>2 DEF librmc_free
    <2>5. QED
      BY <1>2, <2>2, <2>3, <2>4 DEF librmc_free
  <1>3. CASE mod_free
    <2>1. cfree \in Nat /\ cfree' \in Nat /\ cfree <= cfree'
      BY <1>3 DEF mod_free, cfree
    <2>2. QED
      BY <1>1, <1>3, <2>1 DEF mod_free
  <1>4. CASE CloserDone
    <2>1. cfree \in Nat /\ cfree' \in Nat /\ cfree <= cfree'
      BY <1>4 DEF CloserDone, cfree
    <2>2. QED
      BY <1>1, <1>4, <2>1 DEF CloserDone
  <1>5. QED
    BY <1>2, <1>3, <1>4 DEF Closer

LEMMA OtherSteps ==
    IInv /\ (Signal \/ StartCroffw \/ CroffwStep \/ UNCHANGED vars) => IInv'
  <1> SUFFICES ASSUME IInv, Signal \/ StartCroffw \/ CroffwStep \/ UNCHANGED vars
               PROVE  IInv'
    OBVIOUS
  <1> USE CrservAssumption, PoweroffAssumption, Sizes
      DEF IInv, TypeOK, CrservTypeOK, CroffwTypeOK, Progress, Shown, Caused,
          OffMeansAllFreed, TeardownWasAsked, ReportNeverAhead, OffShowsAtLeast90,
          InLoop, DISABLE, GiveUp, ctl10, crserv, croffw, rest, teardown, cfree
  <1>1. CASE Signal
    BY <1>1 DEF Signal, libcrt_signal_handle, Fresh
  <1>2. CASE StartCroffw
    <2>1. CASE AskRestart /\ UNCHANGED asked
      BY <1>2, <2>1 DEF StartCroffw, AskRestart, RESTART
    <2>2. CASE AskPoweroff /\ asked' = TRUE
      BY <1>2, <2>2 DEF StartCroffw, AskPoweroff, POWEROFF
    <2>3. QED
      BY <1>2, <2>1, <2>2 DEF StartCroffw
  <1>3. CASE CroffwStep /\ (PollComplete \/ PollEnough)
    BY <1>3 DEF CroffwStep, PollComplete, PollEnough
  <1>4. CASE CroffwStep /\ PollAgain
    BY <1>4 DEF CroffwStep, PollAgain, Complete, Stalled
  <1>5. CASE CroffwStep /\ Withdraw
    BY <1>5 DEF CroffwStep, Withdraw, RESTART, Leave
  <1>6. CASE CroffwStep /\ Interrupted
    BY <1>6 DEF CroffwStep, Interrupted, Leave
  <1>7. CASE UNCHANGED vars
    BY <1>7 DEF vars
  <1>8. QED
    BY <1>1, <1>2, <1>3, <1>4, <1>5, <1>6, <1>7 DEF CroffwStep, CroffwRuns

LEMMA IInvAlways == Spec => []IInv
  <1>1. IInv /\ [Next]_vars => IInv'
    BY ServerSteps, CloserSteps, OtherSteps DEF Next
  <1>2. QED
    BY IInvInit, <1>1, PTL DEF Spec
-----------------------------------------------------------------------------
(* The type invariant: among the rest, the percentage stays in 0..100.     *)
THEOREM ShutdownTyped == Spec => []TypeOK
  <1>1. IInv => TypeOK
    BY DEF IInv
  <1>2. QED
    BY IInvAlways, <1>1, PTL

(* However long a request stands, main starts one closing thread.          *)
THEOREM OneCloserOnly == Spec => []OneCloser
  <1>1. IInv => OneCloser
    BY DEF IInv, TypeOK, CrservTypeOK, Progress, OneCloser
  <1>2. QED
    BY IInvAlways, <1>1, PTL

(* A server that left by itself has freed nodes, table and modules.        *)
THEOREM OffIsComplete == Spec => []OffMeansAllFreed
  <1>1. IInv => OffMeansAllFreed
    BY DEF IInv
  <1>2. QED
    BY IInvAlways, <1>1, PTL

(* No request of an earlier run, nor of a failed load, starts a shutdown.  *)
THEOREM ShutdownIsAsked == Spec => []TeardownWasAsked
  <1>1. IInv => TeardownWasAsked
    BY DEF IInv
  <1>2. QED
    BY IInvAlways, <1>1, PTL

(* The driver never shows more than the server has freed.                  *)
THEOREM ReportIsNeverAhead == Spec => []ReportNeverAhead
  <1>1. IInv => ReportNeverAhead
    BY DEF IInv
  <1>2. QED
    BY IInvAlways, <1>1, PTL

(* A server that left by itself shows at least 90 percent.                 *)
THEOREM OffShows == Spec => []OffShowsAtLeast90
  <1>1. IInv => OffShowsAtLeast90
    BY DEF IInv
  <1>2. QED
    BY IInvAlways, <1>1, PTL
-----------------------------------------------------------------------------
(* The promise of Shutdown.  A run that has not started its closing thread *)
(* has freed nothing, so the percentage main acts on is 0.                 *)
Untouched == closers = 0 => ctrl_state = 0 /\ sysfree = 0

PromiseInv == IInv /\ Untouched

LEMMA NothingShows == Percent(0) = 0
  <1>1. Percent(0) \in Nat /\ Total * Percent(0) <= 0 /\ Total \in Nat \ {0}
    BY Division, Sizes DEF Percent
  <1> QED
    BY <1>1

(* main starts the closing thread when it acts on a request for the first  *)
(* time, and not again.                                                    *)
LEMMA ActStarts ==
    ASSUME PromiseInv, srv = "act"
    PROVE  /\ closers = 0 => ptty = 0 /\ cfree = 0 /\ ctrl_state = 0
           /\ closers # 0 => ptty >= 1 /\ closers = 1 /\ ctrl_state = 1
  <1> USE DEF PromiseInv, IInv, TypeOK, CrservTypeOK, Progress, Shown, Untouched
  <1>1. ASSUME closers = 0 PROVE ptty = 0 /\ cfree = 0 /\ ctrl_state = 0
    <2>1. rmcfree = 0 /\ modfree = 0 /\ sysfree = 0 /\ ctrl_state = 0
      BY <1>1
    <2>2. cfree = 0
      BY <2>1 DEF cfree
    <2>3. ptty <= Percent(cfree) /\ ptty \in 0..100
      OBVIOUS
    <2>4. QED
      BY <2>1, <2>2, <2>3, NothingShows
  <1>2. ASSUME closers # 0 PROVE ptty >= 1 /\ closers = 1 /\ ctrl_state = 1
    BY <1>2
  <1>3. QED
    BY <1>1, <1>2

LEMMA UntouchedStep == PromiseInv /\ [Next]_vars => Untouched'
  <1> SUFFICES ASSUME PromiseInv, [Next]_vars PROVE Untouched'
    OBVIOUS
  <1> USE DEF Untouched, PromiseInv, rest, teardown, crserv
  <1>1. CASE StartServer \/ Signal
    BY <1>1 DEF StartServer, Start, Signal, libcrt_signal_handle, Fresh
  <1>2. CASE MainStep /\ ~Act
    BY <1>2 DEF MainStep, LoadFails, Main, LoadModules, ResetProgress,
       ResetPoweroff, Look, Report, Idle
  <1>3. CASE MainStep /\ Act
    <2>1. srv = "act" /\ closers \in 0..2
      BY <1>3 DEF Act, IInv, TypeOK, CrservTypeOK
    <2>2. closers' # 0
      BY <1>3, <2>1, ActStarts DEF Act, SpawnsCloser
    <2>3. QED
      BY <2>2
  <1>4. CASE CloserStep
    <2>1. closers # 0
      BY <1>4 DEF CloserStep, Closer, librmc_free, mod_free, CloserDone, IInv, Progress
    <2>2. UNCHANGED closers
      BY <1>4 DEF CloserStep, Closer, librmc_free, mod_free, CloserDone
    <2>3. QED
      BY <2>1, <2>2
  <1>5. CASE StartCroffw \/ CroffwStep \/ UNCHANGED vars
    BY <1>5 DEF StartCroffw, CroffwStep, vars
  <1>6. QED
    BY <1>1, <1>2, <1>3, <1>4, <1>5 DEF Next

LEMMA PromiseInvAlways == Spec => []PromiseInv
  <1>1. Init => PromiseInv
    BY IInvInit DEF PromiseInv, Untouched, Init, CrservInit
  <1>2. IInv /\ [Next]_vars => IInv'
    BY ServerSteps, CloserSteps, OtherSteps DEF Next
  <1>3. PromiseInv /\ [Next]_vars => PromiseInv'
    BY <1>2, UntouchedStep DEF PromiseInv
  <1>4. QED
    BY <1>1, <1>3, PTL DEF Spec

Starting == srv \in {"load", "progress", "reset"}

(* The stage of a run, case by case.                                       *)
StageIs ==
    /\ srv = "down" /\ ended = "off" => Stage = "off"
    /\ srv = "down" /\ ended # "off" => Stage = "down"
    /\ Starting => Stage = "starting"
    /\ InLoop /\ closers = 0 => Stage = "serving"
    /\ InLoop /\ closers = 1 /\ xpc # "done" => Stage = "closing"
    /\ InLoop /\ closers = 1 /\ xpc = "done" => Stage = "closed"

LEMMA Stages == StageIs /\ StageIs'
  <1>1. StageIs
    BY DEF StageIs, Stage, Starting, InLoop
  <1>2. StageIs'
    BY DEF StageIs, Stage, Starting, InLoop
  <1>3. QED
    BY <1>1, <1>2

(* A step of main's is a step of the promise, or of no stage.              *)
LEMMA MainKeeps ==
    ASSUME PromiseInv, MainStep
    PROVE  [Promise!Next]_(Promise!vars)
  <1> USE Stages DEF StageIs, Starting, InLoop, rest, teardown
  <1>1. CASE LoadFails \/ LoadModules \/ ResetProgress
    <2>1. srv \in {"load", "progress"} /\ srv' \in {"progress", "reset"}
      BY <1>1 DEF LoadFails, LoadModules, ResetProgress
    <2>2. UNCHANGED <<cfree, asked>>
      <3>1. UNCHANGED <<sysfree, rmcfree, modfree>>
        BY <1>1 DEF LoadFails, LoadModules, ResetProgress
      <3>2. asked' = (asked /\ TRUE)
        BY <2>1 DEF MainStep
      <3>3. asked \in BOOLEAN
        BY DEF PromiseInv, IInv, TypeOK
      <3>4. QED
        BY <3>1, <3>2, <3>3 DEF cfree
    <2>3. Stage' = Stage
      BY <2>1
    <2>4. QED
      BY <2>2, <2>3 DEF Promise!vars
  <1>2. CASE ResetPoweroff
    <2>1. srv = "reset" /\ srv' = "look" /\ UNCHANGED <<closers, cfree>> /\ asked' = FALSE
      BY <1>2 DEF ResetPoweroff, MainStep, cfree
    <2>2. closers = 0
      BY <2>1 DEF PromiseInv, IInv, Shown
    <2>3. Promise!Serve
      BY <2>1, <2>2 DEF Promise!Serve
    <2>4. QED
      BY <2>3 DEF Promise!Next
  <1>3. CASE Look \/ Report \/ Idle
    <2>1. InLoop /\ InLoop' /\ UNCHANGED <<sysfree, rmcfree, modfree, closers, xpc>>
      BY <1>3 DEF Look, Report, Idle
    <2>2. closers \in 0..1 /\ asked \in BOOLEAN
      BY DEF PromiseInv, IInv, TypeOK, CrservTypeOK, Progress
    <2>3. asked' = asked
      BY <2>1, <2>2 DEF MainStep
    <2>4. Stage' = Stage
      BY <2>1, <2>2
    <2>5. cfree' = cfree
      BY <2>1 DEF cfree
    <2>6. QED
      BY <2>3, <2>4, <2>5 DEF Promise!vars
  <1>4. CASE Act
    <2>1. srv = "act" /\ value = DISABLE
      BY <1>4 DEF Act
    <2>2. asked /\ asked'
      <3>1. asked
        BY <2>1 DEF PromiseInv, IInv, Caused
      <3>2. QED
        BY <2>1, <3>1 DEF MainStep
    <2>3. CASE closers = 0
      <3>1. ptty = 0 /\ cfree = 0 /\ ctrl_state = 0
        BY <2>1, <2>3, ActStarts
      <3>2. closers' = 1 /\ xpc' = "table" /\ sysfree' = S /\ srv' = "look"
        BY <1>4, <2>3, <3>1 DEF Act, SpawnsCloser, FreesNodes, Leaves
      <3>3. cfree' \in 1..Total
        <4>1. rmcfree \in 0..R /\ modfree \in 0..M /\ UNCHANGED <<rmcfree, modfree>>
          BY <1>4, CrservAssumption
          DEF Act, PromiseInv, IInv, TypeOK, CrservTypeOK
        <4>2. QED
          BY <3>2, <4>1, CrservAssumption DEF cfree, S, Total
      <3>4. Promise!Close
        BY <2>1, <2>2, <2>3, <3>2, <3>3 DEF Promise!Close
      <3>5. QED
        BY <3>4 DEF Promise!Next
    <2>4. CASE closers # 0
      <3>1. ptty >= 1 /\ closers = 1 /\ ctrl_state = 1 /\ ptty \in 0..100
        BY <2>1, <2>4, ActStarts DEF PromiseInv, IInv, TypeOK, CrservTypeOK
      <3>2. /\ UNCHANGED <<closers, xpc, sysfree, rmcfree, modfree>>
            /\ srv' = IF Leaves THEN "down" ELSE "look"
        BY <1>4, <3>1 DEF Act, SpawnsCloser, FreesNodes
      <3>3. cfree' = cfree
        BY <3>2 DEF cfree
      <3>4. CASE Leaves
        <4>1. xpc = "done"
          BY <3>4 DEF Leaves, PromiseInv, IInv, Progress
        <4>2. srv' = "down" /\ ended' = "off"
          BY <3>2, <3>4 DEF MainStep
        <4>3. Promise!Leave
          BY <2>1, <2>2, <3>1, <3>3, <4>1, <4>2 DEF Promise!Leave
        <4>4. QED
          BY <4>3 DEF Promise!Next
      <3>5. CASE ~Leaves
        <4>1. Stage' = Stage
          BY <2>1, <3>1, <3>2, <3>5
        <4>2. QED
          BY <2>2, <3>3, <4>1 DEF Promise!vars
      <3>6. QED
        BY <3>4, <3>5
    <2>5. QED
      BY <2>3, <2>4
  <1>5. QED
    BY <1>1, <1>2, <1>3, <1>4 DEF MainStep, Main

LEMMA PartsOfAll ==
    ASSUME NEW p \in Nat, NEW q \in Nat, NEW r \in Nat,
           NEW x \in 0..p, NEW y \in 0..q, NEW z \in 0..r
    PROVE  /\ x + y + z \in 0..(p + r + q)
           /\ \A n \in 0..q : n > y => x + n + z > x + y + z
           /\ \A n \in 0..r : n > z => x + y + n > x + y + z
  OBVIOUS

(* The closing thread frees something in each step but its last.           *)
LEMMA CloserFrees ==
    ASSUME PromiseInv, CloserStep
    PROVE  /\ cfree \in 0..Total /\ cfree' \in 0..Total
           /\ librmc_free \/ mod_free => cfree' > cfree
  <1>1. CrservTypeOK /\ CrservTypeOK'
    BY CloserSteps DEF PromiseInv, IInv, TypeOK
  <1>2. sysfree \in 0..S /\ rmcfree \in 0..R /\ modfree \in 0..M
    BY <1>1, CrservAssumption, Sizes DEF CrservTypeOK
  <1>3. sysfree' \in 0..S /\ rmcfree' \in 0..R /\ modfree' \in 0..M
    BY <1>1, CrservAssumption, Sizes DEF CrservTypeOK
  <1>4. R \in Nat /\ M \in Nat /\ S \in Nat /\ Total = S + M + R
    BY CrservAssumption, Sizes DEF Total
  <1>5. cfree \in 0..Total
    BY <1>2, <1>4, PartsOfAll, Zenon DEF cfree
  <1>6. cfree' \in 0..Total
    BY <1>3, <1>4, PartsOfAll, Zenon DEF cfree
  <1>7. ASSUME librmc_free PROVE cfree' > cfree
    <2>1. rmcfree' > rmcfree /\ sysfree' = sysfree /\ modfree' = modfree
      BY <1>7 DEF librmc_free
    <2>2. QED
      BY <1>2, <1>3, <1>4, <2>1, PartsOfAll, Zenon DEF cfree
  <1>8. ASSUME mod_free PROVE cfree' > cfree
    <2>1. modfree' = modfree + 1 /\ sysfree' = sysfree /\ rmcfree' = rmcfree
      BY <1>8 DEF mod_free
    <2>2. modfree' > modfree
      BY <1>2, <1>4, <2>1
    <2>3. QED
      BY <1>2, <1>3, <1>4, <2>1, <2>2, PartsOfAll, Zenon DEF cfree
  <1>9. QED
    BY <1>5, <1>6, <1>7, <1>8

LEMMA CloserKeeps ==
    ASSUME PromiseInv, CloserStep
    PROVE  Promise!Next
  <1> USE Stages DEF StageIs, Starting, InLoop
  <1>1. /\ srv \in {"look", "report", "act"} /\ closers = 1 /\ xpc \in {"table", "modules"}
        /\ UNCHANGED <<srv, closers, asked>>
    <2>1. srv # "down" /\ xpc \in {"table", "modules"} /\ UNCHANGED <<srv, closers>>
      BY DEF CloserStep, Closer, librmc_free, mod_free, CloserDone
    <2>2. closers = 1
      BY <2>1 DEF PromiseInv, IInv, TypeOK, CrservTypeOK, Progress
    <2>3. srv \in {"look", "report", "act"}
      BY <2>1, <2>2 DEF PromiseInv, IInv, TypeOK, CrservTypeOK, Shown
    <2>4. QED
      BY <2>1, <2>2, <2>3 DEF CloserStep
  <1>2. /\ cfree \in 0..Total /\ cfree' \in 0..Total
        /\ librmc_free \/ mod_free => cfree' > cfree
    BY CloserFrees
  <1>3. CASE librmc_free \/ mod_free
    <2>1. cfree' > cfree
      BY <1>2, <1>3
    <2>2. xpc' # "done"
      BY <1>3 DEF librmc_free, mod_free
    <2>3. Promise!Free
      BY <1>1, <1>2, <2>1, <2>2 DEF Promise!Free
    <2>4. QED
      BY <2>3 DEF Promise!Next
  <1>4. CASE CloserDone
    <2>1. xpc = "modules" /\ modfree = M /\ xpc' = "done"
          /\ UNCHANGED <<sysfree, rmcfree, modfree>>
      BY <1>4 DEF CloserDone
    <2>2. sysfree = S /\ rmcfree = R
      BY <1>1, <2>1 DEF PromiseInv, IInv, Progress
    <2>3. cfree = Total /\ cfree' = cfree
      BY <2>1, <2>2, CrservAssumption, Sizes DEF cfree, Total
    <2>4. Promise!Closed
      BY <1>1, <2>1, <2>3 DEF Promise!Closed
    <2>5. QED
      BY <2>4 DEF Promise!Next
  <1>5. QED
    BY <1>3, <1>4 DEF CloserStep, Closer

LEMMA OthersKeep ==
    ASSUME PromiseInv, StartServer \/ Signal \/ StartCroffw \/ CroffwStep \/ UNCHANGED vars
    PROVE  [Promise!Next]_(Promise!vars)
  <1> USE Stages DEF StageIs, Starting, InLoop
  <1>1. CASE StartServer
    <2>1. srv = "down" /\ srv' = "load" /\ Fresh /\ UNCHANGED asked
      BY <1>1 DEF StartServer, Start
    <2>2. Promise!Start
      BY <2>1 DEF Promise!Start, Fresh, cfree
    <2>3. QED
      BY <2>2 DEF Promise!Next
  <1>2. CASE Signal
    <2>1. srv # "down" /\ srv' = "down" /\ ended' = "signal" /\ Fresh /\ UNCHANGED asked
      BY <1>2 DEF Signal, libcrt_signal_handle
    <2>2. closers \in 0..1 /\ (Starting \/ InLoop)
      BY <2>1 DEF PromiseInv, IInv, TypeOK, CrservTypeOK, Progress
    <2>3. Stage \notin {"down", "off"}
      BY <2>2
    <2>4. Promise!Kill
      BY <2>1, <2>3 DEF Promise!Kill, Fresh, cfree
    <2>5. QED
      BY <2>4 DEF Promise!Next
  <1>3. CASE StartCroffw \/ CroffwStep \/ UNCHANGED vars
    <2>1. UNCHANGED <<srv, closers, xpc, sysfree, rmcfree, modfree, ended>>
      BY <1>3 DEF StartCroffw, CroffwStep, vars, crserv, rest, teardown
    <2>2. Stage' = Stage /\ cfree' = cfree
      BY <2>1 DEF Stage, cfree
    <2>3. asked' = asked \/ asked' = TRUE
      BY <1>3 DEF StartCroffw, CroffwStep, vars
    <2>4. CASE asked' = asked
      BY <2>2, <2>4 DEF Promise!vars
    <2>5. CASE asked' = TRUE
      BY <2>2, <2>5 DEF Promise!Next, Promise!Wish
    <2>6. QED
      BY <2>3, <2>4, <2>5
  <1>4. QED
    BY <1>1, <1>2, <1>3

(* The server, its closing thread, the driver and croffw implement the     *)
(* promise, whatever the sizes: each run goes through its stages in order. *)
THEOREM RunsKeepThePromise == Spec => ShutdownSpec
  <1>1. Init => Promise!Init
    <2> SUFFICES ASSUME Init PROVE Promise!Init
      OBVIOUS
    <2>1. Stage = "down"
      BY Stages DEF StageIs, Init, CrservInit
    <2>2. cfree = 0
      BY DEF Init, CrservInit, cfree
    <2>3. QED
      BY <2>1, <2>2 DEF Promise!Init, Init
  <1>2. PromiseInv /\ [Next]_vars => [Promise!Next]_(Promise!vars)
    BY MainKeeps, CloserKeeps, OthersKeep DEF Next
  <1>3. QED
    BY <1>1, <1>2, PromiseInvAlways, PTL DEF Spec, ShutdownSpec, Promise!Spec
=============================================================================
