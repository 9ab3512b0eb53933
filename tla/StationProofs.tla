---------------------------- MODULE StationProofs ----------------------------
(***************************************************************************)
(* Proofs about the server, microphone programs and croffw on one driver,  *)
(* for any number of microphone programs and of runs.                      *)
(***************************************************************************)
EXTENDS Station, CrservProofs

Types ==
    /\ progress_value \in -1..100 /\ poweroff_value \in 0..2
    /\ CrmicpTypeOK /\ CroffwTypeOK
    /\ starts \in [Programs -> Nat]
    /\ \A p \in Programs : starts[p] <= Bound(p)
    /\ requests \in 0..Requests
    /\ asked \subseteq Programs /\ failed \subseteq Clients

(* A program p has something to obey: it stands in the driver, it is in    *)
(* its hands, or it is being obeyed.                                       *)
Stopping(p) ==
    \/ InLoop(p) /\ poweroff_value = DISABLE
    \/ IF p = Server THEN srv \in {"report", "act"} /\ value = DISABLE
                     ELSE mpc[p] \in {"report", "act"} /\ mvalue[p] = DISABLE
    \/ Up(p) /\ Begun(p)

Caused == \A p \in Programs : Stopping(p) => p \in asked \cup failed

(* A microphone program that has not begun to stop.                        *)
ClientsBegin ==
    \A c \in Clients :
        /\ mpc[c] \in {"progress", "reset"} => mxpc[c] = "none"
        /\ mptty[c] = 100 => mfree[c] = 1
        /\ mpc[c] # "down" \/ mfree[c] = 1 => starts[c] >= 1

(* Whose number the driver shows.                                          *)
ShownBy ==
    srv \in {"reset"} \cup Loop =>
        \/ progress_value \in 0..Percent(cfree)
        \/ /\ progress_value = 100
           /\ \E c \in Clients : mfree[c] = 1 \/ starts[c] > 1

IInv == Types /\ ServerInv /\ Caused /\ ClientsBegin /\ ShownBy

LEMMA IInvInit == Init => IInv
  <1> SUFFICES ASSUME Init PROVE IInv
    OBVIOUS
  <1> USE StationAssumption DEF Init, DriverInit, CrmicpInit, CroffwInit
  <1>1. Types
    <2>1. CrmicpTypeOK
      BY DEF CrmicpTypeOK
    <2>2. CroffwTypeOK
      BY DEF CroffwTypeOK, GiveUp
    <2>3. QED
      BY <2>1, <2>2 DEF Types, Bound
  <1>2. ServerInv /\ srv = "down"
    BY ServerInvInit DEF CrservInit
  <1>3. Caused /\ ClientsBegin /\ ShownBy
    BY <1>2 DEF Caused, Stopping, InLoop, Up, Loop, ClientsBegin, ShownBy, Programs
  <1>4. QED
    BY <1>1, <1>2, <1>3 DEF IInv

LEMMA SumIsNat ==
    ASSUME NEW a \in Nat, NEW b \in Nat, NEW c \in Nat
    PROVE  a + b + c \in Nat
  OBVIOUS

LEMMA ServerRuns == IInv /\ ServerStep => IInv'
  <1> SUFFICES ASSUME IInv, ServerStep PROVE IInv'
    OBVIOUS
  <1> USE StationAssumption, CrservAssumption DEF IInv, ServerStep, crmicp, croffw, history
  <1>1. ServerInv' /\ poweroff_value \in 0..2
    BY ServerMain, ServerCloser DEF Types
  <1>2. UNCHANGED <<mpc, mvalue, mptty, mfree, mclose, mxpc, cpc, count, old_value,
                    ptty_value, starts, requests, asked, failed>>
    OBVIOUS
  <1>3. CrmicpTypeOK' /\ CroffwTypeOK' /\ ClientsBegin'
    BY <1>2 DEF Types, CrmicpTypeOK, CroffwTypeOK, ClientsBegin
  <1>4. /\ poweroff_value' = poweroff_value \/ poweroff_value' \in 0..1
        /\ progress_value' \in -1..100
    BY DEF Main, Closer, Types, ServerInv, CrservTypeOK, LoadModules, ResetProgress,
       ResetPoweroff, Look, Report, Idle, Act, librmc_free, mod_free, CloserDone, ctl10,
       PROGWRITE, RESTART
  <1>5. Types'
    BY <1>2, <1>3, <1>4 DEF Types, DISABLE
  <1>6. ASSUME NEW p \in Programs, Stopping(p)' PROVE p \in asked' \cup failed'
    <2>1. CASE p # Server
      BY <1>2, <1>4, <1>6, <2>1 DEF Caused, Stopping, InLoop, Up, Begun, DISABLE
    <2>2. CASE p = Server
      BY <1>2, <1>6, <2>2 DEF Caused, Stopping, InLoop, Up, Begun, Loop, DISABLE, ServerInv,
         CrservTypeOK, Main, Closer, LoadModules, ResetProgress, ResetPoweroff, Look, Report,
         Idle, Act, librmc_free, mod_free, CloserDone, ctl10, rest, teardown, PROGWRITE,
         RESTART
    <2>3. QED
      BY <2>1, <2>2
  <1>7. ShownBy'
    <2>a. cfree' \in Nat
      <3>1. CrservTypeOK'
        BY <1>1, Zenon DEF ServerInv
      <3>2. sysfree' \in Nat /\ rmcfree' \in Nat /\ modfree' \in Nat
        BY <3>1, Sizes DEF CrservTypeOK
      <3>3. QED
        BY <3>2, SumIsNat, Zenon DEF cfree
    <2>0. Percent(cfree) \in 0..100 /\ Percent(cfree') \in Nat
      BY <2>a, FreedRange, PercentAtMost100, PercentGrows DEF ServerInv
    <2>1. CASE Closer
      BY <1>2, <2>0, <2>1, ServerCloser DEF ShownBy, Loop, ctl10
    <2>2. CASE Main /\ srv' \in {"reset"} \cup Loop
      <3>1. Percent(cfree) <= Percent(cfree')
        BY <2>2, ServerMain DEF Main, Loop, LoadModules, ResetProgress, ResetPoweroff, Look,
           Report, Idle, Act, Types
      <3>2. \/ progress_value' = progress_value /\ srv \in {"reset"} \cup Loop
            \/ progress_value' = 0
            \/ progress_value' = ptty /\ srv = "report"
        BY <2>2 DEF Main, Loop, LoadModules, ResetProgress, ResetPoweroff, Look, Report, Idle,
           Act, ctl10, PROGWRITE, RESTART
      <3>3. srv = "report" => ptty \in 0..Percent(cfree)
        BY <2>0 DEF ServerInv, CrservTypeOK
      <3>4. QED
        BY <1>2, <2>0, <3>1, <3>2, <3>3 DEF ShownBy, Loop
    <2>3. QED
      BY <2>1, <2>2 DEF ShownBy
  <1>8. QED
    BY <1>1, <1>3, <1>5, <1>6, <1>7 DEF Caused

LEMMA ServerFails == IInv /\ ServerLoadFails => IInv'
  <1> SUFFICES ASSUME IInv, ServerLoadFails PROVE IInv'
    OBVIOUS
  <1> USE StationAssumption, CrservAssumption
      DEF IInv, ServerLoadFails, LoadFails, POWEROFF, crmicp, croffw
  <1>1. ServerInv'
    BY ServerMain DEF Types
  <1>2. CrmicpTypeOK' /\ CroffwTypeOK' /\ ClientsBegin'
    BY DEF Types, CrmicpTypeOK, CroffwTypeOK, ClientsBegin
  <1>3. Running \subseteq Clients
    BY DEF Running, Programs, InLoop, Loop
  <1>4. Types'
    BY <1>2, <1>3 DEF Types, DISABLE
  <1>5. ASSUME NEW p \in Programs, Stopping(p)' PROVE p \in asked' \cup failed'
    <2>1. CASE p # Server
      BY <1>5, <2>1 DEF Caused, Stopping, InLoop, Up, Begun, Running
    <2>2. CASE p = Server
      BY <1>5, <2>2 DEF Stopping, InLoop, Up, Begun, Loop, ServerInv, rest, teardown,
         CrservTypeOK
    <2>3. QED
      BY <2>1, <2>2
  <1>6. QED
    BY <1>1, <1>2, <1>4, <1>5 DEF Caused, ShownBy, Loop

(* The server and croffw are where they were, and the driver may change.   *)
LEMMA ServerRests ==
    ASSUME IInv, UNCHANGED crserv
    PROVE  /\ ServerInv' /\ UNCHANGED <<srv, value, closers, cfree>>
           /\ Percent(cfree') = Percent(cfree) /\ Percent(cfree) \in Nat
  <1>1. UNCHANGED <<srv, value, ptty, ctrl_state, close_final, closers, xpc, sysfree,
                    rmcfree, modfree>>
    BY DEF crserv, rest, teardown
  <1>2. UNCHANGED cfree
    BY <1>1 DEF cfree
  <1>3. Percent(cfree') = Percent(cfree)
    BY <1>2
  <1>4. Percent(cfree) \in Nat
    BY FreedRange, PercentAtMost100 DEF IInv, ServerInv
  <1>5. ServerInv'
    BY <1>1, <1>2, <1>3 DEF IInv, ServerInv, CrservTypeOK, Progress
  <1>6. QED
    BY <1>1, <1>2, <1>3, <1>4, <1>5

LEMMA ClientRuns == ASSUME NEW c \in Clients, IInv, ClientStep(c) PROVE IInv'
  <1> USE StationAssumption DEF IInv, ClientStep, croffw, history
  <1>1. /\ ServerInv' /\ UNCHANGED <<srv, value, closers, cfree>>
        /\ Percent(cfree') = Percent(cfree) /\ Percent(cfree) \in Nat
    BY ServerRests
  <1>2. UNCHANGED <<cpc, count, old_value, ptty_value, starts, requests, asked, failed>>
    OBVIOUS
  <1>3. /\ poweroff_value' = poweroff_value \/ poweroff_value' = 0
        /\ progress_value' \in {progress_value, 0, mptty[c]}
    BY DEF MicMain, MicResetProgress, MicResetPoweroff, MicLook, MicReport, MicIdle, MicCloses,
       MicLeaves, MicCloserDone, ctl10, PROGWRITE, RESTART
  <1>4. mptty[c] \in {0, 100} /\ (mptty[c] = 100 => mfree[c] = 1)
    BY DEF Types, CrmicpTypeOK, ClientsBegin
  <1>5. CrmicpTypeOK'
    BY DEF Types, CrmicpTypeOK, MicMain, MicResetProgress, MicResetPoweroff, MicLook,
       MicReport, MicIdle, MicCloses, MicLeaves, MicCloserDone, Goes, MicFresh, MicPercent
  <1>6. Types'
    BY <1>2, <1>3, <1>4, <1>5 DEF Types, CroffwTypeOK
  <1>7. \A d \in Clients : mfree[d] = 1 => mfree'[d] = 1
    BY DEF Types, CrmicpTypeOK, MicMain, MicResetProgress, MicResetPoweroff, MicLook,
       MicReport, MicIdle, MicCloses, MicLeaves, MicCloserDone
  <1>8. ClientsBegin'
    BY <1>2 DEF ClientsBegin, Types, CrmicpTypeOK, MicMain, MicResetProgress,
       MicResetPoweroff, MicLook, MicReport, MicIdle, MicCloses, MicLeaves, MicCloserDone,
       Goes, MicFresh, MicPercent
  <1>9. ShownBy'
    BY <1>1, <1>2, <1>3, <1>4, <1>7 DEF ShownBy
  <1>10. ASSUME NEW p \in Programs, Stopping(p)' PROVE p \in asked' \cup failed'
    <2>1. CASE p # c
      BY <1>1, <1>2, <1>3, <1>10, <2>1 DEF Caused, Stopping, InLoop, Up, Begun, DISABLE,
         Types, CrmicpTypeOK, MicMain, MicResetProgress, MicResetPoweroff, MicLook, MicReport,
         MicIdle, MicCloses, MicLeaves, MicCloserDone, Goes, MicFresh, Programs
    <2>2. CASE p = c
      <3>1. Stopping(c)
        BY <1>10, <2>2 DEF Stopping, InLoop, Up, Begun, DISABLE, Loop, ClientsBegin,
           Types, CrmicpTypeOK, MicMain, MicResetProgress, MicResetPoweroff, MicLook,
           MicReport, MicIdle, MicCloses, MicLeaves, MicCloserDone, Goes, MicFresh,
           ctl10, PROGWRITE, RESTART
      <3>2. QED
        BY <1>2, <2>2, <3>1 DEF Caused, Programs
    <2>3. QED
      BY <2>1, <2>2
  <1>11. QED
    BY <1>1, <1>6, <1>8, <1>9, <1>10 DEF Caused

(* A program that starts, or that a signal ends, has nothing to obey.      *)
LEMMA ServerComesOrGoes ==
    IInv /\ (StartProgram(Server) \/ (Signal /\ libcrt_signal_handle /\ UNCHANGED crmicp))
        => IInv'
  <1> SUFFICES ASSUME IInv, StartProgram(Server)
                      \/ (Signal /\ libcrt_signal_handle /\ UNCHANGED crmicp)
               PROVE  IInv'
    OBVIOUS
  <1> USE StationAssumption DEF IInv, ctl10
  <1>1. UNCHANGED <<mpc, mvalue, mptty, mfree, mclose, mxpc, cpc, count, old_value, ptty_value,
                    requests, progress_value, poweroff_value>>
    BY DEF StartProgram, Signal, Start, libcrt_signal_handle, MicSignal, crmicp, croffw
  <1>2. ServerInv' /\ srv' \in {"down", "load"} /\ closers' = 0
    <2>1. Start \/ libcrt_signal_handle
      BY DEF StartProgram
    <2>2. QED
      BY <2>1, ServerMain DEF Types, Start, libcrt_signal_handle, Fresh
  <1>3. /\ starts' \in [Programs -> Nat]
        /\ \A p \in Programs : starts'[p] <= Bound(p)
        /\ \A c \in Clients : starts'[c] = starts[c]
    <2>1. CASE StartProgram(Server)
      BY <2>1 DEF StartProgram, Types, Bound, Programs
    <2>2. CASE Signal
      BY <2>2 DEF Signal, Types, Programs
    <2>3. QED
      BY <2>1, <2>2
  <1>4. /\ asked' \in {asked, asked \ {Server}}
        /\ failed' \in {failed, failed \ {Server}}
    BY DEF StartProgram, Signal, history
  <1>5. Types'
    BY <1>1, <1>3, <1>4 DEF Types, CrmicpTypeOK, CroffwTypeOK
  <1>6. ClientsBegin' /\ ShownBy'
    BY <1>1, <1>2, <1>3 DEF ClientsBegin, ShownBy, Loop
  <1>7. ASSUME NEW p \in Programs, Stopping(p)' PROVE p \in asked' \cup failed'
    <2>1. p # Server
      BY <1>2, <1>7 DEF Stopping, InLoop, Up, Begun, Loop
    <2>2. QED
      BY <1>1, <1>4, <1>7, <2>1 DEF Caused, Stopping, InLoop, Up, Begun
  <1>8. QED
    BY <1>2, <1>5, <1>6, <1>7 DEF Caused

LEMMA ClientComesOrGoes ==
    ASSUME NEW c \in Clients, IInv, StartProgram(c) \/ (Signal /\ MicSignal(c) /\ UNCHANGED crserv)
    PROVE  IInv'
  <1> USE StationAssumption DEF IInv, ctl10
  <1>0. c # Server /\ c \in Programs
    BY DEF Programs
  <1>1. /\ UNCHANGED <<cpc, count, old_value, ptty_value, requests, progress_value,
                       poweroff_value>>
        /\ UNCHANGED crserv
    BY <1>0 DEF StartProgram, Signal, MicStart, MicSignal, croffw
  <1>2. /\ ServerInv' /\ UNCHANGED <<srv, value, closers, cfree>>
        /\ Percent(cfree') = Percent(cfree) /\ Percent(cfree) \in Nat
    BY <1>1, ServerRests
  <1>3. \/ /\ StartProgram(c) /\ mpc[c] = "down"
           /\ mpc' = [mpc EXCEPT ![c] = "progress"]
           /\ mfree' = [mfree EXCEPT ![c] = 0]
           /\ starts' = [starts EXCEPT ![c] = @ + 1] /\ starts[c] < Bound(c)
           /\ asked' = asked \ {c} /\ failed' = failed \ {c}
        \/ /\ mpc[c] # "down" /\ mpc' = [mpc EXCEPT ![c] = "down"]
           /\ UNCHANGED <<mfree, starts, asked, failed>>
    BY <1>0 DEF StartProgram, Signal, MicStart, MicSignal, Goes, history
  <1>4. MicFresh(c)
    BY <1>0 DEF StartProgram, MicStart, MicSignal
  <1>5. CrmicpTypeOK'
    BY <1>3, <1>4 DEF Types, CrmicpTypeOK, MicFresh
  <1>6. starts' \in [Programs -> Nat] /\ \A p \in Programs : starts'[p] <= Bound(p)
    <2>1. Bound(c) \in Nat
      BY DEF Bound
    <2>2. QED
      BY <1>0, <1>3, <2>1 DEF Types
  <1>7. Types'
    BY <1>1, <1>3, <1>5, <1>6 DEF Types, CroffwTypeOK
  <1>8. /\ \A d \in Clients : starts'[d] >= starts[d]
        /\ \A d \in Clients : (mfree[d] = 1 \/ starts[d] > 1)
                              => (mfree'[d] = 1 \/ starts'[d] > 1)
    BY <1>0, <1>3 DEF Types, CrmicpTypeOK, ClientsBegin, Programs
  <1>9. ClientsBegin'
    <2>1. ASSUME NEW d \in Clients, d # c
          PROVE  UNCHANGED <<mpc[d], mxpc[d], mptty[d], mfree[d], starts[d]>>
      BY <1>3, <1>4, <2>1 DEF MicFresh, Types, CrmicpTypeOK, Programs
    <2>2. /\ mxpc'[c] = "none" /\ mptty'[c] = 0
          /\ (mpc'[c] # "down" \/ mfree'[c] = 1) => starts'[c] >= 1
      BY <1>0, <1>3, <1>4 DEF MicFresh, Types, CrmicpTypeOK, ClientsBegin
    <2>3. QED
      BY <2>1, <2>2 DEF ClientsBegin
  <1>10. ShownBy'
    BY <1>1, <1>2, <1>8 DEF ShownBy
  <1>11. ASSUME NEW p \in Programs, Stopping(p)' PROVE p \in asked' \cup failed'
    <2>1. p # c
      BY <1>0, <1>3, <1>4, <1>11 DEF Stopping, InLoop, Up, Begun, Loop, MicFresh, Types,
         CrmicpTypeOK
    <2>2. Stopping(p)
      BY <1>1, <1>2, <1>3, <1>4, <1>11, <2>1 DEF Stopping, InLoop, Up, Begun, MicFresh,
         Types, CrmicpTypeOK, Programs
    <2>3. QED
      BY <1>3, <2>1, <2>2 DEF Caused
  <1>12. QED
    BY <1>2, <1>7, <1>9, <1>10, <1>11 DEF Caused

LEMMA CroffwSteps == IInv /\ (StartCroffw \/ CroffwStep \/ UNCHANGED vars) => IInv'
  <1> SUFFICES ASSUME IInv, StartCroffw \/ CroffwStep \/ UNCHANGED vars
               PROVE  IInv'
    OBVIOUS
  <1> USE StationAssumption DEF IInv, ctl10
  <1>1. /\ UNCHANGED crserv
        /\ UNCHANGED <<mpc, mvalue, mptty, mfree, mclose, mxpc, starts, failed, progress_value>>
    BY DEF StartCroffw, CroffwStep, vars, crmicp, history, AskRestart, AskPoweroff, RESTART,
       POWEROFF, CroffwRuns, PollComplete, PollAgain, PollEnough, Withdraw, Interrupted
  <1>2. /\ ServerInv' /\ UNCHANGED <<srv, value, closers, cfree>>
        /\ Percent(cfree') = Percent(cfree) /\ Percent(cfree) \in Nat
    BY <1>1, ServerRests
  <1>3. /\ asked \subseteq asked' /\ asked' \subseteq asked \cup Running
        /\ \/ poweroff_value' \in {poweroff_value, 0, 1}
           \/ poweroff_value' = DISABLE /\ Running \subseteq asked'
    <2>1. CASE StartCroffw
      BY <2>1 DEF StartCroffw, AskRestart, AskPoweroff, RESTART, POWEROFF
    <2>2. CASE CroffwStep
      BY <2>2 DEF CroffwStep, history, RESTART, CroffwRuns, PollComplete, PollAgain,
         PollEnough, Withdraw, Interrupted
    <2>3. CASE UNCHANGED vars
      BY <2>3 DEF vars, history
    <2>4. QED
      BY <2>1, <2>2, <2>3
  <1>4. CroffwTypeOK' /\ requests' \in 0..Requests
    <2>1. CASE StartCroffw
      BY <2>1 DEF StartCroffw, AskRestart, AskPoweroff, DISABLE, GiveUp, croffw, Types,
         CroffwTypeOK
    <2>2. CASE CroffwStep
      BY <2>2 DEF CroffwStep, CroffwRuns, PollComplete, PollAgain, PollEnough, Withdraw, Leave,
         Interrupted, Complete, Stalled, GiveUp, Types, CroffwTypeOK
    <2>3. CASE UNCHANGED vars
      BY <2>3 DEF vars, croffw, Types, CroffwTypeOK
    <2>4. QED
      BY <2>1, <2>2, <2>3
  <1>5. Types'
    BY <1>1, <1>3, <1>4 DEF Types, CrmicpTypeOK, Running, DISABLE
  <1>6. ClientsBegin' /\ ShownBy'
    BY <1>1, <1>2 DEF ClientsBegin, ShownBy
  <1>7. ASSUME NEW p \in Programs, Stopping(p)' PROVE p \in asked' \cup failed'
    BY <1>1, <1>2, <1>3, <1>7 DEF Caused, Stopping, InLoop, Up, Begun, Running, DISABLE
  <1>8. QED
    BY <1>2, <1>5, <1>6, <1>7 DEF Caused

LEMMA IInvAlways == Spec => []IInv
  <1>1. IInv /\ [Next]_vars => IInv'
    <2> SUFFICES ASSUME IInv, Next \/ UNCHANGED vars PROVE IInv'
      OBVIOUS
    <2>1. CASE \E p \in Programs : StartProgram(p)
      BY <2>1, ServerComesOrGoes, ClientComesOrGoes DEF Programs
    <2>2. CASE \E c \in Clients : ClientStep(c)
      BY <2>2, ClientRuns
    <2>3. CASE Signal
      <3>1. CASE libcrt_signal_handle /\ UNCHANGED crmicp
        BY <2>3, <3>1, ServerComesOrGoes
      <3>2. CASE \E c \in Clients : MicSignal(c) /\ UNCHANGED crserv
        BY <2>3, <3>2, ClientComesOrGoes
      <3>3. QED
        BY <2>3, <3>1, <3>2 DEF Signal
    <2>4. QED
      BY <2>1, <2>2, <2>3, ServerRuns, ServerFails, CroffwSteps DEF Next
  <1>2. QED
    BY IInvInit, <1>1, PTL DEF Spec
-----------------------------------------------------------------------------
(* The type invariant: the values that meet in the driver stay in range.   *)
THEOREM StationTyped == Spec => []TypeOK
  <1>1. IInv => TypeOK
    BY StationAssumption DEF IInv, Types, ServerInv, TypeOK, Bound
  <1>2. QED
    BY IInvAlways, <1>1, PTL

(* Of any number of programs on the driver, none stops unasked.            *)
THEOREM StopsAreCaused == Spec => []StopsHaveCause
  <1>1. IInv => StopsHaveCause
    BY DEF IInv, Caused, Stopping, StopsHaveCause
  <1>2. QED
    BY IInvAlways, <1>1, PTL

(* Only a microphone program makes the driver show more than the server    *)
(* has freed.                                                              *)
THEOREM OverstatementIsAClients == Spec => []OverstatedByClientsOnly
  <1>1. IInv => OverstatedByClientsOnly
    BY DEF IInv, ShownBy, OverstatedByClientsOnly, InLoop
  <1>2. QED
    BY IInvAlways, <1>1, PTL
=============================================================================
