-------------------------------- MODULE Crmicp --------------------------------
(***************************************************************************)
(* runexec/crmicp/main.c: the microphone program, once for each member of  *)
(* Clients.  Its main loop is the server's without table and modules: its  *)
(* one system node (/mic/0000) makes the percentage 0 before the node is   *)
(* freed and 100 after, and its closing thread only says that it is done.  *)
(* runexec/crinp/main.c has the same loop.                                 *)
(*                                                                         *)
(* Left out: the sound and the connection; the device that fails to open.  *)
(***************************************************************************)
EXTENDS Ctl10

CONSTANT Clients

VARIABLES
    mpc,      \* where main is; "down": no process
    mvalue,   \* poweroff_value as read by main
    mptty,    \* percentage as computed by main
    mfree,    \* the system node is freed (ctrl_state, libcrt_cfree)
    mclose,   \* close_final
    mxpc      \* closing thread: "none", "running" or "done"
crmicp == <<mpc, mvalue, mptty, mfree, mclose, mxpc>>

\* MUTANT of MicPercent: the node is counted when it is made.
MicPercentOfMade(f) == 100

MicPercent(f) == 100 * f

CrmicpInit ==
    /\ mpc    = [c \in Clients |-> "down"]
    /\ mvalue = [c \in Clients |-> 0]
    /\ mptty  = [c \in Clients |-> 0]
    /\ mfree  = [c \in Clients |-> 0]
    /\ mclose = [c \in Clients |-> 1]
    /\ mxpc   = [c \in Clients |-> "none"]

Goes(c, there) == mpc' = [mpc EXCEPT ![c] = there]
-----------------------------------------------------------------------------
(* The variables of a process that is new, or gone.                        *)
MicFresh(c) ==
    /\ mvalue' = [mvalue EXCEPT ![c] = 0]
    /\ mptty'  = [mptty EXCEPT ![c] = 0]
    /\ mclose' = [mclose EXCEPT ![c] = 1]
    /\ mxpc'   = [mxpc EXCEPT ![c] = "none"]

MicStart(c) ==
    /\ mpc[c] = "down"
    /\ Goes(c, "progress")
    /\ MicFresh(c)
    /\ mfree' = [mfree EXCEPT ![c] = 0]
    /\ UNCHANGED ctl10

MicResetProgress(c) ==
    /\ mpc[c] = "progress"
    /\ PROGWRITE(0)
    /\ Goes(c, "reset")
    /\ UNCHANGED <<mvalue, mptty, mfree, mclose, mxpc>>

\* MUTANT of MicResetPoweroff: the driver keeps the request it holds.
MicResetPoweroffMissing(c) ==
    /\ mpc[c] = "reset"
    /\ Goes(c, "look")
    /\ UNCHANGED <<ctl10, mvalue, mptty, mfree, mclose, mxpc>>

MicResetPoweroff(c) ==
    /\ mpc[c] = "reset"
    /\ RESTART(0)
    /\ Goes(c, "look")
    /\ UNCHANGED <<mvalue, mptty, mfree, mclose, mxpc>>

(* The loop: read the counters and the driver, report, act.                *)
MicLook(c) ==
    /\ mpc[c] = "look"
    /\ mvalue' = [mvalue EXCEPT ![c] = poweroff_value]
    /\ mptty'  = [mptty EXCEPT ![c] = MicPercent(mfree[c])]
    /\ Goes(c, "report")
    /\ UNCHANGED <<ctl10, mfree, mclose, mxpc>>

MicReport(c) ==
    /\ mpc[c] = "report"
    /\ PROGWRITE(mptty[c])
    /\ Goes(c, "act")
    /\ UNCHANGED <<mvalue, mptty, mfree, mclose, mxpc>>

MicIdle(c) ==
    /\ mpc[c] = "act" /\ mvalue[c] # DISABLE
    /\ Goes(c, "look")
    /\ UNCHANGED <<ctl10, mvalue, mptty, mfree, mclose, mxpc>>

(* At 0 percent the round starts the closing thread and frees the node.    *)
MicCloses(c) ==
    /\ mpc[c] = "act" /\ mvalue[c] = DISABLE /\ mptty[c] = 0
    /\ mxpc' = [mxpc EXCEPT ![c] = "running"]
    /\ mfree' = [mfree EXCEPT ![c] = 1]
    /\ Goes(c, "look")
    /\ UNCHANGED <<ctl10, mvalue, mptty, mclose>>

MicLeaves(c) ==
    /\ mpc[c] = "act" /\ mvalue[c] = DISABLE /\ mptty[c] >= 90
    /\ IF mclose[c] = 0
       THEN Goes(c, "down") /\ MicFresh(c)
       ELSE Goes(c, "look") /\ UNCHANGED <<mvalue, mptty, mclose, mxpc>>
    /\ UNCHANGED <<ctl10, mfree>>

\* MUTANT of MicCloserDone: close_final is never cleared.
MicCloserDoneUntold(c) ==
    /\ mpc[c] # "down" /\ mxpc[c] = "running"
    /\ mxpc' = [mxpc EXCEPT ![c] = "done"]
    /\ UNCHANGED <<ctl10, mpc, mvalue, mptty, mfree, mclose>>

(* The closing thread.                                                     *)
MicCloserDone(c) ==
    /\ mpc[c] # "down" /\ mxpc[c] = "running"
    /\ mclose' = [mclose EXCEPT ![c] = 0]
    /\ mxpc' = [mxpc EXCEPT ![c] = "done"]
    /\ UNCHANGED <<ctl10, mpc, mvalue, mptty, mfree>>

(* Any signal ends the process, and its variables (mfree stays as what it  *)
(* had freed).                                                             *)
MicSignal(c) ==
    /\ mpc[c] # "down"
    /\ Goes(c, "down")
    /\ MicFresh(c)
    /\ UNCHANGED <<ctl10, mfree>>

MicMain(c) ==
    \/ MicResetProgress(c) \/ MicResetPoweroff(c)
    \/ MicLook(c) \/ MicReport(c) \/ MicIdle(c) \/ MicCloses(c) \/ MicLeaves(c)

CrmicpTypeOK ==
    /\ mpc \in [Clients -> {"down", "progress", "reset", "look", "report", "act"}]
    /\ mvalue \in [Clients -> 0..2] /\ mptty \in [Clients -> {0, 100}]
    /\ mfree \in [Clients -> 0..1] /\ mclose \in [Clients -> 0..1]
    /\ mxpc \in [Clients -> {"none", "running", "done"}]
=============================================================================
