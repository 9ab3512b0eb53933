-------------------------------- MODULE Crserv --------------------------------
(***************************************************************************)
(* runexec/crserv/main.c: the main thread of the server and its closing    *)
(* thread (thread_procx).  main loads the modules, then looks at the       *)
(* driver in a loop: it publishes the percentage of its records that have  *)
(* been freed and, once asked to power off, starts the closing thread,     *)
(* frees the system nodes itself and leaves the loop when the closing      *)
(* thread is done.                                                         *)
(*                                                                         *)
(* Left out: what the modules do while they are loaded, told to disable    *)
(* their service (mod_disable_service) and freed; the device that fails to *)
(* open.                                                                   *)
(***************************************************************************)
EXTENDS Ctl10

CONSTANTS R,      \* entries of the request table: CORE_BITS
          M,      \* modules in the module directory
          Looks   \* BOUND: counts of freed entries that anyone looks at

ASSUME CrservAssumption ==
    /\ R \in Nat \ {0} /\ M \in Nat
    /\ Looks \subseteq 1..R /\ R \in Looks

(* System nodes: one for each entry, two for each module, and              *)
(* /module/stack0, /sysd/idle and /mic/0000.                               *)
S     == R + 2 * M + 3
Total == S + M + R       \* libcrt_count() + librmc_count()

(* percent(progress, cfree), kept in an unsigned int.                      *)
Percent(f) == (100 * f) \div Total

VARIABLES
    srv,         \* where main is, see CrservTypeOK; "down": no process
    value,       \* poweroff_value as read by main
    ptty,        \* percentage as computed by main
    ctrl_state,  \* main has freed the system nodes
    close_final, \* 0 when the closing thread is done
    closers,     \* closing threads started
    xpc,         \* closing thread: "none", "table", "modules" or "done"
    sysfree, rmcfree, modfree   \* the freed among S, R and M

teardown == <<ctrl_state, close_final, closers, xpc, sysfree, rmcfree, modfree>>
rest     == <<value, ptty, teardown>>
crserv   == <<srv, rest>>

cfree == sysfree + rmcfree + modfree

CrservInit ==
    /\ srv = "down"
    /\ value = 0 /\ ptty = 0 /\ ctrl_state = 0 /\ close_final = 1
    /\ closers = 0 /\ xpc = "none"
    /\ sysfree = 0 /\ rmcfree = 0 /\ modfree = 0
-----------------------------------------------------------------------------
(* The variables of a process that is new, or gone.                        *)
Fresh ==
    /\ value' = 0 /\ ptty' = 0 /\ ctrl_state' = 0 /\ close_final' = 1
    /\ closers' = 0 /\ xpc' = "none"
    /\ sysfree' = 0 /\ rmcfree' = 0 /\ modfree' = 0

Start ==
    /\ srv = "down"
    /\ srv' = "load"
    /\ Fresh
    /\ UNCHANGED ctl10

(* A module that fails to load asks for power-off.                         *)
LoadFails ==
    /\ srv = "load"
    /\ POWEROFF(DISABLE)
    /\ srv' = "progress"
    /\ UNCHANGED rest

LoadModules ==
    /\ srv = "load"
    /\ srv' = "progress"
    /\ UNCHANGED <<ctl10, rest>>

\* MUTANT of ResetProgress: the driver keeps the last run's progress.
ResetProgressMissing ==
    /\ srv = "progress"
    /\ srv' = "reset"
    /\ UNCHANGED <<ctl10, rest>>

ResetProgress ==
    /\ srv = "progress"
    /\ PROGWRITE(0)
    /\ srv' = "reset"
    /\ UNCHANGED rest

\* MUTANT of ResetPoweroff: the driver keeps the request it holds.
ResetPoweroffMissing ==
    /\ srv = "reset"
    /\ srv' = "look"
    /\ UNCHANGED <<ctl10, rest>>

(* RESTART with ptty_value, which is 2 after a failed load.                *)
ResetPoweroff ==
    /\ srv = "reset"
    /\ \E v \in {0, DISABLE} : RESTART(v)
    /\ srv' = "look"
    /\ UNCHANGED rest
-----------------------------------------------------------------------------
(* The loop: read the counters and the driver, report, act.                *)
Look ==
    /\ srv = "look"
    /\ value' = poweroff_value
    /\ ptty' = Percent(cfree)
    /\ srv' = "report"
    /\ UNCHANGED <<ctl10, teardown>>

Report ==
    /\ srv = "report"
    /\ PROGWRITE(ptty)
    /\ srv' = "act"
    /\ UNCHANGED rest

Idle ==
    /\ srv = "act" /\ value # DISABLE
    /\ srv' = "look"
    /\ UNCHANGED <<ctl10, rest>>

SpawnsCloser == ptty = 0

\* MUTANT of FreesNodes: not in the round that starts the closing thread.
FreesNodesLater == ptty > 0 /\ ptty <= 60 /\ ctrl_state = 0

FreesNodes == ptty <= 60 /\ ctrl_state = 0

\* MUTANT of Leaves: close_final is not looked at.
LeavesUnclosed == ptty >= 90

Leaves == ptty >= 90 /\ close_final = 0

Act ==
    /\ srv = "act" /\ value = DISABLE
    /\ IF SpawnsCloser
       THEN closers' = closers + 1 /\ xpc' = "table"
       ELSE UNCHANGED <<closers, xpc>>
    /\ IF FreesNodes
       THEN sysfree' = S /\ ctrl_state' = 1
       ELSE UNCHANGED <<sysfree, ctrl_state>>
    /\ srv' = IF Leaves THEN "down" ELSE "look"
    /\ UNCHANGED <<ctl10, value, ptty, close_final, rmcfree, modfree>>

(* Any signal ends the process, and so do the threads that are caught      *)
(* using the table or a module while the closing thread frees it: the      *)
(* handler of SIGSEGV exits too.  The process's variables end with it.     *)
libcrt_signal_handle ==
    /\ srv # "down"
    /\ srv' = "down"
    /\ Fresh
    /\ UNCHANGED ctl10
-----------------------------------------------------------------------------
(* The closing thread.  librmc_exit frees the table entry by entry.        *)
librmc_free ==
    /\ srv # "down" /\ xpc = "table"
    /\ rmcfree' \in {n \in Looks : n > rmcfree}
    /\ xpc' = IF rmcfree' = R THEN "modules" ELSE "table"
    /\ UNCHANGED <<ctl10, srv, value, ptty, ctrl_state, close_final, closers,
                   sysfree, modfree>>

mod_free ==
    /\ srv # "down" /\ xpc = "modules"
    /\ modfree < M
    /\ modfree' = modfree + 1
    /\ UNCHANGED <<ctl10, srv, value, ptty, ctrl_state, close_final, closers,
                   xpc, sysfree, rmcfree>>

CloserDone ==
    /\ srv # "down" /\ xpc = "modules"
    /\ modfree = M
    /\ close_final' = 0
    /\ xpc' = "done"
    /\ UNCHANGED <<ctl10, srv, value, ptty, ctrl_state, closers,
                   sysfree, rmcfree, modfree>>

Main   == \/ LoadModules \/ ResetProgress \/ ResetPoweroff
          \/ Look \/ Report \/ Idle \/ Act
Closer == librmc_free \/ mod_free \/ CloserDone

CrservTypeOK ==
    /\ srv \in {"down", "load", "progress", "reset", "look", "report", "act"}
    /\ value \in 0..2 /\ ptty \in 0..100
    /\ ctrl_state \in 0..1 /\ close_final \in 0..1
    /\ closers \in 0..2 /\ xpc \in {"none", "table", "modules", "done"}
    /\ sysfree \in {0, S} /\ rmcfree \in Looks \cup {0} /\ modfree \in 0..M
=============================================================================
