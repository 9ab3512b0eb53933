----------------------------- MODULE Descriptors -----------------------------
(* The socket mode with module map0 loaded.  Both take descriptors of the  *)
(* same process: libsck never gives those of its connections back, and the *)
(* thread of map0 opens /proc/<pid> and /proc/<pid>/mem every second.      *)
EXTENDS Libsck

VARIABLES
    mpc,         \* the thread of map0: "sleep", "init", "next", "mem",
                 \* "close", "ended"
    held,        \* descriptors it holds
    map_state    \* libmap_runstate

map  == <<mpc, held, map_state>>
every == <<sck, map>>

DInit == SckInit /\ mpc = "sleep" /\ held = 0 /\ map_state = TRUE

Free == Limit - Cardinality(open) - held
-----------------------------------------------------------------------------
(* Every connection accepted takes a descriptor that is free at that       *)
(* moment; while map0 holds the last one accept fails and the loop goes on.*)
Socket ==
    /\ Server \/ libsck_poweroff
       \/ \E c \in Clients : Connect(c) \/ Send(c) \/ Close(c)
    /\ Cardinality(open' \ open) <= Free
    /\ UNCHANGED map

AcceptRefused ==
    /\ running /\ spc = "accepting" /\ CanAccept /\ Free = 0
    /\ spc' = "accept"
    /\ UNCHANGED <<libsck_state, backlog, bound, fdc, open, eol_matched, ptr,
                   running, clients, taken, oks, late, map>>

(* libmap_poweroff, when the module's exit is called.                      *)
MapOff ==
    /\ running /\ map_state' = FALSE /\ map_state
    /\ UNCHANGED <<sck, mpc, held>>

Wake ==
    /\ running /\ mpc = "sleep"
    /\ mpc' = IF map_state THEN "init" ELSE "ended"
    /\ UNCHANGED <<sck, held, map_state>>

\* MUTANT of find_init: it returns NULL when opendir fails.
find_init_null ==
    IF Free > 0 THEN held' = held + 1 /\ UNCHANGED running
                ELSE UNCHANGED <<held, running>>

(* When opendir fails find_init leaves without a value: what it returns is *)
(* not NULL, readdir follows it, and the handler of SIGSEGV calls exit.    *)
find_init ==
    IF Free > 0 THEN held' = held + 1 /\ UNCHANGED running
                ELSE running' = FALSE /\ UNCHANGED held

ReadProc ==
    /\ running /\ mpc = "init"
    /\ find_init
    /\ mpc' = "next"
    /\ UNCHANGED <<libsck_state, backlog, bound, spc, fdc, open, eol_matched,
                   ptr, clients, taken, oks, late, map_state>>

\* MUTANT of find_exit: the directory stays open.
find_exit_keeps == UNCHANGED held

find_exit == held' = IF held > 0 THEN held - 1 ELSE held

ProcRead ==
    /\ running /\ mpc = "next"
    /\ find_exit
    /\ mpc' = "mem"
    /\ UNCHANGED <<sck, map_state>>

(* open of /proc/<pid>/mem may be refused, for the rights or for want of a *)
(* descriptor; that is only printed.                                       *)
OpenMem ==
    /\ running /\ mpc = "mem"
    /\ \/ Free > 0 /\ held' = held + 1 /\ mpc' = "close"
       \/ mpc' = "sleep" /\ UNCHANGED held
    /\ UNCHANGED <<sck, map_state>>

CloseMem ==
    /\ running /\ mpc = "close"
    /\ held' = held - 1 /\ mpc' = "sleep"
    /\ UNCHANGED <<sck, map_state>>

thread_map_procv == Wake \/ ReadProc \/ ProcRead \/ OpenMem \/ CloseMem

DNext == Socket \/ AcceptRefused \/ MapOff \/ thread_map_procv

DSpec == DInit /\ [][DNext]_every

(* The thread of map0 is scheduled; nothing is assumed of the server or of *)
(* its clients.                                                            *)
DFairSpec == DSpec /\ WF_every(thread_map_procv)
-----------------------------------------------------------------------------
(* The process dies of a client that left before its answer, or when all   *)
(* its descriptors are in the hands of finished or current connections:    *)
(* what map0 opens itself never brings it to the limit.                    *)
DiesOfClientsOnly ==
    [][running /\ ~running' => \/ spc = "answer" /\ fdc \in closed
                           \/ Cardinality(open) = Limit]_every

(* A server whose connections have taken every descriptor does not stay in *)
(* service refusing connections: map0 ends the process, unless it was      *)
(* asked to end itself before.                                             *)
FullMeansDeath ==
    Cardinality(open) = Limit ~> (~running \/ mpc = "ended")
=============================================================================
