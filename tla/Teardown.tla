------------------------------ MODULE Teardown ------------------------------
(***************************************************************************)
(* The shutdown of crserv seen from its threads.  The closing thread       *)
(* (thread_procx) frees the request table, cancels the threads of the      *)
(* registry (mod_thread_t) and unloads the modules, while main still tells *)
(* the modules to disable their service and the threads run until they     *)
(* come to a cancellation point: the cancellation is deferred, and nobody  *)
(* waits for a thread to end.                                              *)
(*                                                                         *)
(* A step of a thread uses some of the memory the closing thread frees.    *)
(* Using what is freed already is recorded as harm: the process ends (the  *)
(* handler of SIGSEGV calls exit), or goes on with what free left of it;   *)
(* running code that is unloaded always ends it.                           *)
(* (Both free loops read the next field of the record they have just       *)
(* freed; glibc's free does not overwrite it, and no other thread          *)
(* allocates a chunk of that size, so here they go on as written.)         *)
(*                                                                         *)
(* A message that fatal() prints may let a thread act on its cancellation  *)
(* sooner than it does here; it takes no other step in between.            *)
(***************************************************************************)
EXTENDS Integers, Sequences, FiniteSets

CONSTANTS M,         \* modules, in the order of their directory
          Order,     \* those with a thread (bcdx, thi0, map0, mod0, stk0), as
                     \* they come in the directory
          Thi,       \* thi0, or 0 if it is not there
          Bcdx,      \* bcdx, to which the worker posts
          Update,    \* modules bcdx posts to while a request is updated
          Answer,    \* modules bcdx posts to while it is sent
          Writers    \* modules that open and write files: cor0

Modules  == 1..M
Services == {Order[n] : n \in DOMAIN Order}

ASSUME TeardownAssumption ==
    /\ M \in Nat \ {0}
    /\ Order \in Seq(Modules)
    /\ \A m, n \in DOMAIN Order : m < n => Order[m] < Order[n]
    /\ Thi \in Services \cup {0}
    /\ Bcdx \in Modules /\ Writers \subseteq Modules
    /\ Update \in Seq(Modules) /\ Answer \in Seq(Modules)

(* The threads.                                                            *)
Of(i)    == <<"module", i>>
Reaper   == <<"reaper", 0>>
Worker   == <<"worker", 0>>
Final    == <<"finaliser", 0>>
Servants == {Of(i) : i \in Services}
Threads  == Servants \cup {Reaper, Worker, Final}
Main     == <<"main", 0>>
Closer   == <<"closer", 0>>

(* The registry: modules register their thread as they are loaded, then    *)
(* librmc_proc does, then main for its own two.                            *)
Registry ==
    [n \in DOMAIN Order |-> Of(Order[n])] \o <<Reaper, Worker, Final>>

(* What gets freed.                                                        *)
Table     == <<"table", 0>>    \* entries and head of the request table
Entry(j)  == <<"thread", j>>   \* record j of the registry
Module(i) == <<"record", i>>   \* record i of the module list
Ext(i)    == <<"ext", i>>      \* what FMOD_ALLOC of module i allocated
Code(i)   == <<"code", i>>     \* its code and data

(* A request, post by post.  "look" tests sptr_core, "table" uses it.      *)
Call(i) == [does |-> "post", to |-> i]
Look    == [does |-> "look", to |-> 0]
Use     == [does |-> "table", to |-> 0]
Calls(s) == [n \in DOMAIN s |-> Call(s[n])]
Request == <<Look, Use, Call(Bcdx)>> \o Calls(Update)
           \o <<Look, Use, Call(Bcdx)>> \o Calls(Answer)

VARIABLES
    alive,    \* no signal has ended the process
    freed,    \* what has been freed or unloaded
    harm,     \* HISTORY: the latest use of memory: <<thread, kind>> if freed
    sptr_core,\* the table's pointer is set
    thcount, count,   \* records of the registry, of the module list
    tid,      \* records of the registry whose tid is set
    cancels,  \* HISTORY: cancellations asked of each thread
    state,    \* each thread: "rest" (at a cancellation point), "busy", "ended"
    step,     \* where a busy thread is
    off,      \* modules whose poweroff was called (runstate is 0)
    told,     \* modules whose service flag is set
    bpos,     \* main: module it tells next; 0 before, M + 1 after
    xpc, xi,  \* closing thread
    busy      \* HISTORY: threads at work when their cancellation was asked

memory == <<alive, freed, harm>>
lists  == <<sptr_core, thcount, count, tid>>
flags  == <<off, told>>
closer == <<xpc, xi, busy>>
vars   == <<memory, lists, cancels, state, step, flags, bpos, closer>>

Init ==
    /\ alive = TRUE /\ freed = {} /\ harm = {}
    /\ sptr_core = TRUE
    /\ thcount = Len(Registry) /\ count = M /\ tid = DOMAIN Registry
    /\ cancels = [t \in Threads |-> 0]
    /\ state = [t \in Threads |-> "rest"] /\ step = [t \in Threads |-> 0]
    /\ off = {} /\ told = {} /\ bpos = 0
    /\ xpc = "none" /\ xi = 1 /\ busy = {}
-----------------------------------------------------------------------------
(* who uses the memory in things.                                          *)
Uses(who, things) ==
    LET bad == things \cap freed
    IN  /\ harm' = {<<who, b[1]>> : b \in bad}
        /\ alive' \in CASE bad = {} -> {TRUE}
                        [] \E b \in bad : b[1] = "code" -> {FALSE}
                        [] OTHER -> {TRUE, FALSE}
        /\ UNCHANGED freed

(* who reads through sptr_core, which it found set an instant before.      *)
UsesTable(who) ==
    IF sptr_core THEN Uses(who, {Table})
    ELSE /\ harm' = {<<who, Table[1]>>}
         /\ alive' = FALSE
         /\ UNCHANGED freed

Pending(t) == cancels[t] > 0

Becomes(t, s, n) ==
    /\ state' = [state EXCEPT ![t] = s]
    /\ step'  = [step EXCEPT ![t] = n]

Elsewhere == UNCHANGED <<lists, cancels, flags, bpos, closer>>

(* A thread at rest acts on its cancellation at once.  A module's thread   *)
(* is unwound through the frames of the module's code.                     *)
Cancelled(t) ==
    /\ alive /\ state[t] = "rest" /\ Pending(t)
    /\ IF t \in Servants THEN Uses(t, {Code(t[2])}) ELSE UNCHANGED memory
    /\ Becomes(t, "ended", 0)
    /\ Elsewhere

Wakes(t) == alive /\ state[t] = "rest" /\ ~Pending(t)
-----------------------------------------------------------------------------
(* thread_proc_xsd: a pass begins, visits entries and ends.  librmc_find   *)
(* tests the pointer, the beginning and the end of the pass do not again.  *)
ReaperWakes ==
    /\ Wakes(Reaper) /\ sptr_core
    /\ UsesTable(Reaper)
    /\ Becomes(Reaper, "busy", 1)
    /\ Elsewhere

ReaperVisits ==
    /\ alive /\ state[Reaper] = "busy" /\ step[Reaper] = 1
    /\ IF sptr_core THEN Uses(Reaper, {Table}) ELSE UNCHANGED memory
    /\ Becomes(Reaper, "busy", 2)
    /\ Elsewhere

ReaperRests ==
    /\ alive /\ state[Reaper] = "busy" /\ step[Reaper] = 2
    /\ UsesTable(Reaper)
    /\ Becomes(Reaper, "rest", 0)
    /\ Elsewhere

(* thread_procv: librmc_final tests the pointer, then walks the table.     *)
FinalWakes ==
    /\ Wakes(Final) /\ sptr_core
    /\ Becomes(Final, "busy", 1)
    /\ Elsewhere /\ UNCHANGED memory

FinalRests ==
    /\ alive /\ state[Final] = "busy"
    /\ UsesTable(Final)
    /\ Becomes(Final, "rest", 0)
    /\ Elsewhere
-----------------------------------------------------------------------------
(* sound_callback_threads_ctx.                                             *)
WorkerWakes ==
    /\ Wakes(Worker)
    /\ Becomes(Worker, "busy", 1)
    /\ Elsewhere /\ UNCHANGED memory

Item == Request[step[Worker]]

WorkerGoesOn ==
    IF step[Worker] = Len(Request) THEN Becomes(Worker, "rest", 0)
                                   ELSE Becomes(Worker, "busy", step[Worker] + 1)

(* librmc_create and librmc_select give up when the pointer is NULL.       *)
WorkerLooks ==
    /\ alive /\ state[Worker] = "busy" /\ Item.does = "look"
    /\ IF sptr_core THEN WorkerGoesOn ELSE Becomes(Worker, "rest", 0)
    /\ Elsewhere /\ UNCHANGED memory

WorkerUsesTable ==
    /\ alive /\ state[Worker] = "busy" /\ Item.does = "table"
    /\ UsesTable(Worker)
    /\ WorkerGoesOn
    /\ Elsewhere

(* mod_post: mod_find reads the records, and names that lie in the         *)
(* modules' data, up to the one it looks for; its FMOD_CTRL runs below     *)
(* that of bcdx.  An empty list is searched in vain.                       *)
WorkerPosts ==
    LET to == Item.to
        walked == {Module(i) : i \in 1..to} \cup {Code(i) : i \in 1..to}
    IN  /\ alive /\ state[Worker] = "busy" /\ Item.does = "post"
        /\ ~(Pending(Worker) /\ to \in Writers)
        /\ Uses(Worker, {Code(Bcdx)} \cup
                        IF count > 0 THEN walked \cup {Ext(to)} ELSE {})
        /\ WorkerGoesOn
        /\ Elsewhere

(* The open and write calls of cor0 are cancellation points.               *)
WorkerCancelledInside ==
    /\ alive /\ state[Worker] = "busy" /\ Pending(Worker)
    /\ Item.does = "post" /\ Item.to \in Writers
    /\ Uses(Worker, {Code(Bcdx), Code(Item.to)})
    /\ Becomes(Worker, "ended", 0)
    /\ Elsewhere
-----------------------------------------------------------------------------
(* The thread of module i wakes, goes round its loop once and sleeps, or   *)
(* leaves when its runstate is 0.                                          *)
ServantWakes(i) ==
    /\ Wakes(Of(i))
    /\ Uses(Of(i), {Code(i)})
    /\ IF i \in off THEN Becomes(Of(i), "ended", 0)
                    ELSE Becomes(Of(i), "busy", 1)
    /\ Elsewhere

(* thread_thi_procv walks the registry unless it was told to stop.         *)
Walks(i) == /\ i = Thi /\ i \notin told /\ i \notin off
            /\ step[Of(i)] <= thcount

ThiWalks ==
    /\ Thi # 0 /\ alive /\ state[Of(Thi)] = "busy" /\ Walks(Thi)
    /\ Uses(Of(Thi), {Code(Thi), Ext(Thi), Entry(step[Of(Thi)])})
    /\ Becomes(Of(Thi), "busy", step[Of(Thi)] + 1)
    /\ Elsewhere

ServantRests(i) ==
    /\ alive /\ state[Of(i)] = "busy" /\ ~Walks(i)
    /\ Uses(Of(i), {Code(i), Ext(i)})
    /\ Becomes(Of(i), "rest", 0)
    /\ Elsewhere
-----------------------------------------------------------------------------
(* main obeys a request to power off.                                      *)
SpawnCloser ==
    /\ alive /\ xpc = "none"
    /\ xpc' = "cancel" /\ bpos' = 1
    /\ UNCHANGED <<memory, lists, cancels, state, step, flags, xi, busy>>

(* mod_disable_service.                                                    *)
Broadcast ==
    /\ alive /\ bpos \in 1..count
    /\ Uses(Main, {Module(bpos), Code(bpos), Ext(bpos)})
    /\ told' = told \cup {bpos}
    /\ bpos' = bpos + 1
    /\ UNCHANGED <<lists, cancels, state, step, off, closer>>

BroadcastEnds ==
    /\ alive /\ bpos > count /\ bpos <= M
    /\ bpos' = M + 1
    /\ UNCHANGED <<memory, lists, cancels, state, step, flags, closer>>
-----------------------------------------------------------------------------
(* The closing thread.  Cancelling looks at the record of the thread.      *)
Cancel(S) ==
    /\ cancels' = [t \in Threads |->
                     IF \E j \in S : Registry[j] = t THEN cancels[t] + 1
                                                     ELSE cancels[t]]
    /\ busy' = busy \cup {t \in Threads : /\ state[t] = "busy"
                                         /\ \E j \in S : Registry[j] = t}

(* mod_thread_close cancels the threads with a given certificate.          *)
mod_thread_close(certified) ==
    /\ Uses(Closer, {Entry(j) : j \in 1..thcount})
    /\ Cancel(certified \cap tid \cap 1..thcount)
    /\ tid' = tid \ (certified \cap 1..thcount)

Frees(things) == freed' = freed \cup things /\ UNCHANGED <<alive, harm>>

Certified(t) == {j \in DOMAIN Registry : Registry[j] = t}

\* MUTANT of librmc_exit: the reaper is not cancelled first.
librmc_exit_free_first ==
    /\ alive /\ xpc = "cancel"
    /\ xpc' = "table"
    /\ UNCHANGED <<memory, lists, cancels, state, step, flags, bpos,
                   xi, busy>>

(* librmc_exit: cancel the reaper, free the table, clear the pointer.      *)
librmc_exit ==
    /\ alive /\ xpc = "cancel"
    /\ mod_thread_close(Certified(Reaper))
    /\ xpc' = "table"
    /\ UNCHANGED <<sptr_core, thcount, count, state, step, flags, bpos, xi>>

librmc_free ==
    /\ alive /\ xpc = "table"
    /\ Frees({Table})
    /\ xpc' = "pointer"
    /\ UNCHANGED <<lists, cancels, state, step, flags, bpos, xi, busy>>

librmc_exit_ends ==
    /\ alive /\ xpc = "pointer"
    /\ sptr_core' = FALSE
    /\ xpc' = "threads" /\ xi' = 1
    /\ UNCHANGED <<memory, thcount, count, tid, cancels, state, step, flags,
                   bpos, busy>>

\* MUTANT of mod_thread_exit: it frees the records without a cancellation.
mod_thread_exit_frees ==
    /\ alive /\ xpc = "threads" /\ xi <= thcount
    /\ Frees({Entry(xi)})
    /\ xi' = xi + 1
    /\ UNCHANGED <<lists, cancels, state, step, flags, bpos, xpc, busy>>

(* mod_thread_exit: cancel and free record after record.                   *)
mod_thread_exit ==
    /\ alive /\ xpc = "threads" /\ xi <= thcount
    /\ Cancel({xi} \cap tid)
    /\ tid' = tid \ {xi}
    /\ Frees({Entry(xi)})
    /\ xi' = xi + 1
    /\ UNCHANGED <<sptr_core, thcount, count, state, step, flags, bpos, xpc>>

(* Then thcount is 0: the registry is empty for whoever asks.              *)
mod_thread_exit_ends ==
    /\ alive /\ xpc = "threads" /\ xi > thcount
    /\ thcount' = 0
    /\ xpc' = "exit" /\ xi' = 1
    /\ UNCHANGED <<memory, sptr_core, count, tid, cancels, state, step, flags,
                   bpos, busy>>

(* mod_free ends module xi: FMOD_EXIT closes its thread once more, turns   *)
(* it off and frees what FMOD_ALLOC allocated.                             *)
mod_exit ==
    /\ alive /\ xpc = "exit" /\ xi <= count
    /\ IF xi \in Services THEN mod_thread_close(Certified(Of(xi)))
                          ELSE UNCHANGED <<memory, cancels, tid, busy>>
    /\ off' = off \cup {xi}
    /\ xpc' = "unload"
    /\ UNCHANGED <<sptr_core, thcount, count, state, step, told, bpos, xi>>

(* Then it unloads the module and frees its record.                        *)
mod_unload ==
    /\ alive /\ xpc = "unload"
    /\ Frees({Ext(xi), Code(xi), Module(xi)})
    /\ xpc' = "exit" /\ xi' = xi + 1
    /\ UNCHANGED <<lists, cancels, state, step, flags, bpos, busy>>

CloserDone ==
    /\ alive /\ xpc = "exit" /\ xi > count
    /\ count' = 0
    /\ xpc' = "done"
    /\ UNCHANGED <<memory, sptr_core, thcount, tid, cancels, state, step, flags,
                   bpos, xi, busy>>
-----------------------------------------------------------------------------
ReaperStep == ReaperWakes \/ ReaperVisits \/ ReaperRests
FinalStep  == FinalWakes \/ FinalRests
WorkerStep == \/ WorkerLooks \/ WorkerUsesTable \/ WorkerPosts
              \/ WorkerCancelledInside
ServantStep(i) == ServantWakes(i) \/ ServantRests(i)
MainStep   == Broadcast \/ BroadcastEnds
CloserStep == \/ librmc_exit \/ librmc_free \/ librmc_exit_ends
              \/ mod_thread_exit \/ mod_thread_exit_ends
              \/ mod_exit \/ mod_unload \/ CloserDone

Next ==
    \/ \E t \in Threads : Cancelled(t)
    \/ ReaperStep \/ FinalStep \/ WorkerWakes \/ WorkerStep
    \/ \E i \in Services : ServantStep(i)
    \/ ThiWalks
    \/ SpawnCloser \/ MainStep \/ CloserStep

Spec == Init /\ [][Next]_vars

(* Threads are scheduled and a cancellation that is due is delivered;      *)
(* nobody is bound to send a request.                                      *)
FairSpec ==
    /\ Spec
    /\ \A t \in Threads : WF_vars(Cancelled(t))
    /\ WF_vars(ReaperStep) /\ WF_vars(FinalStep) /\ WF_vars(WorkerStep)
    /\ \A i \in Services : WF_vars(ServantStep(i))
    /\ WF_vars(ThiWalks) /\ WF_vars(MainStep) /\ WF_vars(CloserStep)
-----------------------------------------------------------------------------
(* The reaper is cancelled before the table is freed: it is caught using   *)
(* the freed table, or the cleared pointer, only if it was in the middle   *)
(* of a pass when that was asked.  (The finaliser and the worker are       *)
(* cancelled after the table is gone: they may be caught in any case.)     *)
ReaperCaughtInItsPassOnly ==
    <<Reaper, "table">> \in harm => Reaper \in busy

(* thi0's thread reads a freed record of the registry only if it was in    *)
(* its walk when its cancellation was asked, or if a module with a thread  *)
(* comes before thi0 in the directory: the records are freed in the order  *)
(* of loading, and it is cancelled when its own is reached.                *)
WalkerCaughtLate ==
    (Thi # 0 /\ <<Of(Thi), "thread">> \in harm) =>
        Of(Thi) \in busy \/ \E i \in Services : i < Thi

(* No thread is cancelled twice, although librmc_exit, mod_thread_exit and *)
(* the exit of its module each go for it (its id may be another thread's   *)
(* by then); and all have been cancelled before the first is unloaded.     *)
CancelledOnce ==
    \A t \in Threads :
        /\ cancels[t] <= 1
        /\ xpc \in {"exit", "unload", "done"} => cancels[t] = 1

(* Once the closing thread has begun, either a signal ends the process or all *)
(* threads end, the broadcast ends and the closing thread comes to its     *)
(* end: no cancellation is lost, whatever each thread was doing.           *)
Over == /\ xpc = "done" /\ bpos = M + 1
        /\ \A t \in Threads : state[t] = "ended"
TeardownEnds == (xpc # "none") ~> (~alive \/ Over)
=============================================================================
