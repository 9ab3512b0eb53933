------------------------------- MODULE Librmc -------------------------------
(***************************************************************************)
(* library/librmc: the request table of the server ("sptr_core").          *)
(*                                                                         *)
(* The table is a list of N entries built once by librmc_init.  A request  *)
(* (sound_callback_threads_ctx of runexec/crserv) leases the first free    *)
(* entry (librmc_create), has the modules work on it, asks for the entry   *)
(* that carries its code (librmc_select) and sends the answer through it.  *)
(* Three threads share the table without a lock:                           *)
(*   - the worker (thread_procw), which runs one request after another;    *)
(*   - the reaper (thread_proc_xsd), which once a second makes N visits    *)
(*     to entries it picks at random and frees those that timed out;       *)
(*   - the finaliser (thread_procv), which frees finished entries.         *)
(* Reads and writes of one entry are the grain of interleaving.            *)
(*                                                                         *)
(* Left out: the fields the table writes and never reads back (data,       *)
(* brain, last, vstate, fdev), printing, what the modules the request is   *)
(* posted to do with it, and closing the table, which Crserv.tla models.   *)
(* What librmc_select stores in prev->core is the request's code again     *)
(* (dbi0 copies it into sptr->core); core shows it by the entry leased for *)
(* the request, so that two requests with one code are told apart.         *)
(***************************************************************************)
EXTENDS Integers, FiniteSets, Ctime

UShort == 65536    \* values of an unsigned short

CONSTANTS N,        \* number of entries: CORE_BITS
          Ring,     \* number of buffers that cdigest hands out in turn
          Limit,    \* seconds after which the reaper frees an entry
          Times     \* readings of the clock

ASSUME LibrmcAssumption ==
    /\ N \in 1..(UShort - 1)
    /\ Ring \in Nat \ {0}
    /\ Limit \in Nat
    /\ Times \subseteq ClockStamps /\ Times # {}

ENABLE  == 1        \* CRMC_ENABLE, CRMC_PROCESS, CRMC_FINAL
PROCESS == 2
FINAL   == 3

NULL    == -1       \* no entry
Entries == 0..(N - 1)

(* Entries get their code from cdigest, which returns one of Ring static   *)
(* buffers in turn: entries whose numbers agree modulo Ring share a code.  *)
Code(e) == e % Ring

\* MUTANT of RandomCodes: rand()%CORE_BITS, without the -1.
RandomCodesAll == 0..(N - 1)

(* rand()%CORE_BITS-1, passed as an unsigned short: -1 becomes 65535.      *)
RandomCodes == {r % UShort : r \in -1..(N - 2)}

VARIABLES
    phase,    \* main: "init", "serving" or "crashed"
    count,    \* sptr_core->count
    status,   \* status of each entry
    first,    \* stamp of each entry's lease
    core,     \* prev->core: lease whose code was stored last, or NULL
    clock,    \* what localtime says now
    wpc,      \* worker: "idle", "create", "select" or "send"
    scan,     \* worker: entry it looks at next
    lease,    \* worker: entry librmc_create gave it, or NULL
    answer,   \* worker: entry librmc_select gave it, or NULL
    rpc,      \* reaper: "sleep", "find" or "brian"
    visits,   \* reaper: visits made in this pass
    code,     \* reaper: number of the entry it visits
    corestamp,\* reaper: sptr_core->core
    ticked    \* HISTORY: the clock has moved since the pass began

worker == <<wpc, scan, lease, answer>>
reaper == <<rpc, visits, code, corestamp, ticked>>
table  == <<phase, count, status, first, core>>
vars   == <<table, clock, worker, reaper>>
-----------------------------------------------------------------------------
Init ==
    /\ phase = "init"
    /\ count = 0
    /\ status = [e \in Entries |-> ENABLE]
    /\ clock \in Times
    /\ first = [e \in Entries |-> clock]  \* not set, not read before a lease
    /\ core = [e \in Entries |-> NULL]
    /\ wpc = "idle" /\ scan = 0 /\ lease = NULL /\ answer = NULL
    /\ rpc = "sleep" /\ visits = 0 /\ code = 0
    /\ corestamp = clock /\ ticked = FALSE

(* Time passes; the reading is a minute and a second, so it may wrap.      *)
Tick ==
    /\ clock' \in Times \ {clock}
    /\ ticked' = TRUE
    /\ UNCHANGED <<table, worker, rpc, visits, code, corestamp>>
-----------------------------------------------------------------------------
(* librmc_init calls librmc_update N times; each appends an entry.         *)
librmc_update ==
    /\ phase = "init" /\ count < N
    /\ count' = count + 1
    /\ status' = [status EXCEPT ![count] = ENABLE]
    /\ core' = [core EXCEPT ![count] = NULL]
    /\ phase' = IF count + 1 = N THEN "serving" ELSE "init"
    /\ UNCHANGED <<first, clock, worker, reaper>>

(* An allocation fails: the table is freed and sptr_core is NULL for good. *)
(* The reaper dereferences it as soon as it runs.                          *)
librmc_update_fails ==
    /\ phase = "init" /\ count < N
    /\ count' = 0
    /\ phase' = "crashed"
    /\ UNCHANGED <<status, first, core, clock, worker, reaper>>
-----------------------------------------------------------------------------
(* Worker.  A sound block arrives and librmc_create starts its scan.       *)
Arrive ==
    /\ phase = "serving" /\ wpc = "idle"
    /\ wpc' = "create"
    /\ UNCHANGED <<table, clock, scan, lease, answer, reaper>>

EndRequest == wpc' = "idle" /\ scan' = 0 /\ lease' = NULL /\ answer' = NULL

(* librmc_create takes the first entry it finds free.                      *)
librmc_create_take ==
    /\ wpc = "create" /\ scan < count
    /\ status[scan] = ENABLE
    /\ first' = [first EXCEPT ![scan] = clock]
    /\ status' = [status EXCEPT ![scan] = PROCESS]
    /\ lease' = scan
    /\ wpc' = "select" /\ scan' = 0
    /\ UNCHANGED <<phase, count, core, clock, answer, reaper>>

librmc_create_next ==
    /\ wpc = "create" /\ scan < count
    /\ status[scan] # ENABLE
    /\ scan' = scan + 1
    /\ UNCHANGED <<table, clock, wpc, lease, answer, reaper>>

(* No entry is free: the request is dropped.                               *)
librmc_create_none ==
    /\ wpc = "create" /\ scan = count
    /\ EndRequest
    /\ UNCHANGED <<table, clock, reaper>>

\* MUTANT of Selects: only finished entries match.
SelectsFinished(e) == Code(e) = Code(lease) /\ status[e] = FINAL

(* librmc_select looks for the code of the lease among the entries in      *)
(* process.  Line 217 compares the status with CRMC_FINAL where it was to  *)
(* assign it: the entry stays in process.                                  *)
Selects(e) == Code(e) = Code(lease) /\ status[e] = PROCESS

librmc_select_hit ==
    /\ wpc = "select" /\ scan < count
    /\ Selects(scan)
    /\ core' = [core EXCEPT ![scan] = lease]
    /\ answer' = scan
    /\ wpc' = "send" /\ scan' = 0
    /\ UNCHANGED <<phase, count, status, first, clock, lease, reaper>>

librmc_select_next ==
    /\ wpc = "select" /\ scan < count
    /\ ~Selects(scan)
    /\ scan' = scan + 1
    /\ UNCHANGED <<table, clock, wpc, lease, answer, reaper>>

(* No entry in process carries the code: the request ends unanswered.      *)
librmc_select_none ==
    /\ wpc = "select" /\ scan = count
    /\ EndRequest
    /\ UNCHANGED <<table, clock, reaper>>

(* mod_post(bcdx, STACK_SEND) answers through the selected entry.          *)
Send ==
    /\ wpc = "send"
    /\ EndRequest
    /\ UNCHANGED <<table, clock, reaper>>

-----------------------------------------------------------------------------
(* Finaliser: librmc_final(NULL) frees the first finished entry, if any.   *)
librmc_final ==
    /\ phase = "serving"
    /\ status' = [e \in Entries |->
                     IF /\ status[e] = FINAL
                        /\ \A d \in 0..(e - 1) : status[d] # FINAL
                     THEN ENABLE ELSE status[e]]
    /\ UNCHANGED <<phase, count, first, core, clock, worker, reaper>>
-----------------------------------------------------------------------------
(* Reaper.  One pass: note the time, then visit count entries.             *)
PassBegins ==
    /\ phase = "serving" /\ rpc = "sleep"
    /\ rpc' = "find" /\ visits' = 0
    /\ corestamp' = clock /\ ticked' = FALSE
    /\ UNCHANGED <<table, clock, worker, code>>

\* MUTANT of librmc_find_none: it too returns the random number.
librmc_find_none_random ==
    /\ rpc = "find" /\ visits < count
    /\ code \notin 0..(count - 1)
    /\ visits' = visits + 1
    /\ code' \in RandomCodes
    /\ UNCHANGED <<table, clock, worker, rpc, corestamp, ticked>>

(* librmc_find finds no entry with that number: it returns the number.     *)
librmc_find_none ==
    /\ rpc = "find" /\ visits < count
    /\ code \notin 0..(count - 1)
    /\ visits' = visits + 1
    /\ UNCHANGED <<table, clock, worker, rpc, code, corestamp, ticked>>

Expired(e) == GetTimeFinal(first[e], clock).utime > Limit

\* MUTANT of librmc_find_lease: the stamp of the lease is not read.
librmc_find_lease_always ==
    /\ rpc = "find" /\ visits < count
    /\ code \in 0..(count - 1)
    /\ rpc' = "brian"
    /\ status' = [status EXCEPT ![code] = ENABLE]
    /\ UNCHANGED <<phase, count, first, core, clock, worker,
                   visits, code, corestamp, ticked>>

\* MUTANT of librmc_find_lease: it finds its entry by the shared code.
librmc_find_lease_aliases ==
    /\ rpc = "find" /\ visits < count
    /\ code \in 0..(count - 1)
    /\ rpc' = "brian"
    /\ status' = [e \in Entries |->
                     IF Code(e) = Code(code) /\ Expired(code)
                     THEN ENABLE ELSE status[e]]
    /\ UNCHANGED <<phase, count, first, core, clock, worker,
                   visits, code, corestamp, ticked>>

(* librmc_find, first half: the lease's own stamp.                         *)
librmc_find_lease ==
    /\ rpc = "find" /\ visits < count
    /\ code \in 0..(count - 1)
    /\ rpc' = "brian"
    /\ status' = IF status[code] \in {PROCESS, FINAL} /\ Expired(code)
                 THEN [status EXCEPT ![code] = ENABLE] ELSE status
    /\ UNCHANGED <<phase, count, first, core, clock, worker,
                   visits, code, corestamp, ticked>>

(* librmc_find, second half: the stamp of the pass, which get_time_final   *)
(* overwrites as it reads it.  The next number to visit is the random one. *)
librmc_find_core ==
    LET age == GetTimeFinal(corestamp, clock)
    IN  /\ rpc = "brian"
        /\ rpc' = "find" /\ visits' = visits + 1
        /\ corestamp' = age.last
        /\ status' = IF age.utime > Limit /\ status[code] = PROCESS
                     THEN [status EXCEPT ![code] = ENABLE] ELSE status
        /\ code' \in RandomCodes
        /\ UNCHANGED <<phase, count, first, core, clock, worker, ticked>>

PassEnds ==
    /\ rpc = "find" /\ visits = count
    /\ rpc' = "sleep"
    /\ corestamp' = GetTimeFinal(corestamp, clock).last
    /\ UNCHANGED <<table, clock, worker, visits, code, ticked>>
-----------------------------------------------------------------------------
Worker ==
    \/ librmc_create_take \/ librmc_create_next \/ librmc_create_none
    \/ librmc_select_hit \/ librmc_select_next \/ librmc_select_none
    \/ Send

Reaper ==
    \/ PassBegins \/ librmc_find_none \/ librmc_find_lease
    \/ librmc_find_core \/ PassEnds

Next ==
    \/ librmc_update \/ librmc_update_fails
    \/ Tick \/ Arrive \/ Worker \/ librmc_final \/ Reaper

Spec == Init /\ [][Next]_vars

(* A thread that can run does run: the threads take no lock and wait for   *)
(* nothing.  Blocks of sound (Arrive) and the clock are not the program's. *)
FairSpec == Spec /\ WF_vars(Worker) /\ WF_vars(Reaper)
-----------------------------------------------------------------------------
Codes == RandomCodes \cup {0}

TypeOK ==
    /\ phase \in {"init", "serving", "crashed"}
    /\ count \in 0..N /\ (phase = "serving" => count = N)
    /\ status \in [Entries -> {ENABLE, PROCESS, FINAL}]
    /\ first \in [Entries -> Times]
    /\ core \in [Entries -> Entries \cup {NULL}]
    /\ clock \in Times /\ ticked \in BOOLEAN /\ corestamp \in Stamps
    /\ wpc \in {"idle", "create", "select", "send"}
    /\ scan \in 0..N
    /\ lease \in Entries \cup {NULL} /\ answer \in Entries \cup {NULL}
    /\ rpc \in {"sleep", "find", "brian"}
    /\ visits \in 0..N /\ code \in Codes
-----------------------------------------------------------------------------
Leased(e) == status[e] # ENABLE
Releases(e) == Leased(e) /\ status'[e] = ENABLE

(* The reaper was handed 65535, a number no entry has.                     *)
ReaperLost == code \notin Entries

(* librmc_select never marks an entry finished (its line 217 compares), so *)
(* the finaliser thread has nothing to do: leases end by timeout only.     *)
NoRequestFinishes == \A e \in Entries : status[e] # FINAL

(* An answer may be stored in, and sent through, an entry other than the   *)
(* request's own, but only one with which cdigest made it share its code.  *)
AnswersKeepTheCode ==
    /\ wpc = "send" => Code(answer) = Code(lease)
    /\ \A e \in Entries : core[e] # NULL => Code(core[e]) = Code(e)

(* librmc_select goes past the request's own entry only if the reaper took *)
(* the lease away while the modules worked on the request.                 *)
PastTheLeaseMeansReaped ==
    /\ (wpc = "select" /\ scan > lease) => ~Leased(lease)
    /\ (wpc = "send" /\ answer > lease) => ~Leased(lease)

(* While the clock stands still during a pass, the reaper frees expired    *)
(* leases only.  (When it moves, get_time_final has overwritten the stamp  *)
(* of the pass with a duration and the next visits may free any lease.)    *)
ReleaseHasCause ==
    [][\A e \in Entries : Releases(e) => Expired(e) \/ ticked]_vars

(* Once the reaper holds 65535 it never frees a lease again: librmc_find   *)
(* returns the number it was given and the thread passes it back.          *)
LostReaperReleasesNothing ==
    [][ReaperLost => /\ code' = code
                     /\ \A e \in Entries : ~Releases(e)]_vars

(* The reaper never visits the last entry: rand()%CORE_BITS-1 stops one    *)
(* short of it.  Its first lease is also its last.                         *)
LastEntryNeverFreed == [][N > 1 => ~Releases(N - 1)]_vars

(* If sound keeps arriving after the reaper is lost, every entry ends up   *)
(* leased, and from then on every request is dropped.                      *)
Exhausted == \A e \in Entries : Leased(e)
LostReaperExhaustsTheTable ==
    []<><<Arrive>>_vars => (ReaperLost ~> [](Exhausted /\ lease = NULL))
-----------------------------------------------------------------------------
(* The table is a pool of leases that only a reaper which has not lost its *)
(* way gives back.                                                         *)
Pool == INSTANCE LeasePool
            WITH Slots  <- Entries,
                 leased <- {e \in Entries : Leased(e)},
                 alive  <- ~ReaperLost
PoolSpec == Pool!Spec
=============================================================================
