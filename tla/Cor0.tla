-------------------------------- MODULE Cor0 --------------------------------
(* The request queue of module cor0 and its mirror file.  The worker posts *)
(* every request to cor0 (STACK_UPDATE), takes it back (STACK_RESULT),     *)
(* lets dbi0 complete it (STACK_RESULT) and answers it, while the closing  *)
(* thread, when it comes, ends the module under the worker's hands.        *)
(*                                                                         *)
(* A request is a number, and its buffer and its length are that number.   *)
(* Its code is its table entry's, one of the ten strings that the entries  *)
(* of the table share, so two requests may well have the same.  Opening a  *)
(* file is a cancellation point of the worker.                             *)
EXTENDS Naturals, Sequences, FiniteSetsExt

CONSTANTS
    R,         \* BOUND: requests the worker receives
    Codes      \* what the codes of the table's entries may be

ASSUME RAssumption == R \in Nat

None == 0
Requests == 1..R

VARIABLES
    mods,      \* which of cor0 and dbi0 the module directory holds
    queued,    \* sptr_stack is set
    slots,     \* its list
    exists,    \* the mirror has a name in the directory
    mirror,    \* its records after the header; the header itself
    req,       \* the latest request
    hdc,       \* the worker's cargv_stack_t
    wpc, i,    \* the worker
    asked,     \* its cancellation was asked
    alive,     \* no signal has ended the process
    xpc,       \* the closing thread in cor0
    uncleared, \* HISTORY: the latest libcrt_clear failed
    caught     \* HISTORY: where the worker was when the queue was freed

disk    == <<exists, mirror, uncleared>>
queue   == <<queued, slots>>
closing == <<xpc, caught>>
vars    == <<mods, disk, queue, req, hdc, wpc, i, asked, alive, closing>>

Slot(s, c, r) == [status |-> s, code |-> c, buffer |-> r]

Init ==
    /\ mods \in SUBSET {"cor0", "dbi0"}
    /\ queued = ("cor0" \in mods) /\ slots = <<>>
    /\ exists \in {FALSE, "cor0" \in mods}   \* creating it may fail
    /\ mirror = [head |-> FALSE, recs |-> <<>>]
    /\ req = 0
    /\ hdc = [code |-> None, buffer |-> None, core |-> None]
    /\ wpc = "idle" /\ i = 1
    /\ asked = FALSE /\ alive = TRUE /\ xpc = "none"
    /\ uncleared = FALSE /\ caught = "none"
-----------------------------------------------------------------------------
(* The queue.  Held(k): slot k keeps a request.                            *)
Held(k) == slots[k].status = "handle"

(* The first slot with this status; 0: there is none.                      *)
First(status) ==
    LET I == {k \in DOMAIN slots : slots[k].status = status}
    IN  IF I = {} THEN 0 ELSE Min(I)

(* There is an empty slot, or one with this code.                          *)
c00_libmod_search(code) ==
    \E k \in DOMAIN slots : ~Held(k) \/ slots[k].code = code

(* The first empty slot takes the request.  None: it is lost, though       *)
(* c00_libmod_search was content with a held slot of the same code.        *)
c00_libmod_xset(c, r) ==
    LET k == First("empty")
    IN  IF k = 0 THEN slots ELSE [slots EXCEPT ![k] = Slot("handle", c, r)]

c00_libmod_append(c, r) == Append(slots, Slot("handle", c, r))

\* MUTANT of c00_libmod_select: the slot stays in hand.
c00_libmod_select_keeps ==
    LET k == First("handle")
    IN  IF k = 0 THEN UNCHANGED <<slots, hdc>>
        ELSE /\ hdc' = [hdc EXCEPT !.code = slots[k].code,
                                   !.buffer = slots[k].buffer]
             /\ UNCHANGED slots

(* The first held slot is emptied into *string; its code stays behind.     *)
c00_libmod_select ==
    LET k == First("handle")
    IN  IF k = 0 THEN UNCHANGED <<slots, hdc>>
        ELSE /\ hdc' = [hdc EXCEPT !.code = slots[k].code,
                                   !.buffer = slots[k].buffer]
             /\ slots' = [slots EXCEPT ![k].status = "empty",
                                       ![k].buffer = None]
-----------------------------------------------------------------------------
(* The mirror.  A file operation may fail (no space, no descriptors).      *)
Empty == [head |-> FALSE, recs |-> <<>>]

\* MUTANT of libcrt_update: it opens the file with O_CREAT, as libcrt_create.
libcrt_update_creates(new) ==
    /\ mirror' = new /\ exists' = TRUE
    /\ UNCHANGED uncleared

\* MUTANT of libcrt_clear: nothing is truncated.
libcrt_clear_not == uncleared' = FALSE /\ UNCHANGED <<exists, mirror>>

libcrt_clear ==
    /\ \/ exists /\ mirror' = Empty /\ uncleared' = FALSE
       \/ UNCHANGED mirror /\ uncleared' = TRUE
    /\ UNCHANGED exists

libcrt_update(new) ==
    /\ \/ exists /\ mirror' = new
       \/ UNCHANGED mirror
    /\ UNCHANGED <<exists, uncleared>>
-----------------------------------------------------------------------------
(* The worker.  Everything but its queue and file operations is one step.  *)
Goes(pc) == wpc' = pc

(* sound_callback_threads_ctx, librmc_create; bcdx finds cor0 or does not. *)
Receive ==
    /\ alive /\ wpc = "idle" /\ ~asked /\ req < R
    /\ req' = req + 1
    /\ \E c \in Codes : hdc' = [code |-> c, buffer |-> req + 1, core |-> None]
    /\ Goes(IF "cor0" \in mods THEN "clear" ELSE "dbi0")
    /\ UNCHANGED <<mods, disk, queue, i, asked, alive, closing>>

(* c00_libmod_update.                                                      *)
Clear ==
    /\ alive /\ wpc = "clear"
    /\ libcrt_clear
    /\ Goes("put")
    /\ UNCHANGED <<mods, queue, req, hdc, i, asked, alive, closing>>

(* Everything that works on the queue tests sptr_stack for itself and then *)
(* reads through it, and the queue may be freed in between.  What freed    *)
(* memory still shows is what a step before the free, or one that finds no *)
(* queue, would see, and is no case of its own.                            *)
TestQueue(pc, there, gone) ==
    /\ alive /\ wpc = pc
    /\ Goes(IF queued THEN there ELSE gone)
    /\ UNCHANGED <<mods, disk, queue, req, hdc, i, asked, alive, closing>>

\* MUTANT of Put: it does not give up when there is no queue.
Put_on == TestQueue("put", "search", "search")

Put       == TestQueue("put", "search", "take")        \* c00_libmod_update
Search    == TestQueue("search", "scan", "append")
Overwrite == TestQueue("xset", "set", "head")
Extend    == TestQueue("append", "add", "head")
Take      == TestQueue("take", "select", "dbi0")       \* STACK_RESULT

Scan ==
    /\ alive /\ wpc = "scan" /\ queued
    /\ Goes(IF c00_libmod_search(hdc.code) THEN "xset" ELSE "append")
    /\ UNCHANGED <<mods, disk, queue, req, hdc, i, asked, alive, closing>>

Store ==
    /\ alive /\ queued /\ Goes("head")
    /\ \/ wpc = "set" /\ slots' = c00_libmod_xset(hdc.code, hdc.buffer)
       \/ wpc = "add" /\ slots' = c00_libmod_append(hdc.code, hdc.buffer)
    /\ UNCHANGED <<mods, queued, disk, req, hdc, i, asked, alive, closing>>

(* Writing through NULL fails.                                             *)
WriteHead ==
    /\ alive /\ wpc = "head"
    /\ IF queued THEN libcrt_update([mirror EXCEPT !.head = TRUE])
                 ELSE UNCHANGED disk
    /\ Goes("records") /\ i' = 1
    /\ UNCHANGED <<mods, queue, req, hdc, asked, alive, closing>>

(* The list and its length are read through sptr_stack without a test.     *)
WriteRecord ==
    /\ alive /\ wpc = "records" /\ queued /\ i <= Len(slots)
    /\ libcrt_update([mirror EXCEPT !.recs = Append(@, slots[i])])
    /\ i' = i + 1
    /\ UNCHANGED <<mods, queue, req, hdc, wpc, asked, alive, closing>>

WroteAll ==
    /\ alive /\ wpc = "records" /\ queued /\ i > Len(slots)
    /\ Goes("take")
    /\ UNCHANGED <<mods, disk, queue, req, hdc, i, asked, alive, closing>>

TakeBack ==
    /\ alive /\ wpc = "select" /\ queued
    /\ c00_libmod_select
    /\ Goes("dbi0")
    /\ UNCHANGED <<mods, queued, disk, req, i, asked, alive, closing>>

ReadThroughNull ==
    /\ alive /\ wpc \in {"scan", "set", "add", "records", "select"} /\ ~queued
    /\ alive' = FALSE
    /\ UNCHANGED <<mods, disk, queue, req, hdc, wpc, i, asked, closing>>

(* dbi0's STACK_RESULT; then librmc_select stores core, and dbo0's does    *)
(* the same once more.                                                     *)
Complete ==
    /\ alive /\ wpc = "dbi0"
    /\ hdc' = IF "dbi0" \in mods THEN [hdc EXCEPT !.core = hdc.code] ELSE hdc
    /\ Goes("answer")
    /\ UNCHANGED <<mods, disk, queue, req, i, asked, alive, closing>>

Answered ==
    /\ alive /\ wpc = "answer"
    /\ Goes("idle")
    /\ UNCHANGED <<mods, disk, queue, req, hdc, i, asked, alive, closing>>

Cancelled ==
    /\ alive /\ asked /\ wpc \in {"idle", "clear", "head", "records"}
    /\ wpc = "records" => queued /\ i <= Len(slots)
    /\ Goes("ended")
    /\ UNCHANGED <<mods, disk, queue, req, hdc, i, asked, alive, closing>>
-----------------------------------------------------------------------------
(* mod_thread_exit, then c00_libmod_exit in two steps.                     *)
Ask ==
    /\ alive /\ xpc = "none"
    /\ asked' = TRUE
    /\ xpc' = IF "cor0" \in mods THEN "remove" ELSE "done"
    /\ UNCHANGED <<mods, disk, queue, req, hdc, wpc, i, alive, caught>>

ExitRemove ==
    /\ alive /\ xpc = "remove"
    /\ exists' = FALSE
    /\ xpc' = "free"
    /\ UNCHANGED <<mods, mirror, uncleared, queue, req, hdc, wpc, i, asked, alive, caught>>

ExitFree ==
    /\ alive /\ xpc = "free"
    /\ queued' = FALSE /\ caught' = wpc
    /\ xpc' = "done"
    /\ UNCHANGED <<mods, disk, slots, req, hdc, wpc, i, asked, alive>>
-----------------------------------------------------------------------------
Next ==
    \/ Receive \/ Clear \/ Put \/ Search \/ Scan \/ Overwrite \/ Extend \/ Store
    \/ WriteHead \/ WriteRecord \/ WroteAll \/ Take \/ TakeBack
    \/ Complete \/ Answered \/ Cancelled \/ ReadThroughNull
    \/ Ask \/ ExitRemove \/ ExitFree

Spec == Init /\ [][Next]_vars
-----------------------------------------------------------------------------
Statuses == {"handle", "empty"}
Places   == {"idle", "clear", "put", "search", "scan", "xset", "set", "append",
             "add", "head", "records", "take", "select", "dbi0", "answer", "ended"}
Slots    == [status : Statuses, code : Codes, buffer : Requests \cup {None}]

TypeOK ==
    /\ mods \subseteq {"cor0", "dbi0"}
    /\ queued \in BOOLEAN /\ exists \in BOOLEAN /\ asked \in BOOLEAN
    /\ alive \in BOOLEAN /\ uncleared \in BOOLEAN
    /\ slots \in Seq(Slots)
    /\ mirror \in [head : BOOLEAN, recs : Seq(Slots)]
    /\ req \in 0..R
    /\ hdc \in [code : Codes \cup {None}, buffer : 0..R, core : Codes \cup {None}]
    /\ wpc \in Places /\ caught \in Places \cup {"none"}
    /\ i \in Nat
    /\ xpc \in {"none", "remove", "free", "done"}

(* The queue never grows beyond its first slot, whatever failed or was     *)
(* dropped meanwhile: each request is taken back before the next comes.    *)
OneSlot == Len(slots) <= 1

(* The worker always has its latest request in hand, and the data of that  *)
(* request: taking one back never yields another one's.                    *)
OwnRequest ==
    wpc \notin {"idle", "ended"} => hdc.buffer = req

(* No request gets lost on its way into the queue, although search takes   *)
(* a held slot of the same code for good enough and xset does not, and     *)
(* the codes of two requests are often the same.                           *)
RequestIsQueued ==
    queued /\ wpc \in {"head", "records", "take", "select"} =>
        \E k \in DOMAIN slots : Held(k) /\ slots[k].buffer = req

(* What the mirror shows is the latest request only, unless it could not   *)
(* be truncated (or the worker ended before it could be): it may show it   *)
(* as held long after it was taken, but it never shows two.                *)
MirrorOfTheLatest ==
    ~uncleared /\ wpc \notin {"clear", "ended"} =>
        /\ Len(mirror.recs) <= 1
        /\ \A k \in DOMAIN mirror.recs : mirror.recs[k].buffer = req

(* Once the module's exit has removed the mirror it never comes back,      *)
(* although the worker may still be writing it.                            *)
MirrorStaysRemoved == [][(xpc \in {"free", "done"}) => ~exists']_vars

(* Between the test with which c00_libmod_update begins and its end, and   *)
(* between the test and the search of c00_libmod_select.                   *)
Inside == {"search", "scan", "xset", "set", "append", "add", "head", "records",
           "select"}

(* The module's exit ends the process only if the free falls into one of   *)
(* these stretches of the worker, and then perhaps many steps later: the   *)
(* tests of search, xset and append give up quietly, and the worker goes   *)
(* on to read the list it could not put its request in.  Freed under a     *)
(* worker that is anywhere else, also between the update and the result,   *)
(* the queue is not missed.                                                *)
CrashInsideOnly == ~alive => caught \in Inside
=============================================================================
