------------------------------ MODULE ModStack ------------------------------
(***************************************************************************)
(* library/libcrt/mod.c: the stack of loaded modules, used by crserv from  *)
(* start to shutdown: load every file of the module directory, post to     *)
(* modules by name or by certificate, tell them to disable their service,  *)
(* and end and unload them.                                                *)
(*                                                                         *)
(* A file is reduced to the name it gives itself, to the symbols that      *)
(* dlsym finds in it, and to what its FMOD_INIT returns.  A library that   *)
(* cannot be opened has no symbols.  Threads are in Teardown.tla.          *)
(***************************************************************************)
EXTENDS Integers, Sequences, FiniteSets, SequencesExt

CONSTANTS Files,     \* entries of the module directory
          Names,     \* names a module may return from FMOD_NAME
          Rounds     \* rounds mod_update makes when a symbol is missing: 30

ASSUME ModStackAssumption == Names # {} /\ Rounds \in Nat \ {0, 1}

Symbols == {"getver", "init", "exit", "extw", "alloc", "ctrl", "name"}
NoName  == "NULL"   \* xm_name that happened to be NULL
Nobody  == "nobody" \* no module
ASSUME ReservedNames == NoName \notin Names /\ Nobody \notin Files

VARIABLES
    has,      \* symbols of each file
    named,    \* what its FMOD_NAME returns
    returns,  \* what its FMOD_INIT returns: 0 or -1
    phase,    \* of main: "load", "ask", "serve", "disable", "free", "off";
              \* or "crashed"
    left,     \* files readdir has not returned yet
    stack,    \* the list of loaded modules: <<file, xm_name>>
    inits,    \* xm_init(xm_alloc()) calls made for each file
    exits,    \* xm_exit calls made for each file
    asked,    \* file that got the request addressed by certificate
    told,     \* files whose FMOD_CTRL got STACK_SERVICE
    at        \* position of the walk in the list

directory == <<has, named, returns>>
whole == <<directory, phase, left, stack, inits, exits, asked, told, at>>

Complete(f) == has[f] = Symbols
Makes(f)    == {"init", "alloc"} \subseteq has[f]
Controls(f) == {"ctrl", "extw"} \subseteq has[f]
Ends(f)     == {"exit", "extw"} \subseteq has[f]

FileAt(i) == stack[i][1]
NameAt(i) == stack[i][2]

StackInit ==
    /\ has \in [Files -> {Symbols \ S : S \in {{}, Symbols} \cup
                            {{s} : s \in Symbols \ {"getver"}}}]
    /\ named \in [Files -> Names]
    /\ returns \in [Files -> {0, -1}]
    /\ phase = "load" /\ left = Files /\ stack = <<>>
    /\ inits = [f \in Files |-> 0] /\ exits = [f \in Files |-> 0]
    /\ asked = Nobody /\ told = {} /\ at = 1
-----------------------------------------------------------------------------
(* mod_update looks the symbols up again while error_s is not zero; error_s *)
(* counts over all rounds, so one missing symbol means every round.        *)
RoundsFor(f) == IF Complete(f) THEN 1 ELSE Rounds

(* mod_update: each round initialises the module again if it can; the      *)
(* entry is appended whatever was found.  xm_name is whatever malloc left  *)
(* there when the file has no FMOD_NAME: NULL, or a pointer that crashes   *)
(* the first who reads it, which is libcrt_snupdate in this very call.     *)
(* Only a return of -1 stops the loading.                                  *)
mod_update(f) ==
    /\ phase = "load" /\ f \in left
    /\ left' = left \ {f}
    /\ inits' = [inits EXCEPT ![f] = IF Makes(f) THEN RoundsFor(f) ELSE 0]
    /\ stack' = Append(stack,
                       <<f, IF "name" \in has[f] THEN named[f] ELSE NoName>>)
    /\ phase' = IF Makes(f) /\ returns[f] = -1 THEN "ask" ELSE "load"
    /\ UNCHANGED <<directory, exits, asked, told, at>>

mod_update_crashes(f) ==
    /\ phase = "load" /\ f \in left
    /\ "name" \notin has[f]
    /\ phase' = "crashed"
    /\ UNCHANGED <<directory, left, stack, inits, exits, asked, told, at>>

find_next_ends ==
    /\ phase = "load" /\ left = {}
    /\ phase' = "ask"
    /\ UNCHANGED <<directory, left, stack, inits, exits, asked, told, at>>
-----------------------------------------------------------------------------
Positions == DOMAIN stack

Nameless(i) == NameAt(i) = NoName

\* MUTANT of mod_find: the last module with the name.
mod_find_last(n) ==
    LET hits == {i \in Positions : NameAt(i) = n}
    IN  IF hits = {} THEN 0 ELSE CHOOSE i \in hits : \A j \in hits : j <= i

(* mod_find: position of the first module with the name; the walk ends at  *)
(* an entry that has none.  0: not found.                                  *)
mod_find(n) ==
    LET stops == {i \in Positions : NameAt(i) = n \/ Nameless(i)}
        first == CHOOSE i \in stops : \A j \in stops : i <= j
    IN  IF stops = {} \/ NameAt(first) # n THEN 0 ELSE first

(* mod_post: the module whose FMOD_CTRL is called.                         *)
Reaches(n) ==
    LET i == mod_find(n)
    IN  IF n = NoName \/ i = 0 THEN Nobody
        ELSE IF Controls(FileAt(i)) THEN FileAt(i) ELSE Nobody

(* mod_getmod_func: STACK_VERIFY never makes the certificate zero (modules *)
(* that do not know the request leave it, map0, mod0 and stk0 store the    *)
(* address of a local in it), so the first module passes for the one asked *)
(* for, whatever the certificate.                                          *)
mod_getmod_func == IF stack = <<>> THEN NoName ELSE NameAt(1)

(* main posts the module list, then the table and the nodes, to the module *)
(* it asks for by certificate.                                             *)
Ask ==
    /\ phase = "ask"
    /\ phase' = "serve"
    /\ asked' = Reaches(mod_getmod_func)
    /\ UNCHANGED <<directory, left, stack, inits, exits, told, at>>

(* A power-off is asked for.                                               *)
Close ==
    /\ phase = "serve"
    /\ phase' = "disable"
    /\ UNCHANGED <<directory, left, stack, inits, exits, asked, told, at>>
-----------------------------------------------------------------------------
\* MUTANT of mod_disable_service: entries that cannot be told are skipped.
mod_disable_service_on ==
    /\ phase = "disable" /\ at \in Positions
    /\ told' = IF Controls(FileAt(at)) THEN told \cup {FileAt(at)} ELSE told
    /\ at' = at + 1
    /\ UNCHANGED <<directory, phase, left, stack, inits, exits, asked>>

(* mod_disable_service tells one module after the other and gives up at    *)
(* the first that it cannot tell.                                          *)
mod_disable_service ==
    /\ phase = "disable" /\ at \in Positions
    /\ Controls(FileAt(at))
    /\ told' = told \cup {FileAt(at)}
    /\ at' = at + 1
    /\ UNCHANGED <<directory, phase, left, stack, inits, exits, asked>>

mod_disable_service_ends ==
    /\ phase = "disable"
    /\ at \in Positions => ~Controls(FileAt(at))
    /\ phase' = "free" /\ at' = 1
    /\ UNCHANGED <<directory, left, stack, inits, exits, asked, told>>

\* MUTANT of mod_free: it gives up at the first module it cannot end.
mod_free_stops ==
    /\ phase = "free" /\ at \in Positions
    /\ IF Ends(FileAt(at))
       THEN exits' = [exits EXCEPT ![FileAt(at)] = @ + 1] /\ at' = at + 1
       ELSE at' = Len(stack) + 1 /\ UNCHANGED exits
    /\ UNCHANGED <<directory, phase, left, stack, inits, asked, told>>

(* mod_free ends the instance that FMOD_EXTW hands out, which is the last  *)
(* one made, and unloads the library.                                      *)
mod_free ==
    /\ phase = "free" /\ at \in Positions
    /\ exits' = IF Ends(FileAt(at))
                THEN [exits EXCEPT ![FileAt(at)] = @ + 1] ELSE exits
    /\ at' = at + 1
    /\ UNCHANGED <<directory, phase, left, stack, inits, asked, told>>

(* dlclose(NULL), for a library that never opened.                         *)
mod_free_crashes ==
    /\ phase = "free" /\ at \in Positions
    /\ has[FileAt(at)] = {}
    /\ phase' = "crashed"
    /\ UNCHANGED <<directory, left, stack, inits, exits, asked, told, at>>

mod_free_ends ==
    /\ phase = "free" /\ at \notin Positions
    /\ phase' = "off" /\ stack' = <<>>
    /\ UNCHANGED <<directory, left, inits, exits, asked, told, at>>

StackNext ==
    \/ \E f \in Files : mod_update(f) \/ mod_update_crashes(f)
    \/ find_next_ends \/ Ask \/ Close
    \/ mod_disable_service \/ mod_disable_service_ends
    \/ mod_free \/ mod_free_crashes \/ mod_free_ends

StackSpec == StackInit /\ [][StackNext]_whole
-----------------------------------------------------------------------------
(* What mod_free leaves behind: a module with all its symbols has ended    *)
(* every instance it made, whatever stands before it in the list; one that *)
(* lacks a symbol leaves all thirty or all but one, with their threads, or *)
(* is told to end an instance that it never made.                          *)
InstancesEnd ==
    phase = "off" =>
        \A f \in Files \ left : inits[f] - exits[f] \in
            IF Complete(f) THEN {0}
            ELSE IF Ends(f) THEN {-1, Rounds - 1} ELSE {0, Rounds}

(* A loaded module is out of reach of mod_post by its own name only for a  *)
(* cause: it cannot be controlled itself, or a module that readdir         *)
(* happened to return earlier has the same name, or no name at all.        *)
UnreachableHasCause ==
    phase \in {"ask", "serve"} =>
        \A i \in Positions :
            Reaches(NameAt(i)) = FileAt(i) \/ ~Controls(FileAt(i))
            \/ Nameless(i)
            \/ \E j \in 1..(i - 1) : Nameless(j) \/ NameAt(j) = NameAt(i)

(* Unless something crashed, shutdown has told every module that can be    *)
(* told, except those behind one that cannot.                              *)
ToldUpToTheFirstDeaf ==
    phase = "free" =>
        \A i \in Positions :
            FileAt(i) \in told
                <=> \A j \in 1..i : Controls(FileAt(j))
=============================================================================
