------------------------------- MODULE Modules -------------------------------
(***************************************************************************)
(* The modules crserv is shipped with, and how its messages reach them:    *)
(* the description asked of each as it is loaded, the three messages to a  *)
(* module found by its certificate, the posts of a request, and the        *)
(* broadcast at the end.  ModStack has the list and its failures; here the *)
(* list works, and what matters is who gets which pointer.                 *)
(*                                                                         *)
(* A module is a record: the name it gives itself, its certificate, the    *)
(* folder it searches as it is loaded, the field in which it keeps the     *)
(* pointer of STACK_SEARCH, whether it stores into the answer of           *)
(* STACK_VERIFY, whether it looks at STACK_SERVICE, and what its thread    *)
(* reads.  A handler that does nothing with a message has no field for it. *)
(***************************************************************************)
EXTENDS Integers, Sequences, FiniteSets, SequencesExt

CONSTANTS Listings,  \* what reading the module directory may yield
          Requests   \* BOUND: requests the worker serves

None == "none"
-----------------------------------------------------------------------------
(* What the thread of a service module reads in a pass, once a second.     *)
thread_bcdx_procv == "nothing"
thread_stk_procv  == "nothing"
thread_map_procv  == "proc"     \* its process' entry under /proc
thread_thi_procv  == "threads"  \* the registry, see Teardown
thread_mod_procv  == "object"   \* what STACK_SEARCH left, as a module list

(* xx_libmod_init of the module: a data module searches its folder, a      *)
(* service module starts and registers its thread, log0 creates its file.  *)
Searches(folder) == [folder |-> folder, thread |-> None]
Starts(procv)    == [folder |-> None,   thread |-> procv]

d00_libmod_init(folder) == Searches(folder)
d10_libmod_init(folder) == Searches(folder)
d30_libmod_init(folder) == Searches(folder)
d20_libmod_init(folder) == Searches(folder)
bcd_libmod_init == Starts(thread_bcdx_procv)
t00_libmod_init == Starts(thread_thi_procv)
m10_libmod_init == Starts(thread_map_procv)
m00_libmod_init == Starts(thread_mod_procv)
s10_libmod_init == Starts(thread_stk_procv)
l00_libmod_init == [folder |-> None, thread |-> None]

ModuleRecord(name, cert, init, keeps, verifies, services) ==
    [name |-> name, cert |-> cert, init |-> init, keeps |-> keeps,
     verifies |-> verifies, services |-> services]

NoInit == [folder |-> None, thread |-> None]
Stub(name, cert) == ModuleRecord(name, cert, NoInit, None, FALSE, FALSE)
Data(name, cert, init) == ModuleRecord(name, cert, init, None, FALSE, FALSE)

bio0 == Stub("bio0", 4097)
ctl0 == Stub("ctl0", 4099)
dev0 == Stub("dev0", 4102)
gat0 == Stub("gat0", 4103)
hol0 == Stub("hol0", 4104)
ice0 == Stub("ice0", 4105)
pop0 == Stub("pop0", 4114)
rwx0 == Stub("rwx0", 4115)
sec0 == Stub("sec0", 4116)
vid0 == Stub("vid0", 4118)
sys0 == Stub("vid0", 4121)
cor0 == ModuleRecord("cor0", 4098, NoInit, None, FALSE, FALSE)
log0 == ModuleRecord("log0", 4112, l00_libmod_init, None, FALSE, FALSE)
dbi0 == Data("dbi0", 4100, d00_libmod_init("input"))
dbo0 == Data("dbo0", 4101, d10_libmod_init("output"))
dbm0 == Data("dbv0", 4128, d30_libmod_init("images"))
dbv0 == Data("dbv0", 4129, d20_libmod_init("videos"))
bcdx == ModuleRecord("bcdx", 4096, bcd_libmod_init, "process", FALSE, TRUE)
thi0 == ModuleRecord("thi0", 4119, t00_libmod_init, None, FALSE, TRUE)
map0 == ModuleRecord("map0", 4120, m10_libmod_init, "object", TRUE, TRUE)
mod0 == ModuleRecord("mod0", 4113, m00_libmod_init, "object", TRUE, TRUE)
stk0 == ModuleRecord("map0", 4117, s10_libmod_init, "object", TRUE, TRUE)

Catalogue ==
    [bio0 |-> bio0, ctl0 |-> ctl0, dev0 |-> dev0, gat0 |-> gat0,
     hol0 |-> hol0, ice0 |-> ice0, pop0 |-> pop0, rwx0 |-> rwx0,
     sec0 |-> sec0, vid0 |-> vid0, sys0 |-> sys0, cor0 |-> cor0,
     log0 |-> log0, dbi0 |-> dbi0, dbo0 |-> dbo0, dbm0 |-> dbm0,
     dbv0 |-> dbv0, bcdx |-> bcdx, thi0 |-> thi0, map0 |-> map0,
     mod0 |-> mod0, stk0 |-> stk0]

Files   == DOMAIN Catalogue
Folders == {"module", "input", "output", "images", "videos"}

ASSUME ModulesAssumption ==
    /\ Requests \in Nat
    /\ \A l \in Listings : l \in Seq(Files) /\ IsInjective(l)

VARIABLES
    folders,   \* the directories that exist
    listing,   \* what readdir has not returned yet
    pc,        \* main: "open", "load", "list", "table", "nodes", "serve",
               \* "off"
    stack,     \* the module list
    described, \* whose description the loading of each module showed
    fields,    \* mod_struct_t of each module
    got,       \* HISTORY: messages each module was found for
    todo,      \* posts the worker has not made yet; a request's, in order
    core,      \* core of the request
    served,    \* requests the worker has begun
    lives,     \* no signal has ended the process
    misread    \* HISTORY: something else was read as a module list

worker == <<todo, core, served>>
scene == <<folders, listing, pc, stack, described, fields, got, worker, lives,
          misread>>

Fresh == [object |-> None, process |-> None, system |-> None, service |-> FALSE]

ModulesInit ==
    /\ folders \in {Folders \ F : F \in SUBSET {"module", "input", "videos"}}
    /\ listing \in Listings
    /\ pc = "open" /\ stack = <<>>
    /\ described = [m \in Files |-> None]
    /\ fields = [m \in Files |-> Fresh] /\ got = [m \in Files |-> {}]
    /\ todo = <<>> /\ core = None /\ served = 0
    /\ lives = TRUE /\ misread = FALSE
-----------------------------------------------------------------------------
\* MUTANT of mod_find: the module loaded last is found.
mod_find_last(list, name) ==
    SelectLastInSeq(list, LAMBDA m : Catalogue[m].name = name)

(* mod_find: the first module of the list that gives itself this name.     *)
mod_find(list, name) ==
    SelectInSeq(list, LAMBDA m : Catalogue[m].name = name)

Found(list, name) ==
    LET i == mod_find(list, name) IN IF i = 0 THEN {} ELSE {list[i]}

(* FMOD_CTRL: the fields of module m after the message.                    *)
Kept(m, command, pointer) ==
    LET mod == Catalogue[m]
    IN  CASE command = "search" /\ mod.keeps # None ->
                [fields[m] EXCEPT ![mod.keeps] = pointer]
          [] command = "insert" /\ m = "bcdx" ->
                [fields[m] EXCEPT !.system = pointer]
          [] command = "service" /\ mod.services ->
                [fields[m] EXCEPT !.service = TRUE]
          [] OTHER -> fields[m]

(* mod_post to whoever is in found.                                        *)
Post(found, command, pointer) ==
    /\ fields' = [m \in Files |-> IF m \in found THEN Kept(m, command, pointer)
                                                 ELSE fields[m]]
    /\ got' = [m \in Files |-> IF m \in found THEN got[m] \cup {command}
                                              ELSE got[m]]

(* STACK_VERIFY: what the caller's certificate has become.  Three modules  *)
(* store the address of a local; the others do not know the message.       *)
Address == 1

Verified(m, cert) == IF Catalogue[m].verifies THEN Address ELSE cert

\* MUTANT of mod_getmod_func: the last one.
mod_getmod_func_last(cert) ==
    LET i == SelectLastInSeq(stack, LAMBDA m :
                 \E n \in Found(stack, Catalogue[m].name) : Verified(n, cert) # 0)
    IN  IF i = 0 THEN None ELSE Catalogue[stack[i]].name

(* mod_getmod_func: the name of the first module whose answer is not zero. *)
mod_getmod_func(cert) ==
    LET i == SelectInSeq(stack, LAMBDA m :
                 \E n \in Found(stack, Catalogue[m].name) : Verified(n, cert) # 0)
    IN  IF i = 0 THEN None ELSE Catalogue[stack[i]].name
-----------------------------------------------------------------------------
(* find_init returns nothing in particular when the directory cannot be    *)
(* opened; in the build it is the count fprintf returned, and readdir dies *)
(* of it.                                                                  *)
find_init(folder, then) ==
    IF folder \in folders \cup {None}
    THEN then /\ UNCHANGED lives
    ELSE lives' = FALSE /\ UNCHANGED <<listing, pc, stack, described, got, fields>>

OpenDirectory ==
    /\ lives /\ pc = "open"
    /\ find_init("module",
           pc' = "load" /\ UNCHANGED <<listing, stack, described, got, fields>>)
    /\ UNCHANGED <<folders, worker, misread>>

(* mod_update, which initialises the module, and the post for its          *)
(* description, which goes to the name of the last module of the list.     *)
Load ==
    LET m == Head(listing)
        now == Append(stack, m)
        shown == Found(now, Catalogue[m].name)
    IN  /\ lives /\ pc = "load" /\ listing # <<>>
        /\ find_init(Catalogue[m].init.folder,
               /\ listing' = Tail(listing)
               /\ stack' = now
               /\ described' = [described EXCEPT ![m] = CHOOSE n \in shown : TRUE]
               /\ Post(shown, "desc", None)
               /\ UNCHANGED pc)
        /\ UNCHANGED <<folders, worker, misread>>

LoadedAll ==
    /\ lives /\ pc = "load" /\ listing = <<>>
    /\ pc' = "list"
    /\ UNCHANGED <<folders, listing, stack, described, fields, got, worker, lives, misread>>

(* The three messages of main: the module list to mod0's certificate, the  *)
(* request table and the nodes to bcdx's.                                  *)
Ask(from, to, cert, command, pointer) ==
    /\ lives /\ pc = from
    /\ Post(Found(stack, mod_getmod_func(cert)), command, pointer)
    /\ pc' = to
    /\ UNCHANGED <<folders, listing, stack, described, worker, lives, misread>>

AskList  == Ask("list", "table", mod0.cert, "search", "list")
AskTable == Ask("table", "nodes", bcdx.cert, "search", "table")
AskNodes == Ask("nodes", "serve", bcdx.cert, "insert", "nodes")

(* mod_disable_service calls every module itself, not by its name.         *)
Disable ==
    /\ lives /\ pc = "serve"
    /\ Post(ToSet(stack), "service", None)
    /\ pc' = "off"
    /\ UNCHANGED <<folders, listing, stack, described, worker, lives, misread>>
-----------------------------------------------------------------------------
(* A request: the worker posts it to bcdx twice, which posts it on.        *)
To(name, command) == [name |-> name, command |-> command]

UpdatePosts ==
    <<To("cor0", "update"), To("cor0", "result"),
      To("dbi0", "search"), To("dbi0", "result")>>
SendPosts ==
    <<To("dbo0", "search"), To("dbo0", "result"), To("dbo0", "send")>>

Handles(found) == found = {"bcdx"}

BeginRequest ==
    /\ lives /\ pc \in {"serve", "off"} /\ todo = <<>> /\ served < Requests
    /\ served' = served + 1 /\ core' = None
    /\ todo' = <<To("bcdx", "update"), To("bcdx", "send")>>
    /\ UNCHANGED <<folders, listing, pc, stack, described, fields, got, lives, misread>>

\* MUTANT of PostOn: bcdx sends the request on without updating it.
PostOn_send(found, command) == IF Handles(found) THEN SendPosts ELSE <<>>

PostOn(found, command) ==
    IF ~Handles(found) THEN <<>>
    ELSE CASE command = "update" -> UpdatePosts
           [] command = "send" -> SendPosts
           [] OTHER -> <<>>

(* dbi0 and dbo0, and their like, complete the request they get.           *)
Completes(found, command) ==
    command = "result" /\ found \cap {"dbi0", "dbo0", "dbm0", "dbv0"} # {}

PostNext ==
    LET post  == Head(todo)
        found == Found(stack, post.name)
    IN  /\ lives /\ todo # <<>>
        /\ Post(found, post.command, "request")
        /\ todo' = PostOn(found, post.command) \o Tail(todo)
        /\ core' = IF Completes(found, post.command) THEN "code" ELSE core
        /\ UNCHANGED <<folders, listing, pc, stack, described, served, lives, misread>>

(* librmc_select finds no entry any more: the request is not sent.         *)
Unselected ==
    /\ lives /\ todo = <<To("bcdx", "send")>>
    /\ todo' = <<>>
    /\ UNCHANGED <<folders, listing, pc, stack, described, fields, got, core,
                   served, lives, misread>>
-----------------------------------------------------------------------------
(* thread_mod_procv walks object as if it were the module list.  A request *)
(* table has other fields there: the walk may end, or end the process.     *)
WalksObject ==
    LET o == fields["mod0"].object
    IN  /\ lives /\ o # None /\ ~fields["mod0"].service
        /\ misread' = (misread \/ o # "list")
        /\ lives' \in IF o = "list" THEN {TRUE} ELSE BOOLEAN
        /\ UNCHANGED <<folders, listing, pc, stack, described, fields, got, worker>>

ModulesNext ==
    \/ OpenDirectory \/ Load \/ LoadedAll
    \/ AskList \/ AskTable \/ AskNodes \/ Disable
    \/ BeginRequest \/ PostNext \/ Unselected
    \/ WalksObject

ModulesSpec == ModulesInit /\ [][ModulesNext]_scene
-----------------------------------------------------------------------------
Position(m) == SelectInSeq(stack, LAMBDA n : n = m)
Namesake(m) == \E n \in ToSet(stack) : /\ Position(n) < Position(m)
                                       /\ Catalogue[n].name = Catalogue[m].name

(* stk0, dbm0 and sys0 give themselves another module's name: whichever of *)
(* two namesakes is loaded second is never found by a post, and is shown   *)
(* under the description of the other; only the broadcast reaches it.      *)
NamesakesHide ==
    \A m \in ToSet(stack) :
        Namesake(m) => got[m] \subseteq {"service"} /\ described[m] # m

First(m) == stack # <<>> /\ stack[1] = m
Asked    == pc \in {"serve", "off"}

(* Whoever comes first in the directory is taken for mod0 and for bcdx: no *)
(* module keeps the list that was meant for mod0, and mod0 takes the       *)
(* request table for its module list if and only if it comes first.        *)
ListReachesNobody ==
    Asked =>
        /\ \A m \in Files : "list" \notin {fields[m].object, fields[m].process}
        /\ (fields["mod0"].object = "table") = First("mod0")
MisreadByFirstOnly == misread => First("mod0")

(* bcdx, for which the table and the nodes are meant, has them if and only *)
(* if it comes first.                                                      *)
TableReachesBcdxIfFirst ==
    Asked => (fields["bcdx"].process = "table" /\ fields["bcdx"].system = "nodes")
                 = First("bcdx")

(* What main hands out by certificate depends on the order of the          *)
(* directory alone: the module list never arrives, and the request table   *)
(* and the nodes arrive where they were meant to only if bcdx comes first. *)
PointersGoToTheFirst ==
    /\ ListReachesNobody
    /\ MisreadByFirstOnly
    /\ TableReachesBcdxIfFirst

(* The posts by name do not depend on the order of the directory, only on  *)
(* what is in it: when a request is sent it has been completed if and only *)
(* if bcdx and dbi0 are there.                                             *)
RequestsIgnoreOrder ==
    todo # <<>> /\ Head(todo) = To("bcdx", "send") =>
        (core = "code") = ({"bcdx", "dbi0"} \subseteq ToSet(stack))

=============================================================================
