------------------------------- MODULE Drivers -------------------------------
(* Loading and unloading of the three drivers ctl10, ice10 and qtl10.      *)
(* Their sources differ in names only, and all three create a class of the *)
(* same name, which the kernel has once.  The kernel reports a failure     *)
(* with an error pointer, or a negative number, where the drivers compare  *)
(* with NULL and -1.                                                       *)
EXTENDS Naturals, FiniteSets

CONSTANT Modules   \* the drivers

None == "none"

ASSUME DriversAssumption == None \notin Modules

VARIABLES
    kpc,      \* each driver: "out", where its init is, or "in"
    regions,  \* drivers that hold device numbers
    class,    \* the driver whose class is registered, or None
    cl,       \* what each driver has for it: "none", "class", "error"
    nodes,    \* drivers that have a file in /dev
    cdevs,    \* drivers whose character device the kernel knows
    buffers,  \* drivers whose buffer is allocated
    oops,     \* the kernel has followed a bad pointer
    failed    \* HISTORY: drivers whose init has failed behind cdev_add

resources == <<regions, class, cl, nodes, cdevs, buffers>>
vars == <<kpc, resources, oops, failed>>

Init ==
    /\ kpc = [d \in Modules |-> "out"] /\ cl = [d \in Modules |-> "none"]
    /\ regions = {} /\ class = None /\ nodes = {} /\ cdevs = {}
    /\ buffers = {} /\ oops = FALSE /\ failed = {}

At(d, step) == ~oops /\ kpc[d] = step
Goes(d, step) == kpc' = [kpc EXCEPT ![d] = step]
-----------------------------------------------------------------------------
alloc_chrdev_region(d) ==
    /\ At(d, "out")
    /\ regions' = regions \cup {d} /\ Goes(d, "class")
    /\ UNCHANGED <<class, cl, nodes, cdevs, buffers, oops, failed>>

Taken == class # None   \* the name "chardev" is in use

(* The result of class_create is never NULL.                               *)
class_create(d) ==
    /\ At(d, "class")
    /\ \/ ~Taken /\ class' = d /\ cl' = [cl EXCEPT ![d] = "class"]
       \/ cl' = [cl EXCEPT ![d] = "error"] /\ UNCHANGED class
    /\ Goes(d, "device")
    /\ UNCHANGED <<regions, nodes, cdevs, buffers, oops, failed>>

(* Nor is that of device_create, which gives no file without a class.      *)
device_create(d) ==
    /\ At(d, "device")
    /\ \/ cl[d] = "class" /\ nodes' = nodes \cup {d}
       \/ UNCHANGED nodes
    /\ Goes(d, "cdev")
    /\ UNCHANGED <<regions, class, cl, cdevs, buffers, oops, failed>>

(* cdev_add does not fail with -1.                                         *)
cdev_add(d) ==
    /\ At(d, "cdev")
    /\ cdevs' = cdevs \cup {d} \/ UNCHANGED cdevs
    /\ Goes(d, "memory")
    /\ UNCHANGED <<regions, class, cl, nodes, buffers, oops, failed>>

kmalloc(d) ==
    /\ At(d, "memory")
    /\ \/ buffers' = buffers \cup {d} /\ Goes(d, "thread")
       \/ Goes(d, "r_device") /\ UNCHANGED buffers
    /\ UNCHANGED <<regions, class, cl, nodes, cdevs, oops, failed>>

(* kthread_create fails with an error pointer, which wake_up_process then  *)
(* follows.                                                                *)
kthread_create(d) ==
    /\ At(d, "thread")
    /\ \/ Goes(d, "in") /\ UNCHANGED oops
       \/ oops' = TRUE /\ UNCHANGED kpc
    /\ UNCHANGED <<resources, failed>>

\* MUTANT of Released: the file in /dev is left.
Released_node(d) ==
    /\ nodes' = nodes
    /\ class' = IF class = d THEN None ELSE class
    /\ regions' = regions \ {d} /\ buffers' = buffers \ {d}

Released(d) ==
    /\ nodes' = nodes \ {d}
    /\ class' = IF class = d THEN None ELSE class
    /\ regions' = regions \ {d} /\ buffers' = buffers \ {d}

(* The failure path destroys the device, through an error pointer if that  *)
(* is what it has for a class, and leaves the character device registered. *)
r_device(d) ==
    /\ At(d, "r_device")
    /\ failed' = failed \cup {d}
    /\ cl' = [cl EXCEPT ![d] = "none"]
    /\ Released(d)
    /\ oops' = (cl[d] = "error")
    /\ Goes(d, "out")
    /\ UNCHANGED cdevs

(* Unloading unregisters the class, which frees it, and destroys it once   *)
(* more; what that finds in freed memory decides whether the kernel lives. *)
ctl_exit(d) ==
    /\ At(d, "in")
    /\ cdevs' = cdevs \ {d} /\ cl' = [cl EXCEPT ![d] = "none"]
    /\ Released(d)
    /\ IF cl[d] = "error" THEN oops' = TRUE ELSE oops' \in BOOLEAN
    /\ Goes(d, "out")
    /\ UNCHANGED failed

Next == \E d \in Modules :
            \/ alloc_chrdev_region(d) \/ class_create(d) \/ device_create(d)
            \/ cdev_add(d) \/ kmalloc(d) \/ kthread_create(d)
            \/ r_device(d) \/ ctl_exit(d)

Spec == Init /\ [][Next]_vars
-----------------------------------------------------------------------------
TypeOK ==
    /\ kpc \in [Modules -> {"out", "class", "device", "cdev", "memory",
                            "thread", "r_device", "in"}]
    /\ cl \in [Modules -> {"none", "class", "error"}]
    /\ \A d \in Modules : kpc[d] = "in" => d \in buffers
    /\ class \in Modules \cup {None}
    /\ \A s \in {regions, nodes, cdevs, buffers, failed} : s \subseteq Modules
    /\ oops \in BOOLEAN

(* Of drivers that are loaded together one has a file in /dev: the first.  *)
(* The other loads report success, but nobody can open those devices.      *)
OneNode == Cardinality(nodes) <= 1

(* A file in /dev belongs to a driver that is loaded, or being loaded, and *)
(* that still holds its numbers and its class.                             *)
NodeHasItsDriver ==
    \A d \in nodes : d \in regions /\ class = d /\ kpc[d] # "out"

(* When every driver is out nothing of them is left, except the character  *)
(* devices of loads that failed late.                                      *)
LeavesNothingElse ==
    (~oops /\ \A d \in Modules : kpc[d] = "out") =>
        /\ regions = {} /\ nodes = {} /\ buffers = {} /\ class = None
        /\ cdevs \subseteq failed
=============================================================================
