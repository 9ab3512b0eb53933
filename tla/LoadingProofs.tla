---------------------------- MODULE LoadingProofs ----------------------------
(* Theorems about what is loaded and unloaded: the drivers in the kernel,  *)
(* whose class has one name, for any number of drivers; and the server's   *)
(* stack of modules, for any directory, any names and any return values.   *)
EXTENDS Drivers, ModStack, FiniteSetTheorems, SequenceTheorems, TLAPS

(* What a driver holds follows from how far its init has come; a file in    *)
(* /dev, in particular, from a class that the driver itself has registered. *)
Holds(d) ==
    /\ d \in regions <=> kpc[d] # "out"
    /\ d \in buffers => kpc[d] \in {"thread", "in"}
    /\ kpc[d] \in {"thread", "in"} => d \in buffers
    /\ kpc[d] \in {"out", "class"} => cl[d] = "none"
    /\ cl[d] = "class" => class = d
    /\ class = d => cl[d] = "class"
    /\ d \in nodes => cl[d] = "class"
    /\ d \in cdevs => d \in failed \/ kpc[d] \notin {"out", "class", "device", "cdev"}

Types ==
    /\ kpc \in [Modules -> {"out", "class", "device", "cdev", "memory",
                            "thread", "r_device", "in"}]
    /\ cl \in [Modules -> {"none", "class", "error"}]
    /\ class \in Modules \cup {None}
    /\ \A s \in {regions, nodes, cdevs, buffers, failed} : s \subseteq Modules
    /\ oops \in BOOLEAN

IInv == Types /\ \A d \in Modules : Holds(d)

LEMMA IInvInit == Init => IInv
  BY DriversAssumption DEF Init, IInv, Types, Holds

LEMMA IInvStep == IInv /\ [Next]_vars => IInv'
  <1> SUFFICES ASSUME IInv, [Next]_vars PROVE IInv'
    OBVIOUS
  <1> USE DriversAssumption DEF IInv, At, Goes
  <1>1. CASE UNCHANGED vars
    BY <1>1 DEF vars, resources, Types, Holds
  <1>2. ASSUME NEW d \in Modules, alloc_chrdev_region(d) PROVE IInv'
    BY <1>2 DEF alloc_chrdev_region, Types, Holds
  <1>3. ASSUME NEW d \in Modules, class_create(d) PROVE IInv'
    BY <1>3 DEF class_create, Taken, Types, Holds
  <1>4. ASSUME NEW d \in Modules, device_create(d) PROVE IInv'
    BY <1>4 DEF device_create, Types, Holds
  <1>5. ASSUME NEW d \in Modules, cdev_add(d) PROVE IInv'
    BY <1>5 DEF cdev_add, Types, Holds
  <1>6. ASSUME NEW d \in Modules, kmalloc(d) PROVE IInv'
    BY <1>6 DEF kmalloc, Types, Holds
  <1>7. ASSUME NEW d \in Modules, kthread_create(d) PROVE IInv'
    BY <1>7 DEF kthread_create, resources, Types, Holds
  <1>8. ASSUME NEW d \in Modules, r_device(d) PROVE IInv'
    BY <1>8 DEF r_device, Released, Types, Holds
  <1>9. ASSUME NEW d \in Modules, ctl_exit(d) PROVE IInv'
    BY <1>9 DEF ctl_exit, Released, Types, Holds
  <1>10. QED
    BY <1>1, <1>2, <1>3, <1>4, <1>5, <1>6, <1>7, <1>8, <1>9 DEF Next

LEMMA IInvAlways == Spec => []IInv
  BY IInvInit, IInvStep, PTL DEF Spec

(* The type invariant: a driver that is in has its buffer.                  *)
THEOREM DriversTyped == Spec => []TypeOK
  <1>1. IInv => TypeOK
    BY DEF IInv, Types, Holds, TypeOK
  <1>2. QED
    BY IInvAlways, <1>1, PTL

(* A file in /dev has a driver behind it that holds its numbers and class.  *)
THEOREM NodesHaveDrivers == Spec => []NodeHasItsDriver
  <1>1. IInv => NodeHasItsDriver
    BY DEF IInv, Types, Holds, NodeHasItsDriver
  <1>2. QED
    BY IInvAlways, <1>1, PTL

(* However many drivers are loaded, in whatever order and with whatever     *)
(* failures, at most one of them has a file in /dev.                        *)
THEOREM OnlyOneNode == Spec => []OneNode
  <1>1. IInv => nodes \subseteq {class}
    BY DEF IInv, Types, Holds
  <1>2. ASSUME nodes \subseteq {class} PROVE OneNode
    <2>1. IsFiniteSet({class}) /\ Cardinality({class}) = 1
      BY FS_Singleton
    <2>2. Cardinality(nodes) <= Cardinality({class}) /\ IsFiniteSet(nodes)
      BY <1>2, <2>1, FS_Subset
    <2>3. Cardinality(nodes) \in Nat
      BY <2>2, FS_CardinalityType
    <2>4. QED
      BY <2>1, <2>2, <2>3 DEF OneNode
  <1>3. QED
    BY IInvAlways, <1>1, <1>2, PTL

(* When every driver is out nothing is left but the character devices of    *)
(* the loads that failed behind cdev_add.                                   *)
THEOREM NothingElseIsLeft == Spec => []LeavesNothingElse
  <1>1. IInv => LeavesNothingElse
    BY DEF IInv, Types, Holds, LeavesNothingElse
  <1>2. QED
    BY IInvAlways, <1>1, PTL
-----------------------------------------------------------------------------
(* The stack holds every file that readdir has returned, once.             *)
Entries == Files \X (Names \cup {NoName})

StackTypes ==
    /\ has \in [Files -> SUBSET Symbols] /\ named \in [Files -> Names]
    /\ phase \in {"load", "ask", "serve", "disable", "free", "off", "crashed"}
    /\ left \in SUBSET Files /\ told \in SUBSET Files /\ at \in Nat \ {0}
    /\ stack \in Seq(Entries)
    /\ inits \in [Files -> Int] /\ exits \in [Files -> Int]

Once ==
    /\ \A k \in 1..Len(stack) : FileAt(k) \notin left
    /\ \A k, l \in 1..Len(stack) : FileAt(k) = FileAt(l) => k = l
    /\ phase # "off" =>
          \A f \in Files \ left : \E k \in 1..Len(stack) : FileAt(k) = f

(* An instance is made in every round, while the file is loaded.           *)
Made == \A f \in Files :
            inits[f] = IF f \in left \/ ~Makes(f) THEN 0 ELSE RoundsFor(f)

(* The walk of mod_disable_service, and how far it came.                   *)
Informed ==
    /\ phase \in {"load", "ask", "serve"} => told = {} /\ at = 1
    /\ phase = "disable" =>
          /\ at <= Len(stack) + 1
          /\ \A k \in 1..Len(stack) : FileAt(k) \in told <=> k < at
          /\ \A k \in 1..Len(stack) : k < at => Controls(FileAt(k))

(* The walk of mod_free: one instance is ended of each module behind it.   *)
Ended ==
    /\ phase \in {"load", "ask", "serve", "disable"} =>
          \A f \in Files : exits[f] = 0
    /\ phase = "free" =>
          /\ at <= Len(stack) + 1
          /\ \A k \in 1..Len(stack) :
                exits[FileAt(k)] = IF k < at /\ Ends(FileAt(k)) THEN 1 ELSE 0
    /\ phase = "off" =>
          \A f \in Files \ left : exits[f] = IF Ends(f) THEN 1 ELSE 0

StackInv == /\ StackTypes /\ Once /\ Made /\ Informed /\ Ended
            /\ ToldUpToTheFirstDeaf

LEMMA Walked ==
    ASSUME StackTypes
    PROVE  /\ Positions = 1..Len(stack) /\ Len(stack) \in Nat
           /\ \A k \in 1..Len(stack) : FileAt(k) \in Files
BY DEF StackTypes, Positions, FileAt, Entries

LEMMA StackInvFirst ==
    ASSUME StackInit
    PROVE  StackInv
<1> USE DEF StackInit
<1>1. has \in [Files -> SUBSET Symbols]
  OBVIOUS
<1>2. StackTypes
  BY <1>1 DEF StackTypes
<1>3. Once /\ Made /\ Informed /\ Ended /\ ToldUpToTheFirstDeaf
  BY DEF Once, Made, Informed, Ended, ToldUpToTheFirstDeaf
<1> QED BY <1>2, <1>3 DEF StackInv

(* A file is loaded.                                                       *)
LEMMA UpdateKeeps ==
    ASSUME StackInv, NEW f \in Files, mod_update(f)
    PROVE  StackInv'
<1>1. /\ phase = "load" /\ f \in left /\ left' = left \ {f}
      /\ inits' = [inits EXCEPT ![f] = IF Makes(f) THEN RoundsFor(f) ELSE 0]
      /\ phase' \in {"ask", "load"}
      /\ UNCHANGED <<has, named, exits, told, at>>
  BY DEF mod_update, directory
<1>2. PICK n : /\ n \in Names \cup {NoName} /\ stack' = Append(stack, <<f, n>>)
  <2>1. (IF "name" \in has[f] THEN named[f] ELSE NoName) \in Names \cup {NoName}
    BY DEF StackInv, StackTypes
  <2> QED BY <2>1 DEF mod_update
<1>3. /\ <<f, n>> \in Entries /\ stack \in Seq(Entries) /\ stack' \in Seq(Entries)
      /\ Len(stack) \in Nat /\ Len(stack') = Len(stack) + 1
      /\ stack'[Len(stack) + 1] = <<f, n>>
      /\ \A k \in 1..Len(stack) : stack'[k] = stack[k]
  <2>1. <<f, n>> \in Entries /\ stack \in Seq(Entries)
    BY <1>2 DEF StackInv, StackTypes, Entries
  <2> QED BY <1>2, <2>1, AppendProperties
<1>4. /\ RoundsFor(f) \in Int
      /\ \A k \in 1..Len(stack) : FileAt(k)' = FileAt(k)
      /\ \A k \in 1..Len(stack') :
            k \in 1..Len(stack) \/ (k = Len(stack) + 1 /\ FileAt(k)' = f)
  BY <1>3, ModStackAssumption DEF RoundsFor, FileAt
<1>5. StackTypes'
  BY <1>1, <1>3, <1>4 DEF StackInv, StackTypes
<1>6. Once'
  <2>1. /\ \A k \in 1..Len(stack) : FileAt(k) \notin left
        /\ \A k, l \in 1..Len(stack) : FileAt(k) = FileAt(l) => k = l
        /\ \A g \in Files \ left : \E k \in 1..Len(stack) : FileAt(k) = g
    BY <1>1 DEF StackInv, Once
  <2>2. \A k \in 1..Len(stack') : FileAt(k)' \notin left'
    BY <1>1, <1>4, <2>1
  <2>3. \A k, l \in 1..Len(stack') : FileAt(k)' = FileAt(l)' => k = l
    BY <1>1, <1>4, <2>1
  <2>4. \A g \in Files \ left' : \E k \in 1..Len(stack') : FileAt(k)' = g
    <3> SUFFICES ASSUME NEW g \in Files \ left'
                 PROVE  \E k \in 1..Len(stack') : FileAt(k)' = g
      OBVIOUS
    <3>1. CASE g = f
      <4>1. PICK k \in 1..Len(stack') : k = Len(stack) + 1
        BY <1>3
      <4> QED BY <1>4, <3>1, <4>1
    <3>2. CASE g # f
      <4>1. PICK k \in 1..Len(stack) : FileAt(k) = g
        BY <1>1, <2>1, <3>2
      <4>2. k \in 1..Len(stack')
        BY <1>3
      <4> QED BY <1>4, <4>1, <4>2
    <3> QED BY <3>1, <3>2
  <2> QED BY <2>2, <2>3, <2>4 DEF Once
<1>7. Made'
  BY <1>1 DEF StackInv, StackTypes, Made, Makes, RoundsFor, Complete
<1>8. Informed' /\ Ended' /\ ToldUpToTheFirstDeaf'
  BY <1>1 DEF StackInv, Informed, Ended, ToldUpToTheFirstDeaf
<1> QED BY <1>5, <1>6, <1>7, <1>8 DEF StackInv

(* Steps of main that leave the stack alone.                               *)
LEMMA MainKeeps ==
    ASSUME StackInv,
           \/ \E f \in Files : mod_update_crashes(f)
           \/ find_next_ends \/ Ask \/ Close \/ mod_free_crashes
           \/ UNCHANGED whole
    PROVE  StackInv'
<1>1. /\ UNCHANGED <<has, named, left, stack, inits, exits, told, at>>
      /\ \/ phase = "load" /\ phase' = "ask"
         \/ phase = "ask" /\ phase' = "serve"
         \/ phase = "serve" /\ phase' = "disable"
         \/ phase' = "crashed"
         \/ phase' = phase
      /\ phase # "off" \/ phase' = phase
  BY DEF mod_update_crashes, find_next_ends, Ask, Close, mod_free_crashes, whole,
         directory
<1>2. StackTypes'
  BY <1>1 DEF StackInv, StackTypes
<1>3. Once' /\ Made'
  BY <1>1 DEF StackInv, Once, Made, FileAt, Makes, RoundsFor, Complete
<1>4. Informed'
  BY <1>1, Walked DEF StackInv, Informed, FileAt, Controls
<1>5. Ended'
  BY <1>1 DEF StackInv, Ended, FileAt, Ends
<1>6. ToldUpToTheFirstDeaf'
  BY <1>1 DEF StackInv, ToldUpToTheFirstDeaf, Positions, FileAt, Controls
<1> QED BY <1>2, <1>3, <1>4, <1>5, <1>6 DEF StackInv

(* The end of service is announced.                                        *)
LEMMA DisableKeeps ==
    ASSUME StackInv, mod_disable_service \/ mod_disable_service_ends
    PROVE  StackInv'
<1>1. /\ UNCHANGED <<has, named, left, stack, inits, exits>> /\ phase = "disable"
      /\ \A k : FileAt(k)' = FileAt(k)
  BY DEF mod_disable_service, mod_disable_service_ends, directory, FileAt
<1>2. Once' /\ Made'
  BY <1>1 DEF StackInv, Once, Made, FileAt, Makes, RoundsFor, Complete,
              mod_disable_service, mod_disable_service_ends
<1>3. /\ Positions = 1..Len(stack) /\ Len(stack) \in Nat /\ at \in Nat \ {0}
      /\ \A k \in 1..Len(stack) : FileAt(k) \in Files
      /\ \A k \in 1..Len(stack) : FileAt(k) \in told <=> k < at
      /\ \A k \in 1..Len(stack) : k < at => Controls(FileAt(k))
      /\ \A k, l \in 1..Len(stack) : FileAt(k) = FileAt(l) => k = l
      /\ at <= Len(stack) + 1
  BY <1>1, Walked DEF StackInv, StackTypes, Informed, Once
<1>4. CASE mod_disable_service
  <2> USE <1>4 DEF mod_disable_service
  <2>1. StackTypes'
    BY <1>1, <1>3 DEF StackInv, StackTypes
  <2>2. Informed'
    BY <1>1, <1>3 DEF Informed, Controls
  <2>3. Ended' /\ ToldUpToTheFirstDeaf'
    BY <1>1 DEF StackInv, Ended, ToldUpToTheFirstDeaf
  <2> QED BY <1>2, <2>1, <2>2, <2>3 DEF StackInv
<1>5. CASE mod_disable_service_ends
  <2> USE <1>5 DEF mod_disable_service_ends
  <2>1. StackTypes'
    BY <1>1 DEF StackInv, StackTypes
  <2>2. Informed'
    BY <1>1 DEF Informed
  <2>3. Ended'
    <3>1. \A k \in 1..Len(stack) : exits[FileAt(k)] = 0
      BY <1>1, <1>3 DEF StackInv, Ended
    <3> QED BY <1>1, <1>3, <3>1 DEF Ended
  <2>4. ToldUpToTheFirstDeaf'
    <3>1. at \in 1..Len(stack) => ~Controls(FileAt(at))
      BY <1>3
    <3>2. \A k \in 1..Len(stack) : k < at <=> \A l \in 1..k : Controls(FileAt(l))
      BY <1>3, <3>1
    <3> QED BY <1>1, <1>3, <3>2 DEF ToldUpToTheFirstDeaf, Positions, Controls
  <2> QED BY <1>2, <2>1, <2>2, <2>3, <2>4 DEF StackInv
<1> QED BY <1>4, <1>5

(* A module is ended and unloaded.                                         *)
LEMMA FreeKeeps ==
    ASSUME StackInv, mod_free
    PROVE  StackInv'
<1> USE DEF mod_free, directory
<1>1. \A k : FileAt(k)' = FileAt(k)
  BY DEF FileAt
<1>2. /\ at \in 1..Len(stack) /\ Len(stack) \in Nat
      /\ \A k \in 1..Len(stack) : FileAt(k) \in Files
      /\ \A k, l \in 1..Len(stack) : FileAt(k) = FileAt(l) => k = l
      /\ exits \in [Files -> Int]
      /\ \A k \in 1..Len(stack) :
            exits[FileAt(k)] = IF k < at /\ Ends(FileAt(k)) THEN 1 ELSE 0
  BY Walked DEF StackInv, StackTypes, Ended, Once
<1>3. StackTypes'
  BY <1>2 DEF StackInv, StackTypes
<1>4. Once' /\ Made' /\ Informed'
  BY <1>1 DEF StackInv, Once, Made, Informed, Makes, RoundsFor, Complete, Controls
<1>5. Ended'
  <2>1. \A k \in 1..Len(stack) :
            exits'[FileAt(k)] = IF k < at + 1 /\ Ends(FileAt(k)) THEN 1 ELSE 0
    <3> TAKE k \in 1..Len(stack)
    <3>1. CASE k = at
      BY <1>2, <3>1
    <3>2. CASE k # at
      <4>1. FileAt(k) # FileAt(at) /\ exits'[FileAt(k)] = exits[FileAt(k)]
        BY <1>2, <3>2
      <4> QED BY <1>2, <3>2, <4>1
    <3> QED BY <3>1, <3>2
  <2> QED BY <1>1, <1>2, <2>1 DEF Ended, Ends
<1>6. ToldUpToTheFirstDeaf'
  BY <1>1 DEF StackInv, ToldUpToTheFirstDeaf, Positions, Controls
<1> QED BY <1>3, <1>4, <1>5, <1>6 DEF StackInv

LEMMA FreeEndsKeeps ==
    ASSUME StackInv, mod_free_ends
    PROVE  StackInv'
<1> USE DEF mod_free_ends, directory
<1>1. StackTypes'
  BY DEF StackInv, StackTypes
<1>2. Once' /\ Made' /\ Informed' /\ ToldUpToTheFirstDeaf'
  BY DEF StackInv, Once, Made, Informed, ToldUpToTheFirstDeaf, Makes, RoundsFor,
         Complete
<1>3. Ended'
  <2>1. /\ at = Len(stack) + 1 /\ Len(stack) \in Nat
        /\ \A k \in 1..Len(stack) :
              exits[FileAt(k)] = IF k < at /\ Ends(FileAt(k)) THEN 1 ELSE 0
    BY Walked DEF StackInv, StackTypes, Ended
  <2>2. \A f \in Files \ left : exits[f] = IF Ends(f) THEN 1 ELSE 0
    <3> TAKE f \in Files \ left
    <3>1. PICK k \in 1..Len(stack) : FileAt(k) = f
      BY DEF StackInv, Once
    <3>2. k < at
      BY <2>1
    <3> QED BY <2>1, <3>1, <3>2
  <2> QED BY <2>2 DEF Ended, Ends
<1> QED BY <1>1, <1>2, <1>3 DEF StackInv

LEMMA StackInvHolds == StackSpec => []StackInv
<1>1. StackInv /\ [StackNext]_whole => StackInv'
  BY UpdateKeeps, MainKeeps, DisableKeeps, FreeKeeps, FreeEndsKeeps DEF StackNext
<1> QED BY <1>1, StackInvFirst, PTL DEF StackSpec

(* A module with all its symbols has ended every instance it made, whatever *)
(* else is in the directory and in whatever order; an incomplete one leaves *)
(* the instances of thirty rounds, or all but one of them.                  *)
THEOREM CompleteModulesEnd == StackSpec => []InstancesEnd
<1>1. StackInv => InstancesEnd
  <2> SUFFICES ASSUME StackInv, phase = "off", NEW f \in Files \ left
               PROVE  inits[f] - exits[f] \in
                          IF Complete(f) THEN {0}
                          ELSE IF Ends(f) THEN {-1, Rounds - 1} ELSE {0, Rounds}
    BY DEF InstancesEnd
  <2>1. /\ inits[f] = IF Makes(f) THEN RoundsFor(f) ELSE 0
        /\ exits[f] = IF Ends(f) THEN 1 ELSE 0
    BY DEF StackInv, Made, Ended
  <2>2. Complete(f) => Makes(f) /\ Ends(f)
    BY DEF Complete, Makes, Ends, Symbols
  <2> QED BY <2>1, <2>2, ModStackAssumption DEF RoundsFor
<1> QED BY <1>1, StackInvHolds, PTL

(* A loaded module that can be controlled is reached under its own name,   *)
(* unless an earlier one in the stack has the same name or none at all.    *)
THEOREM EarlierModulesHide == StackSpec => []UnreachableHasCause
<1>1. StackInv => UnreachableHasCause
  <2> SUFFICES ASSUME StackInv, NEW k \in Positions, Controls(FileAt(k)),
                      ~Nameless(k),
                      \A j \in 1..(k - 1) : ~Nameless(j) /\ NameAt(j) # NameAt(k)
               PROVE  Reaches(NameAt(k)) = FileAt(k)
    BY DEF UnreachableHasCause
  <2>1. Positions = 1..Len(stack) /\ Len(stack) \in Nat
    BY Walked DEF StackInv
  <2> DEFINE stops == {i \in Positions : NameAt(i) = NameAt(k) \/ Nameless(i)}
  <2>2. k \in stops /\ \A j \in stops : k <= j
    BY <2>1
  <2>3. k = CHOOSE i \in stops : \A j \in stops : i <= j
    BY <2>1, <2>2
  <2>4. mod_find(NameAt(k)) = k
    BY <2>2, <2>3 DEF mod_find
  <2> QED BY <2>1, <2>4 DEF Reaches, Nameless
<1> QED BY <1>1, StackInvHolds, PTL

(* Shutdown tells every module up to the first one it cannot tell.         *)
THEOREM FirstDeafStops == StackSpec => []ToldUpToTheFirstDeaf
BY StackInvHolds, PTL DEF StackInv
=============================================================================
