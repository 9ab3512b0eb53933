------------------------- MODULE ModuleThreadProofs -------------------------
(* Theorems about the server's modules: the shutdown seen from their       *)
(* threads, for any number of modules, of those with a thread, and any     *)
(* posts; and the messages that reach the modules the server is shipped    *)
(* with, for any order of its directory and any number of requests.        *)
EXTENDS Teardown, Modules, SequenceTheorems, WellFoundedInduction, TLAPS

L == Len(Order) + 3   \* records of the registry
R == Len(Order) + 1   \* the reaper's

LEMMA Joined ==
    ASSUME NEW S, NEW s, NEW t, s \in Seq(S), t \in Seq(S)
    PROVE  /\ s \o t \in Seq(S) /\ Len(s \o t) = Len(s) + Len(t)
           /\ \A i \in 1..(Len(s) + Len(t)) :
                 (s \o t)[i] = IF i <= Len(s) THEN s[i] ELSE t[i - Len(s)]
OBVIOUS

LEMMA OrderFacts ==
    /\ Len(Order) \in Nat /\ DOMAIN Order = 1..Len(Order)
    /\ \A n \in 1..Len(Order) : Order[n] \in Services /\ Order[n] \in Nat \ {0}
    /\ \A i \in Services : i \in Nat \ {0}
    /\ \A m, n \in 1..Len(Order) : m < n => Order[m] < Order[n]
BY TeardownAssumption DEF Services, Modules

(* The registry has one record for each thread, the modules' first.        *)
LEMMA RegistryFacts ==
    /\ Registry \in Seq(Threads) /\ Len(Registry) = L /\ DOMAIN Registry = 1..L
    /\ \A n \in 1..Len(Order) : Registry[n] = Of(Order[n])
    /\ Registry[R] = Reaper /\ Registry[R + 1] = Worker /\ Registry[R + 2] = Final
<1>1. PICK seq \in Seq(Threads) :
        /\ Len(seq) = Len(Order) /\ \A n \in 1..Len(Order) : seq[n] = Of(Order[n])
        /\ seq = [n \in DOMAIN Order |-> Of(Order[n])]
  <2> DEFINE s == [n \in DOMAIN Order |-> Of(Order[n])]
  <2>1. s \in Seq(Threads) /\ Len(s) = Len(Order)
    BY OrderFacts DEF Threads, Servants
  <2>2. \A n \in 1..Len(Order) : s[n] = Of(Order[n])
    BY OrderFacts
  <2> QED BY <2>1, <2>2
<1>2. PICK end \in Seq(Threads) :
        /\ Len(end) = 3 /\ end = <<Reaper, Worker, Final>>
        /\ end[1] = Reaper /\ end[2] = Worker /\ end[3] = Final
  <2> DEFINE e == <<Reaper, Worker, Final>>
  <2>1. e \in Seq(Threads) /\ Len(e) = 3
    BY DEF Threads
  <2> QED BY <2>1
<1>3. Registry = seq \o end
  BY <1>1, <1>2 DEF Registry
<1>4. /\ Registry \in Seq(Threads) /\ Len(Registry) = L
      /\ \A i \in 1..L : Registry[i] = IF i <= Len(seq) THEN seq[i]
                                       ELSE end[i - Len(seq)]
  <2>1. /\ Registry \in Seq(Threads) /\ Len(Registry) = Len(seq) + Len(end)
        /\ \A i \in 1..(Len(seq) + Len(end)) :
              Registry[i] = IF i <= Len(seq) THEN seq[i] ELSE end[i - Len(seq)]
    BY <1>1, <1>2, <1>3, Joined
  <2> QED BY <1>1, <1>2, <1>3, <2>1, OrderFacts DEF L
<1>5. DOMAIN Registry = 1..L
  BY <1>4
<1>6. \A n \in 1..Len(Order) : Registry[n] = Of(Order[n])
  BY <1>1, <1>4, OrderFacts DEF L
<1>7. Registry[R] = Reaper /\ Registry[R + 1] = Worker /\ Registry[R + 2] = Final
  <2>1. R \in 1..L /\ R - Len(seq) = 1 /\ ~(R <= Len(seq))
    BY <1>1, OrderFacts DEF L, R
  <2>2. R + 1 \in 1..L /\ R + 1 - Len(seq) = 2 /\ ~(R + 1 <= Len(seq))
    BY <1>1, OrderFacts DEF L, R
  <2>3. R + 2 \in 1..L /\ R + 2 - Len(seq) = 3 /\ ~(R + 2 <= Len(seq))
    BY <1>1, OrderFacts DEF L, R
  <2> QED BY <1>2, <1>4, <2>1, <2>2, <2>3
<1> QED BY <1>4, <1>5, <1>6, <1>7

(* No two records are of the same thread.                                  *)
LEMMA RegistryInjective ==
    /\ \A m, n \in 1..L : Registry[m] = Registry[n] => m = n
    /\ \A t \in Threads : \E n \in 1..L : Registry[n] = t
<1> USE OrderFacts, RegistryFacts DEF L, R
<1>1. ASSUME NEW m \in 1..L, NEW n \in 1..L, Registry[m] = Registry[n], m < n
      PROVE  FALSE
  <2>1. CASE n <= Len(Order)
    BY <1>1, <2>1 DEF Of
  <2>2. CASE n > Len(Order) /\ m <= Len(Order)
    BY <1>1, <2>2 DEF Of, Reaper, Worker, Final
  <2>3. CASE m > Len(Order)
    BY <1>1, <2>3 DEF Reaper, Worker, Final
  <2> QED BY <2>1, <2>2, <2>3
<1>2. ASSUME NEW t \in Threads PROVE \E n \in 1..L : Registry[n] = t
  <2>1. CASE t \in Servants
    BY <2>1 DEF Servants, Services
  <2>2. CASE t \in {Reaper, Worker, Final}
    BY <2>2
  <2> QED BY <2>1, <2>2 DEF Threads
<1> QED BY <1>1, <1>2
-----------------------------------------------------------------------------
(* The inductive invariant.  A record has its tid until its thread has     *)
(* been cancelled, once, and which have it follows from the stage of the   *)
(* closing thread.                                                         *)
Stages == {"none", "cancel", "table", "pointer", "threads", "exit", "unload",
           "done"}
Early  == {"none", "cancel"}
Late   == {"exit", "unload", "done"}

TeardownTypes ==
    /\ cancels \in [Threads -> Nat] /\ step \in [Threads -> Nat]
    /\ state \in [Threads -> {"rest", "busy", "ended"}]
    /\ xpc \in Stages /\ xi \in Nat \ {0}

Holders == CASE xpc \in Early -> 1..L
             [] xpc \in {"table", "pointer"} -> (1..L) \ {R}
             [] xpc = "threads" -> (xi..L) \ {R}
             [] OTHER -> {}

Registered ==
    /\ tid = Holders
    /\ thcount = IF xpc \in Late THEN 0 ELSE L
    /\ xpc = "threads" => xi <= L + 1
    /\ \A n \in 1..L : cancels[Registry[n]] = IF n \in tid THEN 0 ELSE 1

(* Nothing the reaper uses is gone before it is cancelled, and no record   *)
(* before the first thread of the registry is.                             *)
FreedAfter ==
    /\ Table \in freed \/ ~sptr_core => R \notin tid
    /\ \A thing \in freed : thing[1] = "thread" => 1 \notin tid

(* A cancelled thread that is still at work was when it was cancelled.     *)
BusySeen == \A t \in Threads : Pending(t) /\ state[t] = "busy" => t \in busy

TeardownInv == /\ TeardownTypes /\ Registered /\ FreedAfter /\ BusySeen
               /\ ReaperCaughtInItsPassOnly /\ WalkerCaughtLate

(* What any step of a thread does: it moves, takes no other thread along   *)
(* and begins nothing once it is cancelled.                                *)
Moves(t) ==
    /\ Elsewhere /\ UNCHANGED freed
    /\ \E s \in {"rest", "busy", "ended"}, n \in Nat :
          /\ Becomes(t, s, n)
          /\ s = "busy" => state[t] = "busy" \/ ~Pending(t)

LEMMA UsesFacts ==
    ASSUME NEW who, NEW things, Uses(who, things)
    PROVE  /\ freed' = freed
           /\ \A h \in harm' : h[1] = who
           /\ \A h \in harm' : \E b \in things \cap freed : h[2] = b[1]
BY DEF Uses

LEMMA UsesTableFacts ==
    ASSUME NEW who, UsesTable(who)
    PROVE  /\ freed' = freed
           /\ \A h \in harm' : h[1] = who /\ h[2] = "table"
           /\ sptr_core /\ Table \notin freed => harm' = {}
<1>1. Table[1] = "table"
  BY DEF Table
<1>2. CASE sptr_core
  BY <1>1, <1>2 DEF UsesTable, Uses
<1>3. CASE ~sptr_core
  BY <1>1, <1>3 DEF UsesTable
<1> QED BY <1>2, <1>3

LEMMA ThreadNames ==
    /\ Reaper \in Threads /\ Worker \in Threads /\ Final \in Threads
    /\ \A i \in Services : Of(i) \in Threads /\ Of(i) \in Servants
    /\ Reaper \notin Servants /\ Worker \notin Servants /\ Final \notin Servants
    /\ Reaper # Worker /\ Reaper # Final /\ Worker # Final
    /\ Main # Reaper /\ Closer # Reaper
    /\ \A i : Main # Of(i) /\ Closer # Of(i) /\ Reaper # Of(i)
              /\ Worker # Of(i) /\ Final # Of(i)
    /\ \A i, j : Of(i) = Of(j) => i = j
BY DEF Reaper, Worker, Final, Main, Closer, Of, Servants, Threads

LEMMA MovesKeep ==
    ASSUME TeardownTypes, Registered, FreedAfter, BusySeen,
           NEW t \in Threads, Moves(t)
    PROVE  /\ TeardownTypes' /\ Registered' /\ FreedAfter' /\ BusySeen'
           /\ busy' = busy
<1>1. PICK s \in {"rest", "busy", "ended"}, n \in Nat :
          /\ state' = [state EXCEPT ![t] = s] /\ step' = [step EXCEPT ![t] = n]
          /\ s = "busy" => state[t] = "busy" \/ ~Pending(t)
  BY DEF Moves, Becomes
<1>2. UNCHANGED <<freed, lists, cancels, flags, bpos, closer>>
  BY DEF Moves, Elsewhere
<1> USE <1>2 DEF lists, flags, closer
<1>3. TeardownTypes'
  BY <1>1 DEF TeardownTypes
<1>4. Registered'
  BY DEF Registered, Holders
<1>5. FreedAfter'
  BY DEF FreedAfter
<1>6. BusySeen'
  BY <1>1 DEF BusySeen, Pending, TeardownTypes
<1> QED BY <1>3, <1>4, <1>5, <1>6

(* The two properties survive a step that reports no such use of memory,   *)
(* or one for which they allow.                                            *)
Excused(h) ==
    /\ h[1] = Reaper /\ h[2] = "table" => Reaper \in busy
    /\ Thi # 0 /\ h[1] = Of(Thi) /\ h[2] = "thread" =>
          Of(Thi) \in busy \/ \E i \in Services : i < Thi

LEMMA CaughtKept ==
    ASSUME ReaperCaughtInItsPassOnly, WalkerCaughtLate, busy \subseteq busy',
           harm' = harm \/ \A h \in harm' : Excused(h)
    PROVE  ReaperCaughtInItsPassOnly' /\ WalkerCaughtLate'
<1>1. CASE harm' = harm
  BY <1>1 DEF ReaperCaughtInItsPassOnly, WalkerCaughtLate
<1>2. CASE \A h \in harm' : Excused(h)
  <2>1. ASSUME <<Reaper, "table">> \in harm' PROVE Reaper \in busy
    BY <1>2, <2>1 DEF Excused
  <2>2. ASSUME Thi # 0, <<Of(Thi), "thread">> \in harm'
        PROVE  Of(Thi) \in busy \/ \E i \in Services : i < Thi
    BY <1>2, <2>2 DEF Excused
  <2> QED BY <2>1, <2>2 DEF ReaperCaughtInItsPassOnly, WalkerCaughtLate
<1> QED BY <1>1, <1>2

(* The reaper, cancelled and still at work, was in its pass; and thi0 has  *)
(* the first record if no module with a thread comes before it.            *)
LEMMA ReaperSeen ==
    ASSUME TeardownInv, state[Reaper] = "busy", R \notin tid
    PROVE  Reaper \in busy
<1>1. R \in 1..L /\ Registry[R] = Reaper
  BY OrderFacts, RegistryFacts DEF L, R
<1>2. cancels[Reaper] = 1
  BY <1>1 DEF TeardownInv, Registered
<1> QED BY <1>2, ThreadNames DEF TeardownInv, BusySeen, Pending

LEMMA WalkerSeen ==
    ASSUME TeardownInv, Thi # 0, state[Of(Thi)] = "busy", 1 \notin tid
    PROVE  Of(Thi) \in busy \/ \E i \in Services : i < Thi
<1> SUFFICES ASSUME ~ \E i \in Services : i < Thi
             PROVE  Of(Thi) \in busy
  OBVIOUS
<1>1. Thi \in Services
  BY TeardownAssumption
<1>2. PICK n \in 1..Len(Order) : Order[n] = Thi
  BY <1>1, OrderFacts DEF Services
<1>3. n = 1
  <2>1. 1 \in 1..Len(Order) /\ Order[1] \in Services
    BY <1>2, OrderFacts
  <2>2. n > 1 => Order[1] < Order[n]
    BY <1>2, <2>1, OrderFacts
  <2> QED BY <1>2, <2>1, <2>2
<1>4. 1 \in 1..L /\ Registry[1] = Of(Thi)
  BY <1>2, <1>3, OrderFacts, RegistryFacts DEF L
<1>5. cancels[Of(Thi)] = 1
  BY <1>4 DEF TeardownInv, Registered
<1> QED BY <1>1, <1>5, ThreadNames DEF TeardownInv, BusySeen, Pending
-----------------------------------------------------------------------------
(* A step of thread t keeps the invariant if what it reports is excused.   *)
LEMMA MovesKeepAll ==
    ASSUME TeardownInv, NEW t \in Threads, Moves(t),
           harm' = harm \/ \A h \in harm' : Excused(h)
    PROVE  TeardownInv'
BY MovesKeep, CaughtKept DEF TeardownInv

LEMMA OthersExcused ==
    ASSUME NEW who, who # Reaper, Thi # 0 => who # Of(Thi),
           \A h \in harm' : h[1] = who
    PROVE  \A h \in harm' : Excused(h)
BY DEF Excused

LEMMA CancelledKeeps ==
    ASSUME TeardownInv, NEW t \in Threads, Cancelled(t)
    PROVE  TeardownInv'
<1>1. Moves(t)
  BY UsesFacts DEF Cancelled, Moves, memory, Becomes
<1>2. CASE t \notin Servants
  BY <1>1, <1>2, MovesKeepAll DEF Cancelled, memory
<1>3. CASE t \in Servants
  <2>1. Uses(t, {Code(t[2])})
    BY <1>3 DEF Cancelled
  <2>2. \A h \in harm' : h[1] = t /\ h[2] = "code"
    BY <2>1, UsesFacts DEF Code
  <2>3. \A h \in harm' : Excused(h)
    BY <2>2 DEF Excused
  <2> QED BY <1>1, <2>3, MovesKeepAll
<1> QED BY <1>2, <1>3

LEMMA ReaperStepKeeps ==
    ASSUME TeardownInv, ReaperStep
    PROVE  TeardownInv'
<1> USE ThreadNames
<1>1. CASE ReaperWakes
  <2>1. Moves(Reaper)
    BY <1>1, UsesTableFacts DEF ReaperWakes, Moves, Becomes, Wakes
  <2>2. R \in tid
    <3>1. ~Pending(Reaper) /\ R \in 1..L /\ Registry[R] = Reaper
      BY <1>1, OrderFacts, RegistryFacts DEF ReaperWakes, Wakes, L, R
    <3> QED BY <3>1 DEF TeardownInv, Registered, Pending
  <2>3. harm' = {}
    BY <1>1, <2>2, UsesTableFacts DEF ReaperWakes, TeardownInv, FreedAfter
  <2> QED BY <2>1, <2>3, MovesKeepAll
<1>2. CASE ReaperVisits \/ ReaperRests
  <2>1. Moves(Reaper)
    BY <1>2, UsesTableFacts, UsesFacts
    DEF ReaperVisits, ReaperRests, Moves, Becomes, memory
  <2>2. CASE R \notin tid
    <3>1. Reaper \in busy
      BY <1>2, <2>2, ReaperSeen DEF ReaperVisits, ReaperRests
    <3>2. harm' = harm \/ \A h \in harm' : h[1] = Reaper
      BY <1>2, UsesTableFacts, UsesFacts DEF ReaperVisits, ReaperRests, memory
    <3>3. harm' = harm \/ \A h \in harm' : Excused(h)
      BY <3>1, <3>2 DEF Excused
    <3> QED BY <2>1, <3>3, MovesKeepAll
  <2>3. CASE R \in tid
    <3>1. sptr_core /\ Table \notin freed
      BY <2>3 DEF TeardownInv, FreedAfter
    <3>2. harm' = {}
      BY <1>2, <3>1, UsesTableFacts DEF ReaperVisits, ReaperRests, Uses
    <3> QED BY <2>1, <3>2, MovesKeepAll
  <2> QED BY <2>2, <2>3
<1> QED BY <1>1, <1>2 DEF ReaperStep

LEMMA ThiIsAService == Thi # 0 => Thi \in Services
BY TeardownAssumption

LEMMA FinalStepKeeps ==
    ASSUME TeardownInv, FinalStep
    PROVE  TeardownInv'
<1> USE ThreadNames
<1>1. Moves(Final)
  BY UsesTableFacts
  DEF FinalStep, FinalWakes, FinalRests, Moves, Becomes, memory, Wakes
<1>2. harm' = harm \/ \A h \in harm' : h[1] = Final
  BY UsesTableFacts DEF FinalStep, FinalWakes, FinalRests, memory
<1>3. harm' = harm \/ \A h \in harm' : Excused(h)
  BY <1>2, OthersExcused
<1> QED BY <1>1, <1>3, MovesKeepAll

LEMMA WorkerStepKeeps ==
    ASSUME TeardownInv, WorkerWakes \/ WorkerStep
    PROVE  TeardownInv'
<1> USE ThreadNames
<1>1. step[Worker] \in Nat
  BY DEF TeardownInv, TeardownTypes
<1>2. state[Worker] = "busy" /\ WorkerGoesOn =>
        \E s \in {"rest", "busy", "ended"}, n \in Nat :
            Becomes(Worker, s, n) /\ (s = "busy" => state[Worker] = "busy")
  BY <1>1 DEF WorkerGoesOn
<1>3. CASE WorkerWakes
  BY <1>3, MovesKeepAll DEF WorkerWakes, Moves, memory, Wakes
<1>4. CASE WorkerLooks
  <2>1. Moves(Worker)
    BY <1>2, <1>4 DEF WorkerLooks, Moves, memory
  <2> QED BY <1>4, <2>1, MovesKeepAll DEF WorkerLooks, memory
<1>5. CASE WorkerUsesTable
  <2>1. Moves(Worker) /\ \A h \in harm' : h[1] = Worker
    BY <1>2, <1>5, UsesTableFacts DEF WorkerUsesTable, Moves
  <2> QED BY <2>1, MovesKeepAll, OthersExcused
<1>6. CASE WorkerPosts
  <2>1. PICK things : Uses(Worker, things)
    BY <1>6 DEF WorkerPosts
  <2>2. WorkerGoesOn /\ Elsewhere /\ state[Worker] = "busy"
    BY <1>6 DEF WorkerPosts
  <2>3. Moves(Worker) /\ \A h \in harm' : h[1] = Worker
    BY <1>2, <2>1, <2>2, UsesFacts DEF Moves
  <2> QED BY <2>3, MovesKeepAll, OthersExcused
<1>7. CASE WorkerCancelledInside
  <2>1. PICK things : Uses(Worker, things)
    BY <1>7 DEF WorkerCancelledInside
  <2>2. Moves(Worker) /\ \A h \in harm' : h[1] = Worker
    BY <1>7, <2>1, UsesFacts DEF WorkerCancelledInside, Moves
  <2> QED BY <2>2, MovesKeepAll, OthersExcused
<1> QED BY <1>3, <1>4, <1>5, <1>6, <1>7 DEF WorkerStep

(* The thread of a module uses its code and what was allocated for it;     *)
(* only the walk of thi0 reads the registry.                               *)
LEMMA ServantStepKeeps ==
    ASSUME TeardownInv, NEW i \in Services, ServantStep(i)
    PROVE  TeardownInv'
<1> USE ThreadNames
<1>1. Moves(Of(i))
  BY UsesFacts
  DEF ServantStep, ServantWakes, ServantRests, Moves, Becomes, Wakes
<1>2. \A h \in harm' : h[1] = Of(i) /\ h[2] \in {"code", "ext"}
  BY UsesFacts DEF ServantStep, ServantWakes, ServantRests, Code, Ext
<1>3. \A h \in harm' : Excused(h)
  BY <1>2 DEF Excused
<1> QED BY <1>1, <1>3, MovesKeepAll

LEMMA ThiWalksKeeps ==
    ASSUME TeardownInv, ThiWalks
    PROVE  TeardownInv'
<1> USE ThreadNames, ThiIsAService
<1> DEFINE t == Of(Thi)
           n == step[t]
<1>1. t \in Threads /\ Thi # 0 /\ state[t] = "busy" /\ n \in Nat /\ n <= thcount
  BY DEF ThiWalks, Walks, TeardownInv, TeardownTypes
<1>2. Uses(t, {Code(Thi), Ext(Thi), Entry(n)})
  BY DEF ThiWalks
<1>3. Moves(t)
  BY <1>1, <1>2, UsesFacts DEF ThiWalks, Moves
<1>4. \A h \in harm' : h[1] = t /\ (h[2] = "thread" => Entry(n) \in freed)
  BY <1>2, UsesFacts DEF Code, Ext, Entry
<1>5. CASE Entry(n) \notin freed
  <2>1. \A h \in harm' : Excused(h)
    BY <1>4, <1>5 DEF Excused
  <2> QED BY <1>1, <1>3, <2>1, MovesKeepAll
<1>6. CASE Entry(n) \in freed
  <2>1. 1 \notin tid
    BY <1>6 DEF TeardownInv, FreedAfter, Entry
  <2>2. t \in busy \/ \E i \in Services : i < Thi
    BY <1>1, <2>1, WalkerSeen
  <2>3. \A h \in harm' : Excused(h)
    BY <1>4, <2>2 DEF Excused
  <2> QED BY <1>1, <1>3, <2>3, MovesKeepAll
<1> QED BY <1>5, <1>6
-----------------------------------------------------------------------------
(* main.                                                                   *)
LEMMA MainKeeps ==
    ASSUME TeardownInv, SpawnCloser \/ MainStep
    PROVE  TeardownInv'
<1>1. CASE SpawnCloser
  <2> USE <1>1 DEF SpawnCloser, memory, lists, flags, TeardownInv
  <2>1. TeardownTypes'
    BY DEF TeardownTypes, Stages
  <2>2. Registered'
    BY DEF Registered, Holders, Early, Late
  <2>3. FreedAfter' /\ BusySeen'
    BY DEF FreedAfter, BusySeen, Pending
  <2>4. ReaperCaughtInItsPassOnly' /\ WalkerCaughtLate'
    BY CaughtKept
  <2> QED BY <2>1, <2>2, <2>3, <2>4
<1>2. CASE MainStep
  <2>1. UNCHANGED <<freed, lists, cancels, state, step, off, closer>>
    BY <1>2, UsesFacts DEF MainStep, Broadcast, BroadcastEnds, memory, flags
  <2>2. harm' = harm \/ \A h \in harm' : h[1] = Main
    BY <1>2, UsesFacts DEF MainStep, Broadcast, BroadcastEnds, memory
  <2>3. harm' = harm \/ \A h \in harm' : Excused(h)
    BY <2>2, OthersExcused, ThreadNames
  <2> USE <2>1 DEF lists, closer, TeardownInv
  <2>4. TeardownTypes' /\ Registered'
    BY DEF TeardownTypes, Registered, Holders
  <2>5. FreedAfter' /\ BusySeen'
    BY DEF FreedAfter, BusySeen, Pending
  <2>6. ReaperCaughtInItsPassOnly' /\ WalkerCaughtLate'
    BY <2>3, CaughtKept
  <2> QED BY <2>4, <2>5, <2>6
<1> QED BY <1>1, <1>2

(* The closing thread.  Cancelling a set of records counts once for the    *)
(* thread of each.                                                         *)
LEMMA CancelFacts ==
    ASSUME TeardownTypes, BusySeen, NEW S \in SUBSET (1..L), Cancel(S),
           state' = state
    PROVE  /\ cancels' \in [Threads -> Nat]
           /\ \A n \in 1..L : cancels'[Registry[n]] =
                  IF n \in S THEN cancels[Registry[n]] + 1
                  ELSE cancels[Registry[n]]
           /\ busy \subseteq busy' /\ BusySeen'
<1>1. \A t \in Threads : cancels'[t] =
          IF \E j \in S : Registry[j] = t THEN cancels[t] + 1 ELSE cancels[t]
  BY DEF Cancel
<1>2. cancels' \in [Threads -> Nat]
  BY DEF Cancel, TeardownTypes
<1>3. ASSUME NEW n \in 1..L
      PROVE  cancels'[Registry[n]] = IF n \in S THEN cancels[Registry[n]] + 1
                                     ELSE cancels[Registry[n]]
  <2>1. Registry[n] \in Threads
    BY RegistryFacts
  <2>2. (\E j \in S : Registry[j] = Registry[n]) <=> n \in S
    BY RegistryInjective
  <2> QED BY <1>1, <2>1, <2>2
<1>4. busy \subseteq busy'
  BY DEF Cancel
<1>5. BusySeen'
  <2> SUFFICES ASSUME NEW t \in Threads, cancels'[t] > 0, state[t] = "busy"
               PROVE  t \in busy'
    BY DEF BusySeen, Pending
  <2>1. CASE \E j \in S : Registry[j] = t
    BY <2>1 DEF Cancel
  <2>2. CASE ~ \E j \in S : Registry[j] = t
    BY <1>1, <1>4, <2>2 DEF BusySeen, Pending
  <2> QED BY <2>1, <2>2
<1> QED BY <1>2, <1>3, <1>4, <1>5

(* A step of the closing thread keeps the registry in order if the records *)
(* it cancels are those that lose their tid.                               *)
LEMMA CancelKeeps ==
    ASSUME TeardownInv, NEW S \in SUBSET (1..L), Cancel(S), S \subseteq tid,
           tid' = tid \ S, state' = state, step' = step
    PROVE  /\ cancels' \in [Threads -> Nat]
           /\ \A n \in 1..L :
                 cancels'[Registry[n]] = IF n \in tid' THEN 0 ELSE 1
           /\ busy \subseteq busy' /\ BusySeen'
<1>1. /\ cancels' \in [Threads -> Nat]
      /\ \A n \in 1..L : cancels'[Registry[n]] =
                  IF n \in S THEN cancels[Registry[n]] + 1
                  ELSE cancels[Registry[n]]
      /\ busy \subseteq busy' /\ BusySeen'
  BY CancelFacts DEF TeardownInv
<1>2. \A n \in 1..L : cancels[Registry[n]] = IF n \in tid THEN 0 ELSE 1
  BY DEF TeardownInv, Registered
<1> QED BY <1>1, <1>2

LEMMA TidInRange == TeardownInv => tid \subseteq 1..L
BY OrderFacts DEF TeardownInv, Registered, Holders, TeardownTypes, L

LEMMA ExitTableKeeps ==
    ASSUME TeardownInv, librmc_exit \/ librmc_free \/ librmc_exit_ends
    PROVE  TeardownInv'
<1>1. CASE librmc_exit
  <2> USE <1>1 DEF librmc_exit, mod_thread_close
  <2>1. /\ Certified(Reaper) = {R} /\ tid = 1..L /\ thcount = L
        /\ R \in 1..L
    BY OrderFacts, RegistryFacts, RegistryInjective
    DEF Certified, TeardownInv, Registered, Holders, Early, Late, L, R
  <2>2. Cancel({R}) /\ tid' = tid \ {R}
    <3>1. {R} \cap tid \cap 1..L = {R} /\ {R} \cap 1..L = {R}
      BY <2>1
    <3> QED BY <2>1, <3>1
  <2>3. /\ cancels' \in [Threads -> Nat]
        /\ \A n \in 1..L :
              cancels'[Registry[n]] = IF n \in tid' THEN 0 ELSE 1
        /\ busy \subseteq busy' /\ BusySeen'
    BY <2>1, <2>2, CancelKeeps
  <2>4. freed' = freed /\ \A h \in harm' : Excused(h)
    BY UsesFacts, OthersExcused, ThreadNames
  <2>5. TeardownTypes'
    BY <2>3 DEF TeardownInv, TeardownTypes, Stages
  <2>6. Registered'
    BY <2>1, <2>2, <2>3 DEF TeardownInv, Registered, Holders, Early, Late
  <2>7. FreedAfter'
    BY <2>1, <2>2, <2>4 DEF TeardownInv, FreedAfter
  <2>8. ReaperCaughtInItsPassOnly' /\ WalkerCaughtLate'
    BY <2>3, <2>4, CaughtKept DEF TeardownInv
  <2> QED BY <2>3, <2>5, <2>6, <2>7, <2>8 DEF TeardownInv
<1>2. CASE librmc_free \/ librmc_exit_ends
  <2> USE <1>2 DEF librmc_free, librmc_exit_ends, Frees, memory, lists, flags,
                   TeardownInv
  <2>1. TeardownTypes'
    BY DEF TeardownTypes, Stages
  <2>2. Registered'
    BY OrderFacts DEF Registered, Holders, Early, Late, L
  <2>3. R \notin tid
    BY DEF Registered, Holders, Early
  <2>4. FreedAfter'
    BY <2>3 DEF FreedAfter, Table
  <2>5. BusySeen'
    BY DEF BusySeen, Pending
  <2>6. ReaperCaughtInItsPassOnly' /\ WalkerCaughtLate'
    BY CaughtKept
  <2> QED BY <2>1, <2>2, <2>4, <2>5, <2>6
<1> QED BY <1>1, <1>2

LEMMA ThreadExitKeeps ==
    ASSUME TeardownInv, mod_thread_exit \/ mod_thread_exit_ends
    PROVE  TeardownInv'
<1>1. CASE mod_thread_exit
  <2> USE <1>1 DEF mod_thread_exit
  <2> DEFINE S == {xi} \cap tid
  <2>1. /\ S \in SUBSET (1..L) /\ S \subseteq tid /\ tid' = tid \ S
        /\ xi \in 1..L /\ tid = (xi..L) \ {R} /\ xpc' = "threads"
        /\ thcount' = L /\ L \in Nat
    BY TidInRange, OrderFacts
    DEF TeardownInv, TeardownTypes, Registered, Holders, Early, Late, L
  <2>2. /\ cancels' \in [Threads -> Nat]
        /\ \A n \in 1..L :
              cancels'[Registry[n]] = IF n \in tid' THEN 0 ELSE 1
        /\ busy \subseteq busy' /\ BusySeen'
    BY <2>1, CancelKeeps
  <2>3. tid' = ((xi + 1)..L) \ {R} /\ xi' = xi + 1
    BY <2>1
  <2>4. TeardownTypes'
    BY <2>2, <2>3 DEF TeardownInv, TeardownTypes
  <2>5. Registered'
    BY <2>1, <2>2, <2>3 DEF TeardownInv, Registered, Holders, Early, Late
  <2>6. FreedAfter'
    BY <2>1, <2>3, ThreadNames DEF TeardownInv, FreedAfter, Frees, Entry, Table
  <2>7. ReaperCaughtInItsPassOnly' /\ WalkerCaughtLate'
    BY <2>2, CaughtKept DEF TeardownInv, Frees
  <2> QED BY <2>2, <2>4, <2>5, <2>6, <2>7 DEF TeardownInv
<1>2. CASE mod_thread_exit_ends
  <2> USE <1>2 DEF mod_thread_exit_ends, memory, flags, TeardownInv
  <2>1. TeardownTypes'
    BY DEF TeardownTypes, Stages
  <2>2. tid = {}
    BY OrderFacts DEF TeardownTypes, Registered, Holders, Early, Late, L
  <2>3. Registered'
    BY <2>2 DEF Registered, Holders, Early, Late
  <2>4. FreedAfter' /\ BusySeen'
    BY DEF FreedAfter, BusySeen, Pending
  <2>5. ReaperCaughtInItsPassOnly' /\ WalkerCaughtLate'
    BY CaughtKept
  <2> QED BY <2>1, <2>3, <2>4, <2>5
<1> QED BY <1>1, <1>2

(* The registry is empty by now: FMOD_EXIT finds no thread to cancel.      *)
LEMMA ModFreeKeeps ==
    ASSUME TeardownInv, mod_exit \/ mod_unload \/ CloserDone
    PROVE  TeardownInv'
<1>1. xpc \in Late /\ xpc' \in Late /\ thcount = 0 /\ tid = {}
  BY DEF mod_exit, mod_unload, CloserDone, TeardownInv, Registered, Holders,
         Early, Late
<1>2. tid' = {} /\ thcount' = 0 /\ cancels' = cancels /\ busy' = busy
  <2>1. CASE mod_exit /\ xi \in Services
    <3>1. Cancel({}) /\ tid' = {}
      BY <1>1, <2>1 DEF mod_exit, mod_thread_close
    <3>2. cancels' = cancels /\ busy' = busy
      BY <3>1 DEF Cancel, TeardownInv, TeardownTypes
    <3> QED BY <1>1, <2>1, <3>1, <3>2 DEF mod_exit
  <2>2. CASE ~(mod_exit /\ xi \in Services)
    BY <1>1, <2>2 DEF mod_exit, mod_unload, CloserDone, lists, memory
  <2> QED BY <2>1, <2>2
<1>3. state' = state /\ step' = step /\ sptr_core' = sptr_core
  BY DEF mod_exit, mod_unload, CloserDone, lists
<1>4. xi' \in Nat \ {0}
  BY DEF mod_exit, mod_unload, CloserDone, TeardownInv, TeardownTypes
<1>5. harm' = harm \/ \A h \in harm' : Excused(h)
  BY UsesFacts, OthersExcused, ThreadNames
  DEF mod_exit, mod_thread_close, mod_unload, CloserDone, Frees, memory
<1>6. \A thing \in freed' \ freed : thing[1] \in {"ext", "code", "record"}
  BY UsesFacts
  DEF mod_exit, mod_thread_close, mod_unload, CloserDone, Frees, memory,
      Ext, Code, Module
<1> USE DEF TeardownInv
<1>7. TeardownTypes'
  BY <1>1, <1>2, <1>3, <1>4 DEF TeardownTypes, Late, Stages
<1>8. Registered'
  BY <1>1, <1>2 DEF Registered, Holders, Early, Late
<1>9. FreedAfter'
  BY <1>2 DEF FreedAfter
<1>10. BusySeen'
  BY <1>2, <1>3 DEF BusySeen, Pending
<1>11. ReaperCaughtInItsPassOnly' /\ WalkerCaughtLate'
  BY <1>2, <1>5, CaughtKept
<1> QED BY <1>7, <1>8, <1>9, <1>10, <1>11
-----------------------------------------------------------------------------
LEMMA TeardownInvKept ==
    ASSUME TeardownInv, [Next]_vars
    PROVE  TeardownInv'
<1>1. CASE \E t \in Threads : Cancelled(t)
  BY <1>1, CancelledKeeps
<1>2. CASE ReaperStep
  BY <1>2, ReaperStepKeeps
<1>3. CASE FinalStep
  BY <1>3, FinalStepKeeps
<1>4. CASE WorkerWakes \/ WorkerStep
  BY <1>4, WorkerStepKeeps
<1>5. CASE \E i \in Services : ServantStep(i)
  BY <1>5, ServantStepKeeps
<1>6. CASE ThiWalks
  BY <1>6, ThiWalksKeeps
<1>7. CASE SpawnCloser \/ MainStep
  BY <1>7, MainKeeps
<1>8. CASE CloserStep
  BY <1>8, ExitTableKeeps, ThreadExitKeeps, ModFreeKeeps DEF CloserStep
<1>9. CASE UNCHANGED vars
  BY <1>9 DEF vars, memory, lists, flags, closer, TeardownInv, TeardownTypes,
              Registered, Holders, FreedAfter, BusySeen, Pending,
              ReaperCaughtInItsPassOnly, WalkerCaughtLate
<1> QED BY <1>1, <1>2, <1>3, <1>4, <1>5, <1>6, <1>7, <1>8, <1>9 DEF Next

LEMMA TeardownInvHolds == Spec => []TeardownInv
<1>1. Init => TeardownInv
  <2> SUFFICES ASSUME Init PROVE TeardownInv
    OBVIOUS
  <2> USE DEF Init
  <2>1. TeardownTypes
    BY DEF TeardownTypes, Stages
  <2>2. Registered
    BY RegistryFacts, ThreadNames DEF Registered, Holders, Early, Late
  <2>3. FreedAfter /\ BusySeen
    BY DEF FreedAfter, BusySeen
  <2>4. ReaperCaughtInItsPassOnly /\ WalkerCaughtLate
    BY DEF ReaperCaughtInItsPassOnly, WalkerCaughtLate
  <2> QED BY <2>1, <2>2, <2>3, <2>4 DEF TeardownInv
<1> QED BY <1>1, TeardownInvKept, PTL DEF Spec

(* librmc_exit: whoever cancels the reaper before it frees the table has   *)
(* it caught in the middle of a pass at most.                              *)
THEOREM ReaperIsCaughtInItsPass == Spec => []ReaperCaughtInItsPassOnly
<1>1. TeardownInv => ReaperCaughtInItsPassOnly
  BY DEF TeardownInv
<1> QED BY <1>1, TeardownInvHolds, PTL

(* mod_thread_exit: the walk of thi0 meets a freed record only if it was   *)
(* going on, or if a thread is registered before that of thi0.             *)
THEOREM WalkerIsCaughtLate == Spec => []WalkerCaughtLate
<1>1. TeardownInv => WalkerCaughtLate
  BY DEF TeardownInv
<1> QED BY <1>1, TeardownInvHolds, PTL

(* librmc_exit, mod_thread_exit and FMOD_EXIT together cancel every thread *)
(* once, and all of them before the first module is unloaded.              *)
THEOREM ThreadsAreCancelledOnce == Spec => []CancelledOnce
<1>1. ASSUME TeardownInv, NEW t \in Threads
      PROVE  /\ cancels[t] <= 1
             /\ xpc \in {"exit", "unload", "done"} => cancels[t] = 1
  <2>1. PICK n \in 1..L : Registry[n] = t
    BY RegistryInjective
  <2>2. cancels[t] = IF n \in tid THEN 0 ELSE 1
    BY <1>1, <2>1 DEF TeardownInv, Registered
  <2>3. xpc \in {"exit", "unload", "done"} => tid = {}
    BY <1>1 DEF TeardownInv, Registered, Holders, Early
  <2> QED BY <2>2, <2>3
<1>2. TeardownInv => CancelledOnce
  BY <1>1 DEF CancelledOnce
<1> QED BY <1>2, TeardownInvHolds, PTL
-----------------------------------------------------------------------------
(* What the closing thread frees: the first n records of the registry, and *)
(* what belongs to the first n modules.                                    *)
RecordsOf(n) == {Entry(j) : j \in 1..n}
PartsOf(i)   == {Ext(i), Code(i), Module(i)}
UnloadedOf(n) == UNION {PartsOf(i) : i \in 1..n}

FreedSoFar ==
    CASE xpc \in {"none", "cancel", "table"} -> {}
      [] xpc = "pointer"            -> {Table}
      [] xpc = "threads"            -> {Table} \cup RecordsOf(xi - 1)
      [] xpc \in {"exit", "unload"} -> {Table} \cup RecordsOf(L) \cup UnloadedOf(xi - 1)
      [] xpc = "done"               -> {Table} \cup RecordsOf(L) \cup UnloadedOf(M)

(* Where the closing thread is determines what is freed.                   *)
InOrder ==
    /\ freed = FreedSoFar
    /\ count = IF xpc = "done" THEN 0 ELSE M
    /\ xpc = "exit" => xi <= M + 1
    /\ xpc = "unload" => xi <= M

(* The steps the closing thread has left.                                  *)
ClosingLeft ==
    CASE xpc = "none"    -> 2 * M + L + 6
      [] xpc = "cancel"  -> 2 * M + L + 5
      [] xpc = "table"   -> 2 * M + L + 4
      [] xpc = "pointer" -> 2 * M + L + 3
      [] xpc = "threads" -> 2 * M + 2 + (L + 1 - xi)
      [] xpc = "exit"    -> 2 * (M + 1 - xi) + 1
      [] xpc = "unload"  -> 2 * (M + 1 - xi)
      [] xpc = "done"    -> 0

(* Nothing is freed that has been freed, and every step of the closing     *)
(* thread is one of those it had left.                                     *)
FreesOnce ==
    /\ librmc_free => Table \notin freed
    /\ mod_thread_exit => Entry(xi) \notin freed
    /\ mod_unload => PartsOf(xi) \cap freed = {}

ClosingNears ==
    /\ CloserStep => ClosingLeft' = ClosingLeft - 1
    /\ xpc # "none" /\ ~CloserStep => ClosingLeft' = ClosingLeft

AllFreed == freed = {Table} \cup RecordsOf(L) \cup UnloadedOf(M)

LEMMA Kinds ==
    /\ \A j : Entry(j) # Table
    /\ \A i : Table \notin PartsOf(i)
    /\ \A i, j : Entry(j) \notin PartsOf(i)
    /\ \A i, j : Entry(i) = Entry(j) => i = j
    /\ \A i, j : i # j => PartsOf(i) \cap PartsOf(j) = {}
  BY DEF Entry, Table, PartsOf, Ext, Code, Module

LEMMA FirstRecords ==
    /\ RecordsOf(0) = {} /\ UnloadedOf(0) = {}
    /\ \A n \in Nat \ {0} : /\ RecordsOf(n) = RecordsOf(n - 1) \cup {Entry(n)}
                            /\ UnloadedOf(n) = UnloadedOf(n - 1) \cup PartsOf(n)
                            /\ Entry(n) \notin RecordsOf(n - 1)
                            /\ PartsOf(n) \cap UnloadedOf(n - 1) = {}
  <1>1. RecordsOf(0) = {} /\ UnloadedOf(0) = {}
    BY DEF RecordsOf, UnloadedOf
  <1>2. ASSUME NEW n \in Nat \ {0}
        PROVE  /\ RecordsOf(n) = RecordsOf(n - 1) \cup {Entry(n)}
               /\ UnloadedOf(n) = UnloadedOf(n - 1) \cup PartsOf(n)
               /\ Entry(n) \notin RecordsOf(n - 1)
               /\ PartsOf(n) \cap UnloadedOf(n - 1) = {}
    <2>1. 1..n = (1..(n - 1)) \cup {n} /\ n \notin 1..(n - 1)
      OBVIOUS
    <2> HIDE <1>2
    <2>2. RecordsOf(n) = RecordsOf(n - 1) \cup {Entry(n)}
      BY <2>1 DEF RecordsOf
    <2>3. UnloadedOf(n) = UnloadedOf(n - 1) \cup PartsOf(n)
      BY <2>1 DEF UnloadedOf
    <2>4. Entry(n) \notin RecordsOf(n - 1)
      BY <2>1, Kinds DEF RecordsOf
    <2>5. PartsOf(n) \cap UnloadedOf(n - 1) = {}
      <3>1. ASSUME NEW i \in 1..(n - 1) PROVE PartsOf(n) \cap PartsOf(i) = {}
        BY <2>1, Kinds
      <3>2. QED
        BY <3>1 DEF UnloadedOf
    <2>6. QED
      BY <2>2, <2>3, <2>4, <2>5
  <1>3. QED
    BY <1>1, <1>2

LEMMA OthersFreeNothing ==
    ASSUME [Next]_vars, ~CloserStep
    PROVE  /\ UNCHANGED <<freed, count, xi>>
           /\ xpc' = xpc \/ (xpc = "none" /\ xpc' = "cancel")
  <1>1. CASE SpawnCloser
    BY <1>1 DEF SpawnCloser, memory, lists
  <1>2. CASE MainStep
    BY <1>2, UsesFacts DEF MainStep, Broadcast, BroadcastEnds, memory, lists, closer
  <1>3. CASE \E t \in Threads : Cancelled(t)
    BY <1>3, UsesFacts DEF Cancelled, Elsewhere, memory, lists, closer
  <1>4. CASE ReaperStep \/ FinalStep
    BY <1>4, UsesFacts, UsesTableFacts
    DEF ReaperStep, ReaperWakes, ReaperVisits, ReaperRests, FinalStep, FinalWakes,
        FinalRests, Elsewhere, memory, lists, closer
  <1>5. CASE WorkerWakes \/ WorkerStep
    BY <1>5, UsesFacts, UsesTableFacts
    DEF WorkerWakes, WorkerStep, WorkerLooks, WorkerUsesTable, WorkerPosts,
        WorkerCancelledInside, Elsewhere, memory, lists, closer
  <1>6. CASE (\E i \in Services : ServantStep(i)) \/ ThiWalks
    BY <1>6, UsesFacts
    DEF ServantStep, ServantWakes, ServantRests, ThiWalks, Elsewhere, memory, lists, closer
  <1>7. CASE UNCHANGED vars
    BY <1>7 DEF vars, memory, lists, closer
  <1>8. QED
    BY <1>1, <1>2, <1>3, <1>4, <1>5, <1>6, <1>7 DEF Next

LEMMA FirstInOrder == Init => InOrder
  BY TeardownAssumption DEF Init, InOrder, FreedSoFar

(* A step of the closing thread, case by case.                             *)
LEMMA CloserInOrder ==
    ASSUME TeardownInv, InOrder, CloserStep
    PROVE  InOrder' /\ ClosingLeft' = ClosingLeft - 1 /\ FreesOnce
  <1>1. /\ M \in Nat \ {0} /\ L \in Nat /\ xi \in Nat \ {0}
        /\ xi - 1 \in Nat /\ xi + 1 \in Nat \ {0} /\ (xi + 1) - 1 = xi
        /\ thcount = (IF xpc \in Late THEN 0 ELSE L)
        /\ (xpc = "threads" => xi <= L + 1)
    BY TeardownAssumption, OrderFacts DEF TeardownInv, TeardownTypes, Registered, L
  <1>2. CASE librmc_exit
    <2>1. xpc = "cancel" /\ xpc' = "table" /\ UNCHANGED <<freed, count>>
      BY <1>2, UsesFacts DEF librmc_exit, mod_thread_close
    <2>2. InOrder'
      BY <2>1 DEF InOrder, FreedSoFar
    <2>3. ClosingLeft' = ClosingLeft - 1
      BY <1>1, <2>1 DEF ClosingLeft
    <2>4. FreesOnce
      BY <2>1 DEF FreesOnce, librmc_free, mod_thread_exit, mod_unload
    <2>5. QED
      BY <2>2, <2>3, <2>4
  <1>3. CASE librmc_free
    <2>1. xpc = "table" /\ xpc' = "pointer" /\ freed' = freed \cup {Table} /\ count' = count
      BY <1>3 DEF librmc_free, Frees, lists
    <2>2. freed = {}
      BY <2>1 DEF InOrder, FreedSoFar
    <2>3. InOrder'
      BY <2>1, <2>2 DEF InOrder, FreedSoFar
    <2>4. ClosingLeft' = ClosingLeft - 1
      BY <1>1, <2>1 DEF ClosingLeft
    <2>5. FreesOnce
      BY <2>1, <2>2 DEF FreesOnce, mod_thread_exit, mod_unload
    <2>6. QED
      BY <2>3, <2>4, <2>5
  <1>4. CASE librmc_exit_ends
    <2>1. /\ xpc = "pointer" /\ xpc' = "threads" /\ xi' = 1
          /\ UNCHANGED <<freed, count>>
      BY <1>4 DEF librmc_exit_ends, memory
    <2>2. xi' - 1 = 0
      BY <2>1
    <2>3. InOrder'
      BY <2>1, <2>2, FirstRecords DEF InOrder, FreedSoFar
    <2>4. ClosingLeft' = ClosingLeft - 1
      BY <1>1, <2>1 DEF ClosingLeft
    <2>5. FreesOnce
      BY <2>1 DEF FreesOnce, librmc_free, mod_thread_exit, mod_unload
    <2>6. QED
      BY <2>3, <2>4, <2>5
  <1>5. CASE mod_thread_exit
    <2>1. /\ xpc = "threads" /\ xpc' = "threads" /\ xi' = xi + 1
          /\ freed' = freed \cup {Entry(xi)} /\ count' = count
      BY <1>5 DEF mod_thread_exit, Frees
    <2>2. freed = {Table} \cup RecordsOf(xi - 1)
      BY <2>1 DEF InOrder, FreedSoFar
    <2>3. freed' = {Table} \cup RecordsOf(xi' - 1)
      BY <1>1, <2>1, <2>2, FirstRecords
    <2>4. InOrder'
      BY <2>1, <2>3 DEF InOrder, FreedSoFar
    <2>5. ClosingLeft' = ClosingLeft - 1
      BY <1>1, <2>1 DEF ClosingLeft
    <2>6. FreesOnce
      BY <1>1, <2>1, <2>2, FirstRecords, Kinds DEF FreesOnce, librmc_free, mod_unload
    <2>7. QED
      BY <2>4, <2>5, <2>6
  <1>6. CASE mod_thread_exit_ends
    <2>1. /\ xpc = "threads" /\ xpc' = "exit" /\ xi' = 1 /\ xi > thcount
          /\ UNCHANGED <<freed, count>>
      BY <1>6 DEF mod_thread_exit_ends, memory
    <2>2. xi = L + 1 /\ xi - 1 = L /\ xi' - 1 = 0
      BY <1>1, <2>1 DEF Late
    <2>3. freed = {Table} \cup RecordsOf(L)
      BY <2>1, <2>2 DEF InOrder, FreedSoFar
    <2>4. InOrder'
      BY <1>1, <2>1, <2>2, <2>3, FirstRecords DEF InOrder, FreedSoFar
    <2>5. ClosingLeft' = ClosingLeft - 1
      BY <1>1, <2>1, <2>2 DEF ClosingLeft
    <2>6. FreesOnce
      BY <1>1, <2>1, <2>2 DEF FreesOnce, librmc_free, mod_thread_exit, mod_unload, Late
    <2>7. QED
      BY <2>4, <2>5, <2>6
  <1>7. CASE mod_exit
    <2>1. /\ xpc = "exit" /\ xpc' = "unload" /\ xi <= count
          /\ UNCHANGED <<freed, count, xi>>
      BY <1>7, UsesFacts DEF mod_exit, mod_thread_close, memory
    <2>2. InOrder'
      BY <1>1, <2>1 DEF InOrder, FreedSoFar
    <2>3. ClosingLeft' = ClosingLeft - 1
      BY <1>1, <2>1 DEF ClosingLeft
    <2>4. FreesOnce
      BY <2>1 DEF FreesOnce, librmc_free, mod_thread_exit, mod_unload
    <2>5. QED
      BY <2>2, <2>3, <2>4
  <1>8. CASE mod_unload
    <2>1. /\ xpc = "unload" /\ xpc' = "exit" /\ xi' = xi + 1 /\ count' = count
          /\ freed' = freed \cup PartsOf(xi)
      BY <1>8 DEF mod_unload, Frees, lists, PartsOf
    <2>2. freed = {Table} \cup RecordsOf(L) \cup UnloadedOf(xi - 1)
      BY <2>1 DEF InOrder, FreedSoFar
    <2>3. freed' = {Table} \cup RecordsOf(L) \cup UnloadedOf(xi' - 1)
      BY <1>1, <2>1, <2>2, FirstRecords
    <2>4. InOrder'
      BY <1>1, <2>1, <2>3 DEF InOrder, FreedSoFar
    <2>5. ClosingLeft' = ClosingLeft - 1
      BY <1>1, <2>1 DEF ClosingLeft, InOrder
    <2>6. PartsOf(xi) \cap freed = {}
      <3>1. PartsOf(xi) \cap RecordsOf(L) = {}
        BY Kinds DEF RecordsOf
      <3>2. QED
        BY <1>1, <2>2, <3>1, FirstRecords, Kinds
    <2>7. FreesOnce
      BY <2>1, <2>6 DEF FreesOnce, librmc_free, mod_thread_exit
    <2>8. QED
      BY <2>4, <2>5, <2>7
  <1>9. CASE CloserDone
    <2>1. xpc = "exit" /\ xpc' = "done" /\ xi > count /\ count' = 0 /\ freed' = freed
      BY <1>9 DEF CloserDone, memory
    <2>2. xi = M + 1 /\ xi - 1 = M
      BY <1>1, <2>1 DEF InOrder
    <2>3. InOrder'
      BY <2>1, <2>2 DEF InOrder, FreedSoFar
    <2>4. ClosingLeft' = ClosingLeft - 1
      BY <1>1, <2>1, <2>2 DEF ClosingLeft
    <2>5. FreesOnce
      BY <2>1 DEF FreesOnce, librmc_free, mod_thread_exit, mod_unload
    <2>6. QED
      BY <2>3, <2>4, <2>5
  <1>10. QED
    BY <1>2, <1>3, <1>4, <1>5, <1>6, <1>7, <1>8, <1>9 DEF CloserStep

LEMMA OthersInOrder ==
    ASSUME InOrder, [Next]_vars, ~CloserStep
    PROVE  /\ InOrder'
           /\ xpc # "none" => ClosingLeft' = ClosingLeft
           /\ FreesOnce
  <1>1. UNCHANGED <<freed, count, xi>> /\ (xpc' = xpc \/ (xpc = "none" /\ xpc' = "cancel"))
    BY OthersFreeNothing
  <1>2. InOrder'
    BY <1>1 DEF InOrder, FreedSoFar
  <1>3. xpc # "none" => ClosingLeft' = ClosingLeft
    BY <1>1 DEF ClosingLeft
  <1>4. FreesOnce
    BY DEF FreesOnce, CloserStep
  <1>5. QED
    BY <1>2, <1>3, <1>4

LEMMA InOrderHolds == Spec => []InOrder
  <1>1. TeardownInv /\ InOrder /\ [Next]_vars => InOrder'
    BY CloserInOrder, OthersInOrder
  <1>2. QED
    BY FirstInOrder, <1>1, TeardownInvHolds, PTL DEF Spec

(* librmc_exit, mod_thread_exit and mod_free: the closing thread frees the *)
(* table, each record of the registry and each module's parts once, and    *)
(* has freed all of them when it is done.                                  *)
THEOREM EverythingIsFreedOnce ==
    Spec => [](xpc = "done" => AllFreed) /\ [][FreesOnce]_vars
  <1>1. InOrder => (xpc = "done" => AllFreed)
    BY DEF InOrder, FreedSoFar, AllFreed
  <1>2. TeardownInv /\ InOrder /\ [Next]_vars => [FreesOnce]_vars
    BY CloserInOrder, OthersInOrder
  <1>3. QED
    BY <1>1, <1>2, InOrderHolds, TeardownInvHolds, PTL DEF Spec

(* The closing thread waits for nobody: it is done after 2 * M + L + 5     *)
(* steps of its own, and nothing that another thread does adds one.        *)
THEOREM ClosingIsBounded ==
    Spec => /\ [](xpc \notin {"none", "done"} => ClosingLeft \in 1..(2 * M + L + 5))
            /\ [](xpc = "done" => ClosingLeft = 0)
            /\ [][ClosingNears]_vars
  <1>1. TeardownInv /\ InOrder
           => (xpc \notin {"none", "done"} => ClosingLeft \in 1..(2 * M + L + 5))
    <2> SUFFICES ASSUME TeardownInv, InOrder, xpc \notin {"none", "done"}
                 PROVE  ClosingLeft \in 1..(2 * M + L + 5)
      OBVIOUS
    <2>1. /\ M \in Nat \ {0} /\ L \in Nat /\ xi \in Nat \ {0}
          /\ (xpc = "threads" => xi <= L + 1)
          /\ xpc \in {"cancel", "table", "pointer", "threads", "exit", "unload"}
      BY TeardownAssumption, OrderFacts
      DEF TeardownInv, TeardownTypes, Registered, Stages, L
    <2>2. QED
      BY <2>1 DEF ClosingLeft, InOrder
  <1>2. xpc = "done" => ClosingLeft = 0
    BY DEF ClosingLeft
  <1>3. TeardownInv /\ InOrder /\ [Next]_vars => [ClosingNears]_vars
    BY CloserInOrder, OthersInOrder DEF ClosingNears
  <1>4. QED
    BY <1>1, <1>2, <1>3, InOrderHolds, TeardownInvHolds, PTL DEF Spec
-----------------------------------------------------------------------------
(* The steps a cancelled thread may still take: to the end of the pass,    *)
(* request or walk it is in, and one to end.                               *)
Longest(t) == CASE t = Reaper -> 2
                [] t = Final  -> 1
                [] t = Worker -> Len(Request)
                [] OTHER      -> L + 1

LeftOf(t) == CASE state[t] = "ended" -> 0
               [] state[t] = "rest"  -> 1
               [] state[t] = "busy"  -> (Longest(t) + 2) - step[t]

StepsInRange ==
    \A t \in Threads : state[t] = "busy" => step[t] \in 1..Longest(t)

(* What a step of a thread does to it: it begins, unless it is cancelled,  *)
(* goes on, rests or ends.                                                 *)
Advances(t) ==
    /\ UNCHANGED cancels
    /\ \/ state[t] = "rest" /\ ~Pending(t) /\ Becomes(t, "busy", 1)
       \/ state[t] = "busy" /\ Becomes(t, "busy", step[t] + 1) /\ step[t] + 1 <= Longest(t)
       \/ state[t] = "busy" /\ \E n \in Nat : Becomes(t, "rest", n)
       \/ state[t] # "ended" /\ \E n \in Nat : Becomes(t, "ended", n)

(* A cancelled thread comes nearer to its end with each step it takes, and *)
(* no step of another takes it further from it.                            *)
ThreadsNear ==
    \A t \in Threads : Pending(t) =>
        /\ Pending(t)'
        /\ LeftOf(t)' <= LeftOf(t)
        /\ state'[t] # state[t] \/ step'[t] # step[t] => LeftOf(t)' < LeftOf(t)

LEMMA RequestHasPosts == Len(Request) \in Nat \ {0}
  <1> DEFINE Items == {Look, Use} \cup {Call(i) : i \in Modules}
             heads == <<Look, Use, Call(Bcdx)>>
  <1>1. heads \in Seq(Items) /\ Len(heads) = 3
    BY TeardownAssumption
  <1>2. ASSUME NEW s \in Seq(Modules) PROVE Calls(s) \in Seq(Items)
    <2>1. DOMAIN s = 1..Len(s) /\ Len(s) \in Nat
      OBVIOUS
    <2>2. \A n \in 1..Len(s) : Call(s[n]) \in Items
      OBVIOUS
    <2> HIDE DEF Items
    <2>3. QED
      BY <2>1, <2>2 DEF Calls
  <1>3. Calls(Update) \in Seq(Items) /\ Calls(Answer) \in Seq(Items)
    BY <1>2, TeardownAssumption
  <1>4. Request = heads \o Calls(Update) \o heads \o Calls(Answer)
    BY DEF Request
  <1> HIDE DEF Items, heads
  <1>5. PICK h, u, a \in Seq(Items) :
           h = heads /\ u = Calls(Update) /\ a = Calls(Answer)
    BY <1>1, <1>3
  <1>6. h \o u \in Seq(Items) /\ Len(h \o u) = Len(h) + Len(u)
    OBVIOUS
  <1>7. h \o u \o h \in Seq(Items) /\ Len(h \o u \o h) = Len(h \o u) + Len(h)
    BY <1>6
  <1>8. Len(h \o u \o h \o a) = Len(h \o u \o h) + Len(a)
    BY <1>7
  <1>9. Len(h) = 3 /\ Len(u) \in Nat /\ Len(a) \in Nat
    BY <1>1, <1>5
  <1>10. Len(Request) = Len(h \o u \o h \o a)
    BY <1>4, <1>5
  <1>11. QED
    BY <1>6, <1>7, <1>8, <1>9, <1>10

LEMMA LongestIs ==
    /\ \A t \in Threads : Longest(t) \in Nat \ {0}
    /\ Longest(Reaper) = 2 /\ Longest(Final) = 1 /\ Longest(Worker) = Len(Request)
    /\ \A i \in Services : Longest(Of(i)) = L + 1
  <1>1. Longest(Reaper) = 2 /\ Longest(Final) = 1 /\ Longest(Worker) = Len(Request)
    BY ThreadNames DEF Longest
  <1>2. \A i \in Services : Longest(Of(i)) = L + 1
    BY ThreadNames DEF Longest
  <1>3. Len(Request) \in Nat \ {0}
    BY RequestHasPosts
  <1>4. L + 1 \in Nat \ {0}
    BY OrderFacts DEF L
  <1>5. QED
    BY <1>1, <1>2, <1>3, <1>4 DEF Threads, Servants

LEMMA AdvancesNears ==
    ASSUME TeardownTypes, StepsInRange, NEW u \in Threads, Advances(u)
    PROVE  StepsInRange' /\ ThreadsNear
  <1>1. /\ state' = [state EXCEPT ![u] = state'[u]] /\ step' = [step EXCEPT ![u] = step'[u]]
        /\ cancels' = cancels
    BY DEF Advances, Becomes, TeardownTypes
  <1>2. ASSUME NEW t \in Threads, t # u
        PROVE  state'[t] = state[t] /\ step'[t] = step[t]
    BY <1>2, <1>1 DEF TeardownTypes
  <1>3. Longest(u) \in Nat \ {0} /\ step[u] \in Nat /\ state[u] \in {"rest", "busy", "ended"}
    BY LongestIs DEF TeardownTypes
  <1>4. state[u] = "busy" => step[u] \in 1..Longest(u)
    BY DEF StepsInRange
  <1>5. \/ state[u] = "rest" /\ ~Pending(u) /\ state'[u] = "busy" /\ step'[u] = 1
        \/ /\ state[u] = "busy" /\ state'[u] = "busy" /\ step'[u] = step[u] + 1
           /\ step[u] + 1 <= Longest(u)
        \/ state[u] = "busy" /\ state'[u] = "rest"
        \/ state[u] # "ended" /\ state'[u] = "ended"
    BY DEF Advances, Becomes, TeardownTypes
  <1>6. StepsInRange'
    <2>1. state'[u] = "busy" => step'[u] \in 1..Longest(u)
      BY <1>3, <1>5
    <2>2. QED
      BY <1>2, <2>1 DEF StepsInRange
  <1>7. Pending(u) => LeftOf(u)' < LeftOf(u)
    BY <1>3, <1>4, <1>5 DEF LeftOf
  <1>8. LeftOf(u) \in Nat
    BY <1>3, <1>4 DEF LeftOf
  <1>9. ASSUME NEW t \in Threads, Pending(t)
        PROVE  /\ Pending(t)'
               /\ LeftOf(t)' <= LeftOf(t)
               /\ state'[t] # state[t] \/ step'[t] # step[t] => LeftOf(t)' < LeftOf(t)
    <2>1. Pending(t)'
      BY <1>1, <1>9 DEF Pending
    <2>2. CASE t = u
      <3>1. LeftOf(u)' \in Int
        BY <1>3, <1>4, <1>5 DEF LeftOf
      <3>2. QED
        BY <1>7, <1>8, <1>9, <2>1, <2>2, <3>1
    <2>3. CASE t # u
      <3>1. LeftOf(t)' = LeftOf(t)
        BY <1>2, <2>3 DEF LeftOf
      <3>2. LeftOf(t) \in Nat
        BY LongestIs DEF LeftOf, StepsInRange, TeardownTypes
      <3>3. QED
        BY <1>2, <2>1, <2>3, <3>1, <3>2
    <2>4. QED
      BY <2>2, <2>3
  <1>10. QED
    BY <1>6, <1>9 DEF ThreadsNear

(* Who moves which thread.                                                 *)
LEMMA StepsAdvance ==
    ASSUME TeardownInv, StepsInRange, [Next]_vars
    PROVE  \/ UNCHANGED <<state, step>>
              /\ \A t \in Threads : cancels[t] <= cancels'[t]
           \/ \E t \in Threads : Advances(t)
  <1> USE ThreadNames, LongestIs DEF TeardownInv, Elsewhere
  <1>1. ASSUME NEW t \in Threads, Cancelled(t) PROVE Advances(t)
    BY <1>1 DEF Cancelled, Advances
  <1>2. CASE ReaperStep
    <2>1. Advances(Reaper)
      BY <1>2 DEF ReaperStep, ReaperWakes, ReaperVisits, ReaperRests, Wakes, Advances
    <2>2. QED
      BY <2>1
  <1>3. CASE FinalStep
    <2>1. Advances(Final)
      BY <1>3 DEF FinalStep, FinalWakes, FinalRests, Wakes, Advances
    <2>2. QED
      BY <2>1
  <1>4. CASE WorkerWakes \/ WorkerStep
    <2>1. state[Worker] = "busy" => step[Worker] \in 1..Len(Request)
      BY DEF StepsInRange
    <2>2. state[Worker] = "busy" /\ WorkerGoesOn /\ UNCHANGED cancels => Advances(Worker)
      <3> SUFFICES ASSUME state[Worker] = "busy", WorkerGoesOn, UNCHANGED cancels
                   PROVE  Advances(Worker)
        OBVIOUS
      <3>1. CASE step[Worker] = Len(Request)
        BY <3>1 DEF WorkerGoesOn, Advances
      <3>2. CASE step[Worker] # Len(Request)
        BY <2>1, <3>2, RequestHasPosts DEF WorkerGoesOn, Advances
      <3>3. QED
        BY <3>1, <3>2
    <2>3. CASE WorkerWakes
      BY <2>3 DEF WorkerWakes, Wakes, Advances
    <2>4. CASE WorkerLooks
      BY <2>2, <2>4 DEF WorkerLooks, Advances
    <2>5. CASE WorkerUsesTable \/ WorkerPosts
      BY <2>2, <2>5 DEF WorkerUsesTable, WorkerPosts
    <2>6. CASE WorkerCancelledInside
      BY <2>6 DEF WorkerCancelledInside, Advances
    <2>7. QED
      BY <1>4, <2>3, <2>4, <2>5, <2>6 DEF WorkerStep
  <1>5. ASSUME NEW i \in Services, ServantStep(i) PROVE Advances(Of(i))
    BY <1>5 DEF ServantStep, ServantWakes, ServantRests, Wakes, Advances
  <1>6. CASE ThiWalks
    <2>1. Of(Thi) \in Threads /\ Thi \in Services
      BY <1>6, ThiIsAService DEF ThiWalks
    <2>2. thcount <= L /\ L \in Nat /\ thcount \in Nat
      BY OrderFacts DEF Registered, L
    <2>3. step[Of(Thi)] \in Nat /\ step[Of(Thi)] <= thcount
      BY <1>6, <2>1 DEF ThiWalks, Walks, TeardownTypes
    <2>4. Advances(Of(Thi))
      BY <1>6, <2>1, <2>2, <2>3 DEF ThiWalks, Advances
    <2>5. QED
      BY <2>1, <2>4
  <1>7. CASE SpawnCloser \/ MainStep
    BY <1>7 DEF SpawnCloser, MainStep, Broadcast, BroadcastEnds, TeardownTypes
  <1>8. CASE CloserStep
    <2>1. UNCHANGED <<state, step>>
      BY <1>8 DEF CloserStep, librmc_exit, librmc_free, librmc_exit_ends,
         mod_thread_exit, mod_thread_exit_ends, mod_exit, mod_unload, CloserDone
    <2>2. cancels' = cancels \/ \E S : Cancel(S)
      BY <1>8 DEF CloserStep, librmc_exit, librmc_free, librmc_exit_ends,
         mod_thread_exit, mod_thread_exit_ends, mod_exit, mod_unload, CloserDone,
         mod_thread_close
    <2>3. ASSUME NEW t \in Threads PROVE cancels[t] <= cancels'[t]
      <3>1. cancels[t] \in Nat
        BY DEF TeardownTypes
      <3>2. cancels'[t] \in {cancels[t], cancels[t] + 1}
        BY <2>2 DEF Cancel
      <3>3. QED
        BY <3>1, <3>2
    <2>4. QED
      BY <2>1, <2>3
  <1>9. CASE UNCHANGED vars
    BY <1>9 DEF vars, TeardownTypes
  <1>10. QED
    BY <1>1, <1>2, <1>3, <1>4, <1>5, <1>6, <1>7, <1>8, <1>9 DEF Next

LEMMA ThreadsNearStep ==
    ASSUME TeardownInv, StepsInRange, [Next]_vars
    PROVE  StepsInRange' /\ ThreadsNear
  <1>1. CASE \E t \in Threads : Advances(t)
    BY <1>1, AdvancesNears DEF TeardownInv
  <1>2. CASE UNCHANGED <<state, step>> /\ \A t \in Threads : cancels[t] <= cancels'[t]
    <2>1. StepsInRange'
      BY <1>2 DEF StepsInRange
    <2>2. ASSUME NEW t \in Threads, Pending(t)
          PROVE  Pending(t)' /\ LeftOf(t)' <= LeftOf(t)
      <3>1. cancels' \in [Threads -> Nat]
        BY TeardownInvKept DEF TeardownInv, TeardownTypes
      <3>2. Pending(t)'
        BY <1>2, <2>2, <3>1 DEF Pending, TeardownInv, TeardownTypes
      <3>3. LeftOf(t)' = LeftOf(t) /\ LeftOf(t) \in Nat
        BY <1>2, LongestIs DEF LeftOf, StepsInRange, TeardownInv, TeardownTypes
      <3>4. QED
        BY <3>2, <3>3
    <2>3. QED
      BY <1>2, <2>1, <2>2 DEF ThreadsNear
  <1>3. QED
    BY <1>1, <1>2, StepsAdvance

(* Whatever a thread was doing when its cancellation was asked, it ends    *)
(* within the steps to the end of its pass, request or walk and one more.  *)
THEOREM CancelledThreadsGetNearer ==
    Spec => /\ [](\A t \in Threads : LeftOf(t) \in 0..(Longest(t) + 1))
            /\ [][ThreadsNear]_vars
  <1>1. Init => StepsInRange
    BY DEF Init, StepsInRange
  <1>2. TeardownInv /\ StepsInRange /\ [Next]_vars => StepsInRange' /\ [ThreadsNear]_vars
    BY ThreadsNearStep
  <1>3. TeardownInv /\ StepsInRange => \A t \in Threads : LeftOf(t) \in 0..(Longest(t) + 1)
    BY LongestIs DEF LeftOf, StepsInRange, TeardownInv, TeardownTypes
  <1>4. QED
    BY <1>1, <1>2, <1>3, TeardownInvHolds, PTL DEF Spec
-----------------------------------------------------------------------------
(* The modules of the catalogue: their names, and what keeps a pointer.    *)
FileNames == {"bio0", "ctl0", "dev0", "gat0", "hol0", "ice0", "pop0", "rwx0",
              "sec0", "vid0", "sys0", "cor0", "log0", "dbi0", "dbo0", "dbm0",
              "dbv0", "bcdx", "thi0", "map0", "mod0", "stk0"}
NameOf(m)  == Catalogue[m].name
KeptIn(m)  == Catalogue[m].keeps
Keepers    == {"map0", "mod0", "stk0"}

LEMMA Names ==
    /\ Files = FileNames
    /\ \A m \in Files :
          NameOf(m) = CASE m = "sys0" -> "vid0" [] m = "dbm0" -> "dbv0"
                        [] m = "stk0" -> "map0" [] OTHER -> m
    /\ \A m \in Files :
          KeptIn(m) = CASE m = "bcdx" -> "process" [] m \in Keepers -> "object"
                        [] OTHER -> None
    /\ None \notin Files /\ mod0.cert # 0 /\ bcdx.cert # 0
<1>1. Files = FileNames
  BY DEF Files, Catalogue, FileNames
<1>2. /\ \A m \in FileNames :
            NameOf(m) = CASE m = "sys0" -> "vid0" [] m = "dbm0" -> "dbv0"
                          [] m = "stk0" -> "map0" [] OTHER -> m
      /\ \A m \in FileNames :
            KeptIn(m) = CASE m = "bcdx" -> "process" [] m \in Keepers -> "object"
                          [] OTHER -> None
  BY DEF FileNames, NameOf, KeptIn, Keepers, Catalogue, ModuleRecord, Stub, Data,
         bio0, ctl0, dev0, gat0, hol0, ice0, pop0, rwx0, sec0, vid0, sys0, cor0,
         log0, dbi0, dbo0, dbm0, dbv0, bcdx, thi0, map0, mod0, stk0
<1>3. None \notin FileNames /\ mod0.cert # 0 /\ bcdx.cert # 0
  BY DEF None, FileNames, mod0, bcdx, ModuleRecord
<1> QED BY <1>1, <1>2, <1>3

LEMMA NamesAreOwn ==
    \A m \in Files : /\ NameOf(m) = "bcdx" <=> m = "bcdx"
                     /\ NameOf(m) = "cor0" <=> m = "cor0"
                     /\ NameOf(m) = "dbi0" <=> m = "dbi0"
                     /\ NameOf(m) = "dbo0" <=> m = "dbo0"
                     /\ NameOf(m) # None
BY Names DEF FileNames, None

(* The first entry of a list that has a name is the one that is found.     *)
FirstNamed(list, name, k) ==
    /\ k \in 1..Len(list) /\ NameOf(list[k]) = name
    /\ \A j \in 1..Len(list) : NameOf(list[j]) = name => k <= j

LEMMA Smallest ==
    ASSUME NEW S \in SUBSET Nat, S # {}
    PROVE  \E k \in S : \A j \in S : k <= j
<1>1. IsWellFoundedOn({p \in Nat \X Nat : p[1] < p[2]}, Nat)
  BY NatLessThanWellFounded DEF OpToRel
<1>2. PICK k \in S : \A j \in S : ~(<<j, k>> \in {p \in Nat \X Nat : p[1] < p[2]})
  BY <1>1, WFMin, Zenon
<1>3. \A j \in S : ~(j < k) /\ j \in Nat /\ k \in Nat
  BY <1>2
<1> QED BY <1>3

LEMMA MinIs ==
    ASSUME NEW S \in SUBSET Nat, NEW k \in S, \A j \in S : k <= j
    PROVE  Min(S) = k
<1>1. \A x \in S : (\A y \in S : x <= y) <=> x = k
  OBVIOUS
<1> QED BY <1>1 DEF Min

LEMMA FoundIs ==
    ASSUME NEW list \in Seq(Files), NEW name
    PROVE  \/ /\ Found(list, name) = {}
              /\ \A j \in 1..Len(list) : NameOf(list[j]) # name
           \/ \E k \in 1..Len(list) : /\ FirstNamed(list, name, k)
                                      /\ Found(list, name) = {list[k]}
<1> DEFINE I == {j \in 1..Len(list) : Catalogue[list[j]].name = name}
<1>1. mod_find(list, name) = IF I # {} THEN Min(I) ELSE 0
  BY DEF mod_find, SelectInSeq
<1>2. CASE I = {}
  BY <1>1, <1>2 DEF Found, NameOf
<1>3. CASE I # {}
  <2>1. I \in SUBSET Nat /\ 0 \notin I
    OBVIOUS
  <2> HIDE DEF I
  <2>2. PICK k \in I : \A j \in I : k <= j
    BY <1>3, <2>1, Smallest
  <2>3. mod_find(list, name) = k /\ k # 0
    BY <1>1, <1>3, <2>1, <2>2, MinIs
  <2>4. Found(list, name) = {list[k]}
    BY <2>3 DEF Found
  <2> QED BY <2>2, <2>4 DEF FirstNamed, NameOf, I
<1> QED BY <1>2, <1>3

LEMMA FoundFirst ==
    ASSUME NEW list \in Seq(Files), NEW name, NEW k, FirstNamed(list, name, k)
    PROVE  Found(list, name) = {list[k]}
<1>1. k \in Nat /\ NameOf(list[k]) = name /\ k \in 1..Len(list)
  BY DEF FirstNamed
<1>2. PICK l \in 1..Len(list) : /\ FirstNamed(list, name, l)
                                /\ Found(list, name) = {list[l]}
  BY <1>1, FoundIs
<1>3. k = l
  BY <1>1, <1>2 DEF FirstNamed
<1> QED BY <1>2, <1>3

LEMMA FoundIsListed ==
    ASSUME NEW list \in Seq(Files), NEW name
    PROVE  /\ Found(list, name) \in SUBSET Files
           /\ \A m \in Found(list, name) :
                 /\ NameOf(m) = name
                 /\ \E k \in 1..Len(list) : list[k] = m /\ FirstNamed(list, name, k)
BY FoundIs DEF FirstNamed

(* Whoever is asked for by certificate, the first of the list answers.     *)
LEMMA FirstAnswers ==
    ASSUME NEW cert, cert # 0, stack \in Seq(Files)
    PROVE  Found(stack, mod_getmod_func(cert)) =
               IF stack = <<>> THEN {} ELSE {stack[1]}
<1> DEFINE I == {k \in 1..Len(stack) :
                   \E n \in Found(stack, Catalogue[stack[k]].name) : Verified(n, cert) # 0}
<1>1. mod_getmod_func(cert) =
          LET i == IF I # {} THEN Min(I) ELSE 0
          IN  IF i = 0 THEN None ELSE Catalogue[stack[i]].name
  BY DEF mod_getmod_func, SelectInSeq
<1>2. \A n : Verified(n, cert) # 0
  BY DEF Verified, Address
<1>3. I = 1..Len(stack)
  <2>1. \A k \in 1..Len(stack) : Found(stack, NameOf(stack[k])) # {}
    BY FoundIs
  <2> QED BY <1>2, <2>1 DEF NameOf
<1>4. CASE stack = <<>>
  <2>1. mod_getmod_func(cert) = None
    BY <1>1, <1>3, <1>4
  <2>2. Found(stack, None) = {}
    <3>1. \A k \in 1..Len(stack) : FALSE
      BY <1>4
    <3> QED BY <3>1, FoundIs
  <2> QED BY <1>4, <2>1, <2>2
<1>5. CASE stack # <<>>
  <2>1. 1 \in 1..Len(stack) /\ I \in SUBSET Nat /\ \A j \in I : 1 <= j
    BY <1>3, <1>5
  <2>2. Min(I) = 1
    BY <1>3, <2>1, MinIs
  <2>3. mod_getmod_func(cert) = NameOf(stack[1])
    BY <1>1, <1>3, <2>1, <2>2 DEF NameOf
  <2>4. FirstNamed(stack, NameOf(stack[1]), 1)
    BY <2>1 DEF FirstNamed
  <2> QED BY <1>5, <2>3, <2>4, FoundFirst
<1> QED BY <1>4, <1>5
-----------------------------------------------------------------------------
(* The inductive invariant.  A module stands once in the directory; what   *)
(* was kept went to the first of the list; and the worker's next post is   *)
(* one of the nine that follow each other.                                 *)
Pointers == {None, "list", "table", "nodes", "request"}
Keeping  == [object : Pointers, process : Pointers, system : Pointers,
             service : BOOLEAN]

SceneTypes ==
    /\ pc \in {"open", "load", "list", "table", "nodes", "serve", "off"}
    /\ stack \in Seq(Files) /\ listing \in Seq(Files)
    /\ fields \in [Files -> Keeping]
    /\ \A m \in Files : m \in DOMAIN got /\ m \in DOMAIN described

OnceListed ==
    /\ \A k, l \in 1..Len(stack) : stack[k] = stack[l] => k = l
    /\ \A k, l \in 1..Len(listing) : listing[k] = listing[l] => k = l
    /\ \A k \in 1..Len(stack), l \in 1..Len(listing) : stack[k] # listing[l]

(* A later namesake gets nothing but the broadcast.                        *)
Hidden ==
    /\ \A m \in Files : m \notin {stack[k] : k \in 1..Len(stack)} => got[m] = {}
    /\ \A k, j \in 1..Len(stack) :
          j < k /\ NameOf(stack[j]) = NameOf(stack[k]) =>
              got[stack[k]] \subseteq {"service"} /\ described[stack[k]] # stack[k]

(* What the messages of main have left: of three, the latest, with the     *)
(* first module of the list, in the field where it keeps it.               *)
Given == CASE pc = "table" -> "list" [] pc \in {"nodes", "serve", "off"} -> "table"
           [] OTHER -> None

GivenTo(m, field) == IF First(m) /\ KeptIn(m) = field THEN Given ELSE None

KeptByTheFirst ==
    /\ \A m \in Files :
          /\ fields[m].object = GivenTo(m, "object")
          /\ fields[m].process = GivenTo(m, "process")
          /\ fields[m].system = IF m = "bcdx" /\ First(m) /\ Asked
                                THEN "nodes" ELSE None
    /\ misread => First("mod0") /\ pc \in {"nodes", "serve", "off"}

(* The posts of a request that are left, and its core meanwhile.           *)
B0 == To("bcdx", "update")
U1 == To("cor0", "update")
U2 == To("cor0", "result")
U3 == To("dbi0", "search")
U4 == To("dbi0", "result")
S0 == To("bcdx", "send")
S1 == To("dbo0", "search")
S2 == To("dbo0", "result")
S3 == To("dbo0", "send")

Begun    == {<<B0, S0>>}
Updating == {<<U1, U2, U3, U4, S0>>, <<U2, U3, U4, S0>>, <<U3, U4, S0>>, <<U4, S0>>}
Sending  == {<<S1, S2, S3>>, <<S2, S3>>, <<S3>>}
Loaded(m) == \E k \in 1..Len(stack) : stack[k] = m

Posting ==
    /\ todo \in {<<>>, <<S0>>} \cup Begun \cup Updating \cup Sending
    /\ todo # <<>> => pc \in {"serve", "off"}
    /\ todo \in Begun => core = None
    /\ todo \in Updating => core = None /\ Loaded("bcdx")
    /\ todo = <<S0>> => ((core = "code") <=> Loaded("bcdx") /\ Loaded("dbi0"))

ModulesInv == SceneTypes /\ OnceListed /\ Hidden /\ KeptByTheFirst /\ Posting

LEMMA ModulesInvFirst ==
    ASSUME ModulesInit
    PROVE  ModulesInv
<1> USE DEF ModulesInit
<1>1. listing \in Seq(Files) /\ IsInjective(listing)
  BY ModulesAssumption
<1>2. \A k, l \in 1..Len(listing) : listing[k] = listing[l] => k = l
  BY <1>1 DEF IsInjective
<1>3. Fresh \in Keeping
  BY DEF Fresh, Keeping, Pointers
<1>4. SceneTypes
  BY <1>1, <1>3 DEF SceneTypes
<1>5. OnceListed /\ Hidden /\ Posting
  BY <1>2 DEF OnceListed, Hidden, Posting, Begun, Updating, Sending
<1>6. KeptByTheFirst
  BY DEF KeptByTheFirst, GivenTo, Given, Fresh, Asked, First
<1> QED BY <1>4, <1>5, <1>6 DEF ModulesInv

(* What a message leaves of the fields of the module it was found for.     *)
LEMMA KeptIs ==
    ASSUME SceneTypes, NEW m \in Files, NEW command, NEW pointer \in Pointers
    PROVE  /\ command \notin {"search", "insert", "service"} =>
                 Kept(m, command, pointer) = fields[m]
           /\ Kept(m, "search", pointer) =
                 CASE KeptIn(m) = "object" -> [fields[m] EXCEPT !.object = pointer]
                   [] KeptIn(m) = "process" -> [fields[m] EXCEPT !.process = pointer]
                   [] OTHER -> fields[m]
           /\ Kept(m, "insert", pointer) =
                 IF m = "bcdx" THEN [fields[m] EXCEPT !.system = pointer] ELSE fields[m]
           /\ \/ Kept(m, "service", pointer) = fields[m]
              \/ Kept(m, "service", pointer) = [fields[m] EXCEPT !.service = TRUE]
           /\ Kept(m, command, pointer) \in Keeping
<1>1. KeptIn(m) \in {"object", "process", None} /\ fields[m] \in Keeping
  BY Names DEF SceneTypes
<1>2. Kept(m, "search", pointer) =
          IF KeptIn(m) = None THEN fields[m]
          ELSE [fields[m] EXCEPT ![KeptIn(m)] = pointer]
  BY DEF Kept, KeptIn
<1>3. Kept(m, "search", pointer) =
                 CASE KeptIn(m) = "object" -> [fields[m] EXCEPT !.object = pointer]
                   [] KeptIn(m) = "process" -> [fields[m] EXCEPT !.process = pointer]
                   [] OTHER -> fields[m]
  BY <1>1, <1>2 DEF None
<1>4. Kept(m, "insert", pointer) =
                 IF m = "bcdx" THEN [fields[m] EXCEPT !.system = pointer] ELSE fields[m]
  BY DEF Kept
<1>5. \/ Kept(m, "service", pointer) = fields[m]
      \/ Kept(m, "service", pointer) = [fields[m] EXCEPT !.service = TRUE]
  BY DEF Kept
<1>6. command \notin {"search", "insert", "service"} =>
          Kept(m, command, pointer) = fields[m]
  BY DEF Kept
<1>7. Kept(m, command, pointer) \in Keeping
  <2>1. /\ [fields[m] EXCEPT !.object = pointer] \in Keeping
        /\ [fields[m] EXCEPT !.process = pointer] \in Keeping
        /\ [fields[m] EXCEPT !.system = pointer] \in Keeping
        /\ [fields[m] EXCEPT !.service = TRUE] \in Keeping
    BY <1>1 DEF Keeping
  <2>2. CASE command = "search"
    BY <1>1, <1>3, <2>1, <2>2
  <2>3. CASE command = "insert"
    BY <1>1, <1>4, <2>1, <2>3
  <2>4. CASE command = "service"
    BY <1>1, <1>5, <2>1, <2>4
  <2>5. CASE command \notin {"search", "insert", "service"}
    BY <1>1, <1>6, <2>5
  <2> QED BY <2>2, <2>3, <2>4, <2>5
<1> QED BY <1>3, <1>4, <1>5, <1>6, <1>7

LEMMA PostTypes ==
    ASSUME SceneTypes, NEW found \in SUBSET Files, NEW command,
           NEW pointer \in Pointers, Post(found, command, pointer)
    PROVE  fields' \in [Files -> Keeping] /\ \A m \in Files : m \in DOMAIN got'
<1>1. /\ \A m \in Files \ found : fields'[m] = fields[m]
      /\ \A m \in found : fields'[m] = Kept(m, command, pointer)
      /\ fields' = [m \in Files |-> fields'[m]] /\ DOMAIN got' = Files
  BY DEF Post
<1>2. \A m \in Files : fields[m] \in Keeping /\ Kept(m, command, pointer) \in Keeping
  BY KeptIs DEF SceneTypes
<1>3. \A m \in Files : fields'[m] \in Keeping
  BY <1>1, <1>2
<1> QED BY <1>1, <1>3

(* A later namesake is not found, so a post leaves it hidden.              *)
LEMMA HiddenNotFound ==
    ASSUME NEW list \in Seq(Files), NEW name,
           \A k, l \in 1..Len(list) : list[k] = list[l] => k = l,
           NEW k \in 1..Len(list), NEW j \in 1..Len(list), j < k,
           NameOf(list[j]) = NameOf(list[k])
    PROVE  list[k] \notin Found(list, name)
<1> SUFFICES ASSUME list[k] \in Found(list, name)
             PROVE  FALSE
  OBVIOUS
<1>1. PICK l \in 1..Len(list) : list[l] = list[k] /\ FirstNamed(list, name, l)
  BY FoundIsListed
<1>2. l = k /\ NameOf(list[j]) = name
  BY <1>1 DEF FirstNamed
<1> QED BY <1>1, <1>2 DEF FirstNamed

LEMMA PostHides ==
    ASSUME ModulesInv, NEW found \in SUBSET Files, NEW command, NEW pointer,
           Post(found, command, pointer), UNCHANGED <<stack, described>>,
           found \subseteq {stack[k] : k \in 1..Len(stack)},
           command = "service" \/ \E name : found = Found(stack, name)
    PROVE  Hidden'
<1>1. /\ \A m \in Files \ found : got'[m] = got[m]
      /\ \A m \in found : got'[m] = got[m] \cup {command}
  BY DEF Post
<1>2. \A m \in Files : m \notin {stack[k] : k \in 1..Len(stack)} => got'[m] = {}
  BY <1>1 DEF ModulesInv, Hidden
<1>3. ASSUME NEW k \in 1..Len(stack), NEW j \in 1..Len(stack), j < k,
             NameOf(stack[j]) = NameOf(stack[k])
      PROVE  got'[stack[k]] \subseteq {"service"} /\ described[stack[k]] # stack[k]
  <2>1. /\ stack[k] \in Files /\ got[stack[k]] \subseteq {"service"}
        /\ described[stack[k]] # stack[k]
    BY <1>3 DEF ModulesInv, SceneTypes, Hidden
  <2>2. CASE stack[k] \notin found
    BY <1>1, <2>1, <2>2
  <2>3. CASE command = "service"
    BY <1>1, <2>1, <2>3
  <2>4. CASE \E name : found = Found(stack, name)
    <3>1. stack \in Seq(Files) /\ \A l, n \in 1..Len(stack) : stack[l] = stack[n] => l = n
      BY DEF ModulesInv, SceneTypes, OnceListed
    <3>2. stack[k] \notin found
      BY <1>3, <2>4, <3>1, HiddenNotFound
    <3> QED BY <2>2, <3>2
  <2> QED BY <2>2, <2>3, <2>4
<1> QED BY <1>2, <1>3 DEF Hidden

(* Steps that leave the list, its fields and the posts alone.              *)
LEMMA QuietKeeps ==
    ASSUME ModulesInv, UNCHANGED <<listing, stack, described, fields, got, todo, core>>,
           \/ pc' = pc \/ (pc = "open" /\ pc' = "load") \/ (pc = "load" /\ pc' = "list"),
           misread' => misread \/ (fields["mod0"].object \notin {None, "list"})
    PROVE  ModulesInv'
<1>1. SceneTypes' /\ OnceListed' /\ Hidden'
  BY DEF ModulesInv, SceneTypes, OnceListed, Hidden
<1>2. Given' = Given /\ Asked' = Asked /\ \A m : First(m)' = First(m)
  BY DEF Given, Asked, First
<1>3. misread' => First("mod0") /\ pc' \in {"nodes", "serve", "off"}
  <2>1. "mod0" \in Files
    BY Names DEF FileNames
  <2>2. fields["mod0"].object = GivenTo("mod0", "object")
    BY <2>1 DEF ModulesInv, KeptByTheFirst
  <2>3. misread => First("mod0") /\ pc \in {"nodes", "serve", "off"}
    BY DEF ModulesInv, KeptByTheFirst
  <2> QED BY <2>2, <2>3 DEF GivenTo, Given
<1>4. KeptByTheFirst'
  BY <1>2, <1>3 DEF ModulesInv, KeptByTheFirst, GivenTo
<1>5. Posting'
  BY DEF ModulesInv, Posting, Loaded
<1> QED BY <1>1, <1>4, <1>5 DEF ModulesInv

(* A module is loaded.                                                     *)
LEMMA LoadKeeps ==
    ASSUME ModulesInv, pc = "load", pc' = pc, listing # <<>>,
           NEW m, m = Head(listing), listing' = Tail(listing),
           stack' = Append(stack, m), NEW shown,
           shown = Found(Append(stack, m), NameOf(m)),
           described' = [described EXCEPT ![m] = CHOOSE n \in shown : TRUE],
           Post(shown, "desc", None), UNCHANGED <<todo, core, misread>>
    PROVE  ModulesInv'
<1>1. /\ stack \in Seq(Files) /\ listing \in Seq(Files) /\ Len(listing) \in Nat
      /\ 1 \in 1..Len(listing) /\ m = listing[1] /\ m \in Files
      /\ listing' \in Seq(Files) /\ Len(listing') = Len(listing) - 1
      /\ \A k \in 1..Len(listing') : listing'[k] = listing[k + 1]
  BY DEF ModulesInv, SceneTypes
<1>2. PICK now \in Seq(Files) : now = Append(stack, m)
  <2>1. stack \in Seq(Files) /\ m \in Files
    BY <1>1
  <2>2. Append(stack, m) \in Seq(Files)
    BY <2>1, AppendProperties
  <2> QED BY <2>2
<1>3. /\ stack' = now /\ Len(stack) \in Nat /\ Len(now) = Len(stack) + 1
      /\ now[Len(stack) + 1] = m
      /\ \A k \in 1..Len(stack) : now[k] = stack[k]
      /\ \A k \in 1..Len(now) : k \in 1..Len(stack) \/ k = Len(stack) + 1
  BY <1>1, <1>2, AppendProperties
<1>4. \A k \in 1..Len(stack) : stack[k] # m
  BY <1>1 DEF ModulesInv, OnceListed
<1>5. \A k, l \in 1..Len(now) : now[k] = now[l] => k = l
  BY <1>3, <1>4 DEF ModulesInv, OnceListed
<1>6. OnceListed'
  <2>1. \A k, l \in 1..Len(listing') : listing'[k] = listing'[l] => k = l
    BY <1>1 DEF ModulesInv, OnceListed
  <2>2. ASSUME NEW k \in 1..Len(now), NEW l \in 1..Len(listing')
        PROVE  now[k] # listing'[l]
    <3>1. l + 1 \in 1..Len(listing) /\ listing'[l] = listing[l + 1]
      BY <1>1
    <3>2. CASE k \in 1..Len(stack)
      BY <1>3, <3>1, <3>2 DEF ModulesInv, OnceListed
    <3>3. CASE k = Len(stack) + 1
      BY <1>1, <1>3, <3>1, <3>3 DEF ModulesInv, OnceListed
    <3> QED BY <1>3, <3>2, <3>3
  <2> QED BY <1>3, <1>5, <2>1, <2>2 DEF OnceListed
<1>7. shown = Found(now, NameOf(m))
  BY <1>2
<1>8. /\ shown \in SUBSET Files
      /\ \A n \in shown : \E k \in 1..Len(now) : now[k] = n
  BY <1>7, FoundIsListed
<1>9. SceneTypes /\ None \in Pointers
  BY DEF ModulesInv, Pointers
<1>10. /\ fields' \in [Files -> Keeping] /\ \A n \in Files : fields'[n] = fields[n]
       /\ \A n \in Files \ shown : got'[n] = got[n]
       /\ \A n \in Files : n \in DOMAIN got'
  <2>1. \A n \in Files : Kept(n, "desc", None) = fields[n]
    BY DEF Kept
  <2>2. fields' = [n \in Files |-> IF n \in shown THEN Kept(n, "desc", None) ELSE fields[n]]
    BY DEF Post
  <2>3. fields' = [n \in Files |-> fields[n]]
    BY <2>1, <2>2
  <2> QED BY <1>9, <2>3 DEF SceneTypes, Post
<1>11. SceneTypes'
  BY <1>1, <1>3, <1>10 DEF ModulesInv, SceneTypes
<1>12. \A n \in Files : n \notin {now[k] : k \in 1..Len(now)} => got'[n] = {}
  <2> SUFFICES ASSUME NEW n \in Files, n \notin {now[k] : k \in 1..Len(now)}
               PROVE  got'[n] = {}
    OBVIOUS
  <2>1. n \notin shown
    BY <1>8
  <2>2. n \notin {stack[k] : k \in 1..Len(stack)}
    BY <1>3
  <2> QED BY <1>10, <2>1, <2>2 DEF ModulesInv, Hidden
<1>13. ASSUME NEW k \in 1..Len(now), NEW j \in 1..Len(now), j < k,
              NameOf(now[j]) = NameOf(now[k])
       PROVE  got'[now[k]] \subseteq {"service"} /\ described'[now[k]] # now[k]
  <2>1. now[k] \notin Found(now, NameOf(m))
    BY <1>5, <1>13, HiddenNotFound
  <2>2. now[k] \notin shown /\ now[k] \in Files /\ j \in 1..Len(stack)
    BY <1>2, <1>3, <1>7, <1>13, <2>1
  <2>3. CASE k \in 1..Len(stack)
    <3>1. now[k] = stack[k] /\ now[j] = stack[j] /\ stack[k] # m
      BY <1>3, <1>4, <2>2, <2>3
    <3>2. described'[stack[k]] = described[stack[k]] /\ got'[stack[k]] = got[stack[k]]
      BY <1>10, <2>2, <3>1 DEF ModulesInv, SceneTypes
    <3> QED BY <1>13, <2>2, <2>3, <3>1, <3>2 DEF ModulesInv, Hidden
  <2>4. CASE k = Len(stack) + 1
    <3>1. now[k] = m
      BY <1>3, <2>4
    <3>2. shown # {}
      <4>1. \/ \A l \in 1..Len(now) : NameOf(now[l]) # NameOf(m)
            \/ \E l \in 1..Len(now) : Found(now, NameOf(m)) = {now[l]}
        BY FoundIs
      <4> QED BY <1>7, <3>1, <4>1
    <3>3. (CHOOSE n \in shown : TRUE) \in shown
      BY <3>2
    <3>4. described'[m] \in shown
      BY <1>1, <3>3 DEF ModulesInv, SceneTypes
    <3>5. m \notin {stack[l] : l \in 1..Len(stack)}
      BY <1>4
    <3>6. got'[m] = {}
      BY <1>1, <1>10, <2>2, <3>1, <3>5 DEF ModulesInv, Hidden
    <3> QED BY <2>2, <3>1, <3>4, <3>6
  <2> QED BY <1>3, <2>3, <2>4
<1>14. Hidden'
  <2>1. \A k, j \in 1..Len(now) :
            j < k /\ NameOf(now[j]) = NameOf(now[k]) =>
                got'[now[k]] \subseteq {"service"} /\ described'[now[k]] # now[k]
    BY <1>13
  <2>2. stack' = now
    BY <1>3
  <2>3. \A n \in Files : n \notin {stack'[k] : k \in 1..Len(stack')} => got'[n] = {}
    BY <1>12, <2>2
  <2>4. \A k, j \in 1..Len(stack') :
            j < k /\ NameOf(stack'[j]) = NameOf(stack'[k]) =>
                /\ got'[stack'[k]] \subseteq {"service"}
                /\ described'[stack'[k]] # stack'[k]
    BY <2>1, <2>2
  <2> QED BY <2>3, <2>4, Zenon DEF Hidden
<1>15. KeptByTheFirst'
  <2>1. ~misread /\ Given = None /\ Given' = None /\ ~Asked /\ ~Asked'
    BY DEF ModulesInv, KeptByTheFirst, Given, Asked
  <2> QED BY <1>10, <2>1 DEF ModulesInv, KeptByTheFirst, GivenTo
<1>16. Posting'
  <2>1. todo = <<>>
    BY DEF ModulesInv, Posting
  <2> QED BY <2>1 DEF Posting, Begun, Updating, Sending
<1> QED BY <1>6, <1>11, <1>14, <1>15, <1>16 DEF ModulesInv

(* A message of main, which the first module of the list is found for.     *)
LEMMA AskGives ==
    ASSUME ModulesInv, NEW cert, cert # 0, NEW command, NEW pointer,
           command \in {"search", "insert"}, pointer \in Pointers,
           Post(Found(stack, mod_getmod_func(cert)), command, pointer),
           pc \in {"list", "table", "nodes"}, pc' \in {"table", "nodes", "serve"},
           UNCHANGED <<listing, stack, described, todo, core>>
    PROVE  /\ SceneTypes' /\ OnceListed' /\ Hidden' /\ Posting'
           /\ \A m \in Files : fields'[m] = IF First(m) THEN Kept(m, command, pointer)
                                            ELSE fields[m]
<1> DEFINE found == Found(stack, mod_getmod_func(cert))
<1>1. SceneTypes /\ stack \in Seq(Files)
  BY DEF ModulesInv, SceneTypes
<1>2. found = IF stack = <<>> THEN {} ELSE {stack[1]}
  BY <1>1, FirstAnswers
<1>3. /\ found \in SUBSET Files /\ found \subseteq {stack[k] : k \in 1..Len(stack)}
      /\ \A m : m \in found <=> First(m)
  BY <1>1, <1>2 DEF First
<1>4. \E name : found = Found(stack, name)
  OBVIOUS
<1> HIDE DEF found
<1>5. Post(found, command, pointer)
  BY DEF found
<1>6. Hidden'
  BY <1>3, <1>4, <1>5, PostHides
<1>7. fields' \in [Files -> Keeping] /\ \A m \in Files : m \in DOMAIN got'
  BY <1>1, <1>3, <1>5, PostTypes
<1>8. SceneTypes' /\ OnceListed'
  BY <1>7 DEF ModulesInv, SceneTypes, OnceListed
<1>9. Posting'
  <2>1. todo = <<>>
    BY DEF ModulesInv, Posting
  <2> QED BY <2>1 DEF Posting, Begun, Updating, Sending
<1>10. \A m \in Files : fields'[m] = IF First(m) THEN Kept(m, command, pointer)
                                     ELSE fields[m]
  BY <1>3, <1>5 DEF Post
<1> QED BY <1>6, <1>8, <1>9, <1>10

(* The pointer is then where KeptByTheFirst says: with the first module of *)
(* the list, if that keeps it.                                             *)
LEMMA SearchKeeps ==
    ASSUME ModulesInv, NEW cert, cert # 0, NEW pointer,
           Post(Found(stack, mod_getmod_func(cert)), "search", pointer),
           \/ pc = "list" /\ pc' = "table" /\ pointer = "list"
           \/ pc = "table" /\ pc' = "nodes" /\ pointer = "table",
           UNCHANGED <<listing, stack, described, todo, core, misread>>
    PROVE  ModulesInv'
<1>1. pointer \in Pointers /\ SceneTypes
  BY DEF ModulesInv, Pointers
<1>2. /\ SceneTypes' /\ OnceListed' /\ Hidden' /\ Posting'
      /\ \A m \in Files : fields'[m] = IF First(m) THEN Kept(m, "search", pointer)
                                       ELSE fields[m]
  BY <1>1, AskGives
<1>3. /\ Given' = pointer /\ ~Asked /\ ~Asked' /\ ~misread
      /\ \A m : First(m)' = First(m)
  BY DEF ModulesInv, KeptByTheFirst, Given, Asked, First
<1>4. ASSUME NEW m \in Files
      PROVE  /\ fields'[m].object = IF First(m) /\ KeptIn(m) = "object" THEN pointer ELSE None
             /\ fields'[m].process = IF First(m) /\ KeptIn(m) = "process" THEN pointer ELSE None
             /\ fields'[m].system = None
  <2>1. /\ fields[m] \in Keeping
        /\ fields[m].object = GivenTo(m, "object")
        /\ fields[m].process = GivenTo(m, "process")
        /\ fields[m].system = None
    BY <1>1, <1>3 DEF SceneTypes, ModulesInv, KeptByTheFirst
  <2>2. Kept(m, "search", pointer) =
            CASE KeptIn(m) = "object" -> [fields[m] EXCEPT !.object = pointer]
              [] KeptIn(m) = "process" -> [fields[m] EXCEPT !.process = pointer]
              [] OTHER -> fields[m]
    BY <1>1, KeptIs
  <2>3. KeptIn(m) \in {"object", "process", None}
    BY Names
  <2>4. CASE ~First(m)
    BY <1>2, <2>1, <2>4 DEF GivenTo
  <2>5. CASE First(m) /\ KeptIn(m) = "object"
    BY <1>2, <2>1, <2>2, <2>5 DEF GivenTo, Keeping
  <2>6. CASE First(m) /\ KeptIn(m) = "process"
    BY <1>2, <2>1, <2>2, <2>6 DEF GivenTo, Keeping
  <2>7. CASE First(m) /\ KeptIn(m) = None
    BY <1>2, <2>1, <2>2, <2>7 DEF GivenTo, None
  <2> QED BY <2>3, <2>4, <2>5, <2>6, <2>7
<1>5. KeptByTheFirst'
  BY <1>3, <1>4 DEF KeptByTheFirst, GivenTo
<1> QED BY <1>2, <1>5 DEF ModulesInv

LEMMA InsertKeeps ==
    ASSUME ModulesInv, NEW cert, cert # 0, pc = "nodes", pc' = "serve",
           Post(Found(stack, mod_getmod_func(cert)), "insert", "nodes"),
           UNCHANGED <<listing, stack, described, todo, core, misread>>
    PROVE  ModulesInv'
<1>1. "nodes" \in Pointers /\ SceneTypes
  BY DEF ModulesInv, Pointers
<1>2. /\ SceneTypes' /\ OnceListed' /\ Hidden' /\ Posting'
      /\ \A m \in Files : fields'[m] = IF First(m) THEN Kept(m, "insert", "nodes")
                                       ELSE fields[m]
  BY <1>1, AskGives
<1>3. /\ Given = "table" /\ Given' = "table" /\ ~Asked /\ Asked'
      /\ \A m : First(m)' = First(m)
      /\ misread => First("mod0")
  BY DEF ModulesInv, KeptByTheFirst, Given, Asked, First
<1>4. ASSUME NEW m \in Files
      PROVE  /\ fields'[m].object = GivenTo(m, "object")
             /\ fields'[m].process = GivenTo(m, "process")
             /\ fields'[m].system = IF m = "bcdx" /\ First(m) THEN "nodes" ELSE None
  <2>1. /\ fields[m] \in Keeping
        /\ fields[m].object = GivenTo(m, "object")
        /\ fields[m].process = GivenTo(m, "process")
        /\ fields[m].system = None
    BY <1>1, <1>3 DEF SceneTypes, ModulesInv, KeptByTheFirst
  <2>2. Kept(m, "insert", "nodes") =
            IF m = "bcdx" THEN [fields[m] EXCEPT !.system = "nodes"] ELSE fields[m]
    BY <1>1, KeptIs
  <2> QED BY <1>2, <2>1, <2>2 DEF Keeping
<1>5. KeptByTheFirst'
  BY <1>3, <1>4 DEF KeptByTheFirst, GivenTo
<1> QED BY <1>2, <1>5 DEF ModulesInv

(* The broadcast changes service alone.                                    *)
LEMMA DisableKeeps ==
    ASSUME ModulesInv, pc = "serve", pc' = "off",
           Post(ToSet(stack), "service", None),
           UNCHANGED <<listing, stack, described, todo, core, misread>>
    PROVE  ModulesInv'
<1> DEFINE found == ToSet(stack)
<1>1. SceneTypes /\ None \in Pointers
  BY DEF ModulesInv, Pointers
<1>2. found \in SUBSET Files /\ found \subseteq {stack[k] : k \in 1..Len(stack)}
  BY <1>1 DEF SceneTypes, ToSet
<1> HIDE DEF found
<1>3. Post(found, "service", None)
  BY DEF found
<1>4. Hidden'
  BY <1>2, <1>3, PostHides
<1>5. fields' \in [Files -> Keeping] /\ \A m \in Files : m \in DOMAIN got'
  BY <1>1, <1>2, <1>3, PostTypes
<1>6. SceneTypes' /\ OnceListed'
  BY <1>5 DEF ModulesInv, SceneTypes, OnceListed
<1>7. Posting'
  BY DEF ModulesInv, Posting, Loaded
<1>8. \A m \in Files : /\ fields'[m].object = fields[m].object
                       /\ fields'[m].process = fields[m].process
                       /\ fields'[m].system = fields[m].system
  <2> SUFFICES ASSUME NEW m \in Files
               PROVE  /\ fields'[m].object = fields[m].object
                      /\ fields'[m].process = fields[m].process
                      /\ fields'[m].system = fields[m].system
    OBVIOUS
  <2>1. fields[m] \in Keeping
    BY <1>1 DEF SceneTypes
  <2>2. \/ Kept(m, "service", None) = fields[m]
        \/ Kept(m, "service", None) = [fields[m] EXCEPT !.service = TRUE]
    BY <1>1, KeptIs
  <2>3. fields'[m] = fields[m] \/ fields'[m] = Kept(m, "service", None)
    BY <1>3 DEF Post
  <2> QED BY <2>1, <2>2, <2>3 DEF Keeping
<1>9. /\ Given' = Given /\ Asked /\ Asked' /\ \A m : First(m)' = First(m)
      /\ misread => First("mod0")
  BY DEF ModulesInv, KeptByTheFirst, Given, Asked, First
<1>10. KeptByTheFirst'
  BY <1>8, <1>9 DEF ModulesInv, KeptByTheFirst, GivenTo
<1> QED BY <1>4, <1>6, <1>7, <1>10 DEF ModulesInv
-----------------------------------------------------------------------------
(* A name that is only one module's finds it wherever it is.               *)
LEMMA OwnNameFinds ==
    ASSUME stack \in Seq(Files), NEW n \in {"bcdx", "cor0", "dbi0", "dbo0"}
    PROVE  Found(stack, n) = IF Loaded(n) THEN {n} ELSE {}
<1>1. \A k \in 1..Len(stack) : NameOf(stack[k]) = n <=> stack[k] = n
  BY NamesAreOwn
<1>2. \/ /\ Found(stack, n) = {}
         /\ \A j \in 1..Len(stack) : NameOf(stack[j]) # n
      \/ \E k \in 1..Len(stack) : FirstNamed(stack, n, k) /\ Found(stack, n) = {stack[k]}
  BY FoundIs
<1> QED BY <1>1, <1>2 DEF FirstNamed, Loaded

(* The posts' addresses, and the lists one post after another.             *)
LEMMA Addressed ==
    /\ B0.name = "bcdx" /\ B0.command = "update"
    /\ U1.name = "cor0" /\ U1.command = "update"
    /\ U2.name = "cor0" /\ U2.command = "result"
    /\ U3.name = "dbi0" /\ U3.command = "search"
    /\ U4.name = "dbi0" /\ U4.command = "result"
    /\ S0.name = "bcdx" /\ S0.command = "send"
    /\ S1.name = "dbo0" /\ S1.command = "search"
    /\ S2.name = "dbo0" /\ S2.command = "result"
    /\ S3.name = "dbo0" /\ S3.command = "send"
BY DEF B0, U1, U2, U3, U4, S0, S1, S2, S3, To

LEMMA PostsJoined ==
    /\ <<U1, U2, U3, U4>> \o Tail(<<B0, S0>>) = <<U1, U2, U3, U4, S0>>
    /\ <<S1, S2, S3>> \o Tail(<<S0>>) = <<S1, S2, S3>>
<1> DEFINE S == {B0, U1, U2, U3, U4, S0, S1, S2, S3}
<1>1. Tail(<<B0, S0>>) = <<S0>> /\ Tail(<<S0>>) = <<>>
  OBVIOUS
<1>2. <<U1, U2, U3, U4>> \o <<S0>> = <<U1, U2, U3, U4, S0>>
  <2>1. PICK s \in Seq(S) : s = <<U1, U2, U3, U4>>
    <3>1. <<U1, U2, U3, U4>> \in Seq(S)
      OBVIOUS
    <3> QED BY <3>1
  <2>2. PICK t \in Seq(S) : t = <<S0>>
    <3>1. <<S0>> \in Seq(S)
      OBVIOUS
    <3> QED BY <3>1
  <2>3. PICK u \in Seq(S) : u = <<U1, U2, U3, U4, S0>>
    <3>1. <<U1, U2, U3, U4, S0>> \in Seq(S)
      OBVIOUS
    <3> QED BY <3>1
  <2>4. /\ Len(s) = 4 /\ Len(t) = 1 /\ Len(u) = 5
        /\ s[1] = U1 /\ s[2] = U2 /\ s[3] = U3 /\ s[4] = U4 /\ t[1] = S0
        /\ u[1] = U1 /\ u[2] = U2 /\ u[3] = U3 /\ u[4] = U4 /\ u[5] = S0
    BY <2>1, <2>2, <2>3
  <2> HIDE DEF S
  <2>5. /\ s \o t \in Seq(S) /\ Len(s \o t) = Len(s) + Len(t)
        /\ \A i \in 1..Len(s) + Len(t) :
              (s \o t)[i] = IF i <= Len(s) THEN s[i] ELSE t[i - Len(s)]
    BY Joined
  <2>6. \A i \in 1..5 : (s \o t)[i] = u[i]
    BY <2>4, <2>5
  <2>7. Len(s \o t) = Len(u) /\ \A i \in 1..Len(s \o t) : (s \o t)[i] = u[i]
    BY <2>4, <2>5, <2>6
  <2>8. s \o t = u
    BY <2>5, <2>7, SeqEqual
  <2> QED BY <2>1, <2>2, <2>3, <2>8
<1>3. <<S1, S2, S3>> \o <<>> = <<S1, S2, S3>>
  <2>1. <<S1, S2, S3>> \in Seq(S)
    OBVIOUS
  <2> QED BY <2>1, ConcatEmptySeq
<1> QED BY <1>1, <1>2, <1>3

LEMMA Classes ==
    /\ <<>> \notin Begun \cup Updating /\ <<S0>> \notin Begun \cup Updating
    /\ <<S0>> # <<>>
    /\ \A t \in Begun : t # <<S0>> /\ t # <<>> /\ t \notin Updating
    /\ \A t \in Updating : t # <<S0>> /\ t # <<>> /\ t \notin Begun
    /\ \A t \in Sending : t # <<S0>> /\ t # <<>> /\ t \notin Begun \cup Updating
<1>1. /\ U1 # S0 /\ U1 # B0 /\ U2 # B0 /\ U3 # B0 /\ U4 # B0 /\ U4 # S0
      /\ S1 # B0 /\ S2 # B0 /\ S3 # B0 /\ S3 # S0 /\ S2 # U4 /\ S1 # U3 /\ S1 # S0
  BY Addressed
<1>2. /\ \A a, b, c, d : <<a, b>> = <<c, d>> => a = c
      /\ \A a, b, c, d, e, f : <<a, b, c>> = <<d, e, f>> => a = d
      /\ \A a, b : <<a>> = <<b>> => a = b
  OBVIOUS
<1> QED BY <1>1, <1>2 DEF Begun, Updating, Sending

LEMMA Following ==
    /\ \A t \in Begun : /\ Head(t) = B0 /\ <<>> \o Tail(t) = <<S0>>
                        /\ UpdatePosts \o Tail(t) \in Updating
    /\ \A t \in Updating :
          \/ Head(t) \in {U1, U2, U3} /\ <<>> \o Tail(t) \in Updating
          \/ Head(t) = U4 /\ <<>> \o Tail(t) = <<S0>>
    /\ Head(<<S0>>) = S0 /\ <<>> \o Tail(<<S0>>) = <<>>
    /\ SendPosts \o Tail(<<S0>>) \in Sending
    /\ \A t \in Sending :
          Head(t) \in {S1, S2, S3} /\ <<>> \o Tail(t) \in Sending \cup {<<>>}
<1>1. UpdatePosts = <<U1, U2, U3, U4>> /\ SendPosts = <<S1, S2, S3>>
  BY DEF UpdatePosts, SendPosts, U1, U2, U3, U4, S1, S2, S3
<1>2. \A t \in Begun : /\ Head(t) = B0 /\ <<>> \o Tail(t) = <<S0>>
                       /\ UpdatePosts \o Tail(t) \in Updating
  <2>1. Head(<<B0, S0>>) = B0 /\ <<>> \o Tail(<<B0, S0>>) = <<S0>>
    OBVIOUS
  <2>2. UpdatePosts \o Tail(<<B0, S0>>) = <<U1, U2, U3, U4, S0>>
    <3>1. <<U1, U2, U3, U4>> \o Tail(<<B0, S0>>) = <<U1, U2, U3, U4, S0>>
      BY PostsJoined
    <3> QED BY <1>1, <3>1
  <2> QED BY <2>1, <2>2, Zenon DEF Begun, Updating
<1>3. \A t \in Updating :
          \/ Head(t) \in {U1, U2, U3} /\ <<>> \o Tail(t) \in Updating
          \/ Head(t) = U4 /\ <<>> \o Tail(t) = <<S0>>
  <2>1. /\ Head(<<U1, U2, U3, U4, S0>>) = U1
        /\ <<>> \o Tail(<<U1, U2, U3, U4, S0>>) = <<U2, U3, U4, S0>>
    OBVIOUS
  <2>2. /\ Head(<<U2, U3, U4, S0>>) = U2
        /\ <<>> \o Tail(<<U2, U3, U4, S0>>) = <<U3, U4, S0>>
    OBVIOUS
  <2>3. Head(<<U3, U4, S0>>) = U3 /\ <<>> \o Tail(<<U3, U4, S0>>) = <<U4, S0>>
    OBVIOUS
  <2>4. Head(<<U4, S0>>) = U4 /\ <<>> \o Tail(<<U4, S0>>) = <<S0>>
    OBVIOUS
  <2> QED BY <2>1, <2>2, <2>3, <2>4, Zenon DEF Updating
<1>4. /\ Head(<<S0>>) = S0 /\ <<>> \o Tail(<<S0>>) = <<>>
      /\ SendPosts \o Tail(<<S0>>) \in Sending
  <2>1. SendPosts \o Tail(<<S0>>) = <<S1, S2, S3>>
    BY <1>1, PostsJoined
  <2>2. Head(<<S0>>) = S0 /\ <<>> \o Tail(<<S0>>) = <<>>
    OBVIOUS
  <2> QED BY <2>1, <2>2, Zenon DEF Sending
<1>5. \A t \in Sending :
          Head(t) \in {S1, S2, S3} /\ <<>> \o Tail(t) \in Sending \cup {<<>>}
  <2>1. Head(<<S1, S2, S3>>) = S1 /\ <<>> \o Tail(<<S1, S2, S3>>) = <<S2, S3>>
    OBVIOUS
  <2>2. Head(<<S2, S3>>) = S2 /\ <<>> \o Tail(<<S2, S3>>) = <<S3>>
    OBVIOUS
  <2>3. Head(<<S3>>) = S3 /\ <<>> \o Tail(<<S3>>) = <<>>
    OBVIOUS
  <2> QED BY <2>1, <2>2, <2>3, Zenon DEF Sending
<1> QED BY <1>2, <1>3, <1>4, <1>5

(* The worker's next post.                                                 *)
LEMMA PostingGoesOn ==
    ASSUME ModulesInv, NEW post, NEW found, post = Head(todo), todo # <<>>,
           found = Found(stack, post.name),
           todo' = PostOn(found, post.command) \o Tail(todo),
           core' = IF Completes(found, post.command) THEN "code" ELSE core,
           UNCHANGED <<stack, pc>>
    PROVE  Posting'
<1>1. /\ stack \in Seq(Files) /\ pc \in {"serve", "off"}
      /\ todo \in {<<S0>>} \cup Begun \cup Updating \cup Sending
  BY DEF ModulesInv, SceneTypes, Posting
<1>2. pc' \in {"serve", "off"} /\ \A n : Loaded(n)' = Loaded(n)
  BY <1>1 DEF Loaded
<1>3. ASSUME NEW n \in {"bcdx", "cor0", "dbi0", "dbo0"}, post.name = n
      PROVE  found = IF Loaded(n) THEN {n} ELSE {}
  BY <1>1, <1>3, OwnNameFinds
<1>4. ASSUME NEW n \in {"cor0", "dbi0", "dbo0"}, post.name = n
      PROVE  PostOn(found, post.command) = <<>>
  <2>1. found = {n} \/ found = {}
    BY <1>3, <1>4
  <2>2. ~Handles(found)
    BY <2>1 DEF Handles
  <2> QED BY <2>2 DEF PostOn
<1>5. CASE todo \in Begun
  <2>1. /\ post = B0 /\ <<>> \o Tail(todo) = <<S0>> /\ core = None
        /\ UpdatePosts \o Tail(todo) \in Updating
    BY <1>5, Following DEF ModulesInv, Posting
  <2>2. /\ post.command = "update"
        /\ found = IF Loaded("bcdx") THEN {"bcdx"} ELSE {}
    BY <1>3, <2>1, Addressed
  <2>3. core' = None
    BY <2>1, <2>2 DEF Completes
  <2>4. CASE Loaded("bcdx")
    <3>1. todo' \in Updating
      BY <2>1, <2>2, <2>4 DEF PostOn, Handles
    <3> QED BY <1>2, <2>3, <2>4, <3>1, Classes DEF Posting
  <2>5. CASE ~Loaded("bcdx")
    <3>1. todo' = <<S0>>
      <4>1. ~Handles(found)
        BY <2>2, <2>5 DEF Handles
      <4> QED BY <2>1, <4>1 DEF PostOn
    <3>2. core' # "code"
      BY <2>3 DEF None
    <3> QED BY <1>2, <2>5, <3>1, <3>2, Classes DEF Posting
  <2> QED BY <2>4, <2>5
<1>6. CASE todo \in Updating
  <2>1. core = None /\ Loaded("bcdx")
    BY <1>6 DEF ModulesInv, Posting
  <2>2. \/ post \in {U1, U2, U3} /\ <<>> \o Tail(todo) \in Updating
        \/ post = U4 /\ <<>> \o Tail(todo) = <<S0>>
    BY <1>6, Following
  <2>3. todo' = <<>> \o Tail(todo)
    BY <1>4, <2>2, Addressed
  <2>4. CASE post \in {U1, U2, U3} /\ todo' \in Updating
    <3>1. ~Completes(found, post.command)
      <4>1. CASE post = U2
        <5>1. found \in {{"cor0"}, {}}
          BY <1>3, <4>1, Addressed
        <5> QED BY <5>1 DEF Completes
      <4>2. CASE post \in {U1, U3}
        BY <4>2, Addressed DEF Completes
      <4> QED BY <2>4, <4>1, <4>2
    <3>2. core' = None
      BY <2>1, <3>1
    <3> QED BY <1>2, <2>1, <2>4, <3>2, Classes DEF Posting
  <2>5. CASE post = U4 /\ todo' = <<S0>>
    <3>1. /\ post.command = "result"
          /\ found = IF Loaded("dbi0") THEN {"dbi0"} ELSE {}
      BY <1>3, <2>5, Addressed
    <3>2. core' = "code" <=> Loaded("dbi0")
      BY <2>1, <3>1 DEF Completes, None
    <3> QED BY <1>2, <2>1, <2>5, <3>2, Classes DEF Posting
  <2> QED BY <2>2, <2>3, <2>4, <2>5
<1>7. CASE todo = <<S0>>
  <2>1. /\ post = S0 /\ <<>> \o Tail(todo) = <<>>
        /\ SendPosts \o Tail(todo) \in Sending
    BY <1>7, Following
  <2>2. post.command = "send"
    BY <2>1, Addressed
  <2>3. todo' \in Sending \cup {<<>>}
    BY <2>1, <2>2 DEF PostOn
  <2> QED BY <1>2, <2>3, Classes DEF Posting
<1>8. CASE todo \in Sending
  <2>1. post \in {S1, S2, S3} /\ <<>> \o Tail(todo) \in Sending \cup {<<>>}
    BY <1>8, Following
  <2>2. todo' \in Sending \cup {<<>>}
    BY <1>4, <2>1, Addressed
  <2> QED BY <1>2, <2>2, Classes DEF Posting
<1> QED BY <1>1, <1>5, <1>6, <1>7, <1>8

(* A request's posts leave every pointer alone: STACK_SEARCH goes to dbi0  *)
(* and dbo0 only, which keep none.                                         *)
LEMMA PostKeeps ==
    ASSUME ModulesInv, PostNext
    PROVE  ModulesInv'
<1> DEFINE post  == Head(todo)
           found == Found(stack, post.name)
<1>1. /\ todo # <<>> /\ Post(found, post.command, "request")
      /\ todo' = PostOn(found, post.command) \o Tail(todo)
      /\ core' = IF Completes(found, post.command) THEN "code" ELSE core
      /\ UNCHANGED <<listing, pc, stack, described, misread>>
  BY DEF PostNext
<1>2. SceneTypes /\ "request" \in Pointers /\ stack \in Seq(Files)
  BY DEF ModulesInv, SceneTypes, Pointers
<1>3. \/ post.command \in {"update", "send", "result"}
      \/ post.command = "search" /\ post.name \in {"dbi0", "dbo0"}
  <2>1. todo \in {<<S0>>} \cup Begun \cup Updating \cup Sending
    BY <1>1 DEF ModulesInv, Posting
  <2>2. Head(todo) \in {B0, U1, U2, U3, U4, S0, S1, S2, S3}
    BY <2>1, Following
  <2> QED BY <2>2, Addressed
<1>4. /\ found \in SUBSET Files /\ found \subseteq {stack[k] : k \in 1..Len(stack)}
      /\ \E name : found = Found(stack, name)
      /\ \A m \in found : NameOf(m) = post.name
  BY <1>2, FoundIsListed
<1>5. Posting'
  BY <1>1, PostingGoesOn
<1> HIDE DEF found, post
<1>6. Hidden'
  BY <1>1, <1>4, PostHides
<1>7. \A m \in Files : fields'[m] = fields[m]
  <2>1. \A m \in found : Kept(m, post.command, "request") = fields[m]
    <3> SUFFICES ASSUME NEW m \in found
                 PROVE  Kept(m, post.command, "request") = fields[m]
      OBVIOUS
    <3>1. m \in Files /\ NameOf(m) = post.name
      BY <1>4
    <3>2. CASE post.command \in {"update", "send", "result"}
      BY <3>2 DEF Kept
    <3>3. CASE post.command = "search" /\ post.name \in {"dbi0", "dbo0"}
      <4>1. m \in {"dbi0", "dbo0"}
        BY <3>1, <3>3, NamesAreOwn
      <4>2. KeptIn(m) = None
        BY <3>1, <4>1, Names DEF Keepers
      <4> QED BY <3>3, <4>1, <4>2 DEF Kept, KeptIn
    <3> QED BY <1>3, <3>2, <3>3
  <2> QED BY <1>1, <2>1 DEF Post
<1>8. fields' \in [Files -> Keeping] /\ \A m \in Files : m \in DOMAIN got'
  BY <1>1, <1>2, <1>4, PostTypes
<1>9. SceneTypes' /\ OnceListed'
  BY <1>1, <1>8 DEF ModulesInv, SceneTypes, OnceListed
<1>10. KeptByTheFirst'
  <2>1. Given' = Given /\ Asked' = Asked /\ \A m : First(m)' = First(m)
    BY <1>1 DEF Given, Asked, First
  <2> QED BY <1>1, <1>7, <2>1 DEF ModulesInv, KeptByTheFirst, GivenTo
<1> QED BY <1>5, <1>6, <1>9, <1>10 DEF ModulesInv
-----------------------------------------------------------------------------
LEMMA ModulesInvKept ==
    ASSUME ModulesInv, [ModulesNext]_scene
    PROVE  ModulesInv'
<1>1. CASE OpenDirectory
  BY <1>1, QuietKeeps DEF OpenDirectory, find_init, worker
<1>2. CASE Load
  <2> DEFINE m == Head(listing)
             shown == Found(Append(stack, m), Catalogue[m].name)
  <2>1. pc = "load" /\ listing # <<>> /\ UNCHANGED <<todo, core, misread>>
    BY <1>2 DEF Load, worker
  <2>2. CASE Catalogue[m].init.folder \in folders \cup {None}
    <3>1. /\ listing' = Tail(listing) /\ stack' = Append(stack, m)
          /\ described' = [described EXCEPT ![m] = CHOOSE n \in shown : TRUE]
          /\ Post(shown, "desc", None) /\ pc' = pc
      BY <1>2, <2>2 DEF Load, find_init
    <3>2. shown = Found(Append(stack, m), NameOf(m))
      BY DEF NameOf
    <3> HIDE DEF m, shown
    <3> QED BY <2>1, <3>1, <3>2, LoadKeeps DEF m
  <2>3. CASE Catalogue[m].init.folder \notin folders \cup {None}
    <3>1. UNCHANGED <<listing, pc, stack, described, got, fields>>
      BY <1>2, <2>3 DEF Load, find_init
    <3> QED BY <2>1, <3>1, QuietKeeps
  <2> QED BY <2>2, <2>3
<1>3. CASE LoadedAll
  BY <1>3, QuietKeeps DEF LoadedAll, worker
<1>4. CASE AskList
  BY <1>4, Names, SearchKeeps DEF AskList, Ask, worker
<1>5. CASE AskTable
  BY <1>5, Names, SearchKeeps DEF AskTable, Ask, worker
<1>6. CASE AskNodes
  BY <1>6, Names, InsertKeeps DEF AskNodes, Ask, worker
<1>7. CASE Disable
  BY <1>7, DisableKeeps DEF Disable, worker
<1>8. CASE BeginRequest
  <2>1. SceneTypes' /\ OnceListed' /\ Hidden'
    BY <1>8 DEF BeginRequest, ModulesInv, SceneTypes, OnceListed, Hidden
  <2>2. KeptByTheFirst'
    BY <1>8 DEF BeginRequest, ModulesInv, KeptByTheFirst, GivenTo, Given, Asked, First
  <2>3. Posting'
    <3>1. /\ todo' \in Begun /\ core' = None /\ pc \in {"serve", "off"} /\ pc' = pc
      BY <1>8 DEF BeginRequest, Begun, B0, S0
    <3> QED BY <3>1, Classes DEF Posting
  <2> QED BY <2>1, <2>2, <2>3 DEF ModulesInv
<1>9. CASE PostNext
  BY <1>9, PostKeeps
<1>10. CASE Unselected
  <2>1. SceneTypes' /\ OnceListed' /\ Hidden'
    BY <1>10 DEF Unselected, ModulesInv, SceneTypes, OnceListed, Hidden
  <2>2. KeptByTheFirst'
    BY <1>10 DEF Unselected, ModulesInv, KeptByTheFirst, GivenTo, Given, Asked, First
  <2>3. Posting'
    BY <1>10, Classes DEF Unselected, Posting
  <2> QED BY <2>1, <2>2, <2>3 DEF ModulesInv
<1>11. CASE WalksObject
  BY <1>11, QuietKeeps DEF WalksObject, worker
<1>12. CASE UNCHANGED scene
  BY <1>12, QuietKeeps DEF scene, worker
<1> QED BY <1>1, <1>2, <1>3, <1>4, <1>5, <1>6, <1>7, <1>8, <1>9, <1>10, <1>11,
           <1>12 DEF ModulesNext

LEMMA ModulesInvHolds == ModulesSpec => []ModulesInv
<1>1. ModulesInit => ModulesInv
  BY ModulesInvFirst
<1>2. ModulesInv /\ [ModulesNext]_scene => ModulesInv'
  BY ModulesInvKept
<1> QED BY <1>1, <1>2, PTL DEF ModulesSpec

(* An entry of the list is at its own position.                            *)
LEMMA PositionIs ==
    ASSUME SceneTypes, OnceListed, NEW k \in 1..Len(stack)
    PROVE  Position(stack[k]) = k
<1> DEFINE I == {i \in 1..Len(stack) : stack[i] = stack[k]}
<1>1. Position(stack[k]) = IF I # {} THEN Min(I) ELSE 0
  BY DEF Position, SelectInSeq
<1>2. I = {k} /\ k \in Nat
  BY DEF OnceListed
<1>3. Min(I) = k
  BY <1>2, MinIs
<1> QED BY <1>1, <1>2, <1>3

(* Of two modules with one name the one loaded later is hidden: no post    *)
(* finds it, and it is shown under the other's description.                *)
THEOREM NamesakesAreHidden == ModulesSpec => []NamesakesHide
<1>1. ModulesInv => NamesakesHide
  <2> SUFFICES ASSUME ModulesInv, NEW m \in ToSet(stack), Namesake(m)
               PROVE  got[m] \subseteq {"service"} /\ described[m] # m
    BY DEF NamesakesHide
  <2>1. SceneTypes /\ OnceListed
    BY DEF ModulesInv
  <2>2. PICK k \in 1..Len(stack) : stack[k] = m
    BY DEF ToSet
  <2>3. PICK n \in ToSet(stack) : Position(n) < Position(m) /\ NameOf(n) = NameOf(m)
    BY DEF Namesake, NameOf
  <2>4. PICK j \in 1..Len(stack) : stack[j] = n
    BY DEF ToSet
  <2>5. Position(m) = k /\ Position(n) = j
    BY <2>1, <2>2, <2>4, PositionIs
  <2> QED BY <2>2, <2>3, <2>4, <2>5 DEF ModulesInv, Hidden
<1> QED BY <1>1, ModulesInvHolds, PTL

(* The messages of main reach the first module of the directory.           *)
THEOREM PointersAreTheFirsts == ModulesSpec => []PointersGoToTheFirst
<1>1. ModulesInv => PointersGoToTheFirst
  <2> SUFFICES ASSUME ModulesInv
               PROVE  PointersGoToTheFirst
    OBVIOUS
  <2>1. /\ "mod0" \in Files /\ KeptIn("mod0") = "object"
        /\ "bcdx" \in Files /\ KeptIn("bcdx") = "process"
    BY Names DEF FileNames, Keepers
  <2>2. Asked => Given = "table"
    BY DEF Asked, Given
  <2>3. ListReachesNobody
    <3> SUFFICES ASSUME Asked
                 PROVE  /\ \A m \in Files : "list" \notin {fields[m].object, fields[m].process}
                        /\ (fields["mod0"].object = "table") = First("mod0")
      BY DEF ListReachesNobody
    <3>1. \A m \in Files : /\ fields[m].object = GivenTo(m, "object")
                           /\ fields[m].process = GivenTo(m, "process")
      BY DEF ModulesInv, KeptByTheFirst
    <3>2. \A m, f : GivenTo(m, f) \in {"table", None}
      BY <2>2 DEF GivenTo
    <3>3. GivenTo("mod0", "object") = "table" <=> First("mod0")
      BY <2>1, <2>2 DEF GivenTo, None
    <3>4. First("mod0") \in BOOLEAN
      BY DEF First
    <3>5. "list" \notin {"table", None}
      BY DEF None
    <3> QED BY <2>1, <3>1, <3>2, <3>3, <3>4, <3>5
  <2>4. MisreadByFirstOnly
    BY DEF ModulesInv, KeptByTheFirst, MisreadByFirstOnly
  <2>5. TableReachesBcdxIfFirst
    <3> SUFFICES ASSUME Asked
                 PROVE  (fields["bcdx"].process = "table" /\ fields["bcdx"].system = "nodes")
                            = First("bcdx")
      BY DEF TableReachesBcdxIfFirst
    <3>1. fields["bcdx"].process = GivenTo("bcdx", "process")
      BY <2>1 DEF ModulesInv, KeptByTheFirst
    <3>2. First("bcdx") => fields["bcdx"].system = "nodes"
      BY <2>1 DEF ModulesInv, KeptByTheFirst
    <3>3. GivenTo("bcdx", "process") = "table" <=> First("bcdx")
      BY <2>1, <2>2 DEF GivenTo, None
    <3>4. First("bcdx") \in BOOLEAN
      BY DEF First
    <3> QED BY <3>1, <3>2, <3>3, <3>4
  <2> QED BY <2>3, <2>4, <2>5 DEF PointersGoToTheFirst
<1> QED BY <1>1, ModulesInvHolds, PTL

(* A request is completed wherever bcdx and dbi0 stand in the directory.   *)
THEOREM RequestsFindTheirModules == ModulesSpec => []RequestsIgnoreOrder
<1>1. ModulesInv => RequestsIgnoreOrder
  <2> SUFFICES ASSUME ModulesInv, todo # <<>>, Head(todo) = To("bcdx", "send")
               PROVE  (core = "code") = ({"bcdx", "dbi0"} \subseteq ToSet(stack))
    BY DEF RequestsIgnoreOrder
  <2>1. todo = <<S0>>
    <3>1. todo \in {<<S0>>} \cup Begun \cup Updating \cup Sending /\ Head(todo) = S0
      BY DEF ModulesInv, Posting, S0
    <3>2. S0 \notin {B0, U1, U2, U3, U4, S1, S2, S3}
      BY Addressed
    <3> QED BY <3>1, <3>2, Following
  <2>2. \A m : Loaded(m) <=> m \in ToSet(stack)
    BY DEF Loaded, ToSet, ModulesInv, SceneTypes
  <2> QED BY <2>1, <2>2 DEF ModulesInv, Posting
<1> QED BY <1>1, ModulesInvHolds, PTL
=============================================================================
