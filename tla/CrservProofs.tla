----------------------------- MODULE CrservProofs -----------------------------
(***************************************************************************)
(* What the proofs about the server's shutdown share: the percentage, and  *)
(* what the server keeps true by itself, whatever it reads in the driver.  *)
(***************************************************************************)
EXTENDS Crserv, TLAPS

LEMMA Division ==
    ASSUME NEW a \in Nat, NEW b \in Nat \ {0}
    PROVE  /\ a \div b \in Nat
           /\ b * (a \div b) <= a
           /\ a < b * ((a \div b) + 1)
  BY Z3

LEMMA Sizes == R \in Nat /\ M \in Nat /\ S \in Nat /\ Total \in Nat \ {0} /\ S <= Total
  BY CrservAssumption DEF S, Total

(* The percentage grows with what is freed, and is at most 100.            *)
LEMMA PercentGrows ==
    ASSUME NEW f \in Nat, NEW g \in Nat, f <= g
    PROVE  Percent(f) \in Nat /\ Percent(g) \in Nat /\ Percent(f) <= Percent(g)
  <1> DEFINE p == Percent(f)
             q == Percent(g)
  <1>1. /\ p \in Nat /\ Total * p <= 100 * f
        /\ q \in Nat /\ 100 * g < Total * (q + 1)
    BY Division, Sizes DEF Percent
  <1>2. Total * p < Total * (q + 1) /\ Total \in Nat \ {0}
    BY <1>1, Sizes
  <1> HIDE DEF p, q
  <1>3. p < q + 1
    <2>1. SUFFICES ASSUME p >= q + 1 PROVE FALSE
      BY <1>1
    <2>2. Total * p >= Total * (q + 1)
      BY <1>1, <1>2, <2>1
    <2>3. Total * p \in Nat /\ Total * (q + 1) \in Nat
      BY <1>1, <1>2
    <2>4. QED
      BY <1>2, <2>2, <2>3
  <1>4. QED
    BY <1>1, <1>3 DEF p, q

LEMMA PercentAtMost100 ==
    ASSUME NEW f \in 0..Total
    PROVE  Percent(f) \in 0..100
  <1> DEFINE p == Percent(f)
  <1>1. p \in Nat /\ Total * p <= 100 * f /\ Total \in Nat \ {0}
    BY Division, Sizes DEF Percent
  <1>2. Total * p <= 100 * Total
    BY <1>1, Sizes
  <1> HIDE DEF p
  <1>3. p <= 100
    <2>1. SUFFICES ASSUME p >= 101 PROVE FALSE
      BY <1>1
    <2>2. Total * p >= Total * 101
      BY <1>1, <2>1
    <2>3. QED
      BY <1>1, <1>2, <2>2
  <1>4. QED
    BY <1>1, <1>3 DEF p

(* The system nodes are at least one percent of everything.                *)
LEMMA NodesShow ==
    ASSUME NEW f \in Nat, f >= S
    PROVE  Percent(f) >= 1
  <1>1. 100 * f >= Total
    BY CrservAssumption DEF S, Total
  <1>2. Percent(f) \in Nat /\ 100 * f < Total * (Percent(f) + 1)
    BY Division, Sizes DEF Percent
  <1>3. Percent(f) # 0
    BY <1>1, <1>2, Sizes
  <1>4. QED
    BY <1>2, <1>3
LEMMA SumGrows ==
    ASSUME NEW a \in Nat, NEW b \in Nat, NEW c \in Nat, NEW d \in Nat, d > b
    PROVE  a + b + c \in Nat /\ a + d + c \in Nat /\ a + b + c <= a + d + c
  OBVIOUS

-----------------------------------------------------------------------------
(* How far the closing thread is says what it has freed and told.          *)
Progress ==
    /\ closers = 0 => xpc = "none"
    /\ closers > 0 => xpc # "none" /\ ctrl_state = 1
    /\ closers <= 1
    /\ ctrl_state = 1 => sysfree = S
    /\ xpc \in {"none", "table"} => modfree = 0
    /\ xpc = "none" => rmcfree = 0
    /\ xpc \in {"modules", "done"} => rmcfree = R
    /\ xpc = "done" => modfree = M
    /\ close_final = 0 => xpc = "done"

LEMMA FreedRange ==
    ASSUME CrservTypeOK
    PROVE  cfree \in 0..Total
  BY CrservAssumption, Sizes DEF CrservTypeOK, cfree, Total

(* What the server keeps true by itself.                                   *)
ServerInv ==
    /\ CrservTypeOK /\ Progress
    /\ srv \in {"load", "progress", "reset"} => closers = 0 /\ ctrl_state = 0
    /\ srv \in {"report", "act"} => ptty <= Percent(cfree)
    /\ srv \in {"report", "act"} /\ ctrl_state = 1 => ptty >= 1

LEMMA ServerInvInit == CrservInit => ServerInv
  BY CrservAssumption, Sizes DEF CrservInit, ServerInv, CrservTypeOK, Progress

LEMMA ServerMain ==
    ASSUME ServerInv, poweroff_value \in 0..2, Start \/ LoadFails \/ Main \/ libcrt_signal_handle
    PROVE  ServerInv' /\ (srv' # "down" /\ srv # "down" => Percent(cfree) <= Percent(cfree'))
  <1> USE CrservAssumption, Sizes
      DEF ServerInv, CrservTypeOK, Progress, DISABLE, ctl10, rest, teardown
  <1>0. cfree \in 0..Total /\ Percent(cfree) \in 0..100
    BY FreedRange, PercentAtMost100
  <1>1. CASE Start \/ libcrt_signal_handle
    BY <1>1 DEF Start, libcrt_signal_handle, Fresh
  <1>2. CASE LoadFails \/ LoadModules
    BY <1>0, <1>2 DEF LoadFails, LoadModules, cfree
  <1>3. CASE ResetProgress \/ ResetPoweroff
    BY <1>0, <1>3 DEF ResetProgress, ResetPoweroff, cfree
  <1>4. CASE Look
    BY <1>0, <1>4, NodesShow DEF Look, cfree
  <1>5. CASE Report \/ Idle
    BY <1>0, <1>5 DEF Report, Idle, cfree
  <1>6. CASE Act
    <2> USE <1>6 DEF Act, SpawnsCloser, FreesNodes, Leaves
    <2>1. cfree \in Nat /\ cfree' \in Nat /\ cfree <= cfree'
      BY DEF cfree
    <2>2. Percent(cfree) <= Percent(cfree')
      BY <2>1, PercentGrows
    <2>3. Progress' /\ CrservTypeOK'
      OBVIOUS
    <2>4. srv' \in {"down", "look"}
      OBVIOUS
    <2>5. QED
      BY <2>2, <2>3, <2>4, Zenon
  <1>7. QED
    BY <1>1, <1>2, <1>3, <1>4, <1>5, <1>6 DEF Main

LEMMA ServerCloser ==
    ASSUME ServerInv, Closer
    PROVE  /\ ServerInv' /\ Percent(cfree) <= Percent(cfree')
           /\ UNCHANGED <<srv, value, closers, ctl10>>
  <1> USE CrservAssumption, Sizes DEF ServerInv, CrservTypeOK, Progress, ctl10
  <1>1. CASE librmc_free
    <2>1. rmcfree \in Nat /\ rmcfree' \in Nat /\ rmcfree' > rmcfree
      BY <1>1 DEF librmc_free
    <2>2. sysfree \in Nat /\ modfree \in Nat /\ UNCHANGED <<sysfree, modfree>>
      BY <1>1 DEF librmc_free
    <2>3. cfree \in Nat /\ cfree' \in Nat /\ cfree <= cfree'
      BY <2>1, <2>2, SumGrows, Zenon DEF cfree
    <2>4. Percent(cfree) \in Nat /\ Percent(cfree') \in Nat /\ Percent(cfree) <= Percent(cfree')
      BY <2>3, PercentGrows
    <2>5. CrservTypeOK' /\ Progress'
      BY <1>1 DEF librmc_free
    <2>6. QED
      BY <1>1, <2>4, <2>5 DEF librmc_free
  <1>2. CASE mod_free \/ CloserDone
    <2>1. cfree \in Nat /\ cfree' \in Nat /\ cfree <= cfree'
      BY <1>2 DEF mod_free, CloserDone, cfree
    <2>2. Percent(cfree) \in Nat /\ Percent(cfree') \in Nat /\ Percent(cfree) <= Percent(cfree')
      BY <2>1, PercentGrows
    <2>3. CrservTypeOK' /\ Progress'
      BY <1>2 DEF mod_free, CloserDone
    <2>4. QED
      BY <1>2, <2>2, <2>3 DEF mod_free, CloserDone
  <1>3. QED
    BY <1>1, <1>2 DEF Closer
=============================================================================
