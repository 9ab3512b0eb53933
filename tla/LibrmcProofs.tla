---------------------------- MODULE LibrmcProofs ----------------------------
(***************************************************************************)
(* Proofs about the request table, for every number of entries, every ring *)
(* of code buffers, every limit and every set of clock readings; and, at   *)
(* the end, about its clock, for every stamp.                              *)
(***************************************************************************)
EXTENDS CtimeProbe, WellFoundedInduction, TLAPS

(* get_time_final returns at most 60 and leaves a stamp it can read again. *)
LEMMA ElapsedBound ==
    ASSUME NEW t \in Stamps, NEW now \in ClockStamps
    PROVE  Elapsed(t, now) \in 0..60
  <1> USE DEF Stamps, ClockStamps, Min, Sec
  <1>1. /\ t[1] \in 0..59 /\ t[2] \in 0..60
        /\ now[1] \in 0..59 /\ now[2] \in 0..59
    OBVIOUS
  <1>2. CountsSeconds(t, now) => t[2] < now[2]
    BY DEF CountsSeconds
  <1>3. CountsMinutes(t, now) => now[2] < t[2]
    BY DEF CountsMinutes
  <1> HIDE DEF Stamps, ClockStamps
  <1>4. CASE ~Counts(t, now)
    BY <1>4 DEF Elapsed, Counts
  <1>5. CASE Counts(t, now)
    BY <1>1, <1>2, <1>3, <1>5 DEF Elapsed, Least, Counts
  <1>6. QED
    BY <1>4, <1>5

(* The stamp get_time_final leaves behind is one it can be given.          *)
LEMMA GetTimeFinalType ==
    ASSUME NEW t \in Stamps, NEW now \in ClockStamps
    PROVE  /\ GetTimeFinal(t, now).utime \in 0..60
           /\ GetTimeFinal(t, now).last \in Stamps
  BY ElapsedBound DEF GetTimeFinal, Stamps

(* A stamp measured at the instant it was taken, and the stamp <<0, 0>> at *)
(* any time, have no age, and what is left behind is <<0, 0>>.             *)
LEMMA NoAge ==
    ASSUME NEW t, NEW now \in ClockStamps, t \in {now, <<0, 0>>}
    PROVE  GetTimeFinal(t, now) = [utime |-> 0, last |-> <<0, 0>>]
  <1>1. ~CountsSeconds(t, now) /\ ~CountsMinutes(t, now)
    BY DEF CountsSeconds, CountsMinutes, ClockStamps, Min, Sec
  <1>2. QED
    BY <1>1 DEF GetTimeFinal, Elapsed, Counts

(* The reaper's next number is that of an entry before the last, or the    *)
(* largest unsigned short, which is no entry's.                            *)
LEMMA RandomCodesRange ==
    /\ UShort - 1 \in Nat \ Entries
    /\ RandomCodes \subseteq 0..(N - 2) \cup {UShort - 1}
  <1>1. UShort - 1 \in Nat \ Entries
    BY LibrmcAssumption DEF UShort, Entries
  <1>2. ASSUME NEW r \in -1..(N - 2)
        PROVE  r % UShort \in 0..(N - 2) \cup {UShort - 1}
    BY LibrmcAssumption, <1>2 DEF UShort
  <1>3. QED
    BY <1>1, <1>2 DEF RandomCodes
-----------------------------------------------------------------------------
LEMMA ClockReadings ==
    ASSUME NEW t \in Times PROVE t \in ClockStamps /\ t \in Stamps
  BY LibrmcAssumption DEF ClockStamps, Stamps

(* Where the threads stand determines which of their locals are set.       *)
Locals ==
    /\ phase # "serving" => wpc = "idle" /\ rpc = "sleep"
    /\ wpc \in {"select", "send"} => lease \in Entries
    /\ wpc = "send" => answer \in Entries
    /\ rpc = "brian" => visits < count /\ code \in Entries
    /\ phase = "init" => \A e \in Entries : status[e] = ENABLE

LEMMA TypeInit == Init => TypeOK /\ Locals
  <1> SUFFICES ASSUME Init PROVE TypeOK /\ Locals
    OBVIOUS
  <1> USE LibrmcAssumption DEF Init
  <1>1. TypeOK
    <2>1. clock \in Stamps
      BY ClockReadings
    <2>2. ticked \in BOOLEAN
      OBVIOUS
    <2>3. /\ status \in [Entries -> {ENABLE, PROCESS, FINAL}]
          /\ first \in [Entries -> Times]
          /\ core \in [Entries -> Entries \cup {NULL}]
      OBVIOUS
    <2>4. QED
      BY <2>1, <2>2, <2>3 DEF TypeOK, Codes, NULL
  <1>2. Locals
    BY DEF Locals, Entries
  <1>3. QED
    BY <1>1, <1>2

(* Every step of the three threads, of main and of the clock keeps the     *)
(* types and the locals.                                                   *)
LEMMA TypeStep == TypeOK /\ Locals /\ [Next]_vars => TypeOK' /\ Locals'
  <1> SUFFICES ASSUME TypeOK, Locals, [Next]_vars PROVE TypeOK' /\ Locals'
    OBVIOUS
  <1> USE LibrmcAssumption DEF NULL, table, worker, reaper
  <1>1. CASE librmc_update
    BY <1>1 DEF TypeOK, Locals, Entries, librmc_update, ENABLE, PROCESS, FINAL
  <1>2. CASE librmc_update_fails
    BY <1>2 DEF TypeOK, Locals, Entries, librmc_update_fails
  <1>3. CASE Tick
    BY <1>3 DEF TypeOK, Locals, Entries, Tick
  <1>4. CASE Arrive
    BY <1>4 DEF TypeOK, Locals, Entries, Arrive
  <1>5. CASE Worker
    <2>1. CASE librmc_create_take
      BY <2>1 DEF TypeOK, Locals, Entries, librmc_create_take, ENABLE, PROCESS, FINAL
    <2>2. CASE librmc_create_next
      BY <2>2 DEF TypeOK, Locals, Entries, librmc_create_next
    <2>3. CASE librmc_create_none
      BY <2>3 DEF TypeOK, Locals, Entries, librmc_create_none, EndRequest
    <2>4. CASE librmc_select_hit
      BY <2>4 DEF TypeOK, Locals, Entries, librmc_select_hit
    <2>5. CASE librmc_select_next
      BY <2>5 DEF TypeOK, Locals, Entries, librmc_select_next
    <2>6. CASE librmc_select_none
      BY <2>6 DEF TypeOK, Locals, Entries, librmc_select_none, EndRequest
    <2>7. CASE Send
      BY <2>7 DEF TypeOK, Locals, Entries, Send, EndRequest
    <2>8. QED
      BY <1>5, <2>1, <2>2, <2>3, <2>4, <2>5, <2>6, <2>7 DEF Worker
  <1>6. CASE librmc_final
    BY <1>6 DEF TypeOK, Locals, Entries, librmc_final, ENABLE, PROCESS, FINAL
  <1>7. CASE Reaper
    <2>1. CASE PassBegins
      <3>1. clock \in Stamps
        BY ClockReadings DEF TypeOK
      <3>2. ticked' \in BOOLEAN
        BY <2>1 DEF PassBegins
      <3>3. QED
        BY <2>1, <3>1, <3>2 DEF TypeOK, Locals, Entries, PassBegins
    <2>2. CASE librmc_find_none
      BY <2>2 DEF TypeOK, Locals, Entries, librmc_find_none
    <2>3. CASE librmc_find_lease
      BY <2>3 DEF TypeOK, Locals, Entries, librmc_find_lease, ENABLE, PROCESS, FINAL
    <2>4. CASE librmc_find_core
      <3>1. corestamp' \in Stamps
        BY <2>4, ClockReadings, GetTimeFinalType DEF TypeOK, Locals, Entries, librmc_find_core
      <3>2. status' \in [Entries -> {ENABLE, PROCESS, FINAL}]
        BY <2>4 DEF TypeOK, Locals, Entries, librmc_find_core, ENABLE, PROCESS, FINAL
      <3>3. QED
        BY <2>4, <3>1, <3>2 DEF TypeOK, Locals, Entries, librmc_find_core, Codes
    <2>5. CASE PassEnds
      BY <2>5, ClockReadings, GetTimeFinalType DEF TypeOK, Locals, Entries, PassEnds
    <2>6. QED
      BY <1>7, <2>1, <2>2, <2>3, <2>4, <2>5 DEF Reaper
  <1>8. CASE UNCHANGED vars
    BY <1>8 DEF TypeOK, Locals, Entries, vars
  <1>9. QED
    BY <1>1, <1>2, <1>3, <1>4, <1>5, <1>6, <1>7, <1>8 DEF Next

(* Every variable has its type in every state of every run.                *)
THEOREM TypeCorrect == Spec => []TypeOK
  <1>1. Init => TypeOK /\ Locals
    BY TypeInit
  <1>2. TypeOK /\ Locals /\ [Next]_vars => TypeOK' /\ Locals'
    BY TypeStep
  <1>3. QED
    BY <1>1, <1>2, PTL DEF Spec
-----------------------------------------------------------------------------
(* The reaper's reading of the pass's stamp is the present, or nothing,    *)
(* for as long as the clock has not moved.                                 *)
StampOfPass ==
    (rpc # "sleep" /\ ~ticked) => corestamp \in {clock, <<0, 0>>}

Inv == TypeOK /\ Locals /\ NoRequestFinishes /\ StampOfPass

(* The moves of the leases: none, one entry lent to the worker, or one     *)
(* entry freed by the reaper that visits it.                               *)
Lends ==
    /\ librmc_create_take
    /\ scan \in Entries /\ status[scan] = ENABLE
    /\ status' = [status EXCEPT ![scan] = PROCESS]
    /\ code' = code

Frees ==
    /\ code \in Entries /\ Leased(code)
    /\ status' = [status EXCEPT ![code] = ENABLE]
    /\ wpc' = wpc /\ scan' = scan /\ lease' = lease /\ answer' = answer
    /\ \/ Expired(code)
       \/ rpc = "brian" /\ GetTimeFinal(corestamp, clock).utime > Limit

LEMMA MovesOfTheLeases ==
    ASSUME Inv, [Next]_vars
    PROVE  status' = status \/ Lends \/ Frees
  <1> USE DEF Inv, table, worker, reaper
  <1>1. CASE librmc_update
    <2>1. count \in Entries /\ status[count] = ENABLE
      BY <1>1, LibrmcAssumption DEF librmc_update, TypeOK, Locals, Entries
    <2>2. QED
      BY <1>1, <2>1 DEF librmc_update, TypeOK
  <1>2. CASE librmc_update_fails \/ Tick \/ Arrive
    BY <1>2 DEF librmc_update_fails, Tick, Arrive
  <1>3. CASE Worker
    <2>1. CASE librmc_create_take
      BY <2>1, LibrmcAssumption DEF librmc_create_take, Lends, TypeOK, Entries
    <2>2. CASE ~librmc_create_take
      BY <1>3, <2>2 DEF Worker, librmc_create_next, librmc_create_none,
         librmc_select_hit, librmc_select_next, librmc_select_none, Send
    <2>3. QED
      BY <2>1, <2>2
  <1>4. CASE librmc_final
    BY <1>4 DEF librmc_final, TypeOK, NoRequestFinishes
  <1>5. CASE Reaper
    <2>1. CASE PassBegins \/ librmc_find_none \/ PassEnds
      BY <2>1 DEF PassBegins, librmc_find_none, PassEnds
    <2>2. CASE librmc_find_lease
      BY <2>2, LibrmcAssumption
      DEF librmc_find_lease, Frees, Leased, TypeOK, Entries, ENABLE, PROCESS, FINAL
    <2>3. CASE librmc_find_core
      BY <2>3 DEF librmc_find_core, Frees, Leased, Locals, ENABLE, PROCESS
    <2>4. QED
      BY <1>5, <2>1, <2>2, <2>3 DEF Reaper
  <1>6. CASE UNCHANGED vars
    BY <1>6 DEF vars
  <1>7. QED
    BY <1>1, <1>2, <1>3, <1>4, <1>5, <1>6 DEF Next

LEMMA InvInit == Init => Inv
  BY TypeInit DEF Init, Inv, NoRequestFinishes, StampOfPass, ENABLE, FINAL

LEMMA StampStep ==
    ASSUME Inv, [Next]_vars
    PROVE  StampOfPass'
  <1> USE DEF Inv, StampOfPass, table, worker, reaper
  <1>1. CASE librmc_find_core
    <2>1. ~ticked => corestamp' = <<0, 0>>
      BY <1>1, NoAge, ClockReadings DEF librmc_find_core, TypeOK
    <2>2. QED
      BY <1>1, <2>1 DEF librmc_find_core
  <1>2. CASE PassBegins \/ librmc_find_none \/ librmc_find_lease \/ PassEnds
    BY <1>2 DEF PassBegins, librmc_find_none, librmc_find_lease, PassEnds
  <1>3. CASE Tick
    BY <1>3 DEF Tick
  <1>4. CASE \/ librmc_update \/ librmc_update_fails \/ Arrive
            \/ Worker \/ librmc_final \/ UNCHANGED vars
    <2>1. UNCHANGED <<rpc, ticked, corestamp, clock>>
      BY <1>4 DEF librmc_update, librmc_update_fails, Arrive, librmc_final, vars,
         Worker, librmc_create_take, librmc_create_next, librmc_create_none,
         librmc_select_hit, librmc_select_next, librmc_select_none, Send
    <2>2. QED
      BY <2>1
  <1>5. QED
    BY <1>1, <1>2, <1>3, <1>4 DEF Next, Reaper

LEMMA InvStep == Inv /\ [Next]_vars => Inv'
  <1> SUFFICES ASSUME Inv, [Next]_vars PROVE Inv'
    OBVIOUS
  <1>1. TypeOK' /\ Locals'
    BY TypeStep DEF Inv
  <1>2. NoRequestFinishes'
    BY MovesOfTheLeases DEF Inv, TypeOK, NoRequestFinishes, Lends, Frees,
       ENABLE, PROCESS, FINAL
  <1>3. QED
    BY <1>1, <1>2, StampStep DEF Inv

(* A lease never ends by the request being finished.                       *)
THEOREM LeasesEndByTimeoutOnly == Spec => []NoRequestFinishes
  <1>1. Inv => NoRequestFinishes
    BY DEF Inv
  <1>2. QED
    BY InvInit, InvStep, <1>1, PTL DEF Spec

LEMMA Invariance == Spec => []Inv
  BY InvInit, InvStep, PTL DEF Spec
-----------------------------------------------------------------------------
(* The number the reaper holds changes in librmc_find_core only.           *)
LEMMA CodeMoves ==
    ASSUME Inv, [Next]_vars
    PROVE  code' = code \/ librmc_find_core
  BY DEF Next, vars, table, worker, reaper, librmc_update, librmc_update_fails, Tick,
     Arrive, librmc_final, Worker, librmc_create_take, librmc_create_next,
     librmc_create_none, librmc_select_hit, librmc_select_next,
     librmc_select_none, Send, Reaper, PassBegins, librmc_find_none,
     librmc_find_lease, PassEnds

(* A lease that is freed while the clock stands still has expired.         *)
THEOREM ReleasesAreCaused == Spec => ReleaseHasCause
  <1>1. ASSUME Inv, [Next]_vars, NEW e \in Entries, Releases(e)
        PROVE  Expired(e) \/ ticked
    <2>1. Frees /\ e = code
      BY <1>1, MovesOfTheLeases
      DEF Lends, Frees, Releases, Leased, Inv, TypeOK, ENABLE, PROCESS
    <2>2. CASE Expired(code)
      BY <2>1, <2>2
    <2>3. CASE rpc = "brian" /\ GetTimeFinal(corestamp, clock).utime > Limit
      <3>1. ~ticked => GetTimeFinal(corestamp, clock).utime = 0
        BY <1>1, <2>3, NoAge, ClockReadings DEF Inv, StampOfPass, TypeOK
      <3>2. QED
        BY <2>3, <3>1, LibrmcAssumption DEF Inv, TypeOK
    <2>4. QED
      BY <2>1, <2>2, <2>3 DEF Frees
  <1>2. Inv /\ [Next]_vars
          => [\A e \in Entries : Releases(e) => Expired(e) \/ ticked]_vars
    BY <1>1
  <1>3. QED
    BY <1>2, Invariance, PTL DEF Spec, ReleaseHasCause

(* Once the reaper holds 65535 no lease is freed any more.                 *)
THEOREM LostReaperIsLostForGood == Spec => LostReaperReleasesNothing
  <1>1. ASSUME Inv, [Next]_vars, ReaperLost
        PROVE  code' = code /\ \A e \in Entries : ~Releases(e)
    <2>1. \A e \in Entries : ~Releases(e)
      BY <1>1, MovesOfTheLeases
      DEF Lends, Frees, Releases, Leased, ReaperLost, Inv, TypeOK, ENABLE, PROCESS
    <2>2. ~librmc_find_core
      BY <1>1 DEF librmc_find_core, Inv, Locals, ReaperLost
    <2>3. code' = code
      BY <1>1, <2>2, CodeMoves
    <2>4. QED
      BY <2>1, <2>3
  <1>2. QED
    BY <1>1, Invariance, PTL DEF Spec, LostReaperReleasesNothing

(* The last entry, once lent, is never freed.                              *)
THEOREM LastEntryStaysLent == Spec => LastEntryNeverFreed
  <1>1. ASSUME Inv, [Next]_vars, N > 1 PROVE ~Releases(N - 1)
    <2>1. code # N - 1
      BY <1>1, RandomCodesRange, LibrmcAssumption DEF Inv, TypeOK, Codes, Entries
    <2>2. QED
      BY <1>1, <2>1, MovesOfTheLeases, LibrmcAssumption
      DEF Lends, Frees, Releases, Leased, Inv, TypeOK, Entries, ENABLE, PROCESS
  <1>2. Inv /\ [Next]_vars => [N > 1 => ~Releases(N - 1)]_vars
    BY <1>1
  <1>3. QED
    BY <1>2, Invariance, PTL DEF Spec, LastEntryNeverFreed
-----------------------------------------------------------------------------
(* The table behaves as a pool of leases: what is lent is free, what comes *)
(* back comes back through a reaper that is still at work, one entry at a  *)
(* time.                                                                   *)
THEOREM TableIsAPool == Spec => PoolSpec
  <1> DEFINE held == {e \in Entries : Leased(e)}
  <1>1. Init => Pool!Init
    BY LibrmcAssumption DEF Init, Pool!Init, Leased, ReaperLost, Entries
  <1>2. ASSUME Inv, [Next]_vars PROVE [Pool!Next]_(Pool!vars)
    <2>1. ReaperLost => code' = code
      BY <1>2, CodeMoves DEF librmc_find_core, Inv, Locals, ReaperLost
    <2>2. CASE status' = status
      <3>1. held' = held
        BY <2>2 DEF Leased
      <3>2. CASE ReaperLost' <=> ReaperLost
        BY <3>1, <3>2 DEF Pool!vars
      <3>3. CASE ReaperLost' /\ ~ReaperLost
        BY <3>1, <3>3 DEF Pool!Next, Pool!Stop
      <3>4. QED
        BY <2>1, <3>2, <3>3 DEF ReaperLost
    <2>3. CASE Lends
      <3>1. held' = held \cup {scan} /\ scan \in Entries \ held
        BY <1>2, <2>3 DEF Lends, Leased, Inv, TypeOK, ENABLE, PROCESS
      <3>2. ReaperLost' <=> ReaperLost
        BY <2>3 DEF Lends, ReaperLost
      <3>3. Pool!Lend(scan)
        BY <3>1, <3>2 DEF Pool!Lend
      <3>4. QED
        BY <3>1, <3>3 DEF Pool!Next
    <2>4. CASE Frees
      <3>1. held' = held \ {code} /\ code \in held
        BY <1>2, <2>4 DEF Frees, Leased, Inv, TypeOK, ENABLE
      <3>2. ~ReaperLost
        BY <2>4 DEF Frees, ReaperLost
      <3>3. Pool!Collect(code)
        BY <3>1, <3>2 DEF Pool!Collect
      <3>4. QED
        BY <2>4, <3>3 DEF Pool!Next, Frees
    <2>5. QED
      BY <1>2, <2>2, <2>3, <2>4, MovesOfTheLeases
  <1>3. QED
    BY <1>1, <1>2, Invariance, PTL DEF Spec, PoolSpec, Pool!Spec
-----------------------------------------------------------------------------
(* The steps of the worker after it got its lease, and what the rest of    *)
(* the system leaves alone.                                                *)
LEMMA WorkerLocals ==
    ASSUME Inv, [Next]_vars, ~Worker
    PROVE  /\ \/ wpc' = wpc
              \/ wpc' = "create"
           /\ scan' = scan /\ lease' = lease /\ answer' = answer
           /\ core' = core \/ phase = "init"
  BY DEF Inv, Locals, Next, vars, table, worker, reaper, librmc_update,
     librmc_update_fails, Tick, Arrive, librmc_final, Reaper, PassBegins,
     librmc_find_none, librmc_find_lease, librmc_find_core, PassEnds

AnswerInv == AnswersKeepTheCode /\ PastTheLeaseMeansReaped

LEMMA AnswerInit == Init => AnswerInv
  BY LibrmcAssumption
  DEF Init, AnswerInv, AnswersKeepTheCode, PastTheLeaseMeansReaped, NULL

LEMMA CodesStep ==
    ASSUME Inv, AnswersKeepTheCode, [Next]_vars
    PROVE  AnswersKeepTheCode'
  <1> USE DEF AnswersKeepTheCode, table, worker, reaper
  <1>1. CASE librmc_select_hit
    BY <1>1 DEF librmc_select_hit, Selects, Inv, TypeOK, Locals
  <1>2. CASE Worker /\ ~librmc_select_hit
    BY <1>2 DEF Worker, librmc_create_take, librmc_create_next, librmc_create_none,
       librmc_select_next, librmc_select_none, Send, EndRequest
  <1>3. CASE librmc_update
    BY <1>3, LibrmcAssumption
    DEF librmc_update, Inv, TypeOK, Locals, Entries, NULL
  <1>4. CASE ~Worker /\ ~librmc_update
    <2>1. core' = core
      BY <1>4 DEF Next, vars, librmc_update_fails, Tick, Arrive, librmc_final, Reaper,
         PassBegins, librmc_find_none, librmc_find_lease, librmc_find_core, PassEnds
    <2>2. QED
      BY <1>4, <2>1, WorkerLocals
  <1>5. QED
    BY <1>1, <1>2, <1>3, <1>4

LEMMA PastStep ==
    ASSUME Inv, PastTheLeaseMeansReaped, [Next]_vars
    PROVE  PastTheLeaseMeansReaped'
  <1> USE DEF PastTheLeaseMeansReaped, Leased, table, worker, reaper
  <1>1. CASE Worker
    <2>1. CASE librmc_create_take
      BY <2>1, LibrmcAssumption DEF librmc_create_take, Inv, TypeOK, Entries
    <2>2. CASE librmc_select_hit
      BY <2>2 DEF librmc_select_hit
    <2>3. CASE librmc_select_next
      <3>1. scan = lease => status[lease] = ENABLE
        BY <2>3 DEF librmc_select_next, Selects, Inv, TypeOK, Locals,
           NoRequestFinishes
      <3>2. CASE scan < lease
        BY <2>3, <3>2 DEF librmc_select_next, Inv, TypeOK, Locals, Entries
      <3>3. CASE scan = lease \/ scan > lease
        BY <2>3, <3>1, <3>3 DEF librmc_select_next
      <3>4. QED
        BY <2>3, <3>2, <3>3 DEF librmc_select_next, Inv, TypeOK, Locals, Entries
    <2>4. CASE \/ librmc_create_next \/ librmc_create_none
              \/ librmc_select_none \/ Send
      BY <2>4 DEF librmc_create_next, librmc_create_none, librmc_select_none, Send,
         EndRequest
    <2>5. QED
      BY <1>1, <2>1, <2>2, <2>3, <2>4 DEF Worker
  <1>2. CASE ~Worker
    <2>1. /\ wpc' \in {wpc, "create"}
          /\ UNCHANGED <<scan, lease, answer>>
      BY <1>2, WorkerLocals
    <2>2. ASSUME wpc \in {"select", "send"}, ~Leased(lease)
          PROVE  ~Leased(lease)'
      <3>1. lease \in Entries
        BY <2>2 DEF Inv, Locals
      <3>2. ~Lends
        BY <1>2 DEF Lends, Worker
      <3>3. QED
        BY <2>1, <2>2, <3>1, <3>2, MovesOfTheLeases DEF Frees, Inv, TypeOK
    <2>3. QED
      BY <2>1, <2>2
  <1>3. QED
    BY <1>1, <1>2

LEMMA AnswersAlways == Spec => []AnswerInv
  <1>1. Inv /\ AnswerInv /\ [Next]_vars => AnswerInv'
    BY CodesStep, PastStep DEF AnswerInv
  <1>2. QED
    BY AnswerInit, <1>1, Invariance, PTL DEF Spec

(* An answer goes to an entry whose code is the request's, and so does     *)
(* what was stored for it.                                                 *)
THEOREM AnswersAreAliased == Spec => []AnswersKeepTheCode
  <1>1. AnswerInv => AnswersKeepTheCode
    BY DEF AnswerInv
  <1>2. QED
    BY AnswersAlways, <1>1, PTL

(* It goes to an entry past the request's own only when the reaper has     *)
(* taken the lease away.                                                   *)
THEOREM PastTheLeaseIsReaped == Spec => []PastTheLeaseMeansReaped
  <1>1. AnswerInv => PastTheLeaseMeansReaped
    BY DEF AnswerInv
  <1>2. QED
    BY AnswersAlways, <1>1, PTL
-----------------------------------------------------------------------------
(* The clock age seconds after it showed m:s: q minutes have begun.        *)
Ages == 0..3599

TurnedBy(t, age, now, m, s, n, r, q) ==
    /\ t = <<m, s>> /\ now = <<n, r>> /\ s + age = 60 * q + r
    /\ \/ m + q < 60 /\ n = m + q
       \/ m + q >= 60 /\ n = m + q - 60

Digits == 0..59
Begun  == 0..60

Turned(t, age, now) ==
    \E m, s, n, r \in Digits, q \in Begun : TurnedBy(t, age, now, m, s, n, r, q)

LEMMA AfterIs ==
    ASSUME NEW t \in ClockStamps, NEW age \in Ages
    PROVE  Turned(t, age, After(t, age))
  <1>1. PICK m \in 0..59, s \in 0..59 : t = <<m, s>>
    BY DEF ClockStamps
  <1>2. PICK x \in 0..3658 : x = s + age
    BY DEF Ages
  <1>3. x \div 60 \in 0..60 /\ x % 60 \in 0..59 /\ x = 60 * (x \div 60) + (x % 60)
    <2>1. x \div 60 \in 0..60
      OBVIOUS
    <2>2. x % 60 \in 0..59
      OBVIOUS
    <2>3. x = 60 * (x \div 60) + (x % 60)
      OBVIOUS
    <2>4. QED
      BY <2>1, <2>2, <2>3
  <1>4. PICK q, r : q = x \div 60 /\ r = x % 60
    OBVIOUS
  <1>5. q \in 0..60 /\ r \in 0..59 /\ s + age = 60 * q + r
    BY <1>2, <1>3, <1>4
  <1>6. PICK y \in 0..119 : y = m + q
    BY <1>5
  <1>7. y % 60 = IF y < 60 THEN y ELSE y - 60
    OBVIOUS
  <1>8. PICK n : n = y % 60
    OBVIOUS
  <1>9. n \in 0..59 /\ ((m + q < 60 /\ n = m + q) \/ (m + q >= 60 /\ n = m + q - 60))
    <2>1. CASE y < 60
      <3>1. n = y
        BY <1>7, <1>8, <2>1
      <3>2. n \in 0..59 /\ m + q < 60 /\ n = m + q
        BY <1>6, <2>1, <3>1
      <3>3. QED
        BY <3>2
    <2>2. CASE y >= 60
      <3>1. n = y - 60
        BY <1>7, <1>8, <2>2
      <3>2. n \in 0..59
        BY <2>2, <3>1
      <3>3. m + q >= 60 /\ n = m + q - 60
        BY <1>5, <1>6, <2>2, <3>1
      <3>4. QED
        BY <3>2, <3>3
    <2>3. QED
      BY <2>1, <2>2
  <1>10. After(t, age) = <<n, r>>
    BY <1>1, <1>2, <1>4, <1>6, <1>8 DEF After, Min, Sec
  <1>11. TurnedBy(t, age, After(t, age), m, s, n, r, q)
    BY <1>1, <1>5, <1>9, <1>10 DEF TurnedBy
  <1>12. /\ m \in Digits /\ s \in Digits /\ n \in Digits /\ r \in Digits
         /\ q \in Begun
    BY <1>1, <1>5, <1>9 DEF Digits, Begun
  <1>13. \E i, j, k, l \in Digits, b \in Begun :
            TurnedBy(t, age, After(t, age), i, j, k, l, b)
    <2> USE <1>12
    <2> WITNESS m \in Digits, s \in Digits, n \in Digits, r \in Digits, q \in Begun
    <2>1. QED
      BY <1>11
  <1>14. QED
    BY <1>13 DEF Turned

LEMMA AfterIsShown ==
    ASSUME NEW t \in ClockStamps, NEW age \in Nat
    PROVE  After(t, age) \in ClockStamps
  <1>1. PICK m \in 0..59, s \in 0..59 : t = <<m, s>>
    BY DEF ClockStamps
  <1>2. PICK x \in Nat : x = s + age
    OBVIOUS
  <1>3. x % 60 \in 0..59 /\ x \div 60 \in Nat
    OBVIOUS
  <1>4. PICK y \in Nat : y = m + x \div 60
    BY <1>3
  <1>5. y % 60 \in 0..59
    OBVIOUS
  <1>6. After(t, age) = <<y % 60, x % 60>>
    BY <1>1, <1>2, <1>4 DEF After, Min, Sec
  <1>7. QED
    BY <1>3, <1>5, <1>6 DEF ClockStamps

LEMMA StampedIsShown ==
    ASSUME TypeOK, NEW t \in Stamped
    PROVE  t \in ClockStamps
  <1>1. clock \in ClockStamps
    BY ClockReadings DEF TypeOK
  <1>2. PICK delay \in Delays : t = After(clock, delay)
    BY DEF Stamped
  <1>3. delay \in Nat
    BY ProbeAssumption
  <1>4. QED
    BY <1>1, <1>2, <1>3, AfterIsShown

(* What is measured is at most a second more than the age: the second past *)
(* a full minute, when the minute has changed.                             *)
NotAhead(utime, age) == utime \in 0..60 /\ utime <= age + 1

LEMMA ElapsedIsNotAhead ==
    ASSUME NEW t \in ClockStamps, NEW age \in Ages
    PROVE  NotAhead(Elapsed(t, After(t, age)), age)
  <1>1. PICK now : now = After(t, age)
    OBVIOUS
  <1>2. Turned(t, age, now)
    BY <1>1, AfterIs
  <1>3. PICK m \in Digits, s \in Digits, n \in Digits, r \in Digits, q \in Begun :
          TurnedBy(t, age, now, m, s, n, r, q)
    BY <1>2, Zenon DEF Turned
  <1> USE DEF TurnedBy, Digits, Begun
  <1>4. age \in 0..3599
    BY DEF Ages
  <1>5. Min(t) = m /\ Sec(t) = s /\ Min(now) = n /\ Sec(now) = r
    BY <1>3 DEF Min, Sec
  <1>6. Elapsed(t, now) \in 0..60
    <2>1. t \in Stamps /\ now \in ClockStamps
      BY <1>3 DEF Stamps, ClockStamps
    <2>2. QED
      BY <2>1, ElapsedBound
  <1>7. Elapsed(t, now) <= age + 1
    <2>1. CASE ~Counts(t, now)
      <3>1. Elapsed(t, now) = 0
        BY <2>1 DEF Elapsed, Counts
      <3>2. QED
        BY <1>4, <3>1
    <2>2. CASE age >= 60
      BY <1>4, <1>6, <2>2
    <2>3. CASE CountsSeconds(t, now) /\ age < 60
      <3>1. s < r
        BY <1>5, <2>3 DEF CountsSeconds
      <3>2. q = 0 /\ n = m /\ age = r - s
        BY <1>3, <1>4, <2>3, <3>1
      <3>3. Elapsed(t, now) = r - s
        BY <1>5, <2>3, <3>2 DEF Elapsed, Counts
      <3>4. QED
        BY <3>2, <3>3
    <2>4. CASE CountsMinutes(t, now) /\ age < 60
      <3>1. r < s /\ n > m
        BY <1>5, <2>4 DEF CountsMinutes
      <3>2. q = 1 /\ n = m + 1 /\ age = 60 + r - s
        BY <1>3, <1>4, <2>4, <3>1
      <3>3. ~CountsSeconds(t, now)
        BY <1>5, <3>1 DEF CountsSeconds
      <3>4. Elapsed(t, now) = Least(60, 61 - s)
        BY <1>5, <2>4, <3>2, <3>3 DEF Elapsed, Counts
      <3>5. Least(60, 61 - s) <= 61 - s
        BY DEF Least
      <3>6. QED
        BY <1>6, <3>2, <3>4, <3>5
    <2>5. QED
      BY <1>4, <2>1, <2>2, <2>3, <2>4 DEF Counts
  <1>8. QED
    BY <1>1, <1>6, <1>7 DEF NotAhead

(* No request is judged overdue before its lease is Limit seconds old,     *)
(* whatever the stamp, wherever in the hour, and for any limit.            *)
THEOREM NoStampIsOverdueEarly == Spec => []NeverOverdueEarly
  <1>1. TypeOK => NeverOverdueEarly
    <2>1. SUFFICES ASSUME TypeOK, NEW t \in Stamped, NEW age \in 0..MaxAge,
                          Judged(t, age)
                   PROVE  age >= Limit
      BY DEF NeverOverdueEarly
    <2>2. t \in ClockStamps /\ age \in Ages
      BY <2>1, StampedIsShown, ProbeAssumption DEF Ages
    <2>3. PICK utime : utime = Elapsed(t, After(t, age))
      OBVIOUS
    <2>4. utime \in 0..60 /\ utime <= age + 1
      BY <2>2, <2>3, ElapsedIsNotAhead DEF NotAhead
    <2>5. utime > Limit
      BY <2>1, <2>3 DEF Judged, GetTimeFinal
    <2>6. QED
      BY <2>2, <2>4, <2>5, LibrmcAssumption DEF Ages
  <1>2. QED
    BY <1>1, TypeCorrect, PTL

(* With the server's limit of 15 every stamp but three is found overdue by *)
(* a poll in the two minutes that follow it, and those three never.        *)
LEMMA EdgeIsMissed ==
    ASSUME Limit = 15, NEW t \in HourEdge, NEW age \in Ages
    PROVE  ~Judged(t, age)
  <1>1. t \in ClockStamps /\ age \in Nat
    BY DEF HourEdge, ClockStamps, Ages
  <1>2. PICK n \in 0..59, r \in 0..59 : After(t, age) = <<n, r>>
    <2>1. After(t, age) \in ClockStamps
      BY <1>1, AfterIsShown
    <2>2. QED
      BY <2>1 DEF ClockStamps
  <1>3. PICK now : now = After(t, age) /\ Min(now) = n /\ Sec(now) = r
    BY <1>2 DEF Min, Sec
  <1>4. Elapsed(t, now) \in 0..2
    <2>1. CASE t = <<0, 0>>
      <3>1. ~Counts(t, now)
        BY <2>1 DEF Counts, CountsSeconds, CountsMinutes
      <3>2. QED
        BY <3>1 DEF Elapsed, Counts
    <2>2. CASE t = <<58, 59>>
      <3>1. Min(t) = 58 /\ Sec(t) = 59
        BY <2>2 DEF Min, Sec
      <3>2. ~CountsSeconds(t, now) /\ (Counts(t, now) => n = 59)
        BY <1>3, <3>1 DEF Counts, CountsSeconds, CountsMinutes
      <3>3. CASE Counts(t, now)
        <4>1. Elapsed(t, now) = Least(60, 61 - 59)
          BY <1>3, <3>1, <3>2, <3>3 DEF Elapsed
        <4>2. QED
          BY <4>1 DEF Least
      <3>4. CASE ~Counts(t, now)
        BY <3>4 DEF Elapsed, Counts
      <3>5. QED
        BY <3>3, <3>4
    <2>3. CASE t = <<59, 59>>
      <3>1. Min(t) = 59 /\ Sec(t) = 59
        BY <2>3 DEF Min, Sec
      <3>2. ~Counts(t, now)
        BY <1>3, <3>1 DEF Counts, CountsSeconds, CountsMinutes
      <3>3. QED
        BY <3>2 DEF Elapsed, Counts
    <2>4. QED
      BY <2>1, <2>2, <2>3 DEF HourEdge
  <1>5. QED
    BY <1>3, <1>4 DEF Judged, GetTimeFinal

LEMMA OthersAreFound ==
    ASSUME Limit = 15, NEW t \in ClockStamps, t \notin HourEdge
    PROVE  \E age \in 0..LatestDetection : Judged(t, age)
  <1>1. ASSUME NEW age \in 0..LatestDetection, NEW utime, utime > 15,
               utime = Elapsed(t, After(t, age))
        PROVE  \E a \in 0..LatestDetection : Judged(t, a)
    BY <1>1 DEF Judged, GetTimeFinal
  <1>2. /\ 16 \in Ages /\ 61 \in Ages /\ 121 \in Ages
        /\ 16 \in 0..LatestDetection /\ 61 \in 0..LatestDetection
        /\ 121 \in 0..LatestDetection
    BY DEF LatestDetection, Ages
  <1>3. PICK sec : sec = Sec(t)
    OBVIOUS
  <1>4. sec \in 0..59
    BY <1>3 DEF ClockStamps, Sec
  <1>5. CASE sec <= 43
    <2>1. PICK now : now = After(t, 16)
      OBVIOUS
    <2>2. Turned(t, 16, now)
      BY <1>2, <2>1, AfterIs
    <2>3. PICK m \in Digits, s \in Digits, n \in Digits, r \in Digits, q \in Begun :
            TurnedBy(t, 16, now, m, s, n, r, q)
      BY <2>2, Zenon DEF Turned
    <2> USE DEF TurnedBy, Digits, Begun
    <2>4. Min(t) = m /\ Sec(t) = s /\ Min(now) = n /\ Sec(now) = r /\ t # <<0, 0>>
      BY <2>3 DEF Min, Sec, HourEdge
    <2>5. q = 0 /\ r = s + 16 /\ n = m
      BY <1>3, <1>5, <2>3, <2>4
    <2>6. CountsSeconds(t, now)
      BY <2>3, <2>4, <2>5 DEF CountsSeconds
    <2>7. Elapsed(t, now) = 16
      BY <2>3, <2>4, <2>5, <2>6 DEF Elapsed, Counts
    <2>8. QED
      BY <1>1, <1>2, <2>1, <2>7
  <1>6. CASE sec >= 44 /\ sec <= 58
    <2>1. PICK now : now = After(t, 121)
      OBVIOUS
    <2>2. Turned(t, 121, now)
      BY <1>2, <2>1, AfterIs
    <2>3. PICK m \in Digits, s \in Digits, n \in Digits, r \in Digits, q \in Begun :
            TurnedBy(t, 121, now, m, s, n, r, q)
      BY <2>2, Zenon DEF Turned
    <2> USE DEF TurnedBy, Digits, Begun
    <2>4. Min(t) = m /\ Sec(t) = s /\ Min(now) = n /\ Sec(now) = r /\ t # <<0, 0>>
      BY <2>3 DEF Min, Sec, HourEdge
    <2>5. q = 2 /\ r = s + 1 /\ s + 1 > 15
      BY <1>3, <1>6, <2>3, <2>4
    <2>6. CountsSeconds(t, now)
      BY <2>3, <2>4, <2>5 DEF CountsSeconds
    <2>7. CASE m = 58
      <3>1. n = 0 /\ m # 0 /\ n # m
        BY <2>3, <2>5, <2>7
      <3>2. Elapsed(t, now) = s + 1
        BY <2>3, <2>4, <2>5, <2>6, <3>1 DEF Elapsed, Counts
      <3>3. QED
        BY <1>1, <1>2, <2>1, <2>5, <3>2
    <2>8. CASE m # 58
      <3>1. n # m /\ n # 0 /\ n # m + 1
        BY <2>3, <2>5, <2>8
      <3>2. Elapsed(t, now) = 60
        BY <2>4, <2>6, <3>1 DEF Elapsed, Counts
      <3>3. QED
        BY <1>1, <1>2, <2>1, <3>2
    <2>9. QED
      BY <2>7, <2>8
  <1>7. CASE sec = 59
    <2>1. PICK now : now = After(t, 61)
      OBVIOUS
    <2>2. Turned(t, 61, now)
      BY <1>2, <2>1, AfterIs
    <2>3. PICK m \in Digits, s \in Digits, n \in Digits, r \in Digits, q \in Begun :
            TurnedBy(t, 61, now, m, s, n, r, q)
      BY <2>2, Zenon DEF Turned
    <2> USE DEF TurnedBy, Digits, Begun
    <2>4. Min(t) = m /\ Sec(t) = s /\ Min(now) = n /\ Sec(now) = r /\ t # <<0, 0>>
      BY <2>3 DEF Min, Sec, HourEdge
    <2>5. m # 58 /\ m # 59
      BY <1>3, <1>7, <2>3, <2>4 DEF HourEdge
    <2>6. q = 2 /\ r = 0 /\ n = m + 2
      <3>1. s = 59 /\ m <= 57
        <4>1. s = 59
          BY <1>3, <1>7, <2>4
        <4>2. m <= 57
          BY <2>3, <2>5
        <4>3. QED
          BY <4>1, <4>2
      <3>2. 120 = 60 * q + r
        BY <2>3, <3>1
      <3>3. q = 2 /\ r = 0
        BY <3>2
      <3>4. QED
        BY <2>3, <3>1, <3>3
    <2>7. CountsMinutes(t, now) /\ ~CountsSeconds(t, now)
      BY <1>3, <1>7, <2>3, <2>4, <2>6 DEF CountsMinutes, CountsSeconds
    <2>8. Elapsed(t, now) = 60
      BY <2>3, <2>4, <2>6, <2>7 DEF Elapsed, Counts
    <2>9. QED
      BY <1>1, <1>2, <2>1, <2>8
  <1>8. QED
    BY <1>4, <1>5, <1>6, <1>7

THEOREM OnlyThreeStampsAreMissed ==
    ASSUME Limit = 15
    PROVE  Spec => []OnlyTheHourEdgeIsMissed
  <1>1. ASSUME TypeOK, NEW t \in Stamped
        PROVE  IF t \in HourEdge THEN \A age \in 0..3599 : ~Judged(t, age)
                                 ELSE \E age \in 0..LatestDetection : Judged(t, age)
    <2>1. t \in ClockStamps
      BY <1>1, StampedIsShown
    <2>2. CASE t \in HourEdge
      <3>1. \A age \in Ages : ~Judged(t, age)
        BY <2>2, EdgeIsMissed
      <3>2. QED
        BY <2>2, <3>1 DEF Ages
    <2>3. CASE t \notin HourEdge
      BY <2>1, <2>3, OthersAreFound
    <2>4. QED
      BY <2>2, <2>3
  <1>2. TypeOK => OnlyTheHourEdgeIsMissed
    BY <1>1 DEF OnlyTheHourEdgeIsMissed
  <1>3. QED
    BY <1>2, TypeCorrect, PTL
-----------------------------------------------------------------------------
(* The steps a request may still take: one to send, the rest of the table  *)
(* for librmc_select, and before that the rest of it for librmc_create.    *)
WorkLeft ==
    CASE wpc = "idle"   -> 0
      [] wpc = "send"   -> 1
      [] wpc = "select" -> 2 + (count - scan)
      [] wpc = "create" -> 3 + count + (count - scan)

(* Each step of the worker brings its request nearer to its end, and no    *)
(* step of another thread, or of the clock, takes it further from it.      *)
RequestNears ==
    /\ Worker => WorkLeft' < WorkLeft
    /\ wpc # "idle" /\ ~Worker => WorkLeft' = WorkLeft

LEMMA WorkLeftIs ==
    ASSUME Inv
    PROVE  /\ WorkLeft \in 0..(2 * N + 3)
           /\ WorkLeft = 0 <=> wpc = "idle"
           /\ wpc # "idle" => phase = "serving" /\ count = N
  <1>1. /\ count \in Nat /\ scan \in 0..N /\ N \in Nat
        /\ wpc \in {"idle", "create", "select", "send"}
    BY LibrmcAssumption DEF Inv, TypeOK
  <1>2. wpc # "idle" => phase = "serving" /\ count = N
    BY DEF Inv, TypeOK, Locals
  <1>3. CASE wpc = "idle"
    BY <1>1, <1>3 DEF WorkLeft
  <1>4. CASE wpc = "send"
    BY <1>1, <1>2, <1>4 DEF WorkLeft
  <1>5. CASE wpc = "select"
    BY <1>1, <1>2, <1>5 DEF WorkLeft
  <1>6. CASE wpc = "create"
    BY <1>1, <1>2, <1>6 DEF WorkLeft
  <1>7. QED
    BY <1>1, <1>2, <1>3, <1>4, <1>5, <1>6

LEMMA WorkerNears ==
    ASSUME Inv, Worker
    PROVE  WorkLeft' < WorkLeft
  <1>1. count = N /\ N \in Nat \ {0} /\ scan \in 0..N
    <2>1. wpc # "idle"
      BY DEF Worker, librmc_create_take, librmc_create_next, librmc_create_none,
         librmc_select_hit, librmc_select_next, librmc_select_none, Send
    <2>2. QED
      BY <2>1, WorkLeftIs, LibrmcAssumption DEF Inv, TypeOK
  <1>2. CASE librmc_create_take
    <2>1. wpc = "create" /\ wpc' = "select" /\ scan' = 0 /\ count' = count
      BY <1>2 DEF librmc_create_take
    <2>2. QED
      BY <1>1, <2>1 DEF WorkLeft
  <1>3. CASE librmc_create_next
    <2>1. wpc = "create" /\ wpc' = wpc /\ scan' = scan + 1 /\ count' = count
      BY <1>3 DEF librmc_create_next, table
    <2>2. QED
      BY <1>1, <2>1 DEF WorkLeft
  <1>4. CASE librmc_select_next
    <2>1. wpc = "select" /\ wpc' = wpc /\ scan' = scan + 1 /\ count' = count
      BY <1>4 DEF librmc_select_next, table
    <2>2. QED
      BY <1>1, <2>1 DEF WorkLeft
  <1>5. CASE librmc_select_hit
    <2>1. wpc = "select" /\ wpc' = "send"
      BY <1>5 DEF librmc_select_hit
    <2>2. QED
      BY <1>1, <2>1 DEF WorkLeft
  <1>6. CASE librmc_create_none \/ librmc_select_none \/ Send
    <2>1. wpc \in {"create", "select", "send"} /\ wpc' = "idle"
      BY <1>6 DEF librmc_create_none, librmc_select_none, Send, EndRequest
    <2>2. QED
      BY <1>1, <2>1 DEF WorkLeft
  <1>7. QED
    BY <1>2, <1>3, <1>4, <1>5, <1>6 DEF Worker

LEMMA OthersLeaveIt ==
    ASSUME Inv, [Next]_vars, wpc # "idle", ~Worker
    PROVE  WorkLeft' = WorkLeft
  <1>1. phase = "serving"
    BY WorkLeftIs
  <1>2. UNCHANGED <<wpc, scan, count>>
    BY <1>1 DEF Next, vars, table, worker, reaper, librmc_update,
       librmc_update_fails, Tick, Arrive, librmc_final, Reaper, PassBegins,
       librmc_find_none, librmc_find_lease, librmc_find_core, PassEnds
  <1>3. QED
    BY <1>2 DEF WorkLeft

(* With a worker that is scheduled, a request is over after at most        *)
(* 2 * N + 3 of its steps, whatever the reaper does to its lease.          *)
THEOREM RequestsGetNearer ==
    Spec => /\ [](WorkLeft \in 0..(2 * N + 3) /\ (WorkLeft = 0 <=> wpc = "idle"))
            /\ [][RequestNears]_vars
  <1>1. Inv => WorkLeft \in 0..(2 * N + 3) /\ (WorkLeft = 0 <=> wpc = "idle")
    BY WorkLeftIs
  <1>2. Inv /\ [Next]_vars => [RequestNears]_vars
    BY WorkerNears, OthersLeaveIt DEF RequestNears
  <1>3. QED
    BY <1>1, <1>2, Invariance, PTL DEF Spec
-----------------------------------------------------------------------------
(* What is reached from s in a walk that goes on from x to Go[x] until it   *)
(* is in B; and where the walk ends.                                       *)
Onward(S, Go, B, X) == X \subseteq S /\ \A x \in X : x \notin B => Go[x] \in X

Reached(S, Go, B, s) ==
    {y \in S : \A X \in SUBSET S : Onward(S, Go, B, X) /\ s \in X => y \in X}

Rest(S, Go, B, s) == CHOOSE y : y \in Reached(S, Go, B, s) \cap B

(* Of the states in B, a walk reaches those that it reaches from its next  *)
(* state, or only the state it is in.                                      *)
LEMMA ReachedFrom ==
    ASSUME NEW S, NEW Go \in [S -> S], NEW B, NEW s \in S
    PROVE  /\ s \in B => Reached(S, Go, B, s) \cap B = {s}
           /\ s \notin B => Reached(S, Go, B, s) \cap B = Reached(S, Go, B, Go[s]) \cap B
  <1>1. CASE s \in B
    <2>1. Onward(S, Go, B, {s}) /\ {s} \in SUBSET S
      BY <1>1 DEF Onward
    <2>2. Reached(S, Go, B, s) \subseteq {s}
      BY <2>1 DEF Reached
    <2>3. s \in Reached(S, Go, B, s)
      BY DEF Reached
    <2>4. QED
      BY <1>1, <2>2, <2>3
  <1>2. CASE s \notin B
    <2> DEFINE from == {s} \cup Reached(S, Go, B, Go[s])
    <2>1. Onward(S, Go, B, from) /\ s \in from /\ from \in SUBSET S
      <3>1. Go[s] \in Reached(S, Go, B, Go[s])
        BY DEF Reached
      <3>2. ASSUME NEW x \in Reached(S, Go, B, Go[s]), x \notin B
            PROVE  Go[x] \in Reached(S, Go, B, Go[s])
        BY <3>2 DEF Reached, Onward
      <3>3. from \subseteq S
        BY DEF Reached
      <3>4. QED
        BY <3>1, <3>2, <3>3 DEF Onward
    <2>2. Reached(S, Go, B, s) \subseteq from
      BY <2>1 DEF Reached
    <2>3. Reached(S, Go, B, Go[s]) \subseteq Reached(S, Go, B, s)
      <3>1. ASSUME NEW X \in SUBSET S, Onward(S, Go, B, X), s \in X
            PROVE  Go[s] \in X
        BY <1>2, <3>1 DEF Onward
      <3>2. QED
        BY <3>1 DEF Reached
    <2>4. QED
      BY <1>2, <2>2, <2>3
  <1>3. QED
    BY <1>1, <1>2

(* So there is a function that says where each walk ends, and it unfolds   *)
(* as the walk does: no induction is needed for a recursion of this form.  *)
LEMMA WalksEnd ==
    ASSUME NEW S, NEW Go \in [S -> S], NEW B
    PROVE  \E g : g = [s \in S |-> IF s \in B THEN s ELSE g[Go[s]]]
  <1> DEFINE g == [s \in S |-> Rest(S, Go, B, s)]
  <1>1. ASSUME NEW s \in S
        PROVE  g[s] = IF s \in B THEN s ELSE g[Go[s]]
    <2>1. CASE s \in B
      <3>1. Reached(S, Go, B, s) \cap B = {s}
        BY <2>1, ReachedFrom
      <3>2. Rest(S, Go, B, s) = s
        BY <3>1, Zenon DEF Rest
      <3>3. QED
        BY <2>1, <3>2
    <2>2. CASE s \notin B
      <3>1. Reached(S, Go, B, s) \cap B = Reached(S, Go, B, Go[s]) \cap B
        BY <2>2, ReachedFrom
      <3>2. Rest(S, Go, B, s) = Rest(S, Go, B, Go[s])
        BY <3>1 DEF Rest
      <3>3. Go[s] \in S
        OBVIOUS
      <3>4. QED
        BY <2>2, <3>2, <3>3
    <2>3. QED
      BY <2>1, <2>2
  <1>2. g = [s \in S |-> IF s \in B THEN s ELSE g[Go[s]]]
    <2> HIDE DEF g
    <2>1. g = [s \in S |-> g[s]]
      BY DEF g
    <2>2. QED
      BY <1>1, <2>1
  <1>3. QED
    BY <1>2

(* g is a function that runs the loop.                                     *)
Walks(g, t, now) ==
    g = [s \in LoopStates |-> IF Breaks(t, now, s) THEN s ELSE g[Round(t, now, s)]]

LEMMA RoundsAreStates ==
    ASSUME NEW t, NEW now, NEW s \in LoopStates
    PROVE  Round(t, now, s) \in LoopStates
  BY DEF LoopStates, Round

(* The recursive function of the loop exists, so it is what its definition *)
(* says: at each state it is the state itself, or what it is after a round.*)
LEMMA LoopUnfolds ==
    ASSUME NEW t, NEW now
    PROVE  Walks(LoopFrom(t, now), t, now)
  <1> DEFINE next   == [s \in LoopStates |-> Round(t, now, s)]
             broken == {s \in LoopStates : Breaks(t, now, s)}
  <1>1. next \in [LoopStates -> LoopStates]
    BY RoundsAreStates
  <1>2. PICK g : g = [s \in LoopStates |-> IF s \in broken THEN s ELSE g[next[s]]]
    <2> HIDE DEF next, broken
    <2>1. QED
      BY <1>1, WalksEnd
  <1>3. \E f : Walks(f, t, now)
    <2>1. [s \in LoopStates |-> IF s \in broken THEN s ELSE g[next[s]]]
           = [s \in LoopStates |-> IF Breaks(t, now, s) THEN s ELSE g[Round(t, now, s)]]
      OBVIOUS
    <2>2. QED
      BY <1>2, <2>1 DEF Walks
  <1>4. LoopFrom(t, now) = CHOOSE f : Walks(f, t, now)
    BY DEF LoopFrom, Walks
  <1>5. QED
    BY <1>3, <1>4, Zenon

(* The states the loop passes through: the j-th of them.                   *)
Trail(t, now, j) ==
    [utime |-> IF Counts(t, now) THEN j ELSE 0,
     cmin  |-> 0,
     csec  |-> IF CountsSeconds(t, now) THEN j ELSE 0,
     i     |-> IF ~Counts(t, now) THEN j + 1 ELSE IF j = 0 THEN 1 ELSE 2]

(* How many rounds it makes.                                               *)
Length(t, now) ==
    IF Counts(t, now) THEN Elapsed(t, now)
    ELSE IF Breaks(t, now, Trail(t, now, 0)) THEN 0 ELSE 60

(* The loop goes from each state of its trail to the next, none of them    *)
(* breaks before the last, and the last does.                              *)
TrailIsTheWay(t, now) ==
    /\ Length(t, now) \in 0..60
    /\ \A j \in 0..60 :
          /\ Breaks(t, now, Trail(t, now, j)) => j >= Length(t, now)
          /\ j < Length(t, now) =>
                Round(t, now, Trail(t, now, j)) = Trail(t, now, j + 1)
    /\ Breaks(t, now, Trail(t, now, Length(t, now)))

LEMMA TrailOfSeconds ==
    ASSUME NEW t \in Stamps, NEW now \in ClockStamps, CountsSeconds(t, now)
    PROVE  TrailIsTheWay(t, now)
  <1>1. Counts(t, now) /\ Length(t, now) = Elapsed(t, now)
    BY DEF Counts, Length
  <1>2. PICK m \in 0..59, s \in 0..60 : t = <<m, s>>
    BY DEF Stamps
  <1>3. PICK n \in 0..59, r \in 0..59 : now = <<n, r>>
    BY DEF ClockStamps
  <1>4. /\ Min(t) = m /\ Sec(t) = s /\ Min(now) = n /\ Sec(now) = r
        /\ t # <<0, 0>> /\ t # now /\ s < r
    BY <1>2, <1>3 DEF Min, Sec, CountsSeconds
  <1>5. \A j \in 0..60 : Trail(t, now, j) =
           [utime |-> j, cmin |-> 0, csec |-> j, i |-> IF j = 0 THEN 1 ELSE 2]
    BY <1>1 DEF Trail
  <1>6. ~(m = 0 /\ s = 0)
    BY <1>2, <1>4
  <1>7. \A j \in 0..60 : Breaks(t, now, Trail(t, now, j)) <=>
           \/ j + s = r /\ n = m
           \/ j + s > 60 /\ n = m + 1
           \/ n = 0 /\ j = r
           \/ j >= 60
    BY <1>4, <1>5, <1>6 DEF Breaks
  <1>8. PICK e : e = Elapsed(t, now)
    OBVIOUS
  <1>9. \/ n = m /\ e = r - s
        \/ n # m /\ n = 0 /\ e = r
        \/ n # m /\ n # 0 /\ n = m + 1 /\ ((e = 60 /\ 60 <= 61 - s) \/ (e = 61 - s /\ 61 - s <= 60))
        \/ n # m /\ n # 0 /\ n # m + 1 /\ e = 60
    BY <1>1, <1>4, <1>8 DEF Elapsed, Least
  <1>10. e \in 0..60
    BY <1>4, <1>9
  <1>11. \A j \in 0..60 : Breaks(t, now, Trail(t, now, j)) => j >= e
    BY <1>4, <1>7, <1>9, <1>10
  <1>12. Breaks(t, now, Trail(t, now, e))
    BY <1>4, <1>7, <1>9, <1>10
  <1>13. ASSUME NEW j \in 0..60, j < e
         PROVE  Round(t, now, Trail(t, now, j)) = Trail(t, now, j + 1)
    BY <1>4, <1>5, <1>10, <1>13 DEF Round
  <1>14. QED
    BY <1>1, <1>8, <1>10, <1>11, <1>12, <1>13 DEF TrailIsTheWay

LEMMA TrailOfMinutes ==
    ASSUME NEW t \in Stamps, NEW now \in ClockStamps, CountsMinutes(t, now)
    PROVE  TrailIsTheWay(t, now)
  <1>1. Counts(t, now) /\ Length(t, now) = Elapsed(t, now)
    BY DEF Counts, Length
  <1>2. PICK m \in 0..59, s \in 0..60 : t = <<m, s>>
    BY DEF Stamps
  <1>3. PICK n \in 0..59, r \in 0..59 : now = <<n, r>>
    BY DEF ClockStamps
  <1>4. /\ Min(t) = m /\ Sec(t) = s /\ Min(now) = n /\ Sec(now) = r
        /\ t # <<0, 0>> /\ r < s /\ m < n
    BY <1>2, <1>3 DEF Min, Sec, CountsMinutes
  <1>5. ~CountsSeconds(t, now)
    BY <1>4 DEF CountsSeconds
  <1>6. \A j \in 0..60 : Trail(t, now, j) =
           [utime |-> j, cmin |-> 0, csec |-> 0, i |-> IF j = 0 THEN 1 ELSE 2]
    BY <1>1, <1>5 DEF Trail
  <1>7. \A j \in 0..60 : Breaks(t, now, Trail(t, now, j)) <=>
           \/ j + s > 60 /\ n = m + 1
           \/ j >= 60
    <2>1. t # now /\ ~(m = 0 /\ s = 0)
      BY <1>2, <1>3, <1>4
    <2>2. QED
      BY <1>4, <1>6, <2>1 DEF Breaks
  <1>8. PICK e : e = Elapsed(t, now)
    OBVIOUS
  <1>9. \/ n = m + 1 /\ ((e = 60 /\ 60 <= 61 - s) \/ (e = 61 - s /\ 61 - s <= 60))
        \/ n # m + 1 /\ e = 60
    BY <1>1, <1>4, <1>5, <1>8 DEF Elapsed, Least
  <1>10. e \in 0..60
    BY <1>4, <1>9
  <1>11. \A j \in 0..60 : Breaks(t, now, Trail(t, now, j)) => j >= e
    BY <1>4, <1>7, <1>9, <1>10
  <1>12. Breaks(t, now, Trail(t, now, e))
    BY <1>4, <1>7, <1>9, <1>10
  <1>13. ASSUME NEW j \in 0..60, j < e
         PROVE  Round(t, now, Trail(t, now, j)) = Trail(t, now, j + 1)
    BY <1>4, <1>6, <1>10, <1>13 DEF Round
  <1>14. QED
    BY <1>1, <1>8, <1>10, <1>11, <1>12, <1>13 DEF TrailIsTheWay

LEMMA TrailOfNothing ==
    ASSUME NEW t \in Stamps, NEW now \in ClockStamps, ~Counts(t, now)
    PROVE  TrailIsTheWay(t, now)
  <1>1. ~CountsSeconds(t, now) /\ ~CountsMinutes(t, now)
    BY DEF Counts
  <1>2. PICK m \in 0..59, s \in 0..60 : t = <<m, s>>
    BY DEF Stamps
  <1>3. PICK n \in 0..59, r \in 0..59 : now = <<n, r>>
    BY DEF ClockStamps
  <1>4. Min(t) = m /\ Sec(t) = s /\ Min(now) = n /\ Sec(now) = r
    BY <1>2, <1>3 DEF Min, Sec
  <1>5. \A j \in 0..61 : Trail(t, now, j) = [utime |-> 0, cmin |-> 0, csec |-> 0, i |-> j + 1]
    BY <1>1 DEF Trail
  <1>6. \A j \in 0..60 : Breaks(t, now, Trail(t, now, j)) <=>
           \/ m = 0 /\ s = 0
           \/ n = m /\ r = s
           \/ n = 0 /\ r = 0
           \/ j = 60
    <2>1. t = now <=> n = m /\ r = s
      BY <1>2, <1>3
    <2>2. QED
      BY <1>4, <1>5, <2>1 DEF Breaks
  <1>7. Length(t, now) = IF Breaks(t, now, Trail(t, now, 0)) THEN 0 ELSE 60
    BY DEF Length
  <1>8. ASSUME NEW j \in 0..60, j < Length(t, now)
        PROVE  Round(t, now, Trail(t, now, j)) = Trail(t, now, j + 1)
    <2>1. ~((m = 0 /\ s = 0) \/ (n = m /\ r = s) \/ (n = 0 /\ r = 0))
      BY <1>6, <1>7, <1>8
    <2>2. ~(r > s) /\ ~(r < s /\ n > m)
      BY <1>1, <1>2, <1>4, <2>1 DEF CountsSeconds, CountsMinutes
    <2>3. Trail(t, now, j) = [utime |-> 0, cmin |-> 0, csec |-> 0, i |-> j + 1]
          /\ Trail(t, now, j + 1) = [utime |-> 0, cmin |-> 0, csec |-> 0, i |-> (j + 1) + 1]
      BY <1>5
    <2>4. QED
      BY <1>4, <2>2, <2>3 DEF Round
  <1>9. QED
    BY <1>6, <1>7, <1>8 DEF TrailIsTheWay

LEMMA EveryTrailIsTheWay ==
    ASSUME NEW t \in Stamps, NEW now \in ClockStamps
    PROVE  TrailIsTheWay(t, now)
  BY TrailOfSeconds, TrailOfMinutes, TrailOfNothing DEF Counts

LEMMA SmallestNumber ==
    ASSUME NEW S \in SUBSET Nat, S # {}
    PROVE  \E k \in S : \A j \in S : k <= j
  <1>1. IsWellFoundedOn({p \in Nat \X Nat : p[1] < p[2]}, Nat)
    BY NatLessThanWellFounded DEF OpToRel
  <1>2. PICK k \in S : \A j \in S : ~(<<j, k>> \in {p \in Nat \X Nat : p[1] < p[2]})
    BY <1>1, WFMin, Zenon
  <1>3. \A j \in S : ~(j < k) /\ j \in Nat /\ k \in Nat
    BY <1>2
  <1>4. QED
    BY <1>3

(* The loop that goes on from the start ends where its trail does.         *)
LEMMA LoopEndsItsTrail ==
    ASSUME NEW t \in Stamps, NEW now \in ClockStamps
    PROVE  LoopEnd(t, now) = Trail(t, now, Length(t, now))
  <1> DEFINE f     == LoopFrom(t, now)
             len   == Length(t, now)
             at(j) == Trail(t, now, j)
             off   == {j \in 0..len : f[at(j)] # f[at(0)]}
  <1>1. /\ len \in 0..60
        /\ \A j \in 0..60 : Breaks(t, now, at(j)) => j >= len
        /\ \A j \in 0..60 : j < len => Round(t, now, at(j)) = at(j + 1)
        /\ Breaks(t, now, at(len))
    BY EveryTrailIsTheWay DEF TrailIsTheWay
  <1>2. \A j \in 0..60 : at(j) \in LoopStates
    BY DEF Trail, LoopStates
  <1>3. \A s \in LoopStates : f[s] = IF Breaks(t, now, s) THEN s ELSE f[Round(t, now, s)]
    <2>1. Walks(f, t, now)
      BY LoopUnfolds
    <2> HIDE DEF f
    <2>2. QED
      BY <2>1 DEF Walks
  <1>4. at(0) = [utime |-> 0, cmin |-> 0, csec |-> 0, i |-> 1]
    BY DEF Trail
  <1>5. LoopEnd(t, now) = f[at(0)]
    BY <1>4 DEF LoopEnd
  <1> HIDE DEF f, len, at
  <1>6. off = {}
    <2> SUFFICES ASSUME off # {} PROVE FALSE
      OBVIOUS
    <2>1. off \subseteq Nat
      BY <1>1
    <2>2. PICK k \in off : \A j \in off : k <= j
      BY <2>1, SmallestNumber
    <2>3. k \in 1..len /\ f[at(k)] # f[at(0)]
      BY <1>1, <2>2
    <2>4. k - 1 \in 0..60 /\ k - 1 < len /\ k - 1 \in 0..len /\ k - 1 \notin off
      BY <1>1, <2>2, <2>3
    <2>5. f[at(k - 1)] = f[at(0)]
      BY <2>4
    <2>6. ~Breaks(t, now, at(k - 1)) /\ Round(t, now, at(k - 1)) = at((k - 1) + 1)
      BY <1>1, <2>4
    <2>7. (k - 1) + 1 = k
      BY <2>3, <1>1
    <2>8. f[at(k - 1)] = f[at(k)]
      BY <1>2, <1>3, <2>4, <2>6, <2>7
    <2>9. QED
      BY <2>3, <2>5, <2>8
  <1>7. f[at(len)] = f[at(0)]
    BY <1>1, <1>6
  <1>8. f[at(len)] = at(len)
    BY <1>1, <1>2, <1>3
  <1>9. QED
    BY <1>5, <1>7, <1>8 DEF at, len

(* Whatever the stamp, one of the clock or one the loop left, and whatever *)
(* the clock shows, the loop comes to one of its breaks after at most      *)
(* sixty rounds, and what it has counted then is the closed form.          *)
LEMMA LoopComputes ==
    ASSUME NEW t \in Stamps, NEW now \in ClockStamps
    PROVE  /\ Breaks(t, now, LoopEnd(t, now))
           /\ GetTimeFinal(t, now) = GetTimeFinalLoop(t, now)
  <1>1. /\ Breaks(t, now, Trail(t, now, Length(t, now)))
        /\ Length(t, now) \in 0..60
    BY EveryTrailIsTheWay DEF TrailIsTheWay
  <1>2. LoopEnd(t, now) = Trail(t, now, Length(t, now))
    BY LoopEndsItsTrail
  <1>3. Elapsed(t, now) = IF Counts(t, now) THEN Length(t, now) ELSE 0
    <2>1. CASE Counts(t, now)
      BY <2>1 DEF Length
    <2>2. CASE ~Counts(t, now)
      BY <2>2 DEF Elapsed, Counts
    <2>3. QED
      BY <2>1, <2>2
  <1>4. CountsSeconds(t, now) => Counts(t, now)
    BY DEF Counts
  <1>5. /\ Trail(t, now, Length(t, now)).utime = Elapsed(t, now)
        /\ Trail(t, now, Length(t, now)).cmin = 0
        /\ Trail(t, now, Length(t, now)).csec =
              IF CountsSeconds(t, now) THEN Elapsed(t, now) ELSE 0
    BY <1>3, <1>4 DEF Trail
  <1>6. QED
    BY <1>1, <1>2, <1>5 DEF GetTimeFinalLoop, GetTimeFinal

(* The loop of get_time_final comes to a break for every stamp, and leaves *)
(* what the closed form says, in its result and in *lmin:*lsec.            *)
THEOREM LoopComputesClosedForm == Spec => []LoopIsClosedForm
  <1>1. TypeOK => LoopIsClosedForm
    <2> SUFFICES ASSUME TypeOK, AtStart,
                        NEW t \in Stamped, NEW age \in 0..MaxAge
                 PROVE  /\ Breaks(t, After(t, age), LoopEnd(t, After(t, age)))
                        /\ GetTimeFinal(t, After(t, age)) = GetTimeFinalLoop(t, After(t, age))
      BY DEF LoopIsClosedForm
    <2>1. t \in ClockStamps
      BY StampedIsShown
    <2>2. After(t, age) \in ClockStamps
      BY <2>1, AfterIsShown, ProbeAssumption
    <2>3. t \in Stamps
      BY <2>1 DEF ClockStamps, Stamps
    <2>4. QED
      BY <2>2, <2>3, LoopComputes
  <1>2. QED
    BY <1>1, TypeCorrect, PTL
=============================================================================
