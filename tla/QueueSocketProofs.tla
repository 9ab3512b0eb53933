--------------------------- MODULE QueueSocketProofs ---------------------------
(* Theorems about the two ends of the server that clients have to do with: *)
(* the request queue of cor0, for any number of requests, and the socket   *)
(* session with its descriptors, for any clients, anything they send, any  *)
(* buffer length and any number of descriptors.                            *)
EXTENDS Cor0, Descriptors, SequenceTheorems, FiniteSetTheorems, TLAPS

(* The queue has no more than one slot, and the worker puts its request in *)
(* it and takes it back before it receives another one.  Whatever the      *)
(* closing thread does in between, the slot itself stays.                  *)
Kept == Len(slots) >= 1 /\ slots[1] \in Slots
            /\ slots[1].status = "handle" /\ slots[1].buffer = req

\* Before and after c00_libmod_update has put it there.
Before == {"idle", "clear", "put", "search", "scan", "xset", "set", "append", "add"}
Behind == {"head", "records", "take", "select"}

QueueInv ==
    /\ Len(slots) <= 1
    /\ queued /\ wpc \in Before \cup {"dbi0", "answer"} /\ Len(slots) >= 1
           => slots[1].status = "empty"
    /\ queued /\ wpc \in {"xset", "set"} => Len(slots) >= 1
    /\ queued /\ wpc \in {"append", "add"} => Len(slots) < 1
    /\ queued /\ wpc \in Behind => Kept
    /\ wpc = "records" => i \in {1, 2}

(* The worker comes to a read without a test only from such a stretch.     *)
Window ==
    /\ ~queued /\ wpc \in Inside => caught \in Inside
    /\ ~alive => caught \in Inside

WorkerInv ==
    /\ wpc \notin {"idle", "ended"} => hdc.code \in Codes /\ hdc.buffer = req /\ req \in Requests
    /\ queued => "cor0" \in mods
    /\ wpc \in (Before \ {"idle"}) \cup Behind => "cor0" \in mods

(* Beside the latest record the mirror holds nothing once it was cleared.  *)
Blank == Len(mirror.recs) < 1

MirrorInv ==
    /\ "cor0" \notin mods => Blank /\ ~exists
    /\ xpc \in {"free", "done"} => ~exists
    /\ ~uncleared /\ wpc \in (Before \ {"idle", "clear"}) \cup {"head"} => Blank
    /\ ~uncleared /\ wpc = "records" /\ i = 1 => Blank
    /\ ~uncleared /\ wpc \in {"idle", "records", "take", "select", "dbi0", "answer"}
           => Blank \/ (Len(mirror.recs) <= 1 /\ mirror.recs[1].buffer = req)

IInv == TypeOK /\ QueueInv /\ Window /\ WorkerInv /\ MirrorInv

(* What is found in a queue of one slot.                                   *)
LEMMA FirstOfOne ==
    ASSUME slots \in Seq(Slots), Len(slots) <= 1, Len(slots) >= 1,
           NEW st, slots[1].status = st
    PROVE  First(st) = 1 /\ First(st) # 0
  <1>1. DOMAIN slots = {1}
    OBVIOUS
  <1>0. {k \in DOMAIN slots : slots[k].status = st} = {1}
    BY <1>1
  <1>2. Min({1}) = 1
    BY DEF Min
  <1>3. First(st) = Min({1})
    BY <1>0, Zenon DEF First
  <1>4. QED
    BY <1>2, <1>3

LEMMA OneLong == ASSUME NEW n \in Nat, n <= 1, n >= 1 PROVE n = 1
  OBVIOUS

(* What search finds is a slot that xset can use, where there is one.      *)
LEMMA ScanFinds ==
    ASSUME IInv, queued, wpc = "scan"
    PROVE  IF c00_libmod_search(hdc.code) THEN Len(slots) >= 1 ELSE Len(slots) < 1
  <1>1. slots \in Seq(Slots) /\ Len(slots) <= 1 /\ Len(slots) \in Nat
    BY LenProperties DEF IInv, TypeOK, QueueInv
  <1>2. CASE Len(slots) < 1
    <2>1. DOMAIN slots = {}
      BY <1>1, <1>2
    <2>2. QED
      BY <1>2, <2>1 DEF c00_libmod_search
  <1>3. CASE Len(slots) >= 1
    <2>1. DOMAIN slots = {1} /\ slots[1].status = "empty"
      <3>1. DOMAIN slots = {1}
        <4>1. DOMAIN slots = 1..Len(slots)
          BY <1>1
        <4>2. Len(slots) = 1
          BY <1>1, <1>3, OneLong, Zenon
        <4>3. QED
          BY <4>1, <4>2
      <3>2. slots[1].status = "empty"
        BY <1>3 DEF IInv, QueueInv, Before
      <3>3. QED
        BY <3>1, <3>2
    <2>2. c00_libmod_search(hdc.code)
      BY <2>1 DEF c00_libmod_search, Held
    <2>3. QED
      BY <1>3, <2>2
  <1>4. QED
    BY <1>1, <1>2, <1>3

(* The queue after a request was put in it while it held none.             *)
LEMMA StoreKeeps ==
    ASSUME IInv, Store
    PROVE  slots' \in Seq(Slots) /\ Len(slots') <= 1 /\ Kept'
  <1>1. /\ slots \in Seq(Slots) /\ Len(slots) <= 1
        /\ Slot("handle", hdc.code, req) \in Slots /\ hdc.buffer = req
    BY DEF Store, IInv, TypeOK, QueueInv, WorkerInv, Slot, Slots, Statuses
  <1>2. ASSUME NEW q, slots' = q, q \in Seq(Slots), Len(q) = 1,
               q[1] = Slot("handle", hdc.code, req)
        PROVE  slots' \in Seq(Slots) /\ Len(slots') <= 1 /\ Kept'
    <2>1. req' = req
      BY DEF Store
    <2>2. QED
      BY <1>1, <1>2, <2>1 DEF Kept, Slot
  <1>3. CASE wpc = "add" /\ slots' = c00_libmod_append(hdc.code, hdc.buffer)
    <2>1. slots = <<>>
      <3>1. Len(slots) < 1
        BY <1>3 DEF Store, IInv, QueueInv
      <3>2. Len(slots) \in Nat
        BY <1>1, LenProperties
      <3>3. Len(slots) = 0
        BY <3>1, <3>2
      <3>4. QED
        BY <1>1, <3>3, EmptySeq
    <2>2. slots' = Append(slots, Slot("handle", hdc.code, req))
      BY <1>1, <1>3 DEF c00_libmod_append
    <2>3. PICK q : q = Append(slots, Slot("handle", hdc.code, req))
      OBVIOUS
    <2>4. q \in Seq(Slots) /\ Len(q) = 1 /\ q[1] = Slot("handle", hdc.code, req)
      BY <1>1, <2>1, <2>3
    <2>5. QED
      BY <1>2, <2>2, <2>3, <2>4
  <1>4. CASE wpc = "set" /\ slots' = c00_libmod_xset(hdc.code, hdc.buffer)
    <2>1. Len(slots) >= 1 /\ slots[1].status = "empty"
      BY <1>4 DEF Store, IInv, QueueInv, Before
    <2>2. First("empty") = 1 /\ First("empty") # 0
      BY <1>1, <2>1, FirstOfOne
    <2>3. c00_libmod_xset(hdc.code, hdc.buffer) = [slots EXCEPT ![1] = Slot("handle", hdc.code, req)]
      BY <1>1, <2>2, Zenon DEF c00_libmod_xset
    <2>4. 1 \in 1..Len(slots) /\ Len(slots) = 1
      <3>1. Len(slots) \in Nat
        BY <1>1, LenProperties
      <3>2. Len(slots) = 1
        BY <1>1, <2>1, <3>1, OneLong, Zenon
      <3>3. QED
        BY <3>2
    <2>5. PICK q : q = [slots EXCEPT ![1] = Slot("handle", hdc.code, req)]
      OBVIOUS
    <2>6. q \in Seq(Slots) /\ Len(q) = 1 /\ q[1] = Slot("handle", hdc.code, req)
      BY <1>1, <2>4, <2>5, ExceptSeq
    <2>7. QED
      BY <1>2, <1>4, <2>3, <2>5, <2>6
  <1>5. QED
    BY <1>3, <1>4 DEF Store

(* The request that is taken back is the one that was put.                 *)
LEMMA TakeReturns ==
    ASSUME IInv, queued, wpc = "select", c00_libmod_select
    PROVE  /\ hdc' \in [code : Codes, buffer : {req}, core : Codes \cup {None}]
           /\ slots' \in Seq(Slots) /\ Len(slots') <= 1 /\ Len(slots') >= 1
           /\ slots'[1].status = "empty"
  <1>1. slots \in Seq(Slots) /\ Len(slots) <= 1 /\ Len(slots) >= 1
        /\ slots[1] \in Slots /\ slots[1].status = "handle" /\ slots[1].buffer = req
    BY DEF IInv, TypeOK, QueueInv, Kept, Behind
  <1>2. DOMAIN slots = {1} /\ slots[1].status = "handle"
    <2>1. DOMAIN slots = 1..Len(slots) /\ Len(slots) \in Nat
      BY <1>1, LenProperties
    <2>2. DOMAIN slots = {1}
      BY <1>1, <2>1
    <2>3. QED
      BY <1>1, <2>2, Zenon
  <1>3. First("handle") = 1 /\ First("handle") # 0
    BY <1>1, <1>2, FirstOfOne
  <1>4. /\ hdc' = [hdc EXCEPT !.code = slots[1].code, !.buffer = slots[1].buffer]
        /\ slots' = [slots EXCEPT ![1].status = "empty", ![1].buffer = None]
    BY <1>3, Zenon DEF c00_libmod_select
  <1>5. slots' = [slots EXCEPT ![1] = [@ EXCEPT !.status = "empty", !.buffer = None]]
    BY <1>1, <1>2, <1>4
  <1>6. [slots[1] EXCEPT !.status = "empty", !.buffer = None] \in Slots
    <2>1. slots[1] \in Slots
      BY <1>1
    <2>2. QED
      BY <2>1 DEF Slots, Statuses
  <1>7. hdc \in [code : Codes \cup {None}, buffer : 0..R, core : Codes \cup {None}] /\ slots[1].code \in Codes
    BY <1>1 DEF IInv, TypeOK, Slots
  <1>8. hdc' \in [code : Codes, buffer : {req}, core : Codes \cup {None}]
    BY <1>1, <1>4, <1>7
  <1>9. slots' \in Seq(Slots) /\ Len(slots') = Len(slots)
    BY <1>1, <1>2, <1>5, <1>6, ExceptSeq
  <1>10. slots'[1].status = "empty"
    <2>1. slots'[1] = [slots[1] EXCEPT !.status = "empty", !.buffer = None]
      BY <1>2, <1>5
    <2>2. slots[1] \in Slots
      BY <1>1
    <2>3. QED
      BY <2>1, <2>2 DEF Slots
  <1>11. QED
    BY <1>1, <1>8, <1>9, <1>10
-----------------------------------------------------------------------------
LEMMA EmptyMirror ==
    Empty \in [head : BOOLEAN, recs : Seq(Slots)] /\ Len(Empty.recs) < 1
  BY DEF Empty

LEMMA IInvInit == Init => IInv
  <1> SUFFICES ASSUME Init PROVE IInv
    OBVIOUS
  <1> USE RAssumption DEF Init, None, Requests
  <1>1. <<>> \in Seq(Slots) /\ Len(<<>>) < 1
    OBVIOUS
  <1>2. TypeOK
    <2>0. ("cor0" \in mods) \in BOOLEAN
      OBVIOUS
    <2>1. /\ queued \in BOOLEAN /\ exists \in BOOLEAN /\ asked \in BOOLEAN
          /\ alive \in BOOLEAN /\ uncleared \in BOOLEAN
      BY <2>0, Zenon
    <2>2. mirror = Empty
      BY DEF Empty
    <2>3. /\ mods \subseteq {"cor0", "dbi0"}
          /\ slots \in Seq(Slots)
          /\ req \in 0..R
          /\ hdc \in [code : Codes \cup {None}, buffer : 0..R, core : Codes \cup {None}]
          /\ wpc = "idle" /\ i \in Nat /\ xpc = "none" /\ caught = "none"
      BY <1>1
    <2>4. QED
      BY <2>1, <2>2, <2>3, EmptyMirror DEF TypeOK, Places
  <1>3. QueueInv /\ Window /\ WorkerInv
    <2>1. Len(slots) < 1 /\ wpc = "idle" /\ alive
      BY <1>1
    <2>2. QueueInv /\ Window
      BY <1>1, <2>1 DEF QueueInv, Window, Behind, Inside
    <2>3. WorkerInv
      BY <2>1, Zenon DEF WorkerInv, Before, Behind
    <2>4. QED
      BY <2>2, <2>3
  <1>4. MirrorInv
    BY <1>1 DEF MirrorInv, Blank, Before
  <1>5. QED
    BY <1>2, <1>3, <1>4 DEF IInv

LEMMA IInvStep == IInv /\ [Next]_vars => IInv'
  <1> SUFFICES ASSUME IInv, [Next]_vars PROVE IInv'
    OBVIOUS
  <1> USE RAssumption DEF IInv, Goes, Requests, None, closing, Places, Inside, Before, Behind
  <1>1. CASE UNCHANGED vars
    BY <1>1 DEF vars, disk, queue, TypeOK, QueueInv, Window, WorkerInv, MirrorInv, Kept, Blank
  <1>2. CASE Receive
    BY <1>2 DEF Receive, disk, queue, TypeOK, QueueInv, Window, WorkerInv, MirrorInv, Kept, Blank
  <1>3. CASE Clear
    <2>2. mirror' \in {mirror, Empty} /\ uncleared' \in BOOLEAN
      BY <1>3, Zenon DEF Clear, libcrt_clear
    <2>3. TypeOK'
      BY <1>3, <2>2, EmptyMirror DEF Clear, libcrt_clear, queue, TypeOK
    <2>4. QueueInv' /\ Window' /\ WorkerInv'
      BY <1>3 DEF Clear, libcrt_clear, queue, TypeOK, QueueInv, Window, WorkerInv, Kept
    <2>5. MirrorInv'
      BY <1>3, EmptyMirror DEF Clear, libcrt_clear, queue, TypeOK, WorkerInv, MirrorInv, Blank
    <2>6. QED
      BY <1>3, <2>3, <2>4, <2>5 DEF Clear, queue
  <1>4. ASSUME NEW pc \in Before \cup Behind, NEW there, NEW gone, TestQueue(pc, there, gone),
               \/ pc = "put" /\ there = "search" /\ gone = "take"
               \/ pc = "search" /\ there = "scan" /\ gone = "append"
               \/ pc = "xset" /\ there = "set" /\ gone = "head"
               \/ pc = "append" /\ there = "add" /\ gone = "head"
               \/ pc = "take" /\ there = "select" /\ gone = "dbi0"
        PROVE  IInv'
    <2>1. /\ UNCHANGED <<mods, disk, queue, req, hdc, i, asked, alive, closing>>
          /\ wpc = pc /\ wpc' = IF queued THEN there ELSE gone
      BY <1>4 DEF TestQueue
    <2>2. TypeOK'
      BY <1>4, <2>1 DEF disk, queue, TypeOK
    <2>3. QueueInv' /\ Window'
      BY <1>4, <2>1 DEF disk, queue, TypeOK, QueueInv, Window, Kept
    <2>4. WorkerInv' /\ MirrorInv'
      BY <1>4, <2>1 DEF disk, queue, TypeOK, WorkerInv, MirrorInv, Blank
    <2>5. QED
      BY <2>2, <2>3, <2>4
  <1>5. CASE Put \/ Search \/ Overwrite \/ Extend \/ Take
    BY <1>4, <1>5 DEF Put, Search, Overwrite, Extend, Take
  <1>6. CASE Scan
    BY <1>6, ScanFinds DEF Scan, disk, queue, TypeOK, QueueInv, Window, WorkerInv,
       MirrorInv, Kept, Blank
  <1>7. CASE Store
    <2>1. slots' \in Seq(Slots) /\ Len(slots') <= 1 /\ Kept'
      BY <1>7, StoreKeeps
    <2>2. /\ wpc \in {"set", "add"} /\ wpc' = "head" /\ queued
          /\ UNCHANGED <<mods, queued, disk, req, hdc, i, asked, alive, closing>>
      BY <1>7 DEF Store
    <2>3. TypeOK' /\ QueueInv' /\ Window'
      <3>1. TypeOK'
        BY <2>1, <2>2 DEF disk, TypeOK
      <3>2. QueueInv'
        BY <2>1, <2>2 DEF QueueInv
      <3>3. Window'
        BY <2>2 DEF Window
      <3>4. QED
        BY <3>1, <3>2, <3>3
    <2>4. WorkerInv' /\ MirrorInv'
      BY <2>1, <2>2 DEF disk, TypeOK, WorkerInv, MirrorInv, Blank
    <2>5. QED
      BY <2>3, <2>4
  <1>8. CASE WriteHead
    <2>1. mirror' \in {mirror, [mirror EXCEPT !.head = TRUE]} /\ UNCHANGED <<exists, uncleared>>
      BY <1>8 DEF WriteHead, libcrt_update, disk
    <2>2. /\ wpc = "head" /\ wpc' = "records" /\ i' = 1 /\ alive
          /\ UNCHANGED <<mods, queue, req, hdc, asked, alive, closing>>
      BY <1>8 DEF WriteHead
    <2>3. mirror' \in [head : BOOLEAN, recs : Seq(Slots)] /\ mirror'.recs = mirror.recs
      BY <2>1 DEF TypeOK
    <2>4. TypeOK'
      BY <2>1, <2>2, <2>3 DEF queue, TypeOK
    <2>5. QueueInv' /\ Window'
      BY <2>2 DEF queue, TypeOK, QueueInv, Window, Kept
    <2>6. WorkerInv' /\ MirrorInv'
      BY <2>1, <2>2, <2>3 DEF queue, TypeOK, WorkerInv, MirrorInv, Blank
    <2>7. QED
      BY <2>4, <2>5, <2>6
  <1>9. CASE WriteRecord
    <2>1. /\ i = 1 /\ slots[1] \in Slots /\ slots[1].buffer = req
      BY <1>9 DEF WriteRecord, QueueInv, Kept
    <2>2. \/ UNCHANGED mirror
          \/ mirror' = [mirror EXCEPT !.recs = Append(@, slots[1])]
      BY <1>9, <2>1 DEF WriteRecord, libcrt_update
    <2>3. Blank => Blank' \/ (Len(mirror'.recs) <= 1 /\ mirror'.recs[1] = slots[1])
      BY <2>1, <2>2 DEF TypeOK, Blank
    <2>4. mirror' \in [head : BOOLEAN, recs : Seq(Slots)]
      <3>1. mirror \in [head : BOOLEAN, recs : Seq(Slots)]
        BY DEF TypeOK
      <3>2. Append(mirror.recs, slots[1]) \in Seq(Slots)
        BY <2>1, <3>1, AppendProperties
      <3>3. QED
        BY <2>2, <3>1, <3>2
    <2>5. TypeOK'
      BY <1>9, <2>1, <2>4 DEF WriteRecord, libcrt_update, queue, TypeOK
    <2>6. QED
      BY <1>9, <2>1, <2>3, <2>5 DEF WriteRecord, libcrt_update, queue,
         QueueInv, Window, WorkerInv, MirrorInv, Kept, Blank
  <1>10. CASE WroteAll
    BY <1>10 DEF WroteAll, disk, queue, TypeOK, QueueInv, Window, WorkerInv, MirrorInv, Kept, Blank
  <1>11. CASE TakeBack
    <2>1. /\ hdc' \in [code : Codes, buffer : {req}, core : Codes \cup {None}]
          /\ slots' \in Seq(Slots) /\ Len(slots') <= 1 /\ Len(slots') >= 1
          /\ slots'[1].status = "empty"
      BY <1>11, TakeReturns DEF TakeBack
    <2>2. /\ wpc = "select" /\ wpc' = "dbi0" /\ queued
          /\ UNCHANGED <<mods, queued, disk, req, i, asked, alive, closing>>
      BY <1>11 DEF TakeBack
    <2>3. TypeOK'
      BY <2>1, <2>2 DEF disk, TypeOK
    <2>4. QueueInv' /\ Window'
      BY <2>1, <2>2 DEF QueueInv, Window
    <2>5. WorkerInv' /\ MirrorInv'
      BY <2>1, <2>2 DEF disk, TypeOK, WorkerInv, MirrorInv, Blank
    <2>6. QED
      BY <2>3, <2>4, <2>5
  <1>12. CASE ReadThroughNull
    <2>1. /\ alive' = FALSE /\ wpc \in Inside /\ ~queued
          /\ UNCHANGED <<mods, disk, queue, req, hdc, wpc, i, asked, closing>>
      BY <1>12 DEF ReadThroughNull
    <2>2. TypeOK'
      <3> HIDE DEF Places, Inside, Before, Behind
      <3>1. QED
        BY <2>1 DEF disk, queue, TypeOK
    <2>3. QueueInv' /\ Window'
      BY <2>1 DEF queue, QueueInv, Window, Kept
    <2>4. WorkerInv' /\ MirrorInv'
      BY <2>1 DEF disk, queue, WorkerInv, MirrorInv, Blank
    <2>5. QED
      BY <2>2, <2>3, <2>4
  <1>13. CASE Complete \/ Answered \/ Cancelled
    <2>1. CASE Complete
      BY <2>1 DEF Complete, disk, queue, TypeOK, QueueInv, Window, WorkerInv, MirrorInv,
         Kept, Blank
    <2>2. CASE Answered
      BY <2>2 DEF Answered, disk, queue, TypeOK, QueueInv, Window, WorkerInv, MirrorInv,
         Kept, Blank
    <2>3. CASE Cancelled
      BY <2>3 DEF Cancelled, disk, queue, TypeOK, QueueInv, Window, WorkerInv, MirrorInv,
         Kept, Blank
    <2>4. QED
      BY <1>13, <2>1, <2>2, <2>3
  <1>14. CASE Ask
    BY <1>14 DEF Ask, disk, queue, TypeOK, QueueInv, Window, WorkerInv, MirrorInv, Kept, Blank
  <1>15. CASE ExitRemove
    <2>1. Kept' = Kept
      BY <1>15 DEF ExitRemove, queue, Kept
    <2>2. TypeOK'
      <3>1. /\ exists' = FALSE /\ xpc' = "free"
            /\ UNCHANGED <<mods, mirror, uncleared, queued, slots, req, hdc, wpc, i, asked,
                          alive, caught>>
        BY <1>15 DEF ExitRemove, queue
      <3> HIDE DEF Places, Inside, Before, Behind
      <3>2. QED
        BY <3>1 DEF TypeOK
    <2>3. QueueInv' /\ Window'
      <3>1. QueueInv'
        BY <1>15, <2>1 DEF ExitRemove, queue, QueueInv
      <3>2. Window'
        BY <1>15 DEF ExitRemove, queue, Window
      <3>3. QED
        BY <3>1, <3>2
    <2>4. WorkerInv' /\ MirrorInv'
      BY <1>15 DEF ExitRemove, queue, TypeOK, WorkerInv, MirrorInv, Blank
    <2>5. QED
      BY <2>2, <2>3, <2>4
  <1>16. CASE ExitFree
    <2>1. Kept' = Kept
      BY <1>16 DEF ExitFree, Kept
    <2>2. TypeOK' /\ QueueInv' /\ Window'
      <3>1. TypeOK'
        BY <1>16 DEF ExitFree, disk, TypeOK
      <3>2. QueueInv'
        BY <1>16, <2>1 DEF ExitFree, QueueInv
      <3>3. Window'
        BY <1>16 DEF ExitFree, Window
      <3>4. QED
        BY <3>1, <3>2, <3>3
    <2>3. WorkerInv' /\ MirrorInv'
      BY <1>16 DEF ExitFree, disk, TypeOK, WorkerInv, MirrorInv, Blank
    <2>4. QED
      BY <2>2, <2>3
  <1>17. QED
    BY <1>1, <1>2, <1>3, <1>5, <1>6, <1>7, <1>8, <1>9, <1>10, <1>11, <1>12,
       <1>13, <1>14, <1>15, <1>16 DEF Next

LEMMA IInvAlways == Spec => []IInv
  BY IInvInit, IInvStep, PTL DEF Spec
-----------------------------------------------------------------------------
(* The type invariant.                                                     *)
THEOREM QueueTyped == Spec => []TypeOK
  BY IInvAlways, PTL DEF IInv

(* The queue never grows beyond one slot, however many requests pass.      *)
THEOREM QueueStaysShort == Spec => []OneSlot
  <1>1. IInv => OneSlot
    BY DEF IInv, TypeOK, QueueInv, OneSlot
  <1>2. QED
    BY IInvAlways, <1>1, PTL

(* What the worker has in hand is its latest request.                      *)
THEOREM RequestsAreOwn == Spec => []OwnRequest
  <1>1. IInv => OwnRequest
    BY DEF IInv, WorkerInv, OwnRequest
  <1>2. QED
    BY IInvAlways, <1>1, PTL

(* No request is lost between search and xset.                             *)
THEOREM NoRequestIsLost == Spec => []RequestIsQueued
  <1>1. IInv => RequestIsQueued
    BY DEF IInv, TypeOK, QueueInv, Kept, Behind, Held, RequestIsQueued
  <1>2. QED
    BY IInvAlways, <1>1, PTL

(* The mirror shows one request, the latest, where it could be cleared.    *)
THEOREM MirrorShowsTheLatest == Spec => []MirrorOfTheLatest
  <1>1. IInv => MirrorOfTheLatest
    BY DEF IInv, TypeOK, Places, MirrorInv, Blank, Before, MirrorOfTheLatest
  <1>2. QED
    BY IInvAlways, <1>1, PTL

(* The process dies of the queue only if the queue was freed inside of     *)
(* what the worker does with it.                                           *)
THEOREM CrashIsInside == Spec => []CrashInsideOnly
  <1>1. IInv => CrashInsideOnly
    BY DEF IInv, Window, CrashInsideOnly
  <1>2. QED
    BY IInvAlways, <1>1, PTL

(* A mirror that the module's exit has removed is not made again.          *)
THEOREM RemovedForGood == Spec => MirrorStaysRemoved
  <1> DEFINE Gone == (xpc \in {"free", "done"}) => ~exists'
  <1>1. IInv /\ IInv' /\ [Next]_vars => [Gone]_vars
    <2> SUFFICES ASSUME IInv, IInv', Next, xpc \in {"free", "done"} PROVE ~exists'
      OBVIOUS
    <2>1. xpc' \in {"free", "done"}
      BY DEF Next, Receive, Clear, TestQueue, Put, Search, Overwrite, Extend, Take, Scan, Store,
         TakeBack, WriteHead, WriteRecord, WroteAll, ReadThroughNull, Complete, Answered,
         Cancelled, Ask, ExitRemove, ExitFree, closing
    <2>2. QED
      BY <2>1 DEF IInv, MirrorInv
  <1>2. QED
    BY IInvAlways, <1>1, PTL DEF Spec, MirrorStaysRemoved
-----------------------------------------------------------------------------
(* The socket session and its descriptors.                                 *)

(* The CRs in a row that end at byte n, counted as the reader meets them.  *)
Run(s, n) == {k \in 1..n : \A m \in k..n : s[m] = "r"}

LEMMA RunIsFinite ==
    ASSUME NEW s, NEW n \in Nat
    PROVE  /\ IsFiniteSet(Run(s, n)) /\ CRsBefore(s, n) = Cardinality(Run(s, n))
           /\ CRsBefore(s, n) \in Nat
<1>1. CRsBefore(s, n) = Cardinality(Run(s, n))
  BY DEF Run, CRsBefore
<1>2. IsFiniteSet(1..n) /\ Run(s, n) \in SUBSET (1..n)
  BY FS_Interval DEF Run
<1>3. IsFiniteSet(Run(s, n))
  BY <1>2, FS_Subset
<1> QED BY <1>1, <1>3, FS_CardinalityType

LEMMA CRsCount ==
    ASSUME NEW s
    PROVE  /\ CRsBefore(s, 0) = 0
           /\ \A n \in Nat : s[n + 1] = "r" => CRsBefore(s, n + 1) = CRsBefore(s, n) + 1
           /\ \A n \in Nat : s[n + 1] # "r" => CRsBefore(s, n + 1) = 0
<1>1. CRsBefore(s, 0) = 0
  <2>1. Run(s, 0) = {}
    BY DEF Run
  <2> QED BY <2>1, RunIsFinite, FS_EmptySet
<1>2. ASSUME NEW n \in Nat, s[n + 1] = "r"
      PROVE  CRsBefore(s, n + 1) = CRsBefore(s, n) + 1
  <2>1. Run(s, n + 1) = Run(s, n) \cup {n + 1}
    <3>1. ASSUME NEW k \in Run(s, n + 1) PROVE k \in Run(s, n) \cup {n + 1}
      BY <3>1 DEF Run
    <3>2. ASSUME NEW k \in Run(s, n) PROVE k \in Run(s, n + 1)
      BY <1>2, <3>2 DEF Run
    <3>3. n + 1 \in Run(s, n + 1)
      BY <1>2 DEF Run
    <3> QED BY <3>1, <3>2, <3>3
  <2>2. n + 1 \notin Run(s, n)
    BY DEF Run
  <2> QED BY <2>1, <2>2, RunIsFinite, FS_AddElement
<1>3. ASSUME NEW n \in Nat, s[n + 1] # "r"
      PROVE  CRsBefore(s, n + 1) = 0
  <2>1. Run(s, n + 1) = {}
    BY <1>3 DEF Run
  <2> QED BY <2>1, RunIsFinite, FS_EmptySet
<1> QED BY <1>1, <1>2, <1>3

(* What has been read of a text: its ends of lines are those of the text.  *)
Read(w, t) == SubSeq(w, 1, t)
ReadEnds(w, t) == {n \in 1..t : LineEnd(w, n)}

LEMMA EndsOfRead ==
    ASSUME NEW w \in Seq(Bytes), NEW t \in 0..Len(w)
    PROVE  Ends(Read(w, t)) = ReadEnds(w, t)
<1>1. Len(Read(w, t)) = t /\ \A n \in 1..t : Read(w, t)[n] = w[n]
  BY DEF Read
<1>2. ASSUME NEW n \in 1..t
      PROVE  LineEnd(Read(w, t), n) <=> LineEnd(w, n)
  <2>1. Run(Read(w, t), n - 1) = Run(w, n - 1)
    <3>1. \A k \in 1..(n - 1) : \A m \in k..(n - 1) : Read(w, t)[m] = w[m]
      BY <1>1
    <3> QED BY <3>1 DEF Run
  <2>2. CRsBefore(Read(w, t), n - 1) = CRsBefore(w, n - 1)
    BY <2>1 DEF Run, CRsBefore
  <2> QED BY <1>1, <2>2 DEF LineEnd
<1> QED BY <1>1, <1>2 DEF Ends, ReadEnds

LEMMA NextEnd ==
    ASSUME NEW w, NEW t \in Nat
    PROVE  ReadEnds(w, t + 1) = IF LineEnd(w, t + 1) THEN ReadEnds(w, t) \cup {t + 1}
                                ELSE ReadEnds(w, t)
BY DEF ReadEnds

(* The lines that are owed an answer among the ends of lines.              *)
OwedEnds(ends) == {n \in ends : \A m \in ends : m <= n => Good(ends, m)}
AllGood(ends)  == \A n \in ends : Good(ends, n)

LEMMA OwedIsAnswered ==
    ASSUME NEW w \in Seq(Bytes), NEW t \in 0..Len(w)
    PROVE  /\ Owed(Read(w, t)) = Cardinality(OwedEnds(ReadEnds(w, t)))
           /\ IsFiniteSet(OwedEnds(ReadEnds(w, t)))
           /\ Owed(Read(w, t)) \in Nat
<1>1. Owed(Read(w, t)) = Cardinality(OwedEnds(ReadEnds(w, t)))
  BY EndsOfRead DEF Owed, OwedEnds
<1>2. IsFiniteSet(1..t) /\ OwedEnds(ReadEnds(w, t)) \in SUBSET (1..t)
  BY FS_Interval DEF OwedEnds, ReadEnds
<1>3. IsFiniteSet(OwedEnds(ReadEnds(w, t)))
  BY <1>2, FS_Subset
<1> QED BY <1>1, <1>3, FS_CardinalityType

(* A later end of line changes nothing for those before it.                *)
LEMMA GoodIsSettled ==
    ASSUME NEW ends \in SUBSET Nat, NEW e \in Nat, \A n \in ends : n < e,
           NEW m \in ends \cup {e}
    PROVE  Good(ends \cup {e}, m) <=> Good(ends, m)
BY DEF Good

LEMMA OwedNext ==
    ASSUME NEW w \in Seq(Bytes), NEW t \in Nat, t + 1 <= Len(w)
    PROVE  /\ ~LineEnd(w, t + 1) => Owed(Read(w, t + 1)) = Owed(Read(w, t))
           /\ LineEnd(w, t + 1) /\ ~Good(ReadEnds(w, t), t + 1) =>
                 Owed(Read(w, t + 1)) = Owed(Read(w, t))
           /\ LineEnd(w, t + 1) /\ AllGood(ReadEnds(w, t))
                 /\ Good(ReadEnds(w, t), t + 1) =>
                 /\ Owed(Read(w, t + 1)) = Owed(Read(w, t)) + 1
                 /\ AllGood(ReadEnds(w, t + 1))
<1> DEFINE E == ReadEnds(w, t)
           F == ReadEnds(w, t + 1)
<1>1. /\ Owed(Read(w, t)) = Cardinality(OwedEnds(E)) /\ IsFiniteSet(OwedEnds(E))
      /\ Owed(Read(w, t + 1)) = Cardinality(OwedEnds(F))
  BY OwedIsAnswered
<1>2. E \in SUBSET (1..t) /\ F = IF LineEnd(w, t + 1) THEN E \cup {t + 1} ELSE E
  BY NextEnd DEF ReadEnds
<1>3. CASE ~LineEnd(w, t + 1)
  BY <1>1, <1>2, <1>3
<1>4. CASE LineEnd(w, t + 1)
  <2>1. F = E \cup {t + 1} /\ E \in SUBSET Nat /\ (\A n \in E : n < t + 1)
    BY <1>2, <1>4
  <2>2. \A m \in F : Good(F, m) <=> Good(E, m)
    BY <2>1, GoodIsSettled
  <2>3. CASE ~Good(E, t + 1)
    <3>1. OwedEnds(F) = OwedEnds(E)
      BY <2>1, <2>2, <2>3 DEF OwedEnds
    <3> QED BY <1>1, <1>4, <2>3, <3>1
  <2>4. CASE Good(E, t + 1) /\ AllGood(E)
    <3>1. OwedEnds(F) = OwedEnds(E) \cup {t + 1} /\ t + 1 \notin OwedEnds(E)
      BY <2>1, <2>2, <2>4 DEF OwedEnds, AllGood
    <3>2. AllGood(F)
      BY <2>1, <2>2, <2>4 DEF AllGood
    <3> QED BY <1>1, <1>4, <2>4, <3>1, <3>2, FS_AddElement
  <2>5. CASE Good(E, t + 1) /\ ~AllGood(E)
    BY <1>4, <2>5
  <2> QED BY <2>3, <2>4, <2>5
<1> QED BY <1>3, <1>4

(* What the reader looks at when a line ends, the bytes it has stored, is  *)
(* what decides whether the line is owed an answer.                        *)
LastEnd(ends, k) == k \in ends \cup {0} /\ \A n \in ends : n <= k

LEMMA GoodByLength ==
    ASSUME NEW w, NEW t \in Nat, NEW k \in 0..t,
           LineEnd(w, t + 1), LastEnd(ReadEnds(w, t), k)
    PROVE  Good(ReadEnds(w, t), t + 1) <=> t - k > 1 /\ t - k < Length
<1> USE LibsckAssumption
<1>1. CRsBefore(w, t) % 2 = 1
  BY DEF LineEnd
<1>2. t # 0
  BY <1>1, CRsCount
<1>3. w[t] = "r"
  <2>1. PICK n \in Nat : t = n + 1
    BY <1>2
  <2> QED BY <1>1, <2>1, CRsCount
<1>4. k < t
  BY <1>2, <1>3 DEF LastEnd, ReadEnds, LineEnd
<1>5. \A n \in ReadEnds(w, t) : n \in 1..k
  BY DEF LastEnd, ReadEnds
<1>6. (t + 1) - 2 \notin ReadEnds(w, t) \cup {0} <=> t - k > 1
  BY <1>4, <1>5 DEF LastEnd
<1>7. (\E j \in ReadEnds(w, t) \cup {0} : j < t + 1 /\ (t + 1) - j <= Length)
          <=> t - k < Length
  BY <1>4, <1>5 DEF LastEnd
<1> QED BY <1>6, <1>7 DEF Good
-----------------------------------------------------------------------------
(* The inductive invariant of the session.                                 *)
InSession == {"select", "recv", "answer"}

SckTypes ==
    /\ libsck_state \in BOOLEAN
    /\ spc \in {"server", "accept", "accepting", "ended"} \cup InSession
    /\ eol_matched \in {0, 1} /\ ptr \in Seq(Bytes)
    /\ backlog \in Seq(Clients) /\ open \in SUBSET Clients
    /\ spc \in InSession => fdc \in open
    /\ script \in [Clients -> Seq(Bytes)] /\ closed \in SUBSET Clients
    /\ sent \in [Clients -> Nat] /\ taken \in [Clients -> Nat]
    /\ oks \in [Clients -> Nat]
    /\ \A c \in Clients : taken[c] <= sent[c] /\ sent[c] <= Len(script[c])

(* A connection waits once, and nothing has been read from it.             *)
Queued ==
    /\ \A c \in Clients \ open : taken[c] = 0 /\ oks[c] = 0
    /\ \A k \in 1..Len(backlog) : backlog[k] \notin open
    /\ \A k, j \in 1..Len(backlog) : backlog[k] = backlog[j] => k = j

(* The reader: it has matched a CR if an odd number of them came last, it  *)
(* has stored what came after the last end of line, and every line so far  *)
(* was good, else the session would be over.                               *)
Here == ReadEnds(script[fdc], taken[fdc])

Session ==
    /\ spc = "select" => taken[fdc] = 0
    /\ spc = "recv" =>
          /\ AllGood(Here)
          /\ eol_matched = CRsBefore(script[fdc], taken[fdc]) % 2
          /\ Len(ptr) <= taken[fdc] /\ LastEnd(Here, taken[fdc] - Len(ptr))
    /\ spc = "answer" => AllGood(Here) /\ taken[fdc] \in Here

Due(c)     == IF spc = "answer" /\ c = fdc THEN 1 ELSE 0
OwedTo(c)  == Owed(Read(script[c], taken[c]))
Answers(c) == /\ oks[c] + Due(c) <= OwedTo(c)
              /\ running /\ c \notin closed => oks[c] + Due(c) = OwedTo(c)

(* Descriptors, and what libsck_poweroff leaves possible.                  *)
Counted ==
    /\ IsFiniteSet(open) /\ held \in {0, 1}
    /\ Cardinality(open) + held <= Limit
    /\ mpc \in {"sleep", "init", "next", "mem", "close", "ended"}
    /\ running => held = IF mpc \in {"next", "close"} THEN 1 ELSE 0

Lateness ==
    /\ libsck_state => late = {}
    /\ late # {} => spc # "accepting"
    /\ late = {} \/ \E c \in Clients : late = {c}

DInv == /\ SckTypes /\ Queued /\ Session /\ Counted /\ Lateness
        /\ \A c \in Clients : Answers(c)

LEMMA OwedIsNat ==
    ASSUME SckTypes, NEW c \in Clients
    PROVE  OwedTo(c) \in Nat
<1>1. script[c] \in Seq(Bytes) /\ taken[c] \in 0..Len(script[c])
  BY DEF SckTypes
<1> QED BY <1>1, OwedIsAnswered DEF OwedTo

LEMMA NothingOwed ==
    ASSUME NEW w \in Seq(Bytes)
    PROVE  Owed(Read(w, 0)) = 0 /\ ReadEnds(w, 0) = {}
<1>1. ReadEnds(w, 0) = {} /\ OwedEnds({}) = {} /\ 0 \in 0..Len(w)
  BY DEF ReadEnds, OwedEnds
<1>2. Owed(Read(w, 0)) = Cardinality(OwedEnds(ReadEnds(w, 0)))
  BY <1>1, OwedIsAnswered
<1>3. Cardinality({}) = 0
  BY FS_EmptySet
<1> QED BY <1>1, <1>2, <1>3

(* What is owed and answered stays while the reader reads nothing.         *)
LEMMA AnswersStay ==
    ASSUME DInv, UNCHANGED <<script, taken, oks>>, closed \subseteq closed',
           running' => running, NEW c \in Clients, Due(c)' = Due(c)
    PROVE  Answers(c)'
BY DEF DInv, Answers, OwedTo

(* The clients and libsck_poweroff.                                        *)
LEMMA ConnectKeeps ==
    ASSUME DInv, NEW c \in Clients, Connect(c), UNCHANGED map
    PROVE  DInv'
<1> USE DEF Connect, server, clients, map
<1>1. c \notin open /\ \A k \in 1..Len(backlog) : backlog[k] # c
  <2>1. DOMAIN backlog = 1..Len(backlog)
    BY DEF DInv, SckTypes
  <2>2. c \notin open /\ c \notin {backlog[k] : k \in DOMAIN backlog}
    BY DEF Known, ToSet
  <2> QED BY <2>1, <2>2
<1>2. SckTypes'
  BY DEF DInv, SckTypes, InSession
<1>3. Queued'
  <2>1. /\ backlog \in Seq(Clients) /\ Len(backlog') = Len(backlog) + 1
        /\ backlog'[Len(backlog) + 1] = c
        /\ \A k \in 1..Len(backlog) : backlog'[k] = backlog[k]
    BY DEF DInv, SckTypes
  <2>2. \A k \in 1..Len(backlog') : k \in 1..Len(backlog) \/ k = Len(backlog) + 1
    BY <2>1
  <2> QED BY <1>1, <2>1, <2>2 DEF DInv, Queued
<1>4. Session'
  BY DEF DInv, Session, Here
<1>5. Counted' /\ Lateness'
  BY DEF DInv, Counted, Lateness
<1>6. \A d \in Clients : Answers(d)'
  BY AnswersStay DEF Due
<1> QED BY <1>2, <1>3, <1>4, <1>5, <1>6 DEF DInv

LEMMA ClientKeeps ==
    ASSUME DInv, UNCHANGED map,
           libsck_poweroff \/ \E c \in Clients : Send(c) \/ Close(c)
    PROVE  DInv'
<1> USE DEF Send, Close, libsck_poweroff, server, clients, map
<1>1. SckTypes'
  <2>1. ASSUME NEW c \in Clients, Send(c)
        PROVE  SckTypes'
    <3>1. /\ sent' = [sent EXCEPT ![c] = @ + 1] /\ sent[c] < Len(script[c])
          /\ UNCHANGED <<libsck_state, backlog, server, script, closed, taken, oks>>
      BY <2>1
    <3>2. sent' \in [Clients -> Nat]
      BY <3>1 DEF DInv, SckTypes
    <3>3. \A d \in Clients : taken'[d] <= sent'[d] /\ sent'[d] <= Len(script'[d])
      <4> TAKE d \in Clients
      <4>1. taken[d] \in Nat /\ sent[d] \in Nat /\ Len(script[d]) \in Nat
            /\ taken[d] <= sent[d] /\ sent[d] <= Len(script[d])
        BY DEF DInv, SckTypes
      <4>2. CASE d = c
        BY <3>1, <4>1, <4>2 DEF DInv, SckTypes
      <4>3. CASE d # c
        BY <3>1, <4>1, <4>3 DEF DInv, SckTypes
      <4> QED BY <4>2, <4>3
    <3> QED BY <3>1, <3>2, <3>3 DEF DInv, SckTypes
  <2>2. ASSUME NEW c \in Clients, Close(c)
        PROVE  SckTypes'
    BY <2>2 DEF DInv, SckTypes
  <2>3. CASE libsck_poweroff
    BY <2>3 DEF DInv, SckTypes
  <2> QED BY <2>1, <2>2, <2>3
<1>2. Queued' /\ Session'
  BY DEF DInv, Queued, Session, Here
<1>3. Counted' /\ Lateness'
  BY DEF DInv, Counted, Lateness
<1>4. \A d \in Clients : Answers(d)'
  BY AnswersStay DEF Due
<1> QED BY <1>1, <1>2, <1>3, <1>4 DEF DInv

(* Steps of the server that end a session or are outside one.              *)
LEMMA IdleKeeps ==
    ASSUME DInv, UNCHANGED map,
           \/ libsck_server \/ Test \/ AcceptFails \/ Timeout \/ Closed
           \/ AcceptRefused
    PROVE  DInv'
<1>1. /\ spc' \in {"accept", "accepting", "ended"} /\ spc # "answer"
      /\ UNCHANGED <<libsck_state, backlog, fdc, open, eol_matched, ptr, running,
                     script, sent, closed, taken, oks, late, mpc, held>>
      /\ spc' = "accepting" => libsck_state
  BY DEF libsck_server, Test, AcceptFails, Timeout, Closed, AcceptRefused,
         Disconnect, LoopGoesOn, server, clients, map
<1>2. SckTypes'
  BY <1>1 DEF DInv, SckTypes, InSession
<1>3. Queued' /\ Session'
  BY <1>1 DEF DInv, Queued, Session
<1>4. Counted' /\ Lateness'
  BY <1>1 DEF DInv, Counted, Lateness
<1>5. \A c \in Clients : Answers(c)'
  BY <1>1, AnswersStay DEF Due
<1> QED BY <1>2, <1>3, <1>4, <1>5 DEF DInv

LEMMA AcceptKeeps ==
    ASSUME DInv, Accept, UNCHANGED map, Cardinality(open' \ open) <= Free
    PROVE  DInv'
<1> USE DEF Accept, clients, map
<1>1. /\ backlog \in Seq(Clients) /\ backlog # <<>>
      /\ fdc' = backlog[1] /\ fdc' \in Clients /\ fdc' \notin open
      /\ backlog' \in Seq(Clients) /\ Len(backlog') = Len(backlog) - 1
      /\ \A k \in 1..Len(backlog') : backlog'[k] = backlog[k + 1]
  BY DEF DInv, SckTypes, Queued
<1>2. SckTypes'
  BY <1>1 DEF DInv, SckTypes, InSession
<1>3. Queued'
  <2>1. \A k \in 1..Len(backlog') : backlog'[k] \notin open'
    BY <1>1 DEF DInv, Queued
  <2>2. \A k, j \in 1..Len(backlog') : backlog'[k] = backlog'[j] => k = j
    BY <1>1 DEF DInv, Queued
  <2> QED BY <2>1, <2>2 DEF DInv, Queued
<1>4. Session'
  BY <1>1 DEF DInv, Queued, Session
<1>5. Counted'
  <2>1. IsFiniteSet(open) /\ open' \ open = {fdc'} /\ Cardinality(open) \in Nat
    BY <1>1, FS_CardinalityType DEF DInv, Counted
  <2>2. Free >= 1
    BY <2>1, FS_Singleton, LibsckAssumption DEF Free, DInv, Counted
  <2>3. Cardinality(open') = Cardinality(open) + 1 /\ IsFiniteSet(open')
    BY <1>1, <2>1, FS_AddElement
  <2> QED BY <2>1, <2>2, <2>3, LibsckAssumption DEF DInv, Counted, Free
<1>6. Lateness'
  BY <1>1 DEF DInv, Lateness
<1>7. \A c \in Clients : Answers(c)'
  BY AnswersStay DEF Due
<1> QED BY <1>2, <1>3, <1>4, <1>5, <1>6, <1>7 DEF DInv

LEMMA SelectKeeps ==
    ASSUME DInv, Select, UNCHANGED map
    PROVE  DInv'
<1> USE DEF Select, Begin, clients, map
<1>1. fdc \in Clients /\ script[fdc] \in Seq(Bytes) /\ taken[fdc] = 0
  BY DEF DInv, SckTypes, Session, InSession
<1>2. SckTypes'
  BY DEF DInv, SckTypes, InSession
<1>3. Queued' /\ Counted' /\ Lateness'
  BY DEF DInv, Queued, Counted, Lateness
<1>4. Session'
  <2>1. /\ Here' = {} /\ eol_matched' = 0 /\ Len(ptr') = 0 /\ spc' = "recv"
        /\ taken'[fdc'] = 0
    BY <1>1, NothingOwed DEF Here
  <2>2. CRsBefore(script'[fdc'], taken'[fdc']) % 2 = 0
    BY <2>1, CRsCount
  <2>3. AllGood(Here') /\ LastEnd(Here', 0)
    BY <2>1 DEF AllGood, LastEnd
  <2> QED BY <2>1, <2>2, <2>3 DEF Session
<1>5. \A c \in Clients : Answers(c)'
  BY AnswersStay DEF Due
<1> QED BY <1>2, <1>3, <1>4, <1>5 DEF DInv

(* A byte is received.                                                     *)
LEMMA WhatIsRead ==
    ASSUME DInv, spc = "recv", sent[fdc] > taken[fdc]
    PROVE  /\ fdc \in Clients /\ fdc \in open /\ script[fdc] \in Seq(Bytes)
           /\ taken[fdc] \in Nat /\ taken[fdc] + 1 <= Len(script[fdc])
           /\ taken[fdc] + 1 <= sent[fdc] /\ Byte \in Bytes
           /\ Matched = 2 <=> LineEnd(script[fdc], taken[fdc] + 1)
           /\ Matched \in {0, 1, 2}
           /\ Matched # 2 => Matched = CRsBefore(script[fdc], taken[fdc] + 1) % 2
<1>1. /\ fdc \in Clients /\ fdc \in open /\ script[fdc] \in Seq(Bytes)
      /\ taken[fdc] \in Nat /\ sent[fdc] \in Nat /\ sent[fdc] <= Len(script[fdc])
      /\ eol_matched \in {0, 1}
      /\ eol_matched = CRsBefore(script[fdc], taken[fdc]) % 2
  BY DEF DInv, SckTypes, Session, InSession
<1>2. taken[fdc] + 1 <= sent[fdc] /\ taken[fdc] + 1 \in 1..Len(script[fdc])
  BY <1>1
<1>3. Byte = script[fdc][taken[fdc] + 1] /\ Byte \in Bytes
  BY <1>1, <1>2 DEF Byte
<1>4. LineEnd(script[fdc], taken[fdc] + 1) <=> Byte = "n" /\ eol_matched = 1
  BY <1>1, <1>3 DEF LineEnd
<1>5. Matched = IF Byte = (IF eol_matched = 0 THEN "r" ELSE "n")
                THEN eol_matched + 1 ELSE 0
  BY <1>1 DEF Matched, ZSEOL
<1>6. Matched = 2 <=> LineEnd(script[fdc], taken[fdc] + 1)
  BY <1>1, <1>4, <1>5
<1>7. Matched # 2 => Matched = CRsBefore(script[fdc], taken[fdc] + 1) % 2
  <2>1. CASE Byte = "r"
    <3>1. /\ CRsBefore(script[fdc], taken[fdc] + 1) = CRsBefore(script[fdc], taken[fdc]) + 1
          /\ CRsBefore(script[fdc], taken[fdc]) \in Nat
      BY <1>1, <1>3, <2>1, CRsCount, RunIsFinite
    <3>2. Matched = IF eol_matched = 0 THEN 1 ELSE 0
      BY <1>1, <1>5, <2>1
    <3> QED BY <1>1, <3>1, <3>2
  <2>2. CASE Byte # "r"
    <3>1. CRsBefore(script[fdc], taken[fdc] + 1) = 0
      BY <1>1, <1>3, <2>2, CRsCount
    <3>2. Matched \in {0, 2}
      BY <1>1, <1>5, <2>2
    <3> QED BY <3>1, <3>2
  <2> QED BY <2>1, <2>2
<1>8. Matched \in {0, 1, 2}
  BY <1>1, <1>5
<1> QED BY <1>1, <1>2, <1>3, <1>6, <1>7, <1>8

LEMMA RecvKeeps ==
    ASSUME DInv, NEW stored, Recv(stored), UNCHANGED map, UNCHANGED <<fdc, open>>,
           spc' \in {"accept", "recv", "answer"}, eol_matched' \in {0, 1}
    PROVE  /\ SckTypes' /\ Queued' /\ Counted' /\ Lateness'
           /\ taken'[fdc] = taken[fdc] + 1
           /\ \A d \in Clients \ {fdc} : Answers(d)'
<1> USE DEF Recv, clients, map
<1>1. /\ fdc \in Clients /\ fdc \in open /\ taken[fdc] \in Nat
      /\ taken[fdc] + 1 <= sent[fdc] /\ Byte \in Bytes
  BY WhatIsRead
<1>2. /\ taken' \in [Clients -> Nat] /\ taken'[fdc] = taken[fdc] + 1
      /\ \A d \in Clients \ {fdc} : taken'[d] = taken[d]
  BY <1>1 DEF DInv, SckTypes
<1>3. ptr' \in Seq(Bytes)
  BY <1>1 DEF DInv, SckTypes
<1>4. \A d \in Clients : taken'[d] <= sent'[d] /\ sent'[d] <= Len(script'[d])
  BY <1>1, <1>2 DEF DInv, SckTypes
<1>5. SckTypes'
  BY <1>1, <1>2, <1>3, <1>4 DEF DInv, SckTypes, InSession
<1>6. Queued'
  BY <1>1, <1>2 DEF DInv, Queued
<1>7. Counted' /\ Lateness'
  BY DEF DInv, Counted, Lateness
<1>8. \A d \in Clients \ {fdc} : Answers(d)'
  BY <1>2 DEF DInv, Answers, OwedTo, Due
<1> QED BY <1>2, <1>5, <1>6, <1>7, <1>8

LEMMA InLineKeeps ==
    ASSUME DInv, InLine, UNCHANGED map
    PROVE  DInv'
<1> USE DEF InLine, Recv, clients
<1>1. /\ fdc \in Clients /\ script[fdc] \in Seq(Bytes) /\ taken[fdc] \in Nat
      /\ taken[fdc] + 1 <= Len(script[fdc])
      /\ ~LineEnd(script[fdc], taken[fdc] + 1) /\ Matched \in {0, 1}
      /\ Matched = CRsBefore(script[fdc], taken[fdc] + 1) % 2
  BY WhatIsRead
<1>2. /\ SckTypes' /\ Queued' /\ Counted' /\ Lateness'
      /\ taken'[fdc] = taken[fdc] + 1 /\ \A d \in Clients \ {fdc} : Answers(d)'
  BY <1>1, RecvKeeps
<1>3. Session'
  <2>1. Here' = Here
    BY <1>1, <1>2, NextEnd DEF Here
  <2>2. ptr \in Seq(Bytes) /\ Len(ptr') = Len(ptr) + 1
    BY DEF DInv, SckTypes
  <2>3. taken'[fdc] - Len(ptr') = taken[fdc] - Len(ptr) /\ Len(ptr') <= taken'[fdc]
    BY <1>1, <1>2, <2>2 DEF DInv, Session
  <2> QED BY <1>1, <1>2, <2>1, <2>3 DEF DInv, Session
<1>4. Answers(fdc)'
  <2>1. OwedTo(fdc)' = OwedTo(fdc) /\ Due(fdc)' = Due(fdc)
    BY <1>1, <1>2, OwedNext DEF OwedTo, Due
  <2> QED BY <1>1, <2>1 DEF DInv, Answers
<1> QED BY <1>2, <1>3, <1>4 DEF DInv

LEMMA EndOfLineKeeps ==
    ASSUME DInv, EndOfLine, UNCHANGED map
    PROVE  DInv'
<1> USE DEF EndOfLine, Recv, clients, Disconnect
<1> DEFINE w == script[fdc]
           t == taken[fdc]
<1>1. /\ fdc \in Clients /\ w \in Seq(Bytes) /\ t \in Nat /\ t + 1 <= Len(w)
      /\ LineEnd(w, t + 1)
  BY WhatIsRead
<1>2. /\ SckTypes' /\ Queued' /\ Counted' /\ Lateness'
      /\ taken'[fdc] = t + 1 /\ \A d \in Clients \ {fdc} : Answers(d)'
  BY <1>1, RecvKeeps
<1>3. /\ AllGood(Here) /\ Len(ptr) \in Nat /\ Len(ptr) <= t /\ Len(ptr) < Length
      /\ LastEnd(Here, t - Len(ptr))
  BY DEF DInv, SckTypes, Session
<1>4. Good(ReadEnds(w, t), t + 1) <=> Len(ptr) > 1
  <2>1. PICK k \in 0..t : k = t - Len(ptr)
    BY <1>1, <1>3
  <2>2. t - k = Len(ptr) /\ LastEnd(ReadEnds(w, t), k)
    BY <1>1, <1>3, <2>1 DEF Here
  <2> QED BY <1>1, <1>3, <2>2, GoodByLength
<1>5. /\ OwedTo(fdc) = Owed(Read(w, t)) /\ OwedTo(fdc)' = Owed(Read(w, t + 1))
      /\ Here' = ReadEnds(w, t + 1) /\ Here = ReadEnds(w, t)
  BY <1>2 DEF OwedTo, Here
<1>6. /\ oks[fdc] \in Nat /\ OwedTo(fdc) \in Nat /\ oks[fdc] <= OwedTo(fdc)
      /\ running /\ fdc \notin closed => oks[fdc] = OwedTo(fdc)
  BY <1>1, OwedIsNat DEF DInv, SckTypes, Answers, Due
<1>7. CASE Len(ptr) > 1
  <2>1. OwedTo(fdc)' = OwedTo(fdc) + 1 /\ AllGood(Here')
    BY <1>1, <1>3, <1>4, <1>5, <1>7, OwedNext
  <2>2. t + 1 \in Here'
    BY <1>1, <1>5 DEF ReadEnds
  <2>3. Session'
    BY <1>2, <1>7, <2>1, <2>2 DEF Session
  <2>4. Answers(fdc)'
    BY <1>6, <1>7, <2>1 DEF Answers, Due
  <2> QED BY <1>2, <2>3, <2>4 DEF DInv
<1>8. CASE ~(Len(ptr) > 1)
  <2>1. OwedTo(fdc)' = OwedTo(fdc)
    BY <1>1, <1>4, <1>5, <1>8, OwedNext
  <2>2. Session'
    BY <1>8 DEF Session
  <2>3. Answers(fdc)'
    BY <1>6, <1>8, <2>1 DEF Answers, Due
  <2> QED BY <1>2, <2>2, <2>3 DEF DInv
<1> QED BY <1>7, <1>8

LEMMA BufferLimitKeeps ==
    ASSUME DInv, BufferLimit, UNCHANGED map
    PROVE  DInv'
<1> USE DEF BufferLimit, Recv, clients, Disconnect
<1> DEFINE w == script[fdc]
           t == taken[fdc]
<1>1. /\ fdc \in Clients /\ w \in Seq(Bytes) /\ t \in Nat /\ t + 1 <= Len(w)
  BY WhatIsRead
<1>2. /\ SckTypes' /\ Queued' /\ Counted' /\ Lateness'
      /\ taken'[fdc] = t + 1 /\ \A d \in Clients \ {fdc} : Answers(d)'
  BY <1>1, RecvKeeps DEF DInv, SckTypes
<1>3. /\ Len(ptr) \in Nat /\ Len(ptr) <= t /\ ~(Len(ptr) < Length)
      /\ LastEnd(Here, t - Len(ptr))
  BY DEF DInv, SckTypes, Session
<1>4. LineEnd(w, t + 1) => ~Good(ReadEnds(w, t), t + 1)
  <2>1. PICK k \in 0..t : k = t - Len(ptr)
    BY <1>1, <1>3
  <2>2. t - k = Len(ptr) /\ LastEnd(ReadEnds(w, t), k)
    BY <1>1, <1>3, <2>1 DEF Here
  <2> QED BY <1>1, <1>3, <2>2, GoodByLength
<1>5. OwedTo(fdc)' = OwedTo(fdc)
  BY <1>1, <1>2, <1>4, OwedNext DEF OwedTo
<1>6. Session'
  BY DEF Session
<1>7. Answers(fdc)'
  BY <1>1, <1>5 DEF DInv, Answers, Due
<1> QED BY <1>2, <1>6, <1>7 DEF DInv

LEMMA AnswerKeeps ==
    ASSUME DInv, Answer, UNCHANGED map
    PROVE  DInv'
<1> USE DEF Answer, clients, Begin
<1>1. /\ fdc \in Clients /\ fdc \in open /\ taken[fdc] \in Nat
      /\ AllGood(Here) /\ taken[fdc] \in Here
  BY DEF DInv, SckTypes, Session, InSession
<1>2. /\ oks' \in [Clients -> Nat]
      /\ \A d \in Clients \ {fdc} : oks'[d] = oks[d]
      /\ oks'[fdc] = IF fdc \in closed THEN oks[fdc] ELSE oks[fdc] + 1
      /\ running' => running
  <2>1. oks \in [Clients -> Nat]
    BY DEF DInv, SckTypes
  <2>2. CASE fdc \in closed
    BY <1>1, <2>1, <2>2
  <2>3. CASE fdc \notin closed
    BY <1>1, <2>1, <2>3
  <2> QED BY <2>2, <2>3
<1>3. SckTypes'
  <2>1. /\ eol_matched' = 0 /\ ptr' = <<>> /\ spc' = "recv" /\ fdc \in open
        /\ UNCHANGED <<libsck_state, backlog, fdc, open, script, sent, closed, taken>>
    BY <1>1
  <2>2. SckTypes
    BY DEF DInv
  <2> QED BY <1>2, <2>1, <2>2 DEF SckTypes, InSession
<1>4. Queued' /\ Counted' /\ Lateness'
  BY <1>1, <1>2 DEF DInv, Queued, Counted, Lateness, map
<1>5. Session'
  <2>1. PICK n \in Nat : taken[fdc] = n + 1
    <3>1. taken[fdc] \in 1..taken[fdc]
      BY <1>1 DEF Here, ReadEnds
    <3>2. taken[fdc] - 1 \in Nat /\ taken[fdc] = (taken[fdc] - 1) + 1
      BY <1>1, <3>1
    <3> QED BY <3>2
  <2>2. CRsBefore(script[fdc], taken[fdc]) = 0
    BY <1>1, <2>1, CRsCount DEF Here, ReadEnds, LineEnd
  <2>3. LastEnd(Here, taken[fdc])
    BY <1>1 DEF LastEnd, Here, ReadEnds
  <2>4. /\ spc' = "recv" /\ Here' = Here /\ eol_matched' = 0 /\ Len(ptr') = 0
        /\ taken' = taken /\ fdc' = fdc /\ script' = script
    BY DEF Here
  <2> QED BY <1>1, <2>2, <2>3, <2>4 DEF Session
<1>6. \A d \in Clients \ {fdc} : Answers(d)'
  BY <1>2 DEF DInv, Answers, OwedTo, Due
<1>7. Answers(fdc)'
  <2>1. /\ oks[fdc] \in Nat /\ OwedTo(fdc) \in Nat /\ oks[fdc] + 1 <= OwedTo(fdc)
        /\ running /\ fdc \notin closed => oks[fdc] + 1 = OwedTo(fdc)
    BY <1>1, OwedIsNat DEF DInv, SckTypes, Answers, Due
  <2>2. OwedTo(fdc)' = OwedTo(fdc) /\ Due(fdc)' = 0
    BY DEF OwedTo, Due
  <2> QED BY <1>2, <2>1, <2>2 DEF Answers
<1> QED BY <1>3, <1>4, <1>5, <1>6, <1>7 DEF DInv

(* The thread of map0, and the call that ends it.                          *)
LEMMA MapKeeps ==
    ASSUME DInv, MapOff \/ thread_map_procv
    PROVE  DInv'
<1>1. /\ UNCHANGED <<libsck_state, backlog, bound, spc, fdc, open, eol_matched, ptr,
                     script, sent, closed, taken, oks, late>>
      /\ running' => running
  BY DEF MapOff, thread_map_procv, Wake, ReadProc, ProcRead, OpenMem, CloseMem,
         find_init, sck, server, clients, DInv, SckTypes
<1>2. SckTypes'
  <2>1. SckTypes
    BY DEF DInv
  <2> QED BY <1>1, <2>1 DEF SckTypes
<1>3. Queued' /\ Session' /\ Lateness'
  BY <1>1 DEF DInv, Queued, Session, Here, Lateness
<1>4. Counted'
  <2>1. Cardinality(open) \in Nat /\ Limit \in Nat
    BY FS_CardinalityType, LibsckAssumption DEF DInv, Counted
  <2> USE <1>1, <2>1 DEF DInv, Counted, Free
  <2>2. CASE MapOff \/ Wake
    BY <2>2 DEF MapOff, Wake, sck, server
  <2>3. CASE ReadProc
    <3>1. held = 0 /\ mpc' = "next"
      BY <2>3 DEF ReadProc
    <3>2. CASE Limit - Cardinality(open) - held > 0
      <4>1. held' = 1 /\ running' = running
        BY <2>3, <3>1, <3>2 DEF ReadProc, find_init
      <4> QED BY <3>1, <3>2, <4>1
    <3>3. CASE ~(Limit - Cardinality(open) - held > 0)
      <4>1. held' = held /\ running' = FALSE
        BY <2>3, <3>3 DEF ReadProc, find_init
      <4> QED BY <3>1, <4>1
    <3> QED BY <3>2, <3>3
  <2>4. CASE ProcRead
    BY <2>4 DEF ProcRead, find_exit, sck, server
  <2>5. CASE OpenMem
    BY <2>5 DEF OpenMem, sck, server
  <2>6. CASE CloseMem
    BY <2>6 DEF CloseMem, sck, server
  <2> QED BY <2>2, <2>3, <2>4, <2>5, <2>6 DEF thread_map_procv
<1>5. \A c \in Clients : Answers(c)'
  BY <1>1, AnswersStay DEF Due
<1> QED BY <1>2, <1>3, <1>4, <1>5 DEF DInv

LEMMA DInvFirst ==
    ASSUME DInit
    PROVE  DInv
<1> USE DEF DInit, SckInit
<1>1. script \in [Clients -> Seq(Bytes)]
  BY LibsckAssumption
<1>2. SckTypes
  BY <1>1 DEF SckTypes, InSession
<1>3. Queued /\ Session /\ Lateness
  BY DEF Queued, Session, Lateness
<1>4. Counted
  BY FS_EmptySet, LibsckAssumption DEF Counted
<1>5. \A c \in Clients : Answers(c)
  BY <1>1, NothingOwed DEF Answers, OwedTo, Due
<1> QED BY <1>2, <1>3, <1>4, <1>5 DEF DInv

LEMMA DInvStays ==
    ASSUME DInv, [DNext]_every
    PROVE  DInv'
<1>1. CASE Socket
  <2> USE <1>1 DEF Socket
  <2>1. CASE \E c \in Clients : Connect(c) \/ Send(c) \/ Close(c)
    BY <2>1, ConnectKeeps, ClientKeeps
  <2>2. CASE libsck_poweroff
    BY <2>2, ClientKeeps
  <2>3. CASE Accept
    BY <2>3, AcceptKeeps
  <2>4. CASE libsck_server \/ Test \/ AcceptFails \/ Timeout \/ Closed
    BY <2>4, IdleKeeps
  <2>5. CASE Select
    BY <2>5, SelectKeeps
  <2>6. CASE InLine
    BY <2>6, InLineKeeps
  <2>7. CASE EndOfLine
    BY <2>7, EndOfLineKeeps
  <2>8. CASE BufferLimit
    BY <2>8, BufferLimitKeeps
  <2>9. CASE Answer
    BY <2>9, AnswerKeeps
  <2> QED BY <2>1, <2>2, <2>3, <2>4, <2>5, <2>6, <2>7, <2>8, <2>9 DEF Server
<1>2. CASE AcceptRefused
  <2>1. UNCHANGED map
    BY <1>2 DEF AcceptRefused, map
  <2> QED BY <1>2, <2>1, IdleKeeps
<1>3. CASE MapOff \/ thread_map_procv
  BY <1>3, MapKeeps
<1>4. CASE UNCHANGED every
  <2>1. \A c \in Clients : Answers(c)'
    BY <1>4, AnswersStay DEF every, sck, server, clients, Due
  <2> QED BY <1>4, <2>1 DEF every, sck, server, clients, map, DInv, SckTypes,
             Queued, Session, Here, Counted, Lateness
<1> QED BY <1>1, <1>2, <1>3, <1>4 DEF DNext

LEMMA DInvHolds == DSpec => []DInv
BY DInvFirst, DInvStays, PTL DEF DSpec
-----------------------------------------------------------------------------
(* Whatever the clients send, in whatever pieces, however few bytes the    *)
(* line buffer has: no client gets more +OK lines than complete lines were *)
(* read from it, and one that has not left gets one for each.              *)
THEOREM EveryLineIsAnsweredOnce == DSpec => []OkPerLine
<1>1. DInv => OkPerLine
  <2> SUFFICES ASSUME DInv, NEW c \in Clients
               PROVE  /\ oks[c] <= OwedTo(c)
                      /\ (running /\ c \notin closed /\ ~(c = fdc /\ spc = "answer"))
                            => oks[c] = OwedTo(c)
    BY DEF OkPerLine, OwedTo, Read
  <2> QED BY OwedIsNat DEF DInv, SckTypes, Answers, Due
<1> QED BY <1>1, DInvHolds, PTL

(* After libsck_poweroff at most one connection is accepted.               *)
THEOREM OneConnectionIsLate == DSpec => []OneLateAtMost
<1>1. DInv => OneLateAtMost
  <2>1. \A c \in Clients : Cardinality({c}) = 1
    BY FS_Singleton
  <2> QED BY <2>1, FS_EmptySet DEF DInv, Lateness, OneLateAtMost
<1> QED BY <1>1, DInvHolds, PTL

(* The process ends of a client that left before its answer, or of         *)
(* connections that hold every descriptor, and of nothing else.            *)
THEOREM OnlyClientsKill == DSpec => DiesOfClientsOnly
<1>1. ASSUME DInv, [DNext]_every
      PROVE  [running /\ ~running' => \/ spc = "answer" /\ fdc \in closed
                                      \/ Cardinality(open) = Limit]_every
  <2> SUFFICES ASSUME running, ~running'
               PROVE  (spc = "answer" /\ fdc \in closed) \/ Cardinality(open) = Limit
    OBVIOUS
  <2>1. CASE Answer
    BY <2>1 DEF Answer
  <2>2. CASE ReadProc
    <3>1. Cardinality(open) \in Nat /\ Limit \in Nat
      BY <1>1, FS_CardinalityType, LibsckAssumption DEF DInv, Counted
    <3>2. held = 0 /\ Cardinality(open) <= Limit
      BY <1>1, <2>2, <3>1 DEF ReadProc, DInv, Counted
    <3>3. ~(Limit - Cardinality(open) - held > 0)
      BY <2>2 DEF ReadProc, find_init, Free
    <3> QED BY <3>1, <3>2, <3>3
  <2>3. CASE ~Answer /\ ~ReadProc
    BY <1>1, <2>3 DEF DNext, Socket, Server, libsck_server, Test, Accept, AcceptFails,
       Select, Timeout, InLine, EndOfLine, BufferLimit, Recv, Closed, Disconnect,
       Connect, Send, Close, libsck_poweroff, AcceptRefused, MapOff,
       thread_map_procv, Wake, ProcRead, OpenMem, CloseMem, every, sck, server
  <2> QED BY <2>1, <2>2, <2>3
<1> QED BY <1>1, DInvHolds, PTL DEF DSpec, DiesOfClientsOnly
=============================================================================
