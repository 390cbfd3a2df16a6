-------------------------- MODULE VirtqueueProofs ---------------------------
(***************************************************************************)
(* Theorems about the queues in shared memory.  First Virtqueue, for every *)
(* queue length, every bound on the chains and every number of ring        *)
(* objects on either side; then Vswitch, whose table leads to the          *)
(* virtqueues; then Ringbuffer.                                            *)
(***************************************************************************)
EXTENDS Virtqueue, Vswitch, Ringbuffer, FiniteSetTheorems, SequenceTheorems, WellFoundedInduction, TLAPS

(* A library call in progress works on an object and a descriptor that     *)
(* exist.                                                                  *)
CallsInv ==
    /\ drv.pc \in {"link", "publish"} => drv.obj \in DrvObjs /\ drv.idx \in Desc
    /\ dev.pc \in {"take", "publish"} => dev.obj \in DevObjs

TypeInv == TypeOK /\ CallsInv

(* (i + 1) & (queue_len - 1) steps through the ring and wraps.             *)
LEMMA SuccWraps ==
    ASSUME NEW i \in Desc
    PROVE  /\ Succ(i) \in Desc
           /\ Succ(i) = IF i = QueueLen - 1 THEN 0 ELSE i + 1
  BY QueueLenAssumption DEF Desc, Succ

(* Dropping the first element of a sequence keeps its type.                *)
LEMMA RestType ==
    ASSUME NEW S, NEW s \in Seq(S)
    PROVE  Rest(s) \in Seq(S)
  BY DEF Rest

(* The driver's init functions leave everything typed.                     *)
LEMMA InitTypeInv == Init => TypeInv
  <1> SUFFICES ASSUME Init PROVE TypeInv
    OBVIOUS
  <1> USE QueueLenAssumption DEF Init, InitDriver, InitDevice, InitDesc,
          Desc, End, Unset, Index, NullObj, NullRobj, IdleDrv, IdleDev, ObjType, BuildType,
          DescType, LinkType, RobjType, DrvType, DevType
  <1>1. desc \in [Desc -> DescType]
    OBVIOUS
  <1>2. /\ availIdx \in Desc /\ availRing \in [Desc -> Desc]
        /\ usedIdx \in Desc /\ usedRing \in [Desc -> [id : Desc, len : Nat]]
        /\ freeHead \in Desc \cup {End} /\ uLast \in Desc /\ aLast \in Desc
    OBVIOUS
  <1>3. /\ obj \in [DrvObjs -> BuildType] /\ uobj \in ObjType
        /\ robj \in [DevObjs -> RobjType]
    OBVIOUS
  <1>4. /\ drv \in DrvType
        /\ dev \in DevType
    OBVIOUS
  <1>5. /\ inFlight \in Int /\ free \in Seq(Desc)
        /\ chain \in [Desc -> Seq(LinkType)]
        /\ popping \in Seq(LinkType)
    OBVIOUS
  <1>6. CallsInv
    BY DEF CallsInv
  <1> QED
    BY <1>1, <1>2, <1>3, <1>4, <1>5, <1>6 DEF TypeInv, TypeOK

(* Every library step keeps the types, whatever the clients do: even when  *)
(* the rings overflow, no index leaves the table.                          *)
LEMMA NextTypeInv ==
    ASSUME TypeInv, [Next]_vars
    PROVE  TypeInv'
  <1> USE QueueLenAssumption DEF TypeInv, TypeOK, CallsInv
  <1>1. ASSUME NEW o \in DrvObjs, NEW b \in Bufs, AddDesc(o, b) PROVE TypeInv'
    <2> USE <1>1 DEF AddDesc, device
    <2>1. free' \in Seq(Desc)
      BY RestType
    <2>2. /\ freeHead \in Desc
          /\ desc[freeHead] \in DescType
      BY DEF End
    <2>3. freeHead' \in Desc \cup {End}
      BY <2>2 DEF DescType
    <2>4. desc' \in [Desc -> DescType]
      BY <2>2 DEF DescType
    <2>5. drv' \in DrvType
      BY <2>2 DEF DrvType
    <2> QED
      BY <2>1, <2>2, <2>3, <2>4, <2>5
  <1>2. ASSUME NEW o \in DrvObjs, AddDescFull(o) PROVE TypeInv'
    BY <1>2 DEF AddDescFull, BuildType, shared, device, history
  <1>3. ASSUME NEW o \in DrvObjs, InitRingObject(o) PROVE TypeInv'
    BY <1>3 DEF InitRingObject, BuildType, shared, device, history
  <1>4. ASSUME LinkDesc PROVE TypeInv'
    <2> USE <1>4 DEF LinkDesc, device
    <2> DEFINE o == drv.obj
               prev == obj[o].cur
    <2>1. /\ o \in DrvObjs /\ drv.idx \in Desc
          /\ obj[o] \in BuildType /\ obj[o] # NullObj
      BY DEF NullObj
    <2>2. prev \in Desc /\ obj[o].first \in Desc
      BY <2>1 DEF BuildType
    <2>3. /\ desc[prev] \in DescType /\ desc[drv.idx] \in DescType
          /\ chain[obj[o].first] \in Seq(LinkType)
      BY <2>1, <2>2
    <2>4. [desc[prev] EXCEPT !.next = drv.idx] \in DescType
      BY <2>1, <2>3 DEF DescType
    <2>5. desc' \in [Desc -> DescType]
      BY <2>2, <2>4
    <2>6. [obj[o] EXCEPT !.cur = drv.idx] \in BuildType
      BY <2>1 DEF BuildType
    <2>7. obj' \in [DrvObjs -> BuildType]
      BY <2>1, <2>6
    <2>8. Link(drv.idx, desc[drv.idx].buf) \in LinkType
      BY <2>1, <2>3 DEF Link, LinkType, DescType
    <2>9. Append(chain[obj[o].first], Link(drv.idx, desc[drv.idx].buf))
             \in Seq(LinkType)
      BY <2>3, <2>8
    <2>10. chain' \in [Desc -> Seq(LinkType)]
      BY <2>2, <2>9
    <2> QED
      BY <2>5, <2>7, <2>10 DEF IdleDrv, DrvType
  <1>5. ASSUME AvailSlot PROVE TypeInv'
    <2>1. drv.obj \in DrvObjs /\ drv.idx \in Desc
      BY <1>5 DEF AvailSlot
    <2> QED
      BY <1>5, <2>1 DEF AvailSlot, DrvType, BuildType, device, history
  <1>6. ASSUME AvailPublish PROVE TypeInv'
    <2> USE <1>6 DEF AvailPublish, device
    <2>1. drv.idx \in Desc /\ desc[drv.idx] \in DescType
      OBVIOUS
    <2>2. Link(drv.idx, desc[drv.idx].buf) \in LinkType
      BY <2>1 DEF Link, LinkType, DescType
    <2>3. <<Link(drv.idx, desc[drv.idx].buf)>> \in Seq(LinkType)
      BY <2>2
    <2>4. chain' \in [Desc -> Seq(LinkType)]
      BY <2>1, <2>3
    <2>5. availIdx' \in Desc /\ inFlight' \in Int
      BY SuccWraps
    <2> QED
      BY <2>4, <2>5 DEF IdleDrv, DrvType
  <1>7. ASSUME GetUsedPoll PROVE TypeInv'
    BY <1>7 DEF GetUsedPoll, IdleDrv, DrvType, shared, device, history
  <1>8. ASSUME GetUsedTake PROVE TypeInv'
    <2> USE <1>8 DEF GetUsedTake, shared, device
    <2>1. Succ(uLast) \in Desc
      BY SuccWraps
    <2>2. usedRing[Succ(uLast)].id \in Desc
      BY <2>1
    <2>3. <<>> \in Seq(LinkType)
      OBVIOUS
    <2>4. /\ chain' \in [Desc -> Seq(LinkType)]
          /\ popping' \in Seq(LinkType)
      BY <2>2, <2>3
    <2>5. uobj' \in ObjType /\ uLast' \in Desc
      BY <2>1, <2>2 DEF ObjType, Index
    <2> QED
      BY <2>4, <2>5 DEF IdleDrv, DrvType
  <1>9. ASSUME GatherUsed PROVE TypeInv'
    <2> USE <1>9 DEF GatherUsed, device
    <2>1. uobj.cur \in Desc
      BY DEF ObjType, Index, Desc, End, Unset
    <2>2. desc[uobj.cur] \in DescType
      BY <2>1
    <2>3. [desc[uobj.cur] EXCEPT !.next = freeHead] \in DescType
      BY <2>2 DEF DescType
    <2>4. desc' \in [Desc -> DescType]
      BY <2>1, <2>3
    <2>5. uobj' \in ObjType
      BY <2>2 DEF ObjType, DescType, Index
    <2>6. free' \in Seq(Desc)
      BY <2>1
    <2>7. popping' \in Seq(LinkType)
      BY RestType
    <2> QED
      BY <2>1, <2>4, <2>5, <2>6, <2>7
  <1>10. ASSUME GatherUsedEnd PROVE TypeInv'
    BY <1>10 DEF GatherUsedEnd, NullObj, ObjType, Index, shared, device, history
  <1>11. ASSUME NEW r \in DevObjs, GetAvailPoll(r) PROVE TypeInv'
    BY <1>11 DEF GetAvailPoll, DevType, shared, driver, history
  <1>12. ASSUME NEW r \in DevObjs, GatherAvailable(r) PROVE TypeInv'
    <2> USE <1>12 DEF GatherAvailable, shared, driver, history
    <2> DEFINE idx == robj[r].cur
    <2>1. robj[r] \in RobjType
      OBVIOUS
    <2>2. idx \in Desc
      BY <2>1 DEF RobjType, Index, Desc, End, Unset
    <2>3. desc[idx] \in DescType
      BY <2>2
    <2>4. [cur |-> desc[idx].next, first |-> robj[r].first,
           len |-> robj[r].len + 1] \in RobjType
      BY <2>1, <2>3 DEF RobjType, DescType, Index
    <2>5. robj' = [robj EXCEPT ![r] = [cur |-> desc[idx].next,
                                       first |-> robj[r].first,
                                       len |-> robj[r].len + 1]]
      BY <2>1 DEF RobjType
    <2>6. robj' \in [DevObjs -> RobjType]
      BY <2>4, <2>5
    <2> QED
      BY <2>6
  <1>13. ASSUME NEW r \in DevObjs, AddUsedSlot(r) PROVE TypeInv'
    <2>1. robj[r] \in RobjType /\ robj[r].first \in Desc
      BY <1>13 DEF AddUsedSlot, RobjType
    <2>2. usedRing' \in [Desc -> [id : Desc, len : Nat]]
      BY <1>13, <2>1 DEF AddUsedSlot, RobjType
    <2> QED
      BY <1>13, <2>2 DEF AddUsedSlot, DevType, driver, history
  <1>14. ASSUME GetAvailTake PROVE TypeInv'
    <2> USE <1>14 DEF GetAvailTake, shared, driver, history
    <2>1. Succ(aLast) \in Desc /\ dev.obj \in DevObjs
      BY SuccWraps
    <2>2. robj' \in [DevObjs -> RobjType]
      BY <2>1 DEF RobjType, Index
    <2> QED
      BY <2>1, <2>2 DEF IdleDev, DevType
  <1>15. ASSUME AddUsedPublish PROVE TypeInv'
    <2> USE <1>15 DEF AddUsedPublish, driver, history
    <2>1. Succ(usedIdx) \in Desc /\ dev.obj \in DevObjs
      BY SuccWraps
    <2>2. robj' \in [DevObjs -> RobjType]
      BY <2>1 DEF NullRobj, RobjType, Index
    <2> QED
      BY <2>1, <2>2 DEF IdleDev, DevType
  <1>16. CASE UNCHANGED vars
    BY <1>16 DEF vars, shared, driver, device, history
  <1> QED
    BY <1>1, <1>2, <1>3, <1>4, <1>5, <1>6, <1>7, <1>8, <1>9, <1>10, <1>11,
       <1>12, <1>13, <1>14, <1>15, <1>16
       DEF Next, Add, Pop, Serve

(* virtqueue.c indexes the table and the rings without a check: no index   *)
(* it uses ever leaves them, for every queue length, even when the clients *)
(* keep more entries in flight than the rings hold or race on an open one. *)
THEOREM TypeCorrect == Spec => []TypeOK
  <1>1. Init => TypeInv
    BY InitTypeInv
  <1>2. TypeInv /\ [Next]_vars => TypeInv'
    BY NextTypeInv
  <1>3. TypeInv => TypeOK
    BY DEF TypeInv
  <1> QED
    BY <1>1, <1>2, <1>3, PTL DEF Spec
-----------------------------------------------------------------------------
(* What the cursors count.  A call that has passed its emptiness test still *)
(* finds an entry, and a call that starts an entry still has room for it.  *)
CursorInv ==
    /\ AcceptedVisible
    /\ inFlight <= MaxInFlight
    /\ drv.pc = "link" /\ obj[drv.obj].first = Unset => inFlight < MaxInFlight
    /\ drv.pc = "publish" => inFlight < MaxInFlight
    /\ drv.pc = "used" => uobj.first = Unset /\ NUsed > 0
    /\ dev.pc = "take" => robj[dev.obj].first = Unset /\ NAvail > 0
    /\ dev.pc = "publish" => robj[dev.obj].first # Unset

(* The number of pending entries under one step of the reader or writer.   *)
LEMMA PendingStep ==
    ASSUME NEW last \in Desc, NEW idx \in Desc
    PROVE  /\ Pending(last, idx) \in 0..(QueueLen - 1)
           /\ Succ(last) # idx <=> Pending(last, idx) > 0
           /\ Pending(last, idx) < QueueLen - 1
                => Pending(last, Succ(idx)) = Pending(last, idx) + 1
           /\ Pending(last, idx) > 0
                => Pending(Succ(last), idx) = Pending(last, idx) - 1
  BY QueueLenAssumption, SuccWraps DEF Pending, Desc

LEMMA Counts ==
    ASSUME TypeInv
    PROVE  NAvail \in 0..(QueueLen - 1) /\ NUsed \in 0..(QueueLen - 1)
  BY PendingStep DEF TypeInv, TypeOK, NAvail, NUsed

(* The objects the device holds are finitely many.                         *)
LEMMA HeldFinite == IsFiniteSet(Held) /\ Cardinality(Held) \in Nat
  BY ObjAssumption, FS_Subset, FS_CardinalityType DEF Held

LEMMA InitCursorInv == Init => CursorInv
  <1> SUFFICES ASSUME Init PROVE CursorInv
    OBVIOUS
  <1>1. Held = {}
    BY QueueLenAssumption DEF Init, Held, NullRobj
  <1>2. Cardinality(Held) = 0
    BY <1>1, FS_EmptySet
  <1>3. NAvail = 0 /\ NUsed = 0
    BY QueueLenAssumption
       DEF Init, InitDriver, InitDevice, NAvail, NUsed, Pending
  <1> QED
    BY <1>2, <1>3, InFlightAssumption
       DEF Init, CursorInv, AcceptedVisible, NullObj, IdleDrv, IdleDev

(* The cursors keep counting the entries right as long as the driver's     *)
(* client leaves one slot of the rings unused.                             *)
LEMMA NextCursorInv ==
    ASSUME MaxInFlight < QueueLen, TypeInv, CursorInv, [Next]_vars
    PROVE  CursorInv'
  <1> USE QueueLenAssumption, InFlightAssumption DEF CursorInv, AcceptedVisible
  <1>t. /\ availIdx \in Desc /\ aLast \in Desc
        /\ usedIdx \in Desc /\ uLast \in Desc
        /\ inFlight \in Int
        /\ NAvail \in Nat /\ NUsed \in Nat /\ Cardinality(Held) \in Nat
    BY PendingStep, HeldFinite DEF TypeInv, TypeOK, NAvail, NUsed
  <1>u. Unset \notin Desc
    BY DEF Unset, Desc
  <1>1. ASSUME NEW o \in DrvObjs, NEW b \in Bufs, AddDesc(o, b) PROVE CursorInv'
    <2>1. NAvail' = NAvail /\ NUsed' = NUsed /\ Held' = Held
      BY <1>1 DEF AddDesc, NAvail, NUsed, Held, Pending, device
    <2> QED
      BY <1>1, <2>1 DEF AddDesc, MayAdd, device
  <1>2. ASSUME NEW o \in DrvObjs, AddDescFull(o) \/ InitRingObject(o)
        PROVE  CursorInv'
    <2>1. NAvail' = NAvail /\ NUsed' = NUsed /\ Held' = Held
      BY <1>2 DEF AddDescFull, InitRingObject, NAvail, NUsed, Held, Pending,
                  shared, device
    <2> QED
      BY <1>2, <2>1 DEF AddDescFull, InitRingObject, device
  <1>3. ASSUME LinkDesc PROVE CursorInv'
    <2>1. NAvail' = NAvail /\ NUsed' = NUsed /\ Held' = Held
      BY <1>3 DEF LinkDesc, NAvail, NUsed, Held, Pending, device
    <2> QED
      BY <1>3, <2>1 DEF LinkDesc, IdleDrv, device
  <1>4. ASSUME AvailSlot PROVE CursorInv'
    <2>1. NAvail' = NAvail /\ NUsed' = NUsed /\ Held' = Held
      BY <1>4 DEF AvailSlot, NAvail, NUsed, Held, Pending, device
    <2>2. drv'.pc = "publish"
      BY <1>4 DEF AvailSlot, TypeInv, TypeOK, DrvType
    <2> QED
      BY <1>4, <2>1, <2>2 DEF AvailSlot, device
  <1>5. ASSUME AvailPublish PROVE CursorInv'
    <2>1. NUsed' = NUsed /\ Held' = Held
      BY <1>5 DEF AvailPublish, NUsed, Held, Pending, device
    <2>2. NAvail < QueueLen - 1
      BY <1>5, <1>t DEF AvailPublish
    <2>3. NAvail' = NAvail + 1
      BY <1>5, <1>t, <2>2, PendingStep DEF AvailPublish, NAvail, Pending, device
    <2> QED
      BY <1>5, <1>t, <2>1, <2>3 DEF AvailPublish, IdleDrv, device
  <1>6. ASSUME GetUsedPoll PROVE CursorInv'
    <2>1. NAvail' = NAvail /\ NUsed' = NUsed /\ Held' = Held
      BY <1>6 DEF GetUsedPoll, NAvail, NUsed, Held, Pending, shared, device
    <2>2. NUsed > 0
      BY <1>6, <1>t, PendingStep DEF GetUsedPoll, NUsed
    <2> QED
      BY <1>6, <2>1, <2>2 DEF GetUsedPoll, IdleDrv, device
  <1>7. ASSUME GetUsedTake PROVE CursorInv'
    <2>1. NAvail' = NAvail /\ Held' = Held
      BY <1>7 DEF GetUsedTake, NAvail, Held, Pending, shared, device
    <2>2. NUsed' = NUsed - 1
      BY <1>7, <1>t, PendingStep DEF GetUsedTake, NUsed, Pending, shared
    <2>3. uobj.first = Unset /\ uobj'.first # Unset
      BY <1>7, <1>t, <1>u, SuccWraps DEF GetUsedTake, TypeInv, TypeOK
    <2> QED
      BY <1>7, <1>t, <2>1, <2>2, <2>3 DEF GetUsedTake, IdleDrv, device
  <1>8. ASSUME GatherUsed PROVE CursorInv'
    <2>1. NAvail' = NAvail /\ NUsed' = NUsed /\ Held' = Held
      BY <1>8 DEF GatherUsed, NAvail, NUsed, Held, Pending, device
    <2>2. uobj'.first = uobj.first
      BY <1>8 DEF GatherUsed, TypeInv, TypeOK, ObjType
    <2> QED
      BY <1>8, <2>1, <2>2 DEF GatherUsed, device
  <1>9. ASSUME GatherUsedEnd PROVE CursorInv'
    <2>1. NAvail' = NAvail /\ NUsed' = NUsed /\ Held' = Held
      BY <1>9 DEF GatherUsedEnd, NAvail, NUsed, Held, Pending, shared, device
    <2> QED
      BY <1>9, <1>t, <2>1 DEF GatherUsedEnd, NullObj, shared, device
  <1>10. ASSUME NEW r \in DevObjs, GetAvailPoll(r) PROVE CursorInv'
    <2>1. NAvail' = NAvail /\ NUsed' = NUsed /\ Held' = Held
      BY <1>10 DEF GetAvailPoll, NAvail, NUsed, Held, Pending, shared, driver
    <2>2. NAvail > 0
      BY <1>10, <1>t, PendingStep DEF GetAvailPoll, NAvail
    <2> QED
      BY <1>10, <2>1, <2>2 DEF GetAvailPoll, driver
  <1>11. ASSUME NEW r \in DevObjs, GatherAvailable(r) PROVE CursorInv'
    <2>1. \A q \in DevObjs : robj'[q].first = robj[q].first
      BY <1>11 DEF GatherAvailable, TypeInv, TypeOK, RobjType
    <2>2. NAvail' = NAvail /\ NUsed' = NUsed /\ Held' = Held
      BY <1>11, <2>1
         DEF GatherAvailable, NAvail, NUsed, Held, Pending, shared, driver
    <2> QED
      BY <1>11, <2>2 DEF GatherAvailable, driver
  <1>12. ASSUME NEW r \in DevObjs, AddUsedSlot(r) PROVE CursorInv'
    <2>1. NAvail' = NAvail /\ NUsed' = NUsed /\ Held' = Held
      BY <1>12 DEF AddUsedSlot, NAvail, NUsed, Held, Pending, driver
    <2> QED
      BY <1>12, <2>1 DEF AddUsedSlot, driver
  <1>13. ASSUME GetAvailTake PROVE CursorInv'
    <2>1. NUsed' = NUsed
      BY <1>13 DEF GetAvailTake, NUsed, Pending, shared, driver
    <2>2. NAvail' = NAvail - 1
      BY <1>13, <1>t, PendingStep DEF GetAvailTake, NAvail, Pending, shared
    <2>3. /\ dev.obj \in DevObjs
          /\ availRing[Succ(aLast)] # Unset
      BY <1>13, <1>t, <1>u, SuccWraps
         DEF GetAvailTake, TypeInv, TypeOK, CallsInv
    <2>4. dev.obj \notin Held /\ Held' = Held \cup {dev.obj}
      BY <1>13, <2>3 DEF GetAvailTake, Held, TypeInv, TypeOK
    <2>5. Cardinality(Held') = Cardinality(Held) + 1
      BY <2>4, HeldFinite, FS_AddElement
    <2> QED
      BY <1>13, <1>t, <2>1, <2>2, <2>5 DEF GetAvailTake, IdleDev, driver
  <1>14. ASSUME AddUsedPublish PROVE CursorInv'
    <2>1. NAvail' = NAvail
      BY <1>14 DEF AddUsedPublish, NAvail, Pending
    <2>2. dev.obj \in DevObjs
      BY <1>14 DEF AddUsedPublish, TypeInv, CallsInv
    <2>3. dev.obj \in Held /\ Held' = Held \ {dev.obj}
      BY <1>14, <2>2 DEF AddUsedPublish, NullRobj, Held, TypeInv, TypeOK
    <2>4. Cardinality(Held') = Cardinality(Held) - 1
      BY <2>3, HeldFinite, FS_RemoveElement
    <2>5. Cardinality(Held) > 0
      BY <2>3, HeldFinite, FS_EmptySet, <1>t
    <2>6. NUsed < QueueLen - 1
      BY <1>t, <2>5
    <2>7. NUsed' = NUsed + 1
      BY <1>14, <1>t, <2>6, PendingStep DEF AddUsedPublish, NUsed, Pending, driver
    <2> QED
      BY <1>14, <1>t, <2>1, <2>4, <2>7 DEF AddUsedPublish, IdleDev, driver
  <1>15. CASE UNCHANGED vars
    BY <1>15 DEF vars, shared, driver, device, NAvail, NUsed, Held, Pending
  <1> QED
    BY <1>1, <1>2, <1>3, <1>4, <1>5, <1>6, <1>7, <1>8, <1>9, <1>10, <1>11,
       <1>12, <1>13, <1>14, <1>15
       DEF Next, Add, Pop, Serve

(* If the driver's client leaves one slot of the rings unused, an accepted *)
(* entry is never lost to an index that wraps: the two rings, the device   *)
(* and the driver's pop account for every entry in flight.  (With no slot  *)
(* unused TLC finds a behaviour that loses one.)                           *)
THEOREM AcceptedIsVisible ==
    ASSUME MaxInFlight < QueueLen
    PROVE  Spec => []AcceptedVisible
  <1>1. Init => TypeInv /\ CursorInv
    BY InitTypeInv, InitCursorInv
  <1>2. TypeInv /\ CursorInv /\ [Next]_vars => (TypeInv /\ CursorInv)'
    BY NextTypeInv, NextCursorInv
  <1>3. CursorInv => AcceptedVisible
    BY DEF CursorInv
  <1> QED
    BY <1>1, <1>2, <1>3, PTL DEF Spec
-----------------------------------------------------------------------------
(* Where each descriptor and each entry is.                                *)
InFree(d) == \E i \in 1..Len(free) : free[i] = d
On(s, d) == \E i \in 1..Len(s) : s[i].d = d
Adding(d) == drv.pc \in {"link", "publish"} /\ drv.idx = d

NoRepeat(s) == \A i, j \in 1..Len(s) : s[i].d = s[j].d => i = j

(* Every descriptor has one owner, ...                                     *)
Owned ==
    \A d \in Desc :
       /\ InFree(d) \/ On(popping, d) \/ Adding(d) \/ \E h \in Desc : On(chain[h], d)
       /\ InFree(d) => ~On(popping, d) /\ ~Adding(d)
       /\ On(popping, d) => ~Adding(d)
       /\ \A h \in Desc : On(chain[h], d) =>
             /\ ~InFree(d) /\ ~On(popping, d) /\ ~Adding(d)
             /\ \A g \in Desc : On(chain[g], d) => g = h

(* ... no list has one twice, and the next fields spell the lists.         *)
FreeInv ==
    /\ freeHead = IF free = <<>> THEN End ELSE free[1]
    /\ \A i \in 1..Len(free) :
          desc[free[i]].next = IF i = Len(free) THEN End ELSE free[i + 1]
    /\ \A i, j \in 1..Len(free) : free[i] = free[j] => i = j

ListsInv ==
    /\ FreeInv
    /\ \A h \in Desc : NoRepeat(chain[h]) /\ (chain[h] # <<>> => Linked(chain[h], h))
    /\ NoRepeat(popping)
    /\ uobj.first # Unset => Linked(popping, uobj.cur)
    /\ uobj.first = Unset => uobj.cur = Unset /\ popping = <<>>
    /\ drv.pc \in {"link", "publish"} => desc[drv.idx].next = End

(* An entry is in one ring or with the device, in one place, ...           *)
Placed(h) ==
    \/ \E k \in 1..NAvail : Avail(k) = h
    \/ \E r \in Held : robj[r].first = h
    \/ \E k \in 1..NUsed : Used(k).id = h

EntryInv ==
    /\ \A h \in Desc : chain[h] # <<>> <=> Placed(h)
    /\ \A j, k \in 1..NAvail : Avail(j) = Avail(k) => j = k
    /\ \A q, r \in Held : robj[q].first = robj[r].first => q = r
    /\ \A j, k \in 1..NUsed : Used(j).id = Used(k).id => j = k
    /\ \A k \in 1..NAvail, r \in Held : Avail(k) # robj[r].first
    /\ \A k \in 1..NAvail, j \in 1..NUsed : Avail(k) # Used(j).id
    /\ \A r \in Held, j \in 1..NUsed : robj[r].first # Used(j).id
    /\ dev.pc = "publish" => usedRing[usedIdx].id = robj[dev.obj].first

(* ... and one that the driver still builds has not reached the device,    *)
(* which does not poll.                                                    *)
Open(o) == obj[o].first # Unset /\ ~(drv.pc = "publish" /\ drv.obj = o)

Building(o) ==
    LET h == obj[o].first
    IN  /\ chain[h] # <<>> /\ obj[o].cur = chain[h][Len(chain[h])].d
        /\ \A r \in Held : robj[r].first # h
        /\ \A k \in 1..NUsed : Used(k).id # h
        /\ dev.pc = "take" => Avail(1) # h

OpenInv ==
    /\ \A o \in DrvObjs : Open(o) => Building(o)
    /\ \A o, q \in DrvObjs : Open(o) /\ Open(q) /\ obj[o].first = obj[q].first => o = q
    /\ drv.pc = "publish" => /\ obj[drv.obj].first = drv.idx
                             /\ obj[drv.obj].cur = drv.idx
                             /\ availRing[availIdx] = drv.idx

FlowInv == Owned /\ ListsInv /\ EntryInv /\ OpenInv
-----------------------------------------------------------------------------
(* Sequences and lists.                                                    *)

LEMMA RestIs ==
    ASSUME NEW S, NEW s \in Seq(S), s # <<>>
    PROVE  /\ Rest(s) \in Seq(S) /\ Len(Rest(s)) = Len(s) - 1 /\ Len(s) \in Nat \ {0}
           /\ \A i \in 1..(Len(s) - 1) : Rest(s)[i] = s[i + 1]
  <1>1. Len(s) \in Nat /\ Len(s) # 0
    BY EmptySeq, LenProperties
  <1>2. Rest(s) = Tail(s)
    BY TailIsSubSeq DEF Rest
  <1> QED
    BY <1>1, <1>2, HeadTailProperties

LEMMA ConsIs ==
    ASSUME NEW S, NEW s \in Seq(S), NEW x \in S
    PROVE  /\ <<x>> \o s \in Seq(S) /\ Len(<<x>> \o s) = Len(s) + 1
           /\ (<<x>> \o s)[1] = x
           /\ \A i \in 1..Len(s) : (<<x>> \o s)[i + 1] = s[i]
  OBVIOUS

(* A list is as it was when none of its descriptors has changed.           *)
LEMMA LinkedFrame ==
    ASSUME NEW s \in Seq(LinkType), NEW i, Linked(s, i),
           \A d \in Desc : On(s, d) => desc'[d] = desc[d]
    PROVE  Linked(s, i)'
  <1>1. ASSUME NEW k \in 1..Len(s) PROVE s[k].d \in Desc /\ On(s, s[k].d)
    <2>1. s[k] \in LinkType
      BY ElementOfSeq
    <2>2. s[k].d \in Desc
      BY <2>1 DEF LinkType
    <2>3. On(s, s[k].d)
      BY Zenon DEF On
    <2> QED
      BY <2>2, <2>3
  <1>2. DOMAIN s = 1..Len(s)
    OBVIOUS
  <1> QED
    BY <1>1, <1>2 DEF Linked
-----------------------------------------------------------------------------
(* The descriptor table, step by step.                                     *)
TableInv == Owned /\ ListsInv

LEMMA TableQuiet ==
    ASSUME TableInv,
           UNCHANGED <<desc, freeHead, uobj, free, chain, popping>>,
           drv'.pc \in {"link", "publish"} =>
              drv.pc \in {"link", "publish"} /\ drv'.idx = drv.idx,
           drv.pc \in {"link", "publish"} => drv'.pc \in {"link", "publish"}
    PROVE  TableInv'
  <1>1. ASSUME NEW d \in Desc
        PROVE  /\ InFree(d)' = InFree(d) /\ On(popping, d)' = On(popping, d)
               /\ Adding(d)' <=> Adding(d)
               /\ \A h \in Desc : On(chain[h], d)' = On(chain[h], d)
    BY DEF InFree, On, Adding
  <1>2. Owned'
    BY <1>1 DEF TableInv, Owned
  <1>3. ListsInv'
    BY DEF TableInv, ListsInv, FreeInv, NoRepeat, Linked
  <1> QED
    BY <1>2, <1>3 DEF TableInv

LEMMA ChainFrame ==
    ASSUME TypeInv, TableInv, NEW h \in Desc, chain[h] # <<>>, chain'[h] = chain[h],
           \A d \in Desc : On(chain[h], d) => desc'[d] = desc[d]
    PROVE  Linked(chain[h], h)'
  <1>1. PICK s \in Seq(LinkType) : s = chain[h]
    BY DEF TypeInv, TypeOK
  <1>2. Linked(s, h)'
    BY <1>1, LinkedFrame DEF TableInv, ListsInv
  <1> QED
    BY <1>1, <1>2 DEF Linked

LEMMA PopFrame ==
    ASSUME TypeInv, TableInv, uobj.first # Unset, popping' = popping, uobj' = uobj,
           \A d \in Desc : On(popping, d) => desc'[d] = desc[d]
    PROVE  Linked(popping, uobj.cur)'
  <1>1. PICK s, c : s \in Seq(LinkType) /\ s = popping /\ c = uobj.cur
    BY DEF TypeInv, TypeOK
  <1>2. Linked(s, c)'
    BY <1>1, LinkedFrame DEF TableInv, ListsInv
  <1> QED
    BY <1>1, <1>2 DEF Linked

(* The free list when only descriptors outside it change.                  *)
LEMMA FreeFrame ==
    ASSUME TypeInv, TableInv, UNCHANGED <<free, freeHead>>,
           \A d \in Desc : InFree(d) => desc'[d] = desc[d]
    PROVE  FreeInv'
  <1>1. ASSUME NEW i \in 1..Len(free) PROVE free[i] \in Desc /\ InFree(free[i])
    BY ElementOfSeq DEF TypeInv, TypeOK, InFree
  <1> QED
    BY <1>1 DEF TableInv, ListsInv, FreeInv

(* vq_add_desc takes the first descriptor off the free list.               *)
LEMMA AddDescTable ==
    ASSUME TypeInv, TableInv, NEW o \in DrvObjs, NEW b \in Bufs, AddDesc(o, b)
    PROVE  TableInv'
  <1>1. PICK f \in Desc : f = freeHead
    BY DEF AddDesc, TypeInv, TypeOK, End
  <1>2. /\ drv.pc = "idle" /\ drv'.pc = "link" /\ drv'.idx = f
        /\ freeHead' = desc[f].next /\ free' = Rest(free)
        /\ desc'[f].next = End /\ \A d \in Desc : d # f => desc'[d] = desc[d]
        /\ UNCHANGED <<chain, popping, uobj>>
    BY <1>1 DEF AddDesc, TypeInv, TypeOK
  <1>3. free \in Seq(Desc) /\ free # <<>> /\ free[1] = f
    BY <1>1, QueueLenAssumption DEF TypeInv, TypeOK, TableInv, ListsInv, FreeInv, End, Desc
  <1>4. PICK n \in Nat : /\ Len(free) = n + 1 /\ Len(free') = n /\ free' \in Seq(Desc)
                         /\ \A i \in 1..n : free'[i] = free[i + 1]
    BY <1>2, <1>3, RestIs
  <1>5. /\ \A i \in 1..(n + 1) : free[i] \in Desc
        /\ \A i \in 1..(n + 1) : desc[free[i]].next = IF i = n + 1 THEN End ELSE free[i + 1]
        /\ \A i, j \in 1..(n + 1) : free[i] = free[j] => i = j
    BY <1>3, <1>4, ElementOfSeq DEF TableInv, ListsInv, FreeInv
  <1>6. \A d \in Desc : InFree(d)' <=> InFree(d) /\ d # f
    <2> TAKE d \in Desc
    <2>1. ASSUME InFree(d)' PROVE InFree(d) /\ d # f
      <3>1. PICK i \in 1..n : free'[i] = d
        BY <1>4, <2>1 DEF InFree
      <3>2. i + 1 \in 1..(n + 1) /\ 1 \in 1..(n + 1) /\ i + 1 # 1 /\ free[i + 1] = d
        BY <1>4, <3>1
      <3> QED
        BY <1>3, <1>4, <1>5, <3>2 DEF InFree
    <2>2. ASSUME InFree(d), d # f PROVE InFree(d)'
      <3>1. PICK i \in 1..(n + 1) : free[i] = d
        BY <1>4, <2>2 DEF InFree
      <3>2. i # 1
        BY <1>3, <2>2, <3>1
      <3>3. i - 1 \in 1..n /\ free'[i - 1] = d
        BY <1>4, <3>1, <3>2
      <3> QED
        BY <1>4, <3>3 DEF InFree
    <2> QED
      BY <2>1, <2>2
  <1>7. InFree(f)
    <2>1. 1 \in 1..Len(free)
      BY <1>4
    <2> QED
      BY <1>3, <2>1 DEF InFree
  <1>8. \A d \in Desc : /\ Adding(d)' <=> d = f
                        /\ ~Adding(d)
                        /\ On(popping, d)' = On(popping, d)
                        /\ \A h \in Desc : On(chain[h], d)' = On(chain[h], d)
    BY <1>2 DEF Adding, On
  <1>9. Owned'
    BY <1>6, <1>7, <1>8 DEF TableInv, Owned
  <1>10. FreeInv'
    <2>1. freeHead' = IF free' = <<>> THEN End ELSE free'[1]
      <3>1. desc[f].next = IF n = 0 THEN End ELSE free[2]
        BY <1>3, <1>4, <1>5
      <3>2. n = 0 <=> free' = <<>>
        BY <1>4, EmptySeq
      <3> QED
        BY <1>2, <1>4, <3>1, <3>2
    <2>2. ASSUME NEW i \in 1..n
          PROVE  desc'[free'[i]].next = IF i = n THEN End ELSE free'[i + 1]
      <3>1. i + 1 \in 1..(n + 1) /\ 1 \in 1..(n + 1) /\ i + 1 # 1 /\ (i + 1) + 1 = i + 2
        BY <1>4
      <3>2. free[i + 1] # f /\ free[i + 1] \in Desc
        BY <1>3, <1>5, <3>1
      <3>3. desc[free[i + 1]].next = IF i + 1 = n + 1 THEN End ELSE free[(i + 1) + 1]
        BY <1>5, <3>1
      <3>4. i # n => free'[i + 1] = free[(i + 1) + 1]
        BY <1>4
      <3> QED
        BY <1>2, <1>4, <3>2, <3>3, <3>4
    <2>3. ASSUME NEW i \in 1..n, NEW j \in 1..n, free'[i] = free'[j] PROVE i = j
      <3>1. i + 1 \in 1..(n + 1) /\ j + 1 \in 1..(n + 1)
        BY <1>4
      <3> QED
        BY <1>4, <1>5, <2>3, <3>1
    <2> QED
      BY <1>4, <2>1, <2>2, <2>3 DEF FreeInv
  <1>11. ListsInv'
    <2>1. ASSUME NEW h \in Desc, chain[h] # <<>> PROVE Linked(chain[h], h)'
      BY <1>2, <1>7, <2>1, ChainFrame DEF TableInv, Owned
    <2>2. ASSUME uobj.first # Unset PROVE Linked(popping, uobj.cur)'
      BY <1>2, <1>7, <2>2, PopFrame DEF TableInv, Owned
    <2> QED
      BY <1>2, <1>10, <2>1, <2>2 DEF TableInv, ListsInv, NoRepeat
  <1> QED
    BY <1>9, <1>11 DEF TableInv

(* The buffer is linked behind the last one of an entry the driver has     *)
(* open.                                                                   *)
LEMMA LinkDescTable ==
    ASSUME TypeInv, TableInv, OpenInv, LinkDesc
    PROVE  TableInv'
  <1>1. PICK o \in DrvObjs, x \in Desc : o = drv.obj /\ x = drv.idx
    BY DEF LinkDesc, TypeInv, CallsInv
  <1>2. drv.pc = "link" /\ obj[o].first # Unset /\ obj[o] # NullObj /\ Open(o)
    BY <1>1 DEF LinkDesc, NullObj, Open
  <1>3. PICK h \in Desc, v \in Desc : h = obj[o].first /\ v = obj[o].cur
    BY <1>2 DEF TypeInv, TypeOK, BuildType
  <1>4. PICK s \in Seq(LinkType) : s = chain[h]
    BY DEF TypeInv, TypeOK
  <1>5. PICK n \in Nat : n # 0 /\ n = Len(s) /\ s[n].d = v
    <2>1. s # <<>> /\ s[Len(s)].d = v
      BY <1>2, <1>3, <1>4 DEF OpenInv, Building
    <2> QED
      BY <2>1, EmptySeq, LenProperties
  <1>6. PICK l \in LinkType : l.d = x /\ l = Link(x, desc[x].buf)
    BY DEF TypeInv, TypeOK, Link, LinkType, DescType
  <1>7. /\ drv'.pc = "idle"
        /\ desc'[v].next = x /\ desc'[v].buf = desc[v].buf
        /\ \A d \in Desc : d # v => desc'[d] = desc[d]
        /\ chain'[h] = Append(s, l) /\ \A g \in Desc : g # h => chain'[g] = chain[g]
        /\ UNCHANGED <<free, freeHead, popping, uobj>>
    BY <1>1, <1>2, <1>3, <1>4, <1>6 DEF LinkDesc, TypeInv, TypeOK, IdleDrv, DescType
  <1>8. On(s, v)
    BY <1>5 DEF On
  <1>9. /\ Len(chain'[h]) = n + 1 /\ chain'[h][n + 1] = l
        /\ \A i \in 1..n : chain'[h][i] = s[i]
    BY <1>4, <1>5, <1>6, <1>7
  <1>10. \A d \in Desc :
            /\ ~Adding(d)' /\ (Adding(d) <=> d = x)
            /\ On(chain[h], d)' <=> On(chain[h], d) \/ d = x
            /\ InFree(d)' = InFree(d) /\ On(popping, d)' = On(popping, d)
            /\ \A g \in Desc : g # h => On(chain[g], d)' = On(chain[g], d)
    <2> TAKE d \in Desc
    <2>1. ~Adding(d)' /\ (Adding(d) <=> d = x)
      BY <1>1, <1>2, <1>7 DEF Adding
    <2>2. On(chain[h], d)' => On(chain[h], d) \/ d = x
      BY <1>4, <1>5, <1>6, <1>9 DEF On
    <2>3. On(chain[h], d) => On(chain[h], d)'
      BY <1>4, <1>5, <1>9 DEF On
    <2>4. d = x => On(chain[h], d)'
      <3>1. n + 1 \in 1..(n + 1)
        BY <1>5
      <3> QED
        BY <1>6, <1>9, <3>1 DEF On
    <2>5. InFree(d)' = InFree(d) /\ On(popping, d)' = On(popping, d)
      BY <1>7 DEF InFree, On
    <2>6. \A g \in Desc : g # h => On(chain[g], d)' = On(chain[g], d)
      BY <1>7 DEF On
    <2> QED
      BY <2>1, <2>2, <2>3, <2>4, <2>5, <2>6
  <1>11. Owned'
    BY <1>10 DEF TableInv, Owned
  <1>12. v # x /\ On(chain[h], v)
    BY <1>4, <1>8, <1>10 DEF TableInv, Owned
  <1>13. FreeInv'
    BY <1>7, <1>12, FreeFrame DEF TableInv, Owned
  <1>14. NoRepeat(chain[h])'
    <2>1. \A i \in 1..n : s[i].d # x
      <3> SUFFICES ASSUME NEW i \in 1..n, s[i].d = x PROVE FALSE
        OBVIOUS
      <3>1. On(chain[h], x)
        BY <1>4, <1>5 DEF On
      <3> QED
        BY <1>10, <3>1 DEF TableInv, Owned
    <2>2. NoRepeat(s)
      BY <1>4 DEF TableInv, ListsInv
    <2> QED
      BY <1>5, <1>6, <1>9, <2>1, <2>2 DEF NoRepeat
  <1>15. Linked(chain[h], h)'
    <2>1. Linked(s, h) /\ s # <<>> /\ NoRepeat(s)
      BY <1>4, <1>5 DEF TableInv, ListsInv
    <2>2. s[1].d = h /\ DOMAIN s = 1..n
      BY <1>5, <2>1 DEF Linked
    <2>3. chain'[h] # <<>> /\ chain'[h][1].d = h /\ DOMAIN chain'[h] = 1..(n + 1)
      BY <1>4, <1>5, <1>6, <1>7, <1>9, <2>2
    <2>4. ASSUME NEW k \in 1..(n + 1)
          PROVE  /\ desc'[chain'[h][k].d].buf = chain'[h][k].buf
                 /\ desc'[chain'[h][k].d].next =
                       IF k = n + 1 THEN End ELSE chain'[h][k + 1].d
      <3>1. CASE k = n + 1
        <4>1. l.buf = desc[x].buf /\ desc[x].next = End
          BY <1>1, <1>2, <1>6 DEF Link, TableInv, ListsInv
        <4> QED
          BY <1>6, <1>7, <1>9, <1>12, <3>1, <4>1
      <3>2. CASE k = n
        <4>1. desc[v].buf = s[n].buf
          BY <1>5, <2>1, <2>2 DEF Linked
        <4> QED
          BY <1>5, <1>6, <1>7, <1>9, <3>2, <4>1
      <3>3. CASE k \in 1..(n - 1)
        <4>1. k \in 1..n /\ k + 1 \in 1..n /\ n \in 1..n /\ k # n
          BY <1>5, <3>3
        <4>2. s[k].d # v /\ s[k].d \in Desc
          <5>1. s[k] \in LinkType
            BY <1>5, <4>1, ElementOfSeq
          <5>2. s[k].d # s[n].d
            BY <1>5, <2>1, <4>1 DEF NoRepeat
          <5> QED
            BY <1>5, <5>1, <5>2 DEF LinkType
        <4>3. desc[s[k].d].buf = s[k].buf /\ desc[s[k].d].next = s[k + 1].d
          BY <1>5, <2>1, <2>2, <4>1 DEF Linked
        <4> QED
          BY <1>5, <1>7, <1>9, <4>1, <4>2, <4>3
      <3> QED
        BY <1>5, <3>1, <3>2, <3>3
    <2> QED
      BY <1>9, <2>3, <2>4 DEF Linked
  <1>16. ListsInv'
    <2>1. ASSUME NEW g \in Desc, g # h, chain'[g] # <<>> PROVE Linked(chain[g], g)'
      <3>1. \A d \in Desc : On(chain[g], d) => desc'[d] = desc[d]
        BY <1>7, <1>12, <2>1 DEF TableInv, Owned
      <3> QED
        BY <1>7, <2>1, <3>1, ChainFrame
    <2>2. ASSUME uobj.first # Unset PROVE Linked(popping, uobj.cur)'
      <3>1. \A d \in Desc : On(popping, d) => desc'[d] = desc[d]
        BY <1>7, <1>12 DEF TableInv, Owned
      <3> QED
        BY <1>7, <2>2, <3>1, PopFrame
    <2>3. ASSUME NEW g \in Desc PROVE NoRepeat(chain[g])'
      <3>1. g # h => NoRepeat(chain[g])'
        BY <1>7 DEF TableInv, ListsInv, NoRepeat
      <3> QED
        BY <1>14, <3>1
    <2> QED
      BY <1>7, <1>13, <1>15, <2>1, <2>2, <2>3 DEF TableInv, ListsInv, NoRepeat
  <1> QED
    BY <1>11, <1>16 DEF TableInv

(* The first buffer becomes an entry of one descriptor.                    *)
LEMMA AvailPublishTable ==
    ASSUME TypeInv, TableInv, AvailPublish
    PROVE  TableInv'
  <1>1. PICK x \in Desc : x = drv.idx
    BY DEF AvailPublish, TypeInv, CallsInv
  <1>2. PICK l \in LinkType : l.d = x /\ l = Link(x, desc[x].buf)
    BY DEF TypeInv, TypeOK, Link, LinkType, DescType
  <1>3. /\ drv.pc = "publish" /\ drv'.pc = "idle"
        /\ chain'[x] = <<l>> /\ \A g \in Desc : g # x => chain'[g] = chain[g]
        /\ UNCHANGED <<desc, free, freeHead, popping, uobj>>
    BY <1>1, <1>2 DEF AvailPublish, TypeInv, TypeOK, IdleDrv
  <1>4. Adding(x)
    BY <1>1, <1>3 DEF Adding
  <1>5. chain[x] = <<>>
    <2> SUFFICES ASSUME chain[x] # <<>> PROVE FALSE
      OBVIOUS
    <2>1. chain[x] \in Seq(LinkType) /\ chain[x][1].d = x
      BY DEF TypeInv, TypeOK, TableInv, ListsInv, Linked
    <2>2. 1 \in 1..Len(chain[x])
      BY <2>1, EmptySeq, LenProperties
    <2>3. On(chain[x], x)
      BY <2>1, <2>2 DEF On
    <2> QED
      BY <1>4, <2>3 DEF TableInv, Owned
  <1>6. \A d \in Desc :
           /\ ~Adding(d)' /\ (Adding(d) <=> d = x)
           /\ On(chain[x], d)' <=> d = x
           /\ ~On(chain[x], d)
           /\ InFree(d)' = InFree(d) /\ On(popping, d)' = On(popping, d)
           /\ \A g \in Desc : g # x => On(chain[g], d)' = On(chain[g], d)
    <2> TAKE d \in Desc
    <2>1. ~Adding(d)' /\ (Adding(d) <=> d = x)
      BY <1>1, <1>3 DEF Adding
    <2>2. On(chain[x], d)' <=> d = x
      <3>1. Len(chain'[x]) = 1 /\ chain'[x][1] = l
        BY <1>3
      <3> QED
        BY <1>2, <3>1 DEF On
    <2>3. ~On(chain[x], d)
      BY <1>5 DEF On
    <2>4. InFree(d)' = InFree(d) /\ On(popping, d)' = On(popping, d)
      BY <1>3 DEF InFree, On
    <2>5. \A g \in Desc : g # x => On(chain[g], d)' = On(chain[g], d)
      BY <1>3 DEF On
    <2> QED
      BY <2>1, <2>2, <2>3, <2>4, <2>5
  <1>7. Owned'
    BY <1>6 DEF TableInv, Owned
  <1>8. NoRepeat(chain[x])' /\ Linked(chain[x], x)'
    <2>1. desc[x].next = End /\ l.buf = desc[x].buf
      BY <1>1, <1>2, <1>3 DEF TableInv, ListsInv, Link
    <2>2. Len(chain'[x]) = 1 /\ DOMAIN chain'[x] = {1} /\ chain'[x][1] = l /\ chain'[x] # <<>>
      BY <1>3
    <2> QED
      BY <1>2, <1>3, <2>1, <2>2 DEF NoRepeat, Linked
  <1>9. ListsInv'
    <2>1. FreeInv'
      BY <1>3, FreeFrame
    <2>2. ASSUME NEW g \in Desc, chain'[g] # <<>> PROVE Linked(chain[g], g)'
      BY <1>3, <1>8, <2>2, ChainFrame
    <2>3. ASSUME uobj.first # Unset PROVE Linked(popping, uobj.cur)'
      BY <1>3, <2>3, PopFrame
    <2>4. ASSUME NEW g \in Desc PROVE NoRepeat(chain[g])'
      <3>1. g # x => NoRepeat(chain[g])'
        BY <1>3 DEF TableInv, ListsInv, NoRepeat
      <3> QED
        BY <1>8, <3>1
    <2> QED
      BY <1>3, <2>1, <2>2, <2>3, <2>4 DEF TableInv, ListsInv, NoRepeat
  <1> QED
    BY <1>7, <1>9 DEF TableInv

(* virtqueue_get_used_buf: the entry passes to the driver's pop.           *)
LEMMA GetUsedTakeTable ==
    ASSUME TypeInv, TableInv, CursorInv, EntryInv, GetUsedTake
    PROVE  TableInv'
  <1>1. PICK h \in Desc : h = usedRing[Succ(uLast)].id
    BY SuccWraps DEF TypeInv, TypeOK
  <1>2. PICK s \in Seq(LinkType) : s = chain[h]
    BY DEF TypeInv, TypeOK
  <1>3. /\ drv.pc = "used" /\ drv'.pc = "idle"
        /\ uobj'.cur = h /\ uobj'.first = h
        /\ popping' = s /\ chain'[h] = <<>>
        /\ \A g \in Desc : g # h => chain'[g] = chain[g]
        /\ UNCHANGED <<desc, free, freeHead>>
    BY <1>1, <1>2 DEF GetUsedTake, shared, TypeInv, TypeOK, IdleDrv
  <1>4. s # <<>>
    <2>1. 1 \in 1..NUsed
      BY <1>3, Counts DEF CursorInv
    <2>2. Used(1).id = h
      BY <1>1 DEF Used, After, Succ
    <2> QED
      BY <1>2, <2>1, <2>2 DEF EntryInv, Placed
  <1>5. popping = <<>>
    BY <1>3 DEF CursorInv, TableInv, ListsInv
  <1>6. \A d \in Desc :
           /\ ~Adding(d)' /\ ~Adding(d) /\ InFree(d)' = InFree(d)
           /\ ~On(popping, d) /\ On(popping, d)' = On(chain[h], d)
           /\ ~On(chain[h], d)'
           /\ \A g \in Desc : g # h => On(chain[g], d)' = On(chain[g], d)
    BY <1>2, <1>3, <1>5 DEF Adding, InFree, On
  <1>7. Owned'
    BY <1>6 DEF TableInv, Owned
  <1>8. ListsInv'
    <2>1. FreeInv'
      BY <1>3, FreeFrame
    <2>2. ASSUME NEW g \in Desc, chain'[g] # <<>> PROVE Linked(chain[g], g)'
      BY <1>3, <2>2, ChainFrame
    <2>3. Linked(popping, uobj.cur)' /\ NoRepeat(popping)'
      <3>1. Linked(s, h) /\ NoRepeat(s)
        BY <1>2, <1>4 DEF TableInv, ListsInv
      <3>2. Linked(s, h)'
        BY <1>3, <3>1, LinkedFrame
      <3> QED
        BY <1>3, <3>1, <3>2 DEF Linked, NoRepeat
    <2>4. ASSUME NEW g \in Desc PROVE NoRepeat(chain[g])'
      <3>1. g # h => NoRepeat(chain[g])'
        BY <1>3 DEF TableInv, ListsInv, NoRepeat
      <3>2. NoRepeat(chain[h])'
        BY <1>3 DEF NoRepeat
      <3> QED
        BY <3>1, <3>2
    <2>5. h # Unset
      BY QueueLenAssumption DEF Unset, Desc
    <2> QED
      BY <1>3, <2>1, <2>2, <2>3, <2>4, <2>5 DEF TableInv, ListsInv
  <1> QED
    BY <1>7, <1>8 DEF TableInv

(* vq_pop_desc: the first descriptor of the entry being popped goes to the *)
(* front of the free list.                                                 *)
LEMMA GatherUsedTable ==
    ASSUME TypeInv, TableInv, GatherUsed
    PROVE  TableInv'
  <1>1. PICK x \in Desc : x = uobj.cur
    BY QueueLenAssumption DEF GatherUsed, TypeInv, TypeOK, ObjType, Index, Desc, End, Unset
  <1>2. uobj.first # Unset /\ x # Unset /\ x # End
    BY <1>1, QueueLenAssumption DEF TableInv, ListsInv, Unset, End, Desc
  <1>3. PICK s \in Seq(LinkType), t \in Seq(LinkType) :
           s = popping /\ t = Rest(s) /\ s # <<>> /\ s[1].d = x /\ Linked(s, x) /\ NoRepeat(s)
    <2>1. popping \in Seq(LinkType) /\ Rest(popping) \in Seq(LinkType)
      BY RestType DEF TypeInv, TypeOK
    <2>2. Linked(popping, x) /\ NoRepeat(popping)
      BY <1>1, <1>2 DEF TableInv, ListsInv
    <2> QED
      BY <1>2, <2>1, <2>2 DEF Linked
  <1>4. PICK n \in Nat : /\ Len(s) = n + 1 /\ Len(t) = n /\ DOMAIN s = 1..(n + 1)
                         /\ DOMAIN t = 1..n /\ (t = <<>> <=> n = 0)
                         /\ \A i \in 1..n : t[i] = s[i + 1]
    BY <1>3, RestIs, EmptySeq
  <1>5. PICK m \in Nat : m = Len(free) /\ free \in Seq(Desc)
    BY LenProperties DEF TypeInv, TypeOK
  <1>6. /\ drv.pc = "idle" /\ drv' = drv
        /\ uobj'.cur = desc[x].next /\ uobj'.first = uobj.first
        /\ desc'[x].next = freeHead /\ \A d \in Desc : d # x => desc'[d] = desc[d]
        /\ freeHead' = x /\ free' = <<x>> \o free /\ popping' = t /\ chain' = chain
    BY <1>1, <1>3 DEF GatherUsed, TypeInv, TypeOK, ObjType, DescType
  <1>7. /\ Len(free') = m + 1 /\ free'[1] = x /\ free' # <<>>
        /\ \A i \in 1..m : free'[i + 1] = free[i]
    BY <1>5, <1>6, ConsIs
  <1>8. \A d \in Desc :
           /\ ~Adding(d)' /\ ~Adding(d)
           /\ InFree(d)' <=> InFree(d) \/ d = x
           /\ On(popping, d) <=> On(popping, d)' \/ d = x
           /\ d = x => ~On(popping, d)'
           /\ \A g \in Desc : On(chain[g], d)' = On(chain[g], d)
    <2> TAKE d \in Desc
    <2>1. ~Adding(d)' /\ ~Adding(d)
      BY <1>6 DEF Adding
    <2>2. \A g \in Desc : On(chain[g], d)' = On(chain[g], d)
      BY <1>6 DEF On
    <2>3. InFree(d)' => InFree(d) \/ d = x
      <3> SUFFICES ASSUME NEW i \in 1..(m + 1), free'[i] = d, d # x PROVE InFree(d)
        BY <1>7 DEF InFree
      <3>1. i # 1
        BY <1>7
      <3>2. i - 1 \in 1..m /\ (i - 1) + 1 = i
        BY <1>5, <3>1
      <3>3. free[i - 1] = d
        BY <1>7, <3>2
      <3> QED
        BY <1>5, <3>2, <3>3 DEF InFree
    <2>4. InFree(d) => InFree(d)'
      <3> SUFFICES ASSUME NEW i \in 1..m, free[i] = d PROVE InFree(d)'
        BY <1>5 DEF InFree
      <3>1. i + 1 \in 1..(m + 1) /\ free'[i + 1] = d
        BY <1>5, <1>7
      <3> QED
        BY <1>7, <3>1 DEF InFree
    <2>5. d = x => InFree(d)'
      <3>1. 1 \in 1..(m + 1)
        BY <1>5
      <3> QED
        BY <1>7, <3>1 DEF InFree
    <2>6. On(popping, d) => On(popping, d)' \/ d = x
      <3> SUFFICES ASSUME NEW i \in 1..(n + 1), s[i].d = d, d # x PROVE On(popping, d)'
        BY <1>3, <1>4 DEF On
      <3>1. i # 1
        BY <1>3
      <3>2. i - 1 \in 1..n /\ t[i - 1] = s[i]
        BY <1>4, <3>1
      <3> QED
        BY <1>4, <1>6, <3>2 DEF On
    <2>7. On(popping, d)' => On(popping, d) /\ d # x
      <3> SUFFICES ASSUME NEW i \in 1..n, t[i].d = d PROVE On(popping, d) /\ d # x
        BY <1>4, <1>6 DEF On
      <3>1. i + 1 \in 1..(n + 1) /\ 1 \in 1..(n + 1) /\ i + 1 # 1 /\ t[i] = s[i + 1]
        BY <1>4
      <3>2. s[i + 1].d # s[1].d
        BY <1>3, <1>4, <3>1 DEF NoRepeat
      <3> QED
        BY <1>3, <1>4, <3>1, <3>2 DEF On
    <2>8. d = x => On(popping, d)
      <3>1. 1 \in 1..(n + 1)
        BY <1>4
      <3> QED
        BY <1>3, <1>4, <3>1 DEF On
    <2> QED
      BY <2>1, <2>2, <2>3, <2>4, <2>5, <2>6, <2>7, <2>8
  <1>9. Owned'
    BY <1>8 DEF TableInv, Owned
  <1>10. /\ \A i \in 1..m : free[i] \in Desc /\ free[i] # x
         /\ freeHead = IF m = 0 THEN End ELSE free[1]
    <2>1. ASSUME NEW i \in 1..m PROVE free[i] \in Desc /\ free[i] # x
      <3>1. free[i] \in Desc
        BY <1>5, ElementOfSeq
      <3>2. InFree(free[i])
        BY <1>5 DEF InFree
      <3>3. On(popping, x)
        BY <1>8
      <3> QED
        BY <3>1, <3>2, <3>3 DEF TableInv, Owned
    <2>2. freeHead = IF m = 0 THEN End ELSE free[1]
      BY <1>5, EmptySeq DEF TableInv, ListsInv, FreeInv
    <2> QED
      BY <2>1, <2>2
  <1>11. FreeInv'
    <2>1. ASSUME NEW i \in 1..(m + 1)
          PROVE  desc'[free'[i]].next = IF i = m + 1 THEN End ELSE free'[i + 1]
      <3>1. CASE i = 1
        <4>1. m # 0 => free'[1 + 1] = free[1]
          BY <1>5, <1>7
        <4> QED
          BY <1>5, <1>6, <1>7, <1>10, <3>1, <4>1
      <3>2. CASE i # 1
        <4>1. PICK j \in 1..m : i = j + 1
          BY <1>5, <3>2
        <4>2. free'[i] = free[j] /\ (j # m => free'[i + 1] = free[j + 1])
          BY <1>5, <1>7, <4>1
        <4>3. desc[free[j]].next = IF j = m THEN End ELSE free[j + 1]
          BY <1>5 DEF TableInv, ListsInv, FreeInv
        <4> QED
          BY <1>5, <1>6, <1>10, <4>1, <4>2, <4>3
      <3> QED
        BY <3>1, <3>2
    <2>2. ASSUME NEW i \in 1..(m + 1), NEW j \in 1..(m + 1), free'[i] = free'[j]
          PROVE  i = j
      <3>1. \A k \in 1..(m + 1) : k # 1 => k - 1 \in 1..m /\ free'[k] = free[k - 1]
        <4> SUFFICES ASSUME NEW k \in 1..(m + 1), k # 1
                     PROVE  k - 1 \in 1..m /\ free'[k] = free[k - 1]
          OBVIOUS
        <4>1. k - 1 \in 1..m /\ (k - 1) + 1 = k
          BY <1>5
        <4>2. free'[(k - 1) + 1] = free[k - 1]
          BY <1>7, <4>1
        <4> QED
          BY <4>1, <4>2
      <3>2. CASE i = 1 \/ j = 1
        BY <1>7, <1>10, <2>2, <3>1, <3>2
      <3>3. CASE i # 1 /\ j # 1
        <4>1. i - 1 = j - 1
          BY <1>5, <2>2, <3>1, <3>3 DEF TableInv, ListsInv, FreeInv
        <4> QED
          BY <4>1
      <3> QED
        BY <3>2, <3>3
    <2> QED
      BY <1>6, <1>7, <2>1, <2>2 DEF FreeInv
  <1>12. Linked(popping, uobj.cur)' /\ NoRepeat(popping)'
    <2>1. desc[x].next = IF n = 0 THEN End ELSE s[2].d
      BY <1>3, <1>4 DEF Linked
    <2>2. uobj'.cur = IF t = <<>> THEN End ELSE t[1].d
      BY <1>4, <1>6, <2>1
    <2>3. ASSUME NEW k \in 1..n
          PROVE  /\ desc'[t[k].d].buf = t[k].buf
                 /\ desc'[t[k].d].next = IF k = n THEN End ELSE t[k + 1].d
      <3>1. /\ k + 1 \in 1..(n + 1) /\ 1 \in 1..(n + 1) /\ k + 1 # 1
            /\ t[k] = s[k + 1] /\ (k # n => t[k + 1] = s[(k + 1) + 1])
        BY <1>4
      <3>2. s[k + 1].d # s[1].d /\ s[k + 1] \in LinkType
        BY <1>3, <1>4, <3>1, ElementOfSeq DEF NoRepeat
      <3>3. s[k + 1].d # x /\ s[k + 1].d \in Desc
        BY <1>3, <3>2 DEF LinkType
      <3>4. /\ desc[s[k + 1].d].buf = s[k + 1].buf
            /\ desc[s[k + 1].d].next = IF k + 1 = n + 1 THEN End ELSE s[(k + 1) + 1].d
        BY <1>3, <1>4, <3>1 DEF Linked
      <3> QED
        BY <1>4, <1>6, <3>1, <3>3, <3>4
    <2>4. ASSUME NEW i \in 1..n, NEW j \in 1..n, t[i].d = t[j].d PROVE i = j
      <3>1. /\ i + 1 \in 1..(n + 1) /\ j + 1 \in 1..(n + 1)
            /\ t[i] = s[i + 1] /\ t[j] = s[j + 1]
        BY <1>4
      <3>2. i + 1 = j + 1
        BY <1>3, <1>4, <2>4, <3>1 DEF NoRepeat
      <3> QED
        BY <3>2
    <2> QED
      BY <1>4, <1>6, <2>2, <2>3, <2>4 DEF Linked, NoRepeat
  <1>13. ListsInv'
    <2>1. ASSUME NEW g \in Desc, chain'[g] # <<>> PROVE Linked(chain[g], g)'
      <3>1. \A d \in Desc : On(chain[g], d) => desc'[d] = desc[d]
        BY <1>6, <1>8 DEF TableInv, Owned
      <3> QED
        BY <1>6, <2>1, <3>1, ChainFrame
    <2>2. ASSUME NEW g \in Desc PROVE NoRepeat(chain[g])'
      BY <1>6 DEF TableInv, ListsInv, NoRepeat
    <2> QED
      BY <1>2, <1>6, <1>11, <1>12, <2>1, <2>2 DEF ListsInv
  <1> QED
    BY <1>9, <1>13 DEF TableInv

LEMMA GatherUsedEndTable ==
    ASSUME TypeInv, TableInv, GatherUsedEnd
    PROVE  TableInv'
  <1>1. /\ drv.pc = "idle" /\ drv' = drv /\ uobj' = NullObj
        /\ uobj.first # Unset /\ uobj.cur >= QueueLen
        /\ UNCHANGED <<desc, freeHead, free, chain, popping>>
    BY DEF GatherUsedEnd, shared, history
  <1>2. popping = <<>>
    <2> SUFFICES ASSUME popping # <<>> PROVE FALSE
      OBVIOUS
    <2>1. popping \in Seq(LinkType) /\ uobj.cur = popping[1].d
      BY <1>1 DEF TypeInv, TypeOK, TableInv, ListsInv, Linked
    <2>2. 1 \in 1..Len(popping)
      BY <2>1, EmptySeq, LenProperties
    <2>3. popping[1] \in LinkType
      BY <2>1, <2>2, ElementOfSeq
    <2> QED
      BY <1>1, <2>1, <2>3, QueueLenAssumption DEF LinkType, Desc
  <1>3. ASSUME NEW d \in Desc
        PROVE  /\ InFree(d)' = InFree(d) /\ On(popping, d)' = On(popping, d)
               /\ Adding(d)' = Adding(d)
               /\ \A h \in Desc : On(chain[h], d)' = On(chain[h], d)
    BY <1>1 DEF InFree, On, Adding
  <1>4. Owned'
    BY <1>3 DEF TableInv, Owned
  <1>5. ListsInv'
    BY <1>1, <1>2 DEF TableInv, ListsInv, FreeInv, NoRepeat, Linked, NullObj
  <1> QED
    BY <1>4, <1>5 DEF TableInv

(* No call moves a descriptor to two places or breaks a list.              *)
LEMMA NextTable ==
    ASSUME TypeInv, CursorInv, FlowInv, [Next]_vars
    PROVE  TableInv'
  <1> USE DEF FlowInv, TableInv
  <1>1. ASSUME NEW o \in DrvObjs, NEW b \in Bufs, AddDesc(o, b) PROVE TableInv'
    BY <1>1, AddDescTable
  <1>2. ASSUME NEW o \in DrvObjs, AddDescFull(o) \/ InitRingObject(o)
        PROVE  TableInv'
    BY <1>2, TableQuiet DEF AddDescFull, InitRingObject, shared, history
  <1>3. CASE LinkDesc
    BY <1>3, LinkDescTable
  <1>4. CASE AvailSlot
    <2>1. drv.pc = "link" /\ drv'.pc = "publish" /\ drv'.idx = drv.idx
      BY <1>4 DEF AvailSlot, TypeInv, TypeOK, DrvType
    <2> QED
      BY <1>4, <2>1, TableQuiet DEF AvailSlot, history
  <1>5. CASE AvailPublish
    BY <1>5, AvailPublishTable
  <1>6. CASE GetUsedPoll
    <2>1. drv.pc = "idle" /\ drv'.pc = "used"
      BY <1>6 DEF GetUsedPoll, IdleDrv
    <2> QED
      BY <1>6, <2>1, TableQuiet DEF GetUsedPoll, shared, history
  <1>7. CASE GetUsedTake
    BY <1>7, GetUsedTakeTable
  <1>8. CASE GatherUsed
    BY <1>8, GatherUsedTable
  <1>9. CASE GatherUsedEnd
    BY <1>9, GatherUsedEndTable
  <1>10. CASE Serve
    BY <1>10, TableQuiet DEF Serve, GetAvailPoll, GatherAvailable, AddUsedSlot,
       GetAvailTake, AddUsedPublish, shared, driver, history
  <1>11. CASE UNCHANGED vars
    BY <1>11, TableQuiet DEF vars, shared, driver, history
  <1> QED
    BY <1>1, <1>2, <1>3, <1>4, <1>5, <1>6, <1>7, <1>8, <1>9, <1>10, <1>11
       DEF Next, Add, Pop

(* virtqueue_init_desc_table: one free list of all descriptors.            *)
LEMMA InitTable == Init => TableInv
  <1> SUFFICES ASSUME Init PROVE TableInv
    OBVIOUS
  <1>1. /\ desc = [d \in Desc |-> [buf |-> NullBuf, next |-> d + 1]]
        /\ freeHead = 0 /\ free = [i \in 1..QueueLen |-> i - 1]
        /\ chain = [d \in Desc |-> <<>>] /\ popping = <<>>
        /\ uobj = NullObj /\ drv = IdleDrv
    BY DEF Init, InitDriver, InitDesc
  <1>2. Len(free) = QueueLen /\ free # <<>> /\ \A i \in 1..QueueLen : free[i] = i - 1
    <2>1. free \in Seq(Desc)
      BY InitTypeInv DEF TypeInv, TypeOK
    <2>2. Len(free) \in Nat /\ 1..Len(free) = 1..QueueLen
      BY <1>1, <2>1, LenProperties
    <2>3. Len(free) = QueueLen
      BY <2>2, QueueLenAssumption
    <2>4. free # <<>>
      BY <2>3, QueueLenAssumption
    <2> QED
      BY <1>1, <2>3, <2>4
  <1>3. ASSUME NEW d \in Desc
        PROVE  /\ InFree(d) /\ ~On(popping, d) /\ ~Adding(d)
               /\ \A h \in Desc : ~On(chain[h], d)
    <2>1. d + 1 \in 1..QueueLen /\ free[d + 1] = d
      BY <1>2, QueueLenAssumption DEF Desc
    <2>2. InFree(d)
      BY <1>2, <2>1 DEF InFree
    <2> QED
      BY <1>1, <2>2 DEF On, Adding, IdleDrv
  <1>4. Owned
    BY <1>3 DEF Owned
  <1>5. FreeInv
    <2>1. freeHead = free[1]
      BY <1>1, <1>2, QueueLenAssumption
    <2>2. ASSUME NEW i \in 1..QueueLen
          PROVE  desc[free[i]].next = IF i = QueueLen THEN End ELSE free[i + 1]
      <3>1. i - 1 \in Desc /\ free[i] = i - 1 /\ (i # QueueLen => free[i + 1] = i)
        BY <1>2, QueueLenAssumption DEF Desc
      <3> QED
        BY <1>1, <3>1, QueueLenAssumption DEF End
    <2> QED
      BY <1>2, <2>1, <2>2, QueueLenAssumption DEF FreeInv
  <1>6. ListsInv
    BY <1>1, <1>5 DEF ListsInv, NoRepeat, NullObj, IdleDrv
  <1> QED
    BY <1>4, <1>6 DEF TableInv
-----------------------------------------------------------------------------
(* The rings, step by step.                                                *)

(* The slots after a cursor: the reader's window, and the writer's slot    *)
(* just behind it.                                                         *)
LEMMA AfterIs ==
    ASSUME NEW last \in Desc, NEW k \in 0..QueueLen
    PROVE  /\ After(last, k) = IF last + k < QueueLen THEN last + k
                                                      ELSE last + k - QueueLen
           /\ After(last, k) \in Desc
  BY QueueLenAssumption DEF After, Desc

LEMMA AfterStep ==
    ASSUME NEW last \in Desc, NEW k \in 0..(QueueLen - 1)
    PROVE  After(Succ(last), k) = After(last, k + 1)
  <1>1. Succ(last) \in Desc /\ k \in 0..QueueLen /\ k + 1 \in 0..QueueLen
    BY SuccWraps, QueueLenAssumption
  <1>2. After(last, k + 1) = IF last + (k + 1) < QueueLen THEN last + (k + 1)
                                                         ELSE last + (k + 1) - QueueLen
    BY <1>1, AfterIs
  <1>3. After(Succ(last), k) = IF Succ(last) + k < QueueLen THEN Succ(last) + k
                                                          ELSE Succ(last) + k - QueueLen
    BY <1>1, AfterIs
  <1>4. Succ(last) = IF last = QueueLen - 1 THEN 0 ELSE last + 1
    BY SuccWraps
  <1> QED
    BY <1>2, <1>3, <1>4, QueueLenAssumption DEF Desc

LEMMA Window ==
    ASSUME NEW last \in Desc, NEW idx \in Desc
    PROVE  /\ After(last, 1) = Succ(last)
           /\ After(last, Pending(last, idx) + 1) = idx
           /\ \A k \in 1..Pending(last, idx) :
                 After(last, k) \in Desc /\ After(last, k) # idx
  <1>1. PICK n \in 0..(QueueLen - 1) : n = Pending(last, idx)
    BY PendingStep
  <1>2. After(last, 1) = Succ(last)
    BY DEF After, Succ
  <1>3. After(last, n + 1) = idx
    <2>1. n + 1 \in 0..QueueLen
      BY QueueLenAssumption
    <2>2. After(last, n + 1) = IF last + (n + 1) < QueueLen THEN last + (n + 1)
                                                           ELSE last + (n + 1) - QueueLen
      BY <2>1, AfterIs
    <2> QED
      BY <1>1, <2>2, QueueLenAssumption DEF Pending, Desc
  <1>4. ASSUME NEW k \in 1..n PROVE After(last, k) \in Desc /\ After(last, k) # idx
    <2>1. k \in 0..QueueLen
      BY QueueLenAssumption
    <2>2. /\ After(last, k) = IF last + k < QueueLen THEN last + k ELSE last + k - QueueLen
          /\ After(last, k) \in Desc
      BY <2>1, AfterIs
    <2> QED
      BY <1>1, <2>2, QueueLenAssumption DEF Pending, Desc
  <1> QED
    BY <1>1, <1>2, <1>3, <1>4

(* There is room in the rings for the entry that is being published.       *)
LEMMA Room ==
    ASSUME MaxInFlight < QueueLen, TypeInv, CursorInv
    PROVE  /\ drv.pc = "publish" => NAvail < QueueLen - 1
           /\ dev.pc = "publish" => NUsed < QueueLen - 1
  <1>1. /\ NAvail \in Nat /\ NUsed \in Nat /\ Cardinality(Held) \in Nat
        /\ inFlight \in Int /\ MaxInFlight \in Nat /\ QueueLen \in Nat
    BY Counts, HeldFinite, InFlightAssumption, QueueLenAssumption DEF TypeInv, TypeOK
  <1>2. drv.pc = "publish" => NAvail < QueueLen - 1
    BY <1>1 DEF CursorInv, AcceptedVisible
  <1>3. dev.pc = "publish" => Cardinality(Held) > 0
    <2> SUFFICES ASSUME dev.pc = "publish" PROVE Cardinality(Held) > 0
      OBVIOUS
    <2>1. dev.obj \in Held
      BY DEF CursorInv, Held, TypeInv, CallsInv
    <2> QED
      BY <1>1, <2>1, HeldFinite, FS_EmptySet
  <1>4. dev.pc = "publish" => NUsed < QueueLen - 1
    BY <1>1, <1>3 DEF CursorInv, AcceptedVisible
  <1> QED
    BY <1>2, <1>4

(* How the steps that move an index or a cursor change the entries that    *)
(* the readers see: the writer adds one behind the others, the reader      *)
(* drops the first.                                                        *)
LEMMA AvailAdded ==
    ASSUME MaxInFlight < QueueLen, TypeInv, CursorInv, AvailPublish,
           NEW n \in Nat, n = NAvail
    PROVE  /\ NAvail' = n + 1 /\ Avail(n + 1)' = availRing[availIdx]
           /\ \A k \in 1..n : Avail(k)' = Avail(k)
           /\ NUsed' = NUsed /\ Held' = Held /\ \A k \in 1..NUsed : Used(k)' = Used(k)
  <1>1. /\ availIdx' = Succ(availIdx)
        /\ UNCHANGED <<availRing, usedIdx, usedRing, uLast, aLast, robj>>
    BY DEF AvailPublish, device
  <1>2. availIdx \in Desc /\ aLast \in Desc /\ n < QueueLen - 1
    BY Room DEF TypeInv, TypeOK, AvailPublish
  <1>3. Pending(aLast, Succ(availIdx)) = n + 1
    BY <1>2, PendingStep DEF NAvail
  <1>4. NAvail' = Pending(aLast, Succ(availIdx))
    BY <1>1 DEF NAvail, Pending
  <1>5. After(aLast, n + 1) = availIdx
    BY <1>2, Window DEF NAvail
  <1> QED
    BY <1>1, <1>3, <1>4, <1>5 DEF NUsed, Held, Used, Avail, Pending, After

LEMMA UsedAdded ==
    ASSUME MaxInFlight < QueueLen, TypeInv, CursorInv, AddUsedPublish,
           NEW m \in Nat, m = NUsed
    PROVE  /\ NUsed' = m + 1 /\ Used(m + 1)' = usedRing[usedIdx]
           /\ \A k \in 1..m : Used(k)' = Used(k)
           /\ NAvail' = NAvail /\ \A k \in 1..NAvail : Avail(k)' = Avail(k)
  <1>1. /\ usedIdx' = Succ(usedIdx)
        /\ UNCHANGED <<availIdx, availRing, usedRing, uLast, aLast>>
    BY DEF AddUsedPublish, driver
  <1>2. usedIdx \in Desc /\ uLast \in Desc /\ m < QueueLen - 1
    BY Room DEF TypeInv, TypeOK, AddUsedPublish
  <1>3. Pending(uLast, Succ(usedIdx)) = m + 1
    BY <1>2, PendingStep DEF NUsed
  <1>4. NUsed' = Pending(uLast, Succ(usedIdx))
    BY <1>1 DEF NUsed, Pending
  <1>5. After(uLast, m + 1) = usedIdx
    BY <1>2, Window DEF NUsed
  <1> QED
    BY <1>1, <1>3, <1>4, <1>5 DEF NAvail, Used, Avail, Pending, After

LEMMA AvailDropped ==
    ASSUME TypeInv, CursorInv, GetAvailTake, NEW n \in 1..(QueueLen - 1), n = NAvail
    PROVE  /\ NAvail' = n - 1 /\ Avail(1) = availRing[Succ(aLast)]
           /\ \A k \in 1..(n - 1) : Avail(k)' = Avail(k + 1)
           /\ NUsed' = NUsed /\ \A k \in 1..NUsed : Used(k)' = Used(k)
  <1>1. /\ aLast' = Succ(aLast)
        /\ UNCHANGED <<availIdx, availRing, usedIdx, usedRing, uLast>>
    BY DEF GetAvailTake, shared, driver
  <1>2. aLast \in Desc /\ availIdx \in Desc
    BY DEF TypeInv, TypeOK
  <1>3. Pending(Succ(aLast), availIdx) = n - 1
    BY <1>2, PendingStep DEF NAvail
  <1>4. NAvail' = Pending(Succ(aLast), availIdx)
    BY <1>1 DEF NAvail, Pending
  <1>5. ASSUME NEW k \in 1..(n - 1) PROVE Avail(k)' = Avail(k + 1)
    <2>1. k \in 0..(QueueLen - 1)
      BY QueueLenAssumption
    <2>2. After(Succ(aLast), k) = After(aLast, k + 1)
      BY <1>2, <2>1, AfterStep
    <2>3. After(aLast', k) = After(Succ(aLast), k)
      BY <1>1
    <2> QED
      BY <1>1, <2>2, <2>3 DEF Avail, After
  <1> QED
    BY <1>1, <1>3, <1>4, <1>5 DEF NUsed, Used, Avail, Pending, After, Succ

LEMMA UsedDropped ==
    ASSUME TypeInv, CursorInv, GetUsedTake, NEW m \in 1..(QueueLen - 1), m = NUsed
    PROVE  /\ NUsed' = m - 1 /\ Used(1) = usedRing[Succ(uLast)]
           /\ \A k \in 1..(m - 1) : Used(k)' = Used(k + 1)
           /\ NAvail' = NAvail /\ Held' = Held
           /\ \A k \in 1..NAvail : Avail(k)' = Avail(k)
           /\ Avail(1)' = Avail(1)
  <1>1. /\ uLast' = Succ(uLast)
        /\ UNCHANGED <<availIdx, availRing, usedIdx, usedRing, aLast, robj>>
    BY DEF GetUsedTake, shared, device
  <1>2. uLast \in Desc /\ usedIdx \in Desc
    BY DEF TypeInv, TypeOK
  <1>3. Pending(Succ(uLast), usedIdx) = m - 1
    BY <1>2, PendingStep DEF NUsed
  <1>4. NUsed' = Pending(Succ(uLast), usedIdx)
    BY <1>1 DEF NUsed, Pending
  <1>5. ASSUME NEW k \in 1..(m - 1) PROVE Used(k)' = Used(k + 1)
    <2>1. k \in 0..(QueueLen - 1)
      BY QueueLenAssumption
    <2>2. After(Succ(uLast), k) = After(uLast, k + 1)
      BY <1>2, <2>1, AfterStep
    <2>3. After(uLast', k) = After(Succ(uLast), k)
      BY <1>1
    <2> QED
      BY <1>1, <2>2, <2>3 DEF Used, After
  <1> QED
    BY <1>1, <1>3, <1>4, <1>5 DEF NAvail, Held, Used, Avail, Pending, After, Succ

(* A step that moves no cursor and stores in no slot a reader may load     *)
(* keeps the entries where they are.                                       *)
LEMMA EntryQuiet ==
    ASSUME EntryInv,
           NAvail' = NAvail, NUsed' = NUsed, Held' = Held,
           \A k \in 1..NAvail : Avail(k)' = Avail(k),
           \A r \in Held : robj'[r].first = robj[r].first,
           \A k \in 1..NUsed : Used(k)' = Used(k),
           \A h \in Desc : chain'[h] = <<>> <=> chain[h] = <<>>,
           dev'.pc = "publish" => usedRing'[usedIdx'].id = robj'[dev'.obj].first
    PROVE  EntryInv'
  <1>1. ASSUME NEW h \in Desc PROVE Placed(h)' <=> Placed(h)
    BY DEF Placed
  <1> QED
    BY <1>1 DEF EntryInv

(* The values a step leaves alone when it does not touch the rings.        *)
LEMMA RingsQuiet ==
    ASSUME UNCHANGED <<availIdx, availRing, usedIdx, usedRing, uLast, aLast, robj>>
    PROVE  /\ NAvail' = NAvail /\ NUsed' = NUsed /\ Held' = Held
           /\ \A k \in 1..NAvail : Avail(k)' = Avail(k)
           /\ \A k \in 1..NUsed : Used(k)' = Used(k)
           /\ Avail(1)' = Avail(1)
  BY DEF NAvail, NUsed, Held, Avail, Used, Pending, After

LEMMA OpenQuiet ==
    ASSUME OpenInv, drv.pc # "publish", drv'.pc # "publish",
           \A o \in DrvObjs : obj'[o] = obj[o] \/ obj'[o] = NullObj,
           UNCHANGED <<availIdx, availRing, usedIdx, usedRing, uLast, aLast, robj,
                       dev, chain>>
    PROVE  OpenInv'
  <1>1. ASSUME NEW o \in DrvObjs, Open(o)' PROVE Open(o) /\ obj'[o] = obj[o]
    BY <1>1 DEF Open, NullObj
  <1>2. ASSUME NEW o \in DrvObjs, Open(o)' PROVE Building(o)'
    <2>1. Building(o) /\ obj'[o] = obj[o]
      BY <1>1, <1>2 DEF OpenInv
    <2> QED
      BY <2>1, RingsQuiet DEF Building
  <1> QED
    BY <1>1, <1>2 DEF OpenInv

(* The driver's steps that leave the rings alone.                          *)
LEMMA DriverEntries ==
    ASSUME TypeInv, FlowInv,
           \/ \E o \in DrvObjs : \/ \E b \in Bufs : AddDesc(o, b)
                                 \/ AddDescFull(o) \/ InitRingObject(o)
           \/ GetUsedPoll \/ GatherUsed \/ GatherUsedEnd
    PROVE  EntryInv' /\ OpenInv'
  <1>1. /\ drv.pc # "publish" /\ drv'.pc # "publish"
        /\ \A o \in DrvObjs : obj'[o] = obj[o] \/ obj'[o] = NullObj
        /\ UNCHANGED <<availIdx, availRing, usedIdx, usedRing, uLast, aLast, robj,
                       dev, chain>>
    BY DEF AddDesc, AddDescFull, InitRingObject, GetUsedPoll, GatherUsed, GatherUsedEnd,
       shared, device, history, IdleDrv, TypeInv, TypeOK
  <1>2. EntryInv'
    <2>1. dev'.pc = "publish" => usedRing'[usedIdx'].id = robj'[dev'.obj].first
      BY <1>1 DEF FlowInv, EntryInv
    <2> QED
      BY <1>1, <2>1, RingsQuiet, EntryQuiet DEF FlowInv
  <1>3. OpenInv'
    BY <1>1, OpenQuiet DEF FlowInv
  <1> QED
    BY <1>2, <1>3

LEMMA LinkDescEntries ==
    ASSUME TypeInv, FlowInv, LinkDesc
    PROVE  EntryInv' /\ OpenInv'
  <1>1. PICK o \in DrvObjs, x \in Desc : o = drv.obj /\ x = drv.idx
    BY DEF LinkDesc, TypeInv, CallsInv
  <1>2. drv.pc = "link" /\ obj[o].first # Unset /\ obj[o] # NullObj /\ Open(o)
    BY <1>1 DEF LinkDesc, NullObj, Open
  <1>3. PICK h \in Desc : h = obj[o].first
    BY <1>2 DEF TypeInv, TypeOK, BuildType
  <1>4. PICK s \in Seq(LinkType) : s = chain[h]
    BY DEF TypeInv, TypeOK
  <1>5. PICK l \in LinkType : l.d = x /\ l = Link(x, desc[x].buf)
    BY DEF TypeInv, TypeOK, Link, LinkType, DescType
  <1>6. /\ drv'.pc = "idle"
        /\ obj'[o].first = h /\ obj'[o].cur = x
        /\ \A q \in DrvObjs : q # o => obj'[q] = obj[q]
        /\ chain'[h] = Append(s, l) /\ \A g \in Desc : g # h => chain'[g] = chain[g]
        /\ UNCHANGED <<availIdx, availRing, usedIdx, usedRing, uLast, aLast, robj, dev>>
    BY <1>1, <1>2, <1>3, <1>4, <1>5
    DEF LinkDesc, device, TypeInv, TypeOK, IdleDrv, BuildType
  <1>7. chain[h] # <<>> /\ chain'[h] # <<>> /\ chain'[h][Len(chain'[h])].d = x
    BY <1>2, <1>3, <1>4, <1>5, <1>6 DEF FlowInv, OpenInv, Building
  <1>8. EntryInv'
    <2>1. dev'.pc = "publish" => usedRing'[usedIdx'].id = robj'[dev'.obj].first
      BY <1>6 DEF FlowInv, EntryInv
    <2>2. \A g \in Desc : chain'[g] = <<>> <=> chain[g] = <<>>
      BY <1>6, <1>7
    <2> QED
      BY <1>6, <2>1, <2>2, RingsQuiet, EntryQuiet DEF FlowInv
  <1>9. \A q \in DrvObjs : Open(q)' => Open(q) /\ obj'[q].first = obj[q].first
    BY <1>2, <1>3, <1>6 DEF Open
  <1>10. ASSUME NEW q \in DrvObjs, Open(q)' PROVE Building(q)'
    <2>1. Open(q) /\ Building(q)
      BY <1>9, <1>10 DEF FlowInv, OpenInv
    <2>2. CASE q = o
      BY <1>3, <1>6, <1>7, <2>1, <2>2, RingsQuiet DEF Building
    <2>3. CASE q # o
      <3>1. obj[q].first # h
        BY <1>2, <1>3, <2>1, <2>3 DEF FlowInv, OpenInv
      <3>2. obj[q].first \in Desc
        BY <2>1 DEF Open, TypeInv, TypeOK, BuildType, NullObj
      <3> QED
        BY <1>6, <2>1, <2>3, <3>1, <3>2, RingsQuiet DEF Building
    <2> QED
      BY <2>2, <2>3
  <1>11. OpenInv'
    BY <1>6, <1>9, <1>10 DEF FlowInv, OpenInv
  <1> QED
    BY <1>8, <1>11

(* The driver stores the new entry behind those the device may take, ...   *)
LEMMA AvailSlotEntries ==
    ASSUME TypeInv, CursorInv, FlowInv, AvailSlot
    PROVE  EntryInv' /\ OpenInv'
  <1>1. PICK o \in DrvObjs, x \in Desc : o = drv.obj /\ x = drv.idx
    BY DEF AvailSlot, TypeInv, CallsInv
  <1>2. /\ drv.pc = "link" /\ drv'.pc = "publish" /\ drv'.obj = o /\ drv'.idx = x
        /\ obj[o].first = Unset /\ obj'[o].first = x /\ obj'[o].cur = x
        /\ \A q \in DrvObjs : q # o => obj'[q] = obj[q]
        /\ availRing'[availIdx] = x
        /\ \A i \in Desc : i # availIdx => availRing'[i] = availRing[i]
        /\ UNCHANGED <<availIdx, usedIdx, usedRing, uLast, aLast, robj, dev, chain>>
    BY <1>1 DEF AvailSlot, device, history, TypeInv, TypeOK, DrvType
  <1>3. /\ NAvail' = NAvail /\ NUsed' = NUsed /\ Held' = Held
        /\ \A k \in 1..NUsed : Used(k)' = Used(k)
    BY <1>2 DEF NAvail, NUsed, Held, Used, Pending, After
  <1>4. ASSUME NEW k \in 1..NAvail PROVE Avail(k)' = Avail(k)
    <2>1. After(aLast, k) \in Desc /\ After(aLast, k) # availIdx
      BY Window DEF TypeInv, TypeOK, NAvail
    <2> QED
      BY <1>2, <2>1 DEF Avail, After
  <1>5. dev.pc = "take" => Avail(1)' = Avail(1)
    BY <1>4, Counts DEF CursorInv
  <1>6. EntryInv'
    <2>1. dev'.pc = "publish" => usedRing'[usedIdx'].id = robj'[dev'.obj].first
      BY <1>2 DEF FlowInv, EntryInv
    <2> QED
      BY <1>2, <1>3, <1>4, <2>1, EntryQuiet DEF FlowInv
  <1>7. \A q \in DrvObjs : Open(q)' => Open(q) /\ obj'[q] = obj[q]
    BY <1>2 DEF Open
  <1>8. ASSUME NEW q \in DrvObjs, Open(q)' PROVE Building(q)'
    <2>1. Building(q) /\ obj'[q] = obj[q]
      BY <1>7, <1>8 DEF FlowInv, OpenInv
    <2> QED
      BY <1>2, <1>3, <1>5, <2>1 DEF Building
  <1>9. OpenInv'
    BY <1>2, <1>7, <1>8 DEF FlowInv, OpenInv
  <1> QED
    BY <1>6, <1>9

(* The descriptor being added heads no entry.                              *)
LEMMA AddedIsNew ==
    ASSUME TypeInv, FlowInv, drv.pc \in {"link", "publish"}, NEW x \in Desc, x = drv.idx
    PROVE  chain[x] = <<>>
  <1> SUFFICES ASSUME chain[x] # <<>> PROVE FALSE
    OBVIOUS
  <1>1. chain[x] \in Seq(LinkType) /\ chain[x][1].d = x
    BY DEF TypeInv, TypeOK, FlowInv, ListsInv, Linked
  <1>2. 1 \in 1..Len(chain[x])
    BY <1>1, EmptySeq, LenProperties
  <1>3. On(chain[x], x) /\ Adding(x)
    BY <1>1, <1>2 DEF On, Adding
  <1> QED
    BY <1>3 DEF FlowInv, Owned

(* ... and publishes it.                                                   *)
LEMMA AvailPublishEntries ==
    ASSUME MaxInFlight < QueueLen, TypeInv, CursorInv, FlowInv, AvailPublish
    PROVE  EntryInv' /\ OpenInv'
  <1>1. PICK o \in DrvObjs, x \in Desc : o = drv.obj /\ x = drv.idx
    BY DEF AvailPublish, TypeInv, CallsInv
  <1>2. PICK l \in LinkType : l.d = x /\ l = Link(x, desc[x].buf)
    BY DEF TypeInv, TypeOK, Link, LinkType, DescType
  <1>3. PICK n \in 0..(QueueLen - 1) : n = NAvail /\ n < QueueLen - 1
    BY Counts, Room DEF AvailPublish
  <1>4. /\ drv.pc = "publish" /\ drv'.pc = "idle" /\ availIdx' = Succ(availIdx)
        /\ chain'[x] = <<l>> /\ \A g \in Desc : g # x => chain'[g] = chain[g]
        /\ obj[o].first = x /\ obj[o].cur = x /\ availRing[availIdx] = x
        /\ UNCHANGED <<availRing, usedIdx, usedRing, uLast, aLast, robj, dev, obj>>
    BY <1>1, <1>2
    DEF AvailPublish, device, TypeInv, TypeOK, IdleDrv, FlowInv, OpenInv
  <1>5. /\ NAvail' = n + 1 /\ NUsed' = NUsed /\ Held' = Held
        /\ \A k \in 1..NUsed : Used(k)' = Used(k)
        /\ \A k \in 1..n : Avail(k)' = Avail(k)
    BY <1>3, AvailAdded
  <1>6. Avail(n + 1)' = x
    BY <1>3, <1>4, AvailAdded
  <1>7. chain[x] = <<>>
    BY <1>1, <1>4, AddedIsNew
  <1>8. ~Placed(x) /\ chain'[x] # <<>>
    BY <1>4, <1>7 DEF FlowInv, EntryInv
  <1>9. \A h \in Desc : Placed(h)' <=> Placed(h) \/ h = x
    <2> TAKE h \in Desc
    <2>1. (\E k \in 1..(n + 1) : Avail(k)' = h) <=> (\E k \in 1..n : Avail(k)' = h) \/ h = x
      <3>1. n + 1 \in 1..(n + 1)
        BY <1>3
      <3>2. \A k \in 1..(n + 1) : k = n + 1 \/ k \in 1..n
        BY <1>3
      <3>3. \A k \in 1..n : k \in 1..(n + 1)
        BY <1>3
      <3> QED
        BY <1>6, <3>1, <3>2, <3>3
    <2> QED
      BY <1>3, <1>4, <1>5, <2>1 DEF Placed
  <1>10. EntryInv'
    <2>1. \A h \in Desc : chain'[h] # <<>> <=> Placed(h)'
      BY <1>4, <1>8, <1>9 DEF FlowInv, EntryInv
    <2>2. /\ \A k \in 1..n : Avail(k) # x
          /\ \A r \in Held : robj[r].first # x
          /\ \A k \in 1..NUsed : Used(k).id # x
      BY <1>3, <1>8 DEF Placed
    <2>3. \A k \in 1..(n + 1) : k = n + 1 \/ k \in 1..n
      BY <1>3
    <2>4. ASSUME NEW j \in 1..(n + 1), NEW k \in 1..(n + 1), Avail(j)' = Avail(k)'
          PROVE  j = k
      BY <1>3, <1>5, <1>6, <2>2, <2>3, <2>4 DEF FlowInv, EntryInv
    <2>5. ASSUME NEW k \in 1..(n + 1)
          PROVE  /\ \A r \in Held : Avail(k)' # robj[r].first
                 /\ \A j \in 1..NUsed : Avail(k)' # Used(j).id
      BY <1>3, <1>5, <1>6, <2>2, <2>3 DEF FlowInv, EntryInv
    <2>6. dev'.pc = "publish" => usedRing'[usedIdx'].id = robj'[dev'.obj].first
      BY <1>4 DEF FlowInv, EntryInv
    <2> QED
      BY <1>4, <1>5, <2>1, <2>4, <2>5, <2>6 DEF FlowInv, EntryInv
  <1>11. \A q \in DrvObjs : Open(q)' => q = o \/ Open(q)
    BY <1>1, <1>4 DEF Open
  <1>12. dev.pc = "take" => n > 0 /\ Avail(1)' = Avail(1) /\ Avail(1) # x
    <2>1. dev.pc = "take" => 1 \in 1..n
      BY <1>3 DEF CursorInv
    <2> QED
      BY <1>3, <1>5, <1>8, <2>1 DEF Placed
  <1>13. ASSUME NEW q \in DrvObjs, Open(q)' PROVE Building(q)'
    <2>1. CASE q = o
      <3>1. Len(chain'[x]) = 1 /\ chain'[x][1].d = x
        BY <1>2, <1>4
      <3>2. /\ \A r \in Held : robj[r].first # x
            /\ \A k \in 1..NUsed : Used(k).id # x
        BY <1>8 DEF Placed
      <3> QED
        BY <1>4, <1>5, <1>8, <1>12, <2>1, <3>1, <3>2 DEF Building
    <2>2. CASE q # o
      <3>1. Open(q) /\ Building(q)
        BY <1>11, <1>13, <2>2 DEF FlowInv, OpenInv
      <3>2. obj[q].first # x /\ obj[q].first \in Desc
        BY <1>7, <3>1 DEF Building, Open, TypeInv, TypeOK, BuildType, NullObj
      <3> QED
        BY <1>4, <1>5, <1>12, <3>1, <3>2 DEF Building
    <2> QED
      BY <2>1, <2>2
  <1>14. \A q \in DrvObjs : Open(q) => obj[q].first # x
    BY <1>7 DEF FlowInv, OpenInv, Building
  <1>15. OpenInv'
    BY <1>4, <1>11, <1>13, <1>14 DEF FlowInv, OpenInv
  <1> QED
    BY <1>10, <1>15

(* virtqueue_get_used_buf takes the first entry of the used ring, and no   *)
(* other entry moves.                                                      *)
LEMMA GetUsedTakeEntries ==
    ASSUME TypeInv, CursorInv, FlowInv, GetUsedTake
    PROVE  EntryInv' /\ OpenInv'
  <1>1. PICK h \in Desc : h = usedRing[Succ(uLast)].id
    BY SuccWraps DEF TypeInv, TypeOK
  <1>2. PICK m \in 1..(QueueLen - 1) : m = NUsed
    BY Counts DEF GetUsedTake, CursorInv
  <1>3. /\ drv.pc = "used" /\ drv'.pc = "idle" /\ uLast' = Succ(uLast)
        /\ chain'[h] = <<>> /\ \A g \in Desc : g # h => chain'[g] = chain[g]
        /\ UNCHANGED <<availIdx, availRing, usedIdx, usedRing, aLast, robj, dev, obj>>
    BY <1>1 DEF GetUsedTake, shared, device, TypeInv, TypeOK, IdleDrv
  <1>5. /\ NUsed' = m - 1 /\ NAvail' = NAvail /\ Held' = Held
        /\ \A k \in 1..NAvail : Avail(k)' = Avail(k)
        /\ Avail(1)' = Avail(1)
    BY <1>2, UsedDropped
  <1>6. \A k \in 1..(m - 1) : k + 1 \in 1..m
    BY <1>2
  <1>7. \A k \in 1..(m - 1) : Used(k)' = Used(k + 1)
    BY <1>2, UsedDropped
  <1>8. Used(1).id = h /\ 1 \in 1..m
    BY <1>1, <1>2, UsedDropped
  <1>9. \A k \in 1..m : k = 1 \/ (k - 1 \in 1..(m - 1) /\ (k - 1) + 1 = k)
    BY <1>2
  <1>10. /\ \A k \in 1..NAvail : Avail(k) # h
         /\ \A r \in Held : robj[r].first # h
         /\ \A k \in 1..(m - 1) : Used(k + 1).id # h
    <2>1. \A k \in 1..(m - 1) : k + 1 # 1
      BY <1>2
    <2> QED
      BY <1>2, <1>6, <1>8, <2>1 DEF FlowInv, EntryInv
  <1>11. ASSUME NEW g \in Desc PROVE Placed(g)' <=> Placed(g) /\ g # h
    <2>1. (\E k \in 1..(m - 1) : Used(k)'.id = g) <=> (\E k \in 1..m : Used(k).id = g) /\ g # h
      BY <1>6, <1>7, <1>8, <1>9, <1>10
    <2>2. Placed(g)' <=> \/ \E k \in 1..NAvail : Avail(k) = g
                         \/ \E r \in Held : robj[r].first = g
                         \/ \E k \in 1..(m - 1) : Used(k)'.id = g
      BY <1>3, <1>5 DEF Placed
    <2> QED
      BY <1>2, <1>10, <2>1, <2>2 DEF Placed
  <1>12. EntryInv'
    <2>1. \A g \in Desc : chain'[g] # <<>> <=> Placed(g)'
      BY <1>3, <1>11 DEF FlowInv, EntryInv
    <2>2. ASSUME NEW j \in 1..(m - 1), NEW k \in 1..(m - 1), Used(j)'.id = Used(k)'.id
          PROVE  j = k
      <3>1. j + 1 \in 1..m /\ k + 1 \in 1..m /\ Used(j + 1).id = Used(k + 1).id
        BY <1>6, <1>7, <2>2
      <3>2. j + 1 = k + 1
        BY <1>2, <3>1 DEF FlowInv, EntryInv
      <3> QED
        BY <3>2
    <2>3. ASSUME NEW j \in 1..(m - 1)
          PROVE  /\ \A k \in 1..NAvail : Avail(k) # Used(j)'.id
                 /\ \A r \in Held : robj[r].first # Used(j)'.id
      <3>1. j + 1 \in 1..m /\ Used(j)' = Used(j + 1)
        BY <1>6, <1>7
      <3> QED
        BY <1>2, <3>1 DEF FlowInv, EntryInv
    <2>4. dev'.pc = "publish" => usedRing'[usedIdx'].id = robj'[dev'.obj].first
      BY <1>3 DEF FlowInv, EntryInv
    <2> QED
      BY <1>3, <1>5, <2>1, <2>2, <2>3, <2>4 DEF FlowInv, EntryInv
  <1>13. \A q \in DrvObjs : Open(q)' <=> Open(q)
    BY <1>3 DEF Open
  <1>14. ASSUME NEW q \in DrvObjs, Open(q)' PROVE Building(q)'
    <2>1. Open(q) /\ Building(q)
      BY <1>13, <1>14 DEF FlowInv, OpenInv
    <2>2. obj[q].first # h /\ obj[q].first \in Desc
      BY <1>2, <1>8, <2>1 DEF Building, Open, TypeInv, TypeOK, BuildType, NullObj
    <2>3. \A k \in 1..(m - 1) : Used(k)'.id # obj[q].first
      BY <1>2, <1>6, <1>7, <2>1 DEF Building
    <2> QED
      BY <1>3, <1>5, <2>1, <2>2, <2>3 DEF Building
  <1>15. OpenInv'
    BY <1>3, <1>13, <1>14 DEF FlowInv, OpenInv
  <1> QED
    BY <1>12, <1>15

(* The device polls an entry only when its client was notified of it, that *)
(* is, when the driver has closed it.                                      *)
LEMMA GetAvailPollEntries ==
    ASSUME ~Eager, TypeInv, FlowInv, NEW r \in DevObjs, GetAvailPoll(r)
    PROVE  EntryInv' /\ OpenInv'
  <1>1. /\ dev'.pc = "take" /\ \A o \in DrvObjs : obj[o].first # availRing[Succ(aLast)]
        /\ UNCHANGED <<availIdx, availRing, usedIdx, usedRing, uLast, aLast, robj, chain,
                       obj, drv>>
    BY DEF GetAvailPoll, NextIsOpen, shared, driver, history
  <1>2. EntryInv'
    BY <1>1, RingsQuiet, EntryQuiet DEF FlowInv
  <1>3. ASSUME NEW o \in DrvObjs, Open(o)' PROVE Building(o)'
    <2>1. Building(o)
      BY <1>1, <1>3 DEF FlowInv, OpenInv, Open
    <2>2. Avail(1) # obj[o].first
      BY <1>1 DEF Avail, After, Succ
    <2> QED
      BY <1>1, <2>1, <2>2, RingsQuiet DEF Building
  <1>4. OpenInv'
    BY <1>1, <1>3 DEF FlowInv, OpenInv, Open
  <1> QED
    BY <1>2, <1>4

(* The device reads one buffer.                                            *)
LEMMA GatherAvailableEntries ==
    ASSUME TypeInv, FlowInv, NEW r \in DevObjs, GatherAvailable(r)
    PROVE  EntryInv' /\ OpenInv'
  <1>1. /\ \A q \in DevObjs : robj'[q].first = robj[q].first
        /\ dev.pc = "idle"
        /\ UNCHANGED <<availIdx, availRing, usedIdx, usedRing, uLast, aLast, chain, obj,
                       drv, dev>>
    BY DEF GatherAvailable, shared, driver, history, TypeInv, TypeOK, RobjType
  <1>2. /\ NAvail' = NAvail /\ NUsed' = NUsed /\ Held' = Held
        /\ \A k \in 1..NAvail : Avail(k)' = Avail(k)
        /\ \A k \in 1..NUsed : Used(k)' = Used(k)
        /\ \A q \in Held : robj'[q].first = robj[q].first
    BY <1>1 DEF NAvail, NUsed, Held, Avail, Used, Pending, After
  <1>3. EntryInv'
    BY <1>1, <1>2, EntryQuiet DEF FlowInv
  <1>4. ASSUME NEW o \in DrvObjs, Open(o)' PROVE Building(o)'
    <2>1. Building(o)
      BY <1>1, <1>4 DEF FlowInv, OpenInv, Open
    <2> QED
      BY <1>1, <1>2, <2>1 DEF Building
  <1>5. OpenInv'
    BY <1>1, <1>4 DEF FlowInv, OpenInv, Open
  <1> QED
    BY <1>3, <1>5

(* The device stores a returned entry behind those the driver may take, ...*)
LEMMA AddUsedSlotEntries ==
    ASSUME TypeInv, FlowInv, NEW r \in DevObjs, AddUsedSlot(r)
    PROVE  EntryInv' /\ OpenInv'
  <1>1. /\ dev'.pc = "publish" /\ dev'.obj = r
        /\ usedRing'[usedIdx].id = robj[r].first
        /\ \A i \in Desc : i # usedIdx => usedRing'[i] = usedRing[i]
        /\ UNCHANGED <<availIdx, availRing, usedIdx, uLast, aLast, robj, chain, obj, drv>>
    BY DEF AddUsedSlot, driver, history, TypeInv, TypeOK
  <1>2. ASSUME NEW k \in 1..NUsed PROVE Used(k)' = Used(k)
    <2>1. After(uLast, k) \in Desc /\ After(uLast, k) # usedIdx
      BY Window DEF TypeInv, TypeOK, NUsed
    <2> QED
      BY <1>1, <2>1 DEF Used, After
  <1>3. /\ NAvail' = NAvail /\ NUsed' = NUsed /\ Held' = Held
        /\ \A k \in 1..NAvail : Avail(k)' = Avail(k)
    BY <1>1 DEF NAvail, NUsed, Held, Avail, Pending, After
  <1>4. EntryInv'
    BY <1>1, <1>2, <1>3, EntryQuiet DEF FlowInv
  <1>5. ASSUME NEW o \in DrvObjs, Open(o)' PROVE Building(o)'
    <2>1. Building(o)
      BY <1>1, <1>5 DEF FlowInv, OpenInv, Open
    <2> QED
      BY <1>1, <1>2, <1>3, <2>1 DEF Building
  <1>6. OpenInv'
    BY <1>1, <1>5 DEF FlowInv, OpenInv, Open
  <1> QED
    BY <1>4, <1>6

(* virtqueue_get_available_buf moves the first entry of the available ring *)
(* into the device's ring object.                                          *)
LEMMA GetAvailTakeEntries ==
    ASSUME TypeInv, CursorInv, FlowInv, GetAvailTake
    PROVE  EntryInv' /\ OpenInv'
  <1>1. PICK h \in Desc, q \in DevObjs : h = availRing[Succ(aLast)] /\ q = dev.obj
    BY SuccWraps DEF GetAvailTake, TypeInv, TypeOK, CallsInv
  <1>2. PICK n \in 1..(QueueLen - 1) : n = NAvail
    BY Counts DEF GetAvailTake, CursorInv
  <1>3. /\ dev.pc = "take" /\ dev'.pc = "idle" /\ aLast' = Succ(aLast)
        /\ robj'[q].first = h /\ \A r \in DevObjs : r # q => robj'[r] = robj[r]
        /\ UNCHANGED <<availIdx, availRing, usedIdx, usedRing, uLast, chain, obj, drv>>
    BY <1>1 DEF GetAvailTake, shared, driver, history, TypeInv, TypeOK, IdleDev
  <1>5. /\ NAvail' = n - 1 /\ NUsed' = NUsed
        /\ \A k \in 1..NUsed : Used(k)' = Used(k)
    BY <1>2, AvailDropped
  <1>6. q \notin Held /\ Held' = Held \cup {q} /\ Held \subseteq DevObjs
    <2>1. h # Unset
      BY QueueLenAssumption DEF Desc, Unset
    <2> QED
      BY <1>1, <1>3, <2>1 DEF CursorInv, Held
  <1>7. \A k \in 1..(n - 1) : k + 1 \in 1..n /\ k + 1 # 1
    BY <1>2
  <1>8. \A k \in 1..(n - 1) : Avail(k)' = Avail(k + 1)
    BY <1>2, AvailDropped
  <1>9. Avail(1) = h /\ 1 \in 1..n
    BY <1>1, <1>2, AvailDropped
  <1>10. \A k \in 1..n : k = 1 \/ (k - 1 \in 1..(n - 1) /\ (k - 1) + 1 = k)
    BY <1>2
  <1>11. /\ \A k \in 1..(n - 1) : Avail(k + 1) # h
         /\ \A r \in Held : robj[r].first # h
         /\ \A k \in 1..NUsed : Used(k).id # h
    BY <1>2, <1>7, <1>9 DEF FlowInv, EntryInv
  <1>12. \A r \in Held : r # q /\ robj'[r].first = robj[r].first
    BY <1>3, <1>6
  <1>13. ASSUME NEW g \in Desc PROVE Placed(g)' <=> Placed(g)
    <2>1. (\E k \in 1..n : Avail(k) = g) <=> (\E k \in 1..(n - 1) : Avail(k)' = g) \/ g = h
      BY <1>7, <1>8, <1>9, <1>10
    <2>2. (\E r \in Held' : robj'[r].first = g) <=> (\E r \in Held : robj[r].first = g) \/ g = h
      BY <1>3, <1>6, <1>12
    <2>3. Placed(g)' <=> \/ \E k \in 1..(n - 1) : Avail(k)' = g
                         \/ \E r \in Held' : robj'[r].first = g
                         \/ \E k \in 1..NUsed : Used(k).id = g
      BY <1>5 DEF Placed
    <2> QED
      BY <1>2, <2>1, <2>2, <2>3 DEF Placed
  <1>14. EntryInv'
    <2>1. \A g \in Desc : chain'[g] # <<>> <=> Placed(g)'
      BY <1>3, <1>13 DEF FlowInv, EntryInv
    <2>2. ASSUME NEW j \in 1..(n - 1), NEW k \in 1..(n - 1), Avail(j)' = Avail(k)'
          PROVE  j = k
      <3>1. j + 1 \in 1..n /\ k + 1 \in 1..n /\ Avail(j + 1) = Avail(k + 1)
        BY <1>7, <1>8, <2>2
      <3>2. j + 1 = k + 1
        BY <1>2, <3>1 DEF FlowInv, EntryInv
      <3> QED
        BY <3>2
    <2>3. \A r, s \in Held' : robj'[r].first = robj'[s].first => r = s
      BY <1>3, <1>6, <1>11, <1>12 DEF FlowInv, EntryInv
    <2>4. ASSUME NEW j \in 1..(n - 1)
          PROVE  /\ \A r \in Held' : Avail(j)' # robj'[r].first
                 /\ \A k \in 1..NUsed : Avail(j)' # Used(k).id
      <3>1. j + 1 \in 1..n /\ Avail(j)' = Avail(j + 1) /\ Avail(j + 1) # h
        BY <1>7, <1>8, <1>11
      <3> QED
        BY <1>2, <1>3, <1>6, <1>12, <3>1 DEF FlowInv, EntryInv
    <2>5. \A r \in Held', k \in 1..NUsed : robj'[r].first # Used(k).id
      BY <1>3, <1>6, <1>11, <1>12 DEF FlowInv, EntryInv
    <2> QED
      BY <1>3, <1>5, <2>1, <2>2, <2>3, <2>4, <2>5 DEF FlowInv, EntryInv
  <1>15. \A o \in DrvObjs : Open(o)' <=> Open(o)
    BY <1>3 DEF Open
  <1>16. ASSUME NEW o \in DrvObjs, Open(o)' PROVE Building(o)'
    <2>1. Open(o) /\ Building(o)
      BY <1>15, <1>16 DEF FlowInv, OpenInv
    <2>2. obj[o].first # h
      BY <1>3, <1>9, <2>1 DEF Building
    <2> QED
      BY <1>3, <1>5, <1>6, <1>12, <2>1, <2>2 DEF Building
  <1>17. OpenInv'
    BY <1>3, <1>15, <1>16 DEF FlowInv, OpenInv
  <1> QED
    BY <1>14, <1>17

(* ... and publishes it.                                                   *)
LEMMA AddUsedPublishEntries ==
    ASSUME MaxInFlight < QueueLen, TypeInv, CursorInv, FlowInv, AddUsedPublish
    PROVE  EntryInv' /\ OpenInv'
  <1>1. PICK q \in DevObjs : q = dev.obj
    BY DEF AddUsedPublish, TypeInv, CallsInv
  <1>2. PICK h \in Desc : h = robj[q].first
    BY <1>1 DEF AddUsedPublish, CursorInv, TypeInv, TypeOK, RobjType
  <1>3. PICK m \in 0..(QueueLen - 1) : m = NUsed /\ m < QueueLen - 1
    BY Counts, Room DEF AddUsedPublish
  <1>4. /\ dev.pc = "publish" /\ dev'.pc = "idle" /\ usedIdx' = Succ(usedIdx)
        /\ robj'[q].first = Unset /\ \A r \in DevObjs : r # q => robj'[r] = robj[r]
        /\ usedRing[usedIdx].id = h
        /\ UNCHANGED <<availIdx, availRing, usedRing, uLast, aLast, chain, obj, drv>>
    BY <1>1, <1>2 DEF AddUsedPublish, driver, history, TypeInv, TypeOK, IdleDev, NullRobj,
       FlowInv, EntryInv
  <1>5. /\ NUsed' = m + 1 /\ NAvail' = NAvail
        /\ \A k \in 1..NAvail : Avail(k)' = Avail(k)
        /\ \A k \in 1..m : Used(k)' = Used(k)
    BY <1>3, UsedAdded
  <1>6. Used(m + 1)'.id = h
    BY <1>3, <1>4, UsedAdded
  <1>7. q \in Held /\ Held' = Held \ {q} /\ Held \subseteq DevObjs
    <2>1. h # Unset
      BY QueueLenAssumption DEF Desc, Unset
    <2> QED
      BY <1>2, <1>4, <2>1 DEF Held
  <1>8. \A r \in Held' : r \in Held /\ robj'[r].first = robj[r].first /\ robj[r].first # h
    BY <1>2, <1>4, <1>7 DEF FlowInv, EntryInv
  <1>9. /\ m + 1 \in 1..(m + 1)
        /\ \A k \in 1..(m + 1) : k = m + 1 \/ k \in 1..m
        /\ \A k \in 1..m : k \in 1..(m + 1)
    BY <1>3
  <1>10. /\ \A k \in 1..NAvail : Avail(k) # h
         /\ \A k \in 1..m : Used(k).id # h
    BY <1>2, <1>3, <1>7 DEF FlowInv, EntryInv
  <1>11. ASSUME NEW g \in Desc PROVE Placed(g)' <=> Placed(g)
    <2>1. (\E k \in 1..(m + 1) : Used(k)'.id = g) <=> (\E k \in 1..m : Used(k).id = g) \/ g = h
      BY <1>5, <1>6, <1>9
    <2>2. (\E r \in Held : robj[r].first = g) <=> (\E r \in Held' : robj'[r].first = g) \/ g = h
      BY <1>2, <1>7, <1>8
    <2>3. Placed(g)' <=> \/ \E k \in 1..NAvail : Avail(k) = g
                         \/ \E r \in Held' : robj'[r].first = g
                         \/ \E k \in 1..(m + 1) : Used(k)'.id = g
      BY <1>5 DEF Placed
    <2> QED
      BY <1>3, <2>1, <2>2, <2>3 DEF Placed
  <1>12. EntryInv'
    <2>1. \A g \in Desc : chain'[g] # <<>> <=> Placed(g)'
      BY <1>4, <1>11 DEF FlowInv, EntryInv
    <2>2. ASSUME NEW j \in 1..(m + 1), NEW k \in 1..(m + 1), Used(j)'.id = Used(k)'.id
          PROVE  j = k
      BY <1>3, <1>5, <1>6, <1>9, <1>10, <2>2 DEF FlowInv, EntryInv
    <2>3. \A r, s \in Held' : robj'[r].first = robj'[s].first => r = s
      BY <1>8 DEF FlowInv, EntryInv
    <2>4. \A k \in 1..NAvail, r \in Held' : Avail(k) # robj'[r].first
      BY <1>8 DEF FlowInv, EntryInv
    <2>5. ASSUME NEW j \in 1..(m + 1)
          PROVE  /\ \A k \in 1..NAvail : Avail(k) # Used(j)'.id
                 /\ \A r \in Held' : robj'[r].first # Used(j)'.id
      BY <1>3, <1>5, <1>6, <1>8, <1>9, <1>10 DEF FlowInv, EntryInv
    <2> QED
      BY <1>4, <1>5, <2>1, <2>2, <2>3, <2>4, <2>5 DEF FlowInv, EntryInv
  <1>13. \A o \in DrvObjs : Open(o)' <=> Open(o)
    BY <1>4 DEF Open
  <1>14. ASSUME NEW o \in DrvObjs, Open(o)' PROVE Building(o)'
    <2>1. Open(o) /\ Building(o)
      BY <1>13, <1>14 DEF FlowInv, OpenInv
    <2>2. obj[o].first # h
      BY <1>2, <1>7, <2>1 DEF Building
    <2>3. \A k \in 1..(m + 1) : Used(k)'.id # obj[o].first
      BY <1>3, <1>5, <1>6, <1>9, <2>1, <2>2 DEF Building
    <2>4. \A r \in Held' : robj'[r].first # obj[o].first
      BY <1>8, <2>1 DEF Building
    <2> QED
      BY <1>4, <1>5, <2>1, <2>3, <2>4 DEF Building
  <1>15. OpenInv'
    BY <1>4, <1>13, <1>14 DEF FlowInv, OpenInv
  <1> QED
    BY <1>12, <1>15

(* No call loses, doubles or forges an entry.                              *)
LEMMA NextEntries ==
    ASSUME MaxInFlight < QueueLen, ~Eager, TypeInv, CursorInv, FlowInv, [Next]_vars
    PROVE  EntryInv' /\ OpenInv'
  <1>1. CASE Add
    <2>1. CASE \E o \in DrvObjs : \/ \E b \in Bufs : AddDesc(o, b)
                                  \/ AddDescFull(o) \/ InitRingObject(o)
      BY <2>1, DriverEntries
    <2>2. CASE LinkDesc
      BY <2>2, LinkDescEntries
    <2>3. CASE AvailSlot
      BY <2>3, AvailSlotEntries
    <2>4. CASE AvailPublish
      BY <2>4, AvailPublishEntries
    <2> QED
      BY <1>1, <2>1, <2>2, <2>3, <2>4 DEF Add
  <1>2. CASE Pop
    BY <1>2, DriverEntries, GetUsedTakeEntries DEF Pop
  <1>3. CASE Serve
    BY <1>3, GetAvailPollEntries, GatherAvailableEntries, AddUsedSlotEntries,
       GetAvailTakeEntries, AddUsedPublishEntries DEF Serve
  <1>4. CASE UNCHANGED vars
    <2>1. /\ UNCHANGED <<availIdx, availRing, usedIdx, usedRing, uLast, aLast, robj, chain,
                         obj, drv, dev>>
      BY <1>4 DEF vars, shared, driver, device, history
    <2>2. EntryInv'
      BY <2>1, RingsQuiet, EntryQuiet DEF FlowInv, EntryInv
    <2>3. \A o \in DrvObjs : Open(o)' = Open(o) /\ Building(o)' = Building(o)
      BY <2>1, RingsQuiet DEF Open, Building
    <2>4. OpenInv'
      BY <2>1, <2>3 DEF FlowInv, OpenInv
    <2> QED
      BY <2>2, <2>4
  <1> QED
    BY <1>1, <1>2, <1>3, <1>4 DEF Next

LEMMA InitEntries == Init => EntryInv /\ OpenInv
  <1> SUFFICES ASSUME Init PROVE EntryInv /\ OpenInv
    OBVIOUS
  <1>1. Held = {}
    BY QueueLenAssumption DEF Init, Held, NullRobj
  <1>2. NAvail = 0 /\ NUsed = 0
    BY QueueLenAssumption
       DEF Init, InitDriver, InitDevice, NAvail, NUsed, Pending
  <1>3. 1..0 = {} /\ \A h \in Desc : chain[h] = <<>>
    BY DEF Init
  <1>4. EntryInv
    BY <1>1, <1>2, <1>3 DEF Init, EntryInv, Placed, IdleDev
  <1>5. OpenInv
    BY DEF Init, OpenInv, Open, NullObj, IdleDrv
  <1> QED
    BY <1>4, <1>5

(* The inductive invariant holds if the driver leaves a slot unused and    *)
(* the device waits for the notification of a complete entry.              *)
LEMMA FlowHolds ==
    ASSUME MaxInFlight < QueueLen, ~Eager
    PROVE  Spec => [](TypeInv /\ CursorInv /\ FlowInv)
  <1> DEFINE IInv == TypeInv /\ CursorInv /\ FlowInv
  <1>1. Init => IInv
    BY InitTypeInv, InitCursorInv, InitTable, InitEntries DEF FlowInv, TableInv
  <1>2. IInv /\ [Next]_vars => IInv'
    <2> SUFFICES ASSUME IInv, [Next]_vars PROVE IInv'
      OBVIOUS
    <2>1. TypeInv' /\ CursorInv'
      BY NextTypeInv, NextCursorInv
    <2>2. TableInv' /\ EntryInv' /\ OpenInv'
      BY NextTable, NextEntries
    <2> QED
      BY <2>1, <2>2 DEF FlowInv, TableInv
  <1> QED
    BY <1>1, <1>2, PTL DEF Spec
-----------------------------------------------------------------------------
(* What the inductive invariant says of the sets the properties speak of.  *)

(* An injective function keeps the size of a set, ...                      *)
LEMMA OneToOne ==
    ASSUME NEW S, IsFiniteSet(S), NEW f, f = [x \in S |-> f[x]],
           \A x, y \in S : f[x] = f[y] => x = y, NEW T, T = {f[x] : x \in S}
    PROVE  IsFiniteSet(T) /\ Cardinality(T) = Cardinality(S)
  <1>1. f \in [S -> T]
    OBVIOUS
  <1>2. f \in Bijection(S, T)
    BY <1>1 DEF Bijection, Injection, Surjection, IsInjective
  <1>3. ExistsBijection(S, T)
    BY <1>2 DEF ExistsBijection
  <1> QED
    BY <1>3, FS_Bijection

(* ... and the sizes of disjoint sets add up.                              *)
LEMMA DisjointUnion ==
    ASSUME NEW S, NEW T, IsFiniteSet(S), IsFiniteSet(T), S \cap T = {}
    PROVE  /\ IsFiniteSet(S \cup T)
           /\ Cardinality(S \cup T) = Cardinality(S) + Cardinality(T)
  <1>1. Cardinality(S \cap T) = 0
    BY FS_EmptySet
  <1>2. Cardinality(S) \in Nat /\ Cardinality(T) \in Nat
    BY FS_CardinalityType
  <1>3. /\ IsFiniteSet(S \cup T)
        /\ Cardinality(S \cup T) = Cardinality(S) + Cardinality(T) - Cardinality(S \cap T)
    BY FS_Union, Zenon
  <1> QED
    BY <1>1, <1>2, <1>3

(* Every head that a ring or an object shows is a descriptor.              *)
LEMMA HeadsInTable ==
    ASSUME TypeInv
    PROVE  /\ \A k \in 1..NAvail : Avail(k) \in Desc
           /\ \A k \in 1..NUsed : Used(k).id \in Desc
           /\ \A r \in Held : robj[r].first \in Desc
  <1>1. \A k \in 1..NAvail : After(aLast, k) \in Desc
    BY Window DEF TypeInv, TypeOK, NAvail
  <1>2. \A k \in 1..NUsed : After(uLast, k) \in Desc
    BY Window DEF TypeInv, TypeOK, NUsed
  <1> QED
    BY <1>1, <1>2 DEF TypeInv, TypeOK, Avail, Used, Held, RobjType

(* The entries in the rings and with the device are those of the chains.   *)
LEMMA FlowEntries ==
    ASSUME TypeInv, FlowInv
    PROVE  EntryConservation
  <1>1. PICK n \in Nat, m \in Nat : n = NAvail /\ m = NUsed
    BY Counts
  <1>2. /\ \A k \in 1..n : Avail(k) \in Desc
        /\ \A k \in 1..m : Used(k).id \in Desc
        /\ \A r \in Held : robj[r].first \in Desc
    BY <1>1, HeadsInTable
  <1>3. AvailHeads \cup HeldHeads \cup UsedHeads = Heads
    BY <1>1, <1>2 DEF FlowInv, EntryInv, Placed, AvailHeads, HeldHeads, UsedHeads, Heads
  <1>4. IsFiniteSet(AvailHeads) /\ Cardinality(AvailHeads) = n
    <2>1. PICK I, f : I = 1..n /\ f = [k \in I |-> Avail(k)]
      OBVIOUS
    <2>2. IsFiniteSet(I) /\ Cardinality(I) = n
      BY <2>1, FS_Interval
    <2>3. \A j, k \in I : f[j] = f[k] => j = k
      BY <1>1, <2>1 DEF FlowInv, EntryInv
    <2>4. f = [k \in I |-> f[k]]
      BY <2>1
    <2>5. AvailHeads = {f[k] : k \in I}
      BY <1>1, <2>1 DEF AvailHeads
    <2> QED
      BY <2>2, <2>3, <2>4, <2>5, OneToOne
  <1>5. IsFiniteSet(UsedHeads) /\ Cardinality(UsedHeads) = m
    <2>1. PICK I, f : I = 1..m /\ f = [k \in I |-> Used(k).id]
      OBVIOUS
    <2>2. IsFiniteSet(I) /\ Cardinality(I) = m
      BY <2>1, FS_Interval
    <2>3. \A j, k \in I : f[j] = f[k] => j = k
      BY <1>1, <2>1 DEF FlowInv, EntryInv
    <2>4. f = [k \in I |-> f[k]]
      BY <2>1
    <2>5. UsedHeads = {f[k] : k \in I}
      BY <1>1, <2>1 DEF UsedHeads
    <2> QED
      BY <2>2, <2>3, <2>4, <2>5, OneToOne
  <1>6. IsFiniteSet(HeldHeads) /\ Cardinality(HeldHeads) = Cardinality(Held)
    <2>1. PICK f : f = [r \in Held |-> robj[r].first]
      OBVIOUS
    <2>2. \A q, r \in Held : f[q] = f[r] => q = r
      BY <2>1 DEF FlowInv, EntryInv
    <2>3. f = [r \in Held |-> f[r]]
      BY <2>1
    <2>4. HeldHeads = {f[r] : r \in Held}
      BY <2>1 DEF HeldHeads
    <2> QED
      BY <2>2, <2>3, <2>4, HeldFinite, OneToOne
  <1>7. PICK P, Q, R : P = AvailHeads /\ Q = HeldHeads /\ R = UsedHeads
    OBVIOUS
  <1>8. P \cap Q = {} /\ (P \cup Q) \cap R = {}
    BY <1>1, <1>7 DEF FlowInv, EntryInv, AvailHeads, HeldHeads, UsedHeads
  <1>9. IsFiniteSet(P \cup Q) /\ Cardinality(P \cup Q) = n + Cardinality(Held)
    BY <1>4, <1>6, <1>7, <1>8, DisjointUnion
  <1>10. Cardinality((P \cup Q) \cup R) = n + Cardinality(Held) + m
    BY <1>5, <1>7, <1>8, <1>9, DisjointUnion
  <1> QED
    BY <1>1, <1>3, <1>7, <1>10 DEF EntryConservation

(* The parts of the table are those of the owners.                         *)
LEMMA FlowDescriptors ==
    ASSUME TypeInv, FlowInv
    PROVE  DescriptorPartition
  <1> DEFINE inChains == UNION {DescsOf(chain[h]) : h \in Heads}
             parts == <<FreeDescs, inChains, DescsOf(popping), AddingDescs>>
  <1>1. free \in Seq(Desc) /\ popping \in Seq(LinkType) /\ chain \in [Desc -> Seq(LinkType)]
    BY DEF TypeInv, TypeOK
  <1>2. \A d : d \in FreeDescs <=> d \in Desc /\ InFree(d)
    <2>1. DOMAIN free = 1..Len(free) /\ \A i \in 1..Len(free) : free[i] \in Desc
      BY <1>1, ElementOfSeq
    <2> QED
      BY <2>1 DEF FreeDescs, InFree
  <1>3. ASSUME NEW s \in Seq(LinkType)
        PROVE  \A d : d \in DescsOf(s) <=> d \in Desc /\ On(s, d)
    <2>1. DOMAIN s = 1..Len(s) /\ \A i \in 1..Len(s) : s[i] \in LinkType
      BY ElementOfSeq
    <2>2. \A i \in 1..Len(s) : s[i].d \in Desc
      BY <2>1 DEF LinkType
    <2> QED
      BY <2>1, <2>2 DEF DescsOf, On
  <1>4. \A d : d \in DescsOf(popping) <=> d \in Desc /\ On(popping, d)
    BY <1>1, <1>3
  <1>5. \A h \in Desc : \A d : d \in DescsOf(chain[h]) <=> d \in Desc /\ On(chain[h], d)
    BY <1>1, <1>3
  <1>6. \A d : d \in inChains <=> d \in Desc /\ \E h \in Desc : On(chain[h], d)
    <2>1. \A h \in Desc, d \in Desc : On(chain[h], d) => chain[h] # <<>>
      BY DEF On
    <2> QED
      BY <1>5, <2>1 DEF Heads
  <1>7. \A d : d \in AddingDescs <=> d \in Desc /\ Adding(d)
    BY DEF AddingDescs, Adding, TypeInv, CallsInv
  <1> HIDE DEF inChains
  <1>8. PICK P, Q, R, S : P = FreeDescs /\ Q = inChains /\ R = DescsOf(popping) /\ S = AddingDescs
    OBVIOUS
  <1>9. /\ P \cup Q \cup R \cup S = Desc
        /\ P \cap Q = {} /\ P \cap R = {} /\ P \cap S = {}
        /\ Q \cap R = {} /\ Q \cap S = {} /\ R \cap S = {}
    BY <1>2, <1>4, <1>6, <1>7, <1>8 DEF FlowInv, Owned
  <1>10. parts[1] = P /\ parts[2] = Q /\ parts[3] = R /\ parts[4] = S
    BY <1>8
  <1> HIDE DEF parts
  <1>11. \A i \in 1..4 : i = 1 \/ i = 2 \/ i = 3 \/ i = 4
    OBVIOUS
  <1>12. UNION {parts[i] : i \in 1..4} = Desc
    <2>1. UNION {parts[i] : i \in 1..4} = P \cup Q \cup R \cup S
      BY <1>10, <1>11
    <2> QED
      BY <1>9, <2>1
  <1>13. \A i, j \in 1..4 : i # j => parts[i] \cap parts[j] = {}
    BY <1>9, <1>10, <1>11
  <1>14. \A g, h \in Heads : g # h => DescsOf(chain[g]) \cap DescsOf(chain[h]) = {}
    BY <1>5 DEF Heads, FlowInv, Owned
  <1>15. Cardinality(FreeDescs) = Len(free)
    <2>0. PICK n \in Nat : n = Len(free) /\ DOMAIN free = 1..n
      BY <1>1
    <2>1. PICK I, f : I = 1..n /\ f = free
      OBVIOUS
    <2>2. IsFiniteSet(I) /\ Cardinality(I) = n
      BY <2>1, FS_Interval
    <2>3. f = [i \in I |-> f[i]] /\ FreeDescs = {f[i] : i \in I}
      BY <1>1, <2>0, <2>1 DEF FreeDescs
    <2>4. \A i, j \in I : f[i] = f[j] => i = j
      BY <2>0, <2>1 DEF FlowInv, ListsInv, FreeInv
    <2> QED
      BY <2>0, <2>2, <2>3, <2>4, OneToOne
  <1> QED
    BY <1>12, <1>13, <1>14, <1>15 DEF DescriptorPartition, parts, inChains

(* The next fields spell the free list and the entries.                    *)
LEMMA FlowLists ==
    ASSUME TypeInv, FlowInv
    PROVE  ListsIntact
  <1>1. PICK n \in Nat : n = Len(free) /\ DOMAIN free = 1..n /\ free \in Seq(Desc)
    BY DEF TypeInv, TypeOK
  <1>2. PICK s : s = [i \in DOMAIN free |-> Link(free[i], desc[free[i]].buf)]
    OBVIOUS
  <1>3. DOMAIN s = 1..n /\ Len(s) = n /\ s \in Seq(LinkType)
    <2>1. ASSUME NEW i \in 1..n PROVE s[i] \in LinkType
      <3>1. free[i] \in Desc
        BY <1>1, ElementOfSeq
      <3> QED
        BY <1>1, <1>2, <3>1 DEF TypeInv, TypeOK, Link, LinkType, DescType
    <2> QED
      BY <1>1, <1>2, <2>1
  <1>4. ASSUME NEW i \in 1..n
        PROVE  s[i].d = free[i] /\ s[i].buf = desc[free[i]].buf
    BY <1>1, <1>2 DEF Link
  <1>5. freeHead = IF s = <<>> THEN End ELSE s[1].d
    <2>1. n = 0 <=> free = <<>>
      BY <1>1, EmptySeq
    <2>2. n = 0 <=> s = <<>>
      BY <1>3, EmptySeq
    <2>3. n # 0 => 1 \in 1..n
      OBVIOUS
    <2> QED
      BY <1>4, <2>1, <2>2, <2>3 DEF FlowInv, ListsInv, FreeInv
  <1>6. ASSUME NEW i \in 1..n
        PROVE  desc[s[i].d].next = IF i = n THEN End ELSE s[i + 1].d
    <2>1. i # n => i + 1 \in 1..n
      OBVIOUS
    <2> QED
      BY <1>1, <1>4, <2>1 DEF FlowInv, ListsInv, FreeInv
  <1>7. Linked(s, freeHead)
    BY <1>3, <1>4, <1>5, <1>6 DEF Linked
  <1> QED
    BY <1>2, <1>7 DEF ListsIntact, FlowInv, ListsInv, Heads

(* If the driver's client leaves one slot of the rings unused, and the     *)
(* device takes an entry only when it was notified that it is complete,    *)
(* then no interleaving of the two sides loses, doubles or forges an entry *)
(* or a descriptor, and the next fields always spell the free list and the *)
(* entries the driver built.                                               *)
THEOREM EntriesAreConserved ==
    ASSUME MaxInFlight < QueueLen, ~Eager
    PROVE  Spec => []Conservation
  <1>1. TypeInv /\ CursorInv /\ FlowInv => Conservation
    BY FlowEntries, FlowDescriptors, FlowLists DEF Conservation
  <1> QED
    BY <1>1, FlowHolds, PTL
-----------------------------------------------------------------------------
(* The queue that the rings implement.                                     *)
AbsAvail == [k \in 1..NAvail |-> BufsOf(chain[Avail(k)])]
AbsHeld == [r \in DevObjs |-> IF r \in Held THEN BufsOf(chain[robj[r].first]) ELSE <<>>]
AbsUsed == [k \in 1..NUsed |-> BufsOf(chain[Used(k).id])]

(* How the queues of the mapping grow and shrink.                          *)
IsTuple(s, n) == s = [k \in 1..n |-> s[k]]

LEMMA TupleIsSeq ==
    ASSUME NEW S, NEW n \in Nat, NEW s, IsTuple(s, n), \A k \in 1..n : s[k] \in S
    PROVE  s \in Seq(S) /\ Len(s) = n
  BY DEF IsTuple

LEMMA Appended ==
    ASSUME NEW n \in Nat, NEW m \in Nat, m = n + 1, NEW s, NEW t, NEW x,
           IsTuple(s, n), IsTuple(t, m), \A k \in 1..n : t[k] = s[k], t[m] = x
    PROVE  t = Append(s, x) /\ Len(s) = n
  <1>1. PICK S : S = {s[k] : k \in 1..n} \cup {x}
    OBVIOUS
  <1>2. s \in Seq(S) /\ Len(s) = n
    BY <1>1, TupleIsSeq
  <1>3. \A k \in 1..m : k \in 1..n \/ k = m
    OBVIOUS
  <1>4. t \in Seq(S) /\ Len(t) = m
    <2>1. \A k \in 1..m : t[k] \in S
      BY <1>1, <1>3
    <2> QED
      BY <2>1, TupleIsSeq
  <1>5. /\ Append(s, x) \in Seq(S) /\ Len(Append(s, x)) = m
        /\ \A k \in 1..n : Append(s, x)[k] = s[k]
        /\ Append(s, x)[m] = x
    BY <1>1, <1>2, AppendProperties
  <1>6. \A k \in 1..m : Append(s, x)[k] = t[k]
    BY <1>3, <1>5
  <1> QED
    BY <1>2, <1>4, <1>5, <1>6, SeqEqual

LEMMA Dropped ==
    ASSUME NEW n \in Nat, NEW m \in Nat, n = m + 1, NEW s, NEW t,
           IsTuple(s, n), IsTuple(t, m), \A k \in 1..m : t[k] = s[k + 1]
    PROVE  t = Tail(s) /\ Head(s) = s[1] /\ s # <<>>
  <1>1. PICK S : S = {s[k] : k \in 1..n}
    OBVIOUS
  <1>2. s \in Seq(S) /\ Len(s) = n
    BY <1>1, TupleIsSeq
  <1>3. s # <<>> /\ Head(s) = s[1]
    BY <1>2
  <1>4. t \in Seq(S) /\ Len(t) = m
    <2>1. \A k \in 1..m : k + 1 \in 1..n
      OBVIOUS
    <2>2. \A k \in 1..m : t[k] \in S
      BY <1>1, <2>1
    <2> QED
      BY <2>2, TupleIsSeq
  <1>5. /\ Tail(s) \in Seq(S) /\ Len(Tail(s)) = m
        /\ \A k \in 1..m : Tail(s)[k] = s[k + 1]
    BY <1>2, <1>3, HeadTailProperties
  <1>6. t = Tail(s)
    BY <1>4, <1>5, SeqEqual
  <1> QED
    BY <1>3, <1>6

(* The buffers of a chain.                                                 *)
LEMMA BufsIs ==
    ASSUME NEW s \in Seq(LinkType)
    PROVE  BufsOf(s) = <<>> <=> s = <<>>
  <1>1. DOMAIN s = 1..Len(s) /\ DOMAIN BufsOf(s) = 1..Len(s) /\ Len(s) \in Nat
    BY DEF BufsOf
  <1>2. s # <<>> => 1 \in DOMAIN BufsOf(s)
    BY <1>1, EmptySeq
  <1>3. s = <<>> => BufsOf(s) = <<>>
    BY DEF BufsOf
  <1> QED
    BY <1>2, <1>3

LEMMA BufsAppend ==
    ASSUME NEW s \in Seq(LinkType), NEW l \in LinkType
    PROVE  BufsOf(Append(s, l)) = Append(BufsOf(s), l.buf)
  <1>1. PICK n \in Nat : n = Len(s) /\ DOMAIN s = 1..n
    OBVIOUS
  <1>2. PICK t \in Seq(LinkType) : t = Append(s, l) /\ Len(t) = n + 1 /\ t[n + 1] = l
                                   /\ \A k \in 1..n : t[k] = s[k]
    <2>1. /\ Append(s, l) \in Seq(LinkType) /\ Len(Append(s, l)) = n + 1
          /\ Append(s, l)[n + 1] = l /\ \A k \in 1..n : Append(s, l)[k] = s[k]
      BY <1>1, AppendProperties
    <2> QED
      BY <2>1
  <1>3. PICK f, g : f = BufsOf(s) /\ g = BufsOf(t)
    OBVIOUS
  <1>4. PICK m, x : m \in Nat /\ m = n + 1 /\ x = l.buf
    OBVIOUS
  <1>5. IsTuple(f, n) /\ IsTuple(g, m)
    BY <1>1, <1>2, <1>3, <1>4 DEF BufsOf, IsTuple
  <1>6. /\ \A k \in 1..n : f[k] = s[k].buf
        /\ \A k \in 1..m : g[k] = t[k].buf
    BY <1>1, <1>2, <1>3, <1>4 DEF BufsOf
  <1>7. g[m] = x /\ \A k \in 1..n : g[k] = f[k]
    BY <1>2, <1>4, <1>6
  <1>8. g = Append(f, x)
    BY <1>4, <1>5, <1>7, Appended
  <1> QED
    BY <1>2, <1>3, <1>4, <1>8

LEMMA BufsOne ==
    ASSUME NEW l \in LinkType
    PROVE  BufsOf(<<l>>) = <<l.buf>>
  BY DEF BufsOf

(* The abstract state when no entry moves and no chain grows.              *)
LEMMA QueueQuiet ==
    ASSUME NAvail' = NAvail, NUsed' = NUsed, Held' = Held, chain' = chain,
           \A k \in 1..NAvail : Avail(k)' = Avail(k),
           \A r \in Held : robj'[r].first = robj[r].first,
           \A k \in 1..NUsed : Used(k)' = Used(k)
    PROVE  UNCHANGED A!absVars
  <1>1. AbsAvail' = AbsAvail /\ AbsHeld' = AbsHeld /\ AbsUsed' = AbsUsed
    BY DEF AbsAvail, AbsHeld, AbsUsed
  <1> QED
    BY <1>1 DEF AbsAvail, AbsHeld, AbsUsed, A!absVars

(* The steps that a client of the queue does not see.                      *)
LEMMA QuietSteps ==
    ASSUME TypeInv,
           \/ \E o \in DrvObjs : \/ \E b \in Bufs : AddDesc(o, b)
                                 \/ AddDescFull(o) \/ InitRingObject(o)
           \/ AvailSlot \/ GetUsedPoll \/ GatherUsed \/ GatherUsedEnd
           \/ \E r \in DevObjs : GetAvailPoll(r) \/ GatherAvailable(r) \/ AddUsedSlot(r)
           \/ UNCHANGED vars
    PROVE  UNCHANGED A!absVars
  <1>1. CASE \/ \E o \in DrvObjs : \/ \E b \in Bufs : AddDesc(o, b)
                                   \/ AddDescFull(o) \/ InitRingObject(o)
             \/ GetUsedPoll \/ GatherUsed \/ GatherUsedEnd
             \/ \E r \in DevObjs : GetAvailPoll(r)
             \/ UNCHANGED vars
    <2>1. UNCHANGED <<availIdx, availRing, usedIdx, usedRing, uLast, aLast, robj, chain>>
      BY <1>1 DEF AddDesc, AddDescFull, InitRingObject, GetUsedPoll, GatherUsed,
         GatherUsedEnd, GetAvailPoll, vars, shared, driver, device, history
    <2> QED
      BY <2>1, RingsQuiet, QueueQuiet
  <1>2. CASE AvailSlot
    <2>1. /\ \A i \in Desc : i # availIdx => availRing'[i] = availRing[i]
          /\ UNCHANGED <<availIdx, usedIdx, usedRing, uLast, aLast, robj, chain>>
      BY <1>2 DEF AvailSlot, device, history, TypeInv, TypeOK
    <2>2. ASSUME NEW k \in 1..NAvail PROVE Avail(k)' = Avail(k)
      <3>1. After(aLast, k) \in Desc /\ After(aLast, k) # availIdx
        BY Window DEF TypeInv, TypeOK, NAvail
      <3> QED
        BY <2>1, <3>1 DEF Avail, After
    <2>3. /\ NAvail' = NAvail /\ NUsed' = NUsed /\ Held' = Held
          /\ \A k \in 1..NUsed : Used(k)' = Used(k)
      BY <2>1 DEF NAvail, NUsed, Held, Used, Pending, After
    <2> QED
      BY <2>1, <2>2, <2>3, QueueQuiet
  <1>3. ASSUME NEW r \in DevObjs, AddUsedSlot(r) PROVE UNCHANGED A!absVars
    <2>1. /\ \A i \in Desc : i # usedIdx => usedRing'[i] = usedRing[i]
          /\ UNCHANGED <<availIdx, availRing, usedIdx, uLast, aLast, robj, chain>>
      BY <1>3 DEF AddUsedSlot, driver, history, TypeInv, TypeOK
    <2>2. ASSUME NEW k \in 1..NUsed PROVE Used(k)' = Used(k)
      <3>1. After(uLast, k) \in Desc /\ After(uLast, k) # usedIdx
        BY Window DEF TypeInv, TypeOK, NUsed
      <3> QED
        BY <2>1, <3>1 DEF Used, After
    <2>3. /\ NAvail' = NAvail /\ NUsed' = NUsed /\ Held' = Held
          /\ \A k \in 1..NAvail : Avail(k)' = Avail(k)
      BY <2>1 DEF NAvail, NUsed, Held, Avail, Pending, After
    <2> QED
      BY <2>1, <2>2, <2>3, QueueQuiet
  <1>4. ASSUME NEW r \in DevObjs, GatherAvailable(r) PROVE UNCHANGED A!absVars
    <2>1. /\ \A q \in DevObjs : robj'[q].first = robj[q].first
          /\ UNCHANGED <<availIdx, availRing, usedIdx, usedRing, uLast, aLast, chain>>
      BY <1>4 DEF GatherAvailable, shared, driver, history, TypeInv, TypeOK, RobjType
    <2>2. /\ NAvail' = NAvail /\ NUsed' = NUsed /\ Held' = Held
          /\ \A k \in 1..NAvail : Avail(k)' = Avail(k)
          /\ \A k \in 1..NUsed : Used(k)' = Used(k)
          /\ \A q \in Held : robj'[q].first = robj[q].first
      BY <2>1 DEF NAvail, NUsed, Held, Avail, Used, Pending, After
    <2> QED
      BY <2>1, <2>2, QueueQuiet
  <1> QED
    BY <1>1, <1>2, <1>3, <1>4

(* A buffer that is being added is one of the client's.                    *)
BufInv == drv.pc \in {"link", "publish"} => desc[drv.idx].buf \in Bufs

LEMMA NextBufInv ==
    ASSUME TypeInv, BufInv, [Next]_vars
    PROVE  BufInv'
  <1>1. ASSUME NEW o \in DrvObjs, NEW b \in Bufs, AddDesc(o, b) PROVE BufInv'
    BY <1>1 DEF AddDesc, BufInv, TypeInv, TypeOK, End
  <1>2. CASE \/ \E o \in DrvObjs : AddDescFull(o) \/ InitRingObject(o)
             \/ Serve \/ UNCHANGED vars
    <2>1. UNCHANGED <<drv, desc>>
      BY <1>2 DEF AddDescFull, InitRingObject, Serve, GetAvailPoll, GatherAvailable,
         AddUsedSlot, GetAvailTake, AddUsedPublish, vars, shared, driver
    <2> QED
      BY <2>1 DEF BufInv
  <1>3. CASE AvailSlot
    <2>1. drv.pc = "link" /\ drv'.idx = drv.idx /\ desc' = desc
      BY <1>3 DEF AvailSlot, TypeInv, TypeOK, DrvType
    <2> QED
      BY <2>1 DEF BufInv
  <1>4. CASE LinkDesc \/ AvailPublish \/ Pop
    <2>1. drv'.pc \notin {"link", "publish"}
      BY <1>4 DEF LinkDesc, AvailPublish, Pop, GetUsedPoll, GetUsedTake, GatherUsed,
         GatherUsedEnd, IdleDrv, shared
    <2> QED
      BY <2>1 DEF BufInv
  <1> QED
    BY <1>1, <1>2, <1>3, <1>4 DEF Next, Add

(* Publishing an entry submits its first buffer.                           *)
LEMMA PublishSubmits ==
    ASSUME MaxInFlight < QueueLen, TypeInv, CursorInv, FlowInv, BufInv, AvailPublish
    PROVE  A!Next
  <1>1. PICK x \in Desc : x = drv.idx
    BY DEF AvailPublish, TypeInv, CallsInv
  <1>2. PICK b \in Bufs : b = desc[x].buf
    BY <1>1 DEF AvailPublish, BufInv
  <1>3. PICK l \in LinkType : l.buf = b /\ l = Link(x, desc[x].buf)
    BY <1>2 DEF Link, LinkType
  <1>4. PICK n \in Nat, m \in Nat : n = NAvail /\ m = n + 1
    BY Counts
  <1>5. /\ drv.pc = "publish" /\ availRing[availIdx] = x /\ robj' = robj
        /\ chain'[x] = <<l>> /\ \A g \in Desc : g # x => chain'[g] = chain[g]
    BY <1>1, <1>3 DEF AvailPublish, device, TypeInv, TypeOK, FlowInv, OpenInv
  <1>6. /\ NAvail' = m /\ Avail(m)' = x /\ \A k \in 1..n : Avail(k)' = Avail(k)
        /\ NUsed' = NUsed /\ Held' = Held /\ \A k \in 1..NUsed : Used(k)' = Used(k)
    BY <1>4, <1>5, AvailAdded
  <1>7. /\ \A k \in 1..n : Avail(k) # x
        /\ \A r \in Held : robj[r].first # x
        /\ \A k \in 1..NUsed : Used(k).id # x
    <2>1. chain[x] = <<>>
      BY <1>1, <1>5, AddedIsNew
    <2> QED
      BY <1>4, <2>1 DEF FlowInv, EntryInv, Placed
  <1>8. /\ \A k \in 1..n : Avail(k) \in Desc
        /\ \A r \in Held : robj[r].first \in Desc
        /\ \A k \in 1..NUsed : Used(k).id \in Desc
    BY <1>4, HeadsInTable
  <1>9. AbsHeld' = AbsHeld /\ AbsUsed' = AbsUsed
    BY <1>5, <1>6, <1>7, <1>8 DEF AbsHeld, AbsUsed
  <1>10. PICK s, t : s = AbsAvail /\ t = AbsAvail'
    OBVIOUS
  <1>11. IsTuple(s, n) /\ IsTuple(t, m)
    BY <1>4, <1>6, <1>10 DEF IsTuple, AbsAvail
  <1>12. /\ \A k \in 1..n : s[k] = BufsOf(chain[Avail(k)])
         /\ \A k \in 1..m : t[k] = BufsOf(chain'[Avail(k)'])
    BY <1>4, <1>6, <1>10 DEF AbsAvail
  <1>13. \A k \in 1..n : t[k] = s[k]
    BY <1>4, <1>5, <1>6, <1>7, <1>8, <1>12
  <1>14. t[m] = <<b>>
    <2>1. m \in 1..m
      BY <1>4
    <2>2. BufsOf(chain'[x]) = <<b>>
      BY <1>3, <1>5, BufsOne
    <2> QED
      BY <1>6, <1>12, <2>1, <2>2
  <1>15. PICK y : y = <<b>>
    OBVIOUS
  <1>16. t = Append(s, y) /\ Len(s) = n
    <2>1. m = n + 1
      BY <1>4
    <2>2. t[m] = y
      BY <1>14, <1>15
    <2> QED
      BY <1>11, <1>13, <2>1, <2>2, Appended
  <1>17. n < MaxInFlight
    <2>1. NUsed \in Nat /\ Cardinality(Held) \in Nat /\ inFlight \in Int
      BY Counts, HeldFinite DEF TypeInv, TypeOK
    <2> QED
      BY <1>4, <1>5, <2>1, InFlightAssumption DEF CursorInv, AcceptedVisible
  <1>18. A!Submit(b)
    BY <1>9, <1>10, <1>15, <1>16, <1>17 DEF A!Submit, AbsAvail, AbsHeld, AbsUsed
  <1> QED
    BY <1>18 DEF A!Next

(* Linking a descriptor lengthens an entry the device has not taken.       *)
LEMMA LinkChains ==
    ASSUME TypeInv, FlowInv, BufInv, LinkDesc
    PROVE  A!Next
  <1>1. PICK o \in DrvObjs, x \in Desc : o = drv.obj /\ x = drv.idx
    BY DEF LinkDesc, TypeInv, CallsInv
  <1>2. drv.pc = "link" /\ obj[o].first # Unset /\ obj[o] # NullObj /\ Open(o)
    BY <1>1 DEF LinkDesc, NullObj, Open
  <1>3. PICK h \in Desc : h = obj[o].first
    BY <1>2 DEF TypeInv, TypeOK, BuildType
  <1>4. PICK b \in Bufs : b = desc[x].buf
    BY <1>1, <1>2 DEF BufInv
  <1>5. PICK l \in LinkType : l.buf = b /\ l = Link(x, desc[x].buf)
    BY <1>4 DEF Link, LinkType
  <1>6. PICK c \in Seq(LinkType) : c = chain[h]
    BY DEF TypeInv, TypeOK
  <1>7. /\ chain'[h] = Append(c, l) /\ \A g \in Desc : g # h => chain'[g] = chain[g]
        /\ UNCHANGED <<availIdx, availRing, usedIdx, usedRing, uLast, aLast, robj>>
    BY <1>1, <1>3, <1>5, <1>6 DEF LinkDesc, device, TypeInv, TypeOK
  <1>8. /\ c # <<>>
        /\ \A r \in Held : robj[r].first # h
        /\ \A k \in 1..NUsed : Used(k).id # h
    BY <1>2, <1>3, <1>6 DEF FlowInv, OpenInv, Building
  <1>9. PICK i \in 1..NAvail : Avail(i) = h
    BY <1>6, <1>8 DEF FlowInv, EntryInv, Placed
  <1>10. \A k \in 1..NAvail : k # i => Avail(k) # h
    BY <1>9 DEF FlowInv, EntryInv
  <1>11. /\ \A k \in 1..NAvail : Avail(k) \in Desc
         /\ \A r \in Held : robj[r].first \in Desc
         /\ \A k \in 1..NUsed : Used(k).id \in Desc
    BY HeadsInTable
  <1>12. AbsHeld' = AbsHeld /\ AbsUsed' = AbsUsed
    BY <1>7, <1>8, <1>11, RingsQuiet DEF AbsHeld, AbsUsed
  <1>13. BufsOf(chain'[h]) = Append(BufsOf(c), b)
    BY <1>5, <1>7, BufsAppend
  <1>14. AbsAvail' = [AbsAvail EXCEPT ![i] = Append(@, b)]
    <2>1. AbsAvail' = [k \in 1..NAvail |-> BufsOf(chain'[Avail(k)])]
      BY <1>7, RingsQuiet DEF AbsAvail
    <2>2. \A k \in 1..NAvail : k # i => BufsOf(chain'[Avail(k)]) = BufsOf(chain[Avail(k)])
      BY <1>7, <1>10, <1>11
    <2>3. BufsOf(chain'[Avail(i)]) = Append(BufsOf(chain[Avail(i)]), b)
      BY <1>6, <1>9, <1>13
    <2> QED
      BY <2>1, <2>2, <2>3 DEF AbsAvail
  <1>15. i \in DOMAIN AbsAvail
    BY DEF AbsAvail
  <1>16. A!Chain(i, b)
    BY <1>12, <1>14 DEF A!Chain, AbsAvail, AbsHeld, AbsUsed
  <1> QED
    BY <1>15, <1>16 DEF A!Next, AbsAvail

(* The device takes the oldest entry.                                      *)
LEMMA TakeTakes ==
    ASSUME TypeInv, CursorInv, FlowInv, GetAvailTake
    PROVE  A!Next
  <1>1. PICK h \in Desc, q \in DevObjs : h = availRing[Succ(aLast)] /\ q = dev.obj
    BY SuccWraps DEF GetAvailTake, TypeInv, TypeOK, CallsInv
  <1>2. PICK n \in 1..(QueueLen - 1), m \in Nat : n = NAvail /\ n = m + 1 /\ n \in Nat
    <2>1. NAvail \in 1..(QueueLen - 1) /\ NAvail - 1 \in Nat
      BY Counts DEF GetAvailTake, CursorInv
    <2> QED
      BY <2>1
  <1>3. /\ robj'[q].first = h /\ \A r \in DevObjs : r # q => robj'[r] = robj[r]
        /\ chain' = chain
    BY <1>1 DEF GetAvailTake, history, TypeInv, TypeOK
  <1>4. /\ NAvail' = m /\ Avail(1) = h
        /\ \A k \in 1..m : Avail(k)' = Avail(k + 1)
        /\ NUsed' = NUsed /\ \A k \in 1..NUsed : Used(k)' = Used(k)
    <2>1. m = n - 1
      BY <1>2
    <2> QED
      BY <1>1, <1>2, <2>1, AvailDropped
  <1>5. q \notin Held /\ Held' = Held \cup {q} /\ Held \subseteq DevObjs
    <2>1. h # Unset
      BY QueueLenAssumption DEF Desc, Unset
    <2> QED
      BY <1>1, <1>3, <2>1 DEF GetAvailTake, CursorInv, Held
  <1>6. PICK s, t : s = AbsAvail /\ t = AbsAvail'
    OBVIOUS
  <1>7. IsTuple(s, n) /\ IsTuple(t, m)
    BY <1>2, <1>4, <1>6 DEF IsTuple, AbsAvail
  <1>8. /\ \A k \in 1..n : s[k] = BufsOf(chain[Avail(k)])
        /\ \A k \in 1..m : t[k] = BufsOf(chain[Avail(k)'])
    BY <1>2, <1>3, <1>4, <1>6 DEF AbsAvail
  <1>9. \A k \in 1..m : t[k] = s[k + 1]
    <2>1. \A k \in 1..m : k + 1 \in 1..n
      BY <1>2
    <2> QED
      BY <1>4, <1>8, <2>1
  <1>10. t = Tail(s) /\ Head(s) = s[1] /\ s # <<>>
    BY <1>2, <1>7, <1>9, Dropped
  <1>11. s[1] = BufsOf(chain[h])
    <2>1. 1 \in 1..n
      BY <1>2
    <2> QED
      BY <1>4, <1>8, <2>1
  <1>12. AbsHeld[q] = <<>> /\ AbsHeld' = [AbsHeld EXCEPT ![q] = Head(s)]
    BY <1>3, <1>5, <1>10, <1>11 DEF AbsHeld
  <1>13. AbsUsed' = AbsUsed
    BY <1>3, <1>4 DEF AbsUsed
  <1>14. A!Take(q)
    BY <1>6, <1>10, <1>12, <1>13 DEF A!Take, AbsAvail, AbsHeld, AbsUsed
  <1> QED
    BY <1>14 DEF A!Next

(* The device returns an entry it holds.                                   *)
LEMMA PublishReturns ==
    ASSUME MaxInFlight < QueueLen, TypeInv, CursorInv, FlowInv, AddUsedPublish
    PROVE  A!Next
  <1>1. PICK q \in DevObjs : q = dev.obj
    BY DEF AddUsedPublish, TypeInv, CallsInv
  <1>2. PICK h \in Desc : h = robj[q].first
    BY <1>1 DEF AddUsedPublish, CursorInv, TypeInv, TypeOK, RobjType
  <1>3. PICK n \in Nat, m \in Nat : n = NUsed /\ m = n + 1
    BY Counts
  <1>4. /\ robj'[q].first = Unset /\ \A r \in DevObjs : r # q => robj'[r] = robj[r]
        /\ usedRing[usedIdx].id = h /\ chain' = chain
    BY <1>1, <1>2 DEF AddUsedPublish, history, TypeInv, TypeOK, NullRobj, FlowInv, EntryInv
  <1>5. /\ NUsed' = m /\ Used(m)'.id = h /\ \A k \in 1..n : Used(k)' = Used(k)
        /\ NAvail' = NAvail /\ \A k \in 1..NAvail : Avail(k)' = Avail(k)
    BY <1>3, <1>4, UsedAdded
  <1>6. q \in Held /\ Held' = Held \ {q} /\ Held \subseteq DevObjs
    <2>1. h # Unset
      BY QueueLenAssumption DEF Desc, Unset
    <2> QED
      BY <1>2, <1>4, <2>1 DEF Held
  <1>7. PICK s, t : s = AbsUsed /\ t = AbsUsed'
    OBVIOUS
  <1>8. IsTuple(s, n) /\ IsTuple(t, m)
    BY <1>3, <1>5, <1>7 DEF IsTuple, AbsUsed
  <1>9. /\ \A k \in 1..n : s[k] = BufsOf(chain[Used(k).id])
        /\ \A k \in 1..m : t[k] = BufsOf(chain[Used(k)'.id])
    BY <1>3, <1>4, <1>5, <1>7 DEF AbsUsed
  <1>10. \A k \in 1..n : t[k] = s[k]
    <2>1. \A k \in 1..n : k \in 1..m
      BY <1>3
    <2> QED
      BY <1>5, <1>9, <2>1
  <1>11. PICK y : y = BufsOf(chain[h])
    OBVIOUS
  <1>12. t[m] = y
    <2>1. m \in 1..m
      BY <1>3
    <2> QED
      BY <1>5, <1>9, <1>11, <2>1
  <1>13. t = Append(s, y) /\ Len(s) = n
    BY <1>3, <1>8, <1>10, <1>12, Appended
  <1>14. y # <<>>
    <2>1. chain[h] \in Seq(LinkType) /\ chain[h] # <<>>
      BY <1>2, <1>6 DEF TypeInv, TypeOK, FlowInv, EntryInv, Placed
    <2> QED
      BY <1>11, <2>1, BufsIs
  <1>15. AbsHeld[q] = y /\ AbsHeld' = [AbsHeld EXCEPT ![q] = <<>>]
    BY <1>2, <1>4, <1>6, <1>11 DEF AbsHeld
  <1>16. AbsAvail' = AbsAvail
    BY <1>4, <1>5 DEF AbsAvail
  <1>17. A!Return(q)
    BY <1>7, <1>13, <1>14, <1>15, <1>16 DEF A!Return, AbsAvail, AbsHeld, AbsUsed
  <1> QED
    BY <1>17 DEF A!Next

(* The driver collects the entry returned first.                           *)
LEMMA TakeCollects ==
    ASSUME TypeInv, CursorInv, FlowInv, GetUsedTake
    PROVE  A!Next
  <1>1. PICK h \in Desc : h = usedRing[Succ(uLast)].id
    BY SuccWraps DEF TypeInv, TypeOK
  <1>2. PICK n \in 1..(QueueLen - 1), m \in Nat : n = NUsed /\ n = m + 1 /\ n \in Nat
    <2>1. NUsed \in 1..(QueueLen - 1) /\ NUsed - 1 \in Nat
      BY Counts DEF GetUsedTake, CursorInv
    <2> QED
      BY <2>1
  <1>3. /\ \A g \in Desc : g # h => chain'[g] = chain[g]
        /\ robj' = robj
    BY <1>1 DEF GetUsedTake, device, TypeInv, TypeOK
  <1>4. /\ NUsed' = m /\ Used(1).id = h
        /\ \A k \in 1..m : Used(k)' = Used(k + 1)
        /\ NAvail' = NAvail /\ Held' = Held /\ \A k \in 1..NAvail : Avail(k)' = Avail(k)
    <2>1. m = n - 1
      BY <1>2
    <2> QED
      BY <1>1, <1>2, <2>1, UsedDropped
  <1>5. /\ 1 \in 1..n /\ \A k \in 1..m : k + 1 \in 1..n /\ k + 1 # 1
    BY <1>2
  <1>6. /\ \A k \in 1..NAvail : Avail(k) # h
        /\ \A r \in Held : robj[r].first # h
        /\ \A k \in 1..m : Used(k + 1).id # h
    BY <1>2, <1>4, <1>5 DEF FlowInv, EntryInv
  <1>7. /\ \A k \in 1..NAvail : Avail(k) \in Desc
        /\ \A r \in Held : robj[r].first \in Desc
        /\ \A k \in 1..n : Used(k).id \in Desc
    BY <1>2, HeadsInTable
  <1>8. AbsAvail' = AbsAvail /\ AbsHeld' = AbsHeld
    BY <1>3, <1>4, <1>6, <1>7 DEF AbsAvail, AbsHeld
  <1>9. PICK s, t : s = AbsUsed /\ t = AbsUsed'
    OBVIOUS
  <1>10. IsTuple(s, n) /\ IsTuple(t, m)
    BY <1>2, <1>4, <1>9 DEF IsTuple, AbsUsed
  <1>11. /\ \A k \in 1..n : s[k] = BufsOf(chain[Used(k).id])
         /\ \A k \in 1..m : t[k] = BufsOf(chain'[Used(k)'.id])
    BY <1>2, <1>4, <1>9 DEF AbsUsed
  <1>12. \A k \in 1..m : t[k] = s[k + 1]
    BY <1>3, <1>4, <1>5, <1>6, <1>7, <1>11
  <1>13. t = Tail(s) /\ Head(s) = s[1] /\ s # <<>>
    BY <1>2, <1>10, <1>12, Dropped
  <1>14. A!Collect
    BY <1>8, <1>9, <1>13 DEF A!Collect, AbsAvail, AbsHeld, AbsUsed
  <1> QED
    BY <1>14 DEF A!Next

(* If the driver's client leaves one slot of the rings unused, and the     *)
(* device takes an entry only when it was notified that it is complete,    *)
(* then the table and the two rings are the pair of first-in first-out     *)
(* queues that the clients may rely on: the device is handed the entries   *)
(* in the order of their submission with all their buffers, and the driver *)
(* collects them in the order in which the device returned them.           *)
THEOREM RefinesTheQueue ==
    ASSUME MaxInFlight < QueueLen, ~Eager
    PROVE  Spec => RefinesQueue
  <1> DEFINE IInv == TypeInv /\ CursorInv /\ FlowInv
  <1>1. Init => A!Init /\ BufInv
    <2> SUFFICES ASSUME Init PROVE A!Init /\ BufInv
      OBVIOUS
    <2>1. Held = {}
      BY QueueLenAssumption DEF Init, Held, NullRobj
    <2>2. NAvail = 0 /\ NUsed = 0
      BY QueueLenAssumption
         DEF Init, InitDriver, InitDevice, NAvail, NUsed, Pending
    <2>3. AbsAvail = <<>> /\ AbsUsed = <<>> /\ AbsHeld = [r \in DevObjs |-> <<>>]
      BY <2>1, <2>2 DEF AbsAvail, AbsUsed, AbsHeld
    <2>4. A!Init
      BY <2>3 DEF A!Init, AbsAvail, AbsUsed, AbsHeld
    <2>5. BufInv
      BY DEF Init, BufInv, IdleDrv
    <2> QED
      BY <2>4, <2>5
  <1>2. IInv /\ BufInv /\ [Next]_vars => [A!Next]_(A!absVars) /\ BufInv'
    <2> SUFFICES ASSUME IInv, BufInv, [Next]_vars
                 PROVE  (A!Next \/ UNCHANGED A!absVars) /\ BufInv'
      OBVIOUS
    <2>1. BufInv'
      BY NextBufInv
    <2>2. CASE AvailPublish
      BY <2>1, <2>2, PublishSubmits
    <2>3. CASE LinkDesc
      BY <2>1, <2>3, LinkChains
    <2>4. CASE GetAvailTake
      BY <2>1, <2>4, TakeTakes
    <2>5. CASE AddUsedPublish
      BY <2>1, <2>5, PublishReturns
    <2>6. CASE GetUsedTake
      BY <2>1, <2>6, TakeCollects
    <2>7. CASE \/ \E o \in DrvObjs : \/ \E b \in Bufs : AddDesc(o, b)
                                     \/ AddDescFull(o) \/ InitRingObject(o)
               \/ AvailSlot \/ GetUsedPoll \/ GatherUsed \/ GatherUsedEnd
               \/ \E r \in DevObjs : GetAvailPoll(r) \/ GatherAvailable(r) \/ AddUsedSlot(r)
               \/ UNCHANGED vars
      BY <2>1, <2>7, QuietSteps
    <2> QED
      BY <2>2, <2>3, <2>4, <2>5, <2>6, <2>7 DEF Next, Add, Pop, Serve
  <1>3. Spec => []IInv
    BY FlowHolds
  <1> QED
    BY <1>1, <1>2, <1>3, PTL DEF Spec, RefinesQueue, A!Spec
-----------------------------------------------------------------------------
(* What the device reads of an entry, and reports of it.                   *)
ServeInv ==
    /\ IteratorInside
    /\ UsedComplete
    /\ \A r \in DevObjs : r \notin Held => robj[r].cur = Unset
    /\ dev.pc = "publish" =>
          usedRing[usedIdx].len = Len(chain[robj[dev.obj].first])

(* The chains of the entries that the device holds or has returned do not  *)
(* change while the driver works on others.                                *)
LEMMA ServeQuiet ==
    ASSUME TypeInv, CursorInv, ServeInv,
           UNCHANGED <<usedIdx, usedRing, uLast, robj, dev>>,
           \A r \in Held : chain'[robj[r].first] = chain[robj[r].first],
           \A k \in 1..NUsed : chain'[Used(k).id] = chain[Used(k).id]
    PROVE  ServeInv'
  <1>1. /\ NUsed' = NUsed /\ Held' = Held
        /\ \A k \in 1..NUsed : Used(k)' = Used(k)
    BY DEF NUsed, Held, Used, Pending, After
  <1>2. dev.pc = "publish" => dev.obj \in Held
    BY DEF CursorInv, Held, TypeInv, CallsInv
  <1>3. IteratorInside'
    BY <1>1 DEF ServeInv, IteratorInside
  <1>4. UsedComplete'
    BY <1>1 DEF ServeInv, UsedComplete
  <1> QED
    BY <1>1, <1>2, <1>3, <1>4 DEF ServeInv

LEMMA AddServe ==
    ASSUME TypeInv, CursorInv, FlowInv, ServeInv, Add
    PROVE  ServeInv'
  <1>1. CASE AvailSlot \/ \E o \in DrvObjs : \/ \E b \in Bufs : AddDesc(o, b)
                                             \/ AddDescFull(o) \/ InitRingObject(o)
    <2>1. UNCHANGED <<usedIdx, usedRing, uLast, robj, dev, chain>>
      BY <1>1 DEF AddDesc, AddDescFull, InitRingObject, AvailSlot, shared, device, history
    <2> QED
      BY <2>1, ServeQuiet
  <1>2. CASE LinkDesc
    <2>1. PICK o \in DrvObjs : o = drv.obj
      BY <1>2 DEF LinkDesc, TypeInv, CallsInv
    <2>2. obj[o].first # Unset /\ obj[o] # NullObj /\ Open(o)
      BY <1>2, <2>1 DEF LinkDesc, NullObj, Open
    <2>3. PICK h \in Desc : h = obj[o].first
      BY <2>2 DEF TypeInv, TypeOK, BuildType
    <2>4. /\ \A r \in Held : robj[r].first # h
          /\ \A k \in 1..NUsed : Used(k).id # h
      BY <2>2, <2>3 DEF FlowInv, OpenInv, Building
    <2>5. /\ \A g \in Desc : g # h => chain'[g] = chain[g]
          /\ UNCHANGED <<usedIdx, usedRing, uLast, robj, dev>>
      BY <1>2, <2>1, <2>3 DEF LinkDesc, device, TypeInv, TypeOK
    <2> QED
      BY <2>4, <2>5, HeadsInTable, ServeQuiet
  <1>3. CASE AvailPublish
    <2>1. PICK x \in Desc : x = drv.idx
      BY <1>3 DEF AvailPublish, TypeInv, CallsInv
    <2>2. /\ drv.pc = "publish" /\ \A g \in Desc : g # x => chain'[g] = chain[g]
          /\ UNCHANGED <<usedIdx, usedRing, uLast, robj, dev>>
      BY <1>3, <2>1 DEF AvailPublish, device, TypeInv, TypeOK
    <2>3. chain[x] = <<>>
      BY <2>1, <2>2, AddedIsNew
    <2>4. /\ \A r \in Held : robj[r].first # x
          /\ \A k \in 1..NUsed : Used(k).id # x
      BY <2>3 DEF FlowInv, EntryInv, Placed
    <2> QED
      BY <2>2, <2>4, HeadsInTable, ServeQuiet
  <1> QED
    BY <1>1, <1>2, <1>3 DEF Add

LEMMA PopServe ==
    ASSUME TypeInv, CursorInv, FlowInv, ServeInv, Pop
    PROVE  ServeInv'
  <1>1. CASE GetUsedPoll \/ GatherUsed \/ GatherUsedEnd
    <2>1. UNCHANGED <<usedIdx, usedRing, uLast, robj, dev, chain>>
      BY <1>1 DEF GetUsedPoll, GatherUsed, GatherUsedEnd, shared, device, history
    <2> QED
      BY <2>1, ServeQuiet
  <1>2. CASE GetUsedTake
    <2>1. PICK h \in Desc : h = usedRing[Succ(uLast)].id
      BY SuccWraps DEF TypeInv, TypeOK
    <2>2. PICK m \in 1..(QueueLen - 1) : m = NUsed
      BY <1>2, Counts DEF GetUsedTake, CursorInv
    <2>3. /\ \A g \in Desc : g # h => chain'[g] = chain[g]
          /\ UNCHANGED <<usedIdx, usedRing, robj, dev>>
      BY <1>2, <2>1 DEF GetUsedTake, shared, device, TypeInv, TypeOK
    <2>4. /\ NUsed' = m - 1 /\ Used(1).id = h /\ Held' = Held
          /\ \A k \in 1..(m - 1) : Used(k)' = Used(k + 1)
      BY <1>2, <2>1, <2>2, UsedDropped
    <2>5. 1 \in 1..m /\ \A k \in 1..(m - 1) : k + 1 \in 1..m /\ k + 1 # 1
      BY <2>2
    <2>6. /\ \A r \in Held : robj[r].first # h
          /\ \A k \in 1..(m - 1) : Used(k + 1).id # h
      BY <2>2, <2>4, <2>5 DEF FlowInv, EntryInv
    <2>7. /\ \A r \in Held : chain'[robj[r].first] = chain[robj[r].first]
          /\ \A k \in 1..(m - 1) : chain'[Used(k + 1).id] = chain[Used(k + 1).id]
      BY <2>2, <2>3, <2>5, <2>6, HeadsInTable
    <2>8. IteratorInside'
      BY <2>3, <2>4, <2>7 DEF ServeInv, IteratorInside
    <2>9. UsedComplete'
      BY <2>2, <2>4, <2>5, <2>7 DEF ServeInv, UsedComplete
    <2>10. dev.pc = "publish" => dev.obj \in Held
      BY DEF CursorInv, Held, TypeInv, CallsInv
    <2> QED
      BY <2>3, <2>4, <2>7, <2>8, <2>9, <2>10 DEF ServeInv
  <1> QED
    BY <1>1, <1>2 DEF Pop

(* One more buffer of the entry: the next field leads to the next link.    *)
LEMMA GatherAvailableServe ==
    ASSUME TypeInv, FlowInv, ServeInv, NEW r \in DevObjs, GatherAvailable(r)
    PROVE  ServeInv'
  <1>1. robj[r].cur < QueueLen /\ r \in Held
    BY QueueLenAssumption DEF GatherAvailable, ServeInv, Unset
  <1>2. PICK h \in Desc, n \in Nat : h = robj[r].first /\ n = robj[r].len
    BY <1>1, HeadsInTable DEF TypeInv, TypeOK, RobjType
  <1>3. PICK c \in Seq(LinkType) : c = chain[h]
    BY DEF TypeInv, TypeOK
  <1>4. PICK w \in Nat : w = Len(c) /\ DOMAIN c = 1..w
    OBVIOUS
  <1>5. n < w /\ n + 1 \in 1..w /\ robj[r].cur = c[n + 1].d
    <2>1. n <= w /\ robj[r].cur = IF n = w THEN End ELSE c[n + 1].d
      BY <1>1, <1>2, <1>3, <1>4 DEF ServeInv, IteratorInside
    <2>2. n # w
      BY <1>1, <2>1, QueueLenAssumption DEF End
    <2> QED
      BY <2>1, <2>2
  <1>6. desc[robj[r].cur].next = IF n + 1 = w THEN End ELSE c[n + 2].d
    <2>1. c # <<>>
      BY <1>4, <1>5
    <2>2. Linked(c, h)
      BY <1>3, <2>1 DEF FlowInv, ListsInv
    <2>3. PICK k \in 1..w : k = n + 1
      BY <1>5
    <2>4. desc[c[k].d].next = IF k = w THEN End ELSE c[k + 1].d
      BY <1>4, <2>2 DEF Linked
    <2>5. k + 1 = n + 2
      BY <2>3
    <2> QED
      BY <1>5, <2>3, <2>4, <2>5
  <1>7. /\ robj'[r].cur = desc[robj[r].cur].next /\ robj'[r].first = h
        /\ robj'[r].len = n + 1
        /\ \A q \in DevObjs : q # r => robj'[q] = robj[q]
        /\ dev.pc = "idle"
        /\ UNCHANGED <<usedIdx, usedRing, uLast, dev, chain>>
    BY <1>2 DEF GatherAvailable, shared, driver, history, TypeInv, TypeOK
  <1>8. /\ NUsed' = NUsed /\ Held' = Held /\ \A k \in 1..NUsed : Used(k)' = Used(k)
    <2>1. \A q \in DevObjs : robj'[q].first = robj[q].first
      BY <1>2, <1>7
    <2> QED
      BY <1>7, <2>1 DEF NUsed, Held, Used, Pending, After
  <1>9. IteratorInside'
    <2>1. n + 1 <= w /\ (n + 1) + 1 = n + 2
      BY <1>5
    <2>2. ASSUME NEW q \in Held
          PROVE  LET e == chain[robj'[q].first]
                 IN  /\ robj'[q].len <= Len(e)
                     /\ robj'[q].cur =
                           (IF robj'[q].len = Len(e) THEN End ELSE e[robj'[q].len + 1].d)
      <3>1. CASE q = r
        BY <1>3, <1>4, <1>6, <1>7, <2>1, <3>1
      <3>2. CASE q # r
        BY <1>7, <3>2 DEF ServeInv, IteratorInside, Held
      <3> QED
        BY <3>1, <3>2
    <2> QED
      BY <1>7, <1>8, <2>2 DEF IteratorInside
  <1>10. UsedComplete'
    BY <1>7, <1>8 DEF ServeInv, UsedComplete
  <1>11. \A q \in DevObjs : q \notin Held' => robj'[q].cur = Unset
    BY <1>1, <1>7, <1>8 DEF ServeInv
  <1> QED
    BY <1>7, <1>9, <1>10, <1>11 DEF ServeInv

(* The iterator starts at the head of the entry.                           *)
LEMMA GetAvailTakeServe ==
    ASSUME TypeInv, CursorInv, FlowInv, ServeInv, GetAvailTake
    PROVE  ServeInv'
  <1>1. PICK h \in Desc, q \in DevObjs : h = availRing[Succ(aLast)] /\ q = dev.obj
    BY SuccWraps DEF GetAvailTake, TypeInv, TypeOK, CallsInv
  <1>2. PICK n \in 1..(QueueLen - 1) : n = NAvail
    BY Counts DEF GetAvailTake, CursorInv
  <1>3. /\ robj'[q].cur = h /\ robj'[q].first = h /\ robj'[q].len = 0
        /\ \A r \in DevObjs : r # q => robj'[r] = robj[r]
        /\ dev'.pc = "idle" /\ UNCHANGED <<usedIdx, usedRing, uLast, chain>>
    BY <1>1 DEF GetAvailTake, shared, driver, history, TypeInv, TypeOK, IdleDev
  <1>4. NUsed' = NUsed /\ \A k \in 1..NUsed : Used(k)' = Used(k)
    BY <1>3 DEF NUsed, Used, Pending, After
  <1>5. q \notin Held /\ Held' = Held \cup {q} /\ Held \subseteq DevObjs
    <2>1. h # Unset
      BY QueueLenAssumption DEF Desc, Unset
    <2> QED
      BY <1>1, <1>3, <2>1 DEF GetAvailTake, CursorInv, Held
  <1>6. PICK c \in Seq(LinkType) : c = chain[h]
    BY DEF TypeInv, TypeOK
  <1>7. Len(c) \in Nat /\ Len(c) # 0 /\ c[1].d = h
    <2>1. Avail(1) = h /\ 1 \in 1..n
      BY <1>1, <1>2, AvailDropped
    <2>2. c # <<>>
      BY <1>2, <1>6, <2>1 DEF FlowInv, EntryInv, Placed
    <2>3. Linked(c, h)
      BY <1>6, <2>2 DEF FlowInv, ListsInv
    <2> QED
      BY <2>2, <2>3, EmptySeq, LenProperties DEF Linked
  <1>8. IteratorInside'
    <2>1. ASSUME NEW r \in Held'
          PROVE  LET e == chain[robj'[r].first]
                 IN  /\ robj'[r].len <= Len(e)
                     /\ robj'[r].cur =
                           (IF robj'[r].len = Len(e) THEN End ELSE e[robj'[r].len + 1].d)
      <3>1. CASE r = q
        BY <1>3, <1>6, <1>7, <3>1
      <3>2. CASE r # q
        BY <1>3, <1>5, <3>2 DEF ServeInv, IteratorInside
      <3> QED
        BY <3>1, <3>2
    <2> QED
      BY <1>3, <2>1 DEF IteratorInside
  <1>9. UsedComplete'
    BY <1>3, <1>4 DEF ServeInv, UsedComplete
  <1> QED
    BY <1>3, <1>5, <1>8, <1>9 DEF ServeInv

(* An entry is returned when its end is reached.                           *)
LEMMA AddUsedSlotServe ==
    ASSUME TypeInv, CursorInv, FlowInv, ServeInv, NEW r \in DevObjs, AddUsedSlot(r)
    PROVE  ServeInv'
  <1>1. r \in Held /\ robj[r].cur >= QueueLen
    BY DEF AddUsedSlot, Held
  <1>2. PICK h \in Desc, n \in Nat : h = robj[r].first /\ n = robj[r].len
    BY <1>1, HeadsInTable DEF TypeInv, TypeOK, RobjType
  <1>3. PICK c \in Seq(LinkType) : c = chain[h]
    BY DEF TypeInv, TypeOK
  <1>4. n = Len(c)
    <2>1. n <= Len(c) /\ Len(c) \in Nat /\ robj[r].cur = IF n = Len(c) THEN End ELSE c[n + 1].d
      BY <1>1, <1>2, <1>3, LenProperties DEF ServeInv, IteratorInside
    <2>2. n # Len(c) => c[n + 1] \in LinkType
      BY <2>1, ElementOfSeq
    <2>3. n # Len(c) => c[n + 1].d \in Desc
      BY <2>2 DEF LinkType
    <2> QED
      BY <1>1, <2>1, <2>3, QueueLenAssumption DEF Desc
  <1>5. /\ dev'.pc = "publish" /\ dev'.obj = r
        /\ usedRing'[usedIdx].len = n
        /\ \A i \in Desc : i # usedIdx => usedRing'[i] = usedRing[i]
        /\ UNCHANGED <<usedIdx, uLast, robj, chain>>
    BY <1>2 DEF AddUsedSlot, driver, history, TypeInv, TypeOK
  <1>6. ASSUME NEW k \in 1..NUsed PROVE Used(k)' = Used(k)
    <2>1. After(uLast, k) \in Desc /\ After(uLast, k) # usedIdx
      BY Window DEF TypeInv, TypeOK, NUsed
    <2> QED
      BY <1>5, <2>1 DEF Used, After
  <1>7. NUsed' = NUsed /\ Held' = Held
    BY <1>5 DEF NUsed, Held, Pending
  <1>8. IteratorInside' /\ UsedComplete'
    BY <1>5, <1>6, <1>7 DEF ServeInv, IteratorInside, UsedComplete
  <1> QED
    BY <1>2, <1>3, <1>4, <1>5, <1>7, <1>8 DEF ServeInv

LEMMA AddUsedPublishServe ==
    ASSUME MaxInFlight < QueueLen, TypeInv, CursorInv, FlowInv, ServeInv, AddUsedPublish
    PROVE  ServeInv'
  <1>1. PICK q \in DevObjs : q = dev.obj
    BY DEF AddUsedPublish, TypeInv, CallsInv
  <1>2. PICK h \in Desc : h = robj[q].first
    BY <1>1 DEF AddUsedPublish, CursorInv, TypeInv, TypeOK, RobjType
  <1>3. PICK m \in Nat : m = NUsed
    BY Counts
  <1>4. /\ robj'[q].first = Unset /\ robj'[q].cur = Unset
        /\ \A r \in DevObjs : r # q => robj'[r] = robj[r]
        /\ dev'.pc = "idle" /\ chain' = chain
        /\ usedRing[usedIdx].id = h /\ usedRing[usedIdx].len = Len(chain[h])
    BY <1>1, <1>2 DEF AddUsedPublish, history, TypeInv, TypeOK, NullRobj, IdleDev, FlowInv,
       EntryInv, ServeInv
  <1>5. /\ NUsed' = m + 1 /\ Used(m + 1)' = usedRing[usedIdx]
        /\ \A k \in 1..m : Used(k)' = Used(k)
    BY <1>3, UsedAdded
  <1>6. Held' = Held \ {q} /\ Held \subseteq DevObjs
    BY <1>4 DEF Held
  <1>7. IteratorInside'
    BY <1>4, <1>6 DEF ServeInv, IteratorInside
  <1>8. UsedComplete'
    <2>1. \A k \in 1..(m + 1) : k = m + 1 \/ k \in 1..m
      BY <1>3
    <2>2. ASSUME NEW k \in 1..(m + 1) PROVE Used(k)'.len = Len(chain[Used(k)'.id])
      BY <1>3, <1>4, <1>5, <2>1 DEF ServeInv, UsedComplete
    <2> QED
      BY <1>4, <1>5, <2>2 DEF UsedComplete
  <1>9. \A r \in DevObjs : r \notin Held' => robj'[r].cur = Unset
    BY <1>4, <1>6 DEF ServeInv
  <1> QED
    BY <1>4, <1>7, <1>8, <1>9 DEF ServeInv
-----------------------------------------------------------------------------
(* Recursion: a function each of whose values determines the next one      *)
(* exists, by the least number up to which it does not.                    *)

LEMMA LeastElement ==
    ASSUME NEW S \in SUBSET Nat, S # {}
    PROVE  \E x \in S : \A y \in S : x <= y
  <1>1. PICK R : R = OpToRel(<, Nat)
    OBVIOUS
  <1>2. IsWellFoundedOn(R, Nat)
    BY <1>1, NatLessThanWellFounded
  <1>3. \E x \in S : \A y \in S : ~ (<<y, x>> \in R)
    BY <1>2, WFMin
  <1>4. \A y, z \in Nat : y < z => <<y, z>> \in R
    BY <1>1 DEF OpToRel
  <1>5. PICK x \in S : \A y \in S : ~ (<<y, x>> \in R)
    BY <1>3
  <1>6. \A y \in S : ~(y < x)
    BY <1>4, <1>5
  <1> QED
    BY <1>5, <1>6

Iterates(f, n, T, a, G) ==
    /\ f \in [0..n -> T] /\ f[0] = a
    /\ \A i \in 0..(n - 1) : f[i + 1] = G[f[i]]

LEMMA IteratesExist ==
    ASSUME NEW T, NEW a \in T, NEW G \in [T -> T]
    PROVE  \A n \in Nat : \E f : Iterates(f, n, T, a, G)
  <1>1. PICK S : S = {n \in Nat : ~\E f : Iterates(f, n, T, a, G)}
    OBVIOUS
  <1> SUFFICES ASSUME S # {} PROVE FALSE
    BY <1>1
  <1>2. PICK n \in S : \A m \in S : n <= m
    BY <1>1, LeastElement
  <1>3. CASE n = 0
    <2>1. PICK f : f = [i \in 0..0 |-> a]
      OBVIOUS
    <2>2. Iterates(f, 0, T, a, G)
      BY <2>1 DEF Iterates
    <2> QED
      BY <1>1, <1>2, <1>3, <2>2
  <1>4. CASE n # 0
    <2>1. PICK m \in Nat : n = m + 1
      <3>1. n \in Nat /\ n - 1 \in Nat /\ n = (n - 1) + 1
        BY <1>1, <1>2, <1>4
      <3> QED
        BY <3>1
    <2>2. PICK g : Iterates(g, m, T, a, G)
      BY <1>1, <1>2, <2>1
    <2>3. PICK f : f = [i \in 0..(m + 1) |-> IF i <= m THEN g[i] ELSE G[g[m]]]
      OBVIOUS
    <2>4. f[0] = a /\ f \in [0..(m + 1) -> T]
      BY <2>1, <2>2, <2>3 DEF Iterates
    <2>5. ASSUME NEW i \in 0..m PROVE f[i + 1] = G[f[i]]
      <3>1. CASE i < m
        <4>1. i \in 0..(m - 1) /\ i + 1 <= m /\ i + 1 \in 0..(m + 1) /\ i \in 0..(m + 1) /\ i <= m
          BY <2>1, <3>1
        <4> QED
          BY <2>2, <2>3, <4>1 DEF Iterates
      <3>2. CASE i = m
        <4>1. ~(i + 1 <= m) /\ i + 1 \in 0..(m + 1) /\ i \in 0..(m + 1) /\ i <= m
          BY <2>1, <3>2
        <4> QED
          BY <2>3, <3>2, <4>1
      <3> QED
        BY <2>1, <3>1, <3>2
    <2>6. 0..((m + 1) - 1) = 0..m
      BY <2>1
    <2>7. Iterates(f, m + 1, T, a, G)
      BY <2>4, <2>5, <2>6 DEF Iterates
    <2> QED
      BY <1>1, <1>2, <2>1, <2>7
  <1> QED
    BY <1>3, <1>4

(* The recursive function of virtqueue_scattered_available_size is what    *)
(* its definition says.                                                    *)
SizeStep(n, before) ==
    [cur \in Index |-> IF n > 0 /\ cur < QueueLen THEN 1 + before[desc[cur].next] ELSE 0]

LEMMA SizeIs ==
    ASSUME TypeInv
    PROVE  \A n \in 0..(QueueLen + 1) : SizeOf[n] = SizeStep(n, SizeOf[n - 1])
  <1>1. PICK T, a : T = [Index -> Nat] /\ a = [cur \in Index |-> 0]
    OBVIOUS
  <1>2. PICK G : G = [g \in T |-> [cur \in Index |->
                         IF cur < QueueLen THEN 1 + g[desc[cur].next] ELSE 0]]
    OBVIOUS
  <1>3. G \in [T -> T] /\ a \in T
    <2>1. \A cur \in Index : cur < QueueLen => desc[cur].next \in Index
      BY QueueLenAssumption DEF TypeInv, TypeOK, DescType, Index, Desc, End, Unset
    <2>2. ASSUME NEW g \in T PROVE G[g] \in T
      <3>1. \A cur \in Index : (IF cur < QueueLen THEN 1 + g[desc[cur].next] ELSE 0) \in Nat
        BY <1>1, <2>1
      <3> QED
        BY <1>1, <1>2, <3>1
    <2> QED
      BY <1>1, <1>2, <2>2
  <1>4. PICK m \in Nat : m = QueueLen + 1
    BY QueueLenAssumption
  <1>5. PICK f : Iterates(f, m, T, a, G)
    BY <1>3, <1>4, IteratesExist
  <1>6. ASSUME NEW n \in 0..m
        PROVE  f[n] = [cur \in Index |->
                         IF n > 0 /\ cur < QueueLen THEN 1 + f[n - 1][desc[cur].next] ELSE 0]
    <2>1. CASE n = 0
      BY <1>1, <1>5, <2>1 DEF Iterates
    <2>2. CASE n # 0
      <3>1. n - 1 \in 0..(m - 1) /\ n - 1 \in 0..m /\ n = (n - 1) + 1 /\ n > 0
        BY <2>2
      <3>2. f[n] = G[f[n - 1]] /\ f[n - 1] \in T
        BY <1>5, <3>1 DEF Iterates
      <3> QED
        BY <1>2, <3>1, <3>2
    <2> QED
      BY <2>1, <2>2
  <1>7. f = [n \in 0..(QueueLen + 1) |-> [cur \in Index |->
                IF n > 0 /\ cur < QueueLen THEN 1 + f[n - 1][desc[cur].next] ELSE 0]]
    BY <1>4, <1>5, <1>6 DEF Iterates
  <1>8. SizeOf = [n \in 0..(QueueLen + 1) |-> [cur \in Index |->
                IF n > 0 /\ cur < QueueLen THEN 1 + SizeOf[n - 1][desc[cur].next] ELSE 0]]
    BY <1>7 DEF SizeOf
  <1> QED
    BY <1>8 DEF SizeStep

(* A list without repetition is no longer than the table, ...              *)
LEMMA ListFits ==
    ASSUME NEW s \in Seq(LinkType), NoRepeat(s)
    PROVE  Len(s) <= QueueLen
  <1>1. PICK S, f : S = 1..Len(s) /\ f = [i \in S |-> s[i].d]
    OBVIOUS
  <1>2. PICK T : T = {f[x] : x \in S}
    OBVIOUS
  <1>3. Len(s) \in Nat /\ QueueLen \in Nat /\ QueueLen > 0
    BY QueueLenAssumption
  <1>4. IsFiniteSet(S) /\ Cardinality(S) = Len(s)
    <2>1. PICK a, b : a = 1 /\ b = Len(s)
      OBVIOUS
    <2>2. a \in Int /\ b \in Int
      BY <1>3, <2>1
    <2>3. IsFiniteSet(a..b) /\ Cardinality(a..b) = IF a > b THEN 0 ELSE b - a + 1
      BY <2>2, FS_Interval
    <2> QED
      BY <1>1, <1>3, <2>1, <2>3
  <1>5. T \subseteq Desc
    <2>1. \A i \in S : s[i] \in LinkType
      BY <1>1, ElementOfSeq
    <2> QED
      BY <1>1, <1>2, <2>1 DEF LinkType
  <1>6. Cardinality(T) = Len(s)
    <2>1. \A x, y \in S : f[x] = f[y] => x = y
      BY <1>1 DEF NoRepeat
    <2>2. f = [x \in S |-> f[x]]
      BY <1>1
    <2> QED
      BY <1>2, <1>4, <2>1, <2>2, OneToOne
  <1>7. IsFiniteSet(Desc) /\ Cardinality(Desc) = QueueLen
    <2>1. PICK a, b : a = 0 /\ b = QueueLen - 1
      OBVIOUS
    <2>2. a \in Int /\ b \in Int
      BY <1>3, <2>1
    <2>3. IsFiniteSet(a..b) /\ Cardinality(a..b) = IF a > b THEN 0 ELSE b - a + 1
      BY <2>2, FS_Interval
    <2> QED
      BY <1>3, <2>1, <2>3 DEF Desc
  <1>8. Cardinality(T) <= Cardinality(Desc)
    BY <1>5, <1>7, FS_Subset
  <1> QED
    BY <1>6, <1>7, <1>8

(* ... and its size is its length: by the shortest end of it whose size is *)
(* not.                                                                    *)
LEMMA SizeOfList ==
    ASSUME TypeInv, NEW s \in Seq(LinkType), NEW h, NoRepeat(s), Linked(s, h)
    PROVE  ScatteredAvailableSize(h) = Len(s)
  <1>1. PICK len \in Nat : len = Len(s)
    OBVIOUS
  <1>2. len <= QueueLen /\ QueueLen \in Nat /\ QueueLen > 0
    BY <1>1, ListFits, QueueLenAssumption
  <1>3. PICK place : place = [j \in 0..len |-> IF j = 0 THEN End ELSE s[len - j + 1].d]
    OBVIOUS
  <1>4. PICK S : S = {j \in Nat : j <= len
                         /\ ~\A n \in j..(QueueLen + 1) : SizeOf[n][place[j]] = j}
    OBVIOUS
  <1>5. ASSUME NEW j \in 0..len, j # 0
        PROVE  /\ place[j] \in Desc /\ desc[place[j]].next = place[j - 1]
               /\ place[j] \in Index /\ place[j] < QueueLen
    <2>1. PICK k \in 1..len : k = len - j + 1
      <3>1. len \in Nat
        BY <1>1
      <3>2. len - j + 1 \in 1..len
        BY <1>5, <3>1
      <3> QED
        BY <3>2
    <2>2. place[j] = s[k].d /\ k \in DOMAIN s
      BY <1>1, <1>3, <1>5, <2>1
    <2>3. desc[s[k].d].next = (IF k = len THEN End ELSE s[k + 1].d)
      BY <1>1, <2>2 DEF Linked
    <2>4. place[j - 1] = (IF k = len THEN End ELSE s[k + 1].d)
      <3>1. j - 1 \in 0..len /\ (j - 1 = 0 <=> k = len) /\ len - (j - 1) + 1 = k + 1
        BY <1>1, <1>5, <2>1
      <3> QED
        BY <1>3, <3>1
    <2>5. s[k].d \in Desc
      <3>1. s[k] \in LinkType
        BY <1>1, <2>1, ElementOfSeq
      <3> QED
        BY <3>1 DEF LinkType
    <2> QED
      BY <1>2, <2>2, <2>3, <2>4, <2>5 DEF Desc, Index
  <1>6. S = {}
    <2> SUFFICES ASSUME S # {} PROVE FALSE
      OBVIOUS
    <2>1. PICK j \in S : \A m \in S : j <= m
      BY <1>4, LeastElement
    <2>2. j \in Nat /\ j \in 0..len
      BY <1>1, <1>4, <2>1
    <2>3. PICK n \in j..(QueueLen + 1) : SizeOf[n][place[j]] # j
      BY <1>4, <2>1
    <2>4. n \in 0..(QueueLen + 1) /\ SizeOf[n] = SizeStep(n, SizeOf[n - 1])
      BY <1>2, <2>2, <2>3, SizeIs
    <2>5. CASE j = 0
      <3>1. place[0] = End /\ End \in Index /\ ~(End < QueueLen)
        BY <1>1, <1>2, <1>3 DEF Index, End
      <3> QED
        BY <2>3, <2>4, <2>5, <3>1 DEF SizeStep
    <2>6. CASE j # 0
      <3>1. j - 1 \in Nat /\ j - 1 <= len /\ ~(j <= j - 1) /\ n > 0 /\ n - 1 \in (j - 1)..(QueueLen + 1)
        BY <1>1, <1>2, <2>2, <2>3, <2>6
      <3>2. j - 1 \notin S
        BY <2>1, <3>1
      <3>3. SizeOf[n - 1][place[j - 1]] = j - 1
        BY <1>4, <3>1, <3>2
      <3>4. /\ place[j] \in Index /\ place[j] < QueueLen /\ desc[place[j]].next = place[j - 1]
        BY <1>5, <2>2, <2>6
      <3>5. SizeOf[n][place[j]] = 1 + SizeOf[n - 1][place[j - 1]]
        BY <2>4, <3>1, <3>4 DEF SizeStep
      <3> QED
        BY <2>2, <2>3, <3>3, <3>5
    <2> QED
      BY <2>5, <2>6
  <1>7. SizeOf[QueueLen + 1][place[len]] = len
    <2>1. QueueLen + 1 \in len..(QueueLen + 1)
      BY <1>1, <1>2
    <2> QED
      BY <1>1, <1>4, <1>6, <2>1
  <1>8. place[len] = h
    <2>1. CASE len = 0
      <3>1. s = <<>>
        BY <1>1, <2>1, EmptySeq
      <3> QED
        BY <1>3, <2>1, <3>1 DEF Linked
    <2>2. CASE len # 0
      <3>1. s # <<>> /\ len - len + 1 = 1 /\ len \in 0..len
        BY <1>1, <2>2
      <3> QED
        BY <1>3, <2>2, <3>1 DEF Linked
    <2> QED
      BY <2>1, <2>2
  <1> QED
    BY <1>1, <1>7, <1>8 DEF ScatteredAvailableSize

(* The size of an entry that the device holds.                             *)
LEMMA FlowSizes ==
    ASSUME TypeInv, FlowInv
    PROVE  SizeRight
  <1> SUFFICES ASSUME NEW r \in Held
               PROVE  ScatteredAvailableSize(robj[r].first) = Len(chain[robj[r].first])
    BY DEF SizeRight
  <1>1. PICK h \in Desc : h = robj[r].first
    BY DEF Held, TypeInv, TypeOK, RobjType
  <1>2. chain[h] # <<>> /\ chain[h] \in Seq(LinkType)
    BY <1>1 DEF FlowInv, EntryInv, Placed, TypeInv, TypeOK
  <1>3. NoRepeat(chain[h]) /\ Linked(chain[h], h)
    BY <1>2 DEF FlowInv, ListsInv
  <1>4. PICK s : s = chain[h]
    OBVIOUS
  <1>5. ScatteredAvailableSize(h) = Len(s)
    BY <1>2, <1>3, <1>4, SizeOfList
  <1> QED
    BY <1>1, <1>4, <1>5

(* Under the same two conditions the device serves exactly the buffers the *)
(* driver chained: its iterator visits the links of the entry it took in   *)
(* their order and reads no free or foreign descriptor, the size it can    *)
(* ask for is that of the chain, and every used entry reports the whole of *)
(* its chain until the driver takes it back.                               *)
THEOREM EntriesAreServedWhole ==
    ASSUME MaxInFlight < QueueLen, ~Eager
    PROVE  Spec => []ServedWhole
  <1> DEFINE IInv == TypeInv /\ CursorInv /\ FlowInv
  <1>1. Init => ServeInv
    <2> SUFFICES ASSUME Init PROVE ServeInv
      OBVIOUS
    <2>1. Held = {}
      BY QueueLenAssumption DEF Init, Held, NullRobj
    <2>2. NUsed = 0 /\ 1..0 = {}
      BY QueueLenAssumption DEF Init, InitDriver, NUsed, Pending
    <2> QED
      BY <2>1, <2>2 DEF Init, ServeInv, IteratorInside, UsedComplete, NullRobj, IdleDev
  <1>2. IInv /\ ServeInv /\ [Next]_vars => ServeInv'
    <2> SUFFICES ASSUME IInv, ServeInv, [Next]_vars PROVE ServeInv'
      OBVIOUS
    <2>1. CASE Add
      BY <2>1, AddServe
    <2>2. CASE Pop
      BY <2>2, PopServe
    <2>3. CASE UNCHANGED vars
      BY <2>3, ServeQuiet DEF vars, shared, driver, device, history
    <2>4. ASSUME NEW r \in DevObjs, GetAvailPoll(r) PROVE ServeInv'
      <3>1. dev'.pc = "take" /\ UNCHANGED <<usedIdx, usedRing, uLast, robj, chain>>
        BY <2>4 DEF GetAvailPoll, shared, driver, history
      <3>2. /\ NUsed' = NUsed /\ Held' = Held /\ \A k \in 1..NUsed : Used(k)' = Used(k)
        BY <3>1 DEF NUsed, Held, Used, Pending, After
      <3> QED
        BY <3>1, <3>2 DEF ServeInv, IteratorInside, UsedComplete
    <2>5. CASE Serve
      BY <2>4, <2>5, GatherAvailableServe, AddUsedSlotServe, GetAvailTakeServe,
         AddUsedPublishServe DEF Serve
    <2> QED
      BY <2>1, <2>2, <2>3, <2>5 DEF Next
  <1>3. Spec => []IInv
    BY FlowHolds
  <1>4. IInv /\ ServeInv => ServedWhole
    BY FlowSizes DEF ServeInv, ServedWhole
  <1> QED
    BY <1>1, <1>2, <1>3, <1>4, PTL DEF Spec
-----------------------------------------------------------------------------
(* libvswitch, which finds the virtqueues that lead to an address: for a   *)
(* table of any size and any set of addresses, the null address among them *)
(* or not.                                                                 *)

NodeType == [addr : Macs \cup {NullMac}, queue : Queues \cup {NoQueue}]
RouteType == [addr : Macs, queue : Queues]

SwitchTypes ==
    /\ nConnected \in 0..NumNodes
    /\ nodes \in [Slots -> NodeType]
    /\ routes \in Seq(RouteType)

(* The inductive invariant.  The slots fill from the first one up, without *)
(* a gap, and each slot that is filled has been counted.                   *)
Filled(k) ==
    /\ \A i \in Slots : nodes[i].addr = NullMac <=> i >= k
    /\ k <= nConnected
    /\ NullMac \notin Macs => k = nConnected

\* The first slot of an address, and where its route comes from.
FirstSlot(mac, i) ==
    /\ nodes[i].addr = mac
    /\ \A j \in Slots : nodes[j].addr = mac => i <= j
Routed(mac) ==
    IF Registered(mac)
    THEN \E i \in Slots, r \in DOMAIN routes :
            FirstSlot(mac, i) /\ FirstConnect(mac, r) /\ nodes[i] = routes[r]
    ELSE \A i \in Slots : nodes[i].addr # mac

Addresses == (Macs \cup Lookups) \ {NullMac}

SwitchInv ==
    /\ SwitchTypes
    /\ \E k \in 0..NumNodes : Filled(k)
    /\ \A mac \in Addresses : Routed(mac)
-----------------------------------------------------------------------------
(* The search for the first slot with an address.                          *)

LEMMA FirstWithHit ==
    ASSUME NEW mac, NEW i \in Slots, FirstSlot(mac, i)
    PROVE  FirstWith(mac) = i
  <1> DEFINE hits == {h \in Slots : nodes[h].addr = mac}
  <1>1. i \in hits /\ \A j \in hits : i <= j
    BY DEF FirstSlot
  <1>2. hits \subseteq Int
    BY DEF Slots
  <1>3. FirstWith(mac) = CHOOSE h \in hits : \A j \in hits : h <= j
    BY <1>1 DEF FirstWith
  <1> HIDE DEF hits
  <1>4. \A h \in hits : (\A j \in hits : h <= j) => h = i
    BY <1>1, <1>2
  <1> QED
    BY <1>1, <1>3, <1>4

LEMMA FirstWithMiss ==
    ASSUME NEW mac, \A i \in Slots : nodes[i].addr # mac
    PROVE  FirstWith(mac) = -1
  BY DEF FirstWith

\* The free slot found is the one after the slots that are filled.
LEMMA FreeSlotFound ==
    ASSUME NEW k \in 0..NumNodes, Filled(k)
    PROVE  FindFreeSlot = IF k < NumNodes THEN k ELSE -1
  <1>1. CASE k < NumNodes
    <2>1. k \in Slots
      BY <1>1, NodesAssumption DEF Slots
    <2>2. FirstSlot(NullMac, k)
      BY <2>1 DEF FirstSlot, Filled, Slots
    <2> QED
      BY <1>1, <2>1, <2>2, FirstWithHit DEF FindFreeSlot
  <1>2. CASE k = NumNodes
    <2>1. \A i \in Slots : nodes[i].addr # NullMac
      BY <1>2, NodesAssumption DEF Filled, Slots
    <2> QED
      BY <1>2, <2>1, FirstWithMiss, NodesAssumption DEF FindFreeSlot
  <1> QED
    BY <1>1, <1>2, NodesAssumption
-----------------------------------------------------------------------------
LEMMA SwitchInitEstablishes ==
    ASSUME SwitchInit
    PROVE  SwitchInv
  <1>1. SwitchTypes
    BY NodesAssumption DEF SwitchInit, SwitchTypes, FreeNode, NodeType
  <1>2. Filled(0) /\ 0 \in 0..NumNodes
    BY NodesAssumption DEF SwitchInit, Filled, FreeNode, Slots
  <1>3. \A mac \in Addresses : Routed(mac)
    BY DEF SwitchInit, Routed, Registered, Addresses, FreeNode
  <1> QED
    BY <1>1, <1>2, <1>3 DEF SwitchInv

LEMMA ConnectKeeps ==
    ASSUME SwitchInv, NEW mac \in Macs, NEW vq \in Queues, Connect(mac, vq)
    PROVE  SwitchInv'
  <1>1. PICK k \in 0..NumNodes : Filled(k)
    BY DEF SwitchInv
  <1>2. PICK n : n = [addr |-> mac, queue |-> vq]
    OBVIOUS
  <1>3. n \in NodeType /\ n \in RouteType /\ n.addr = mac
    BY <1>2 DEF NodeType, RouteType
  <1>4. k < NumNodes /\ k \in Slots /\ nodes' = [nodes EXCEPT ![k] = n]
        /\ nConnected < NumNodes /\ nConnected' = nConnected + 1
        /\ routes' = Append(routes, n)
    <2>1. FindFreeSlot = k /\ k < NumNodes
      BY <1>1, FreeSlotFound, NodesAssumption DEF Connect
    <2> QED
      BY <1>2, <2>1, NodesAssumption DEF Connect, Slots
  <1>5. SwitchTypes'
    <2>1. nConnected' \in 0..NumNodes
      BY <1>4, NodesAssumption DEF SwitchInv, SwitchTypes
    <2>2. nodes' \in [Slots -> NodeType]
      BY <1>3, <1>4 DEF SwitchInv, SwitchTypes
    <2>3. routes' \in Seq(RouteType)
      BY <1>3, <1>4 DEF SwitchInv, SwitchTypes
    <2> QED
      BY <2>1, <2>2, <2>3 DEF SwitchTypes
  <1>6. \A i \in Slots : nodes'[i] = IF i = k THEN n ELSE nodes[i]
    BY <1>4 DEF SwitchInv, SwitchTypes
  <1>7. \E j \in 0..NumNodes : Filled(j)'
    <2>1. nConnected \in Nat /\ k <= nConnected
      BY <1>1 DEF SwitchInv, SwitchTypes, Filled
    <2>2. CASE mac = NullMac
      BY <1>1, <1>3, <1>4, <1>6, <2>1, <2>2 DEF Filled, Slots
    <2>3. CASE mac # NullMac
      <3>1. k + 1 \in 0..NumNodes
        BY <1>4, NodesAssumption
      <3>2. Filled(k + 1)'
        BY <1>1, <1>3, <1>4, <1>6, <2>1, <2>3 DEF Filled, Slots
      <3> QED
        BY <3>1, <3>2
    <2> QED
      BY <2>2, <2>3
  <1>8. /\ Len(routes) \in Nat /\ DOMAIN routes = 1..Len(routes)
        /\ DOMAIN routes' = 1..(Len(routes) + 1)
        /\ \A i \in 1..Len(routes) : routes'[i] = routes[i]
        /\ routes'[Len(routes) + 1] = n
    BY <1>3, <1>4 DEF SwitchInv, SwitchTypes
  <1>9. ASSUME NEW m \in Addresses PROVE Routed(m)'
    <2>1. m # NullMac /\ Routed(m)
      BY DEF Addresses, SwitchInv
    <2>2. CASE Registered(m)
      <3>1. PICK i \in Slots, r \in DOMAIN routes :
               FirstSlot(m, i) /\ FirstConnect(m, r) /\ nodes[i] = routes[r]
        BY <2>1, <2>2 DEF Routed
      <3>2. i < k
        BY <1>1, <2>1, <3>1 DEF FirstSlot, Filled, Slots
      <3>3. nodes'[i] = nodes[i]
        BY <1>6, <3>2
      <3>4. FirstSlot(m, i)'
        <4>1. nodes'[i].addr = m
          BY <3>1, <3>3 DEF FirstSlot
        <4>2. ASSUME NEW j \in Slots, nodes'[j].addr = m PROVE i <= j
          BY <1>6, <3>1, <3>2, <4>2 DEF FirstSlot, Slots
        <4> QED
          BY <4>1, <4>2 DEF FirstSlot
      <3>5. r \in DOMAIN routes' /\ FirstConnect(m, r)' /\ routes'[r] = routes[r]
        BY <1>8, <3>1 DEF FirstConnect
      <3>6. Registered(m)'
        BY <3>5 DEF Registered, FirstConnect
      <3> QED
        BY <3>1, <3>3, <3>4, <3>5, <3>6 DEF Routed
    <2>3. CASE ~Registered(m) /\ m = mac
      <3>1. \A i \in Slots : nodes[i].addr # m
        BY <2>1, <2>3 DEF Routed
      <3>2. \A i \in DOMAIN routes : routes[i].addr # m
        BY <2>3 DEF Registered
      <3>3. FirstSlot(m, k)'
        BY <1>3, <1>4, <1>6, <2>3, <3>1 DEF FirstSlot, Slots
      <3> PICK last : last = Len(routes) + 1
        OBVIOUS
      <3>4. FirstConnect(m, last)' /\ last \in DOMAIN routes'
        BY <1>3, <1>8, <2>3, <3>2 DEF FirstConnect
      <3>5. nodes'[k] = routes'[last]
        BY <1>4, <1>6, <1>8
      <3>6. Registered(m)'
        BY <1>3, <1>8, <2>3, <3>4 DEF Registered
      <3> QED
        BY <1>4, <3>3, <3>4, <3>5, <3>6 DEF Routed
    <2>4. CASE ~Registered(m) /\ m # mac
      <3>1. \A i \in Slots : nodes'[i].addr # m
        BY <1>3, <1>6, <2>1, <2>4 DEF Routed
      <3>2. ~Registered(m)'
        BY <1>3, <1>8, <2>4 DEF Registered
      <3> QED
        BY <3>1, <3>2 DEF Routed
    <2> QED
      BY <2>2, <2>3, <2>4
  <1> QED
    BY <1>5, <1>7, <1>9 DEF SwitchInv

LEMMA SwitchUnchangedKeeps ==
    ASSUME SwitchInv, UNCHANGED switchVars
    PROVE  SwitchInv'
  BY DEF switchVars, SwitchInv, SwitchTypes, Filled, Routed, Registered, FirstSlot, FirstConnect

LEMMA SwitchInvImpliesSound ==
    ASSUME SwitchInv
    PROVE  RoutesSound
  <1>1. SwitchTypeOK
    BY DEF SwitchInv, SwitchTypes, SwitchTypeOK, NodeType, RouteType
  <1>2. PICK k \in 0..NumNodes : Filled(k)
    BY DEF SwitchInv
  <1>3. SlotsCounted
    <2>1. {i \in Slots : nodes[i].addr # NullMac} = 0..(k - 1)
      BY <1>2, NodesAssumption DEF Filled, Slots
    <2>2. Cardinality(0..(k - 1)) = k
      BY FS_Interval
    <2> QED
      BY <1>2, <2>1, <2>2 DEF SlotsCounted, Filled
  <1>4. ASSUME NEW mac \in Lookups
        PROVE  IF mac # NullMac /\ Registered(mac)
               THEN \E i \in DOMAIN routes :
                       FirstConnect(mac, i) /\ DestnodeByMacaddr(mac) = routes[i]
               ELSE DestnodeByMacaddr(mac) = FreeNode
    <2>1. CASE mac = NullMac
      <3>1. CASE k < NumNodes
        <4>1. FirstWith(mac) = k /\ k \in Slots /\ nodes[k].addr = NullMac
          BY <1>2, <2>1, <3>1, FreeSlotFound, NodesAssumption
          DEF FindFreeSlot, Filled, Slots
        <4> QED
          BY <2>1, <4>1 DEF DestnodeByMacaddr, DestnodeByIndex, Slots
      <3>2. CASE ~(k < NumNodes)
        <4>1. FirstWith(mac) = -1
          BY <1>2, <2>1, <3>2, FreeSlotFound DEF FindFreeSlot
        <4> QED
          BY <2>1, <4>1 DEF DestnodeByMacaddr
      <3> QED
        BY <3>1, <3>2
    <2>2. CASE mac # NullMac /\ Registered(mac)
      <3>1. mac \in Addresses
        BY <2>2 DEF Addresses
      <3>2. PICK i \in Slots, r \in DOMAIN routes :
               FirstSlot(mac, i) /\ FirstConnect(mac, r) /\ nodes[i] = routes[r]
        BY <2>2, <3>1 DEF SwitchInv, Routed
      <3>3. FirstWith(mac) = i /\ ~(i < 0)
        BY <3>2, FirstWithHit DEF Slots
      <3>4. nodes[i].addr # NullMac
        BY <2>2, <3>2 DEF FirstSlot
      <3>5. DestnodeByMacaddr(mac) = routes[r]
        BY <3>2, <3>3, <3>4 DEF DestnodeByMacaddr, DestnodeByIndex
      <3> QED
        BY <2>2, <3>2, <3>5
    <2>3. CASE mac # NullMac /\ ~Registered(mac)
      <3>1. mac \in Addresses
        BY <2>3 DEF Addresses
      <3>2. \A i \in Slots : nodes[i].addr # mac
        BY <2>3, <3>1 DEF SwitchInv, Routed
      <3>3. FirstWith(mac) = -1
        BY <3>2, FirstWithMiss
      <3> QED
        BY <2>3, <3>3 DEF DestnodeByMacaddr
    <2> QED
      BY <2>1, <2>2, <2>3
  <1>5. FirstRouteWins
    BY <1>4 DEF FirstRouteWins
  <1> QED
    BY <1>1, <1>3, <1>5 DEF RoutesSound

(* For a table of any size: the first connect of an address keeps its      *)
(* route whatever connects follow, nothing else is ever returned by a      *)
(* lookup, and n_connected covers the slots that are taken, so that        *)
(* vswitch_connect's search for a free slot finds one.                     *)
THEOREM RoutesAreSound == SwitchSpec => []RoutesSound
  <1>1. SwitchInit => SwitchInv
    BY SwitchInitEstablishes
  <1>2. SwitchInv /\ [SwitchNext]_switchVars => SwitchInv'
    BY ConnectKeeps, SwitchUnchangedKeeps DEF SwitchNext, ConnectFails
  <1>3. SwitchInv => RoutesSound
    BY SwitchInvImpliesSound
  <1> QED
    BY <1>1, <1>2, <1>3, PTL DEF SwitchSpec
-----------------------------------------------------------------------------
(***************************************************************************)
(* Ringbuffer for every size of the region: a transmitter that runs at     *)
(* most Size - 1 bytes ahead of the receiver loses and reorders nothing.   *)
(***************************************************************************)

(* A call in progress still has a byte to move; a receiver that has seen   *)
(* a byte still finds it; a transmitter between its two stores has room.   *)
ByteCallsInv ==
    /\ Len(queue) <= MaxUnread
    /\ tx.pc = "store" => Len(queue) < MaxUnread /\ tx.c \in Bytes /\ tx.left > 0
    /\ rx.pc \in {"test", "read"} => rx.left > 0
    /\ rx.pc = "read" => queue # <<>>

RegionInv == RbTypeOK /\ RegionSpellsQueue /\ ByteCallsInv

(* Offsets are at most one lap ahead, so % is a conditional subtraction.   *)
LEMMA Wrap ==
    ASSUME NEW x \in 0..(2 * Size - 1)
    PROVE  x % Size = IF x < Size THEN x ELSE x - Size
  <1>1. CASE x < Size
    BY <1>1, SizeAssumption
  <1>2. CASE x >= Size
    <2>1. x = Size * 1 + (x - Size) /\ x - Size \in 0..(Size - 1)
      BY <1>2, SizeAssumption
    <2> QED
      BY <1>2, <2>1, SizeAssumption
  <1> QED
    BY <1>1, <1>2, SizeAssumption

LEMMA NextOffWraps ==
    ASSUME NEW off \in Slot
    PROVE  /\ NextOff(off) \in Slot
           /\ NextOff(off) = IF off = Size - 1 THEN 0 ELSE off + 1
  BY SizeAssumption DEF Slot, NextOff

LEMMA InitRegionInv == RbInit => RegionInv
  BY SizeAssumption, BytesAssumption, UnreadAssumption
     DEF RbInit, RbNew, RegionInv, RbTypeOK, RegionSpellsQueue, SlotAt, ByteCallsInv, IdleTx,
         IdleRx, Slot, Byte, TxType, RxType

(* The slot of the i-th unread byte, at most one lap ahead.                *)
LEMMA SlotAtWraps ==
    ASSUME NEW off \in Slot, NEW i \in 1..Size
    PROVE  /\ SlotAt(off, i) \in Slot
           /\ off + i - 1 < Size => SlotAt(off, i) = off + i - 1
           /\ off + i - 1 >= Size => SlotAt(off, i) = off + i - 1 - Size
  <1>1. PICK x \in 0..(2 * Size - 1) : x = off + i - 1
    BY SizeAssumption DEF Slot
  <1>2. x % Size = IF x < Size THEN x ELSE x - Size
    BY Wrap
  <1>3. SlotAt(off, i) = x % Size
    BY <1>1 DEF SlotAt
  <1> QED
    BY <1>1, <1>2, <1>3, SizeAssumption DEF Slot

(* The calls that touch neither the region nor an offset.                  *)
LEMMA PrivateStep ==
    ASSUME RegionInv,
           UNCHANGED <<base, txOff, rxOff, queue>>,
           RbTypeOK', ByteCallsInv',
           tx'.pc = "store" => tx.pc = "store"
    PROVE  RegionInv'
  BY DEF RegionInv, RegionSpellsQueue

(* The first store of rb_transmit_byte does not hit an unread byte.        *)
LEMMA ClearKeeps ==
    ASSUME MaxUnread < Size, RegionInv, NEW c \in Bytes, TransmitClear(c)
    PROVE  RegionInv'
  <1> USE SizeAssumption, BytesAssumption, UnreadAssumption
  <1> DEFINE next == NextOff(txOff)
             n == Len(queue)
  <1>1. /\ txOff \in Slot /\ rxOff \in Slot /\ next \in Slot
        /\ n \in Nat /\ n < MaxUnread
        /\ base \in [Slot -> Byte]
    BY NextOffWraps DEF RegionInv, RbTypeOK, TransmitClear
  <1>2. RbTypeOK'
    <2>1. base' \in [Slot -> Byte]
      BY <1>1 DEF TransmitClear, Byte
    <2>2. tx \in TxType /\ tx' = [tx EXCEPT !.pc = "store", !.c = c]
      BY DEF TransmitClear, RegionInv, RbTypeOK
    <2>3. tx' \in TxType
      BY <2>2 DEF TxType, Byte
    <2> QED
      BY <2>1, <2>3 DEF TransmitClear, RegionInv, RbTypeOK
  <1>3. ByteCallsInv'
    BY <1>1 DEF TransmitClear, RegionInv, RbTypeOK, ByteCallsInv
  <1>4. ASSUME NEW i \in 1..n
        PROVE  SlotAt(rxOff, i) \in Slot /\ SlotAt(rxOff, i) # next
    <2>1. i \in 1..Size /\ n + 1 \in 1..Size
      BY <1>1
    <2>2. txOff = SlotAt(rxOff, n + 1)
      BY DEF RegionInv, RegionSpellsQueue
    <2>3. /\ SlotAt(rxOff, i) \in Slot
          /\ rxOff + (i) - 1 < Size => SlotAt(rxOff, i) = rxOff + (i) - 1
          /\ rxOff + (i) - 1 >= Size => SlotAt(rxOff, i) = rxOff + (i) - 1 - Size
      BY <1>1, <2>1, SlotAtWraps
    <2>4. /\ SlotAt(rxOff, n + 1) \in Slot
          /\ rxOff + (n + 1) - 1 < Size => SlotAt(rxOff, n + 1) = rxOff + (n + 1) - 1
          /\ rxOff + (n + 1) - 1 >= Size => SlotAt(rxOff, n + 1) = rxOff + (n + 1) - 1 - Size
      BY <1>1, <2>1, SlotAtWraps
    <2>5. next = IF txOff = Size - 1 THEN 0 ELSE txOff + 1
      BY <1>1, NextOffWraps
    <2> HIDE DEF next, n
    <2> QED
      BY <1>1, <2>1, <2>2, <2>3, <2>4, <2>5 DEF Slot
  <1>5. RegionSpellsQueue'
    <2>1. base' = [base EXCEPT ![next] = 0] /\ UNCHANGED <<txOff, rxOff, queue>>
      BY DEF TransmitClear
    <2>2. \A i \in 1..n : base'[SlotAt(rxOff, i)] = queue[i]
      BY <1>1, <1>4, <2>1 DEF RegionInv, RegionSpellsQueue
    <2>3. base'[txOff] = 0 /\ base'[next] = 0
      BY <1>1, <2>1 DEF RegionInv, RegionSpellsQueue
    <2> QED
      BY <2>1, <2>2, <2>3 DEF RegionInv, RegionSpellsQueue, NextOff
  <1> QED
    BY <1>2, <1>3, <1>5 DEF RegionInv

(* The second store appends the byte and leaves the terminator behind it.  *)
LEMMA StoreKeeps ==
    ASSUME MaxUnread < Size, RegionInv, TransmitStore
    PROVE  RegionInv'
  <1> USE SizeAssumption, BytesAssumption, UnreadAssumption
  <1> DEFINE next == NextOff(txOff)
             n == Len(queue)
  <1>1. /\ txOff \in Slot /\ rxOff \in Slot /\ next \in Slot
        /\ n \in Nat /\ n < MaxUnread /\ tx.c \in Bytes
        /\ base \in [Slot -> Byte] /\ queue \in Seq(Bytes)
        /\ txOff = SlotAt(rxOff, n + 1)
    BY NextOffWraps
       DEF RegionInv, RbTypeOK, ByteCallsInv, TransmitStore, RegionSpellsQueue
  <1>2. /\ queue' = Append(queue, tx.c) /\ queue' \in Seq(Bytes)
        /\ Len(queue') = n + 1
    BY <1>1 DEF TransmitStore
  <1>3. RbTypeOK'
    <2>1. base' \in [Slot -> Byte] /\ txOff' \in Slot
      BY <1>1 DEF TransmitStore, Byte
    <2>2. tx \in TxType /\ tx.left > 0
      BY DEF TransmitStore, RegionInv, RbTypeOK, ByteCallsInv
    <2>3. tx' \in TxType
      <3>1. tx.left - 1 \in Nat
        BY <2>2 DEF TxType
      <3> QED
        BY <2>2, <3>1 DEF TransmitStore, TxType
    <2> QED
      BY <1>2, <2>1, <2>3 DEF TransmitStore, RegionInv, RbTypeOK
  <1>4. ByteCallsInv'
    <2>1. tx'.pc = "next"
      BY DEF TransmitStore, RegionInv, RbTypeOK, ByteCallsInv, TxType
    <2> QED
      BY <1>1, <1>2, <2>1 DEF TransmitStore, RegionInv, RbTypeOK, ByteCallsInv
  <1>5. n + 1 \in 1..Size /\ n + 2 \in 1..Size
    BY <1>1
  <1>6. txOff' = SlotAt(rxOff, Len(queue') + 1)
    <2>1. next = SlotAt(rxOff, n + 2)
      <3>1. /\ SlotAt(rxOff, n + 1) \in Slot
            /\ rxOff + (n + 1) - 1 < Size => SlotAt(rxOff, n + 1) = rxOff + (n + 1) - 1
            /\ rxOff + (n + 1) - 1 >= Size => SlotAt(rxOff, n + 1) = rxOff + (n + 1) - 1 - Size
        BY <1>1, <1>5, SlotAtWraps
      <3>2. /\ SlotAt(rxOff, n + 2) \in Slot
            /\ rxOff + (n + 2) - 1 < Size => SlotAt(rxOff, n + 2) = rxOff + (n + 2) - 1
            /\ rxOff + (n + 2) - 1 >= Size => SlotAt(rxOff, n + 2) = rxOff + (n + 2) - 1 - Size
        BY <1>1, <1>5, SlotAtWraps
      <3>3. next = IF txOff = Size - 1 THEN 0 ELSE txOff + 1
        BY <1>1, NextOffWraps
      <3> HIDE DEF next, n
      <3> QED
        BY <1>1, <1>5, <3>1, <3>2, <3>3 DEF Slot
    <2> QED
      BY <1>1, <1>2, <2>1 DEF TransmitStore
  <1>7. ASSUME NEW i \in 1..(n + 1)
        PROVE  base'[SlotAt(rxOff, i)] = queue'[i]
    <2>1. CASE i = n + 1
      BY <1>1, <1>2, <2>1 DEF TransmitStore
    <2>2. CASE i \in 1..n
      <3>1. i \in 1..Size
        BY <1>1, <2>2
      <3>2. SlotAt(rxOff, i) \in Slot /\ SlotAt(rxOff, i) # txOff
        <4>1. /\ SlotAt(rxOff, i) \in Slot
              /\ rxOff + (i) - 1 < Size => SlotAt(rxOff, i) = rxOff + (i) - 1
              /\ rxOff + (i) - 1 >= Size => SlotAt(rxOff, i) = rxOff + (i) - 1 - Size
          BY <1>1, <3>1, SlotAtWraps
        <4>2. /\ SlotAt(rxOff, n + 1) \in Slot
              /\ rxOff + (n + 1) - 1 < Size => SlotAt(rxOff, n + 1) = rxOff + (n + 1) - 1
              /\ rxOff + (n + 1) - 1 >= Size => SlotAt(rxOff, n + 1) = rxOff + (n + 1) - 1 - Size
          BY <1>1, <1>5, SlotAtWraps
        <4> HIDE DEF n
        <4> QED
          BY <1>1, <2>2, <3>1, <4>1, <4>2 DEF Slot
      <3>3. base'[SlotAt(rxOff, i)] = base[SlotAt(rxOff, i)]
        BY <1>1, <3>2 DEF TransmitStore
      <3>4. queue'[i] = queue[i]
        BY <1>1, <1>2, <2>2
      <3> QED
        BY <2>2, <3>3, <3>4 DEF RegionInv, RegionSpellsQueue
    <2> QED
      BY <2>1, <2>2, <1>1
  <1>8. base'[txOff'] = 0
    <2>1. next # txOff /\ base[next] = 0
      BY <1>1, NextOffWraps DEF RegionInv, RegionSpellsQueue, TransmitStore, Slot
    <2> QED
      BY <1>1, <2>1 DEF TransmitStore
  <1>9. RegionSpellsQueue'
    <2>1. rxOff' = rxOff /\ tx'.pc = "next"
      BY DEF TransmitStore, RegionInv, RbTypeOK, TxType
    <2> QED
      BY <1>2, <1>6, <1>7, <1>8, <2>1 DEF RegionSpellsQueue
  <1> QED
    BY <1>3, <1>4, <1>9 DEF RegionInv

(* The receiver's second load gets the oldest byte.                        *)
LEMMA ReadKeeps ==
    ASSUME MaxUnread < Size, RegionInv, PollRead
    PROVE  /\ queue # <<>> /\ base[rxOff] = Head(queue) /\ queue' = Tail(queue)
           /\ RegionInv'
  <1> USE SizeAssumption, BytesAssumption, UnreadAssumption
  <1> DEFINE n == Len(queue)
             next == NextOff(rxOff)
  <1>1. /\ txOff \in Slot /\ rxOff \in Slot /\ next \in Slot
        /\ queue \in Seq(Bytes) /\ queue # <<>>
        /\ n \in Nat \ {0} /\ n <= MaxUnread
        /\ txOff = SlotAt(rxOff, n + 1)
    BY NextOffWraps DEF RegionInv, RbTypeOK, ByteCallsInv, PollRead, RegionSpellsQueue
  <1>2. SlotAt(rxOff, 1) = rxOff
    BY <1>1, SlotAtWraps DEF Slot
  <1>3. base[rxOff] = queue[1]
    BY <1>1, <1>2 DEF RegionInv, RegionSpellsQueue
  <1>4. base[rxOff] = Head(queue) /\ base[rxOff] \in Bytes /\ base[rxOff] # 0
    BY <1>1, <1>3
  <1>5. /\ queue' = Tail(queue) /\ queue' \in Seq(Bytes) /\ Len(queue') = n - 1
        /\ \A i \in 1..(n - 1) : queue'[i] = queue[i + 1]
    BY <1>1, <1>4 DEF PollRead
  <1>6. RbTypeOK'
    <2>1. rx.left > 0 /\ rx.left \in Nat
      BY DEF PollRead, RegionInv, RbTypeOK, ByteCallsInv, RxType
    <2>2. rx' \in RxType
      <3>1. rx' = IdleRx \/ rx' = [rx EXCEPT !.pc = "test", !.left = rx.left - 1]
        BY <1>4 DEF PollRead
      <3>2. rx \in RxType
        BY DEF RegionInv, RbTypeOK
      <3>3. rx.left - 1 \in Nat
        BY <2>1
      <3>4. CASE rx' = IdleRx
        BY <3>4 DEF RxType, IdleRx
      <3>5. CASE rx' = [rx EXCEPT !.pc = "test", !.left = rx.left - 1]
        BY <3>2, <3>3, <3>5 DEF RxType
      <3> QED
        BY <3>1, <3>4, <3>5
    <2>3. rxOff' \in Slot
      BY <1>1 DEF PollRead
    <2> QED
      BY <1>5, <2>2, <2>3 DEF PollRead, RegionInv, RbTypeOK
  <1>7. ByteCallsInv'
    <2>1. \/ rx' = IdleRx
          \/ /\ rx.left - 1 # 0
             /\ rx' = [rx EXCEPT !.pc = "test", !.left = rx.left - 1]
      BY <1>4 DEF PollRead
    <2>2. rx \in RxType /\ rx.left > 0
      BY DEF PollRead, RegionInv, RbTypeOK, ByteCallsInv
    <2>3. /\ rx'.pc \in {"test", "read"} => rx'.left > 0
          /\ rx'.pc # "read"
      <3>1. CASE rx' = IdleRx
        BY <3>1 DEF IdleRx
      <3>2. CASE rx.left - 1 # 0
                 /\ rx' = [rx EXCEPT !.pc = "test", !.left = rx.left - 1]
        <4>1. rx'.pc = "test" /\ rx'.left = rx.left - 1
          BY <2>2, <3>2 DEF RxType
        <4>2. rx.left - 1 > 0
          BY <2>2, <3>2 DEF RxType
        <4> QED
          BY <4>1, <4>2
      <3> QED
        BY <2>1, <3>1, <3>2
    <2> QED
      BY <1>1, <1>5, <2>3 DEF PollRead, RegionInv, ByteCallsInv
  <1>8. ASSUME NEW i \in 1..n PROVE SlotAt(next, i) = SlotAt(rxOff, i + 1)
    <2>1. i \in 1..Size /\ i + 1 \in 1..Size
      BY <1>1
    <2>2. /\ SlotAt(next, i) \in Slot
          /\ next + (i) - 1 < Size => SlotAt(next, i) = next + (i) - 1
          /\ next + (i) - 1 >= Size => SlotAt(next, i) = next + (i) - 1 - Size
      BY <1>1, <2>1, SlotAtWraps
    <2>3. /\ SlotAt(rxOff, i + 1) \in Slot
          /\ rxOff + (i + 1) - 1 < Size => SlotAt(rxOff, i + 1) = rxOff + (i + 1) - 1
          /\ rxOff + (i + 1) - 1 >= Size => SlotAt(rxOff, i + 1) = rxOff + (i + 1) - 1 - Size
      BY <1>1, <2>1, SlotAtWraps
    <2>4. next = IF rxOff = Size - 1 THEN 0 ELSE rxOff + 1
      BY <1>1, NextOffWraps
    <2> HIDE DEF next, n
    <2> QED
      BY <1>1, <2>1, <2>2, <2>3, <2>4 DEF Slot
  <1>9. txOff' = SlotAt(rxOff', Len(queue') + 1)
    <2>1. SlotAt(next, n) = txOff
      BY <1>1, <1>8
    <2> QED
      BY <1>1, <1>5, <2>1 DEF PollRead
  <1>10. ASSUME NEW i \in 1..(n - 1)
         PROVE  base'[SlotAt(rxOff', i)] = queue'[i]
    <2>1. i \in 1..n /\ i + 1 \in 1..n
      BY <1>1
    <2>2. base[SlotAt(rxOff, i + 1)] = queue[i + 1]
      BY <2>1 DEF RegionInv, RegionSpellsQueue
    <2> QED
      BY <1>5, <1>8, <2>1, <2>2 DEF PollRead
  <1>11. RegionSpellsQueue'
    BY <1>5, <1>9, <1>10 DEF PollRead, RegionSpellsQueue, RegionInv
  <1> QED
    BY <1>1, <1>4, <1>5, <1>6, <1>7, <1>11 DEF RegionInv

LEMMA NextRegionInv ==
    ASSUME MaxUnread < Size, RegionInv, [RbNext]_rbVars
    PROVE  RegionInv'
  <1> USE LenAssumption, BytesAssumption, UnreadAssumption
      DEF RegionInv, RbTypeOK, ByteCallsInv
  <1>1. ASSUME NEW kind \in {"string", "block"}, NEW n \in 1..MaxLen,
               TransmitCall(kind, n)
        PROVE  RegionInv'
    <2>1. tx' = [pc |-> "next", kind |-> kind, left |-> n, c |-> 0]
      BY <1>1 DEF TransmitCall, IdleTx
    <2>2. tx' \in TxType /\ tx'.pc = "next"
      BY <2>1 DEF TxType, Byte
    <2>3. RbTypeOK' /\ ByteCallsInv'
      BY <1>1, <2>2 DEF TransmitCall
    <2> QED
      BY <1>1, <2>2, <2>3, PrivateStep DEF TransmitCall
  <1>2. ASSUME TransmitReturn PROVE RegionInv'
    <2>1. RbTypeOK' /\ ByteCallsInv' /\ tx'.pc = "idle"
      BY <1>2 DEF TransmitReturn, IdleTx, Byte, TxType
    <2> QED
      BY <1>2, <2>1, PrivateStep DEF TransmitReturn
  <1>3. ASSUME TransmitZero PROVE RegionInv'
    <2>1. tx.left - 1 \in Nat
      BY <1>3 DEF TransmitZero, TxType
    <2>2. tx' \in TxType /\ tx'.pc = "next"
      BY <1>3, <2>1 DEF TransmitZero, TxType
    <2>3. RbTypeOK' /\ ByteCallsInv'
      BY <1>3, <2>2 DEF TransmitZero
    <2> QED
      BY <1>3, <2>2, <2>3, PrivateStep DEF TransmitZero
  <1>4. ASSUME NEW c \in Bytes, TransmitClear(c) PROVE RegionInv'
    BY <1>4, ClearKeeps
  <1>5. ASSUME TransmitStore PROVE RegionInv'
    BY <1>5, StoreKeeps
  <1>6. ASSUME NEW kind \in {"poll", "block"}, NEW n \in 1..MaxLen,
               ReceiveCall(kind, n)
        PROVE  RegionInv'
    <2>1. RbTypeOK' /\ ByteCallsInv'
      BY <1>6 DEF ReceiveCall, RxType
    <2> QED
      BY <1>6, <2>1, PrivateStep DEF ReceiveCall
  <1>7. ASSUME PollEmpty PROVE RegionInv'
    <2>1. RbTypeOK' /\ ByteCallsInv'
      BY <1>7 DEF PollEmpty, IdleRx, RxType
    <2> QED
      BY <1>7, <2>1, PrivateStep DEF PollEmpty
  <1>8. ASSUME PollTest PROVE RegionInv'
    <2>1. queue # <<>>
      <3>1. SlotAt(rxOff, 1) = rxOff
        BY SizeAssumption, SlotAtWraps DEF Slot
      <3>2. queue = <<>> => txOff = rxOff
        BY <3>1 DEF RegionSpellsQueue
      <3> QED
        BY <1>8, <3>2 DEF PollTest, RegionSpellsQueue
    <2>2. RbTypeOK' /\ ByteCallsInv'
      BY <1>8, <2>1 DEF PollTest, RxType
    <2> QED
      BY <1>8, <2>2, PrivateStep DEF PollTest
  <1>9. ASSUME PollRead PROVE RegionInv'
    BY <1>9, ReadKeeps
  <1>10. CASE UNCHANGED rbVars
    BY <1>10 DEF rbVars, RegionSpellsQueue, NextOff
  <1> QED
    BY <1>1, <1>2, <1>3, <1>4, <1>5, <1>6, <1>7, <1>8, <1>9, <1>10
       DEF RbNext, Transmit, Receive

(* A transmitter less than Size bytes ahead never overwrites an unread     *)
(* byte or the terminator: the region always spells the unread bytes.      *)
THEOREM RegionAlwaysSpellsQueue ==
    ASSUME MaxUnread < Size
    PROVE  RbSpec => [](RbTypeOK /\ RegionSpellsQueue)
  <1>1. RbInit => RegionInv
    BY InitRegionInv
  <1>2. RegionInv /\ [RbNext]_rbVars => RegionInv'
    BY NextRegionInv
  <1>3. RegionInv => RbTypeOK /\ RegionSpellsQueue
    BY DEF RegionInv
  <1> QED
    BY <1>1, <1>2, <1>3, PTL DEF RbSpec

(* The receiver then gets every byte exactly once, in the order sent, for  *)
(* every size of the region.                                               *)
THEOREM AlwaysReceivesInOrder ==
    ASSUME MaxUnread < Size
    PROVE  RbSpec => ReceivesInOrder
  <1> DEFINE InOrder == rx.pc = "read" /\ rxOff' # rxOff
                          => /\ queue # <<>>
                             /\ base[rxOff] = Head(queue)
                             /\ queue' = Tail(queue)
  <1>1. RbInit => RegionInv
    BY InitRegionInv
  <1>2. RegionInv /\ [RbNext]_rbVars => RegionInv'
    BY NextRegionInv
  <1>3. RegionInv /\ [RbNext]_rbVars => [InOrder]_rbVars
    <2> SUFFICES ASSUME RegionInv, RbNext PROVE InOrder
      OBVIOUS
    <2>1. CASE PollRead
      BY <2>1, ReadKeeps
    <2>2. CASE ~PollRead
      <3>1. rxOff' = rxOff
        BY <2>2 DEF RbNext, Transmit, Receive, TransmitCall, TransmitReturn,
           TransmitZero, TransmitClear, TransmitStore, ReceiveCall, PollEmpty,
           PollTest
      <3> QED
        BY <3>1
    <2> QED
      BY <2>1, <2>2
  <1> QED
    BY <1>1, <1>2, <1>3, PTL DEF RbSpec, ReceivesInOrder
=============================================================================
