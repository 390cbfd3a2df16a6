----------------------------- MODULE Virtqueue -----------------------------
(***************************************************************************)
(* libvirtqueue: one driver and one device exchanging scatter lists of     *)
(* buffers through three structures in shared memory, the descriptor       *)
(* table, the available ring and the used ring.                            *)
(*                                                                         *)
(* The two sides run concurrently.  A library call is split at every store *)
(* to, and every load from, shared memory that the other side can observe, *)
(* in program order; private assignments ride on the step they follow.     *)
(* The interleaving is sequentially consistent: the code has no barriers   *)
(* and leaves their placement to the platform and to the notify callbacks. *)
(*                                                                         *)
(* The clients follow the README's use case: the driver opens an entry,    *)
(* chains buffers under it, and later pops used entries; the device takes  *)
(* entries, walks all their buffers and returns them, in any order.        *)
(***************************************************************************)
EXTENDS Integers, Sequences, FiniteSets

CONSTANTS
    QueueLen,     \* queue_len: entries in each ring and in the table
    MaxInFlight,  \* entries the driver's client keeps outstanding at most
    MaxChain,     \* buffers the driver's client chains under one entry
    Bufs,         \* the buffers: address, length and flags are one value
    NullBuf,      \* addr = 0, the content of a never used descriptor
    DrvObjs,      \* ring objects with which the driver builds entries
    DevObjs,      \* ring objects with which the device holds entries
    Eager         \* TRUE: the device polls; FALSE: one notify per full entry

ASSUME QueueLenAssumption == QueueLen \in Nat \ {0}
ASSUME PowerOf2Assumption == \E k \in 0..15 : QueueLen = 2^k
ASSUME InFlightAssumption == MaxInFlight \in Nat \ {0}
ASSUME ChainAssumption == MaxChain \in Nat \ {0}
ASSUME BufAssumption == NullBuf \notin Bufs
ASSUME ObjAssumption == IsFiniteSet(DevObjs)
ASSUME EagerAssumption == Eager \in BOOLEAN

VARIABLES
    desc,        \* desc_table[]: buf and next; next = queue_len ends a list
    availIdx, availRing,  \* the available ring
    usedIdx, usedRing,    \* the used ring: id and len
    freeHead,    \* driver: free_desc_head
    uLast,       \* driver: u_ring_last_seen
    aLast,       \* device: a_ring_last_seen
    obj,         \* driver: the ring objects being built
    uobj,        \* driver: the ring object being popped
    drv,         \* driver: the step inside the library call in progress
    robj,        \* device: its ring objects, with the length gathered so far
    dev,         \* device: the step inside the library call in progress
    inFlight,    \* entries published and not yet wholly popped
    \* History variables, read by no guard of the library's steps.
    free,        \* the free descriptors, in free list order
    chain,       \* chain[h]: what the driver chained under the entry headed h
    popping      \* the rest of the entry that uobj walks

shared == <<desc, availIdx, availRing, usedIdx, usedRing>>
driver == <<freeHead, uLast, obj, uobj, drv, inFlight>>
device == <<aLast, robj, dev>>
history == <<free, chain, popping>>
vars == <<shared, driver, device, history>>

Desc == 0..(QueueLen - 1)
End == QueueLen

\* (uint32_t)-1, and everything else that no index or list end can equal
Unset == QueueLen + 1

Index == Desc \cup {End, Unset}

\* (i + 1) & (queue_len - 1), for a power of two
Succ(i) == (i + 1) % QueueLen

NullObj == [cur |-> Unset, first |-> Unset]
IdleDrv == [pc |-> "idle", obj |-> NullBuf, idx |-> Unset]
NullRobj == [cur |-> Unset, first |-> Unset, len |-> 0]
IdleDev == [pc |-> "idle", obj |-> NullBuf]

Link(d, b) == [d |-> d, buf |-> b]
Rest(s) == SubSeq(s, 2, Len(s))
-----------------------------------------------------------------------------
(* virtqueue_init_driver, then virtqueue_init_device, before any traffic.  *)
InitDesc == desc = [d \in Desc |-> [buf |-> NullBuf, next |-> d + 1]]

InitDriver ==
    /\ freeHead = 0
    /\ uLast = QueueLen - 1
    /\ InitDesc
    /\ availIdx = 0
    /\ availRing = [i \in Desc |-> 0]
    /\ usedIdx = 0
    /\ usedRing = [i \in Desc |-> [id |-> 0, len |-> 0]]

InitDevice == aLast = QueueLen - 1

Init ==
    /\ InitDriver
    /\ InitDevice
    /\ obj = [o \in DrvObjs |-> NullObj]
    /\ uobj = NullObj
    /\ drv = IdleDrv
    /\ robj = [r \in DevObjs |-> NullRobj]
    /\ dev = IdleDev
    /\ inFlight = 0
    /\ free = [i \in 1..QueueLen |-> i - 1]
    /\ chain = [d \in Desc |-> <<>>]
    /\ popping = <<>>
-----------------------------------------------------------------------------
(* Driver: virtqueue_add_available_buf(obj, buf).                          *)

\* The client may start an entry, or chain one more buffer to an open one.
MayAdd(o) ==
    IF obj[o].first = Unset
    THEN inFlight < MaxInFlight
    ELSE Len(chain[obj[o].first]) < MaxChain

\* vq_add_desc, up to the link: the descriptor comes off the free list and is
\* filled while only the driver can reach it.
AddDesc(o, b) ==
    /\ drv.pc = "idle"
    /\ MayAdd(o)
    /\ freeHead # End
    /\ freeHead' = desc[freeHead].next
    /\ desc' = [desc EXCEPT ![freeHead] = [buf |-> b, next |-> End]]
    /\ drv' = [pc |-> "link", obj |-> o, idx |-> freeHead]
    /\ free' = Rest(free)
    /\ UNCHANGED <<availIdx, availRing, usedIdx, usedRing, uLast, obj, uobj,
                   inFlight, device, chain, popping>>

\* vq_add_desc finds the table full: virtqueue_add_available_buf returns 0.  An
\* entry already open stays published with what it has; the client lets go.
AddDescFull(o) ==
    /\ drv.pc = "idle"
    /\ MayAdd(o)
    /\ freeHead = End
    /\ obj[o].first # Unset
    /\ obj' = [obj EXCEPT ![o] = NullObj]
    /\ UNCHANGED <<shared, freeHead, uLast, uobj, drv, inFlight, device,
                   history>>

\* A later buffer of the entry: it becomes reachable with desc[prev].next.
LinkDesc ==
    LET o == drv.obj
        prev == obj[o].cur
    IN  /\ drv.pc = "link"
        /\ obj[o].first # Unset
        /\ desc' = [desc EXCEPT ![prev].next = drv.idx]
        /\ obj' = [obj EXCEPT ![o].cur = drv.idx]
        /\ chain' = [chain EXCEPT ![obj[o].first] =
                        Append(@, Link(drv.idx, desc[drv.idx].buf))]
        /\ drv' = IdleDrv
        /\ UNCHANGED <<availIdx, availRing, usedIdx, usedRing, freeHead, uLast,
                       uobj, inFlight, device, free, popping>>

\* The first buffer of the entry: store it in the ring ...
AvailSlot ==
    LET o == drv.obj
    IN  /\ drv.pc = "link"
        /\ obj[o].first = Unset
        /\ obj' = [obj EXCEPT ![o] = [cur |-> drv.idx, first |-> drv.idx]]
        /\ availRing' = [availRing EXCEPT ![availIdx] = drv.idx]
        /\ drv' = [drv EXCEPT !.pc = "publish"]
        /\ UNCHANGED <<desc, availIdx, usedIdx, usedRing, freeHead, uLast, uobj,
                       inFlight, device, history>>

\* Mutant: the index is not masked.
MutAvailPublish ==
    /\ drv.pc = "publish"
    /\ availIdx' = availIdx + 1
    /\ inFlight' = inFlight + 1
    /\ chain' = [chain EXCEPT ![drv.idx] =
                    <<Link(drv.idx, desc[drv.idx].buf)>>]
    /\ drv' = IdleDrv
    /\ UNCHANGED <<desc, availRing, usedIdx, usedRing, freeHead, uLast, obj,
                   uobj, device, free, popping>>

\* ... and publish it by moving the index; the call returns 1.
AvailPublish ==
    /\ drv.pc = "publish"
    /\ availIdx' = Succ(availIdx)
    /\ inFlight' = inFlight + 1
    /\ chain' = [chain EXCEPT ![drv.idx] =
                    <<Link(drv.idx, desc[drv.idx].buf)>>]
    /\ drv' = IdleDrv
    /\ UNCHANGED <<desc, availRing, usedIdx, usedRing, freeHead, uLast, obj,
                   uobj, device, free, popping>>

\* virtqueue_init_ring_object: the entry is complete, the device is notified
\* and the object is ready for the next entry.
InitRingObject(o) ==
    /\ drv.pc = "idle"
    /\ obj[o].first # Unset
    /\ obj' = [obj EXCEPT ![o] = NullObj]
    /\ UNCHANGED <<shared, freeHead, uLast, uobj, drv, inFlight, device,
                   history>>
-----------------------------------------------------------------------------
(* Driver: virtqueue_get_used_buf, then virtqueue_gather_used until 0.     *)

\* Mutant: the test starts one entry too late.
MutGetUsedPoll ==
    /\ drv.pc = "idle"
    /\ uobj.first = Unset
    /\ Succ(uLast) # usedIdx
    /\ Succ(Succ(uLast)) # usedIdx
    /\ drv' = [IdleDrv EXCEPT !.pc = "used"]
    /\ UNCHANGED <<shared, freeHead, uLast, obj, uobj, inFlight, device,
                   history>>

\* The emptiness test of VQ_DRV_POLL.  A call on an empty ring changes nothing.
GetUsedPoll ==
    /\ drv.pc = "idle"
    /\ uobj.first = Unset
    /\ Succ(uLast) # usedIdx
    /\ drv' = [IdleDrv EXCEPT !.pc = "used"]
    /\ UNCHANGED <<shared, freeHead, uLast, obj, uobj, inFlight, device,
                   history>>

\* Mutant: u_ring_last_seen is not advanced.
MutGetUsedTake ==
    LET next == Succ(uLast)
        id == usedRing[next].id
    IN  /\ drv.pc = "used"
        /\ uobj' = [cur |-> id, first |-> id]
        /\ drv' = IdleDrv
        /\ popping' = chain[id]
        /\ chain' = [chain EXCEPT ![id] = <<>>]
        /\ UNCHANGED <<shared, freeHead, uLast, obj, inFlight, device, free>>

GetUsedTake ==
    LET next == Succ(uLast)
        id == usedRing[next].id
    IN  /\ drv.pc = "used"
        /\ uobj' = [cur |-> id, first |-> id]
        /\ uLast' = next
        /\ drv' = IdleDrv
        /\ popping' = chain[id]
        /\ chain' = [chain EXCEPT ![id] = <<>>]
        /\ UNCHANGED <<shared, freeHead, obj, inFlight, device, free>>

\* Mutant: the popped descriptor does not point to the old free list.
MutGatherUsed ==
    LET idx == uobj.cur
    IN  /\ drv.pc = "idle"
        /\ idx < QueueLen
        /\ uobj' = [uobj EXCEPT !.cur = desc[idx].next]
        /\ freeHead' = idx
        /\ free' = <<idx>> \o free
        /\ popping' = Rest(popping)
        /\ UNCHANGED <<shared, uLast, obj, drv, inFlight, device, chain>>

\* virtqueue_gather_used with vq_pop_desc: the descriptor is freed.
GatherUsed ==
    LET idx == uobj.cur
    IN  /\ drv.pc = "idle"
        /\ idx < QueueLen
        /\ uobj' = [uobj EXCEPT !.cur = desc[idx].next]
        /\ desc' = [desc EXCEPT ![idx].next = freeHead]
        /\ freeHead' = idx
        /\ free' = <<idx>> \o free
        /\ popping' = Rest(popping)
        /\ UNCHANGED <<availIdx, availRing, usedIdx, usedRing, uLast, obj, drv,
                       inFlight, device, chain>>

\* virtqueue_gather_used returns 0: the whole entry has been popped.
GatherUsedEnd ==
    /\ drv.pc = "idle"
    /\ uobj.first # Unset
    /\ uobj.cur >= QueueLen
    /\ uobj' = NullObj
    /\ inFlight' = inFlight - 1
    /\ UNCHANGED <<shared, freeHead, uLast, obj, drv, device, history>>
-----------------------------------------------------------------------------
(* Device: virtqueue_get_available_buf, virtqueue_gather_available until 0, *)
(* virtqueue_add_used_buf.                                                  *)

\* The entry the device would take is one the driver is still building.
NextIsOpen == \E o \in DrvObjs : obj[o].first = availRing[Succ(aLast)]

\* The emptiness test of VQ_DEV_POLL.
GetAvailPoll(r) ==
    /\ dev.pc = "idle"
    /\ robj[r].first = Unset
    /\ Succ(aLast) # availIdx
    /\ Eager \/ ~NextIsOpen
    /\ dev' = [pc |-> "take", obj |-> r]
    /\ UNCHANGED <<shared, driver, aLast, robj, history>>

\* Mutant: the last seen slot is read instead of the next one.
MutGetAvailTake ==
    LET next == Succ(aLast)
        id == availRing[aLast]
    IN  /\ dev.pc = "take"
        /\ robj' = [robj EXCEPT ![dev.obj] =
                       [cur |-> id, first |-> id, len |-> 0]]
        /\ aLast' = next
        /\ dev' = IdleDev
        /\ UNCHANGED <<shared, driver, history>>

GetAvailTake ==
    LET next == Succ(aLast)
        id == availRing[next]
    IN  /\ dev.pc = "take"
        /\ robj' = [robj EXCEPT ![dev.obj] =
                       [cur |-> id, first |-> id, len |-> 0]]
        /\ aLast' = next
        /\ dev' = IdleDev
        /\ UNCHANGED <<shared, driver, history>>

\* One buffer read; its length (1 here) adds to what the device will report.
GatherAvailable(r) ==
    LET idx == robj[r].cur
    IN  /\ dev.pc = "idle"
        /\ idx < QueueLen
        /\ robj' = [robj EXCEPT ![r] = [cur |-> desc[idx].next,
                                        first |-> @.first, len |-> @.len + 1]]
        /\ UNCHANGED <<shared, driver, aLast, dev, history>>

\* Mutant: the entry is returned before the end of its list is reached.
MutAddUsedSlot(r) ==
    /\ dev.pc = "idle"
    /\ robj[r].first # Unset
    /\ usedRing' = [usedRing EXCEPT ![usedIdx] =
                       [id |-> robj[r].first, len |-> robj[r].len]]
    /\ dev' = [pc |-> "publish", obj |-> r]
    /\ UNCHANGED <<desc, availIdx, availRing, usedIdx, driver, aLast, robj,
                   history>>

\* Gathering returned 0: the entry goes into the used ring ...
AddUsedSlot(r) ==
    /\ dev.pc = "idle"
    /\ robj[r].first # Unset
    /\ robj[r].cur >= QueueLen
    /\ usedRing' = [usedRing EXCEPT ![usedIdx] =
                       [id |-> robj[r].first, len |-> robj[r].len]]
    /\ dev' = [pc |-> "publish", obj |-> r]
    /\ UNCHANGED <<desc, availIdx, availRing, usedIdx, driver, aLast, robj,
                   history>>

\* ... and is published by the index.  The call has no failure: it returns 1.
AddUsedPublish ==
    /\ dev.pc = "publish"
    /\ usedIdx' = Succ(usedIdx)
    /\ robj' = [robj EXCEPT ![dev.obj] = NullRobj]
    /\ dev' = IdleDev
    /\ UNCHANGED <<desc, availIdx, availRing, usedRing, driver, aLast, history>>
-----------------------------------------------------------------------------
Add == \/ \E o \in DrvObjs : \/ \E b \in Bufs : AddDesc(o, b)
                             \/ AddDescFull(o)
                             \/ InitRingObject(o)
       \/ LinkDesc
       \/ AvailSlot
       \/ AvailPublish

Pop == GetUsedPoll \/ GetUsedTake \/ GatherUsed \/ GatherUsedEnd

Serve == \/ \E r \in DevObjs : \/ GetAvailPoll(r)
                               \/ GatherAvailable(r)
                               \/ AddUsedSlot(r)
         \/ GetAvailTake
         \/ AddUsedPublish

Next == Add \/ Pop \/ Serve

Spec == Init /\ [][Next]_vars
-----------------------------------------------------------------------------
(* virtqueue_scattered_available_size: the lengths of a list, summed.  A   *)
(* list that never ends makes the C loop forever; here it would count      *)
(* QueueLen + 1 buffers, more than there are.                              *)
SizeOf[n \in 0..(QueueLen + 1)] ==
    [cur \in Index |->
        IF n > 0 /\ cur < QueueLen THEN 1 + SizeOf[n - 1][desc[cur].next] ELSE 0]

ScatteredAvailableSize(first) == SizeOf[QueueLen + 1][first]
-----------------------------------------------------------------------------
(* Where an entry can be.                                                  *)

\* Entries between a reader's last seen index and the writer's index
Pending(last, idx) ==
    IF idx > last THEN idx - last - 1 ELSE idx - last - 1 + QueueLen

\* The k-th entry after a reader's last seen index
After(last, k) == (last + k) % QueueLen

Avail(k) == availRing[After(aLast, k)]
Used(k) == usedRing[After(uLast, k)]

NAvail == Pending(aLast, availIdx)
NUsed == Pending(uLast, usedIdx)
Held == {r \in DevObjs : robj[r].first # Unset}

AvailHeads == {Avail(k) : k \in 1..NAvail}
HeldHeads == {robj[r].first : r \in Held}
UsedHeads == {Used(k).id : k \in 1..NUsed}
Heads == {h \in Desc : chain[h] # <<>>}

FreeDescs == {free[i] : i \in DOMAIN free}
DescsOf(s) == {s[i].d : i \in DOMAIN s}
AddingDescs == IF drv.pc \in {"link", "publish"} THEN {drv.idx} ELSE {}

\* s is a list in the table that starts at index i
Linked(s, i) ==
    /\ i = (IF s = <<>> THEN End ELSE s[1].d)
    /\ \A k \in DOMAIN s :
          /\ desc[s[k].d].buf = s[k].buf
          /\ desc[s[k].d].next = (IF k = Len(s) THEN End ELSE s[k + 1].d)
-----------------------------------------------------------------------------
DescType == [buf : Bufs \cup {NullBuf}, next : Desc \cup {End}]
LinkType == [d : Desc, buf : Bufs \cup {NullBuf}]
BuildType == {NullObj} \cup [cur : Desc, first : Desc]
ObjType == [cur : Index, first : Desc \cup {Unset}]
RobjType == [cur : Index, first : Desc \cup {Unset}, len : Nat]
DrvType == [pc : {"idle", "link", "publish", "used"},
            obj : DrvObjs \cup {NullBuf}, idx : Desc \cup {Unset}]
DevType == [pc : {"idle", "take", "publish"}, obj : DevObjs \cup {NullBuf}]

(* Every variable keeps its type; in particular no ring slot, free list    *)
(* head or ring object ever leaves the table (all accesses in virtqueue.c  *)
(* are unchecked array accesses).                                          *)
TypeOK ==
    /\ desc \in [Desc -> DescType]
    /\ availIdx \in Desc /\ availRing \in [Desc -> Desc]
    /\ usedIdx \in Desc /\ usedRing \in [Desc -> [id : Desc, len : Nat]]
    /\ freeHead \in Desc \cup {End}
    /\ uLast \in Desc /\ aLast \in Desc
    /\ obj \in [DrvObjs -> BuildType]
    /\ uobj \in ObjType
    /\ drv \in DrvType
    /\ robj \in [DevObjs -> RobjType]
    /\ dev \in DevType
    /\ inFlight \in Int
    /\ free \in Seq(Desc)
    /\ chain \in [Desc -> Seq(LinkType)]
    /\ popping \in Seq(LinkType)

(* An entry that virtqueue_add_available_buf accepted stays accounted for  *)
(* by the cursors: what the two rings show as pending, what the device     *)
(* holds and what the driver pops add up to the entries in flight.  This   *)
(* is what "0 on failure (ring full)" is meant to guarantee.               *)
AcceptedVisible ==
    inFlight = NAvail + Cardinality(Held) + NUsed
                 + (IF uobj.first = Unset THEN 0 ELSE 1)

(* No entry is lost, duplicated or forged between the two rings: the heads *)
(* the rings and the device hold are exactly those of the chains the       *)
(* driver built, each in one place.                                        *)
EntryConservation ==
    /\ AvailHeads \cup HeldHeads \cup UsedHeads = Heads
    /\ NAvail + Cardinality(Held) + NUsed = Cardinality(Heads)

(* Every descriptor is in exactly one place: the free list, one entry in   *)
(* flight, the entry being popped, or the call that is adding it.          *)
DescriptorPartition ==
    LET inChains == UNION {DescsOf(chain[h]) : h \in Heads}
        parts == <<FreeDescs, inChains, DescsOf(popping), AddingDescs>>
    IN  /\ UNION {parts[i] : i \in 1..4} = Desc
        /\ \A i, j \in 1..4 : i # j => parts[i] \cap parts[j] = {}
        /\ \A g, h \in Heads :
              g # h => DescsOf(chain[g]) \cap DescsOf(chain[h]) = {}
        /\ Cardinality(FreeDescs) = Len(free)

(* The next fields spell the lists they should: the free list is intact    *)
(* and every entry in flight, or being popped, links the buffers the       *)
(* driver added, in order, and ends.                                       *)
ListsIntact ==
    /\ Linked([i \in DOMAIN free |-> Link(free[i], desc[free[i]].buf)], freeHead)
    /\ \A h \in Heads : Linked(chain[h], h)
    /\ uobj.first # Unset => Linked(popping, uobj.cur)

(* The device's iterator never leaves its entry: after n buffers it stands *)
(* at the n+1st the driver chained, or at the end, so it reads no          *)
(* descriptor that is free or belongs to another entry.                    *)
IteratorInside ==
    \A r \in Held :
       LET c == chain[robj[r].first]
       IN  /\ robj[r].len <= Len(c)
           /\ robj[r].cur =
                 (IF robj[r].len = Len(c) THEN End ELSE c[robj[r].len + 1].d)

(* virtqueue_scattered_available_size of an entry the device holds counts  *)
(* what the driver chained: it walks the list to its end and no further.   *)
SizeRight ==
    \A r \in Held :
       ScatteredAvailableSize(robj[r].first) = Len(chain[robj[r].first])

(* "The device uses the handle to pop all the buffers linked to it": what  *)
(* the device reports in the used ring covers the whole chain, and stays   *)
(* so until the driver takes the entry back.                               *)
UsedComplete == \A k \in 1..NUsed : Used(k).len = Len(chain[Used(k).id])

(* Nothing is lost or duplicated on the way round: entries between the two *)
(* rings, descriptors between the lists, and the links of every list.      *)
Conservation == EntryConservation /\ DescriptorPartition /\ ListsIntact

(* The device serves exactly the buffers the driver chained: it stays in   *)
(* the entry while it iterates or sums it up, and reports all of it.       *)
ServedWhole == IteratorInside /\ SizeRight /\ UsedComplete
-----------------------------------------------------------------------------
(* The queue a client may rely on: entries are lists of buffers, taken and *)
(* returned in the order of the two rings.                                 *)
BufsOf(s) == [i \in DOMAIN s |-> s[i].buf]

A == INSTANCE AbstractVirtqueue WITH
        avail <- [k \in 1..NAvail |-> BufsOf(chain[Avail(k)])],
        held <- [r \in DevObjs |-> IF r \in Held
                                   THEN BufsOf(chain[robj[r].first])
                                   ELSE <<>>],
        used <- [k \in 1..NUsed |-> BufsOf(chain[Used(k).id])]

(* The rings implement the abstract queue: each publication of an index is *)
(* one abstract step, every other step changes nothing a client can see.   *)
RefinesQueue == A!Spec
-----------------------------------------------------------------------------
(* Fairness: both clients are loops that serve every notification.  A call *)
(* once begun finishes; the driver finishes the entries it opens and comes *)
(* back to the used ring, the device to each object it holds, whatever     *)
(* else they do in between (strong fairness: each side is one thread, so   *)
(* another call in progress disables these steps for a while).             *)
ServeObj(r) ==
    \/ GetAvailPoll(r) \/ GatherAvailable(r) \/ AddUsedSlot(r)
    \/ dev.obj = r /\ (GetAvailTake \/ AddUsedPublish)

Fairness ==
    /\ WF_vars(LinkDesc \/ AvailSlot \/ AvailPublish)
    /\ \A o \in DrvObjs : SF_vars(InitRingObject(o))
    /\ SF_vars(Pop)
    /\ \A r \in DevObjs : SF_vars(ServeObj(r))

FairSpec == Spec /\ Fairness

(* Every published entry comes back to the driver.                         *)
EveryEntryReturns == \A h \in Desc : (chain[h] # <<>>) ~> (chain[h] = <<>>)
=============================================================================
