----------------------------- MODULE EhciProofs -----------------------------
(***************************************************************************)
(* Proofs about EhciAsync, for any number of queue heads and transfer      *)
(* descriptors and any instance: the controller and the two threads share  *)
(* the ring and the queues without harm, outside the named races.          *)
(***************************************************************************)
EXTENDS EhciAsync, FiniteSetTheorems, SequenceTheorems, WellFoundedInduction, TLAPS

(* The inductive invariant.                                                *)

Pending == {q \in Heads : qh[q] = "pending"}
Known(q) == q \in Heads /\ qh[q] # "none"

\* What holds whatever goes wrong: links lead to queue heads that were
\* allocated, and the list of removed ones is in the order of their removal.
Links ==
    /\ \A q \in Heads : qh[q] # "none" => Known(qhlptr[q])
    /\ \A q \in Heads : next[q] # Null => Known(next[q])
    /\ tail # Null => Known(tail)
    /\ hw.at = Null => tail = Null /\ \A q \in Heads : qh[q] = "none"
    /\ hw.at # Null => Known(hw.at) /\ Known(hw.ahead)

Removed ==
    /\ ToSet(db_pending) = Pending
    /\ \A q \in Pending : was_cancelled[q] \in {1, 2}
    /\ \A i, j \in DOMAIN db_pending :
          i < j => was_cancelled[db_pending[i]] >= was_cancelled[db_pending[j]]

\* The ring that both threads mean: L leads from each queue head to the next.
\* One that is being added is not in it yet, one that is being removed still is,
\* and the links differ from L where a thread has already changed them.
Settled == InRing \ (IF Adding THEN {c.q} ELSE {})
Cyclic(L) ==
    /\ L \in [Settled -> Settled]
    /\ \A p, q \in Settled : L[p] = L[q] => p = q
    /\ \A q \in Settled : \E p \in Settled : L[p] = q
Soft(L, x) ==
    IF c.pc = "tail" /\ x = tail THEN c.q
    ELSE IF h.pc \in {"retail", "pend"} /\ x = h.prev THEN L[h.q] ELSE L[x]
Hard(L, x) ==
    IF c.pc \in {"sw", "splice", "tail"} /\ x = tail THEN c.q
    ELSE IF h.pc \in {"unlink", "retail", "pend"} /\ x = h.prev THEN L[h.q] ELSE L[x]
Joins(L) ==
    Adding => /\ c.q \in InRing /\ tail \in Settled /\ qhlptr[c.q] = L[tail]
              /\ c.pc \in {"splice", "tail"} => next[c.q] = L[tail]
Leaves(L) ==
    Removing => /\ h.q \in Settled /\ h.prev \in Settled /\ L[h.prev] = h.q
                /\ h.pc = "pend" => tail # h.q \/ L[h.q] = h.q
                /\ Adding => tail \notin {h.prev, h.q}
TailIn == tail \in Settled \/ (tail = Null /\ \A q \in Heads : qh[q] = "none")
RingOf(L) ==
    /\ Cyclic(L) /\ Joins(L) /\ Leaves(L)
    /\ \A x \in Settled : next[x] = Soft(L, x) /\ qhlptr[x] = Hard(L, x)

\* The ring, up to the moment it is emptied or torn: a queue head that was removed
\* leads back to it, by way of others removed no earlier.
LeadsBack ==
    \A q \in Pending : \/ qhlptr[q] \in InRing
                        \/ /\ qhlptr[q] \in Pending
                           /\ was_cancelled[q] >= was_cancelled[qhlptr[q]]
Ringed == TailIn /\ LeadsBack /\ \E L \in [Settled -> Settled] : RingOf(L)

\* The controller has answered, and the handler has still to look.
Answered == "adv" \in usbsts /\ ~(h.pc = "clear" /\ "adv" \in h.sts)

\* The two answers a removed queue head waits for.  After the first one the
\* controller may still be on it, after the second it is not.
Doorbells ==
    /\ \A q \in Pending : "adv" \in usbsts \/ was_cancelled[q] = 2 => q \in hw.old
    /\ Answered => \A q \in Pending :
                      was_cancelled[q] = 2 => hw.at # q /\ hw.ahead # q

\* The status bits that the handler has read stay set until it clears them, what
\* it removes stays in the ring until it is done, and its walk stays on the ring.
Cancelling == h.pc \in {"halt", "cut", "unlink", "retail", "pend"}
Passable == Settled \cup (IF c.pc = "tail" THEN {c.q} ELSE {})
HandlerInv ==
    /\ h.sts \subseteq usbsts
    /\ h.pc = "doorbell" => "adv" \in h.sts
    /\ Cancelling => h.q \in InRing /\ h.q \in gone
    /\ Removing => h.prev \in InRing
    /\ Clean({"emptied", "torn"}) => (h.pc = "walk" => h.q \in Passable)
    /\ Clean({"crossed"}) =>
          /\ Cancelling /\ c.q = h.q => c.pc \in {"idle", "walk"}
          /\ h.pc = "halt" /\ h.td # Null => h.td \in ToSet(tdns[h.q])

\* The client works on a device that was there when the call started.
Busy == c.pc # "idle"
Fresh == Adding \/ c.pc \in {"drain", "test", "lock", "link"}
Linked == c.pc \in {"activate", "read", "wait"}
AtEnd == \* the TDs of the client are the last ones of the queue
    /\ Len(c.tds) <= Len(tdns[c.q])
    /\ \A i \in DOMAIN c.tds : c.tds[i] = tdns[c.q][Len(tdns[c.q]) - Len(c.tds) + i]
Serving ==
    /\ Busy => Known(c.q) /\ c.tds # <<>>
    /\ Clean({"crossed"}) => (c.pc \notin {"idle", "walk"} => c.q \in InRing)
Prepared ==
    Fresh => /\ \A i \in DOMAIN c.tds : td[c.tds[i]].status = "off"
             /\ \A q \in Heads : ToSet(c.tds) \cap ToSet(tdns[q]) = {}
             /\ \A i \in DOMAIN c.tds :
                   td[c.tds[i]].next = IF i < Len(c.tds) THEN c.tds[i + 1] ELSE Null
Distinct ==
    Fresh \/ c.pc = "activate" =>
        /\ \A i, j \in DOMAIN c.tds : i # j => c.tds[i] # c.tds[j]
        /\ \A i \in DOMAIN c.tds : i < Len(c.tds) => ~td[c.tds[i]].ioc
Activating ==
    c.pc = "activate" => /\ AtEnd
                         /\ \/ td[Last(c.tds)].status = "off"
                            \/ qh[c.q] = "freed" /\ td[Last(c.tds)].status = "freed"
Found ==
    /\ c.pc = "link" => tdns[c.q] # <<>>
    /\ Clean({"crossed"}) => /\ c.pc = "lock" => tdns[c.q] # <<>>
                             /\ Linked => ToSet(c.tds) \subseteq ToSet(tdns[c.q])
Walking == Clean({"crossed", "emptied", "torn"}) => (c.pc = "walk" => c.at \in InRing)
ClientInv == Serving /\ Prepared /\ Distinct /\ Activating /\ Found /\ Walking

\* The TDs: those in use are the first ones, each queue has its own, in a chain,
\* and none that was freed.
Counted == \E k \in 0..MaxTds : Used = 1..k
Chained(q) ==
    \A i \in DOMAIN tdns[q] :
        /\ td[tdns[q][i]].status \notin {"unused", "freed"}
        /\ td[tdns[q][i]].next = IF i < Len(tdns[q]) THEN tdns[q][i + 1] ELSE Null
OwnQueue(q) ==
    /\ qh[q] = "none" => tdns[q] = <<>>
    /\ ToSet(tdns[q]) \subseteq Used
    /\ \A i, j \in DOMAIN tdns[q] : i # j => tdns[q][i] # tdns[q][j]
    /\ qh[q] # "freed" => Chained(q)
Apart == \A q, r \in Heads : q # r => ToSet(tdns[q]) \cap ToSet(tdns[r]) = {}
Owned == Counted /\ Apart /\ \A q \in Heads : OwnQueue(q)

\* A callback has been called if and only if its TD was freed.
Telling ==
    \A t \in Tds : /\ td[t].status # "freed" => told[t] = "nothing"
                   /\ td[t].status = "freed" /\ td[t].cb => told[t] # "nothing"
                   /\ told[t] # "twice"

\* What the controller does with a queue, of which it has finished p TDs.
ToDo(q, p) == \A i \in DOMAIN tdns[q] : i > p => td[tdns[q][i]].status \in {"off", "active", "halted"}
LeadsTo(q, p) ==
    LET n == overlay[q].next
    IN  \/ n = Null
        \/ p < Len(tdns[q]) /\ n = tdns[q][p + 1]
        \/ p = Len(tdns[q]) /\ c.pc = "link" /\ c.q = q /\ n = Head(c.tds)
Works(q, p) ==
    /\ \A i \in 1..p : td[tdns[q][i]].status = "done"
    /\ overlay[q].status = "done" =>
          /\ \A i \in DOMAIN tdns[q] : tdns[q][i] = overlay[q].cur => i = p
          /\ ToDo(q, p) /\ LeadsTo(q, p)
    /\ overlay[q].status # "done" => p < Len(tdns[q]) /\ overlay[q].cur = tdns[q][p + 1]
    /\ overlay[q].status = "active" => ToDo(q, p) /\ LeadsTo(q, p + 1)
    /\ overlay[q].status = "error" =>
          /\ td[tdns[q][p + 1]].status = "error"
          /\ ToDo(q, p + 1)
QueueWorks(q) ==
    /\ \E p \in 0..Len(tdns[q]) : Works(q, p)
    /\ \/ overlay[q].cur = Null \/ overlay[q].cur \in ToSet(tdns[q])
       \/ td[overlay[q].cur].status = "freed"
    /\ overlay[q].status = "active" => td[overlay[q].cur].status \in {"active", "halted"}
Working == \A q \in Heads : qh[q] # "freed" => QueueWorks(q)

TypeInv == TypeOK /\ gone \subseteq Heads /\ bound \in Instances
RingInv == Clean({"emptied", "torn"}) => Ringed
DoorInv == Clean({"emptied", "torn", "early"}) => Doorbells

Inv ==
    /\ TypeInv /\ Links /\ Removed /\ RingInv /\ DoorInv
    /\ HandlerInv /\ ClientInv
    /\ Owned /\ Telling /\ Working
    /\ ControllerSafe /\ MemorySafe
-----------------------------------------------------------------------------
(* The types, by name.                                                     *)

TdType == [status : {"unused", "off", "active", "halted", "done", "error", "freed"},
           next : Tds \cup {Null}, ioc : BOOLEAN, cb : BOOLEAN]
OverlayType == [cur : Tds \cup {Null}, next : Tds \cup {Null},
                status : {"done", "active", "error"}]
ControllerType == [at : Heads \cup {Null}, ahead : Heads \cup {Null}, old : SUBSET Heads]
ClientType == [pc : Stages, q : Heads \cup {Null}, tds : Seq(Tds), cb : BOOLEAN,
               at : Heads \cup {Null}]
HandlerStages == {"idle", "walk", "port", "halt", "cut", "unlink", "retail", "pend",
                  "doorbell", "clear"}
HandlerType == [pc : HandlerStages, q : Heads \cup {Null}, prev : Heads \cup {Null},
                td : Tds \cup {Null}, sts : SUBSET {"usb", "err", "port", "adv"}, rang : BOOLEAN]
ToldType == {"nothing", "success", "cancelled", "twice"}

RingTypes ==
    /\ tail \in Heads \cup {Null}
    /\ next \in [Heads -> Heads \cup {Null}] /\ qhlptr \in [Heads -> Heads \cup {Null}]
    /\ qh \in [Heads -> {"none", "ring", "pending", "freed"}]
    /\ was_cancelled \in [Heads -> 0..2] /\ db_pending \in Seq(Heads)
QueueTypes ==
    /\ tdns \in [Heads -> Seq(Tds)] /\ td \in [Tds -> TdType]
    /\ overlay \in [Heads -> OverlayType] /\ told \in [Tds -> ToldType]
RegTypes ==
    usbsts \subseteq {"usb", "err", "port", "adv"} /\ usbintr \in BOOLEAN /\ doorbell \in BOOLEAN
Types ==
    /\ RingTypes /\ QueueTypes /\ RegTypes
    /\ hw \in ControllerType /\ c \in ClientType /\ h \in HandlerType

LEMMA TypesAre == (TypeOK <=> Types) /\ (TypeOK <=> Types)'
  BY DEF TypeOK, Types, RingTypes, QueueTypes, RegTypes, TdType, OverlayType, ControllerType,
         ClientType, HandlerType, HandlerStages, ToldType
-----------------------------------------------------------------------------
(* Least and greatest elements.                                            *)

\* Every set of natural numbers has a least element.
LEMMA LeastElement ==
    ASSUME NEW S \in SUBSET Nat, S # {}
    PROVE  \E x \in S : \A y \in S : x <= y
  <1>1. PICK R : R = OpToRel(<, Nat)
    OBVIOUS
  <1>2. IsWellFoundedOn(R, Nat)
    BY <1>1, NatLessThanWellFounded
  <1>3. \E x \in S : \A y \in S : ~ (<<y, x>> \in R)
    BY <1>2, WFMin
  <1>4. \A y, z \in Nat : y < z => <<y, z>> \in R
    BY <1>1 DEF OpToRel
  <1>5. PICK x \in S : \A y \in S : ~ (<<y, x>> \in R)
    BY <1>3
  <1>6. \A y \in S : ~(y < x)
    BY <1>4, <1>5
  <1> QED
    BY <1>5, <1>6

LEMMA MinElement ==
    ASSUME NEW S \in SUBSET Nat, S # {}
    PROVE  Min(S) \in S /\ \A y \in S : Min(S) <= y
  <1>1. \E x \in S : \A y \in S : x <= y
    BY LeastElement
  <1> QED
    BY <1>1 DEF Min

LEMMA MaxElement ==
    ASSUME NEW n \in Nat, NEW S \in SUBSET (0..n), S # {}
    PROVE  Max(S) \in S /\ \A y \in S : Max(S) >= y
  <1>1. PICK U : U = {m \in Nat : \A y \in S : y <= m}
    OBVIOUS
  <1>2. U \in SUBSET Nat /\ n \in U
    BY <1>1
  <1>3. PICK x \in U : \A y \in U : x <= y
    BY <1>2, LeastElement
  <1>4. x \in S
    <2>1. CASE x = 0
      <3>1. PICK y \in S : TRUE
        OBVIOUS
      <3>2. y \in 0..n /\ y <= x
        BY <1>1, <1>3, <3>1
      <3> QED
        BY <2>1, <3>1, <3>2
    <2>2. CASE x # 0
      <3>1. x - 1 \in Nat /\ ~(x <= x - 1)
        BY <1>1, <1>3, <2>2
      <3>2. x - 1 \notin U
        BY <1>3, <3>1
      <3>3. PICK y \in S : ~(y <= x - 1)
        BY <1>1, <3>1, <3>2
      <3> QED
        BY <1>1, <1>3, <3>1, <3>3
    <2> QED
      BY <2>1, <2>2
  <1>5. \A y \in S : x >= y
    BY <1>1, <1>3
  <1>6. \E z \in S : \A y \in S : z >= y
    BY <1>4, <1>5
  <1> QED
    BY <1>6 DEF Max
-----------------------------------------------------------------------------
(* What a step leaves alone.                                               *)

LEMMA LinksFrame ==
    ASSUME Links, UNCHANGED <<tail, next, qhlptr, qh, hw>>
    PROVE  Links'
  BY DEF Links, Known

LEMMA RemovedFrame ==
    ASSUME Removed, UNCHANGED <<qh, was_cancelled, db_pending>>
    PROVE  Removed'
  BY DEF Removed, Pending

\* Neither thread gets on with a change of the ring.
SameAdding == (Adding' <=> Adding) /\ (Adding => c'.pc = c.pc /\ c'.q = c.q)
SameRemoving ==
    (Removing' <=> Removing) /\ (Removing => h'.pc = h.pc /\ h'.q = h.q /\ h'.prev = h.prev)

LEMMA SameStages ==
    /\ c' = c => SameAdding
    /\ h' = h => SameRemoving
    /\ ~Adding /\ ~Adding' => SameAdding
    /\ ~Removing /\ ~Removing' => SameRemoving
  BY DEF SameAdding, SameRemoving, Adding, Removing

LEMMA SettledSame ==
    ASSUME InRing' = InRing, SameAdding
    PROVE  Settled' = Settled /\ Passable' = Passable
  <1>1. Settled' = Settled
    BY DEF Settled, SameAdding
  <1>2. (c'.pc = "tail" <=> c.pc = "tail") /\ (c.pc = "tail" => c'.q = c.q)
    BY DEF SameAdding, Adding, AddStages
  <1> QED
    BY <1>1, <1>2 DEF Passable

LEMMA SettledFrame ==
    ASSUME UNCHANGED qh, SameAdding
    PROVE  InRing' = InRing /\ Settled' = Settled /\ Passable' = Passable
  <1>1. InRing' = InRing
    BY DEF InRing
  <1> QED
    BY <1>1, SettledSame

LEMMA RingOfFrame ==
    ASSUME UNCHANGED <<tail, next, qhlptr>>, InRing' = InRing, SameAdding, SameRemoving, NEW L, RingOf(L)
    PROVE  RingOf(L)'
  <1>1. InRing' = InRing /\ Settled' = Settled
    BY SettledSame
  <1>2. Cyclic(L)'
    BY <1>1 DEF RingOf, Cyclic
  <1>3. Joins(L)'
    BY <1>1 DEF RingOf, Joins, SameAdding
  <1>4. Leaves(L)'
    BY <1>1 DEF RingOf, Leaves, SameAdding, SameRemoving
  <1>5. \A x : Soft(L, x)' = Soft(L, x) /\ Hard(L, x)' = Hard(L, x)
    <2>1. /\ c'.pc = "tail" <=> c.pc = "tail"
          /\ c'.pc \in {"sw", "splice", "tail"} <=> c.pc \in {"sw", "splice", "tail"}
          /\ c.pc \in {"sw", "splice", "tail"} => c'.q = c.q
      BY DEF SameAdding, Adding, AddStages
    <2>2. /\ h'.pc \in {"retail", "pend"} <=> h.pc \in {"retail", "pend"}
          /\ h'.pc \in {"unlink", "retail", "pend"} <=> h.pc \in {"unlink", "retail", "pend"}
          /\ h.pc \in {"unlink", "retail", "pend"} => h'.q = h.q /\ h'.prev = h.prev
      BY DEF SameRemoving, Removing
    <2> QED
      BY <2>1, <2>2 DEF Soft, Hard
  <1> QED
    BY <1>1, <1>2, <1>3, <1>4, <1>5 DEF RingOf

LEMMA RingFrame ==
    ASSUME RingInv, UNCHANGED <<tail, next, qhlptr, qh, was_cancelled>>, slips \subseteq slips',
           SameAdding, SameRemoving
    PROVE  RingInv'
  <1> SUFFICES ASSUME Ringed PROVE Ringed'
    BY DEF RingInv, Clean
  <1>1. InRing' = InRing /\ Settled' = Settled /\ Pending' = Pending
    BY SettledFrame DEF Pending
  <1>2. PICK L \in [Settled -> Settled] : RingOf(L)
    BY DEF Ringed
  <1>3. RingOf(L)'
    BY <1>1, <1>2, RingOfFrame
  <1>4. TailIn' /\ LeadsBack'
    BY <1>1 DEF Ringed, TailIn, LeadsBack
  <1> QED
    BY <1>1, <1>2, <1>3, <1>4 DEF Ringed

LEMMA DoorFrame ==
    ASSUME DoorInv, UNCHANGED <<qh, was_cancelled, hw>>, slips \subseteq slips',
           "adv" \in usbsts' => "adv" \in usbsts, Answered' => Answered
    PROVE  DoorInv'
  <1>1. Doorbells => Doorbells'
    BY DEF Doorbells, Pending
  <1> QED
    BY <1>1 DEF DoorInv, Clean

LEMMA HandlerFrame ==
    ASSUME HandlerInv, UNCHANGED <<h, c, tdns, qh>>, gone \subseteq gone', slips \subseteq slips',
           usbsts \subseteq usbsts'
    PROVE  HandlerInv'
  <1>1. InRing' = InRing /\ Passable' = Passable
    BY SameStages, SettledFrame
  <1> QED
    BY <1>1 DEF HandlerInv, Clean, Cancelling, Removing

LEMMA TellingFrame ==
    ASSUME Telling, UNCHANGED <<td, told>>
    PROVE  Telling'
  BY DEF Telling

LEMMA OwnedFrame ==
    ASSUME Owned, UNCHANGED <<qh, td, tdns>>
    PROVE  Owned'
  BY DEF Owned, Counted, OwnQueue, Chained, Apart, Used

\* The client may move on unless it lets go of the lock.
LEMMA WorkingFrame ==
    ASSUME Working, UNCHANGED <<qh, td, tdns, overlay>>,
           c.pc = "link" => c'.pc = "link" /\ c'.q = c.q /\ c'.tds = c.tds
    PROVE  Working'
  <1>1. \A q, p : LeadsTo(q, p) => LeadsTo(q, p)'
    BY DEF LeadsTo
  <1>2. \A q, p : ToDo(q, p) => ToDo(q, p)'
    BY DEF ToDo
  <1>3. \A q, p : Works(q, p) => Works(q, p)'
    BY <1>1, <1>2 DEF Works
  <1> QED
    BY <1>3 DEF Working, QueueWorks

LEMMA ClientFrame ==
    ASSUME ClientInv, UNCHANGED <<c, qh, td, tdns>>, slips \subseteq slips'
    PROVE  ClientInv'
  <1>1. /\ InRing' = InRing /\ Busy' = Busy /\ Fresh' = Fresh /\ Linked' = Linked
        /\ \A q : Known(q)' = Known(q)
    BY DEF InRing, Busy, Fresh, Linked, Known, Adding
  <1>2. /\ Clean({"crossed"})' => Clean({"crossed"})
        /\ Clean({"crossed", "emptied", "torn"})' => Clean({"crossed", "emptied", "torn"})
    BY DEF Clean
  <1>3. Serving' /\ Prepared' /\ Distinct'
    BY <1>1, <1>2 DEF ClientInv, Serving, Prepared, Distinct
  <1>4. Activating' /\ Found' /\ Walking'
    BY <1>1, <1>2 DEF ClientInv, Activating, Found, Walking, AtEnd
  <1> QED
    BY <1>3, <1>4 DEF ClientInv

LEMMA ControllerFrame ==
    ASSUME Running, UNCHANGED <<hw, qh, td, overlay>>
    PROVE  ControllerSafe'
  BY DEF ControllerSafe, Running, HoldsFreed

LEMMA MemoryFrame ==
    ASSUME Running, UNCHANGED fault
    PROVE  MemorySafe'
  BY DEF MemorySafe, Running

LEMMA UnchangedKeeps ==
    ASSUME Inv, UNCHANGED vars
    PROVE  Inv'
  <1> USE DEF vars, ring, removal, queue, regs, history
  <1>1. TypeInv'
    BY DEF Inv, TypeInv, TypeOK
  <1>2. Links' /\ Removed' /\ Telling' /\ Owned' /\ Working'
    BY LinksFrame, RemovedFrame, TellingFrame, OwnedFrame, WorkingFrame DEF Inv
  <1>3. SameAdding /\ SameRemoving /\ slips \subseteq slips' /\ usbsts' = usbsts /\ Answered' = Answered
        /\ gone' = gone
    BY SameStages DEF Answered
  <1>4. RingInv' /\ DoorInv' /\ HandlerInv' /\ ClientInv'
    BY <1>3, RingFrame, DoorFrame, HandlerFrame, ClientFrame DEF Inv
  <1>5. ControllerSafe' /\ MemorySafe'
    BY DEF Inv, ControllerSafe, MemorySafe, Clean, HoldsFreed
  <1> QED
    BY <1>1, <1>2, <1>4, <1>5 DEF Inv
-----------------------------------------------------------------------------
LEMMA HeadsAre == Heads \subseteq Nat \ {0} /\ Null \notin Heads /\ 1 \in Heads
  BY ConstantsAssumption DEF Heads, Null

LEMMA InitEstablishes ==
    ASSUME Init
    PROVE  Inv
  <1>1. PICK k : k = bound.inUse
    OBVIOUS
  <1>2. bound \in Instances /\ k \in 0..NHeads /\ NHeads \in Nat \ {0}
    BY <1>1, ConstantsAssumption DEF Init
  <1>3. /\ tail = k
        /\ next = [q \in Heads |-> IF q > k THEN Null ELSE IF q = k THEN 1 ELSE q + 1]
        /\ qh = [q \in Heads |-> IF q > k THEN "none" ELSE "ring"]
        /\ hw = [at |-> Min({k, 1}), ahead |-> IF k = 0 THEN Null ELSE next[1], old |-> {}]
        /\ qhlptr = next
    BY <1>1 DEF Init
  <1>4. \A q \in Heads : /\ q > k => next[q] = Null /\ qh[q] = "none"
                         /\ q = k => next[q] = 1 /\ qh[q] = "ring"
                         /\ q < k => next[q] = q + 1 /\ qh[q] = "ring" /\ q + 1 \in Heads
    BY <1>2, <1>3 DEF Heads
  <1>5. hw.at = (IF k = 0 THEN Null ELSE 1) /\ hw.old = {}
        /\ hw.ahead = (IF k = 0 THEN Null ELSE next[1])
    <2>1. {k, 1} \in SUBSET Nat /\ {k, 1} # {}
      BY <1>2
    <2>2. PICK m : m = Min({k, 1})
      OBVIOUS
    <2>3. m \in {k, 1} /\ \A y \in {k, 1} : m <= y
      BY <2>1, <2>2, MinElement
    <2> QED
      BY <1>2, <1>3, <2>2, <2>3 DEF Null
  <1>6. (next[1] \in Heads /\ 1 \in Heads) \/ k = 0
    BY <1>2, <1>4 DEF Heads
  <1>7. TypeInv
    <2>1. tail \in Heads \cup {Null}
      BY <1>2, <1>3 DEF Heads, Null
    <2>2. next \in [Heads -> Heads \cup {Null}] /\ qhlptr \in [Heads -> Heads \cup {Null}]
      BY <1>2, <1>3, <1>4, HeadsAre DEF Heads
    <2>3. qh \in [Heads -> {"none", "ring", "pending", "freed"}]
      BY <1>3
    <2>4. hw \in ControllerType
      BY <1>3, <1>5, <1>6 DEF ControllerType
    <2>5. /\ was_cancelled \in [Heads -> 0..2] /\ db_pending \in Seq(Heads)
          /\ tdns \in [Heads -> Seq(Tds)] /\ td \in [Tds -> TdType]
          /\ overlay \in [Heads -> OverlayType]
      BY DEF Init, TdType, OverlayType
    <2>6. usbsts \subseteq {"usb", "err", "port", "adv"} /\ usbintr \in BOOLEAN /\ doorbell \in BOOLEAN
      BY DEF Init
    <2>7. c \in ClientType
      <3>1. <<>> \in Seq(Tds)
        OBVIOUS
      <3> QED
        BY <3>1 DEF Init, Stages, ClientType
    <2>8. h \in HandlerType /\ told \in [Tds -> ToldType]
      BY DEF Init, HandlerType, HandlerStages, ToldType
    <2> QED
      BY <1>2, <2>1, <2>2, <2>3, <2>4, <2>5, <2>6, <2>7, <2>8, TypesAre
      DEF TypeInv, Types, RingTypes, QueueTypes, RegTypes, Init
  <1>8. Links
    BY <1>2, <1>3, <1>4, <1>5, <1>6, HeadsAre DEF Links, Known, Null, Heads
  <1>9. InRing = 1..k /\ Pending = {}
    BY <1>2, <1>3, <1>4 DEF InRing, Pending, Heads
  <1>10. Removed
    BY <1>9 DEF Removed, Init, ToSet
  <1>11. Ringed
    <2>1. ~Adding /\ ~Removing /\ c.pc = "idle" /\ h.pc = "idle" /\ Settled = InRing
      BY DEF Init, Adding, AddStages, Removing, Settled
    <2>2. PICK L : L = [q \in InRing |-> next[q]]
      OBVIOUS
    <2>3. \A q \in InRing : L[q] = next[q] /\ next[q] = qhlptr[q] /\ next[q] \in InRing
      BY <1>2, <1>3, <1>4, <1>9, <2>2 DEF Heads
    <2>4. \A p, q \in InRing : next[p] = next[q] => p = q
      BY <1>2, <1>4, <1>9 DEF Heads
    <2>5. ASSUME NEW q \in InRing PROVE \E p \in InRing : next[p] = q
      <3>1. CASE q = 1
        BY <1>2, <1>4, <1>9, <3>1 DEF Heads
      <3>2. CASE q # 1
        <4>1. q - 1 \in InRing /\ q - 1 < k /\ q - 1 \in Heads
          BY <1>2, <1>9, <3>2 DEF Heads
        <4>2. next[q - 1] = (q - 1) + 1 /\ q \in Nat
          BY <1>2, <1>4, <1>9, <4>1
        <4> QED
          BY <4>1, <4>2
      <3> QED
        BY <3>1, <3>2
    <2>6. Cyclic(L) /\ L \in [Settled -> Settled]
      BY <2>1, <2>2, <2>3, <2>4, <2>5 DEF Cyclic
    <2>7. RingOf(L)
      BY <2>1, <2>3, <2>6 DEF RingOf, Joins, Leaves, Soft, Hard
    <2>8. TailIn
      BY <1>2, <1>3, <1>4, <1>9, <2>1 DEF Heads, Null, TailIn
    <2> QED
      BY <1>9, <2>6, <2>7, <2>8 DEF Ringed, LeadsBack
  <1>12. Doorbells
    BY <1>9 DEF Doorbells
  <1>13. HandlerInv /\ ClientInv
    BY DEF HandlerInv, ClientInv, Init, Serving, Prepared, Distinct, Activating, Found, Walking, Busy,
           Fresh, Linked, Adding, AddStages, Removing, Cancelling
  <1>14. Owned
    <2>1. Used = 1..0 /\ 0 \in 0..MaxTds
      BY ConstantsAssumption DEF Used, Init
    <2>2. \A q \in Heads : tdns[q] = <<>> /\ DOMAIN tdns[q] = {} /\ ToSet(tdns[q]) = {}
      BY DEF Init, ToSet
    <2> QED
      BY <2>1, <2>2 DEF Owned, Counted, OwnQueue, Chained, Apart
  <1>15. Telling
    BY DEF Telling, Init
  <1>16. Working
    <2>1. \A q \in Heads : /\ tdns[q] = <<>> /\ Len(tdns[q]) = 0 /\ DOMAIN tdns[q] = {}
                           /\ overlay[q].cur = Null /\ overlay[q].next = Null
                           /\ overlay[q].status = "done"
      BY DEF Init
    <2>2. ASSUME NEW q \in Heads PROVE Works(q, 0) /\ 0 \in 0..Len(tdns[q])
      BY <2>1 DEF Works, ToDo, LeadsTo
    <2> QED
      BY <2>1, <2>2 DEF Working, QueueWorks
  <1>17. ControllerSafe
    <2>1. \A q \in Heads : qh[q] # "freed" /\ overlay[q].status # "active"
      BY <1>4, <1>3 DEF Init
    <2>2. {hw.at, hw.ahead} \ {Null} \subseteq Heads
      BY <1>7 DEF TypeInv, TypeOK
    <2> QED
      BY <2>1, <2>2 DEF ControllerSafe, HoldsFreed
  <1>18. MemorySafe
    BY DEF MemorySafe, Init
  <1> QED
    BY <1>7, <1>8, <1>10, <1>11, <1>12, <1>13, <1>14, <1>15, <1>16, <1>17, <1>18
    DEF Inv, RingInv, DoorInv
-----------------------------------------------------------------------------
(* The controller.                                                         *)

\* A TD that the controller works on is in the queue of its queue head.
LEMMA WorkedOn ==
    TypeOK /\ Owned /\ Working =>
        \A q \in Heads : qh[q] # "freed" /\ overlay[q].status # "done" =>
            /\ overlay[q].cur \in Tds /\ overlay[q].cur \in ToSet(tdns[q])
            /\ td[overlay[q].cur].status \notin {"unused", "freed"}
  <1> SUFFICES ASSUME TypeOK, Owned, Working, NEW q \in Heads, qh[q] # "freed",
                      overlay[q].status # "done"
               PROVE  /\ overlay[q].cur \in Tds /\ overlay[q].cur \in ToSet(tdns[q])
                      /\ td[overlay[q].cur].status \notin {"unused", "freed"}
    OBVIOUS
  <1>1. PICK p \in 0..Len(tdns[q]) : Works(q, p)
    BY DEF Working, QueueWorks
  <1>2. tdns[q] \in Seq(Tds) /\ p < Len(tdns[q]) /\ overlay[q].cur = tdns[q][p + 1]
    BY <1>1 DEF Works, TypeOK
  <1>3. p + 1 \in DOMAIN tdns[q] /\ p + 1 \in 1..Len(tdns[q])
    BY <1>1, <1>2
  <1>4. tdns[q][p + 1] \in Tds /\ tdns[q][p + 1] \in ToSet(tdns[q])
    BY <1>2, <1>3 DEF ToSet
  <1>5. td[tdns[q][p + 1]].status \notin {"unused", "freed"}
    BY <1>3 DEF Owned, OwnQueue, Chained
  <1> QED
    BY <1>2, <1>4, <1>5

OnFreed == \E q \in {hw.at, hw.ahead} \ {Null} : qh[q] = "freed"

LEMMA HoldsOnly == TypeOK /\ Owned /\ Working /\ ~OnFreed => ~HoldsFreed
  <1> SUFFICES ASSUME TypeOK, Owned, Working, ~OnFreed, HoldsFreed PROVE FALSE
    OBVIOUS
  <1>1. PICK q \in {hw.at, hw.ahead} \ {Null} :
            overlay[q].status = "active" /\ td[overlay[q].cur].status = "freed"
    BY DEF HoldsFreed, OnFreed
  <1>2. q \in Heads /\ qh[q] # "freed"
    BY <1>1, TypesAre DEF Types, ControllerType, OnFreed
  <1> QED
    BY <1>1, <1>2, WorkedOn

LEMMA HoldsOnlyNext == (TypeOK /\ Owned /\ Working /\ ~OnFreed => ~HoldsFreed)'
  BY HoldsOnly, PTL

\* The controller stays where it is and nothing is freed under it.
LEMMA ControllerStays ==
    ASSUME Running, hw' = hw, \A q \in Heads : qh'[q] = "freed" => qh[q] = "freed",
           TypeInv', Owned', Working'
    PROVE  ControllerSafe'
  <1>1. ~OnFreed'
    <2>1. {hw.at, hw.ahead} \ {Null} \subseteq Heads
      BY TypesAre DEF TypeInv, Types, ControllerType
    <2> QED
      BY <2>1 DEF Running, HoldsFreed, OnFreed
  <1> QED
    BY <1>1, HoldsOnlyNext DEF TypeInv, ControllerSafe

\* A queue that a step does not touch works as before.
LEMMA QueueKeeps ==
    ASSUME NEW r, tdns[r] \in Seq(Tds), QueueWorks(r), overlay'[r] = overlay[r],
           tdns'[r] = tdns[r],
           qh'[r] = "ring" => qh[r] = "ring" \/ overlay[r].status = "done",
           \A t \in ToSet(tdns[r]) : td'[t].status = td[t].status,
           \A t \in Tds : td[t].status = "freed" => td'[t].status = "freed",
           overlay[r].cur \in Tds \cup {Null},
           c.pc = "link" /\ c.q = r => c'.pc = "link" /\ c'.q = c.q /\ c'.tds = c.tds
    PROVE  QueueWorks(r)'
  <1>1. PICK p \in 0..Len(tdns[r]) : Works(r, p)
    BY DEF QueueWorks
  <1>2. \A i \in DOMAIN tdns[r] : td'[tdns[r][i]].status = td[tdns[r][i]].status
    BY DEF ToSet
  <1>3. \A n : LeadsTo(r, n) => LeadsTo(r, n)'
    BY DEF LeadsTo
  <1>4. \A n : ToDo(r, n) => ToDo(r, n)'
    BY <1>2 DEF ToDo
  <1>5. 1..p \subseteq DOMAIN tdns[r] /\ (overlay[r].status # "done" => p + 1 \in DOMAIN tdns[r])
    BY <1>1 DEF Works
  <1>6. Works(r, p)'
    BY <1>1, <1>2, <1>3, <1>4, <1>5 DEF Works
  <1>7. overlay[r].status # "done" => overlay[r].cur \in ToSet(tdns[r])
    BY <1>1, <1>5 DEF Works, ToSet
  <1> QED
    BY <1>1, <1>6, <1>7 DEF QueueWorks

\* The controller's links of the ring lead into the ring, half-way through a
\* change too.
LEMMA RingLinks ==
    ASSUME Ringed
    PROVE  \A q \in InRing : qhlptr[q] \in InRing
  <1>1. PICK L \in [Settled -> Settled] : RingOf(L)
    BY DEF Ringed
  <1>2. Settled \subseteq InRing /\ \A x \in Settled : L[x] \in Settled
    BY <1>1 DEF Settled
  <1>3. Adding => c.q \in InRing /\ tail \in Settled /\ qhlptr[c.q] = L[tail]
    BY <1>1 DEF RingOf, Joins
  <1>4. Removing => h.q \in Settled
    BY <1>1 DEF RingOf, Leaves
  <1>5. ASSUME NEW q \in Settled PROVE Hard(L, q) \in InRing
    <2>1. c.pc \in {"sw", "splice", "tail"} => Adding
      BY DEF Adding, AddStages
    <2>2. h.pc \in {"unlink", "retail", "pend"} => Removing
      BY DEF Removing
    <2> QED
      BY <1>2, <1>3, <1>4, <2>1, <2>2 DEF Hard
  <1>6. \A q \in Settled : qhlptr[q] \in InRing
    BY <1>1, <1>5 DEF RingOf
  <1>7. \A q \in InRing : q \in Settled \/ (Adding /\ q = c.q)
    BY DEF Settled
  <1> QED
    BY <1>2, <1>3, <1>6, <1>7

LEMMA HwAdvanceKeeps ==
    ASSUME Inv, HwAdvance
    PROVE  Inv'
  <1>1. /\ Running /\ hw.at # Null
        /\ UNCHANGED <<tail, next, qhlptr, qh, was_cancelled, db_pending, tdns, told, usbintr, c, h,
                       gone, bound, td, overlay, slips, fault>>
    BY DEF HwAdvance, HwKeeps, ring, removal, history
  <1>2. PICK ahead, answer :
            /\ ahead = qhlptr[hw.ahead] /\ answer = (doorbell /\ {hw.ahead, ahead} \cap hw.old = {})
            /\ hw' = [at |-> hw.ahead, ahead |-> ahead,
                      old |-> IF answer THEN ToSet(db_pending) ELSE hw.old]
            /\ usbsts' = usbsts \cup (IF answer THEN {"adv"} ELSE {})
            /\ doorbell' = (doorbell /\ ~answer)
    BY DEF HwAdvance
  <1>3. Types /\ hw \in ControllerType
    BY TypesAre DEF Inv, TypeInv, Types
  <1>4. /\ hw'.at = hw.ahead /\ hw'.ahead = ahead
        /\ answer => hw'.old = Pending /\ {hw.ahead, ahead} \cap hw.old = {}
        /\ ~answer => hw'.old = hw.old /\ usbsts' = usbsts
    BY <1>2 DEF Inv, Removed
  <1>5. Known(hw.ahead) /\ Known(ahead)
    BY <1>1, <1>2 DEF Inv, Links, Known
  <1>6. TypeInv'
    <2>1. Pending \subseteq Heads /\ hw.old \subseteq Heads
      BY <1>3 DEF Pending, ControllerType
    <2>2. hw' \in ControllerType
      <3>1. (IF answer THEN ToSet(db_pending) ELSE hw.old) \subseteq Heads
        BY <2>1 DEF Inv, Removed
      <3> QED
        BY <1>2, <1>5, <3>1 DEF ControllerType, Known
    <2>3. RegTypes'
      BY <1>1, <1>2, <1>3 DEF Types, RegTypes
    <2>4. RingTypes' /\ QueueTypes'
      BY <1>1, <1>3 DEF Types, RingTypes, QueueTypes
    <2> QED
      BY <1>1, <1>3, <2>2, <2>3, <2>4, TypesAre DEF Inv, TypeInv, Types
  <1>7. Links'
    BY <1>1, <1>4, <1>5, HeadsAre DEF Inv, Links, Known
  <1>8. Removed' /\ Telling' /\ Owned' /\ Working' /\ RingInv' /\ ClientInv' /\ MemorySafe'
    BY <1>1, RemovedFrame, TellingFrame, OwnedFrame, WorkingFrame, RingFrame, SameStages,
       ClientFrame, MemoryFrame DEF Inv
  <1>9. HandlerInv'
    BY <1>1, <1>2, HandlerFrame DEF Inv
  <1>10. ~OnFreed
    BY <1>1 DEF Running, HoldsFreed, OnFreed
  <1>11. ASSUME Ringed PROVE /\ qh[hw.ahead] \in {"ring", "pending"} /\ ~OnFreed'
                             /\ \/ ahead \in InRing
                                \/ /\ ahead \in Pending /\ hw.ahead \in Pending
                                   /\ was_cancelled[hw.ahead] >= was_cancelled[ahead]
    <2>1. qh[hw.ahead] \in {"ring", "pending"} /\ hw.ahead \in Heads
      BY <1>3, <1>5, <1>10, HeadsAre DEF Types, RingTypes, OnFreed, Known
    <2>2. \/ ahead \in InRing
          \/ /\ ahead \in Pending /\ hw.ahead \in Pending
             /\ was_cancelled[hw.ahead] >= was_cancelled[ahead]
      BY <1>2, <1>11, <2>1, RingLinks DEF Ringed, LeadsBack, InRing, Pending
    <2>3. qh[ahead] # "freed"
      BY <2>2 DEF InRing, Pending
    <2> QED
      BY <1>1, <1>4, <2>1, <2>2, <2>3 DEF OnFreed
  <1>12. DoorInv'
    <2> SUFFICES ASSUME Clean({"emptied", "torn", "early"}) PROVE Doorbells'
      BY <1>1 DEF DoorInv, Clean
    <2>1. Doorbells /\ Ringed
      BY DEF Inv, DoorInv, RingInv, Clean
    <2>2. Pending' = Pending /\ (~answer => Answered' = Answered)
      BY <1>1, <1>4 DEF Pending, Answered
    <2>3. CASE answer
      BY <1>1, <1>4, <2>1, <2>2, <2>3 DEF Doorbells
    <2>4. CASE ~answer
      <3>1. ASSUME NEW q \in Pending, was_cancelled[q] = 2, Answered
            PROVE  hw.ahead # q /\ ahead # q
        <4>1. hw.ahead # q
          BY <2>1, <3>1 DEF Doorbells
        <4>2. CASE ahead = q
          <5>1. hw.ahead \in Pending /\ was_cancelled[hw.ahead] >= 2
            BY <1>11, <2>1, <3>1, <4>2 DEF InRing, Pending
          <5>2. was_cancelled[hw.ahead] = 2
            BY <5>1 DEF Inv, Removed
          <5> QED
            BY <2>1, <3>1, <5>1, <5>2 DEF Doorbells
        <4> QED
          BY <4>1, <4>2
      <3> QED
        BY <1>1, <1>4, <2>1, <2>2, <2>4, <3>1 DEF Doorbells
    <2> QED
      BY <2>3, <2>4
  <1>13. ControllerSafe'
    <2> SUFFICES ASSUME Clean({"emptied", "torn", "early"}) PROVE ~HoldsFreed'
      BY <1>1 DEF ControllerSafe, Clean
    <2>1. Ringed
      BY DEF Inv, RingInv, Clean
    <2> QED
      BY <1>6, <1>8, <1>11, <2>1, HoldsOnlyNext DEF TypeInv
  <1> QED
    BY <1>6, <1>7, <1>8, <1>9, <1>12, <1>13 DEF Inv

\* One TD gets another status.
LEMMA Restatus ==
    ASSUME td \in [Tds -> TdType], NEW t0 \in Tds, NEW s0 \in {"active", "halted", "done", "error"},
           td[t0].status \in {"off", "active", "halted"}, td' = [td EXCEPT ![t0].status = s0]
    PROVE  /\ td' \in [Tds -> TdType] /\ td'[t0].status = s0
           /\ \A t \in Tds : t # t0 => td'[t] = td[t]
           /\ \A t \in Tds : /\ td'[t].next = td[t].next /\ td'[t].cb = td[t].cb
                             /\ td'[t].ioc = td[t].ioc
                             /\ (td'[t].status = "unused") <=> (td[t].status = "unused")
                             /\ (td'[t].status = "freed") <=> (td[t].status = "freed")
  <1>1. td[t0] \in TdType /\ td'[t0] = [td[t0] EXCEPT !.status = s0]
    OBVIOUS
  <1>2. td'[t0] \in TdType /\ td'[t0].status = s0 /\ td'[t0].next = td[t0].next /\ td'[t0].cb = td[t0].cb
        /\ td'[t0].ioc = td[t0].ioc
    BY <1>1 DEF TdType
  <1> QED
    BY <1>2

LEMMA StatusKeeps ==
    ASSUME Owned, Telling, tdns \in [Heads -> Seq(Tds)], UNCHANGED <<tdns, told>>,
           \A q \in Heads : /\ qh'[q] = "none" => qh[q] = "none"
                            /\ qh[q] = "freed" => qh'[q] = "freed",
           \A t \in Tds : /\ td'[t].next = td[t].next /\ td'[t].cb = td[t].cb
                          /\ (td'[t].status = "unused") <=> (td[t].status = "unused")
                          /\ (td'[t].status = "freed") <=> (td[t].status = "freed")
    PROVE  Owned' /\ Telling'
  <1>1. Used' = Used
    BY DEF Used
  <1>2. \A q \in Heads : \A i \in DOMAIN tdns[q] : tdns[q][i] \in Tds
    OBVIOUS
  <1>3. Owned'
    <2>1. ASSUME NEW q \in Heads PROVE OwnQueue(q)'
      <3>1. OwnQueue(q)
        BY DEF Owned
      <3>2. Chained(q) => Chained(q)'
        BY <1>2 DEF Chained
      <3> QED
        BY <1>1, <3>1, <3>2 DEF OwnQueue
    <2> QED
      BY <1>1, <2>1 DEF Owned, Counted, Apart
  <1>4. Telling'
    BY DEF Telling
  <1> QED
    BY <1>3, <1>4

LEMMA HwFetchKeeps ==
    ASSUME Inv, NEW q \in Heads, HwFetch(q)
    PROVE  Inv'
  <1>1. /\ Running /\ hw.at = q
        /\ UNCHANGED <<tail, next, qhlptr, qh, was_cancelled, db_pending, tdns, told, usbintr, c, h,
                       gone, bound, td, usbsts, doorbell, hw, slips, fault>>
        /\ overlay[q].status = "done" /\ overlay[q].next # Null
        /\ td[overlay[q].next].status = "active"
    BY DEF HwFetch, HwKeeps, Fetchable, ring, removal, history
  <1>2. PICK t : t = overlay[q].next
    OBVIOUS
  <1>3. overlay' = [overlay EXCEPT ![q] = [cur |-> t, next |-> td[t].next, status |-> "active"]]
    BY <1>2 DEF HwFetch
  <1>4. Types
    BY TypesAre DEF Inv, TypeInv
  <1>5. t \in Tds /\ td[t] \in TdType /\ td[t].next \in Tds \cup {Null}
    <2>1. overlay[q] \in OverlayType
      BY <1>4 DEF Types, QueueTypes
    <2>2. t \in Tds
      BY <1>1, <1>2, <2>1 DEF OverlayType
    <2>3. td[t] \in TdType
      BY <1>4, <2>2 DEF Types, QueueTypes
    <2> QED
      BY <2>2, <2>3 DEF TdType
  <1>6. overlay' \in [Heads -> OverlayType]
    <2>1. [cur |-> t, next |-> td[t].next, status |-> "active"] \in OverlayType
      BY <1>5 DEF OverlayType
    <2> QED
      BY <1>3, <1>4, <2>1 DEF Types, QueueTypes
  <1>7. TypeInv'
    BY <1>1, <1>4, <1>6, TypesAre DEF Inv, TypeInv, Types, RingTypes, QueueTypes, RegTypes
  <1>8. InRing' = InRing /\ Answered' = Answered
    BY <1>1 DEF InRing, Answered
  <1>9. /\ Links' /\ Removed' /\ Telling' /\ Owned' /\ RingInv' /\ DoorInv' /\ HandlerInv'
        /\ ClientInv' /\ MemorySafe'
    BY <1>1, <1>8, LinksFrame, RemovedFrame, TellingFrame, OwnedFrame, RingFrame, SameStages, DoorFrame,
       HandlerFrame, ClientFrame, MemoryFrame DEF Inv
  <1>10. Working'
    <2> SUFFICES ASSUME NEW r \in Heads, qh[r] # "freed" PROVE QueueWorks(r)'
      BY <1>1 DEF Working
    <2>1. QueueWorks(r)
      BY DEF Inv, Working
    <2>2. CASE r # q
      <3>1. overlay'[r] = overlay[r] /\ overlay[r].cur \in Tds \cup {Null} /\ tdns[r] \in Seq(Tds)
        BY <1>3, <1>4, <2>2 DEF Types, QueueTypes, OverlayType
      <3> QED
        BY <1>1, <2>1, <3>1, QueueKeeps
    <2>3. CASE r = q
      <3>1. PICK p \in 0..Len(tdns[q]) : Works(q, p)
        BY <2>1, <2>3 DEF QueueWorks
      <3>2. tdns[q] \in Seq(Tds)
        BY <1>4 DEF Types, QueueTypes
      <3>3. t = tdns[q][p + 1] /\ p < Len(tdns[q])
        <4>1. \/ p < Len(tdns[q]) /\ t = tdns[q][p + 1]
              \/ c.pc = "link" /\ t = Head(c.tds)
          BY <1>1, <1>2, <3>1 DEF Works, LeadsTo
        <4>2. CASE c.pc = "link" /\ t = Head(c.tds)
          <5>1. c.tds # <<>> /\ c.tds \in Seq(Tds)
            BY <1>4, <4>2 DEF Inv, ClientInv, Serving, Busy, Types, ClientType
          <5>2. 1 \in DOMAIN c.tds /\ Head(c.tds) = c.tds[1]
            BY <5>1
          <5>3. td[c.tds[1]].status = "off"
            BY <4>2, <5>2 DEF Inv, ClientInv, Prepared, Fresh, Adding
          <5> QED
            BY <1>1, <1>2, <4>2, <5>2, <5>3
        <4> QED
          BY <4>1, <4>2
      <3>4. p + 1 \in DOMAIN tdns[q] /\ p + 1 \in 1..Len(tdns[q]) /\ t \in ToSet(tdns[q])
        BY <3>1, <3>2, <3>3 DEF ToSet
      <3>5. td[t].next = IF p + 1 < Len(tdns[q]) THEN tdns[q][p + 2] ELSE Null
        <4>1. qh[q] # "freed" /\ (p + 1) + 1 = p + 2
          BY <2>3, <3>1
        <4> QED
          BY <3>3, <3>4, <4>1 DEF Inv, Owned, OwnQueue, Chained
      <3>6. overlay'[q].cur = t /\ overlay'[q].next = td[t].next /\ overlay'[q].status = "active"
        BY <1>3, <1>4 DEF Types, QueueTypes
      <3>7. LeadsTo(q, p + 1)'
        <4>1. (p + 1) + 1 = p + 2
          BY <3>1
        <4> QED
          BY <1>1, <3>5, <3>6, <4>1 DEF LeadsTo
      <3>8. ToDo(q, p)'
        BY <1>1, <3>1 DEF ToDo, Works
      <3>9. Works(q, p)'
        BY <1>1, <3>1, <3>3, <3>6, <3>7, <3>8 DEF Works
      <3> QED
        BY <1>1, <1>2, <2>3, <3>1, <3>4, <3>6, <3>9 DEF QueueWorks
    <2> QED
      BY <2>2, <2>3
  <1>11. ControllerSafe'
    BY <1>1, <1>7, <1>9, <1>10, ControllerStays
  <1> QED
    BY <1>7, <1>9, <1>10, <1>11 DEF Inv

LEMMA AtEndIn ==
    TypeOK /\ ClientInv => (c.pc = "activate" => ToSet(c.tds) \subseteq ToSet(tdns[c.q]))
  <1> SUFFICES ASSUME TypeOK, ClientInv, c.pc = "activate", NEW i \in DOMAIN c.tds
               PROVE  c.tds[i] \in ToSet(tdns[c.q])
    BY DEF ToSet
  <1>1. c.q \in Heads /\ AtEnd
    BY DEF ClientInv, Serving, Activating, Busy, Known
  <1>2. c.tds \in Seq(Tds) /\ tdns[c.q] \in Seq(Tds)
    BY <1>1, TypesAre DEF Types, QueueTypes, ClientType
  <1>3. Len(tdns[c.q]) - Len(c.tds) + i \in DOMAIN tdns[c.q]
    <2>1. PICK m, n : m = Len(tdns[c.q]) /\ n = Len(c.tds)
      OBVIOUS
    <2>2. m \in Nat /\ n \in Nat /\ i \in 1..n /\ DOMAIN tdns[c.q] = 1..m /\ n <= m
      BY <1>1, <1>2, <2>1 DEF AtEnd
    <2>3. m - n + i \in 1..m
      BY <2>2
    <2> QED
      BY <2>1, <2>2, <2>3
  <1> QED
    BY <1>1, <1>3 DEF AtEnd, ToSet

\* The end of a TD, all but its report: it is the first unfinished one of its queue.
LEMMA HwFinishKeeps ==
    ASSUME Inv, NEW q \in Heads, NEW s \in {"done", "error"}, HwFinish(q, s),
           usbsts \subseteq usbsts', usbsts' \subseteq usbsts \cup {"usb", "err"}, slips \subseteq slips'
    PROVE  Inv'
  <1>1. /\ Running /\ hw.at = q /\ overlay[q].status = "active"
        /\ UNCHANGED <<tail, next, qhlptr, qh, was_cancelled, db_pending, tdns, told, usbintr, c, h,
                       gone, bound, doorbell, hw, fault>>
        /\ overlay' = [overlay EXCEPT ![q].status = s]
    BY DEF HwFinish, HwKeeps, ring, removal
  <1>2. PICK t : t = overlay[q].cur
    OBVIOUS
  <1>3. td' = [td EXCEPT ![t].status = s]
    BY <1>2 DEF HwFinish
  <1>4. Types /\ TypeOK
    BY TypesAre DEF Inv, TypeInv
  <1>5. overlay[q] \in OverlayType /\ tdns[q] \in Seq(Tds) /\ qh[q] # "freed"
    BY <1>1, <1>4, HeadsAre DEF Types, QueueTypes, Running, HoldsFreed
  <1>6. PICK p \in 0..Len(tdns[q]) : Works(q, p)
    BY <1>5 DEF Inv, Working, QueueWorks
  <1>7. p < Len(tdns[q]) /\ t = tdns[q][p + 1] /\ ToDo(q, p) /\ LeadsTo(q, p + 1)
    BY <1>1, <1>2, <1>6 DEF Works
  <1>8. p + 1 \in DOMAIN tdns[q] /\ p + 1 \in 1..Len(tdns[q]) /\ t \in ToSet(tdns[q]) /\ t \in Tds
    BY <1>5, <1>6, <1>7 DEF ToSet
  <1>9. td[t].status \in {"off", "active", "halted"} /\ td \in [Tds -> TdType]
    BY <1>4, <1>6, <1>7, <1>8 DEF ToDo, Types, QueueTypes
  <1>10. s \in {"active", "halted", "done", "error"}
    OBVIOUS
  <1>11. /\ td' \in [Tds -> TdType] /\ td'[t].status = s
         /\ \A u \in Tds : u # t => td'[u] = td[u]
         /\ \A u \in Tds : /\ td'[u].next = td[u].next /\ td'[u].cb = td[u].cb
                           /\ td'[u].ioc = td[u].ioc
                           /\ (td'[u].status = "unused") <=> (td[u].status = "unused")
                           /\ (td'[u].status = "freed") <=> (td[u].status = "freed")
    BY <1>3, <1>8, <1>9, <1>10, Restatus
  <1>12. /\ overlay'[q].status = s /\ overlay'[q].cur = t /\ overlay'[q].next = overlay[q].next
         /\ overlay'[q] \in OverlayType /\ overlay' \in [Heads -> OverlayType]
         /\ \A r \in Heads : r # q => overlay'[r] = overlay[r]
    <2>1. overlay \in [Heads -> OverlayType]
      BY <1>4 DEF Types, QueueTypes
    <2>2. overlay'[q] = [overlay[q] EXCEPT !.status = s]
      BY <1>1, <2>1
    <2>3. /\ overlay'[q].status = s /\ overlay'[q].cur = t /\ overlay'[q].next = overlay[q].next
          /\ overlay'[q] \in OverlayType
      BY <1>2, <1>5, <2>2 DEF OverlayType
    <2> QED
      BY <1>1, <2>1, <2>3
  <1>13. TypeInv'
    <2>1. RegTypes'
      BY <1>1, <1>4 DEF Types, RegTypes
    <2> QED
      BY <1>1, <1>4, <1>11, <1>12, <2>1, TypesAre DEF Inv, TypeInv, Types, RingTypes, QueueTypes
  <1>14. InRing' = InRing /\ Answered' = Answered /\ ("adv" \in usbsts' => "adv" \in usbsts)
    BY <1>1 DEF InRing, Answered
  <1>15. Links' /\ Removed' /\ RingInv' /\ DoorInv' /\ HandlerInv' /\ MemorySafe'
    BY <1>1, <1>14, LinksFrame, RemovedFrame, RingFrame, SameStages, DoorFrame, HandlerFrame, MemoryFrame DEF Inv
  <1>16. Owned' /\ Telling'
    <2>1. Owned /\ Telling /\ tdns \in [Heads -> Seq(Tds)] /\ UNCHANGED <<qh, tdns, told>>
      BY <1>1, <1>4 DEF Inv, Types, QueueTypes
    <2> QED
      BY <1>11, <2>1, StatusKeeps
  <1>17. ClientInv'
    <2>1. c.tds \in Seq(Tds) /\ \A i \in DOMAIN c.tds : c.tds[i] \in Tds /\ c.tds[i] \in ToSet(c.tds)
      BY <1>4 DEF Types, ClientType, ToSet
    <2>2. ASSUME Fresh, NEW i \in DOMAIN c.tds PROVE td'[c.tds[i]] = td[c.tds[i]]
      <3>1. c.tds[i] \notin ToSet(tdns[q])
        BY <2>1, <2>2 DEF Inv, ClientInv, Prepared
      <3> QED
        BY <1>8, <1>11, <2>1, <3>1
    <2>3. ASSUME c.pc = "activate"
          PROVE  \/ td'[Last(c.tds)].status = "off"
                 \/ qh[c.q] = "freed" /\ td'[Last(c.tds)].status = "freed"
      <3>1. /\ c.tds # <<>> /\ c.q \in Heads
            /\ \/ td[Last(c.tds)].status = "off"
               \/ qh[c.q] = "freed" /\ td[Last(c.tds)].status = "freed"
        BY <2>3 DEF Inv, ClientInv, Serving, Activating, Busy, Known
      <3>2. Len(c.tds) \in DOMAIN c.tds /\ Last(c.tds) = c.tds[Len(c.tds)]
        BY <2>1, <3>1 DEF Last
      <3>3. Last(c.tds) \in Tds /\ Last(c.tds) \in ToSet(tdns[c.q])
        <4>1. ToSet(c.tds) \subseteq ToSet(tdns[c.q])
          BY <1>4, <2>3, AtEndIn DEF Inv
        <4> QED
          BY <2>1, <3>2, <4>1
      <3>4. CASE Last(c.tds) = t
        <4>1. c.q = q
          BY <1>8, <3>1, <3>3, <3>4 DEF Inv, Owned, Apart
        <4>2. td[t].status \in {"active", "halted"}
          BY <1>1, <1>2, <1>5, <3>1, <4>1 DEF Inv, Working, QueueWorks, InRing
        <4> QED
          BY <3>1, <3>4, <4>2
      <3>5. CASE Last(c.tds) # t
        BY <1>11, <3>1, <3>3, <3>5
      <3> QED
        BY <3>4, <3>5
    <2>4. Clean({"crossed"})' => Clean({"crossed"})
      BY DEF Clean
    <2>5. Clean({"crossed", "emptied", "torn"})' => Clean({"crossed", "emptied", "torn"})
      BY DEF Clean
    <2>6. ClientInv /\ Busy' = Busy /\ Fresh' = Fresh /\ Linked' = Linked
          /\ \A r : Known(r)' = Known(r)
      BY <1>1 DEF Inv, Busy, Fresh, Linked, Adding, Known
    <2>7. Serving' /\ Found' /\ Walking'
      BY <1>1, <1>14, <2>4, <2>5, <2>6 DEF ClientInv, Serving, Found, Walking
    <2>8. Prepared'
      BY <1>1, <2>2, <2>6 DEF ClientInv, Prepared
    <2>9. Distinct'
      BY <1>1, <1>11, <2>1, <2>6 DEF ClientInv, Distinct
    <2>10. Activating'
      BY <1>1, <2>3, <2>6 DEF ClientInv, Activating, AtEnd
    <2> QED
      BY <2>7, <2>8, <2>9, <2>10 DEF ClientInv
  <1>18. Working'
    <2> SUFFICES ASSUME NEW r \in Heads, qh[r] # "freed" PROVE QueueWorks(r)'
      BY <1>1 DEF Working
    <2>1. QueueWorks(r) /\ tdns[r] \in Seq(Tds) /\ overlay[r] \in OverlayType
      BY <1>4 DEF Inv, Working, Types, QueueTypes
    <2>2. CASE r # q
      <3>1. overlay'[r] = overlay[r] /\ overlay[r].cur \in Tds \cup {Null}
        BY <1>12, <2>1, <2>2 DEF OverlayType
      <3>2. ASSUME NEW u \in ToSet(tdns[r]) PROVE td'[u].status = td[u].status
        <4>1. u \in Tds
          BY <2>1 DEF ToSet
        <4>2. u # t
          BY <1>8, <2>2 DEF Inv, Owned, Apart
        <4> QED
          BY <1>11, <4>1, <4>2
      <3>3. \A u \in Tds : td[u].status = "freed" => td'[u].status = "freed"
        BY <1>11
      <3> QED
        BY <1>1, <2>1, <3>1, <3>2, <3>3, QueueKeeps
    <2>3. CASE r = q
      <3>1. ASSUME NEW i \in DOMAIN tdns[q], i # p + 1 PROVE tdns[q][i] # t /\ td'[tdns[q][i]] = td[tdns[q][i]]
        <4>1. tdns[q][i] \in Tds /\ tdns[q][i] # tdns[q][p + 1]
          BY <1>5, <1>8, <3>1 DEF Inv, Owned, OwnQueue
        <4> QED
          BY <1>7, <1>11, <4>1
      <3>2. ToDo(q, p + 1)'
        <4>1. \A i \in DOMAIN tdns[q] : i > p + 1 => i > p /\ i # p + 1
          BY <1>5, <1>6
        <4> QED
          BY <1>1, <1>7, <3>1, <4>1 DEF ToDo
      <3>3. LeadsTo(q, p + 1)'
        BY <1>1, <1>7, <1>12 DEF LeadsTo
      <3>4. \A i \in 1..p : i \in DOMAIN tdns[q] /\ i # p + 1
        BY <1>5, <1>6
      <3>5. \A i \in 1..p : td'[tdns[q][i]].status = "done"
        BY <1>6, <3>1, <3>4 DEF Works
      <3>6. CASE s = "done"
        <4>1. \A i \in 1..(p + 1) : i \in 1..p \/ i = p + 1
          BY <1>6
        <4>2. \A i \in 1..(p + 1) : td'[tdns[q][i]].status = "done"
          BY <1>7, <1>11, <3>5, <3>6, <4>1
        <4>3. Works(q, p + 1)'
          BY <1>1, <1>12, <3>1, <3>2, <3>3, <3>6, <4>2 DEF Works
        <4>4. p + 1 \in 0..Len(tdns[q])
          BY <1>6, <1>7, <1>5
        <4> QED
          BY <1>1, <1>8, <1>12, <2>3, <3>6, <4>3, <4>4 DEF QueueWorks
      <3>7. CASE s = "error"
        <4>1. Works(q, p)'
          BY <1>1, <1>7, <1>11, <1>12, <3>2, <3>5, <3>7 DEF Works
        <4> QED
          BY <1>1, <1>6, <1>8, <1>12, <2>3, <3>7, <4>1 DEF QueueWorks
      <3> QED
        BY <3>6, <3>7
    <2> QED
      BY <2>2, <2>3
  <1>19. ControllerSafe'
    BY <1>1, <1>13, <1>16, <1>18, ControllerStays
  <1> QED
    BY <1>13, <1>15, <1>16, <1>17, <1>18, <1>19 DEF Inv

LEMMA HwDoneKeeps ==
    ASSUME Inv, NEW q \in Heads, HwDone(q)
    PROVE  Inv'
  <1>1. PICK s : s = "done"
    OBVIOUS
  <1>2. HwFinish(q, s) /\ usbsts \subseteq usbsts' /\ usbsts' \subseteq usbsts \cup {"usb", "err"}
        /\ slips \subseteq slips' /\ s \in {"done", "error"}
    BY <1>1 DEF HwDone
  <1> QED
    BY <1>2, HwFinishKeeps

LEMMA HwErrorKeeps ==
    ASSUME Inv, NEW q \in Heads, HwError(q)
    PROVE  Inv'
  <1>1. PICK s : s = "error"
    OBVIOUS
  <1>2. HwFinish(q, s) /\ usbsts \subseteq usbsts' /\ usbsts' \subseteq usbsts \cup {"usb", "err"}
        /\ slips \subseteq slips' /\ s \in {"done", "error"}
    BY <1>1 DEF HwError, Slip
  <1> QED
    BY <1>2, HwFinishKeeps

LEMMA UnplugKeeps ==
    ASSUME Inv, NEW q \in Heads, Unplug(q)
    PROVE  Inv'
  <1>1. /\ Running /\ gone' = gone \cup {q} /\ usbsts' = usbsts \cup {"port"}
        /\ UNCHANGED <<tail, next, qhlptr, qh, was_cancelled, db_pending, tdns, td, overlay, told,
                       usbintr, doorbell, hw, c, h, bound, slips, fault>>
    BY DEF Unplug, ring, removal, queue, history
  <1>2. Types
    BY TypesAre DEF Inv, TypeInv
  <1>3. TypeInv'
    <2>1. RegTypes' /\ gone' \subseteq Heads
      BY <1>1, <1>2 DEF Inv, TypeInv, Types, RegTypes
    <2> QED
      BY <1>1, <1>2, <2>1, TypesAre DEF Inv, TypeInv, Types, RingTypes, QueueTypes
  <1>4. /\ InRing' = InRing /\ Answered' = Answered /\ ("adv" \in usbsts' => "adv" \in usbsts)
        /\ usbsts \subseteq usbsts'
    BY <1>1 DEF InRing, Answered
  <1>5. /\ Links' /\ Removed' /\ Telling' /\ Owned' /\ Working' /\ RingInv' /\ DoorInv'
        /\ HandlerInv' /\ MemorySafe'
    BY <1>1, <1>4, LinksFrame, RemovedFrame, TellingFrame, OwnedFrame, WorkingFrame, RingFrame, SameStages,
       DoorFrame, HandlerFrame, MemoryFrame DEF Inv
  <1>6. ClientInv'
    BY <1>1, ClientFrame DEF Inv
  <1>7. ControllerSafe'
    BY <1>1, ControllerFrame
  <1> QED
    BY <1>3, <1>5, <1>6, <1>7 DEF Inv
-----------------------------------------------------------------------------
(* The client.                                                             *)

LEMMA ClientMoves ==
    ASSUME c \in ClientType, NEW s \in Stages, c' = [c EXCEPT !.pc = s]
    PROVE  /\ c' \in ClientType /\ c'.pc = s /\ c'.q = c.q /\ c'.tds = c.tds /\ c'.cb = c.cb
           /\ c'.at = c.at
  BY DEF ClientType

\* The client works on as before, or ends its call, and takes away no TD that the
\* handler is about to halt.
StaysWith ==
    /\ SameAdding
    /\ c'.pc \in {"idle", "walk"} \/ (c'.q = c.q /\ c.pc \notin {"idle", "walk"})
    /\ h.pc = "halt" /\ h.td \in ToSet(tdns[h.q]) =>
          h.td \in ToSet(tdns'[h.q]) \/ "crossed" \in slips'

\* What a step of the client leaves alone, once the queue head is in the ring.
LEMMA ClientLeaves ==
    ASSUME Inv, UNCHANGED <<tail, next, qhlptr, qh, was_cancelled, db_pending, usbsts, doorbell,
                            hw, h, gone, bound>>, slips \subseteq slips', StaysWith
    PROVE  /\ Links' /\ Removed' /\ RingInv' /\ DoorInv' /\ HandlerInv'
           /\ InRing' = InRing
           /\ QueueTypes' /\ c' \in ClientType /\ usbintr' \in BOOLEAN => TypeInv'
  <1>1. SameAdding /\ SameRemoving /\ Answered' = Answered
    BY SameStages DEF StaysWith, Answered
  <1>2. InRing' = InRing /\ Passable' = Passable
    BY <1>1, SettledFrame
  <1>3. Links' /\ Removed' /\ RingInv' /\ DoorInv'
    BY <1>1, LinksFrame, RemovedFrame, RingFrame, DoorFrame DEF Inv
  <1>4. HandlerInv'
    <2>1. HandlerInv /\ Cancelling' = Cancelling /\ Removing' = Removing
      BY DEF Inv, Cancelling, Removing
    <2>2. Clean({"emptied", "torn"})' => Clean({"emptied", "torn"})
      BY DEF Clean
    <2>3. Clean({"crossed"})' => Clean({"crossed"}) /\ "crossed" \notin slips'
      BY DEF Clean
    <2>4. Clean({"crossed"})' =>
            /\ Cancelling /\ c'.q = h.q => c'.pc \in {"idle", "walk"}
            /\ h.pc = "halt" /\ h.td # Null => h.td \in ToSet(tdns'[h.q])
      BY <2>1, <2>3 DEF HandlerInv, StaysWith
    <2> QED
      BY <1>2, <2>1, <2>2, <2>4 DEF HandlerInv
  <1>5. Types
    BY TypesAre DEF Inv, TypeInv
  <1>6. ASSUME QueueTypes', c' \in ClientType, usbintr' \in BOOLEAN PROVE TypeInv'
    BY <1>5, <1>6, TypesAre DEF Inv, TypeInv, Types, RingTypes, RegTypes
  <1> QED
    BY <1>2, <1>3, <1>4, <1>6

LEMMA DrainKeeps ==
    ASSUME Inv, Drain
    PROVE  Inv'
  <1>1. /\ Running /\ c.pc = "drain" /\ usbintr' = FALSE
        /\ UNCHANGED <<tail, next, qhlptr, qh, was_cancelled, db_pending, tdns, td, overlay, told,
                       usbsts, doorbell, hw, h, gone, bound, slips, fault>>
    BY DEF Drain, Stage, ClientKeeps, ring, removal, queue, history
  <1>2. Types
    BY TypesAre DEF Inv, TypeInv
  <1>3. c' \in ClientType /\ c'.pc = "test" /\ c'.q = c.q /\ c'.tds = c.tds
    <2>1. PICK s : s = "test"
      OBVIOUS
    <2>2. c \in ClientType /\ s \in Stages /\ c' = [c EXCEPT !.pc = s]
      BY <1>2, <2>1 DEF Drain, Types, Stages
    <2> QED
      BY <2>1, <2>2, ClientMoves
  <1>4. Links' /\ Removed' /\ RingInv' /\ DoorInv' /\ HandlerInv' /\ InRing' = InRing /\ TypeInv'
    <2>1. QueueTypes'
      BY <1>1, <1>2 DEF Types, QueueTypes
    <2>2. StaysWith
      BY <1>1, <1>3 DEF StaysWith, SameAdding, Adding, AddStages
    <2> QED
      BY <1>1, <1>3, <2>1, <2>2, ClientLeaves
  <1>5. Owned' /\ Telling' /\ Working' /\ ControllerSafe' /\ MemorySafe'
    BY <1>1, OwnedFrame, TellingFrame, WorkingFrame, ControllerFrame, MemoryFrame DEF Inv
  <1>6. ClientInv'
    BY <1>1, <1>3, <1>4 DEF Inv, ClientInv, Serving, Prepared, Distinct, Activating, Found, Walking,
                            Busy, Fresh, Linked, AtEnd, Clean, Adding,
                            AddStages, Known
  <1> QED
    BY <1>4, <1>5, <1>6 DEF Inv

\* Without a crossing the TDs that the client has linked are there.
LEMMA NotFreed ==
    ASSUME Inv, Linked, Clean({"crossed"}), NEW i \in DOMAIN c.tds
    PROVE  td[c.tds[i]].status # "freed"
  <1>1. c.q \in Heads /\ qh[c.q] = "ring" /\ c.tds[i] \in ToSet(tdns[c.q])
    BY DEF Inv, ClientInv, Serving, Found, Linked, Busy, InRing, ToSet
  <1>2. PICK j \in DOMAIN tdns[c.q] : tdns[c.q][j] = c.tds[i]
    BY <1>1 DEF ToSet
  <1> QED
    BY <1>1, <1>2 DEF Inv, Owned, OwnQueue, Chained

\* A step that only ends the system in an error.
LEMMA FaultKeeps ==
    ASSUME Inv, Running, ~Clean({"crossed", "emptied", "torn"}),
           UNCHANGED <<ring, qh, removal, queue, regs, hw, c, h, gone, bound, slips>>
    PROVE  Inv'
  <1>1. UNCHANGED <<tail, next, qhlptr, qh, was_cancelled, db_pending, tdns, td, overlay, told,
                    usbsts, usbintr, doorbell, hw, c, h, gone, bound, slips>>
    BY DEF ring, removal, queue, regs
  <1>2. Types
    BY TypesAre DEF Inv, TypeInv
  <1>3. Links' /\ Removed' /\ RingInv' /\ DoorInv' /\ HandlerInv' /\ InRing' = InRing /\ TypeInv'
    <2>1. QueueTypes' /\ c' \in ClientType /\ usbintr' \in BOOLEAN
      BY <1>1, <1>2 DEF Types, QueueTypes, RegTypes
    <2>2. StaysWith
      BY <1>1 DEF StaysWith, SameAdding, Adding, AddStages
    <2> QED
      BY <1>1, <2>1, <2>2, ClientLeaves
  <1>4. Owned' /\ Telling' /\ Working' /\ ControllerSafe' /\ ClientInv'
    BY <1>1, <1>3, OwnedFrame, TellingFrame, WorkingFrame, ControllerFrame, ClientFrame DEF Inv
  <1>5. MemorySafe'
    BY <1>1 DEF MemorySafe, Clean
  <1> QED
    BY <1>3, <1>4, <1>5 DEF Inv

LEMMA ReadLinkKeeps ==
    ASSUME Inv, ReadLink
    PROVE  Inv'
  <1>1. /\ Running /\ c.pc = "read"
        /\ UNCHANGED <<tail, next, qhlptr, qh, was_cancelled, db_pending, tdns, td, overlay, told,
                       usbsts, usbintr, doorbell, hw, h, gone, bound>>
    BY DEF ReadLink, Stage, ClientKeeps, ring, removal, queue
  <1>2. Types
    BY TypesAre DEF Inv, TypeInv
  <1>3. c.tds \in Seq(Tds) /\ c.tds # <<>>
    BY <1>1, <1>2 DEF Inv, ClientInv, Serving, Busy, Types, ClientType
  <1>4. CASE td[Last(c.tds)].status = "freed"
    <2>1. Len(c.tds) \in DOMAIN c.tds /\ Last(c.tds) = c.tds[Len(c.tds)]
      BY <1>3 DEF Last
    <2>2. Linked /\ ~Clean({"crossed"})
      BY <1>1, <1>4, <2>1, NotFreed DEF Linked
    <2>3. ~Clean({"crossed", "emptied", "torn"})
      BY <2>2 DEF Clean
    <2>4. UNCHANGED <<ring, qh, removal, queue, regs, hw, c, h, gone, bound, slips>>
      BY <1>1, <1>4 DEF ReadLink, Fault, ring, removal, queue, regs
    <2> QED
      BY <1>1, <2>3, <2>4, FaultKeeps
  <1>5. CASE td[Last(c.tds)].status # "freed"
    <2>1. PICK s : s = IF c.cb THEN "idle" ELSE "wait"
      OBVIOUS
    <2>2. c' = [c EXCEPT !.pc = s] /\ UNCHANGED <<slips, fault>> /\ s \in Stages /\ s \in {"idle", "wait"}
      BY <1>5, <2>1 DEF ReadLink, NoSlip, history, Stages
    <2>3. c' \in ClientType /\ c'.pc = s /\ c'.q = c.q /\ c'.tds = c.tds
      <3>1. c \in ClientType
        BY <1>2 DEF Types
      <3> QED
        BY <2>2, <3>1, ClientMoves
    <2>4. Links' /\ Removed' /\ RingInv' /\ DoorInv' /\ HandlerInv' /\ InRing' = InRing /\ TypeInv'
      <3>1. QueueTypes' /\ usbintr' \in BOOLEAN
        BY <1>1, <1>2 DEF Types, QueueTypes, RegTypes
      <3>2. StaysWith
        BY <1>1, <2>2, <2>3 DEF StaysWith, SameAdding, Adding, AddStages
      <3> QED
        BY <1>1, <2>2, <2>3, <3>1, <3>2, ClientLeaves
    <2>5. Owned' /\ Telling' /\ Working' /\ ControllerSafe' /\ MemorySafe'
      BY <1>1, <2>2, OwnedFrame, TellingFrame, WorkingFrame, ControllerFrame, MemoryFrame DEF Inv
    <2>6. ClientInv'
      <3>1. Prepared' /\ Distinct' /\ Activating' /\ Walking'
        BY <2>2, <2>3 DEF Prepared, Distinct, Activating, Walking, Fresh, Adding, AddStages
      <3>2. Serving'
        BY <1>1, <2>2, <2>3, <2>4 DEF Inv, ClientInv, Serving, Busy, Known, Clean
      <3>3. Found'
        BY <1>1, <2>2, <2>3 DEF Inv, ClientInv, Found, Linked, Clean
      <3> QED
        BY <3>1, <3>2, <3>3 DEF ClientInv
    <2> QED
      BY <2>4, <2>5, <2>6 DEF Inv
  <1> QED
    BY <1>4, <1>5

LEMMA WaitKeeps ==
    ASSUME Inv, Wait
    PROVE  Inv'
  <1>1. /\ Running /\ c.pc = "wait"
        /\ UNCHANGED <<tail, next, qhlptr, qh, was_cancelled, db_pending, tdns, td, overlay, told,
                       usbsts, usbintr, doorbell, hw, h, gone, bound>>
    BY DEF Wait, Stage, ClientKeeps, ring, removal, queue
  <1>2. Types
    BY TypesAre DEF Inv, TypeInv
  <1>3. PICK status : status = {td[t].status : t \in ToSet(c.tds)}
    OBVIOUS
  <1>4. \/ "freed" \in status /\ Fault("polled") /\ UNCHANGED c
        \/ /\ slips \subseteq slips' /\ fault' = fault
           /\ c' = [c EXCEPT !.pc = "walk", !.at = tail]
    BY <1>3 DEF Wait, NoSlip, history, Slip
  <1>5. CASE "freed" \in status /\ Fault("polled") /\ UNCHANGED c
    <2>1. PICK t \in ToSet(c.tds) : td[t].status = "freed"
      BY <1>3, <1>5
    <2>2. PICK i \in DOMAIN c.tds : t = c.tds[i]
      BY <2>1 DEF ToSet
    <2>3. Linked /\ ~Clean({"crossed"})
      BY <1>1, <2>1, <2>2, NotFreed DEF Linked
    <2>4. ~Clean({"crossed", "emptied", "torn"})
      BY <2>3 DEF Clean
    <2>5. UNCHANGED <<ring, qh, removal, queue, regs, hw, c, h, gone, bound, slips>>
      BY <1>1, <1>5 DEF Fault, ring, removal, queue, regs
    <2> QED
      BY <1>1, <2>4, <2>5, FaultKeeps
  <1>6. CASE /\ slips \subseteq slips' /\ fault' = fault
             /\ c' = [c EXCEPT !.pc = "walk", !.at = tail]
    <2>1. c' \in ClientType /\ c'.pc = "walk" /\ c'.q = c.q /\ c'.tds = c.tds /\ c'.at = tail
      BY <1>2, <1>6 DEF Types, ClientType, RingTypes, Stages
    <2>2. Links' /\ Removed' /\ RingInv' /\ DoorInv' /\ HandlerInv' /\ InRing' = InRing /\ TypeInv'
      <3>1. QueueTypes' /\ usbintr' \in BOOLEAN
        BY <1>1, <1>2 DEF Types, QueueTypes, RegTypes
      <3>2. StaysWith
        BY <1>1, <1>6, <2>1 DEF StaysWith, SameAdding, Adding, AddStages
      <3> QED
        BY <1>1, <1>6, <2>1, <3>1, <3>2, ClientLeaves
    <2>3. Owned' /\ Telling' /\ Working' /\ ControllerSafe' /\ MemorySafe'
      BY <1>1, <1>6, OwnedFrame, TellingFrame, WorkingFrame, ControllerFrame, MemoryFrame DEF Inv
    <2>4. Clean({"crossed", "emptied", "torn"})' => tail \in InRing
      <3>1. Clean({"crossed", "emptied", "torn"})' => c.q \in InRing
        BY <1>1, <1>6 DEF Inv, ClientInv, Serving, Clean
      <3>2. Clean({"crossed", "emptied", "torn"})' => Ringed
        BY <1>6 DEF Clean, Inv, RingInv
      <3> QED
        BY <3>1, <3>2 DEF Ringed, TailIn, Settled, InRing
    <2>5. ClientInv'
      BY <1>1, <2>1, <2>2, <2>4 DEF Inv, ClientInv, Serving, Prepared, Distinct, Activating, Found,
                                    Walking, Busy, Fresh, Linked, AtEnd, Adding, AddStages, Known
    <2> QED
      BY <2>2, <2>3, <2>5 DEF Inv
  <1> QED
    BY <1>4, <1>5, <1>6

LEMMA TestQueueKeeps ==
    ASSUME Inv, TestQueue
    PROVE  Inv'
  <1>1. /\ Running /\ c.pc = "test"
        /\ qh[c.q] # "freed"
        /\ UNCHANGED <<tail, next, qhlptr, qh, was_cancelled, db_pending, td, told,
                       usbsts, usbintr, doorbell, hw, h, gone, bound, slips, fault>>
    BY DEF TestQueue, Stage, ClientKeeps, ring, removal, history
  <1>2. Types
    BY TypesAre DEF Inv, TypeInv
  <1>3. /\ c.q \in Heads /\ qh[c.q] \notin {"none", "freed"} /\ Serving
        /\ c.tds \in Seq(Tds) /\ c.tds # <<>> /\ c \in ClientType
    BY <1>1, <1>2 DEF Inv, ClientInv, Serving, Busy, Known, Types, ClientType
  <1>4. PICK q, ts : q = c.q /\ ts = c.tds
    OBVIOUS
  <1>5. /\ \A i \in DOMAIN ts : td[ts[i]].status = "off" /\ ts[i] \in Tds
        /\ \A r \in Heads : ToSet(ts) \cap ToSet(tdns[r]) = {}
        /\ \A i, j \in DOMAIN ts : i # j => ts[i] # ts[j]
        /\ \A i \in DOMAIN ts : i < Len(ts) => ~td[ts[i]].ioc
        /\ \A i \in DOMAIN ts : td[ts[i]].next = IF i < Len(ts) THEN ts[i + 1] ELSE Null
    BY <1>1, <1>3, <1>4 DEF Inv, ClientInv, Prepared, Distinct, Fresh, Adding, AddStages
  <1>6. CASE tdns[q] # <<>>
    <2>1. /\ UNCHANGED <<overlay, tdns>>
          /\ c' \in ClientType /\ c'.pc = "lock" /\ c'.q = c.q /\ c'.tds = c.tds
      <3>1. PICK s : s = "lock"
        OBVIOUS
      <3>2. UNCHANGED <<overlay, tdns>> /\ c' = [c EXCEPT !.pc = s] /\ s \in Stages
        BY <1>4, <1>6, <3>1 DEF TestQueue, Stages
      <3> QED
        BY <1>3, <3>1, <3>2, ClientMoves
    <2>2. Links' /\ Removed' /\ RingInv' /\ DoorInv' /\ HandlerInv' /\ InRing' = InRing /\ TypeInv'
      <3>1. QueueTypes' /\ usbintr' \in BOOLEAN
        BY <1>1, <1>2, <2>1 DEF Types, QueueTypes, RegTypes
      <3>2. StaysWith
        BY <1>1, <2>1 DEF StaysWith, SameAdding, Adding, AddStages, ToSet
      <3> QED
        BY <1>1, <2>1, <3>1, <3>2, ClientLeaves
    <2>3. Owned' /\ Telling' /\ Working' /\ ControllerSafe' /\ MemorySafe'
      BY <1>1, <2>1, OwnedFrame, TellingFrame, WorkingFrame, ControllerFrame, MemoryFrame DEF Inv
    <2>4. ClientInv'
      <3>1. Activating' /\ Walking' /\ Found' /\ Serving'
        BY <1>1, <1>3, <1>4, <1>6, <2>1, <2>2 DEF Activating, Walking, Found, Serving, Linked, Busy, Known, Clean
      <3>2. Prepared' /\ Distinct'
        BY <1>1, <2>1 DEF Inv, ClientInv, Prepared, Distinct, Fresh, Adding, AddStages
      <3> QED
        BY <3>1, <3>2 DEF ClientInv
    <2> QED
      BY <2>2, <2>3, <2>4 DEF Inv
  <1>7. CASE tdns[q] = <<>>
    <2>1. /\ overlay' = [overlay EXCEPT ![q].next = Head(ts)] /\ tdns' = [tdns EXCEPT ![q] = ts]
          /\ c' \in ClientType /\ c'.pc = "activate" /\ c'.q = q /\ c'.tds = ts
      <3>1. PICK s : s = "activate"
        OBVIOUS
      <3>2. /\ overlay' = [overlay EXCEPT ![q].next = Head(ts)] /\ tdns' = [tdns EXCEPT ![q] = ts]
            /\ c' = [c EXCEPT !.pc = s] /\ s \in Stages
        BY <1>4, <1>7, <3>1 DEF TestQueue, Stages
      <3> QED
        BY <1>3, <1>4, <3>1, <3>2, ClientMoves
    <2>2. /\ ts \in Seq(Tds) /\ ts # <<>> /\ q \in Heads /\ Head(ts) = ts[1] /\ 1 \in DOMAIN ts
          /\ Len(ts) \in Nat \ {0} /\ DOMAIN ts = 1..Len(ts) /\ Last(ts) = ts[Len(ts)]
          /\ Len(ts) \in DOMAIN ts
      BY <1>3, <1>4 DEF Last
    <2>3. /\ tdns' \in [Heads -> Seq(Tds)] /\ tdns'[q] = ts
          /\ \A r \in Heads : r # q => tdns'[r] = tdns[r] /\ overlay'[r] = overlay[r]
      BY <1>2, <2>1, <2>2 DEF Types, QueueTypes
    <2>4. /\ overlay' \in [Heads -> OverlayType] /\ overlay'[q].next = ts[1]
          /\ overlay'[q].cur = overlay[q].cur /\ overlay'[q].status = overlay[q].status
      <3>1. overlay \in [Heads -> OverlayType] /\ overlay[q] \in OverlayType /\ ts[1] \in Tds
        BY <1>2, <1>5, <2>2 DEF Types, QueueTypes
      <3>2. overlay'[q] = [overlay[q] EXCEPT !.next = ts[1]]
        BY <2>1, <2>2, <3>1
      <3>3. /\ overlay'[q] \in OverlayType /\ overlay'[q].next = ts[1]
            /\ overlay'[q].cur = overlay[q].cur /\ overlay'[q].status = overlay[q].status
        BY <3>1, <3>2 DEF OverlayType
      <3> QED
        BY <2>1, <3>1, <3>3
    <2>5. Links' /\ Removed' /\ RingInv' /\ DoorInv' /\ HandlerInv' /\ InRing' = InRing /\ TypeInv'
      <3>1. QueueTypes' /\ usbintr' \in BOOLEAN
        BY <1>1, <1>2, <2>3, <2>4 DEF Types, QueueTypes, RegTypes
      <3>2. StaysWith
        BY <1>1, <1>4, <1>7, <2>1 DEF StaysWith, SameAdding, Adding, AddStages, ToSet
      <3> QED
        BY <1>1, <2>1, <3>1, <3>2, ClientLeaves
    <2>6. ClientInv'
      <3>1. Prepared' /\ Walking' /\ Serving'
        BY <1>1, <1>3, <1>4, <2>1, <2>5 DEF Prepared, Walking, Serving, Fresh, Adding, AddStages, Busy, Known, Clean
      <3>2. Distinct'
        BY <1>1, <1>5, <2>1 DEF Distinct
      <3>3. Found'
        BY <2>1, <2>3 DEF Found
      <3>4. AtEnd'
        <4>1. \A i \in DOMAIN ts : Len(ts) - Len(ts) + i = i
          BY <2>2
        <4> QED
          BY <2>1, <2>2, <2>3, <4>1 DEF AtEnd
      <3>5. Activating'
        BY <1>1, <1>5, <2>1, <2>2, <3>4 DEF Activating
      <3> QED
        BY <3>1, <3>2, <3>3, <3>5 DEF ClientInv
    <2>7. Owned'
      <3>1. Used' = Used
        BY <1>1 DEF Used
      <3>2. ToSet(ts) \subseteq Used
        BY <1>5 DEF Used, ToSet
      <3>3. Owned
        BY DEF Inv
      <3>4. \A r \in Heads : r # q => ToSet(tdns'[r]) \cap ToSet(ts) = {}
        BY <1>5, <2>3
      <3>5. OwnQueue(q)'
        BY <1>1, <1>3, <1>4, <1>5, <2>3, <3>1, <3>2 DEF OwnQueue, Chained
      <3>6. \A r, u \in Heads : r # u => ToSet(tdns'[r]) \cap ToSet(tdns'[u]) = {}
        BY <2>3, <3>3, <3>4 DEF Owned, Apart
      <3>7. ASSUME NEW r \in Heads PROVE OwnQueue(r)'
        <4>1. OwnQueue(r)
          BY <3>3 DEF Owned
        <4>2. CASE r # q
          BY <1>1, <2>3, <3>1, <4>1, <4>2 DEF OwnQueue, Chained
        <4> QED
          BY <3>5, <4>2
      <3> QED
        BY <3>1, <3>3, <3>6, <3>7 DEF Owned, Counted, Apart
    <2>8. Working'
      <3> SUFFICES ASSUME NEW r \in Heads, qh[r] # "freed" PROVE QueueWorks(r)'
        BY <1>1 DEF Working
      <3>1. QueueWorks(r) /\ tdns[r] \in Seq(Tds) /\ overlay[r] \in OverlayType
        BY <1>2 DEF Inv, Working, Types, QueueTypes
      <3>2. CASE r # q
        <4>1. overlay[r].cur \in Tds \cup {Null}
          BY <3>1 DEF OverlayType
        <4> QED
          BY <1>1, <2>3, <3>1, <3>2, <4>1, QueueKeeps
      <3>3. CASE r = q
        <4>1. overlay[q].status = "done" /\ Len(tdns[q]) = 0 /\ ToSet(tdns[q]) = {}
          BY <1>7, <3>1, <3>3 DEF QueueWorks, Works, ToSet
        <4>2. overlay[q].cur = Null \/ td[overlay[q].cur].status = "freed"
          BY <3>1, <3>3, <4>1 DEF QueueWorks
        <4>3. \A i \in DOMAIN ts : ts[i] # overlay[q].cur
          BY <1>5, <4>2 DEF Null, Tds
        <4>4. ToDo(q, 0)'
          BY <1>1, <1>5, <2>3 DEF ToDo
        <4>5. LeadsTo(q, 0)'
          BY <2>2, <2>3, <2>4 DEF LeadsTo
        <4>6. Works(q, 0)'
          BY <2>3, <2>4, <4>1, <4>3, <4>4, <4>5 DEF Works
        <4>7. 0 \in 0..Len(tdns'[q])
          BY <2>2, <2>3
        <4> QED
          BY <1>1, <2>4, <3>3, <4>1, <4>2, <4>6, <4>7 DEF QueueWorks
      <3> QED
        BY <3>2, <3>3
    <2>9. Telling' /\ MemorySafe'
      BY <1>1, TellingFrame, MemoryFrame DEF Inv
    <2>10. ControllerSafe'
      BY <1>1, <2>5, <2>7, <2>8, ControllerStays
    <2> QED
      BY <2>5, <2>6, <2>7, <2>8, <2>9, <2>10 DEF Inv
  <1> QED
    BY <1>6, <1>7

LEMMA LockQueueKeeps ==
    ASSUME Inv, LockQueue
    PROVE  Inv'
  <1>1. /\ Running /\ c.pc = "lock"
        /\ qh[c.q] # "freed"
        /\ UNCHANGED <<tail, next, qhlptr, qh, was_cancelled, db_pending, tdns, td, told,
                       usbsts, usbintr, doorbell, hw, h, gone, bound>>
    BY DEF LockQueue, Stage, ClientKeeps, ring, removal
  <1>2. Types
    BY TypesAre DEF Inv, TypeInv
  <1>3. /\ c.q \in Heads /\ qh[c.q] \notin {"none", "freed"} /\ Serving
        /\ c.tds \in Seq(Tds) /\ c.tds # <<>> /\ c \in ClientType
    BY <1>1, <1>2 DEF Inv, ClientInv, Serving, Busy, Known, Types, ClientType
  <1>4. CASE tdns[c.q] = <<>>
    <2>1. ~Clean({"crossed", "emptied", "torn"})
      BY <1>1, <1>4 DEF Inv, ClientInv, Found, Clean
    <2>2. UNCHANGED <<ring, qh, removal, queue, regs, hw, c, h, gone, bound, slips>>
      BY <1>1, <1>4 DEF LockQueue, Fault, ring, removal, queue, regs
    <2> QED
      BY <1>1, <2>1, <2>2, FaultKeeps
  <1>5. CASE tdns[c.q] # <<>>
    <2>1. PICK q, ts : q = c.q /\ ts = c.tds
      OBVIOUS
    <2>2. /\ UNCHANGED <<slips, fault>>
          /\ c' \in ClientType /\ c'.pc = "link" /\ c'.q = c.q /\ c'.tds = c.tds
      <3>1. PICK s : s = "link"
        OBVIOUS
      <3>2. UNCHANGED <<slips, fault>> /\ c' = [c EXCEPT !.pc = s] /\ s \in Stages
        BY <1>5, <3>1 DEF LockQueue, NoSlip, history, Stages
      <3> QED
        BY <1>3, <3>1, <3>2, ClientMoves
    <2>3. /\ ts \in Seq(Tds) /\ Head(ts) \in Tds /\ q \in Heads /\ tdns[q] \in Seq(Tds)
          /\ tdns[q] # <<>> /\ overlay[q] \in OverlayType
      BY <1>2, <1>3, <1>5, <2>1 DEF Types, QueueTypes
    <2>4. PICK last \in BOOLEAN : last = (overlay[q].cur = Last(tdns[q]) /\ overlay[q].next = Null)
      OBVIOUS
    <2>5. /\ overlay' \in [Heads -> OverlayType]
          /\ \A r \in Heads : r # q => overlay'[r] = overlay[r]
          /\ overlay'[q].cur = overlay[q].cur /\ overlay'[q].status = overlay[q].status
          /\ ~last => overlay'[q].next = overlay[q].next
          /\ last => overlay'[q].next = Head(ts)
      <3>1. overlay \in [Heads -> OverlayType]
        BY <1>2 DEF Types, QueueTypes
      <3>2. CASE ~last
        <4>1. overlay' = overlay
          BY <1>5, <2>1, <2>4, <3>2 DEF LockQueue
        <4> QED
          BY <3>1, <3>2, <4>1
      <3>3. CASE last
        <4>1. overlay' = [overlay EXCEPT ![q].next = Head(ts)]
          BY <1>5, <2>1, <2>4, <3>3 DEF LockQueue
        <4>2. overlay'[q] = [overlay[q] EXCEPT !.next = Head(ts)]
          BY <2>3, <3>1, <4>1
        <4>3. /\ overlay'[q].next = Head(ts) /\ overlay'[q].cur = overlay[q].cur
              /\ overlay'[q].status = overlay[q].status /\ overlay'[q] \in OverlayType
          BY <2>3, <4>2 DEF OverlayType
        <4> QED
          BY <3>1, <3>3, <4>1, <4>3
      <3> QED
        BY <3>2, <3>3
    <2>6. Links' /\ Removed' /\ RingInv' /\ DoorInv' /\ HandlerInv' /\ InRing' = InRing /\ TypeInv'
      <3>1. QueueTypes' /\ usbintr' \in BOOLEAN
        BY <1>1, <1>2, <2>5 DEF Types, QueueTypes, RegTypes
      <3>2. StaysWith
        BY <1>1, <2>2 DEF StaysWith, SameAdding, Adding, AddStages
      <3> QED
        BY <1>1, <2>2, <3>1, <3>2, ClientLeaves
    <2>7. ClientInv'
      <3>1. Activating' /\ Walking' /\ Found' /\ Serving'
        BY <1>1, <1>3, <1>5, <2>2, <2>6 DEF Activating, Walking, Found, Serving, Linked, Busy, Known, Clean
      <3>2. Prepared' /\ Distinct'
        BY <1>1, <2>2 DEF Inv, ClientInv, Prepared, Distinct, Fresh, Adding, AddStages
      <3> QED
        BY <3>1, <3>2 DEF ClientInv
    <2>8. Owned' /\ Telling' /\ MemorySafe'
      BY <1>1, <2>2, OwnedFrame, TellingFrame, MemoryFrame DEF Inv
    <2>9. Working'
      <3> SUFFICES ASSUME NEW r \in Heads, qh[r] # "freed" PROVE QueueWorks(r)'
        BY <1>1 DEF Working
      <3>1. QueueWorks(r) /\ tdns[r] \in Seq(Tds) /\ overlay[r] \in OverlayType
        BY <1>2 DEF Inv, Working, Types, QueueTypes
      <3>2. CASE r # q
        <4>1. overlay[r].cur \in Tds \cup {Null}
          BY <3>1 DEF OverlayType
        <4> QED
          BY <1>1, <2>5, <3>1, <3>2, <4>1, QueueKeeps
      <3>3. CASE r = q
        <4>1. PICK p \in 0..Len(tdns[q]) : Works(q, p)
          BY <3>1, <3>3 DEF QueueWorks
        <4>2. PICK m : m = Len(tdns[q])
          OBVIOUS
        <4>3. m \in Nat \ {0} /\ m \in DOMAIN tdns[q] /\ Last(tdns[q]) = tdns[q][m] /\ p \in 0..m
              /\ DOMAIN tdns[q] = 1..m
          BY <2>3, <4>1, <4>2 DEF Last
        <4>4. \A i, j \in DOMAIN tdns[q] : tdns[q][i] = tdns[q][j] => i = j
          BY <2>3 DEF Inv, Owned, OwnQueue
        <4>5. ASSUME NEW n, LeadsTo(q, n), last => n = m PROVE LeadsTo(q, n)'
          <5>1. CASE last
            BY <1>1, <2>1, <2>2, <2>5, <4>2, <4>5, <5>1 DEF LeadsTo
          <5>2. CASE ~last
            BY <1>1, <2>5, <4>5, <5>2 DEF LeadsTo
          <5> QED
            BY <5>1, <5>2
        <4>6. \A n : ToDo(q, n) => ToDo(q, n)'
          BY <1>1 DEF ToDo
        <4>7. last /\ overlay[q].status = "done" => p = m
          BY <2>4, <4>1, <4>3 DEF Works
        <4>8. last /\ overlay[q].status = "active" => p + 1 = m
          <5>1. overlay[q].status = "active" => p + 1 \in DOMAIN tdns[q] /\ overlay[q].cur = tdns[q][p + 1]
            BY <4>1, <4>2, <4>3 DEF Works
          <5> QED
            BY <2>4, <4>3, <4>4, <5>1
        <4>9. Works(q, p)'
          BY <1>1, <2>5, <4>1, <4>5, <4>6, <4>7, <4>8 DEF Works
        <4> QED
          BY <1>1, <2>5, <3>1, <3>3, <4>1, <4>9 DEF QueueWorks
      <3> QED
        BY <3>2, <3>3
    <2>10. ControllerSafe'
      BY <1>1, <2>6, <2>8, <2>9, ControllerStays
    <2> QED
      BY <2>6, <2>7, <2>8, <2>9, <2>10 DEF Inv
  <1> QED
    BY <1>4, <1>5

LEMMA LinkQueueKeeps ==
    ASSUME Inv, LinkQueue
    PROVE  Inv'
  <1>1. /\ Running /\ c.pc = "link"
        /\ qh[c.q] # "freed"
        /\ UNCHANGED <<tail, next, qhlptr, qh, was_cancelled, db_pending, overlay, told,
                       usbsts, usbintr, doorbell, hw, h, gone, bound>>
    BY DEF LinkQueue, Stage, ClientKeeps, ring, removal
  <1>2. Types
    BY TypesAre DEF Inv, TypeInv
  <1>3. PICK q, ts, s : q = c.q /\ ts = c.tds /\ s = tdns[c.q]
    OBVIOUS
  <1>4. /\ q \in Heads /\ qh[q] \notin {"none", "freed"} /\ Serving
        /\ ts \in Seq(Tds) /\ ts # <<>> /\ c \in ClientType /\ s \in Seq(Tds) /\ s # <<>>
    BY <1>1, <1>2, <1>3 DEF Inv, ClientInv, Serving, Found, Busy, Known, Types, ClientType,
                               QueueTypes
  <1>5. /\ td' = [td EXCEPT ![Last(s)].next = Head(ts)]
        /\ tdns' = [tdns EXCEPT ![q] = s \o ts]
        /\ UNCHANGED <<slips, fault>>
        /\ c' \in ClientType /\ c'.pc = "activate" /\ c'.q = q /\ c'.tds = ts
    <2>1. PICK st : st = "activate"
      OBVIOUS
    <2>2. UNCHANGED <<slips, fault>> /\ c' = [c EXCEPT !.pc = st] /\ st \in Stages
      BY <1>3, <1>4, <2>1 DEF LinkQueue, NoSlip, history, Stages
    <2>3. td' = [td EXCEPT ![Last(s)].next = Head(ts)]
      BY <1>3, <1>4 DEF LinkQueue
    <2>4. tdns' = [tdns EXCEPT ![q] = s \o ts]
      BY <1>2, <1>3, <1>4 DEF LinkQueue, Types, QueueTypes
    <2> QED
      BY <1>3, <1>4, <2>1, <2>2, <2>3, <2>4, ClientMoves
  <1>6. PICK m, n : m = Len(s) /\ n = Len(ts)
    OBVIOUS
  <1>7. /\ m \in Nat \ {0} /\ n \in Nat \ {0} /\ DOMAIN s = 1..m /\ DOMAIN ts = 1..n
        /\ Last(s) = s[m] /\ Head(ts) = ts[1] /\ Last(ts) = ts[n] /\ s[m] \in Tds /\ ts[1] \in Tds
        /\ m \in DOMAIN s /\ 1 \in DOMAIN ts /\ n \in DOMAIN ts
    BY <1>4, <1>6 DEF Last
  <1>8. PICK w : w = s \o ts
    OBVIOUS
  <1>9. /\ w \in Seq(Tds) /\ Len(w) = m + n /\ DOMAIN w = 1..(m + n)
        /\ \A i \in 1..m : w[i] = s[i]
        /\ \A i \in 1..n : w[m + i] = ts[i]
    <2>1. w \in Seq(Tds) /\ Len(w) = m + n
      BY <1>4, <1>6, <1>8, ConcatProperties
    <2>2. \A i \in 1..(m + n) : w[i] = IF i <= m THEN s[i] ELSE ts[i - m]
      BY <1>4, <1>6, <1>8, ConcatProperties
    <2>3. \A i \in 1..m : i \in 1..(m + n) /\ i <= m
      BY <1>7
    <2>4. \A i \in 1..n : m + i \in 1..(m + n) /\ ~(m + i <= m) /\ (m + i) - m = i
      BY <1>7
    <2> QED
      BY <1>7, <2>1, <2>2, <2>3, <2>4
  <1>10. ASSUME NEW i \in DOMAIN w PROVE i \in 1..m \/ \E j \in 1..n : i = m + j
    <2>1. CASE i <= m
      BY <1>7, <1>9, <2>1
    <2>2. CASE ~(i <= m)
      <3>1. i - m \in 1..n /\ i = m + (i - m)
        BY <1>7, <1>9, <2>2
      <3> QED
        BY <3>1
    <2> QED
      BY <2>1, <2>2
  <1>11. /\ \A i \in 1..n : td[ts[i]].status = "off" /\ ts[i] \in Tds /\ ts[i] \in ToSet(ts)
         /\ \A r \in Heads : ToSet(ts) \cap ToSet(tdns[r]) = {}
         /\ \A i, j \in 1..n : i # j => ts[i] # ts[j]
         /\ \A i \in 1..n : i < n => ~td[ts[i]].ioc
         /\ \A i \in 1..n : td[ts[i]].next = IF i < n THEN ts[i + 1] ELSE Null
    <2>1. \A i \in 1..n : ts[i] \in Tds /\ ts[i] \in ToSet(ts)
      BY <1>4, <1>7 DEF ToSet
    <2>2. Prepared /\ Distinct /\ Fresh
      BY <1>1 DEF Inv, ClientInv, Fresh
    <2> QED
      BY <1>3, <1>6, <1>7, <2>1, <2>2 DEF Prepared, Distinct
  <1>12. /\ \A i \in 1..m : s[i] \in Tds /\ s[i] \in ToSet(s) /\ td[s[i]].status \notin {"unused", "freed"}
         /\ \A i, j \in 1..m : i # j => s[i] # s[j]
         /\ \A i \in 1..m : td[s[i]].next = IF i < m THEN s[i + 1] ELSE Null
         /\ \A i \in 1..m : \A j \in 1..n : s[i] # ts[j]
    <2>1. \A i \in 1..m : s[i] \in Tds /\ s[i] \in ToSet(s)
      BY <1>4, <1>7 DEF ToSet
    <2>2. OwnQueue(q) /\ Chained(q)
      BY <1>4 DEF Inv, Owned, OwnQueue
    <2>3. s = tdns[q]
      BY <1>3
    <2>4. \A i \in 1..m : \A j \in 1..n : s[i] # ts[j]
      BY <1>4, <1>11, <2>1, <2>3
    <2> QED
      BY <1>6, <1>7, <2>1, <2>2, <2>3, <2>4 DEF OwnQueue, Chained
  <1>13. /\ td' \in [Tds -> TdType] /\ td'[s[m]].next = ts[1]
         /\ \A t \in Tds : /\ td'[t].status = td[t].status /\ td'[t].ioc = td[t].ioc
                           /\ td'[t].cb = td[t].cb
                           /\ t # s[m] => td'[t].next = td[t].next
    <2>1. td \in [Tds -> TdType] /\ td[s[m]] \in TdType
      BY <1>2, <1>7 DEF Types, QueueTypes
    <2>2. td'[s[m]] = [td[s[m]] EXCEPT !.next = ts[1]] /\ \A t \in Tds : t # s[m] => td'[t] = td[t]
      BY <1>5, <1>7, <2>1
    <2>3. /\ td'[s[m]] \in TdType /\ td'[s[m]].next = ts[1] /\ td'[s[m]].status = td[s[m]].status
          /\ td'[s[m]].ioc = td[s[m]].ioc /\ td'[s[m]].cb = td[s[m]].cb
      BY <1>7, <2>1, <2>2 DEF TdType
    <2>4. td' \in [Tds -> TdType]
      BY <1>5, <1>7, <2>1, <2>2, <2>3
    <2> QED
      BY <2>2, <2>3, <2>4
  <1>14. /\ tdns' \in [Heads -> Seq(Tds)] /\ tdns'[q] = w
         /\ \A r \in Heads : r # q => tdns'[r] = tdns[r]
    BY <1>2, <1>4, <1>5, <1>8, <1>9 DEF Types, QueueTypes
  <1>15. ToSet(w) = ToSet(s) \cup ToSet(ts)
    <2>1. \A i \in 1..m : i \in DOMAIN w
      BY <1>7, <1>9
    <2>2. \A i \in 1..n : m + i \in DOMAIN w
      BY <1>7, <1>9
    <2>3. ASSUME NEW x \in ToSet(w) PROVE x \in ToSet(s) \cup ToSet(ts)
      <3>1. PICK i \in DOMAIN w : x = w[i]
        BY <2>3 DEF ToSet
      <3> QED
        BY <1>9, <1>10, <1>11, <1>12, <3>1
    <2>4. ASSUME NEW x \in ToSet(s) PROVE x \in ToSet(w)
      <3>1. PICK i \in 1..m : x = s[i]
        BY <1>7, <2>4 DEF ToSet
      <3> QED
        BY <1>9, <2>1, <3>1 DEF ToSet
    <2>5. ASSUME NEW x \in ToSet(ts) PROVE x \in ToSet(w)
      <3>1. PICK i \in 1..n : x = ts[i]
        BY <1>7, <2>5 DEF ToSet
      <3> QED
        BY <1>9, <2>2, <3>1 DEF ToSet
    <2> QED
      BY <2>3, <2>4, <2>5
  <1>16. Links' /\ Removed' /\ RingInv' /\ DoorInv' /\ HandlerInv' /\ InRing' = InRing /\ TypeInv'
    <2>1. QueueTypes' /\ usbintr' \in BOOLEAN
      BY <1>1, <1>2, <1>13, <1>14 DEF Types, QueueTypes, RegTypes
    <2>2. \A r \in Heads : ToSet(tdns[r]) \subseteq ToSet(tdns'[r])
      BY <1>3, <1>14, <1>15
    <2>3. h.pc = "halt" => h.q \in Heads
      BY DEF Inv, HandlerInv, Cancelling, InRing
    <2>4. StaysWith
      BY <1>1, <1>3, <1>5, <2>2, <2>3 DEF StaysWith, SameAdding, Adding, AddStages
    <2> QED
      BY <1>1, <1>5, <2>1, <2>4, ClientLeaves
  <1>17. ClientInv'
    <2>1. Prepared' /\ Walking' /\ Serving'
      BY <1>1, <1>3, <1>4, <1>5, <1>16 DEF Prepared, Walking, Serving, Fresh, Adding, AddStages, Busy,
                                           Known, Clean
    <2>2. Distinct'
      BY <1>5, <1>6, <1>7, <1>11, <1>13 DEF Distinct
    <2>3. Found'
      BY <1>5, <1>14, <1>15 DEF Found
    <2>4. AtEnd'
      <3>1. n <= m + n /\ \A i \in 1..n : (m + n) - n + i = m + i
        BY <1>7
      <3> QED
        BY <1>5, <1>6, <1>7, <1>9, <1>14, <3>1 DEF AtEnd
    <2>5. td'[Last(ts)].status = "off"
      BY <1>7, <1>11, <1>13
    <2>6. Activating'
      BY <1>5, <2>4, <2>5 DEF Activating
    <2> QED
      BY <2>1, <2>2, <2>3, <2>6 DEF ClientInv
  <1>18. Owned'
    <2>1. Used' = Used
      BY <1>13 DEF Used
    <2>2. Owned
      BY DEF Inv
    <2>3. Apart'
      <3>1. \A r \in Heads : r # q => ToSet(tdns'[r]) \cap ToSet(w) = {}
        BY <1>3, <1>4, <1>11, <1>14, <1>15, <2>2 DEF Owned, Apart
      <3> QED
        BY <1>14, <2>2, <3>1 DEF Owned, Apart
    <2>4. ASSUME NEW r \in Heads, r # q PROVE OwnQueue(r)'
      <3>1. OwnQueue(r) /\ tdns'[r] = tdns[r] /\ tdns[r] \in Seq(Tds)
        BY <1>2, <1>14, <2>2, <2>4 DEF Owned, Types, QueueTypes
      <3>2. ASSUME NEW i \in DOMAIN tdns[r] PROVE td'[tdns[r][i]].next = td[tdns[r][i]].next
                                                  /\ td'[tdns[r][i]].status = td[tdns[r][i]].status
        <4>1. tdns[r][i] \in Tds /\ tdns[r][i] \in ToSet(tdns[r])
          BY <3>1 DEF ToSet
        <4>2. s[m] \in ToSet(tdns[q])
          BY <1>3, <1>7, <1>12
        <4>3. tdns[r][i] # s[m]
          BY <1>4, <2>2, <2>4, <4>1, <4>2 DEF Owned, Apart
        <4> QED
          BY <1>13, <4>1, <4>3
      <3> QED
        BY <1>1, <2>1, <3>1, <3>2 DEF OwnQueue, Chained
    <2>5. OwnQueue(q)'
      <3>1. ToSet(w) \subseteq Used
        <4>1. ToSet(s) \subseteq Used
          BY <1>3, <1>4, <2>2 DEF Owned, OwnQueue
        <4>2. ToSet(ts) \subseteq Used
          BY <1>7, <1>11 DEF Used, ToSet
        <4> QED
          BY <1>15, <4>1, <4>2
      <3>2. ASSUME NEW i \in DOMAIN w, NEW j \in DOMAIN w, i # j PROVE w[i] # w[j]
        BY <1>9, <1>10, <1>11, <1>12, <3>2
      <3>3. ASSUME NEW i \in DOMAIN w
            PROVE  /\ td'[w[i]].status \notin {"unused", "freed"}
                   /\ td'[w[i]].next = IF i < Len(w) THEN w[i + 1] ELSE Null
        <4>1. CASE i \in 1..m
          <5>1. w[i] = s[i] /\ s[i] \in Tds /\ i < m + n /\ td'[w[i]].status \notin {"unused", "freed"}
            BY <1>7, <1>9, <1>12, <1>13, <4>1
          <5>2. CASE i = m
            <6>1. w[m + 1] = ts[1]
              BY <1>7, <1>9
            <6> QED
              BY <1>9, <1>13, <5>1, <5>2, <6>1
          <5>3. CASE i # m
            <6>1. i < m /\ i + 1 \in 1..m /\ m \in 1..m
              BY <1>7, <4>1, <5>3
            <6>2. w[i + 1] = s[i + 1] /\ s[i] # s[m] /\ td[s[i]].next = s[i + 1]
              BY <1>9, <1>12, <4>1, <5>3, <6>1
            <6> QED
              BY <1>9, <1>13, <5>1, <6>2
          <5> QED
            BY <5>2, <5>3
        <4>2. ASSUME NEW j \in 1..n, i = m + j
              PROVE  /\ td'[w[i]].status \notin {"unused", "freed"}
                     /\ td'[w[i]].next = IF i < Len(w) THEN w[i + 1] ELSE Null
          <5>1. w[i] = ts[j] /\ ts[j] \in Tds /\ ts[j] # s[m]
            BY <1>7, <1>9, <1>11, <1>12, <4>2
          <5>2. td'[w[i]].status = "off" /\ td'[w[i]].next = IF j < n THEN ts[j + 1] ELSE Null
            BY <1>11, <1>13, <4>2, <5>1
          <5>3. (i < Len(w) <=> j < n) /\ (j < n => j + 1 \in 1..n /\ m + (j + 1) = i + 1)
            <6>1. i \in Nat /\ j \in Nat /\ m \in Nat /\ n \in Nat /\ Len(w) = m + n /\ i = m + j
                  /\ j \in 1..n
              BY <1>7, <1>9, <4>2
            <6> QED
              BY <6>1
          <5>4. j < n => w[i + 1] = ts[j + 1]
            BY <1>9, <5>3
          <5> QED
            BY <5>2, <5>3, <5>4
        <4> QED
          BY <1>10, <4>1, <4>2
      <3>4. Chained(q)'
        BY <1>14, <3>3 DEF Chained
      <3> QED
        BY <1>1, <1>4, <1>14, <2>1, <3>1, <3>2, <3>4 DEF OwnQueue
    <2> QED
      BY <2>1, <2>2, <2>3, <2>4, <2>5 DEF Owned, Counted
  <1>19. Working'
    <2> SUFFICES ASSUME NEW r \in Heads, qh[r] # "freed" PROVE QueueWorks(r)'
      BY <1>1 DEF Working
    <2>1. QueueWorks(r) /\ tdns[r] \in Seq(Tds) /\ overlay[r] \in OverlayType
      BY <1>2 DEF Inv, Working, Types, QueueTypes
    <2>2. overlay[r].cur \in Tds \cup {Null}
      BY <2>1 DEF OverlayType
    <2>3. CASE r # q
      <3>1. \A t \in ToSet(tdns[r]) : td'[t].status = td[t].status
        BY <1>13, <2>1 DEF ToSet
      <3>2. tdns'[r] = tdns[r] /\ c.q # r /\ overlay'[r] = overlay[r] /\ qh'[r] = qh[r]
        BY <1>1, <1>3, <1>14, <2>3
      <3>3. \A t \in Tds : td[t].status = "freed" => td'[t].status = "freed"
        BY <1>13
      <3> QED
        BY <2>1, <2>2, <3>1, <3>2, <3>3, QueueKeeps
    <2>4. CASE r = q
      <3>1. PICK p \in 0..m : Works(q, p)
        BY <1>3, <1>6, <2>1, <2>4 DEF QueueWorks
      <3>2. s = tdns[q] /\ overlay'[q] = overlay[q]
        BY <1>1, <1>3
      <3>3. \A i \in 1..m : td'[w[i]].status = td[s[i]].status
        BY <1>9, <1>12, <1>13
      <3>4. \A i \in 1..n : td'[w[m + i]].status = "off"
        BY <1>9, <1>11, <1>13
      <3>5. ASSUME NEW k \in Nat, ToDo(q, k) PROVE ToDo(q, k)'
        <4>1. \A i \in 1..m : i > k => td[s[i]].status \in {"off", "active", "halted"}
          BY <1>7, <3>2, <3>5 DEF ToDo
        <4>2. ASSUME NEW i \in DOMAIN w, i > k PROVE td'[w[i]].status \in {"off", "active", "halted"}
          BY <1>10, <3>3, <3>4, <4>1, <4>2
        <4> QED
          BY <1>14, <4>2 DEF ToDo
      <3>6. ASSUME NEW k \in 0..m, LeadsTo(q, k) PROVE LeadsTo(q, k)'
        <4>1. k < m + n
          BY <1>7
        <4>2. CASE overlay[q].next = Null
          BY <3>2, <4>2 DEF LeadsTo
        <4>3. CASE k < m /\ overlay[q].next = s[k + 1]
          <5>1. k + 1 \in 1..m
            BY <1>7, <4>3
          <5>2. w[k + 1] = s[k + 1]
            BY <1>9, <5>1
          <5> QED
            BY <1>9, <1>14, <3>2, <4>1, <4>3, <5>2 DEF LeadsTo
        <4>4. CASE k = m /\ overlay[q].next = Head(ts)
          <5>1. w[k + 1] = ts[1]
            BY <1>7, <1>9, <4>4
          <5> QED
            BY <1>7, <1>9, <1>14, <3>2, <4>1, <4>4, <5>1 DEF LeadsTo
        <4> QED
          BY <1>3, <1>6, <3>2, <3>6, <4>2, <4>3, <4>4 DEF LeadsTo
      <3>7. \A i \in 1..p : td'[w[i]].status = "done"
        <4>1. \A i \in 1..p : i \in 1..m
          BY <1>7, <3>1
        <4> QED
          BY <3>1, <3>2, <3>3, <4>1 DEF Works
      <3>8. \A j \in 1..n : overlay[q].cur # ts[j]
        <4>1. overlay[q].cur = Null \/ overlay[q].cur \in ToSet(s) \/ td[overlay[q].cur].status = "freed"
          BY <2>1, <2>4, <3>2 DEF QueueWorks
        <4>2. \A j \in 1..n : ts[j] # Null /\ ts[j] \notin ToSet(s) /\ td[ts[j]].status # "freed"
          BY <1>4, <1>11, <3>2 DEF Null, Tds
        <4> QED
          BY <4>1, <4>2
      <3>9. /\ overlay[q].status \in {"done", "active", "error"} /\ p \in Nat /\ p + 1 \in Nat
            /\ overlay[q].status # "done" => p + 1 \in 1..m /\ overlay[q].cur = s[p + 1] /\ p < m
        <4>1. overlay[q].status # "done" => p < m /\ overlay[q].cur = s[p + 1]
          BY <1>6, <3>1, <3>2 DEF Works
        <4>2. overlay[q].status \in {"done", "active", "error"}
          BY <2>1, <2>4 DEF OverlayType
        <4> QED
          BY <1>7, <3>1, <4>1, <4>2
      <3>10. Works(q, p)'
        <4>1. CASE overlay[q].status = "done"
          <5>1. \A i \in 1..m : s[i] = overlay[q].cur => i = p
            BY <1>7, <3>1, <3>2, <4>1 DEF Works
          <5>2. ASSUME NEW i \in DOMAIN w, w[i] = overlay[q].cur PROVE i = p
            BY <1>9, <1>10, <3>8, <5>1, <5>2
          <5>3. ToDo(q, p)' /\ LeadsTo(q, p)'
            BY <3>1, <3>5, <3>6, <3>9, <4>1 DEF Works
          <5> QED
            BY <1>14, <3>2, <3>7, <4>1, <5>2, <5>3 DEF Works
        <4>2. CASE overlay[q].status # "done"
          <5>1. p < Len(w) /\ overlay[q].cur = w[p + 1]
            BY <1>7, <1>9, <3>9, <4>2
          <5>2. overlay[q].status = "active" => ToDo(q, p)' /\ LeadsTo(q, p + 1)'
            <6>1. p + 1 \in 0..m
              BY <1>7, <3>1, <3>9, <4>2
            <6> QED
              BY <3>1, <3>5, <3>6, <3>9, <6>1 DEF Works
          <5>3. overlay[q].status = "error" => td'[w[p + 1]].status = "error" /\ ToDo(q, p + 1)'
            BY <3>1, <3>2, <3>3, <3>5, <3>9, <4>2 DEF Works
          <5> QED
            BY <1>14, <3>2, <3>7, <4>2, <5>1, <5>2, <5>3 DEF Works
        <4> QED
          BY <4>1, <4>2
      <3>11. p \in 0..Len(w)
        BY <1>7, <1>9, <3>1
      <3>12. overlay[q].cur = Null \/ overlay[q].cur \in ToSet(w) \/ td'[overlay[q].cur].status = "freed"
        BY <1>13, <1>15, <2>1, <2>2, <2>4, <3>2 DEF QueueWorks
      <3>13. overlay[q].status = "active" => td'[overlay[q].cur].status \in {"active", "halted"}
        BY <1>4, <1>12, <1>13, <2>1, <2>4, <3>9 DEF QueueWorks
      <3> QED
        BY <1>14, <2>4, <3>2, <3>10, <3>11, <3>12, <3>13 DEF QueueWorks
    <2> QED
      BY <2>3, <2>4
  <1>20. Telling' /\ MemorySafe'
    BY <1>1, <1>5, <1>13, MemoryFrame DEF Inv, Telling
  <1>21. ControllerSafe'
    BY <1>1, <1>16, <1>18, <1>19, ControllerStays
  <1> QED
    BY <1>16, <1>17, <1>18, <1>19, <1>20, <1>21 DEF Inv

LEMMA ActivateKeeps ==
    ASSUME Inv, Activate
    PROVE  Inv'
  <1>f. CASE td[Last(c.tds)].status = "freed"
    <2>1. Running /\ c.pc = "activate" /\ c.tds \in Seq(Tds) /\ c.tds # <<>>
      BY TypesAre DEF Activate, Stage, Inv, TypeInv, ClientInv, Serving, Busy, Types, ClientType
    <2>2. Len(c.tds) \in DOMAIN c.tds /\ Last(c.tds) = c.tds[Len(c.tds)]
      BY <2>1 DEF Last
    <2>3. Linked /\ ~Clean({"crossed"})
      BY <1>f, <2>1, <2>2, NotFreed DEF Linked
    <2>4. ~Clean({"crossed", "emptied", "torn"})
      BY <2>3 DEF Clean
    <2>5. UNCHANGED <<ring, qh, removal, queue, regs, hw, c, h, gone, bound, slips>>
      BY <1>f DEF Activate, Fault, ClientKeeps, ring, removal, queue, regs
    <2> QED
      BY <2>1, <2>4, <2>5, FaultKeeps
  <1> SUFFICES ASSUME td[Last(c.tds)].status # "freed" PROVE Inv'
    BY <1>f
  <1>1. /\ Running /\ c.pc = "activate"
        /\ UNCHANGED <<tail, next, qhlptr, qh, was_cancelled, db_pending, tdns, overlay, told,
                       usbsts, usbintr, doorbell, hw, h, gone, bound, slips, fault>>
    BY DEF Activate, Stage, ClientKeeps, NoSlip, ring, removal, history
  <1>2. Types /\ TypeOK
    BY TypesAre DEF Inv, TypeInv
  <1>3. PICK q, ts : q = c.q /\ ts = c.tds
    OBVIOUS
  <1>4. /\ q \in Heads /\ Known(q) /\ Serving
        /\ ts \in Seq(Tds) /\ ts # <<>> /\ c \in ClientType
    BY <1>1, <1>2, <1>3 DEF Inv, ClientInv, Serving, Busy, Known, Types, ClientType
  <1>5. /\ Len(ts) \in Nat \ {0} /\ DOMAIN ts = 1..Len(ts) /\ Last(ts) = ts[Len(ts)]
        /\ td[ts[Len(ts)]].status = "off" /\ AtEnd /\ Len(ts) \in DOMAIN ts
    BY <1>1, <1>3, <1>4 DEF Inv, ClientInv, Activating, Last
  <1>6. PICK I : I = {i \in 1..Len(ts) : td[ts[i]].status = "off"}
    OBVIOUS
  <1>7. I # {} /\ I \in SUBSET Nat
    BY <1>5, <1>6
  <1>8. PICK k : k = Min(I)
    OBVIOUS
  <1>9. k \in I
    BY <1>7, <1>8, MinElement
  <1>10. k = SelectInSeq(c.tds, LAMBDA x : td[x].status = "off")
    BY <1>3, <1>6, <1>7, <1>8 DEF SelectInSeq
  <1>11. k \in DOMAIN ts /\ ts[k] \in Tds /\ td[ts[k]].status = "off" /\ k \in Nat
    BY <1>4, <1>5, <1>6, <1>9
  <1>12. PICK t, st : t = ts[k] /\ st = IF k = Len(ts) THEN "read" ELSE "activate"
    OBVIOUS
  <1>13. td' = [td EXCEPT ![t].status = "active"] /\ c' = [c EXCEPT !.pc = st]
    BY <1>3, <1>10, <1>12 DEF Activate
  <1>14. /\ c' \in ClientType /\ c'.pc = st /\ c'.q = q /\ c'.tds = ts
         /\ k = Len(ts) => st = "read"
         /\ k # Len(ts) => st = "activate"
    <2>1. st \in Stages
      BY <1>12 DEF Stages
    <2> QED
      BY <1>3, <1>4, <1>12, <1>13, <2>1, ClientMoves
  <1>15. /\ td' \in [Tds -> TdType] /\ td'[t].status = "active"
         /\ \A u \in Tds : u # t => td'[u] = td[u]
         /\ \A u \in Tds : /\ td'[u].next = td[u].next /\ td'[u].cb = td[u].cb
                           /\ td'[u].ioc = td[u].ioc
                           /\ (td'[u].status = "unused") <=> (td[u].status = "unused")
                           /\ (td'[u].status = "freed") <=> (td[u].status = "freed")
    <2>1. PICK s0 : s0 = "active"
      OBVIOUS
    <2>2. /\ td \in [Tds -> TdType] /\ t \in Tds /\ s0 \in {"active", "halted", "done", "error"}
          /\ td[t].status \in {"off", "active", "halted"} /\ td' = [td EXCEPT ![t].status = s0]
      BY <1>2, <1>11, <1>12, <1>13, <2>1 DEF Types, QueueTypes
    <2> QED
      BY <2>1, <2>2, Restatus
  <1>16. Links' /\ Removed' /\ RingInv' /\ DoorInv' /\ HandlerInv' /\ InRing' = InRing /\ TypeInv'
    <2>1. QueueTypes' /\ usbintr' \in BOOLEAN
      BY <1>1, <1>2, <1>15 DEF Types, QueueTypes, RegTypes
    <2>2. StaysWith
      BY <1>1, <1>3, <1>12, <1>14 DEF StaysWith, SameAdding, Adding, AddStages
    <2> QED
      BY <1>1, <1>14, <2>1, <2>2, ClientLeaves
  <1>17. Owned' /\ Telling'
    <2>1. Owned /\ Telling /\ tdns \in [Heads -> Seq(Tds)] /\ UNCHANGED <<qh, tdns, told>>
      BY <1>1, <1>2 DEF Inv, Types, QueueTypes
    <2> QED
      BY <1>15, <2>1, StatusKeeps
  <1>18. ToSet(ts) \subseteq ToSet(tdns[q]) /\ t \in ToSet(tdns[q])
    <2>1. ToSet(ts) \subseteq ToSet(tdns[q])
      BY <1>1, <1>2, <1>3, AtEndIn DEF Inv
    <2> QED
      BY <1>11, <1>12, <2>1 DEF ToSet
  <1>19. ClientInv'
    <2>1. Prepared' /\ Walking' /\ Serving'
      BY <1>1, <1>3, <1>4, <1>12, <1>14, <1>16 DEF Prepared, Walking, Serving, Fresh, Adding,
                                                  AddStages, Busy, Known, Clean
    <2>2. Distinct /\ \A i, j \in DOMAIN ts : i # j => ts[i] # ts[j]
      BY <1>1, <1>3 DEF Inv, ClientInv, Distinct
    <2>3. \A i \in DOMAIN ts : ts[i] \in Tds
      BY <1>4
    <2>4. \A i \in DOMAIN ts : i < Len(ts) => ~td'[ts[i]].ioc
      BY <1>1, <1>3, <1>15, <2>2, <2>3 DEF Distinct
    <2>5. Distinct'
      BY <1>14, <2>2, <2>4 DEF Distinct
    <2>6. Found'
      BY <1>1, <1>14, <1>18 DEF Found
    <2>7. AtEnd'
      BY <1>1, <1>3, <1>5, <1>14 DEF AtEnd
    <2>8. k # Len(ts) => td'[ts[Len(ts)]].status = "off"
      BY <1>5, <1>11, <1>12, <1>15, <2>2, <2>3
    <2>9. Activating'
      BY <1>5, <1>14, <2>7, <2>8 DEF Activating
    <2> QED
      BY <2>1, <2>5, <2>6, <2>9 DEF ClientInv
  <1>20. Working'
    <2> SUFFICES ASSUME NEW r \in Heads, qh[r] # "freed" PROVE QueueWorks(r)'
      BY <1>1 DEF Working
    <2>1. QueueWorks(r) /\ tdns[r] \in Seq(Tds) /\ overlay[r] \in OverlayType
      BY <1>2 DEF Inv, Working, Types, QueueTypes
    <2>2. overlay[r].cur \in Tds \cup {Null}
      BY <2>1 DEF OverlayType
    <2>3. \A u \in Tds : /\ td[u].status = "freed" => td'[u].status = "freed"
                         /\ td[u].status \in {"active", "halted"} => td'[u].status = td[u].status
                         /\ td[u].status \in {"off", "active", "halted"} =>
                               td'[u].status \in {"off", "active", "halted"}
                         /\ td[u].status \in {"done", "error"} => td'[u].status = td[u].status
      BY <1>11, <1>12, <1>15
    <2>4. PICK p \in 0..Len(tdns[r]) : Works(r, p)
      BY <2>1 DEF QueueWorks
    <2>5. 1..p \subseteq DOMAIN tdns[r] /\ \A i \in DOMAIN tdns[r] : tdns[r][i] \in Tds
      BY <2>1, <2>4
    <2>6. \A n : ToDo(r, n) => ToDo(r, n)'
      BY <1>1, <2>3, <2>5 DEF ToDo
    <2>7. \A n : LeadsTo(r, n) => LeadsTo(r, n)'
      BY <1>1 DEF LeadsTo
    <2>8. \A i \in 1..p : td'[tdns[r][i]].status = "done"
      BY <2>3, <2>4, <2>5 DEF Works
    <2>9. overlay[r].status # "done" => p + 1 \in DOMAIN tdns[r]
      BY <2>1, <2>4 DEF Works
    <2>10. overlay[r].status = "error" => td'[tdns[r][p + 1]].status = "error"
      BY <2>3, <2>4, <2>5, <2>9 DEF Works
    <2>11. Works(r, p)'
      BY <1>1, <2>4, <2>6, <2>7, <2>8, <2>10 DEF Works
    <2>12. overlay[r].status # "done" => overlay[r].cur \in Tds
      BY <2>4, <2>5, <2>9 DEF Works
    <2> QED
      BY <1>1, <2>1, <2>2, <2>3, <2>4, <2>11, <2>12 DEF QueueWorks
  <1>21. MemorySafe'
    BY <1>1, MemoryFrame
  <1>22. ControllerSafe'
    BY <1>1, <1>16, <1>17, <1>20, ControllerStays
  <1> QED
    BY <1>16, <1>17, <1>19, <1>20, <1>21, <1>22 DEF Inv
-----------------------------------------------------------------------------
(* Taking finished TDs off a queue.                                        *)

LEMMA TakenIs ==
    ASSUME TypeOK, NEW q \in Heads
    PROVE  \E n \in 0..Len(tdns[q]) :
               /\ Taken(q) = SubSeq(tdns[q], 1, n)
               /\ \A j \in 1..n : td[tdns[q][j]].status = "done"
               /\ n # 0 => td[tdns[q][n]].ioc
  <1>1. PICK s : s = tdns[q]
    OBVIOUS
  <1>2. s \in Seq(Tds) /\ Len(s) \in Nat /\ DOMAIN s = 1..Len(s)
    BY <1>1 DEF TypeOK
  <1>3. PICK I : I = {0} \cup {i \in DOMAIN s : td[s[i]].ioc /\ \A j \in 1..i : Success(s[j])}
    OBVIOUS
  <1>4. I \in SUBSET (0..Len(s)) /\ I # {}
    BY <1>2, <1>3
  <1>5. PICK n : n = Max(I)
    OBVIOUS
  <1>6. n \in I
    BY <1>2, <1>4, <1>5, MaxElement
  <1>7. Taken(q) = SubSeq(s, 1, n)
    BY <1>1, <1>3, <1>5 DEF Taken
  <1>8. /\ \A j \in 1..n : td[s[j]].status = "done"
        /\ n # 0 => td[s[n]].ioc
    <2>1. CASE n = 0
      BY <2>1
    <2>2. CASE n # 0
      BY <1>3, <1>6, <2>2 DEF Success
    <2> QED
      BY <2>1, <2>2
  <1> QED
    BY <1>1, <1>4, <1>6, <1>7, <1>8

\* The first n elements of a sequence, and the rest.
Splits(S, s, n, a, b) ==
    /\ a \in Seq(S) /\ Len(a) = n /\ \A i \in 1..n : a[i] = s[i]
    /\ ToSet(a) = {s[i] : i \in 1..n} /\ (n # 0 => Last(a) = s[n]) /\ (a = <<>> <=> n = 0)
    /\ b \in Seq(S) /\ Len(b) = Len(s) - n /\ DOMAIN b = 1..(Len(s) - n)
    /\ \A i \in 1..(Len(s) - n) : b[i] = s[n + i] /\ n + i \in DOMAIN s
    /\ ToSet(b) \subseteq ToSet(s) /\ ToSet(s) \subseteq ToSet(a) \cup ToSet(b)

LEMMA RestIs ==
    ASSUME NEW S, NEW s \in Seq(S), NEW n \in 0..Len(s)
    PROVE  /\ SubSeq(s, n + 1, Len(s)) \in Seq(S) /\ Len(SubSeq(s, n + 1, Len(s))) = Len(s) - n
           /\ \A i \in 1..(Len(s) - n) : SubSeq(s, n + 1, Len(s))[i] = s[n + i] /\ n + i \in DOMAIN s
  <1>1. PICK m, k : m = n + 1 /\ k = Len(s)
    OBVIOUS
  <1>2. n \in Nat /\ k \in Nat /\ n <= k /\ m \in Int /\ k \in Int /\ DOMAIN s = 1..k
    BY <1>1
  <1>3. \A i \in m..k : s[i] \in S
    <2>1. \A i \in m..k : i \in DOMAIN s
      BY <1>1, <1>2
    <2> QED
      BY <2>1
  <1>4. /\ SubSeq(s, m, k) \in Seq(S) /\ Len(SubSeq(s, m, k)) = IF m <= k THEN k - m + 1 ELSE 0
        /\ \A i \in 1..k - m + 1 : SubSeq(s, m, k)[i] = s[m + i - 1]
    BY <1>2, <1>3, SubSeqProperties
  <1>5. k - m + 1 = k - n /\ (IF m <= k THEN k - m + 1 ELSE 0) = k - n
    BY <1>1, <1>2
  <1>6. \A i \in 1..(k - n) : m + i - 1 = n + i /\ n + i \in 1..k
    BY <1>1, <1>2
  <1> QED
    BY <1>1, <1>2, <1>4, <1>5, <1>6

LEMMA FrontIs ==
    ASSUME NEW S, NEW s \in Seq(S), NEW n \in 0..Len(s)
    PROVE  /\ SubSeq(s, 1, n) \in Seq(S) /\ Len(SubSeq(s, 1, n)) = n
           /\ \A i \in 1..n : SubSeq(s, 1, n)[i] = s[i]
  OBVIOUS

LEMMA FrontAndRest ==
    ASSUME NEW S, NEW s \in Seq(S), NEW n \in 0..Len(s), NEW a \in Seq(S), NEW b \in Seq(S),
           Len(a) = n, Len(b) = Len(s) - n, \A i \in 1..n : a[i] = s[i],
           \A i \in 1..(Len(s) - n) : b[i] = s[n + i] /\ n + i \in DOMAIN s
    PROVE  Splits(S, s, n, a, b)
  <1>1. n \in Nat /\ Len(s) \in Nat /\ DOMAIN s = 1..Len(s) /\ n <= Len(s) /\ DOMAIN a = 1..n
        /\ DOMAIN b = 1..(Len(s) - n)
    OBVIOUS
  <1>2. ToSet(a) = {s[i] : i \in 1..n}
    <2>1. {a[i] : i \in 1..n} = {s[i] : i \in 1..n}
      OBVIOUS
    <2> QED
      BY <1>1, <2>1 DEF ToSet
  <1>3. (n # 0 => Last(a) = s[n]) /\ (a = <<>> <=> n = 0)
    BY <1>1 DEF Last
  <1>4. ToSet(b) \subseteq ToSet(s)
    <2>1. ASSUME NEW i \in DOMAIN b PROVE b[i] \in ToSet(s)
      <3>1. i \in 1..(Len(s) - n)
        BY <1>1, <2>1
      <3>2. PICK j : j = n + i
        OBVIOUS
      <3>3. b[i] = s[j] /\ j \in DOMAIN s
        BY <3>1, <3>2
      <3> QED
        BY <3>3 DEF ToSet
    <2> QED
      BY <2>1 DEF ToSet
  <1>5. ASSUME NEW i \in DOMAIN s PROVE s[i] \in ToSet(a) \cup ToSet(b)
    <2>1. CASE i <= n
      BY <1>1, <1>2, <2>1
    <2>2. CASE ~(i <= n)
      <3>1. i - n \in 1..(Len(s) - n) /\ n + (i - n) = i
        BY <1>1, <2>2
      <3>2. b[i - n] = s[i]
        BY <3>1
      <3> QED
        BY <1>1, <3>1, <3>2 DEF ToSet
    <2> QED
      BY <2>1, <2>2
  <1>6. ToSet(s) \subseteq ToSet(a) \cup ToSet(b)
    BY <1>5 DEF ToSet
  <1> QED
    BY <1>1, <1>2, <1>3, <1>4, <1>6 DEF Splits

\* What comes off a queue, and what the step does to the TDs.
Takes(q, n, a, b) ==
    /\ n \in 0..Len(tdns[q]) /\ Splits(Tds, tdns[q], n, a, b) /\ a = Taken(q)
    /\ \A j \in 1..n : td[tdns[q][j]].status = "done"
    /\ n # 0 => td[tdns[q][n]].ioc
    /\ tdns' \in [Heads -> Seq(Tds)] /\ tdns'[q] = b
    /\ \A r \in Heads : r # q => tdns'[r] = tdns[r]
    /\ td' \in [Tds -> TdType] /\ told' \in [Tds -> ToldType]
    /\ \A t \in ToSet(a) : /\ t \in Tds /\ td[t].status = "done" /\ td'[t].status = "freed"
                           /\ td[t].cb => told'[t] = "success"
                           /\ ~td[t].cb => told'[t] = told[t]
    /\ \A t \in Tds : td'[t].next = td[t].next /\ td'[t].ioc = td[t].ioc /\ td'[t].cb = td[t].cb
    /\ \A t \in Tds \ ToSet(a) : td'[t] = td[t] /\ told'[t] = told[t]
    /\ overlay' \in [Heads -> OverlayType]
    /\ \A r \in Heads : r # q => overlay'[r] = overlay[r]
    /\ overlay'[q].cur = overlay[q].cur /\ overlay'[q].status = overlay[q].status
    /\ \/ overlay'[q].next = overlay[q].next
       \/ /\ n # 0 /\ n < Len(tdns[q]) /\ overlay[q].cur = tdns[q][n]
          /\ overlay'[q].next = tdns[q][n + 1]

LEMMA TakeIs ==
    ASSUME Inv, NEW q \in Heads, qh[q] # "freed", Take(q, Taken(q))
    PROVE  \E n, a, b : Takes(q, n, a, b)
  <1>1. Types /\ TypeOK
    BY TypesAre DEF Inv, TypeInv
  <1>2. PICK n \in 0..Len(tdns[q]) :
            /\ Taken(q) = SubSeq(tdns[q], 1, n)
            /\ \A j \in 1..n : td[tdns[q][j]].status = "done"
            /\ n # 0 => td[tdns[q][n]].ioc
    BY <1>1, TakenIs
  <1>3. PICK s, a, b : s = tdns[q] /\ a = Taken(q) /\ b = SubSeq(tdns[q], n + 1, Len(tdns[q]))
    OBVIOUS
  <1>4. s \in Seq(Tds) /\ n \in 0..Len(s) /\ a = SubSeq(s, 1, n) /\ b = SubSeq(s, n + 1, Len(s))
    BY <1>1, <1>2, <1>3 DEF Types, QueueTypes
  <1>5. Splits(Tds, s, n, a, b)
    <2>1. PICK S : S = Tds
      OBVIOUS
    <2>2. s \in Seq(S)
      BY <1>4, <2>1
    <2>3. /\ a \in Seq(S) /\ Len(a) = n /\ \A i \in 1..n : a[i] = s[i]
      BY <1>4, <2>2, FrontIs
    <2>4. /\ b \in Seq(S) /\ Len(b) = Len(s) - n
          /\ \A i \in 1..(Len(s) - n) : b[i] = s[n + i] /\ n + i \in DOMAIN s
      BY <1>4, <2>2, RestIs
    <2>5. Splits(S, s, n, a, b)
      BY <1>4, <2>2, <2>3, <2>4, FrontAndRest
    <2> QED
      BY <2>1, <2>5
  <1>6. tdns' = [tdns EXCEPT ![q] = b] /\ Tell(ToSet(a), "success") /\ Free(ToSet(a))
    BY <1>2, <1>3, <1>5 DEF Splits, Take
  <1>7. /\ tdns' \in [Heads -> Seq(Tds)] /\ tdns'[q] = b
        /\ \A r \in Heads : r # q => tdns'[r] = tdns[r]
    BY <1>1, <1>5, <1>6 DEF Splits, Types, QueueTypes
  <1>8. ASSUME NEW t \in ToSet(a) PROVE t \in Tds /\ td[t].status = "done" /\ told[t] = "nothing"
    <2>1. PICK i \in 1..n : t = s[i]
      BY <1>5, <1>8 DEF Splits
    <2>2. td[t].status = "done" /\ i \in DOMAIN s
      BY <1>2, <1>3, <1>4, <2>1
    <2>3. t \in Tds
      BY <1>4, <2>1, <2>2
    <2> QED
      BY <2>2, <2>3 DEF Inv, Telling
  <1>9. ASSUME NEW t \in Tds
        PROVE  /\ td'[t] \in TdType
               /\ td'[t].next = td[t].next /\ td'[t].ioc = td[t].ioc /\ td'[t].cb = td[t].cb
               /\ t \in ToSet(a) => td'[t].status = "freed"
               /\ t \notin ToSet(a) => td'[t] = td[t]
    <2>1. td[t] \in TdType
      BY <1>1 DEF Types, QueueTypes
    <2>2. CASE t \in ToSet(a)
      <3>1. td'[t] = [td[t] EXCEPT !.status = "freed"]
        BY <1>6, <2>2 DEF Free
      <3> QED
        BY <2>1, <2>2, <3>1 DEF TdType
    <2>3. CASE t \notin ToSet(a)
      <3>1. td'[t] = td[t]
        BY <1>6, <2>3 DEF Free
      <3> QED
        BY <2>1, <2>3, <3>1
    <2> QED
      BY <2>2, <2>3
  <1>10. td' \in [Tds -> TdType]
    <2>1. td' = [t \in Tds |-> td'[t]]
      BY <1>6 DEF Free
    <2> QED
      BY <1>9, <2>1
  <1>11. ASSUME NEW t \in Tds
         PROVE  /\ t \in ToSet(a) => /\ td[t].cb => told'[t] = "success"
                                     /\ ~td[t].cb => told'[t] = told[t]
                /\ t \notin ToSet(a) => told'[t] = told[t]
    BY <1>6, <1>8 DEF Tell, Callback
  <1>12. told' \in [Tds -> ToldType]
    <2>1. told' = [t \in Tds |-> told'[t]]
      BY <1>6 DEF Tell
    <2>2. \A t \in Tds : told[t] \in ToldType /\ td[t].cb \in BOOLEAN
      BY <1>1 DEF Types, QueueTypes, TdType
    <2>3. \A t \in Tds : told'[t] \in ToldType
      BY <1>11, <2>2 DEF ToldType
    <2> QED
      BY <2>1, <2>3
  <1>13. /\ overlay' \in [Heads -> OverlayType]
         /\ \A r \in Heads : r # q => overlay'[r] = overlay[r]
         /\ overlay'[q].cur = overlay[q].cur /\ overlay'[q].status = overlay[q].status
         /\ \/ overlay'[q].next = overlay[q].next
            \/ /\ n # 0 /\ n < Len(s) /\ overlay[q].cur = s[n]
               /\ overlay'[q].next = s[n + 1]
    <2>1. overlay \in [Heads -> OverlayType] /\ overlay[q] \in OverlayType
      BY <1>1 DEF Types, QueueTypes
    <2>2. PICK on \in BOOLEAN : on = (a # <<>> /\ b # <<>> /\ overlay[q].cur = Last(a) /\ overlay[q].next = Null)
      OBVIOUS
    <2>3. overlay' = IF on THEN [overlay EXCEPT ![q].next = Head(b)] ELSE overlay
      BY <1>2, <1>3, <1>5, <2>2 DEF Splits, Take
    <2>4. CASE ~on
      BY <2>1, <2>3, <2>4
    <2>5. CASE on
      <3>1. n # 0 /\ overlay[q].cur = s[n] /\ b # <<>>
        BY <1>5, <2>2, <2>5 DEF Splits
      <3>2. Len(b) \in Nat /\ Len(b) # 0 /\ Head(b) = b[1] /\ Head(b) \in Tds
        BY <1>5, <3>1 DEF Splits
      <3>3. n < Len(s) /\ 1 \in 1..(Len(s) - n)
        BY <1>4, <1>5, <3>2 DEF Splits
      <3>4. Head(b) = s[n + 1]
        BY <1>5, <3>2, <3>3 DEF Splits
      <3>5. overlay'[q] = [overlay[q] EXCEPT !.next = Head(b)]
        BY <2>1, <2>3, <2>5
      <3>6. /\ overlay'[q] \in OverlayType /\ overlay'[q].next = s[n + 1]
            /\ overlay'[q].cur = overlay[q].cur /\ overlay'[q].status = overlay[q].status
        BY <2>1, <3>2, <3>4, <3>5 DEF OverlayType
      <3> QED
        BY <2>1, <2>3, <2>5, <3>1, <3>3, <3>6
    <2> QED
      BY <2>4, <2>5
  <1>14. Takes(q, n, a, b)
    BY <1>2, <1>3, <1>4, <1>5, <1>7, <1>8, <1>9, <1>10, <1>11, <1>12, <1>13 DEF Takes
  <1> QED
    BY <1>14

\* The rest of the queue keeps its order, and no more comes off than was finished.
LEMMA TakeKeepsQueue ==
    ASSUME Inv, NEW q \in Heads, qh[q] # "freed", UNCHANGED qh, Unlocked(q),
           NEW n, NEW a, NEW b, Takes(q, n, a, b),
           c.pc = "link" => c'.pc = "link" /\ c'.q = c.q /\ c'.tds = c.tds
    PROVE  QueueTypes' /\ Owned' /\ Telling' /\ Working'
  <1>1. Types
    BY TypesAre DEF Inv, TypeInv
  <1>2. QueueTypes'
    BY DEF Takes, QueueTypes
  <1>3. PICK s : s = tdns[q]
    OBVIOUS
  <1>4. /\ s \in Seq(Tds) /\ n \in Nat /\ n <= Len(s) /\ Len(s) \in Nat /\ DOMAIN s = 1..Len(s)
        /\ Len(b) = Len(s) - n /\ DOMAIN b = 1..(Len(s) - n) /\ tdns'[q] = b /\ b \in Seq(Tds)
        /\ \A i \in 1..(Len(s) - n) : b[i] = s[n + i] /\ n + i \in DOMAIN s
        /\ ToSet(b) \subseteq ToSet(s) /\ ToSet(s) \subseteq ToSet(a) \cup ToSet(b)
        /\ ToSet(a) = {s[i] : i \in 1..n} /\ ToSet(a) \subseteq ToSet(s)
    <2>1. s \in Seq(Tds) /\ n \in 0..Len(s) /\ Splits(Tds, s, n, a, b) /\ tdns'[q] = b
      BY <1>1, <1>3 DEF Takes, Types, QueueTypes
    <2>2. n \in Nat /\ n <= Len(s) /\ Len(s) \in Nat /\ DOMAIN s = 1..Len(s)
      BY <2>1
    <2>3. ToSet(a) = {s[i] : i \in 1..n}
      BY <2>1 DEF Splits
    <2>4. \A i \in 1..n : i \in DOMAIN s
      BY <2>2
    <2>5. ToSet(a) \subseteq ToSet(s)
      BY <2>3, <2>4 DEF ToSet
    <2> QED
      BY <2>1, <2>2, <2>3, <2>5 DEF Splits
  <1>5. \A i, j \in DOMAIN s : s[i] = s[j] => i = j
    BY <1>3 DEF Inv, Owned, OwnQueue
  <1>6. ASSUME NEW i \in 1..(Len(s) - n) PROVE /\ b[i] \in Tds /\ b[i] \notin ToSet(a)
                                               /\ td'[b[i]] = td[s[n + i]]
    <2>1. b[i] = s[n + i] /\ n + i \in DOMAIN s /\ b[i] \in Tds
      BY <1>4
    <2>2. \A j \in 1..n : j \in DOMAIN s /\ j # n + i
      BY <1>4
    <2>3. b[i] \notin ToSet(a)
      BY <1>4, <1>5, <2>1, <2>2
    <2> QED
      BY <2>1, <2>3 DEF Takes
  <1>7. ASSUME NEW r \in Heads, r # q, NEW t \in ToSet(tdns[r]) PROVE td'[t] = td[t]
    <2>1. t \in Tds
      BY <1>1, <1>7 DEF Types, QueueTypes, ToSet
    <2>2. t \notin ToSet(a)
      BY <1>3, <1>4, <1>7 DEF Inv, Owned, Apart
    <2> QED
      BY <2>1, <2>2 DEF Takes
  <1>8. Used' = Used
    <2>1. \A t \in Tds : td'[t].status = "unused" <=> td[t].status = "unused"
      <3>1. \A t \in ToSet(a) : td[t].status = "done" /\ td'[t].status = "freed"
        BY DEF Takes
      <3>2. \A t \in Tds \ ToSet(a) : td'[t] = td[t]
        BY DEF Takes
      <3> QED
        BY <3>1, <3>2
    <2> QED
      BY <2>1 DEF Used
  <1>9. Owned'
    <2>1. Owned
      BY DEF Inv
    <2>2. \A r \in Heads : ToSet(tdns'[r]) \subseteq ToSet(tdns[r])
      BY <1>3, <1>4 DEF Takes
    <2>3. Apart'
      BY <2>1, <2>2 DEF Owned, Apart
    <2>4. ASSUME NEW r \in Heads, r # q PROVE OwnQueue(r)'
      <3>1. OwnQueue(r) /\ tdns'[r] = tdns[r]
        BY <2>1, <2>4 DEF Owned, Takes
      <3>2. \A i \in DOMAIN tdns[r] : td'[tdns[r][i]] = td[tdns[r][i]]
        BY <1>7, <2>4 DEF ToSet
      <3> QED
        BY <1>8, <3>1, <3>2 DEF OwnQueue, Chained
    <2>5. OwnQueue(q)'
      <3>1. OwnQueue(q) /\ Chained(q)
        BY <2>1 DEF Owned, OwnQueue
      <3>2. ToSet(b) \subseteq Used
        BY <1>3, <1>4, <3>1 DEF OwnQueue
      <3>3. ASSUME NEW i \in DOMAIN b, NEW j \in DOMAIN b, i # j PROVE b[i] # b[j]
        <4>1. n + i \in DOMAIN s /\ n + j \in DOMAIN s /\ n + i # n + j /\ b[i] = s[n + i] /\ b[j] = s[n + j]
          BY <1>4, <3>3
        <4> QED
          BY <1>5, <4>1
      <3>4. ASSUME NEW i \in DOMAIN b
            PROVE  /\ td'[b[i]].status \notin {"unused", "freed"}
                   /\ td'[b[i]].next = IF i < Len(b) THEN b[i + 1] ELSE Null
        <4>1. td'[b[i]] = td[s[n + i]] /\ n + i \in DOMAIN s
          BY <1>4, <1>6
        <4>2. /\ td[s[n + i]].status \notin {"unused", "freed"}
              /\ td[s[n + i]].next = IF n + i < Len(s) THEN s[(n + i) + 1] ELSE Null
          BY <1>3, <3>1, <4>1 DEF Chained
        <4>3. /\ i < Len(b) <=> n + i < Len(s)
              /\ i < Len(b) => i + 1 \in 1..(Len(s) - n) /\ n + (i + 1) = (n + i) + 1
          BY <1>4
        <4>4. i < Len(b) => b[i + 1] = s[(n + i) + 1]
          BY <1>4, <4>3
        <4> QED
          BY <4>1, <4>2, <4>3, <4>4
      <3>5. Chained(q)'
        BY <1>4, <3>4 DEF Chained
      <3>6. qh[q] = "none" => b = <<>>
        <4>1. qh[q] = "none" => Len(s) = 0
          BY <1>3, <3>1 DEF OwnQueue
        <4>2. Len(s) = 0 => Len(b) = 0
          BY <1>4
        <4> QED
          BY <1>4, <4>1, <4>2
      <3> QED
        BY <1>4, <1>8, <3>2, <3>3, <3>5, <3>6 DEF OwnQueue
    <2> QED
      BY <1>8, <2>1, <2>3, <2>4, <2>5 DEF Owned, Counted
  <1>10. Telling'
    <2>1. ASSUME NEW t \in Tds
          PROVE  /\ td'[t].status # "freed" => told'[t] = "nothing"
                 /\ td'[t].status = "freed" /\ td'[t].cb => told'[t] # "nothing"
                 /\ told'[t] # "twice"
      <3>1. /\ td[t].status # "freed" => told[t] = "nothing"
            /\ td[t].status = "freed" /\ td[t].cb => told[t] # "nothing"
            /\ told[t] # "twice" /\ td'[t].cb = td[t].cb
        BY DEF Inv, Telling, Takes
      <3>2. CASE t \in ToSet(a)
        BY <3>1, <3>2 DEF Takes
      <3>3. CASE t \notin ToSet(a)
        BY <3>1, <3>3 DEF Takes
      <3> QED
        BY <3>2, <3>3
    <2> QED
      BY <2>1 DEF Telling
  <1>11. Working'
    <2> SUFFICES ASSUME NEW r \in Heads, qh[r] # "freed" PROVE QueueWorks(r)'
      BY DEF Working
    <2>1. QueueWorks(r) /\ tdns[r] \in Seq(Tds) /\ overlay[r] \in OverlayType
      BY <1>1 DEF Inv, Working, Types, QueueTypes
    <2>2. overlay[r].cur \in Tds \cup {Null}
      BY <2>1 DEF OverlayType
    <2>3. \A t \in Tds : td[t].status = "freed" => td'[t].status = "freed"
      BY DEF Takes
    <2>4. CASE r # q
      <3>1. \A t \in ToSet(tdns[r]) : td'[t].status = td[t].status
        BY <1>7, <2>4
      <3>2. overlay'[r] = overlay[r] /\ tdns'[r] = tdns[r] /\ qh'[r] = qh[r]
        BY <2>4 DEF Takes
      <3> QED
        BY <2>1, <2>2, <2>3, <3>1, <3>2, QueueKeeps
    <2>5. CASE r = q
      <3>1. PICK p \in 0..Len(s) : Works(q, p)
        BY <1>3, <2>1, <2>5 DEF QueueWorks
      <3>2. overlay[q].status \in {"done", "active", "error"}
        BY <2>1, <2>5 DEF OverlayType
      <3>3. n <= p
        <4> SUFFICES ASSUME ~(n <= p) PROVE FALSE
          OBVIOUS
        <4>1. p + 1 \in 1..n /\ p + 1 \in DOMAIN s /\ p + 1 > p
          BY <1>4, <3>1
        <4>2. td[s[p + 1]].status = "done"
          BY <1>3, <4>1 DEF Takes
        <4>3. CASE overlay[q].status = "error"
          BY <1>3, <3>1, <4>2, <4>3 DEF Works
        <4>4. CASE overlay[q].status \in {"done", "active"}
          <5>1. ToDo(q, p)
            BY <3>1, <4>4 DEF Works
          <5> QED
            BY <1>3, <4>1, <4>2, <5>1 DEF ToDo
        <4> QED
          BY <3>2, <4>3, <4>4
      <3>4. PICK m : m = p - n
        OBVIOUS
      <3>5. m \in 0..Len(b) /\ n + m = p /\ m \in Nat /\ p \in Nat
        BY <1>4, <3>1, <3>3, <3>4
      <3>6. \A i \in 1..m : td'[b[i]].status = "done"
        <4>1. \A i \in 1..m : i \in 1..(Len(s) - n) /\ n + i \in 1..p
          BY <1>4, <3>5
        <4> QED
          BY <1>3, <1>6, <3>1, <4>1 DEF Works
      <3>7. ASSUME NEW k \in Nat, ToDo(q, n + k) PROVE ToDo(q, k)'
        <4>1. ASSUME NEW i \in DOMAIN b, i > k PROVE td'[b[i]].status \in {"off", "active", "halted"}
          <5>1. n + i \in DOMAIN s /\ n + i > n + k /\ td'[b[i]] = td[s[n + i]]
            BY <1>4, <1>6, <4>1
          <5> QED
            BY <1>3, <3>7, <5>1 DEF ToDo
        <4> QED
          BY <1>4, <4>1 DEF ToDo
      <3>8. ASSUME NEW k \in Nat, LeadsTo(q, n + k), overlay'[q].next = overlay[q].next PROVE LeadsTo(q, k)'
        <4>1. ~(c.pc = "link" /\ c.q = q)
          BY DEF Unlocked
        <4>2. CASE overlay[q].next = Null
          BY <3>8, <4>2 DEF LeadsTo
        <4>3. CASE n + k < Len(s) /\ overlay[q].next = s[(n + k) + 1]
          <5>1. k < Len(b) /\ k + 1 \in 1..(Len(s) - n) /\ n + (k + 1) = (n + k) + 1
            BY <1>4, <4>3
          <5>2. b[k + 1] = s[(n + k) + 1]
            BY <1>4, <5>1
          <5> QED
            BY <1>4, <3>8, <4>3, <5>1, <5>2 DEF LeadsTo
        <4> QED
          BY <1>3, <3>8, <4>1, <4>2, <4>3 DEF LeadsTo
      <3>9. /\ overlay'[q].cur = overlay[q].cur /\ overlay'[q].status = overlay[q].status
            /\ \/ overlay'[q].next = overlay[q].next
               \/ /\ n # 0 /\ n < Len(s) /\ overlay[q].cur = s[n] /\ overlay'[q].next = s[n + 1]
        BY <1>3 DEF Takes
      <3>10. CASE overlay[q].status = "done"
        <4>1. ASSUME NEW i \in DOMAIN b, b[i] = overlay[q].cur PROVE i = m
          <5>1. n + i \in DOMAIN s /\ s[n + i] = overlay[q].cur /\ i \in Nat
            BY <1>4, <4>1
          <5>2. n + i = p
            BY <1>3, <3>1, <3>10, <5>1 DEF Works
          <5> QED
            BY <1>4, <3>5, <5>1, <5>2
        <4>2. ToDo(q, m)'
          BY <3>1, <3>5, <3>7, <3>10 DEF Works
        <4>3. LeadsTo(q, m)'
          <5>1. CASE overlay'[q].next = overlay[q].next
            BY <3>1, <3>5, <3>8, <3>10, <5>1 DEF Works
          <5>2. CASE n # 0 /\ n < Len(s) /\ overlay[q].cur = s[n] /\ overlay'[q].next = s[n + 1]
            <6>1. n \in DOMAIN s
              BY <1>4, <5>2
            <6>2. n = p
              BY <1>3, <3>1, <3>10, <5>2, <6>1 DEF Works
            <6>3. m = 0 /\ 0 < Len(b) /\ 1 \in 1..(Len(s) - n)
              BY <1>4, <3>5, <5>2, <6>2
            <6>4. b[1] = s[n + 1]
              BY <1>4, <6>3
            <6>5. m + 1 = 1
              BY <6>3
            <6> QED
              BY <1>4, <5>2, <6>3, <6>4, <6>5 DEF LeadsTo
          <5> QED
            BY <3>9, <5>1, <5>2
        <4>4. Works(q, m)'
          BY <1>4, <3>6, <3>9, <3>10, <4>1, <4>2, <4>3 DEF Works
        <4>5. overlay[q].cur = Null \/ overlay[q].cur \in ToSet(s) \/ td[overlay[q].cur].status = "freed"
          BY <1>3, <2>1, <2>5 DEF QueueWorks
        <4>6. overlay[q].cur = Null \/ overlay[q].cur \in ToSet(b) \/ td'[overlay[q].cur].status = "freed"
          BY <1>4, <2>2, <2>3, <2>5, <4>5 DEF Takes
        <4> QED
          BY <1>4, <2>5, <3>5, <3>9, <3>10, <4>4, <4>6 DEF QueueWorks
      <3>11. CASE overlay[q].status # "done"
        <4>1. p < Len(s) /\ overlay[q].cur = s[p + 1]
          BY <1>3, <3>1, <3>11 DEF Works
        <4>2. p + 1 \in DOMAIN s /\ p + 1 # n /\ m < Len(b) /\ n + (m + 1) = p + 1
              /\ m + 1 \in 1..(Len(s) - n) /\ m + 1 \in Nat
          BY <1>4, <3>3, <3>5, <4>1
        <4>3. b[m + 1] = s[p + 1] /\ td'[b[m + 1]] = td[s[p + 1]] /\ b[m + 1] \in ToSet(b)
          BY <1>4, <1>6, <4>2 DEF ToSet
        <4>4. overlay'[q].next = overlay[q].next
          <5>1. n # 0 => n \in DOMAIN s
            BY <1>4
          <5> QED
            BY <1>5, <3>9, <4>1, <4>2, <5>1
        <4>5. overlay[q].status = "active" => ToDo(q, m)' /\ LeadsTo(q, m + 1)'
          BY <3>1, <3>5, <3>7, <3>8, <4>2, <4>4 DEF Works
        <4>6. overlay[q].status = "error" => td'[b[m + 1]].status = "error" /\ ToDo(q, m + 1)'
          BY <1>3, <3>1, <3>7, <4>2, <4>3 DEF Works
        <4>7. Works(q, m)'
          BY <1>4, <3>6, <3>9, <3>11, <4>1, <4>2, <4>3, <4>5, <4>6 DEF Works
        <4>8. overlay[q].status = "active" => td'[overlay[q].cur].status \in {"active", "halted"}
          BY <2>1, <2>5, <4>1, <4>3 DEF QueueWorks
        <4> QED
          BY <1>4, <2>5, <3>5, <3>9, <4>1, <4>3, <4>7, <4>8 DEF QueueWorks
      <3> QED
        BY <3>10, <3>11
    <2> QED
      BY <2>4, <2>5
  <1> QED
    BY <1>2, <1>9, <1>10, <1>11

\* The client that has its TDs in the queue keeps them, or the step is a crossing.
LEMMA TakeKeepsClient ==
    ASSUME Inv, NEW q \in Heads, qh[q] # "freed", UNCHANGED <<qh, c, gone>>, Unlocked(q),
           NEW n, NEW a, NEW b, Takes(q, n, a, b), slips \cup Crossing(q, a) \subseteq slips'
    PROVE  ClientInv'
  <1>1. Types
    BY TypesAre DEF Inv, TypeInv
  <1>2. PICK s, ts, k : s = tdns[q] /\ ts = c.tds /\ k = Len(c.tds)
    OBVIOUS
  <1>3. /\ s \in Seq(Tds) /\ n \in Nat /\ n <= Len(s) /\ Len(s) \in Nat /\ DOMAIN s = 1..Len(s)
        /\ Len(b) = Len(s) - n /\ DOMAIN b = 1..(Len(s) - n) /\ tdns'[q] = b /\ b \in Seq(Tds)
        /\ \A i \in 1..(Len(s) - n) : b[i] = s[n + i] /\ n + i \in DOMAIN s
        /\ ToSet(b) \subseteq ToSet(s) /\ ToSet(s) \subseteq ToSet(a) \cup ToSet(b) /\ Len(a) = n
        /\ n # 0 => td[s[n]].ioc /\ td[s[n]].status = "done"
    <2>1. s \in Seq(Tds) /\ n \in 0..Len(s) /\ Splits(Tds, s, n, a, b) /\ tdns'[q] = b
      BY <1>1, <1>2 DEF Takes, Types, QueueTypes
    <2>2. n \in Nat /\ n <= Len(s) /\ Len(s) \in Nat /\ DOMAIN s = 1..Len(s) /\ (n # 0 => n \in 1..n)
      BY <2>1
    <2>3. n # 0 => td[s[n]].ioc /\ td[s[n]].status = "done"
      BY <1>2, <2>2 DEF Takes
    <2> QED
      BY <2>1, <2>2, <2>3 DEF Splits
  <1>4. \A r \in Heads : /\ r # q => tdns'[r] = tdns[r]
                         /\ ToSet(tdns'[r]) \subseteq ToSet(tdns[r])
    BY <1>2, <1>3 DEF Takes
  <1>5. ts \in Seq(Tds) /\ k \in Nat /\ DOMAIN ts = 1..k /\ \A i \in 1..k : ts[i] \in Tds
    <2>1. c.tds \in Seq(Tds)
      BY <1>1 DEF Types, ClientType
    <2> QED
      BY <1>2, <2>1
  <1>6. \A t \in Tds : /\ td[t].status # "done" => td'[t] = td[t]
                       /\ td'[t].ioc = td[t].ioc
    <2>1. \A t \in Tds : td[t].status # "done" => t \notin ToSet(a)
      BY DEF Takes
    <2> QED
      BY <2>1 DEF Takes
  <1>7. /\ InRing' = InRing /\ Busy' = Busy /\ Fresh' = Fresh /\ Linked' = Linked /\ ClientInv
        /\ \A r : Known(r)' = Known(r)
    BY DEF InRing, Busy, Fresh, Linked, Inv, Known, Adding
  <1>8. Serving' /\ Walking'
    <2>1. Clean({"crossed", "emptied", "torn"})' => Clean({"crossed", "emptied", "torn"})
      BY DEF Clean
    <2>2. Clean({"crossed"})' => Clean({"crossed"})
      BY DEF Clean
    <2> QED
      BY <1>7, <2>1, <2>2 DEF ClientInv, Serving, Walking
  <1>9. Prepared'
    <2> SUFFICES ASSUME Fresh PROVE Prepared'
      BY <1>7 DEF Prepared
    <2>1. /\ \A i \in 1..k : td[ts[i]].status = "off"
          /\ \A r \in Heads : ToSet(ts) \cap ToSet(tdns[r]) = {}
          /\ \A i \in 1..k : td[ts[i]].next = IF i < k THEN ts[i + 1] ELSE Null
      BY <1>2, <1>5, <1>7 DEF ClientInv, Prepared
    <2>2. \A i \in 1..k : td'[ts[i]] = td[ts[i]]
      BY <1>5, <1>6, <2>1
    <2>3. \A r \in Heads : ToSet(ts) \cap ToSet(tdns'[r]) = {}
      BY <1>4, <2>1
    <2> QED
      BY <1>2, <1>5, <2>1, <2>2, <2>3 DEF Prepared
  <1>10. Distinct'
    BY <1>2, <1>5, <1>6, <1>7 DEF ClientInv, Distinct
  <1>11. Activating'
    <2> SUFFICES ASSUME c.pc = "activate" PROVE Activating'
      BY DEF Activating
    <2>1. /\ ts # <<>> /\ c.q \in Heads /\ AtEnd
          /\ \/ td[Last(ts)].status = "off"
             \/ qh[c.q] = "freed" /\ td[Last(ts)].status = "freed"
      BY <1>2, <1>7 DEF ClientInv, Serving, Busy, Known, Activating
    <2>2. k \in 1..k /\ Last(ts) = ts[k]
      BY <1>2, <1>5, <2>1 DEF Last
    <2>3. \/ td'[Last(ts)].status = "off"
          \/ qh[c.q] = "freed" /\ td'[Last(ts)].status = "freed"
      BY <1>5, <1>6, <2>1, <2>2
    <2>4. CASE c.q # q
      <3>1. tdns'[c.q] = tdns[c.q]
        BY <1>4, <2>1, <2>4
      <3> QED
        BY <1>2, <2>1, <2>3, <3>1 DEF AtEnd, Activating
    <2>5. CASE c.q = q
      <3>1. k <= Len(s) /\ \A i \in 1..k : ts[i] = s[Len(s) - k + i]
        BY <1>2, <1>5, <2>1, <2>5 DEF AtEnd
      <3>2. n <= Len(s) - k
        <4> SUFFICES ASSUME ~(n <= Len(s) - k) PROVE FALSE
          OBVIOUS
        <4>1. PICK i : i = n - (Len(s) - k)
          OBVIOUS
        <4>2. i \in 1..k /\ Len(s) - k + i = n /\ n # 0
          BY <1>3, <1>5, <3>1, <4>1
        <4>3. ts[i] = s[n] /\ td[s[n]].ioc /\ td[s[n]].status = "done"
          BY <1>3, <3>1, <4>2
        <4>4. CASE i = k
          BY <2>1, <2>2, <4>3, <4>4
        <4>5. CASE i # k
          <5>1. i < k
            BY <1>5, <4>2, <4>5
          <5>2. ~td[ts[i]].ioc
            BY <1>2, <1>5, <1>7, <4>2, <5>1 DEF ClientInv, Distinct
          <5> QED
            BY <4>3, <5>2
        <4> QED
          BY <4>4, <4>5
      <3>3. k <= Len(b)
        BY <1>3, <1>5, <3>2
      <3>4. ASSUME NEW i \in 1..k PROVE ts[i] = b[Len(b) - k + i]
        <4>1. PICK j : j = Len(b) - k + i
          OBVIOUS
        <4>2. j \in 1..(Len(s) - n) /\ n + j = Len(s) - k + i
          BY <1>3, <1>5, <3>2, <4>1
        <4>3. b[j] = s[Len(s) - k + i]
          BY <1>3, <4>2
        <4> QED
          BY <3>1, <4>1, <4>3
      <3>5. AtEnd'
        BY <1>2, <1>3, <1>5, <2>5, <3>3, <3>4 DEF AtEnd
      <3> QED
        BY <1>2, <2>3, <3>5 DEF Activating
    <2> QED
      BY <2>4, <2>5
  <1>12. Found'
    <2>1. c.pc = "link" => tdns'[c.q] # <<>>
      <3>1. c.pc = "link" => c.q # q /\ c.q \in Heads /\ tdns[c.q] # <<>>
        BY <1>7 DEF Unlocked, ClientInv, Found, Serving, Busy, Known
      <3> QED
        BY <1>4, <3>1
    <2>2. ASSUME Clean({"crossed"})', c.pc = "lock" PROVE tdns'[c.q] # <<>>
      <3>1. tdns[c.q] # <<>> /\ c.q \in Heads /\ Crossing(q, a) # {"crossed"}
        BY <1>7, <2>2 DEF Clean, ClientInv, Found, Serving, Busy, Known
      <3>2. CASE c.q = q
        <4>1. Len(a) # Len(tdns[q])
          BY <2>2, <3>1, <3>2 DEF Crossing
        <4>2. Len(b) # 0
          BY <1>2, <1>3, <4>1
        <4> QED
          BY <1>3, <3>2, <4>2
      <3> QED
        BY <1>4, <3>1, <3>2
    <2>3. ASSUME Clean({"crossed"})', Linked PROVE ToSet(c.tds) \subseteq ToSet(tdns'[c.q])
      <3>1. ToSet(c.tds) \subseteq ToSet(tdns[c.q]) /\ c.q \in Heads /\ Crossing(q, a) # {"crossed"}
        BY <1>7, <2>3 DEF Clean, ClientInv, Found, Serving, Busy, Known, Linked
      <3>2. CASE c.q = q
        <4>1. ToSet(a) \cap ToSet(c.tds) = {}
          BY <2>3, <3>1, <3>2 DEF Crossing, Linked
        <4> QED
          BY <1>2, <1>3, <3>1, <3>2, <4>1
      <3> QED
        BY <1>4, <3>1, <3>2
    <2> QED
      BY <1>7, <2>1, <2>2, <2>3 DEF Found
  <1> QED
    BY <1>8, <1>9, <1>10, <1>11, <1>12 DEF ClientInv

\* A walk along the driver's links stays on queue heads that are in the ring.
LEMMA WalkStays ==
    ASSUME Ringed
    PROVE  Passable \subseteq InRing /\ \A q \in Passable : next[q] \in Passable
  <1>1. PICK L \in [Settled -> Settled] : RingOf(L)
    BY DEF Ringed
  <1>2. Settled \subseteq InRing /\ \A x \in Settled : L[x] \in Settled
    BY <1>1 DEF Settled
  <1>3. c.pc = "tail" => /\ c.q \in InRing /\ tail \in Settled /\ next[c.q] = L[tail]
                         /\ c.q \in Passable
    BY <1>1 DEF RingOf, Joins, Adding, AddStages, Passable
  <1>4. h.pc \in {"retail", "pend"} => h.q \in Settled
    BY <1>1 DEF RingOf, Leaves, Removing
  <1>5. ASSUME NEW q \in Settled PROVE next[q] \in Passable
    <2>1. next[q] = Soft(L, q)
      BY <1>1 DEF RingOf
    <2>2. Settled \subseteq Passable
      BY DEF Passable
    <2> QED
      BY <1>2, <1>3, <1>4, <2>1, <2>2 DEF Soft
  <1>6. \A q \in Passable : q \in Settled \/ (c.pc = "tail" /\ q = c.q)
    BY DEF Passable
  <1>7. Settled \subseteq Passable
    BY DEF Passable
  <1> QED
    BY <1>2, <1>3, <1>5, <1>6, <1>7

LEMMA ClientWalkKeeps ==
    ASSUME Inv, ClientWalk
    PROVE  Inv'
  <1>1. /\ Running /\ c.pc = "walk"
        /\ UNCHANGED <<tail, next, qhlptr, qh, was_cancelled, db_pending, usbsts, doorbell, hw, h,
                       gone, bound>>
    BY DEF ClientWalk, Stage, ClientKeeps, ring, removal
  <1>2. Types
    BY TypesAre DEF Inv, TypeInv
  <1>3. c \in ClientType /\ c.at \in Heads \cup {Null} /\ Known(c.q) /\ c.tds # <<>>
    BY <1>1, <1>2 DEF Types, ClientType, Inv, ClientInv, Serving, Busy
  <1>4. CASE Lost(c.at)
    <2>1. ~Clean({"crossed", "emptied", "torn"})
      BY <1>1, <1>4, HeadsAre DEF Inv, ClientInv, Walking, Lost, InRing
    <2>2. UNCHANGED <<ring, qh, removal, queue, regs, hw, c, h, gone, bound, slips>>
      BY <1>1, <1>4 DEF ClientWalk, Fault, ring, removal, queue, regs
    <2> QED
      BY <1>1, <2>1, <2>2, FaultKeeps
  <1>5. CASE ~Lost(c.at)
    <2>1. PICK q : q = c.at
      OBVIOUS
    <2>2. q \in Heads /\ qh[q] # "freed"
      BY <1>3, <1>5, <2>1 DEF Lost
    <2>3. /\ Unlocked(q) /\ Take(q, Taken(q)) /\ fault' = fault
          /\ slips \subseteq slips'
          /\ h.pc = "halt" /\ h.td \in ToSet(Taken(q)) => "crossed" \in slips'
      BY <1>5, <2>1 DEF ClientWalk, Slip
    <2>4. PICK n, a, b : Takes(q, n, a, b)
      BY <2>2, <2>3, TakeIs
    <2>5. QueueTypes' /\ Owned' /\ Telling' /\ Working'
      BY <1>1, <2>2, <2>3, <2>4, TakeKeepsQueue
    <2>6. /\ c' \in ClientType /\ c'.q = c.q /\ c'.tds = c.tds /\ usbintr' \in BOOLEAN
          /\ \/ c'.pc = "idle"
             \/ c'.pc = "walk" /\ c'.at = next[q]
      <3>1. \/ c' = [c EXCEPT !.pc = "idle"] /\ usbintr' = TRUE
            \/ c' = [c EXCEPT !.at = next[q]] /\ usbintr' = usbintr
        BY <1>5, <2>1 DEF ClientWalk
      <3>2. next[q] \in Heads \cup {Null} /\ usbintr \in BOOLEAN
        BY <1>2, <2>2 DEF Types, RingTypes, RegTypes
      <3>3. CASE c' = [c EXCEPT !.pc = "idle"] /\ usbintr' = TRUE
        BY <1>3, <3>3 DEF ClientType, Stages
      <3>4. CASE c' = [c EXCEPT !.at = next[q]] /\ usbintr' = usbintr
        BY <1>1, <1>3, <3>2, <3>4 DEF ClientType, Stages
      <3> QED
        BY <3>1, <3>3, <3>4
    <2>7. Links' /\ Removed' /\ RingInv' /\ DoorInv' /\ HandlerInv' /\ InRing' = InRing /\ TypeInv'
      <3>1. ASSUME h.pc = "halt", h.td \in ToSet(tdns[h.q])
            PROVE  h.td \in ToSet(tdns'[h.q]) \/ "crossed" \in slips'
        <4>1. h.q \in Heads
          BY <3>1 DEF Inv, HandlerInv, Cancelling, InRing
        <4>2. CASE h.q # q
          BY <2>4, <3>1, <4>1, <4>2 DEF Takes
        <4>3. CASE h.q = q
          <5>1. ToSet(tdns[q]) \subseteq ToSet(a) \cup ToSet(b) /\ tdns'[q] = b /\ a = Taken(q)
            BY <2>4 DEF Takes, Splits
          <5>2. CASE h.td \in ToSet(a)
            BY <2>3, <3>1, <5>1, <5>2
          <5>3. CASE h.td \in ToSet(b)
            BY <4>3, <5>1, <5>3
          <5> QED
            BY <3>1, <4>3, <5>1, <5>2, <5>3
        <4> QED
          BY <4>2, <4>3
      <3>2. StaysWith
        BY <1>1, <2>6, <3>1 DEF StaysWith, SameAdding, Adding, AddStages
      <3> QED
        BY <1>1, <2>3, <2>5, <2>6, <3>2, ClientLeaves
    <2>8. ClientInv'
      <3>1. Prepared' /\ Distinct' /\ Activating' /\ Found'
        BY <2>6 DEF Prepared, Distinct, Activating, Found, Fresh, Linked, Adding, AddStages
      <3>2. Serving'
        BY <1>1, <1>3, <2>6, <2>7 DEF Serving, Known
      <3>3. ASSUME Clean({"crossed", "emptied", "torn"}) PROVE next[q] \in InRing
        <4>1. q \in InRing /\ Ringed
          BY <1>1, <2>1, <3>3 DEF Inv, ClientInv, Walking, RingInv, Clean
        <4>2. Passable = InRing
          BY <1>1 DEF Passable, Settled, Adding, AddStages
        <4> QED
          BY <4>1, <4>2, WalkStays
      <3>4. Walking'
        BY <2>3, <2>6, <2>7, <3>3 DEF Walking, Clean
      <3> QED
        BY <3>1, <3>2, <3>4 DEF ClientInv
    <2>9. MemorySafe'
      BY <1>1, <2>3, MemoryFrame
    <2>10. ControllerSafe'
      BY <1>1, <2>5, <2>7, ControllerStays
    <2> QED
      BY <2>5, <2>7, <2>8, <2>9, <2>10 DEF Inv
  <1> QED
    BY <1>4, <1>5
-----------------------------------------------------------------------------
(* The interrupt thread.                                                   *)

LEMMA HandlerWalkKeeps ==
    ASSUME Inv, HandlerWalk
    PROVE  Inv'
  <1>1. /\ Running /\ h.pc = "walk"
        /\ UNCHANGED <<tail, next, qhlptr, qh, was_cancelled, db_pending, usbsts, usbintr, doorbell,
                       hw, c, gone, bound>>
    BY DEF HandlerWalk, At, HandlerKeeps, ring, removal
  <1>2. Types
    BY TypesAre DEF Inv, TypeInv
  <1>3. h \in HandlerType /\ h.q \in Heads \cup {Null}
    BY <1>2 DEF Types, HandlerType
  <1>4. CASE Lost(h.q)
    <2>1. ~Clean({"emptied", "torn"})
      BY <1>1, <1>4, HeadsAre, WalkStays DEF Inv, HandlerInv, RingInv, Lost, InRing
    <2>2. ~Clean({"crossed", "emptied", "torn"})
      BY <2>1 DEF Clean
    <2>3. UNCHANGED <<ring, qh, removal, queue, regs, hw, c, h, gone, bound, slips>>
      BY <1>1, <1>4 DEF HandlerWalk, Fault, ring, removal, queue, regs
    <2> QED
      BY <1>1, <2>2, <2>3, FaultKeeps
  <1>5. CASE ~Lost(h.q)
    <2>1. PICK q : q = h.q
      OBVIOUS
    <2>2. q \in Heads /\ qh[q] # "freed"
      BY <1>3, <1>5, <2>1 DEF Lost
    <2>3. /\ Unlocked(q) /\ Take(q, Taken(q)) /\ fault' = fault
          /\ slips \cup Crossing(q, Taken(q)) \subseteq slips'
      BY <1>5, <2>1 DEF HandlerWalk, Slip
    <2>4. PICK n, a, b : Takes(q, n, a, b)
      BY <2>2, <2>3, TakeIs
    <2>5. QueueTypes' /\ Owned' /\ Telling' /\ Working'
      BY <1>1, <2>2, <2>3, <2>4, TakeKeepsQueue
    <2>6. ClientInv'
      <3>1. slips \cup Crossing(q, a) \subseteq slips'
        BY <2>3, <2>4 DEF Takes
      <3> QED
        BY <1>1, <2>2, <2>3, <2>4, <3>1, TakeKeepsClient
    <2>7. /\ h' \in HandlerType /\ h'.sts = h.sts
          /\ \/ h'.pc = "port"
             \/ h'.pc = "walk" /\ h'.q = next[q]
      <3>1. \/ h' = [h EXCEPT !.pc = "port"]
            \/ h' = [h EXCEPT !.q = next[q]]
        BY <1>5, <2>1 DEF HandlerWalk
      <3>2. next[q] \in Heads \cup {Null}
        BY <1>2, <2>2 DEF Types, RingTypes
      <3>3. CASE h' = [h EXCEPT !.pc = "port"]
        BY <1>3, <3>3 DEF HandlerType, HandlerStages
      <3>4. CASE h' = [h EXCEPT !.q = next[q]]
        BY <1>1, <1>3, <3>2, <3>4 DEF HandlerType, HandlerStages
      <3> QED
        BY <3>1, <3>3, <3>4
    <2>8. /\ Answered' = Answered /\ slips \subseteq slips' /\ SameAdding /\ SameRemoving
          /\ ~Cancelling' /\ ~Removing'
      BY <1>1, <2>3, <2>7, SameStages DEF Answered, Cancelling, Removing
    <2>9. TypeInv'
      BY <1>1, <1>2, <2>5, <2>7, TypesAre DEF Inv, TypeInv, Types, RingTypes, RegTypes
    <2>10. Links' /\ Removed' /\ RingInv' /\ DoorInv' /\ MemorySafe'
      BY <1>1, <2>3, <2>8, LinksFrame, RemovedFrame, RingFrame, SameStages, DoorFrame, MemoryFrame DEF Inv
    <2>11. HandlerInv'
      <3>1. ASSUME Clean({"emptied", "torn"})' PROVE next[q] \in Passable
        <4>1. q \in Passable /\ Ringed
          BY <1>1, <2>1, <2>8, <3>1 DEF Inv, HandlerInv, RingInv, Clean
        <4> QED
          BY <4>1, WalkStays
      <3> QED
        BY <1>1, <2>7, <2>8, <3>1, SettledFrame DEF Inv, HandlerInv
    <2>12. ControllerSafe'
      BY <1>1, <2>5, <2>9, ControllerStays
    <2> QED
      BY <2>5, <2>6, <2>9, <2>10, <2>11, <2>12 DEF Inv
  <1> QED
    BY <1>4, <1>5

\* A step of the handler that touches nothing the controller or the client uses.
LEMMA HandlerMoves ==
    ASSUME Inv, Running, UNCHANGED <<tail, next, qhlptr, qh, was_cancelled, db_pending, tdns, td,
               overlay, told, usbintr, doorbell, hw, c, gone, bound, fault>>,
           slips \subseteq slips', usbsts' \subseteq usbsts, h' \in HandlerType,
           Answered' => Answered, HandlerInv',
           (~Removing /\ ~Removing') \/ RingInv'
    PROVE  Inv'
  <1>1. Types
    BY TypesAre DEF Inv, TypeInv
  <1>2. TypeInv'
    BY <1>1, TypesAre DEF Inv, TypeInv, Types, RingTypes, QueueTypes, RegTypes
  <1>3. SameAdding /\ (SameRemoving \/ RingInv')
    BY SameStages
  <1>4. Links' /\ Removed' /\ RingInv' /\ DoorInv' /\ ClientInv' /\ MemorySafe'
    BY <1>3, LinksFrame, RemovedFrame, RingFrame, SameStages, DoorFrame, ClientFrame, MemoryFrame DEF Inv
  <1>5. Owned' /\ Telling' /\ Working' /\ ControllerSafe'
    BY OwnedFrame, TellingFrame, WorkingFrame, ControllerFrame DEF Inv
  <1> QED
    BY <1>2, <1>4, <1>5 DEF Inv

LEMMA InterruptKeeps ==
    ASSUME Inv, Interrupt
    PROVE  Inv'
  <1>1. /\ Running /\ h.pc = "idle"
        /\ UNCHANGED <<tail, next, qhlptr, qh, was_cancelled, db_pending, tdns, td, overlay, told,
                       usbsts, usbintr, doorbell, hw, c, gone, bound, slips, fault>>
    BY DEF Interrupt, At, HandlerKeeps, ring, removal, queue, history
  <1>2. Types
    BY TypesAre DEF Inv, TypeInv
  <1>3. /\ h' \in HandlerType /\ h'.sts = usbsts /\ h'.q = tail
        /\ h'.pc = "port" \/ (h'.pc = "walk" /\ tail # Null)
    <2>1. PICK pc : pc = IF "usb" \in usbsts /\ tail # Null THEN "walk" ELSE "port"
      OBVIOUS
    <2>2. h' = [h EXCEPT !.pc = pc, !.q = tail, !.sts = usbsts]
      BY <2>1 DEF Interrupt
    <2>3. pc = "port" \/ (pc = "walk" /\ tail # Null)
      BY <2>1
    <2>4. h \in HandlerType /\ tail \in Heads \cup {Null} /\ usbsts \subseteq {"usb", "err", "port", "adv"}
      BY <1>2 DEF Types, RingTypes, RegTypes
    <2> QED
      BY <2>2, <2>3, <2>4 DEF HandlerType, HandlerStages
  <1>4. Answered' => Answered
    BY <1>1, <1>3 DEF Answered
  <1>5. HandlerInv'
    <2>1. Clean({"emptied", "torn"})' => (tail # Null => tail \in Passable)
      BY <1>1 DEF Clean, Inv, RingInv, Ringed, TailIn, Passable
    <2>2. Passable' = Passable /\ ~Cancelling' /\ ~Removing'
      BY <1>1, <1>3, SameStages, SettledFrame DEF Cancelling, Removing
    <2> QED
      BY <1>1, <1>3, <2>1, <2>2 DEF HandlerInv
  <1>6. ~Removing /\ ~Removing'
    BY <1>1, <1>3 DEF Removing
  <1> QED
    BY <1>1, <1>3, <1>4, <1>5, <1>6, HandlerMoves

LEMMA PortsDoneKeeps ==
    ASSUME Inv, PortsDone
    PROVE  Inv'
  <1>1. /\ Running /\ h.pc = "port"
        /\ UNCHANGED <<tail, next, qhlptr, qh, was_cancelled, db_pending, tdns, td, overlay, told,
                       usbsts, usbintr, doorbell, hw, c, gone, bound, slips, fault>>
    BY DEF PortsDone, At, HandlerKeeps, ring, removal, queue, history
  <1>2. Types
    BY TypesAre DEF Inv, TypeInv
  <1>3. h' \in HandlerType /\ h'.sts = h.sts /\ h'.pc = IF "adv" \in h.sts THEN "doorbell" ELSE "clear"
    <2>1. PICK pc : pc = IF "adv" \in h.sts THEN "doorbell" ELSE "clear"
      OBVIOUS
    <2>2. h' = [h EXCEPT !.pc = pc] /\ pc \in {"doorbell", "clear"} /\ h \in HandlerType
      BY <1>2, <2>1 DEF PortsDone, Types
    <2> QED
      BY <2>1, <2>2 DEF HandlerType, HandlerStages
  <1>4. Answered' => Answered
    BY <1>1, <1>3 DEF Answered
  <1>5. HandlerInv'
    BY <1>1, <1>3 DEF Inv, HandlerInv, Cancelling, Removing
  <1>6. ~Removing /\ ~Removing'
    BY <1>1, <1>3 DEF Removing
  <1> QED
    BY <1>1, <1>3, <1>4, <1>5, <1>6, HandlerMoves

LEMMA ClearKeeps ==
    ASSUME Inv, Clear
    PROVE  Inv'
  <1>1. /\ Running /\ h.pc = "clear" /\ usbsts' = usbsts \ h.sts /\ slips \subseteq slips'
        /\ UNCHANGED <<tail, next, qhlptr, qh, was_cancelled, db_pending, tdns, td, overlay, told,
                       usbintr, doorbell, hw, c, gone, bound, fault>>
    BY DEF Clear, At, HandlerKeeps, ring, removal, queue, Slip
  <1>2. Types
    BY TypesAre DEF Inv, TypeInv
  <1>3. h' \in HandlerType /\ h'.sts = {} /\ h'.pc = "idle"
    <2>1. h \in HandlerType
      BY <1>2 DEF Types
    <2> QED
      BY <2>1 DEF Clear, HandlerType, HandlerStages
  <1>4. Answered' => Answered
    BY <1>1, <1>3 DEF Answered
  <1>5. HandlerInv' /\ usbsts' \subseteq usbsts
    BY <1>1, <1>3 DEF Inv, HandlerInv, Cancelling, Removing
  <1>6. ~Removing /\ ~Removing'
    BY <1>1, <1>3 DEF Removing
  <1> QED
    BY <1>1, <1>3, <1>4, <1>5, <1>6, HandlerMoves

\* The queue heads that have waited for two answers are the first ones.
LEMMA PassedAreFirst ==
    ASSUME Inv
    PROVE  \E n \in 0..Len(db_pending), a, b \in Seq(Heads) :
        /\ n = Max({0} \cup {i \in DOMAIN db_pending : CyclesPassed(db_pending[i])})
        /\ a = SubSeq(db_pending, 1, n) /\ b = SubSeq(db_pending, n + 1, Len(db_pending))
        /\ \A q \in ToSet(a) : q \in Pending /\ was_cancelled[q] = 2
        /\ \A q \in ToSet(b) : q \in Pending /\ was_cancelled[q] = 1
        /\ Pending = ToSet(a) \cup ToSet(b)
  <1>1. PICK s, I : s = db_pending /\ I = {0} \cup {i \in DOMAIN db_pending : CyclesPassed(db_pending[i])}
    OBVIOUS
  <1>2. s \in Seq(Heads) /\ Len(s) \in Nat /\ DOMAIN s = 1..Len(s)
    <2>1. s \in Seq(Heads)
      BY <1>1 DEF Inv, TypeInv, TypeOK
    <2> QED
      BY <2>1
  <1>3. I \in SUBSET (0..Len(s)) /\ I # {}
    BY <1>1, <1>2
  <1>4. PICK n : n = Max(I)
    OBVIOUS
  <1>5. n \in I /\ \A i \in I : n >= i
    BY <1>2, <1>3, <1>4, MaxElement
  <1>6. n \in 0..Len(s) /\ n \in Nat
    BY <1>2, <1>3, <1>5
  <1>7. PICK a, b : a = SubSeq(s, 1, n) /\ b = SubSeq(s, n + 1, Len(s))
    OBVIOUS
  <1>8. Splits(Heads, s, n, a, b)
    <2>1. PICK S : S = Heads
      OBVIOUS
    <2>2. s \in Seq(S)
      BY <1>2, <2>1
    <2>3. /\ a \in Seq(S) /\ Len(a) = n /\ \A i \in 1..n : a[i] = s[i]
      BY <1>6, <1>7, <2>2, FrontIs
    <2>4. /\ b \in Seq(S) /\ Len(b) = Len(s) - n
          /\ \A i \in 1..(Len(s) - n) : b[i] = s[n + i] /\ n + i \in DOMAIN s
      BY <1>6, <1>7, <2>2, RestIs
    <2>5. Splits(S, s, n, a, b)
      BY <1>6, <2>2, <2>3, <2>4, FrontAndRest
    <2> QED
      BY <2>1, <2>5
  <1>9. \A i \in DOMAIN s : s[i] \in Pending /\ was_cancelled[s[i]] \in {1, 2}
    <2>1. ToSet(s) = Pending /\ \A q \in Pending : was_cancelled[q] \in {1, 2}
      BY <1>1 DEF Inv, Removed
    <2> QED
      BY <2>1 DEF ToSet
  <1>10. ASSUME NEW q \in ToSet(a) PROVE q \in Pending /\ was_cancelled[q] = 2
    <2>1. PICK i \in 1..n : q = s[i]
      BY <1>8, <1>10 DEF Splits
    <2>2. i \in DOMAIN s /\ n \in DOMAIN s /\ n # 0 /\ i <= n /\ i \in Nat
      BY <1>2, <1>6, <2>1
    <2>3. was_cancelled[s[n]] > 1
      BY <1>1, <1>5, <2>2 DEF CyclesPassed
    <2>4. was_cancelled[s[i]] >= was_cancelled[s[n]]
      <3>1. CASE i = n
        BY <1>9, <2>2, <3>1
      <3>2. CASE i # n
        <4>1. i < n
          BY <1>6, <2>2, <3>2
        <4> QED
          BY <1>1, <2>2, <4>1 DEF Inv, Removed
      <3> QED
        BY <3>1, <3>2
    <2> QED
      BY <1>9, <2>1, <2>2, <2>3, <2>4
  <1>11. ASSUME NEW q \in ToSet(b) PROVE q \in Pending /\ was_cancelled[q] = 1
    <2>1. PICK i \in 1..(Len(s) - n) : q = b[i]
      BY <1>8, <1>11 DEF Splits, ToSet
    <2>2. n + i \in DOMAIN s /\ q = s[n + i]
      BY <1>8, <2>1 DEF Splits
    <2>3. ~(n >= n + i)
      BY <1>2, <1>6, <2>1
    <2>4. n + i \notin I
      BY <1>5, <2>3
    <2>5. ~(was_cancelled[q] > 1)
      BY <1>1, <2>2, <2>4 DEF CyclesPassed
    <2> QED
      BY <1>9, <2>2, <2>5
  <1>12. Pending = ToSet(a) \cup ToSet(b)
    <2>1. ToSet(s) = Pending
      BY <1>1 DEF Inv, Removed
    <2> QED
      BY <1>8, <1>10, <1>11, <2>1 DEF Splits
  <1> QED
    BY <1>1, <1>4, <1>6, <1>7, <1>8, <1>10, <1>11, <1>12 DEF Splits

LEMMA CheckDoorbellKeeps ==
    ASSUME Inv, CheckDoorbell
    PROVE  Inv'
  <1>1. /\ Running /\ h.pc = "doorbell"
        /\ UNCHANGED <<tail, next, qhlptr, tdns, overlay, usbsts, usbintr, hw, c, gone, bound>>
    BY DEF CheckDoorbell, At, HandlerKeeps, ring
  <1>2. Types
    BY TypesAre DEF Inv, TypeInv
  <1>3. PICK n \in 0..Len(db_pending), a, b \in Seq(Heads) :
        /\ n = Max({0} \cup {i \in DOMAIN db_pending : CyclesPassed(db_pending[i])})
        /\ a = SubSeq(db_pending, 1, n) /\ b = SubSeq(db_pending, n + 1, Len(db_pending))
        /\ \A q \in ToSet(a) : q \in Pending /\ was_cancelled[q] = 2
        /\ \A q \in ToSet(b) : q \in Pending /\ was_cancelled[q] = 1
        /\ Pending = ToSet(a) \cup ToSet(b)
    BY PassedAreFirst
  <1>4. PICK out, ts : out = ToSet(a) /\ ts = UNION {ToSet(tdns[q]) : q \in out}
    OBVIOUS
  <1>5. \A q \in out : CyclesPassed(q)
    BY <1>3, <1>4 DEF CyclesPassed
  <1>6. /\ db_pending' = b
        /\ was_cancelled' = [q \in Heads |-> IF q \in ToSet(b) THEN was_cancelled[q] + 1
                                             ELSE was_cancelled[q]]
        /\ doorbell' = Ring(b)
        /\ qh' = [q \in Heads |-> IF q \in out THEN "freed" ELSE qh[q]]
        /\ Tell(ts, "cancelled") /\ Free(ts)
        /\ h' = [h EXCEPT !.pc = "clear", !.rang = doorbell']
        /\ UNCHANGED <<slips, fault>>
    BY <1>3, <1>4, <1>5 DEF CheckDoorbell, NoSlip, history
  <1>7. /\ out \subseteq Pending /\ Pending \subseteq Heads /\ Pending = out \cup ToSet(b)
        /\ ToSet(b) \cap out = {}
        /\ \A q \in out : was_cancelled[q] = 2 /\ qh[q] = "pending"
        /\ \A q \in ToSet(b) : was_cancelled[q] = 1
    <2>1. \A q \in Pending : q \in Heads /\ qh[q] = "pending"
      BY DEF Pending
    <2>2. \A q \in out : q \in Pending /\ was_cancelled[q] = 2
      BY <1>3, <1>4
    <2>3. \A q \in ToSet(b) : q \in Pending /\ was_cancelled[q] = 1
      BY <1>3
    <2>4. Pending = out \cup ToSet(b)
      BY <1>3, <1>4
    <2>5. ToSet(b) \cap out = {}
      BY <2>2, <2>3
    <2> QED
      BY <2>1, <2>2, <2>3, <2>4, <2>5
  <1>8. /\ \A q \in out : qh'[q] = "freed"
        /\ \A q \in Heads \ out : qh'[q] = qh[q]
        /\ \A q \in ToSet(b) : was_cancelled'[q] = 2
        /\ Pending' = ToSet(b) /\ InRing' = InRing
    <2>1. \A q \in out : qh'[q] = "freed"
      BY <1>6, <1>7
    <2>2. \A q \in Heads \ out : qh'[q] = qh[q]
      BY <1>6
    <2>3. \A q \in ToSet(b) : was_cancelled'[q] = 2
      BY <1>6, <1>7
    <2>4. Pending' = ToSet(b)
      BY <1>7, <2>1, <2>2 DEF Pending
    <2>5. InRing' = InRing
      BY <1>7, <2>1, <2>2 DEF InRing
    <2> QED
      BY <2>1, <2>2, <2>3, <2>4, <2>5
  <1>9. /\ h' \in HandlerType /\ h'.sts = h.sts /\ h'.pc = "clear" /\ doorbell' \in BOOLEAN
        /\ "adv" \in h.sts /\ "adv" \in usbsts
    <2>1. h \in HandlerType /\ doorbell \in BOOLEAN
      BY <1>2 DEF Types, RegTypes
    <2>2. doorbell' \in BOOLEAN
      BY <1>6, <2>1 DEF Ring
    <2>3. "adv" \in h.sts /\ "adv" \in usbsts
      BY <1>1 DEF Inv, HandlerInv
    <2>4. h' \in HandlerType /\ h'.sts = h.sts /\ h'.pc = "clear"
      BY <1>6, <2>1, <2>2 DEF HandlerType, HandlerStages
    <2> QED
      BY <2>2, <2>3, <2>4
  <1>10. ASSUME NEW t \in ts PROVE /\ t \in Tds /\ td[t].status \notin {"unused", "freed"}
                                   /\ told[t] = "nothing"
                                   /\ \A r \in Heads : r \notin out => t \notin ToSet(tdns[r])
    <2>1. PICK q \in out : t \in ToSet(tdns[q])
      BY <1>4, <1>10
    <2>2. q \in Heads /\ tdns[q] \in Seq(Tds) /\ qh[q] # "freed"
      BY <1>2, <1>7, <2>1 DEF Types, QueueTypes
    <2>3. PICK i \in DOMAIN tdns[q] : t = tdns[q][i]
      BY <2>1 DEF ToSet
    <2>4. t \in Tds /\ td[t].status \notin {"unused", "freed"}
      BY <2>2, <2>3 DEF Inv, Owned, OwnQueue, Chained
    <2>5. told[t] = "nothing"
      BY <2>4 DEF Inv, Telling
    <2>6. \A r \in Heads : r \notin out => t \notin ToSet(tdns[r])
      BY <2>1, <2>2 DEF Inv, Owned, Apart
    <2> QED
      BY <2>4, <2>5, <2>6
  <1>11. ASSUME NEW t \in Tds
         PROVE  /\ td'[t] \in TdType
                /\ td'[t].next = td[t].next /\ td'[t].ioc = td[t].ioc /\ td'[t].cb = td[t].cb
                /\ t \in ts => td'[t].status = "freed"
                /\ t \notin ts => td'[t] = td[t]
    <2>1. td[t] \in TdType
      BY <1>2 DEF Types, QueueTypes
    <2>2. CASE t \in ts
      <3>1. td'[t] = [td[t] EXCEPT !.status = "freed"]
        BY <1>6, <2>2 DEF Free
      <3> QED
        BY <2>1, <2>2, <3>1 DEF TdType
    <2>3. CASE t \notin ts
      <3>1. td'[t] = td[t]
        BY <1>6, <2>3 DEF Free
      <3> QED
        BY <2>1, <2>3, <3>1
    <2> QED
      BY <2>2, <2>3
  <1>12. ASSUME NEW t \in Tds
         PROVE  /\ t \in ts => /\ td[t].cb => told'[t] = "cancelled"
                               /\ ~td[t].cb => told'[t] = "nothing"
                /\ t \notin ts => told'[t] = told[t]
    BY <1>6, <1>10 DEF Tell, Callback
  <1>13. QueueTypes'
    <2>1. td' \in [Tds -> TdType]
      <3>1. td' = [t \in Tds |-> td'[t]]
        BY <1>6 DEF Free
      <3> QED
        BY <1>11, <3>1
    <2>2. told' \in [Tds -> ToldType]
      <3>1. told' = [t \in Tds |-> told'[t]]
        BY <1>6 DEF Tell
      <3>2. \A t \in Tds : told[t] \in ToldType /\ td[t].cb \in BOOLEAN
        BY <1>2 DEF Types, QueueTypes, TdType
      <3>3. \A t \in Tds : told'[t] \in ToldType
        BY <1>12, <3>2 DEF ToldType
      <3> QED
        BY <3>1, <3>3
    <2> QED
      BY <1>1, <1>2, <2>1, <2>2 DEF Types, QueueTypes
  <1>14. TypeInv'
    <2>1. was_cancelled' \in [Heads -> 0..2]
      <3>1. \A q \in Heads : was_cancelled[q] \in 0..2
        BY <1>2 DEF Types, RingTypes
      <3>2. ASSUME NEW q \in Heads PROVE was_cancelled'[q] \in 0..2
        <4>1. CASE q \in ToSet(b)
          BY <1>8, <4>1
        <4>2. CASE q \notin ToSet(b)
          BY <1>6, <3>1, <4>2
        <4> QED
          BY <4>1, <4>2
      <3> QED
        BY <1>6, <3>2
    <2>2. qh' \in [Heads -> {"none", "ring", "pending", "freed"}]
      BY <1>2, <1>6 DEF Types, RingTypes
    <2>3. RingTypes'
      BY <1>1, <1>2, <1>3, <1>6, <2>1, <2>2 DEF Types, RingTypes
    <2> QED
      BY <1>1, <1>2, <1>9, <1>13, <2>3, TypesAre DEF Inv, TypeInv, Types, RegTypes
  <1>15. Links'
    <2>1. \A q \in Heads : qh'[q] = "none" <=> qh[q] = "none"
      BY <1>7, <1>8
    <2> QED
      BY <1>1, <2>1 DEF Inv, Links, Known
  <1>16. Removed'
    <2>1. \A i \in DOMAIN b : b[i] \in ToSet(b)
      BY DEF ToSet
    <2>2. \A i, j \in DOMAIN b : was_cancelled'[b[i]] = 2 /\ was_cancelled'[b[j]] = 2 /\ 2 >= 2
      BY <1>8, <2>1
    <2>3. \A i, j \in DOMAIN b : was_cancelled'[b[i]] >= was_cancelled'[b[j]]
      BY <2>2
    <2> QED
      BY <1>6, <1>8, <2>3 DEF Removed
  <1>17. RingInv'
    <2> SUFFICES ASSUME Clean({"emptied", "torn"}) PROVE Ringed'
      BY <1>6 DEF RingInv, Clean
    <2>1. Ringed
      BY DEF Inv, RingInv
    <2>2. ASSUME NEW q \in ToSet(b) PROVE qhlptr[q] \in InRing \/ qhlptr[q] \in ToSet(b)
      <3>1. q \in Pending /\ was_cancelled[q] = 1
        BY <1>3
      <3>2. CASE qhlptr[q] \in Pending /\ 1 >= was_cancelled[qhlptr[q]]
        <4>1. was_cancelled[qhlptr[q]] # 2
          BY <3>2
        <4> QED
          BY <1>7, <3>2, <4>1
      <3> QED
        BY <2>1, <3>1, <3>2 DEF Ringed, LeadsBack
    <2>3. tail \in Settled \/ (tail = Null /\ \A q \in Heads : qh'[q] = "none")
      <3>1. (\A q \in Heads : qh[q] = "none") => \A q \in Heads : qh'[q] = "none"
        BY <1>7, <1>8
      <3> QED
        BY <2>1, <3>1 DEF Ringed, TailIn
    <2>4. ASSUME NEW q \in ToSet(b)
          PROVE  \/ qhlptr[q] \in InRing
                 \/ qhlptr[q] \in ToSet(b) /\ was_cancelled'[q] >= was_cancelled'[qhlptr[q]]
      BY <1>8, <2>2
    <2> QED
      <3>1. SameAdding /\ SameRemoving
        BY <1>1, <1>9, SameStages DEF Removing
      <3>2. Settled' = Settled
        BY <1>8, <3>1, SettledSame
      <3>3. PICK L \in [Settled -> Settled] : RingOf(L)
        BY <2>1 DEF Ringed
      <3>4. RingOf(L)'
        BY <1>1, <1>8, <3>1, <3>3, RingOfFrame
      <3>5. TailIn' /\ LeadsBack'
        BY <1>1, <1>8, <2>3, <2>4, <3>2 DEF TailIn, LeadsBack
      <3> QED
        BY <3>2, <3>3, <3>4, <3>5 DEF Ringed
  <1>18. DoorInv'
    <2> SUFFICES ASSUME Clean({"emptied", "torn", "early"}) PROVE Doorbells'
      BY <1>6 DEF DoorInv, Clean
    <2>1. \A q \in Pending : q \in hw.old
      BY <1>9 DEF Inv, DoorInv, Doorbells
    <2>2. ~Answered'
      BY <1>9 DEF Answered
    <2> QED
      BY <1>1, <1>7, <1>8, <2>1, <2>2 DEF Doorbells
  <1>19. HandlerInv'
    BY <1>1, <1>9 DEF Inv, HandlerInv, Cancelling, Removing
  <1>20. ClientInv'
    <2>1. ClientInv /\ Busy' = Busy /\ Fresh' = Fresh /\ Linked' = Linked /\ Clean({"crossed"})' = Clean({"crossed"})
          /\ Clean({"crossed", "emptied", "torn"})' = Clean({"crossed", "emptied", "torn"})
      BY <1>1, <1>6 DEF Inv, Busy, Fresh, Linked, Clean, Adding
    <2>2. c.tds \in Seq(Tds) /\ \A i \in DOMAIN c.tds : c.tds[i] \in Tds /\ c.tds[i] \in ToSet(c.tds)
      BY <1>2 DEF Types, ClientType, ToSet
    <2>3. Serving' /\ Found' /\ Walking'
      <3>1. \A r : Known(r) => Known(r)'
        BY <1>8 DEF Known
      <3> QED
        BY <1>1, <1>8, <2>1, <3>1 DEF ClientInv, Serving, Found, Walking
    <2>4. Distinct'
      BY <1>1, <1>11, <2>1, <2>2 DEF ClientInv, Distinct
    <2>5. Prepared'
      <3> SUFFICES ASSUME Fresh PROVE Prepared'
        BY <2>1 DEF Prepared
      <3>1. \A i \in DOMAIN c.tds : td'[c.tds[i]] = td[c.tds[i]]
        <4>1. \A q \in Heads : ToSet(c.tds) \cap ToSet(tdns[q]) = {}
          BY <2>1 DEF ClientInv, Prepared
        <4>2. \A i \in DOMAIN c.tds : c.tds[i] \notin ts
          BY <1>4, <1>7, <2>2, <4>1
        <4> QED
          BY <1>11, <2>2, <4>2
      <3> QED
        BY <1>1, <2>1, <3>1 DEF ClientInv, Prepared
    <2>6. Activating'
      <3> SUFFICES ASSUME c.pc = "activate" PROVE Activating'
        BY <1>1 DEF Activating
      <3>1. /\ c.q \in Heads /\ c.tds # <<>> /\ AtEnd
            /\ \/ td[Last(c.tds)].status = "off"
               \/ qh[c.q] = "freed" /\ td[Last(c.tds)].status = "freed"
        BY <2>1 DEF ClientInv, Serving, Busy, Known, Activating
      <3>2. Len(c.tds) \in DOMAIN c.tds /\ Last(c.tds) = c.tds[Len(c.tds)]
        BY <2>2, <3>1 DEF Last
      <3>3. TypeOK
        BY <1>2, TypesAre
      <3>4. Last(c.tds) \in ToSet(tdns[c.q]) /\ Last(c.tds) \in Tds
        BY <2>1, <2>2, <3>2, <3>3, AtEndIn
      <3>5. AtEnd'
        BY <1>1, <3>1 DEF AtEnd
      <3>6. CASE c.q \in out
        <4>1. Last(c.tds) \in ts /\ qh'[c.q] = "freed"
          BY <1>4, <1>8, <3>4, <3>6
        <4> QED
          BY <1>1, <1>11, <3>4, <3>5, <4>1 DEF Activating
      <3>7. CASE c.q \notin out
        <4>1. Last(c.tds) \notin ts /\ qh'[c.q] = qh[c.q]
          BY <1>8, <1>10, <3>1, <3>4, <3>7
        <4> QED
          BY <1>1, <1>11, <3>1, <3>4, <3>5, <4>1 DEF Activating
      <3> QED
        BY <3>6, <3>7
    <2> QED
      BY <2>3, <2>4, <2>5, <2>6 DEF ClientInv
  <1>21. ASSUME NEW r \in Heads, r \notin out, NEW t \in ToSet(tdns[r]) PROVE td'[t] = td[t]
    <2>1. t \in Tds
      BY <1>2 DEF Types, QueueTypes, ToSet
    <2>2. t \notin ts
      BY <1>10, <1>21
    <2> QED
      BY <1>11, <2>1, <2>2
  <1>22. Owned'
    <2>1. Owned
      BY DEF Inv
    <2>2. Used' = Used
      <3>1. \A t \in Tds : td'[t].status = "unused" <=> td[t].status = "unused"
        BY <1>10, <1>11
      <3> QED
        BY <3>1 DEF Used
    <2>3. ASSUME NEW r \in Heads PROVE OwnQueue(r)'
      <3>1. OwnQueue(r)
        BY <2>1 DEF Owned
      <3>2. CASE r \in out
        <4>1. qh'[r] = "freed"
          BY <1>8, <3>2
        <4> QED
          BY <1>1, <2>2, <3>1, <4>1 DEF OwnQueue
      <3>3. CASE r \notin out
        <4>1. qh'[r] = qh[r]
          BY <1>8, <3>3
        <4>2. \A i \in DOMAIN tdns[r] : td'[tdns[r][i]] = td[tdns[r][i]]
          BY <1>21, <3>3 DEF ToSet
        <4> QED
          BY <1>1, <2>2, <3>1, <4>1, <4>2 DEF OwnQueue, Chained
      <3> QED
        BY <3>2, <3>3
    <2> QED
      BY <1>1, <2>1, <2>2, <2>3 DEF Owned, Counted, Apart
  <1>23. Telling'
    <2>1. ASSUME NEW t \in Tds
          PROVE  /\ td'[t].status # "freed" => told'[t] = "nothing"
                 /\ td'[t].status = "freed" /\ td'[t].cb => told'[t] # "nothing"
                 /\ told'[t] # "twice"
      <3>1. /\ td[t].status # "freed" => told[t] = "nothing"
            /\ td[t].status = "freed" /\ td[t].cb => told[t] # "nothing"
            /\ told[t] # "twice" /\ td'[t].cb = td[t].cb
        BY <1>11 DEF Inv, Telling
      <3>2. CASE t \in ts
        BY <1>11, <1>12, <3>1, <3>2
      <3>3. CASE t \notin ts
        BY <1>11, <1>12, <3>1, <3>3
      <3> QED
        BY <3>2, <3>3
    <2> QED
      BY <2>1 DEF Telling
  <1>24. Working'
    <2> SUFFICES ASSUME NEW r \in Heads, qh'[r] # "freed" PROVE QueueWorks(r)'
      BY DEF Working
    <2>1. r \notin out /\ qh'[r] = qh[r]
      BY <1>8
    <2>2. QueueWorks(r) /\ tdns[r] \in Seq(Tds) /\ overlay[r] \in OverlayType
      BY <1>2, <2>1 DEF Inv, Working, Types, QueueTypes
    <2>3. overlay[r].cur \in Tds \cup {Null}
      BY <2>2 DEF OverlayType
    <2>4. \A t \in ToSet(tdns[r]) : td'[t].status = td[t].status
      BY <1>21, <2>1
    <2>5. \A t \in Tds : td[t].status = "freed" => td'[t].status = "freed"
      BY <1>11
    <2> QED
      BY <1>1, <2>1, <2>2, <2>3, <2>4, <2>5, QueueKeeps
  <1>25. ControllerSafe'
    <2> SUFFICES ASSUME Clean({"emptied", "torn", "early"}) PROVE ~HoldsFreed'
      BY <1>6 DEF ControllerSafe, Clean
    <2>1. Answered /\ Doorbells
      BY <1>1, <1>9 DEF Answered, Inv, DoorInv
    <2>2. hw.at \notin out /\ hw.ahead \notin out
      BY <1>7, <2>1 DEF Doorbells
    <2>3. ~OnFreed'
      <3>1. {hw.at, hw.ahead} \ {Null} \subseteq Heads
        BY <1>2 DEF Types, ControllerType
      <3>2. ~OnFreed
        BY <1>1 DEF Running, HoldsFreed, OnFreed
      <3> QED
        BY <1>1, <1>8, <2>2, <3>1, <3>2 DEF OnFreed
    <2> QED
      BY <1>14, <1>22, <1>24, <2>3, HoldsOnlyNext DEF TypeInv
  <1>26. MemorySafe'
    BY <1>1, <1>6, MemoryFrame
  <1> QED
    BY <1>14, <1>15, <1>16, <1>17, <1>18, <1>19, <1>20, <1>22, <1>23, <1>24, <1>25, <1>26 DEF Inv

LEMMA CancelKeeps ==
    ASSUME Inv, NEW q \in Heads, Cancel(q)
    PROVE  Inv'
  <1>1. /\ Running /\ h.pc = "port" /\ q \in InRing /\ q \in gone
        /\ slips \subseteq slips'
        /\ c.pc \notin {"idle", "walk"} /\ c.q = q => "crossed" \in slips'
        /\ UNCHANGED <<tail, next, qhlptr, qh, was_cancelled, db_pending, tdns, td, overlay, told,
                       usbsts, usbintr, doorbell, hw, c, gone, bound, fault>>
    BY DEF Cancel, At, HandlerKeeps, ring, removal, queue, Slip, ToCancel, InRing
  <1>2. PICK t : t = IF tdns[q] = <<>> THEN Null ELSE Head(tdns[q])
    OBVIOUS
  <1>3. Types /\ h \in HandlerType /\ tdns[q] \in Seq(Tds)
    BY TypesAre DEF Inv, TypeInv, Types, QueueTypes
  <1>4. t = Null \/ (t \in Tds /\ t \in ToSet(tdns[q]))
    <2>1. CASE tdns[q] # <<>>
      <3>1. 1 \in DOMAIN tdns[q] /\ t = tdns[q][1]
        BY <1>2, <1>3, <2>1
      <3> QED
        BY <1>3, <3>1 DEF ToSet
    <2> QED
      BY <1>2, <2>1
  <1>5. /\ h' \in HandlerType /\ h'.sts = h.sts /\ h'.pc = "halt" /\ h'.q = q /\ h'.td = t
    <2>1. h' = [h EXCEPT !.pc = "halt", !.q = q, !.td = t]
      BY <1>2 DEF Cancel
    <2> QED
      BY <1>3, <1>4, <2>1 DEF HandlerType, HandlerStages
  <1>6. Answered' => Answered
    BY <1>1, <1>5 DEF Answered
  <1>7. HandlerInv'
    <2>1. InRing' = InRing /\ Cancelling' /\ ~Removing'
      BY <1>1, <1>5 DEF InRing, Cancelling, Removing
    <2>2. Clean({"crossed"})' => "crossed" \notin slips'
      BY DEF Clean
    <2> QED
      BY <1>1, <1>4, <1>5, <2>1, <2>2 DEF Inv, HandlerInv
  <1>8. ~Removing /\ ~Removing'
    BY <1>1, <1>5 DEF Removing
  <1> QED
    BY <1>1, <1>5, <1>6, <1>7, <1>8, HandlerMoves

\* An active TD is halted: the handler goes on along the queue.
LEMMA HaltKeeps ==
    ASSUME Inv, Halt
    PROVE  Inv'
  <1>1. /\ Running /\ h.pc = "halt" /\ h.td # Null
        /\ UNCHANGED <<tail, next, qhlptr, qh, was_cancelled, db_pending, tdns, overlay, told,
                       usbsts, usbintr, doorbell, hw, c, gone, bound, slips>>
    BY DEF Halt, At, HandlerKeeps, ring, removal, Fault, NoSlip, history
  <1>2. Types
    BY TypesAre DEF Inv, TypeInv
  <1>3. PICK q, t : q = h.q /\ t = h.td
    OBVIOUS
  <1>4. h \in HandlerType /\ t \in Tds /\ q \in InRing /\ q \in Heads /\ qh[q] = "ring" /\ q \in gone
        /\ tdns[q] \in Seq(Tds)
    BY <1>1, <1>2, <1>3 DEF Types, QueueTypes, HandlerType, Inv, HandlerInv, Cancelling, InRing
  <1>5. ASSUME t \in ToSet(tdns[q])
        PROVE  td[t].status # "freed" /\ (td[t].next # Null => td[t].next \in ToSet(tdns[q]))
    <2>1. PICK i \in DOMAIN tdns[q] : t = tdns[q][i]
      BY <1>5 DEF ToSet
    <2>2. /\ td[t].status # "freed"
          /\ td[t].next = IF i < Len(tdns[q]) THEN tdns[q][i + 1] ELSE Null
      BY <1>4, <2>1 DEF Inv, Owned, OwnQueue, Chained
    <2>3. i < Len(tdns[q]) => i + 1 \in DOMAIN tdns[q]
      BY <1>4, <2>1
    <2> QED
      BY <2>2, <2>3 DEF ToSet
  <1>6. CASE td[t].status = "freed"
    <2>1. ~Clean({"crossed"})
      BY <1>1, <1>3, <1>5, <1>6 DEF Inv, HandlerInv
    <2>2. ~Clean({"crossed", "emptied", "torn"})
      BY <2>1 DEF Clean
    <2>3. UNCHANGED <<ring, qh, removal, queue, regs, hw, c, h, gone, bound, slips>>
      BY <1>1, <1>3, <1>6 DEF Halt, ring, removal, queue, regs
    <2> QED
      BY <1>1, <2>2, <2>3, FaultKeeps
  <1> SUFFICES ASSUME td[t].status # "freed" PROVE Inv'
    BY <1>6
  <1>7. /\ td' = [td EXCEPT ![t].status = IF @ = "active" THEN "halted" ELSE @]
        /\ h' = [h EXCEPT !.td = td[t].next] /\ fault' = fault
    BY <1>1, <1>3 DEF Halt, NoSlip, history
  <1>8. /\ td' \in [Tds -> TdType]
        /\ \A u \in Tds : /\ td'[u].next = td[u].next /\ td'[u].cb = td[u].cb
                          /\ td'[u].ioc = td[u].ioc
                          /\ td[u].status # "active" => td'[u].status = td[u].status
                          /\ td[u].status = "active" => td'[u].status \in {"active", "halted"}
    <2>1. td \in [Tds -> TdType] /\ td[t] \in TdType
      BY <1>2, <1>4 DEF Types, QueueTypes
    <2>2. PICK s0 : s0 = IF td[t].status = "active" THEN "halted" ELSE td[t].status
      OBVIOUS
    <2>3. td' = [td EXCEPT ![t].status = s0]
      BY <1>7, <2>2
    <2>4. td'[t] = [td[t] EXCEPT !.status = s0] /\ \A u \in Tds : u # t => td'[u] = td[u]
      BY <1>4, <2>1, <2>3
    <2>5. s0 \in {"unused", "off", "active", "halted", "done", "error", "freed"}
      BY <2>1, <2>2 DEF TdType
    <2>6. /\ td'[t] \in TdType /\ td'[t].next = td[t].next /\ td'[t].cb = td[t].cb
          /\ td'[t].ioc = td[t].ioc /\ td'[t].status = s0
      BY <2>1, <2>4, <2>5 DEF TdType
    <2>7. td' \in [Tds -> TdType]
      BY <2>1, <2>3, <2>6
    <2> QED
      BY <2>2, <2>4, <2>6, <2>7
  <1>9. /\ h' \in HandlerType /\ h'.pc = "halt" /\ h'.q = q /\ h'.sts = h.sts /\ h'.prev = h.prev
        /\ h'.td = td[t].next
    <2>1. td[t].next \in Tds \cup {Null}
      BY <1>2, <1>4 DEF Types, QueueTypes, TdType
    <2> QED
      BY <1>1, <1>3, <1>4, <1>7, <2>1 DEF HandlerType
  <1>10. TypeInv'
    BY <1>1, <1>2, <1>8, <1>9, TypesAre DEF Inv, TypeInv, Types, RingTypes, QueueTypes, RegTypes
  <1>11. SameAdding /\ SameRemoving /\ Answered' = Answered
    BY <1>1, <1>9, SameStages DEF Removing, Answered
  <1>12. Links' /\ Removed' /\ RingInv' /\ DoorInv' /\ MemorySafe'
    BY <1>1, <1>7, <1>11, LinksFrame, RemovedFrame, RingFrame, DoorFrame, MemoryFrame DEF Inv
  <1>13. HandlerInv'
    <2>1. InRing' = InRing /\ Cancelling' = Cancelling /\ ~Removing'
      BY <1>1, <1>9 DEF InRing, Cancelling, Removing
    <2>2. Clean({"crossed"})' = Clean({"crossed"})
      BY <1>1 DEF Clean
    <2> QED
      BY <1>1, <1>3, <1>5, <1>9, <2>1, <2>2 DEF Inv, HandlerInv
  <1>14. Owned' /\ Telling'
    <2>1. Owned /\ Telling /\ tdns \in [Heads -> Seq(Tds)] /\ UNCHANGED <<qh, tdns, told>>
      BY <1>1, <1>2 DEF Inv, Types, QueueTypes
    <2>2. \A u \in Tds : /\ (td'[u].status = "unused") <=> (td[u].status = "unused")
                         /\ (td'[u].status = "freed") <=> (td[u].status = "freed")
      BY <1>8
    <2> QED
      BY <1>8, <2>1, <2>2, StatusKeeps
  <1>15. ClientInv'
    <2>1. /\ ClientInv /\ InRing' = InRing /\ Busy' = Busy /\ Fresh' = Fresh /\ Linked' = Linked
          /\ Clean({"crossed"})' = Clean({"crossed"})
          /\ Clean({"crossed", "emptied", "torn"})' = Clean({"crossed", "emptied", "torn"})
          /\ \A r : Known(r)' = Known(r)
      BY <1>1 DEF Inv, InRing, Busy, Fresh, Linked, Adding, Clean, Known
    <2>2. c.tds \in Seq(Tds) /\ \A i \in DOMAIN c.tds : c.tds[i] \in Tds
      BY <1>2 DEF Types, ClientType
    <2>3. Serving' /\ Found' /\ Walking'
      BY <1>1, <2>1 DEF ClientInv, Serving, Found, Walking
    <2>4. Prepared' /\ Distinct'
      BY <1>1, <1>8, <2>1, <2>2 DEF ClientInv, Prepared, Distinct
    <2>5. Activating'
      <3> SUFFICES ASSUME c.pc = "activate" PROVE Activating'
        BY <1>1 DEF Activating
      <3>1. /\ c.tds # <<>> /\ AtEnd
            /\ \/ td[Last(c.tds)].status = "off"
               \/ qh[c.q] = "freed" /\ td[Last(c.tds)].status = "freed"
        BY <2>1 DEF ClientInv, Serving, Busy, Activating
      <3>2. Last(c.tds) \in Tds
        <4>1. Len(c.tds) \in DOMAIN c.tds /\ Last(c.tds) = c.tds[Len(c.tds)]
          BY <2>2, <3>1 DEF Last
        <4> QED
          BY <2>2, <4>1
      <3> QED
        BY <1>1, <1>8, <3>1, <3>2 DEF Activating, AtEnd
    <2> QED
      BY <2>3, <2>4, <2>5 DEF ClientInv
  <1>16. Working'
    <2> SUFFICES ASSUME NEW r \in Heads, qh[r] # "freed" PROVE QueueWorks(r)'
      BY <1>1 DEF Working
    <2>1. QueueWorks(r) /\ tdns[r] \in Seq(Tds) /\ overlay[r] \in OverlayType
      BY <1>2 DEF Inv, Working, Types, QueueTypes
    <2>2. overlay[r].cur \in Tds \cup {Null}
      BY <2>1 DEF OverlayType
    <2>3. \A u \in Tds : /\ td[u].status = "freed" => td'[u].status = "freed"
                         /\ td[u].status \in {"active", "halted"} => td'[u].status \in {"active", "halted"}
                         /\ td[u].status \in {"off", "active", "halted"} =>
                               td'[u].status \in {"off", "active", "halted"}
                         /\ td[u].status \in {"done", "error"} => td'[u].status = td[u].status
      BY <1>8
    <2>4. PICK p \in 0..Len(tdns[r]) : Works(r, p)
      BY <2>1 DEF QueueWorks
    <2>5. 1..p \subseteq DOMAIN tdns[r] /\ \A i \in DOMAIN tdns[r] : tdns[r][i] \in Tds
      BY <2>1, <2>4
    <2>6. \A n : ToDo(r, n) => ToDo(r, n)'
      BY <1>1, <2>3, <2>5 DEF ToDo
    <2>7. \A n : LeadsTo(r, n) => LeadsTo(r, n)'
      BY <1>1 DEF LeadsTo
    <2>8. \A i \in 1..p : td'[tdns[r][i]].status = "done"
      BY <2>3, <2>4, <2>5 DEF Works
    <2>9. overlay[r].status # "done" => p + 1 \in DOMAIN tdns[r]
      BY <2>1, <2>4 DEF Works
    <2>10. overlay[r].status = "error" => td'[tdns[r][p + 1]].status = "error"
      BY <2>3, <2>4, <2>5, <2>9 DEF Works
    <2>11. Works(r, p)'
      BY <1>1, <2>4, <2>6, <2>7, <2>8, <2>10 DEF Works
    <2>12. overlay[r].status # "done" => overlay[r].cur \in Tds
      BY <2>4, <2>5, <2>9 DEF Works
    <2> QED
      BY <1>1, <2>1, <2>2, <2>3, <2>4, <2>11, <2>12 DEF QueueWorks
  <1>17. ControllerSafe'
    BY <1>1, <1>10, <1>14, <1>16, ControllerStays
  <1> QED
    BY <1>10, <1>12, <1>13, <1>14, <1>15, <1>16, <1>17 DEF Inv

\* The predecessor is the one that the ring has.
LEMMA SearchKeeps ==
    ASSUME Inv, Search
    PROVE  Inv'
  <1>1. /\ Running /\ h.pc = "halt" /\ slips \subseteq slips'
        /\ UNCHANGED <<tail, next, qhlptr, qh, was_cancelled, db_pending, tdns, td, overlay, told,
                       usbsts, usbintr, doorbell, hw, c, gone, bound>>
    BY DEF Search, At, HandlerKeeps, ring, removal, queue, Fault, Slip
  <1>2. Types /\ h \in HandlerType
    BY TypesAre DEF Inv, TypeInv, Types
  <1>3. h.q \in InRing /\ h.q \in Heads /\ qh[h.q] = "ring" /\ h.q \in gone
    BY <1>1 DEF Inv, HandlerInv, Cancelling, InRing
  <1>4. CASE Lost(tail) \/ next[tail] = Null
    <2>1. ASSUME Ringed PROVE FALSE
      <3>1. tail \in Settled /\ tail \in Passable
        BY <1>3, <2>1 DEF Ringed, TailIn, Passable
      <3>2. tail \in InRing /\ next[tail] \in InRing
        BY <2>1, <3>1, WalkStays
      <3> QED
        BY <1>4, <3>2, HeadsAre DEF InRing, Lost
    <2>2. ~Clean({"crossed", "emptied", "torn"})
      BY <2>1 DEF Clean, Inv, RingInv
    <2>3. UNCHANGED <<ring, qh, removal, queue, regs, hw, c, h, gone, bound, slips>>
      BY <1>1, <1>4 DEF Search, Fault, ring, removal, queue, regs
    <2> QED
      BY <1>1, <2>2, <2>3, FaultKeeps
  <1>5. CASE ~(Lost(tail) \/ next[tail] = Null)
    <2>1. PICK prev \in Heads :
            /\ qh[prev] = "ring" /\ next[prev] = h.q
            /\ h' = [h EXCEPT !.pc = "cut", !.prev = prev]
            /\ Adding /\ {tail, c.q} \cap {prev, h.q} # {} => "torn" \in slips'
            /\ fault' = fault
      BY <1>5 DEF Search, Slip
    <2>2. h' \in HandlerType /\ h'.pc = "cut" /\ h'.q = h.q /\ h'.prev = prev /\ h'.sts = h.sts
      BY <1>2, <2>1 DEF HandlerType, HandlerStages
    <2>3. InRing' = InRing /\ Settled' = Settled /\ SameAdding /\ Answered' = Answered /\ prev \in InRing
      BY <1>1, <2>1, <2>2, SameStages, SettledFrame DEF Answered, InRing
    <2>4. HandlerInv'
      <3>1. Cancelling /\ Cancelling' /\ (Clean({"crossed"})' => Clean({"crossed"}))
        BY <1>1, <2>2 DEF Cancelling, Clean
      <3> QED
        BY <1>1, <1>3, <2>2, <2>3, <3>1 DEF Inv, HandlerInv
    <2>5. RingInv'
      <3> SUFFICES ASSUME Clean({"emptied", "torn"})' PROVE Ringed'
        BY DEF RingInv
      <3>1. Ringed /\ "torn" \notin slips'
        BY <1>1 DEF Clean, Inv, RingInv
      <3>2. PICK L \in [Settled -> Settled] : RingOf(L)
        BY <3>1 DEF Ringed
      <3>3. Adding => tail \notin {prev, h.q} /\ c.q \notin {prev, h.q}
        BY <2>1, <3>1
      <3>4. prev \in Settled /\ h.q \in Settled
        BY <1>3, <2>3, <3>3 DEF Settled
      <3>5. L[prev] = h.q
        <4>1. next[prev] = Soft(L, prev)
          BY <3>2, <3>4 DEF RingOf
        <4>2. c.pc = "tail" => Adding
          BY DEF Adding, AddStages
        <4> QED
          BY <1>1, <2>1, <3>3, <4>1, <4>2 DEF Soft
      <3>6. Leaves(L)'
        BY <1>1, <2>2, <2>3, <3>3, <3>4, <3>5 DEF Leaves, SameAdding
      <3>7. Cyclic(L)' /\ Joins(L)'
        BY <1>1, <2>3, <3>2 DEF RingOf, Cyclic, Joins, SameAdding
      <3>8. \A x : Soft(L, x)' = Soft(L, x) /\ Hard(L, x)' = Hard(L, x)
        BY <1>1, <2>2 DEF Soft, Hard
      <3>9. RingOf(L)'
        BY <1>1, <2>3, <3>2, <3>6, <3>7, <3>8 DEF RingOf
      <3>10. TailIn' /\ LeadsBack'
        BY <1>1, <2>3, <3>1 DEF Ringed, TailIn, LeadsBack, Pending
      <3> QED
        BY <2>3, <3>2, <3>9, <3>10 DEF Ringed
    <2> QED
      BY <1>1, <2>1, <2>2, <2>3, <2>4, <2>5, HandlerMoves
  <1> QED
    BY <1>4, <1>5

\* The handler gets on with the removal of a queue head, in the ring alone.
LEMMA RemoveMoves ==
    ASSUME Inv, Running, UNCHANGED <<qh, was_cancelled, db_pending, tdns, td, overlay, told, usbsts,
               usbintr, doorbell, hw, c, gone, bound, slips, fault>>,
           NEW s \in {"unlink", "retail", "pend"}, Removing, h' = [h EXCEPT !.pc = s],
           RingTypes', Links', RingInv'
    PROVE  Inv'
  <1>1. Types /\ h \in HandlerType
    BY TypesAre DEF Inv, TypeInv, Types
  <1>2. /\ h' \in HandlerType /\ h'.pc = s /\ h'.q = h.q /\ h'.prev = h.prev /\ h'.sts = h.sts
    BY <1>1 DEF HandlerType, HandlerStages
  <1>3. TypeInv'
    BY <1>1, <1>2, TypesAre DEF Inv, TypeInv, Types, QueueTypes, RegTypes
  <1>4. Answered' = Answered
    BY <1>2 DEF Answered, Removing
  <1>5. Removed' /\ DoorInv' /\ ClientInv' /\ MemorySafe'
    BY <1>4, RemovedFrame, DoorFrame, ClientFrame, MemoryFrame DEF Inv
  <1>6. Owned' /\ Telling' /\ Working' /\ ControllerSafe'
    BY OwnedFrame, TellingFrame, WorkingFrame, ControllerFrame DEF Inv
  <1>7. HandlerInv'
    <2>1. Cancelling /\ InRing' = InRing /\ Clean({"crossed"})' = Clean({"crossed"})
      BY DEF Cancelling, Removing, InRing, Clean
    <2> QED
      BY <1>2, <2>1 DEF Inv, HandlerInv
  <1> QED
    BY <1>3, <1>5, <1>6, <1>7 DEF Inv

LEMMA CutKeeps ==
    ASSUME Inv, Cut
    PROVE  Inv'
  <1>1. /\ Running /\ h.pc = "cut" /\ qhlptr' = [qhlptr EXCEPT ![h.prev] = qhlptr[h.q]]
        /\ UNCHANGED <<tail, next, qh, was_cancelled, db_pending, tdns, td, overlay, told,
                       usbsts, usbintr, doorbell, hw, c, gone, bound, slips, fault>>
    BY DEF Cut, At, HandlerKeeps, removal, queue, history
  <1>2. PICK q, prev, s : q = h.q /\ prev = h.prev /\ s = "unlink"
    OBVIOUS
  <1>3. Types /\ h' = [h EXCEPT !.pc = s] /\ s \in {"unlink", "retail", "pend"} /\ Removing
    BY <1>1, <1>2, TypesAre DEF Inv, TypeInv, Cut, Removing
  <1>4. q \in InRing /\ q \in Heads /\ qh[q] = "ring" /\ prev \in InRing /\ prev \in Heads
    BY <1>1, <1>2, <1>3 DEF Inv, HandlerInv, Cancelling, InRing
  <1>5. h'.pc = "unlink" /\ h'.q = q /\ h'.prev = prev
    BY <1>2, <1>3 DEF Types, HandlerType
  <1>6. /\ qhlptr' \in [Heads -> Heads \cup {Null}] /\ qhlptr'[prev] = qhlptr[q]
        /\ \A r \in Heads : r # prev => qhlptr'[r] = qhlptr[r]
    BY <1>1, <1>2, <1>3, <1>4 DEF Types, RingTypes
  <1>7. RingTypes'
    BY <1>1, <1>3, <1>6 DEF Types, RingTypes
  <1>8. Links'
    <2>1. Known(qhlptr[q])
      BY <1>4 DEF Inv, Links
    <2> QED
      BY <1>1, <1>6, <2>1 DEF Inv, Links, Known
  <1>9. RingInv'
    <2> SUFFICES ASSUME Ringed PROVE Ringed'
      BY <1>1 DEF RingInv, Clean, Inv
    <2>1. InRing' = InRing /\ Settled' = Settled /\ SameAdding /\ Pending' = Pending
      BY <1>1, SameStages, SettledFrame DEF Pending
    <2>2. PICK L \in [Settled -> Settled] : RingOf(L)
      BY DEF Ringed
    <2>3. /\ q \in Settled /\ prev \in Settled /\ L[prev] = q
          /\ Adding => tail \notin {prev, q} /\ c.q \in InRing /\ tail \in Settled /\ c.q \notin Settled
      BY <1>2, <1>3, <2>2 DEF RingOf, Leaves, Joins, Settled
    <2>4. c.pc \in {"sw", "splice", "tail"} => Adding
      BY DEF Adding, AddStages
    <2>5. qhlptr[q] = L[q]
      BY <1>1, <2>2, <2>3, <2>4 DEF RingOf, Hard
    <2>6. ASSUME NEW x \in Settled PROVE next'[x] = Soft(L, x)' /\ qhlptr'[x] = Hard(L, x)'
      <3>1. next[x] = Soft(L, x) /\ qhlptr[x] = Hard(L, x) /\ x \in Heads
        BY <2>2 DEF RingOf, Settled, InRing
      <3>2. Soft(L, x)' = Soft(L, x)
        BY <1>1, <1>5 DEF Soft
      <3>3. CASE x = prev
        BY <1>1, <1>5, <1>6, <2>3, <2>4, <2>5, <3>1, <3>2, <3>3 DEF Hard
      <3>4. CASE x # prev
        <4>1. Hard(L, x)' = Hard(L, x)
          BY <1>1, <1>2, <1>5, <3>4 DEF Hard
        <4> QED
          BY <1>1, <1>6, <3>1, <3>2, <3>4, <4>1
      <3> QED
        BY <3>3, <3>4
    <2>7. Cyclic(L)' /\ Joins(L)' /\ Leaves(L)'
      <3>1. Adding => qhlptr'[c.q] = qhlptr[c.q]
        BY <1>6, <2>3 DEF InRing
      <3>2. Removing'
        BY <1>5 DEF Removing
      <3>3. Cyclic(L)'
        BY <2>1, <2>2 DEF RingOf, Cyclic
      <3>4. Joins(L)'
        BY <1>1, <2>1, <2>2, <3>1 DEF RingOf, Joins, SameAdding
      <3>5. Leaves(L)'
        BY <1>1, <1>5, <2>1, <2>3 DEF Leaves, SameAdding
      <3> QED
        BY <3>3, <3>4, <3>5
    <2>8. RingOf(L)'
      BY <2>1, <2>6, <2>7 DEF RingOf
    <2>9. TailIn' /\ LeadsBack'
      <3>1. \A r \in Pending : r \in Heads /\ r # prev
        BY <1>4 DEF Pending, InRing
      <3> QED
        BY <1>1, <1>6, <2>1, <3>1 DEF Ringed, TailIn, LeadsBack
    <2> QED
      BY <2>1, <2>2, <2>8, <2>9 DEF Ringed
  <1> QED
    BY <1>1, <1>3, <1>7, <1>8, <1>9, RemoveMoves

LEMMA UnlinkKeeps ==
    ASSUME Inv, Unlink
    PROVE  Inv'
  <1>1. /\ Running /\ h.pc = "unlink" /\ next' = [next EXCEPT ![h.prev] = next[h.q]]
        /\ UNCHANGED <<tail, qhlptr, qh, was_cancelled, db_pending, tdns, td, overlay, told,
                       usbsts, usbintr, doorbell, hw, c, gone, bound, slips, fault>>
    BY DEF Unlink, At, HandlerKeeps, removal, queue, history
  <1>2. PICK q, prev, s : q = h.q /\ prev = h.prev /\ s = "retail"
    OBVIOUS
  <1>3. Types /\ h' = [h EXCEPT !.pc = s] /\ s \in {"unlink", "retail", "pend"} /\ Removing
    BY <1>1, <1>2, TypesAre DEF Inv, TypeInv, Unlink, Removing
  <1>4. q \in InRing /\ q \in Heads /\ qh[q] = "ring" /\ prev \in InRing /\ prev \in Heads
    BY <1>1, <1>2, <1>3 DEF Inv, HandlerInv, Cancelling, InRing
  <1>5. h'.pc = "retail" /\ h'.q = q /\ h'.prev = prev
    BY <1>2, <1>3 DEF Types, HandlerType
  <1>6. /\ next' \in [Heads -> Heads \cup {Null}] /\ next'[prev] = next[q]
        /\ \A r \in Heads : r # prev => next'[r] = next[r]
    BY <1>1, <1>2, <1>3, <1>4 DEF Types, RingTypes
  <1>7. RingTypes'
    BY <1>1, <1>3, <1>6 DEF Types, RingTypes
  <1>8. Links'
    <2>1. next[q] # Null => Known(next[q])
      BY <1>4 DEF Inv, Links
    <2> QED
      BY <1>1, <1>6, <2>1 DEF Inv, Links, Known
  <1>9. RingInv'
    <2> SUFFICES ASSUME Ringed PROVE Ringed'
      BY <1>1 DEF RingInv, Clean, Inv
    <2>1. InRing' = InRing /\ Settled' = Settled /\ SameAdding /\ Pending' = Pending
      BY <1>1, SameStages, SettledFrame DEF Pending
    <2>2. PICK L \in [Settled -> Settled] : RingOf(L)
      BY DEF Ringed
    <2>3. /\ q \in Settled /\ prev \in Settled /\ L[prev] = q
          /\ Adding => tail \notin {prev, q} /\ c.q \in InRing /\ tail \in Settled /\ c.q \notin Settled
      BY <1>2, <1>3, <2>2 DEF RingOf, Leaves, Joins, Settled
    <2>4. c.pc = "tail" => Adding
      BY DEF Adding, AddStages
    <2>5. next[q] = L[q]
      BY <1>1, <2>2, <2>3, <2>4 DEF RingOf, Soft
    <2>6. ASSUME NEW x \in Settled PROVE next'[x] = Soft(L, x)' /\ qhlptr'[x] = Hard(L, x)'
      <3>1. next[x] = Soft(L, x) /\ qhlptr[x] = Hard(L, x) /\ x \in Heads
        BY <2>2 DEF RingOf, Settled, InRing
      <3>2. Hard(L, x)' = Hard(L, x)
        BY <1>1, <1>2, <1>5 DEF Hard
      <3>3. CASE x = prev
        BY <1>1, <1>5, <1>6, <2>3, <2>4, <2>5, <3>1, <3>2, <3>3 DEF Soft
      <3>4. CASE x # prev
        <4>1. Soft(L, x)' = Soft(L, x)
          BY <1>1, <1>2, <1>5, <3>4 DEF Soft
        <4> QED
          BY <1>1, <1>6, <3>1, <3>2, <3>4, <4>1
      <3> QED
        BY <3>3, <3>4
    <2>7. Cyclic(L)' /\ Joins(L)' /\ Leaves(L)'
      <3>1. Adding => next'[c.q] = next[c.q]
        BY <1>6, <2>3 DEF InRing
      <3>2. Removing'
        BY <1>5 DEF Removing
      <3>3. Cyclic(L)'
        BY <2>1, <2>2 DEF RingOf, Cyclic
      <3>4. Joins(L)'
        BY <1>1, <2>1, <2>2, <3>1 DEF RingOf, Joins, SameAdding
      <3>5. Leaves(L)'
        BY <1>1, <1>5, <2>1, <2>3 DEF Leaves, SameAdding
      <3> QED
        BY <3>3, <3>4, <3>5
    <2>8. RingOf(L)'
      BY <2>1, <2>6, <2>7 DEF RingOf
    <2>9. TailIn' /\ LeadsBack'
      BY <1>1, <2>1 DEF Ringed, TailIn, LeadsBack
    <2> QED
      BY <2>1, <2>2, <2>8, <2>9 DEF Ringed
  <1> QED
    BY <1>1, <1>3, <1>7, <1>8, <1>9, RemoveMoves

LEMMA RetailKeeps ==
    ASSUME Inv, Retail
    PROVE  Inv'
  <1>1. /\ Running /\ h.pc = "retail" /\ tail' = (IF tail = h.q THEN next[h.q] ELSE tail)
        /\ UNCHANGED <<next, qhlptr, qh, was_cancelled, db_pending, tdns, td, overlay, told,
                       usbsts, usbintr, doorbell, hw, c, gone, bound, slips, fault>>
    BY DEF Retail, At, HandlerKeeps, removal, queue, history
  <1>2. PICK q, prev, s : q = h.q /\ prev = h.prev /\ s = "pend"
    OBVIOUS
  <1>3. Types /\ h' = [h EXCEPT !.pc = s] /\ s \in {"unlink", "retail", "pend"} /\ Removing
    BY <1>1, <1>2, TypesAre DEF Inv, TypeInv, Retail, Removing
  <1>4. q \in InRing /\ q \in Heads /\ qh[q] = "ring"
    BY <1>1, <1>2, <1>3 DEF Inv, HandlerInv, Cancelling, InRing
  <1>5. h'.pc = "pend" /\ h'.q = q /\ h'.prev = prev
    BY <1>2, <1>3 DEF Types, HandlerType
  <1>6. RingTypes'
    BY <1>1, <1>2, <1>3, <1>4 DEF Types, RingTypes
  <1>7. Links'
    <2>1. next[q] # Null => Known(next[q])
      BY <1>4 DEF Inv, Links
    <2>2. hw.at # Null
      BY <1>4 DEF Inv, Links
    <2> QED
      BY <1>1, <1>2, <2>1, <2>2 DEF Inv, Links, Known
  <1>8. RingInv'
    <2> SUFFICES ASSUME Ringed PROVE Ringed'
      BY <1>1 DEF RingInv, Clean, Inv
    <2>1. InRing' = InRing /\ Settled' = Settled /\ SameAdding /\ Pending' = Pending
      BY <1>1, SameStages, SettledFrame DEF Pending
    <2>2. PICK L \in [Settled -> Settled] : RingOf(L)
      BY DEF Ringed
    <2>3. /\ q \in Settled /\ prev \in Settled /\ L[prev] = q
          /\ Adding => tail \notin {prev, q}
      BY <1>2, <1>3, <2>2 DEF RingOf, Leaves
    <2>4. tail = q => ~Adding /\ tail' = L[q]
      <3>1. tail = q => ~Adding /\ c.pc # "tail"
        BY <2>3 DEF Adding, AddStages
      <3>2. next[q] = Soft(L, q)
        BY <2>2, <2>3 DEF RingOf
      <3> QED
        BY <1>1, <1>2, <3>1, <3>2 DEF Soft
    <2>5. tail # q => tail' = tail
      BY <1>1, <1>2
    <2>6. tail \in Settled
      BY <1>4 DEF Ringed, TailIn
    <2>7. tail' \in Settled /\ (tail' # q \/ L[q] = q)
      BY <2>2, <2>3, <2>4, <2>5, <2>6
    <2>8. \A x : Soft(L, x)' = Soft(L, x) /\ Hard(L, x)' = Hard(L, x)
      <3>1. c.pc \in {"sw", "splice", "tail"} => Adding
        BY DEF Adding, AddStages
      <3>2. Adding => tail' = tail
        BY <2>4, <2>5
      <3> QED
        BY <1>1, <1>2, <1>5, <3>1, <3>2 DEF Soft, Hard
    <2>9. Cyclic(L)' /\ Joins(L)' /\ Leaves(L)'
      <3>1. Cyclic(L)'
        BY <2>1, <2>2 DEF RingOf, Cyclic
      <3>2. Joins(L)'
        BY <1>1, <2>1, <2>2, <2>4, <2>5 DEF RingOf, Joins, SameAdding
      <3>3. Adding => tail' \notin {prev, q}
        BY <2>3, <2>4, <2>5
      <3>4. Leaves(L)'
        BY <1>1, <1>5, <2>1, <2>3, <2>7, <3>3 DEF Leaves, SameAdding
      <3> QED
        BY <3>1, <3>2, <3>4
    <2>10. RingOf(L)'
      BY <1>1, <2>1, <2>2, <2>8, <2>9 DEF RingOf
    <2>11. TailIn' /\ LeadsBack'
      BY <1>1, <2>1, <2>7 DEF Ringed, TailIn, LeadsBack
    <2> QED
      BY <2>1, <2>2, <2>10, <2>11 DEF Ringed
  <1> QED
    BY <1>1, <1>3, <1>6, <1>7, <1>8, RemoveMoves

\* The queue head leaves the ring and waits for the controller.
LEMMA PendKeeps ==
    ASSUME Inv, Pend
    PROVE  Inv'
  <1>1. PICK q, prev : q = h.q /\ prev = h.prev
    OBVIOUS
  <1>2. /\ Running /\ h.pc = "pend"
        /\ UNCHANGED <<tail, qhlptr, tdns, td, overlay, told, usbsts, usbintr, hw, c, gone, bound, fault>>
        /\ next' = [next EXCEPT ![q] = Null]
        /\ qh' = [qh EXCEPT ![q] = "pending"]
        /\ was_cancelled' = [was_cancelled EXCEPT ![q] = 1]
        /\ db_pending' = Append(db_pending, q) /\ doorbell' = TRUE
        /\ h' = [h EXCEPT !.pc = "port", !.q = Null, !.prev = Null]
        /\ slips' = slips \cup ((IF prev = q THEN {"emptied"} ELSE {})
              \cup (IF "adv" \in usbsts THEN {"early"} ELSE {})
              \cup (IF c.pc = "walk" /\ c.at = q THEN {"crossed"} ELSE {}))
    BY <1>1 DEF Pend, At, HandlerKeeps, queue, Slip
  <1>3. Types /\ Removing /\ Cancelling
    BY <1>2, TypesAre DEF Inv, TypeInv, Removing, Cancelling
  <1>4. /\ slips \subseteq slips'
        /\ prev = q => "emptied" \in slips'
        /\ "adv" \in usbsts => "early" \in slips'
        /\ c.pc = "walk" /\ c.at = q => "crossed" \in slips'
    BY <1>2
  <1>5. q \in InRing /\ q \in Heads /\ qh[q] = "ring" /\ h \in HandlerType
    BY <1>1, <1>3 DEF Inv, HandlerInv, InRing, Types
  <1>6. /\ qh' \in [Heads -> {"none", "ring", "pending", "freed"}] /\ qh'[q] = "pending"
        /\ \A r \in Heads : r # q => qh'[r] = qh[r]
        /\ was_cancelled' \in [Heads -> 0..2] /\ was_cancelled'[q] = 1
        /\ \A r \in Heads : r # q => was_cancelled'[r] = was_cancelled[r]
        /\ next' \in [Heads -> Heads \cup {Null}] /\ next'[q] = Null
        /\ \A r \in Heads : r # q => next'[r] = next[r]
    BY <1>2, <1>3, <1>5 DEF Types, RingTypes
  <1>7. InRing' = InRing \ {q} /\ Pending' = Pending \cup {q} /\ q \in InRing /\ q \notin Pending
        /\ InRing \subseteq Heads /\ Pending \subseteq Heads /\ InRing \cap Pending = {}
    BY <1>5, <1>6 DEF InRing, Pending
  <1>8. db_pending' \in Seq(Heads) /\ tail' \in Heads \cup {Null}
    BY <1>2, <1>3, <1>5 DEF Types, RingTypes
  <1>9. /\ h' \in HandlerType /\ h'.pc = "port" /\ h'.sts = h.sts
        /\ ~Removing' /\ ~Cancelling'
    <2>1. h' \in HandlerType /\ h'.pc = "port" /\ h'.sts = h.sts
      BY <1>2, <1>5 DEF HandlerType, HandlerStages
    <2> QED
      BY <2>1 DEF Removing, Cancelling
  <1>10. TypeInv'
    <2>1. RingTypes'
      BY <1>2, <1>3, <1>6, <1>8 DEF Types, RingTypes
    <2> QED
      BY <1>2, <1>3, <1>9, <2>1, TypesAre DEF Inv, TypeInv, Types, RegTypes, QueueTypes
  <1>11. Links'
    <2>1. Links /\ hw.at # Null
      BY <1>5 DEF Inv, Links
    <2>2. \A r \in Heads : (qh'[r] = "none") <=> (qh[r] = "none")
      BY <1>5, <1>6
    <2>3. \A r \in Heads : next'[r] # Null => next'[r] = next[r]
      BY <1>6
    <2> QED
      BY <1>2, <2>1, <2>2, <2>3 DEF Links, Known
  <1>12. Removed'
    <2>1. PICK s, w : s = db_pending /\ w = db_pending'
      OBVIOUS
    <2>2. s \in Seq(Heads) /\ w = Append(s, q) /\ Len(s) \in Nat
      BY <1>2, <1>3, <1>5, <2>1 DEF Types, RingTypes
    <2>3. /\ DOMAIN w = 1..(Len(s) + 1) /\ DOMAIN s = 1..Len(s) /\ w[Len(s) + 1] = q
          /\ \A i \in 1..Len(s) : w[i] = s[i]
      BY <2>2
    <2>4. Removed /\ ToSet(s) = Pending
      BY <2>1 DEF Inv, Removed
    <2>5. \A i \in DOMAIN s : s[i] \in Pending /\ s[i] # q
      BY <1>7, <2>4 DEF ToSet
    <2>6. \A i \in 1..(Len(s) + 1) : i \in 1..Len(s) \/ i = Len(s) + 1
      BY <2>2
    <2>7. ToSet(w) = Pending'
      <3>1. ASSUME NEW x \in ToSet(w) PROVE x \in Pending'
        <4>1. PICK i \in DOMAIN w : x = w[i]
          BY <3>1 DEF ToSet
        <4> QED
          BY <1>7, <2>3, <2>5, <2>6, <4>1
      <3>2. q \in ToSet(w)
        <4>1. Len(s) + 1 \in DOMAIN w
          BY <2>2, <2>3
        <4> QED
          BY <2>3, <4>1 DEF ToSet
      <3>3. ASSUME NEW x \in Pending PROVE x \in ToSet(w)
        <4>1. PICK i \in DOMAIN s : x = s[i]
          BY <2>4, <3>3 DEF ToSet
        <4>2. i \in DOMAIN w
          BY <2>2, <2>3, <4>1
        <4> QED
          BY <2>3, <4>1, <4>2 DEF ToSet
      <3> QED
        BY <1>7, <3>1, <3>2, <3>3
    <2>8. \A r \in Pending : was_cancelled'[r] = was_cancelled[r] /\ was_cancelled[r] \in {1, 2}
      BY <1>6, <1>7, <2>4 DEF Removed
    <2>9. ASSUME NEW i \in DOMAIN w, NEW j \in DOMAIN w, i < j
          PROVE  was_cancelled'[w[i]] >= was_cancelled'[w[j]]
      <3>1. i \in 1..Len(s) /\ w[i] = s[i] /\ s[i] \in Pending /\ i \in DOMAIN s
        BY <2>2, <2>3, <2>5, <2>9
      <3>2. CASE j \in 1..Len(s)
        <4>1. w[j] = s[j] /\ s[j] \in Pending /\ j \in DOMAIN s
          BY <2>3, <2>5, <3>2
        <4>2. was_cancelled[s[i]] >= was_cancelled[s[j]]
          BY <2>1, <2>4, <2>9, <3>1, <4>1 DEF Removed
        <4> QED
          BY <2>8, <3>1, <4>1, <4>2
      <3>3. CASE j = Len(s) + 1
        <4>1. was_cancelled'[w[j]] = 1 /\ was_cancelled'[w[i]] \in {1, 2}
          BY <1>6, <2>3, <2>8, <3>1, <3>3
        <4> QED
          BY <4>1
      <3> QED
        BY <2>3, <2>6, <3>2, <3>3
    <2>10. \A r \in Pending' : was_cancelled'[r] \in {1, 2}
      BY <1>6, <1>7, <2>8
    <2> QED
      BY <2>1, <2>7, <2>9, <2>10 DEF Removed
  <1>13. RingInv'
    <2> SUFFICES ASSUME Clean({"emptied", "torn"})' PROVE Ringed'
      BY DEF RingInv
    <2>1. Ringed /\ prev # q
      BY <1>4 DEF Clean, Inv, RingInv
    <2>2. PICK L \in [Settled -> Settled] : RingOf(L)
      BY <2>1 DEF Ringed
    <2>3. /\ q \in Settled /\ prev \in Settled /\ L[prev] = q
          /\ tail # q \/ L[q] = q
          /\ Adding => tail \notin {prev, q}
      BY <1>1, <1>2, <1>3, <2>2 DEF RingOf, Leaves
    <2>4. /\ \A r, u \in Settled : L[r] = L[u] => r = u
          /\ \A r \in Settled : L[r] \in Settled /\ \E p \in Settled : L[p] = r
      BY <2>2 DEF RingOf, Cyclic
    <2>5. L[q] # q /\ L[q] \in Settled /\ tail # q
      BY <2>1, <2>3, <2>4
    <2>6. /\ Adding' = Adding /\ Settled' = Settled \ {q} /\ Settled \subseteq InRing
          /\ Adding => c.q # q /\ c.q \notin Settled
      BY <1>2, <1>7, <2>3 DEF Adding, Settled
    <2>7. PICK M : M = [x \in Settled \ {q} |-> IF x = prev THEN L[q] ELSE L[x]]
      OBVIOUS
    <2>8. /\ M[prev] = L[q]
          /\ \A x \in Settled \ {q} : x # prev => M[x] = L[x] /\ L[x] # q /\ L[x] # L[q]
      BY <2>1, <2>3, <2>4, <2>7
    <2>9. M \in [Settled \ {q} -> Settled \ {q}]
      BY <2>4, <2>5, <2>7, <2>8
    <2>10. \A r, u \in Settled \ {q} : M[r] = M[u] => r = u
      BY <2>4, <2>8
    <2>11. ASSUME NEW r \in Settled \ {q} PROVE \E p \in Settled \ {q} : M[p] = r
      <3>1. PICK p \in Settled : L[p] = r
        BY <2>4
      <3>2. CASE p = q
        BY <2>1, <2>3, <2>8, <3>1, <3>2
      <3>3. CASE p # q
        BY <2>3, <2>8, <3>1, <3>3
      <3> QED
        BY <3>2, <3>3
    <2>12. Cyclic(M)'
      BY <2>6, <2>9, <2>10, <2>11 DEF Cyclic
    <2>13. Joins(M)'
      <3> SUFFICES ASSUME Adding PROVE Joins(M)'
        BY <2>6 DEF Joins
      <3>1. /\ c.q \in InRing /\ tail \in Settled /\ qhlptr[c.q] = L[tail]
            /\ c.pc \in {"splice", "tail"} => next[c.q] = L[tail]
        BY <2>2 DEF RingOf, Joins
      <3>2. tail \in Settled \ {q} /\ M[tail] = L[tail] /\ c.q \in InRing \ {q} /\ next'[c.q] = next[c.q]
        BY <1>6, <1>7, <2>3, <2>6, <2>8, <3>1
      <3> QED
        BY <1>2, <1>7, <2>6, <3>1, <3>2 DEF Joins
    <2>14. ASSUME NEW x \in Settled \ {q}
           PROVE  next'[x] = (IF c.pc = "tail" /\ x = tail THEN c.q ELSE M[x])
                  /\ qhlptr[x] = (IF c.pc \in {"sw", "splice", "tail"} /\ x = tail THEN c.q ELSE M[x])
      <3>1. next'[x] = next[x] /\ x \in Settled /\ x # q
        BY <1>6, <1>7, <2>6
      <3>2. next[x] = Soft(L, x) /\ qhlptr[x] = Hard(L, x)
        BY <2>2, <3>1 DEF RingOf
      <3>3. h.pc \in {"retail", "pend"} /\ h.pc \in {"unlink", "retail", "pend"}
        BY <1>2
      <3>4. /\ Soft(L, x) = (IF c.pc = "tail" /\ x = tail THEN c.q ELSE IF x = prev THEN L[q] ELSE L[x])
            /\ Hard(L, x) = (IF c.pc \in {"sw", "splice", "tail"} /\ x = tail THEN c.q
                             ELSE IF x = prev THEN L[q] ELSE L[x])
        BY <1>1, <3>3 DEF Soft, Hard
      <3>5. M[x] = IF x = prev THEN L[q] ELSE L[x]
        BY <2>8, <3>1
      <3> QED
        BY <3>1, <3>2, <3>4, <3>5
    <2>15. RingOf(M)'
      <3>1. h'.pc \notin {"retail", "pend"} /\ h'.pc \notin {"unlink", "retail", "pend"}
        BY <1>9
      <3>2. \A x : /\ Soft(M, x)' = (IF c.pc = "tail" /\ x = tail THEN c.q ELSE M[x])
                   /\ Hard(M, x)' = (IF c.pc \in {"sw", "splice", "tail"} /\ x = tail THEN c.q ELSE M[x])
        BY <1>2, <3>1 DEF Soft, Hard
      <3>3. \A x \in Settled' : next'[x] = Soft(M, x)' /\ qhlptr'[x] = Hard(M, x)'
        BY <1>2, <2>6, <2>14, <3>2
      <3>4. Leaves(M)'
        BY <1>9 DEF Leaves
      <3> QED
        BY <2>12, <2>13, <3>3, <3>4 DEF RingOf
    <2>16. TailIn'
      <3>1. tail \in Settled
        BY <1>5, <2>1 DEF Ringed, TailIn
      <3> QED
        BY <1>2, <2>5, <2>6, <3>1 DEF TailIn
    <2>17. qhlptr[q] = L[q]
      <3>1. qhlptr[q] = Hard(L, q)
        BY <2>2, <2>3 DEF RingOf
      <3> QED
        BY <1>1, <2>1, <2>5, <3>1 DEF Hard
    <2>18. ASSUME NEW r \in Pending \cup {q}
           PROVE  \/ qhlptr[r] \in InRing \ {q}
                  \/ /\ qhlptr[r] \in Pending \cup {q}
                     /\ was_cancelled'[r] >= was_cancelled'[qhlptr[r]]
      <3>1. CASE r = q
        BY <2>5, <2>6, <2>17, <3>1
      <3>2. CASE r # q
        <4>1. r \in Pending /\ r \in Heads /\ was_cancelled'[r] = was_cancelled[r]
              /\ was_cancelled[r] \in {1, 2}
          BY <1>6, <1>7, <2>18, <3>2 DEF Inv, Removed
        <4>2. CASE qhlptr[r] \in InRing
          <5>1. CASE qhlptr[r] = q
            <6>1. was_cancelled'[q] = 1 /\ was_cancelled'[r] >= 1
              BY <1>6, <4>1
            <6> QED
              BY <4>1, <5>1, <6>1
          <5> QED
            BY <4>1, <4>2, <5>1
        <4>3. CASE qhlptr[r] \in Pending /\ was_cancelled[r] >= was_cancelled[qhlptr[r]]
          <5>1. was_cancelled'[qhlptr[r]] = was_cancelled[qhlptr[r]]
            BY <1>6, <1>7, <4>3
          <5> QED
            BY <4>1, <4>3, <5>1
        <4> QED
          BY <2>1, <4>1, <4>2, <4>3 DEF Ringed, LeadsBack
      <3> QED
        BY <3>1, <3>2
    <2>19. LeadsBack'
      BY <1>2, <1>7, <2>18 DEF LeadsBack
    <2> QED
      BY <2>6, <2>9, <2>15, <2>16, <2>19 DEF Ringed
  <1>14. DoorInv'
    <2> SUFFICES ASSUME Clean({"emptied", "torn", "early"})' PROVE Doorbells'
      BY DEF DoorInv
    <2>1. Doorbells /\ "adv" \notin usbsts
      BY <1>4 DEF Clean, Inv, DoorInv
    <2>2. ~Answered' /\ "adv" \notin usbsts'
      BY <1>2, <2>1 DEF Answered
    <2>3. \A r \in Pending : was_cancelled'[r] = was_cancelled[r]
      BY <1>6, <1>7
    <2> QED
      BY <1>2, <1>6, <1>7, <2>1, <2>2, <2>3 DEF Doorbells
  <1>15. HandlerInv'
    BY <1>2, <1>9 DEF Inv, HandlerInv
  <1>16. ClientInv'
    <2>1. ClientInv /\ Busy' = Busy /\ Fresh' = Fresh /\ Linked' = Linked
          /\ (Clean({"crossed"})' => Clean({"crossed"}))
          /\ (Clean({"crossed", "emptied", "torn"})' =>
                Clean({"crossed", "emptied", "torn"}) /\ ~(c.pc = "walk" /\ c.at = q))
      BY <1>2, <1>4 DEF Inv, Busy, Fresh, Linked, Adding, Clean
    <2>3. Clean({"crossed"})' /\ c.pc \notin {"idle", "walk"} => c.q # q
      BY <1>1, <1>3, <2>1 DEF Inv, HandlerInv
    <2>4. Serving'
      <3>1. Busy => (c.q \in Heads /\ qh'[c.q] # "none" /\ c.tds # <<>>)
        BY <1>6, <2>1 DEF ClientInv, Serving, Known
      <3>2. Clean({"crossed"})' => (c.pc \notin {"idle", "walk"} => c.q \in InRing')
        BY <1>7, <2>1, <2>3 DEF ClientInv, Serving
      <3> QED
        BY <1>2, <2>1, <3>1, <3>2 DEF Serving, Known
    <2>5. Found' /\ Walking'
      BY <1>2, <1>7, <2>1 DEF ClientInv, Found, Walking
    <2>6. Distinct' /\ Prepared'
      BY <1>2, <2>1 DEF ClientInv, Distinct, Prepared
    <2>7. Activating'
      <3>1. qh[c.q] = "freed" /\ c.q \in Heads => qh'[c.q] = "freed"
        BY <1>5, <1>6
      <3>2. c.pc = "activate" => c.q \in Heads
        BY <2>1 DEF ClientInv, Serving, Busy, Known
      <3> QED
        BY <1>2, <2>1, <3>1, <3>2 DEF ClientInv, Activating, AtEnd
    <2> QED
      BY <2>4, <2>5, <2>6, <2>7 DEF ClientInv
  <1>17. Owned' /\ Telling'
    <2>1. Owned /\ Telling /\ tdns \in [Heads -> Seq(Tds)] /\ UNCHANGED <<td, tdns, told>>
      BY <1>2, <1>3 DEF Inv, Types, QueueTypes
    <2>2. \A r \in Heads : /\ qh'[r] = "none" => qh[r] = "none"
                           /\ qh[r] = "freed" => qh'[r] = "freed"
      BY <1>5, <1>6
    <2> QED
      BY <2>1, <2>2, StatusKeeps
  <1>18. Working'
    <2> SUFFICES ASSUME NEW r \in Heads, qh'[r] # "freed" PROVE QueueWorks(r)'
      BY DEF Working
    <2>1. QueueWorks(r) /\ tdns[r] \in Seq(Tds) /\ overlay[r] \in OverlayType
      BY <1>3, <1>5, <1>6 DEF Inv, Working, Types, QueueTypes
    <2>2. overlay[r].cur \in Tds \cup {Null}
      BY <2>1 DEF OverlayType
    <2>3. qh'[r] = "ring" => qh[r] = "ring"
      BY <1>6
    <2> QED
      BY <1>2, <2>1, <2>2, <2>3, QueueKeeps
  <1>19. ControllerSafe' /\ MemorySafe'
    <2>1. \A r \in Heads : qh'[r] = "freed" => qh[r] = "freed"
      BY <1>6
    <2> QED
      BY <1>2, <1>10, <1>17, <1>18, <2>1, ControllerStays, MemoryFrame
  <1> QED
    BY <1>10, <1>11, <1>12, <1>13, <1>14, <1>15, <1>16, <1>17, <1>18, <1>19 DEF Inv

\* A queue head is added to the ring, store by store, behind a tail that is not
\* being removed meanwhile.
LEMMA AddingAt ==
    ASSUME Adding, NEW L \in [Settled -> Settled], RingOf(L)
    PROVE  /\ c.q \in InRing /\ c.q \notin Settled /\ tail \in Settled /\ c.q # tail
           /\ InRing = Settled \cup {c.q} /\ InRing \subseteq Heads
           /\ c.q \notin Pending /\ tail \notin Pending
           /\ qhlptr[c.q] = L[tail] /\ (c.pc \in {"splice", "tail"} => next[c.q] = L[tail])
           /\ Removing => /\ tail # h.prev /\ tail # h.q /\ h.q \in Settled /\ h.prev \in Settled
                          /\ c.q # h.prev /\ c.q # h.q
  <1>1. c.q \in InRing /\ c.q \notin Settled /\ tail \in Settled /\ Settled \subseteq InRing
    BY DEF RingOf, Joins, Settled
  <1>2. InRing = Settled \cup {c.q} /\ InRing \subseteq Heads /\ InRing \cap Pending = {}
    BY <1>1 DEF Settled, InRing, Pending
  <1>3. Removing => tail \notin {h.prev, h.q} /\ h.q \in Settled /\ h.prev \in Settled
    BY DEF RingOf, Leaves
  <1>4. qhlptr[c.q] = L[tail] /\ (c.pc \in {"splice", "tail"} => next[c.q] = L[tail])
    BY DEF RingOf, Joins
  <1> QED
    BY <1>1, <1>2, <1>3, <1>4

LEMMA AddMoves ==
    ASSUME Inv, Running, UNCHANGED <<qh, was_cancelled, db_pending, tdns, td, overlay, told, usbsts,
               usbintr, doorbell, hw, h, gone, bound, slips, fault>>,
           NEW s \in {"sw", "splice", "tail", "test", "drain"}, Adding, c' = [c EXCEPT !.pc = s],
           RingTypes', Links', RingInv', Clean({"emptied", "torn"}) => Passable \subseteq Passable'
    PROVE  Inv'
  <1>1. Types
    BY TypesAre DEF Inv, TypeInv
  <1>2. c' \in ClientType /\ c'.pc = s /\ c'.q = c.q /\ c'.tds = c.tds
    <2>1. c \in ClientType /\ s \in Stages
      BY <1>1 DEF Types, Stages, AddStages
    <2> QED
      BY <2>1, ClientMoves
  <1>3. TypeInv'
    BY <1>1, <1>2, TypesAre DEF Inv, TypeInv, Types, QueueTypes, RegTypes
  <1>4. /\ c.pc \notin {"idle", "walk", "link", "lock", "activate"} /\ Busy /\ Fresh /\ Busy' /\ Fresh'
        /\ ~Linked'
    BY <1>2 DEF Adding, AddStages, Busy, Fresh, Linked
  <1>5. Answered' = Answered /\ InRing' = InRing /\ \A r : Known(r)' = Known(r)
    BY DEF Answered, InRing, Known
  <1>6. Removed' /\ DoorInv' /\ MemorySafe'
    BY <1>5, RemovedFrame, DoorFrame, MemoryFrame DEF Inv
  <1>7. Owned' /\ Telling' /\ Working' /\ ControllerSafe'
    BY <1>4, OwnedFrame, TellingFrame, WorkingFrame, ControllerFrame DEF Inv
  <1>8. HandlerInv'
    <2>1. HandlerInv /\ Cancelling' = Cancelling /\ Removing' = Removing
      BY DEF Inv, Cancelling, Removing
    <2>2. /\ Clean({"crossed"})' = Clean({"crossed"})
          /\ Clean({"emptied", "torn"})' = Clean({"emptied", "torn"})
      BY DEF Clean
    <2>3. Clean({"crossed"}) => ~(Cancelling /\ c.q = h.q)
      BY <1>4, <2>1 DEF HandlerInv
    <2> QED
      BY <1>2, <1>5, <2>1, <2>2, <2>3 DEF HandlerInv
  <1>9. ClientInv'
    <2>1. ClientInv /\ Clean({"crossed"})' = Clean({"crossed"})
      BY DEF Inv, Clean
    <2>2. Serving'
      BY <1>2, <1>4, <1>5, <2>1 DEF ClientInv, Serving
    <2>3. Prepared'
      BY <1>2, <1>4, <2>1 DEF ClientInv, Prepared
    <2>4. Distinct'
      BY <1>2, <1>4, <2>1 DEF ClientInv, Distinct
    <2>5. Activating' /\ Found' /\ Walking'
      BY <1>2, <1>4 DEF Activating, Found, Walking
    <2> QED
      BY <2>2, <2>3, <2>4, <2>5 DEF ClientInv
  <1> QED
    BY <1>3, <1>6, <1>7, <1>8, <1>9 DEF Inv

LEMMA AddHwKeeps ==
    ASSUME Inv, AddHw
    PROVE  Inv'
  <1>1. /\ Running /\ c.pc = "hw" /\ qhlptr' = [qhlptr EXCEPT ![tail] = c.q]
        /\ UNCHANGED <<tail, next, qh, was_cancelled, db_pending, tdns, td, overlay, told,
                       usbsts, usbintr, doorbell, hw, h, gone, bound, slips, fault>>
        /\ tail \in Heads /\ c.q \in Heads /\ qh[c.q] # "none" /\ qh[tail] # "none"
    <2>1. c.q \in Heads /\ qh[c.q] # "none" /\ c.pc = "hw"
      BY DEF AddHw, AddStage, Stage, Inv, ClientInv, Serving, Busy, Known
    <2>2. tail \in Heads /\ qh[tail] # "none"
      BY DEF AddHw, AddStage, Lost, Inv, Links, Known
    <2> QED
      BY <2>1, <2>2 DEF AddHw, AddStage, Stage, ClientKeeps, removal, queue, history
  <1>2. PICK s : s = "sw"
    OBVIOUS
  <1>3. Types /\ c' = [c EXCEPT !.pc = s] /\ s \in {"sw", "splice", "tail", "test", "drain"} /\ Adding
    BY <1>1, <1>2, TypesAre DEF Inv, TypeInv, AddHw, Adding, AddStages
  <1>4. c'.pc = "sw" /\ c'.q = c.q /\ Adding' /\ SameRemoving
    <2>1. c'.pc = "sw" /\ c'.q = c.q
      BY <1>2, <1>3 DEF Types, ClientType
    <2> QED
      BY <1>1, <2>1, SameStages DEF Adding, AddStages
  <1>5. /\ qhlptr' \in [Heads -> Heads \cup {Null}] /\ qhlptr'[tail] = c.q
        /\ \A r \in Heads : r # tail => qhlptr'[r] = qhlptr[r]
    BY <1>1, <1>3 DEF Types, RingTypes
  <1>6. RingTypes'
    BY <1>1, <1>3, <1>5 DEF Types, RingTypes
  <1>7. Links'
    BY <1>1, <1>5 DEF Inv, Links, Known
  <1>8. InRing' = InRing /\ Settled' = Settled /\ Pending' = Pending
    BY <1>1, <1>3, <1>4 DEF InRing, Settled, Pending
  <1>9. RingInv'
    <2> SUFFICES ASSUME Ringed PROVE Ringed'
      BY <1>1 DEF RingInv, Clean, Inv
    <2>1. PICK L \in [Settled -> Settled] : RingOf(L)
      BY DEF Ringed
    <2>2. /\ c.q \in InRing /\ c.q \notin Settled /\ tail \in Settled /\ c.q # tail
          /\ InRing \subseteq Heads /\ Settled \subseteq InRing
          /\ c.q \notin Pending /\ tail \notin Pending
          /\ qhlptr[c.q] = L[tail] /\ (c.pc \in {"splice", "tail"} => next[c.q] = L[tail])
      BY <1>3, <2>1, AddingAt
    <2>3. Removing => tail # h.prev /\ tail # h.q
      BY <1>3, <2>1, AddingAt
    <2>4. h.pc \in {"unlink", "retail", "pend"} => Removing
      BY DEF Removing
    <2>5. ASSUME NEW x \in Settled PROVE next'[x] = Soft(L, x)' /\ qhlptr'[x] = Hard(L, x)'
      <3>1. next[x] = Soft(L, x) /\ qhlptr[x] = Hard(L, x) /\ x \in Heads /\ x # c.q
        BY <2>1, <2>2 DEF RingOf
      <3>2. CASE x = tail
        BY <1>1, <1>4, <1>5, <2>3, <2>4, <3>1, <3>2 DEF Soft, Hard
      <3>3. CASE x # tail
        <4>1. Soft(L, x)' = Soft(L, x) /\ Hard(L, x)' = Hard(L, x)
          BY <1>1, <1>4, <3>3 DEF Soft, Hard
        <4> QED
          BY <1>1, <1>5, <3>1, <3>3, <4>1
      <3> QED
        BY <3>2, <3>3
    <2>6. Cyclic(L)'
      BY <1>8, <2>1 DEF RingOf, Cyclic
    <2>7. Joins(L)'
      <3>1. qhlptr'[c.q] = L[tail]
        BY <1>1, <1>5, <2>2
      <3>2. c'.pc \in {"splice", "tail"} => next'[c.q] = L[tail]
        BY <1>4
      <3> QED
        BY <1>1, <1>4, <1>8, <2>2, <3>1, <3>2 DEF Joins
    <2>8. Leaves(L)'
      BY <1>1, <1>3, <1>4, <1>8, <2>1 DEF RingOf, Leaves, SameRemoving
    <2>9. RingOf(L)'
      BY <1>8, <2>5, <2>6, <2>7, <2>8 DEF RingOf
    <2>10. \A r \in Pending : qhlptr'[r] = qhlptr[r]
      BY <1>1, <1>5, <2>2 DEF Pending
    <2>11. TailIn' /\ LeadsBack'
      BY <1>1, <1>8, <2>10 DEF Ringed, TailIn, LeadsBack
    <2> QED
      BY <1>8, <2>1, <2>9, <2>11 DEF Ringed
  <1>10. Passable \subseteq Passable'
    BY <1>1, <1>4, <1>8 DEF Passable
  <1> QED
    BY <1>1, <1>2, <1>3, <1>6, <1>7, <1>9, <1>10, AddMoves

LEMMA AddSwKeeps ==
    ASSUME Inv, AddSw
    PROVE  Inv'
  <1>1. /\ Running /\ c.pc = "sw" /\ next' = [next EXCEPT ![c.q] = next[tail]]
        /\ UNCHANGED <<tail, qhlptr, qh, was_cancelled, db_pending, tdns, td, overlay, told,
                       usbsts, usbintr, doorbell, hw, h, gone, bound, slips, fault>>
        /\ tail \in Heads /\ c.q \in Heads /\ qh[c.q] # "none" /\ qh[tail] # "none"
    <2>1. c.q \in Heads /\ qh[c.q] # "none" /\ c.pc = "sw"
      BY DEF AddSw, AddStage, Stage, Inv, ClientInv, Serving, Busy, Known
    <2>2. tail \in Heads /\ qh[tail] # "none"
      BY DEF AddSw, AddStage, Lost, Inv, Links, Known
    <2> QED
      BY <2>1, <2>2 DEF AddSw, AddStage, Stage, ClientKeeps, removal, queue, history
  <1>2. PICK s : s = "splice"
    OBVIOUS
  <1>3. Types /\ c' = [c EXCEPT !.pc = s] /\ s \in {"sw", "splice", "tail", "test", "drain"} /\ Adding
    BY <1>1, <1>2, TypesAre DEF Inv, TypeInv, AddSw, Adding, AddStages
  <1>4. c'.pc = "splice" /\ c'.q = c.q /\ Adding' /\ SameRemoving
    <2>1. c'.pc = "splice" /\ c'.q = c.q
      BY <1>2, <1>3 DEF Types, ClientType
    <2> QED
      BY <1>1, <2>1, SameStages DEF Adding, AddStages
  <1>5. /\ next' \in [Heads -> Heads \cup {Null}] /\ next'[c.q] = next[tail]
        /\ \A r \in Heads : r # c.q => next'[r] = next[r]
    BY <1>1, <1>3 DEF Types, RingTypes
  <1>6. RingTypes'
    BY <1>1, <1>3, <1>5 DEF Types, RingTypes
  <1>7. Links'
    BY <1>1, <1>5 DEF Inv, Links, Known
  <1>8. InRing' = InRing /\ Settled' = Settled /\ Pending' = Pending
    BY <1>1, <1>3, <1>4 DEF InRing, Settled, Pending
  <1>9. RingInv'
    <2> SUFFICES ASSUME Ringed PROVE Ringed'
      BY <1>1 DEF RingInv, Clean, Inv
    <2>1. PICK L \in [Settled -> Settled] : RingOf(L)
      BY DEF Ringed
    <2>2. /\ c.q \in InRing /\ c.q \notin Settled /\ tail \in Settled /\ c.q # tail
          /\ InRing \subseteq Heads /\ Settled \subseteq InRing
          /\ c.q \notin Pending /\ tail \notin Pending
          /\ qhlptr[c.q] = L[tail] /\ (c.pc \in {"splice", "tail"} => next[c.q] = L[tail])
      BY <1>3, <2>1, AddingAt
    <2>3. Removing => tail # h.prev /\ tail # h.q
      BY <1>3, <2>1, AddingAt
    <2>4. h.pc \in {"unlink", "retail", "pend"} => Removing
      BY DEF Removing
    <2>5. ASSUME NEW x \in Settled PROVE next'[x] = Soft(L, x)' /\ qhlptr'[x] = Hard(L, x)'
      <3>1. next[x] = Soft(L, x) /\ qhlptr[x] = Hard(L, x) /\ x \in Heads /\ x # c.q
        BY <2>1, <2>2 DEF RingOf
      <3>2. CASE x = tail
        BY <1>1, <1>4, <1>5, <2>3, <2>4, <3>1, <3>2 DEF Soft, Hard
      <3>3. CASE x # tail
        <4>1. Soft(L, x)' = Soft(L, x) /\ Hard(L, x)' = Hard(L, x)
          BY <1>1, <1>4, <3>3 DEF Soft, Hard
        <4> QED
          BY <1>1, <1>5, <3>1, <3>3, <4>1
      <3> QED
        BY <3>2, <3>3
    <2>6. Cyclic(L)'
      BY <1>8, <2>1 DEF RingOf, Cyclic
    <2>7. Joins(L)'
      <3>1. qhlptr'[c.q] = L[tail]
        BY <1>1, <1>5, <2>2
      <3>2. c'.pc \in {"splice", "tail"} => next'[c.q] = L[tail]
        <4>1. next[tail] = Soft(L, tail)
          BY <2>1, <2>2 DEF RingOf
        <4>2. Soft(L, tail) = L[tail]
          BY <1>1, <2>3, <2>4 DEF Soft
        <4> QED
          BY <1>5, <4>1, <4>2
      <3> QED
        BY <1>1, <1>4, <1>8, <2>2, <3>1, <3>2 DEF Joins
    <2>8. Leaves(L)'
      BY <1>1, <1>3, <1>4, <1>8, <2>1 DEF RingOf, Leaves, SameRemoving
    <2>9. RingOf(L)'
      BY <1>8, <2>5, <2>6, <2>7, <2>8 DEF RingOf
    <2>10. \A r \in Pending : qhlptr'[r] = qhlptr[r]
      BY <1>1, <1>5, <2>2 DEF Pending
    <2>11. TailIn' /\ LeadsBack'
      BY <1>1, <1>8, <2>10 DEF Ringed, TailIn, LeadsBack
    <2> QED
      BY <1>8, <2>1, <2>9, <2>11 DEF Ringed
  <1>10. Passable \subseteq Passable'
    BY <1>1, <1>4, <1>8 DEF Passable
  <1> QED
    BY <1>1, <1>2, <1>3, <1>6, <1>7, <1>9, <1>10, AddMoves

LEMMA AddSpliceKeeps ==
    ASSUME Inv, AddSplice
    PROVE  Inv'
  <1>1. /\ Running /\ c.pc = "splice" /\ next' = [next EXCEPT ![tail] = c.q]
        /\ UNCHANGED <<tail, qhlptr, qh, was_cancelled, db_pending, tdns, td, overlay, told,
                       usbsts, usbintr, doorbell, hw, h, gone, bound, slips, fault>>
        /\ tail \in Heads /\ c.q \in Heads /\ qh[c.q] # "none" /\ qh[tail] # "none"
    <2>1. c.q \in Heads /\ qh[c.q] # "none" /\ c.pc = "splice"
      BY DEF AddSplice, AddStage, Stage, Inv, ClientInv, Serving, Busy, Known
    <2>2. tail \in Heads /\ qh[tail] # "none"
      BY DEF AddSplice, AddStage, Lost, Inv, Links, Known
    <2> QED
      BY <2>1, <2>2 DEF AddSplice, AddStage, Stage, ClientKeeps, removal, queue, history
  <1>2. PICK s : s = "tail"
    OBVIOUS
  <1>3. Types /\ c' = [c EXCEPT !.pc = s] /\ s \in {"sw", "splice", "tail", "test", "drain"} /\ Adding
    BY <1>1, <1>2, TypesAre DEF Inv, TypeInv, AddSplice, Adding, AddStages
  <1>4. c'.pc = "tail" /\ c'.q = c.q /\ Adding' /\ SameRemoving
    <2>1. c'.pc = "tail" /\ c'.q = c.q
      BY <1>2, <1>3 DEF Types, ClientType
    <2> QED
      BY <1>1, <2>1, SameStages DEF Adding, AddStages
  <1>5. /\ next' \in [Heads -> Heads \cup {Null}] /\ next'[tail] = c.q
        /\ \A r \in Heads : r # tail => next'[r] = next[r]
    BY <1>1, <1>3 DEF Types, RingTypes
  <1>6. RingTypes'
    BY <1>1, <1>3, <1>5 DEF Types, RingTypes
  <1>7. Links'
    BY <1>1, <1>5 DEF Inv, Links, Known
  <1>8. InRing' = InRing /\ Settled' = Settled /\ Pending' = Pending
    BY <1>1, <1>3, <1>4 DEF InRing, Settled, Pending
  <1>9. RingInv'
    <2> SUFFICES ASSUME Ringed PROVE Ringed'
      BY <1>1 DEF RingInv, Clean, Inv
    <2>1. PICK L \in [Settled -> Settled] : RingOf(L)
      BY DEF Ringed
    <2>2. /\ c.q \in InRing /\ c.q \notin Settled /\ tail \in Settled /\ c.q # tail
          /\ InRing \subseteq Heads /\ Settled \subseteq InRing
          /\ c.q \notin Pending /\ tail \notin Pending
          /\ qhlptr[c.q] = L[tail] /\ (c.pc \in {"splice", "tail"} => next[c.q] = L[tail])
      BY <1>3, <2>1, AddingAt
    <2>3. Removing => tail # h.prev /\ tail # h.q
      BY <1>3, <2>1, AddingAt
    <2>4. h.pc \in {"unlink", "retail", "pend"} => Removing
      BY DEF Removing
    <2>5. ASSUME NEW x \in Settled PROVE next'[x] = Soft(L, x)' /\ qhlptr'[x] = Hard(L, x)'
      <3>1. next[x] = Soft(L, x) /\ qhlptr[x] = Hard(L, x) /\ x \in Heads /\ x # c.q
        BY <2>1, <2>2 DEF RingOf
      <3>2. CASE x = tail
        BY <1>1, <1>4, <1>5, <2>3, <2>4, <3>1, <3>2 DEF Soft, Hard
      <3>3. CASE x # tail
        <4>1. Soft(L, x)' = Soft(L, x) /\ Hard(L, x)' = Hard(L, x)
          BY <1>1, <1>4, <3>3 DEF Soft, Hard
        <4> QED
          BY <1>1, <1>5, <3>1, <3>3, <4>1
      <3> QED
        BY <3>2, <3>3
    <2>6. Cyclic(L)'
      BY <1>8, <2>1 DEF RingOf, Cyclic
    <2>7. Joins(L)'
      <3>1. qhlptr'[c.q] = L[tail]
        BY <1>1, <1>5, <2>2
      <3>2. c'.pc \in {"splice", "tail"} => next'[c.q] = L[tail]
        BY <1>1, <1>5, <2>2
      <3> QED
        BY <1>1, <1>4, <1>8, <2>2, <3>1, <3>2 DEF Joins
    <2>8. Leaves(L)'
      BY <1>1, <1>3, <1>4, <1>8, <2>1 DEF RingOf, Leaves, SameRemoving
    <2>9. RingOf(L)'
      BY <1>8, <2>5, <2>6, <2>7, <2>8 DEF RingOf
    <2>10. \A r \in Pending : qhlptr'[r] = qhlptr[r]
      BY <1>1, <1>5, <2>2 DEF Pending
    <2>11. TailIn' /\ LeadsBack'
      BY <1>1, <1>8, <2>10 DEF Ringed, TailIn, LeadsBack
    <2> QED
      BY <1>8, <2>1, <2>9, <2>11 DEF Ringed
  <1>10. Passable \subseteq Passable'
    BY <1>1, <1>4, <1>8 DEF Passable
  <1> QED
    BY <1>1, <1>2, <1>3, <1>6, <1>7, <1>9, <1>10, AddMoves

LEMMA AddTailKeeps ==
    ASSUME Inv, AddTail
    PROVE  Inv'
  <1>1. /\ Running /\ c.pc = "tail" /\ tail' = c.q
        /\ UNCHANGED <<next, qhlptr, qh, was_cancelled, db_pending, tdns, td, overlay, told,
                       usbsts, usbintr, doorbell, hw, h, gone, bound, slips, fault>>
    BY DEF AddTail, AddStage, Stage, ClientKeeps, removal, queue, history
  <1>2. PICK s : s = Ready(c.cb)
    OBVIOUS
  <1>3. /\ Types /\ c' = [c EXCEPT !.pc = s] /\ s \in {"test", "drain"} /\ Adding
        /\ c.q \in Heads /\ qh[c.q] # "none"
    <2>1. s \in {"test", "drain"}
      BY <1>2 DEF Ready
    <2> QED
      BY <1>1, <1>2, <2>1, TypesAre DEF Inv, TypeInv, AddTail, Adding, AddStages, ClientInv, Serving,
         Busy, Known
  <1>4. c'.pc = s /\ c'.q = c.q /\ ~Adding' /\ SameRemoving
    <2>1. c'.pc = s /\ c'.q = c.q
      BY <1>2, <1>3 DEF Types, ClientType
    <2> QED
      BY <1>1, <1>3, <2>1, SameStages DEF Adding, AddStages
  <1>5. RingTypes'
    BY <1>1, <1>3 DEF Types, RingTypes
  <1>6. Links'
    BY <1>1, <1>3 DEF Inv, Links, Known
  <1>7. InRing' = InRing /\ Settled' = InRing /\ Pending' = Pending
    BY <1>1, <1>4 DEF InRing, Settled, Pending
  <1>8. RingInv'
    <2> SUFFICES ASSUME Ringed PROVE Ringed'
      BY <1>1 DEF RingInv, Clean, Inv
    <2>1. PICK L \in [Settled -> Settled] : RingOf(L)
      BY DEF Ringed
    <2>2. PICK q, t : q = c.q /\ t = tail
      OBVIOUS
    <2>3. /\ q \in InRing /\ q \notin Settled /\ t \in Settled /\ q # t /\ InRing = Settled \cup {q}
          /\ qhlptr[q] = L[t] /\ next[q] = L[t]
          /\ Removing => /\ t # h.prev /\ t # h.q /\ h.q \in Settled /\ h.prev \in Settled
                         /\ q # h.prev /\ q # h.q
      BY <1>1, <1>3, <2>1, <2>2, AddingAt
    <2>4. /\ \A r, u \in Settled : L[r] = L[u] => r = u
          /\ \A r \in Settled : L[r] \in Settled /\ \E p \in Settled : L[p] = r
      BY <2>1 DEF RingOf, Cyclic
    <2>5. PICK M : M = [x \in InRing |-> IF x = t THEN q ELSE IF x = q THEN L[t] ELSE L[x]]
      OBVIOUS
    <2>6. /\ M[t] = q /\ M[q] = L[t]
          /\ \A x \in Settled : x # t => M[x] = L[x] /\ L[x] # L[t] /\ L[x] # q
      BY <2>3, <2>4, <2>5
    <2>7. M \in [InRing -> InRing]
      BY <2>3, <2>4, <2>5, <2>6
    <2>8. ASSUME NEW r \in InRing, NEW u \in InRing, M[r] = M[u] PROVE r = u
      <3>1. r \in Settled \/ r = q
        BY <2>3
      <3>2. u \in Settled \/ u = q
        BY <2>3
      <3>3. L[t] # q
        BY <2>3, <2>4
      <3> QED
        BY <2>3, <2>4, <2>6, <2>8, <3>1, <3>2, <3>3
    <2>9. ASSUME NEW r \in InRing PROVE \E p \in InRing : M[p] = r
      <3>1. CASE r = q
        BY <2>3, <2>6, <3>1
      <3>2. CASE r # q
        <4>1. PICK p \in Settled : L[p] = r
          BY <2>3, <2>4, <3>2
        <4>2. CASE p = t
          BY <2>3, <2>6, <4>1, <4>2
        <4>3. CASE p # t
          BY <2>3, <2>6, <4>1, <4>3
        <4> QED
          BY <4>2, <4>3
      <3> QED
        BY <3>1, <3>2
    <2>10. Cyclic(M)'
      BY <1>7, <2>7, <2>8, <2>9 DEF Cyclic
    <2>11. Joins(M)'
      BY <1>4 DEF Joins
    <2>12. Leaves(M)'
      <3> SUFFICES ASSUME Removing PROVE Leaves(M)'
        BY <1>4 DEF Leaves, SameRemoving
      <3>1. h.q \in Settled /\ h.prev \in Settled /\ L[h.prev] = h.q
        BY <2>1 DEF RingOf, Leaves
      <3>2. M[h.prev] = h.q /\ tail' # h.q
        BY <1>1, <2>2, <2>3, <2>6, <3>1
      <3> QED
        BY <1>1, <1>4, <1>7, <2>3, <3>1, <3>2 DEF Leaves
    <2>13. ASSUME NEW x \in InRing PROVE next[x] = Soft(M, x)' /\ qhlptr[x] = Hard(M, x)'
      <3>1. h.pc \in {"unlink", "retail", "pend"} => Removing
        BY DEF Removing
      <3>2. /\ Soft(M, x)' = IF h.pc \in {"retail", "pend"} /\ x = h.prev THEN M[h.q] ELSE M[x]
            /\ Hard(M, x)' = IF h.pc \in {"unlink", "retail", "pend"} /\ x = h.prev THEN M[h.q] ELSE M[x]
        BY <1>1, <1>3, <1>4 DEF Soft, Hard
      <3>3. CASE x = q
        BY <2>3, <2>6, <3>1, <3>2, <3>3
      <3>4. CASE x = t
        <4>1. next[t] = q /\ qhlptr[t] = q
          BY <1>1, <2>1, <2>2, <2>3 DEF RingOf, Soft, Hard
        <4> QED
          BY <2>3, <2>6, <3>1, <3>2, <3>4, <4>1
      <3>5. CASE x # q /\ x # t
        <4>1. x \in Settled /\ next[x] = Soft(L, x) /\ qhlptr[x] = Hard(L, x)
          BY <2>1, <2>3, <3>5 DEF RingOf
        <4>2. /\ Soft(L, x) = IF h.pc \in {"retail", "pend"} /\ x = h.prev THEN L[h.q] ELSE L[x]
              /\ Hard(L, x) = IF h.pc \in {"unlink", "retail", "pend"} /\ x = h.prev THEN L[h.q] ELSE L[x]
          BY <2>2, <3>5 DEF Soft, Hard
        <4>3. M[x] = L[x] /\ (Removing => M[h.q] = L[h.q])
          BY <2>3, <2>6, <3>5, <4>1
        <4> QED
          BY <3>1, <3>2, <4>1, <4>2, <4>3
      <3> QED
        BY <3>3, <3>4, <3>5
    <2>14. RingOf(M)'
      BY <1>1, <1>7, <2>10, <2>11, <2>12, <2>13 DEF RingOf
    <2>15. TailIn' /\ LeadsBack'
      BY <1>1, <1>7, <2>2, <2>3 DEF Ringed, TailIn, LeadsBack
    <2> QED
      BY <1>7, <2>7, <2>14, <2>15 DEF Ringed
  <1>9. Clean({"emptied", "torn"}) => Passable \subseteq Passable'
    <2> SUFFICES ASSUME Ringed PROVE Passable \subseteq Passable'
      BY DEF Inv, RingInv
    <2>1. PICK L \in [Settled -> Settled] : RingOf(L)
      BY DEF Ringed
    <2>2. InRing = Settled \cup {c.q}
      BY <1>3, <2>1, AddingAt
    <2> QED
      BY <1>7, <2>2 DEF Passable
  <1> QED
    BY <1>1, <1>2, <1>3, <1>5, <1>6, <1>8, <1>9, AddMoves

\* The client does not find a queue head destroyed: unless the handler has removed
\* the one it works on, or the ring was emptied or torn.
LEMMA UseFreedKeeps ==
    ASSUME Inv, UseFreed
    PROVE  Inv'
  <1>1. /\ Running
        /\ UNCHANGED <<ring, qh, removal, queue, regs, hw, c, h, gone, bound, slips>>
    BY DEF UseFreed, ClientKeeps, Fault, regs
  <1>2. ~Clean({"crossed", "emptied", "torn"})
    <2> SUFFICES ASSUME Clean({"crossed", "emptied", "torn"}) PROVE FALSE
      OBVIOUS
    <2>1. Ringed /\ Clean({"crossed"})
      BY DEF Clean, Inv, RingInv
    <2>2. \A q \in InRing : q \in Heads /\ qh[q] = "ring" /\ q # Null
      BY HeadsAre DEF InRing
    <2>3. tail \in InRing \/ tail = Null
      BY <2>1 DEF Ringed, TailIn, Settled
    <2>4. CASE tail # Null /\ qh[tail] = "freed"
      BY <2>2, <2>3, <2>4
    <2>5. CASE c.pc \in {"hw", "sw", "splice"} /\ (Lost(tail) \/ qh[c.q] = "freed")
      <3>1. Adding
        BY <2>5 DEF Adding, AddStages
      <3>2. PICK L \in [Settled -> Settled] : RingOf(L)
        BY <2>1 DEF Ringed
      <3>3. c.q \in InRing /\ tail \in InRing
        BY <3>1, <3>2, AddingAt
      <3> QED
        BY <2>2, <2>5, <3>3 DEF Lost
    <2>6. CASE c.pc \in {"drain", "test", "lock", "link"} /\ qh[c.q] = "freed"
      <3>1. c.q \in InRing
        BY <2>1, <2>6 DEF Inv, ClientInv, Serving
      <3> QED
        BY <2>2, <2>6, <3>1
    <2> QED
      BY <2>4, <2>5, <2>6 DEF UseFreed
  <1> QED
    BY <1>1, <1>2, FaultKeeps

\* The TDs of a new transfer: the first ones that are unused, in a chain.
Allocated(n, k, ts) ==
    /\ k \in Nat /\ Used = 1..k /\ k + n <= MaxTds
    /\ ts \in Seq(Tds) /\ Len(ts) = n /\ DOMAIN ts = 1..n /\ ToSet(ts) = (k + 1)..(k + n)
    /\ \A i \in 1..n : ts[i] = k + i
    /\ td' \in [Tds -> TdType]
    /\ \A t \in Tds : t \notin (k + 1)..(k + n) => td'[t] = td[t]
    /\ \A i \in 1..n : /\ td[ts[i]].status = "unused" /\ td'[ts[i]].status = "off"
                       /\ td'[ts[i]].next = IF i < n THEN ts[i + 1] ELSE Null
                       /\ i < n => ~td'[ts[i]].ioc

LEMMA SubmitAllocates ==
    ASSUME Inv, NEW q \in Heads, NEW n \in 1..2, NEW cb \in BOOLEAN, Submit(q, n, cb)
    PROVE  \E k, ts : Allocated(n, k, ts) /\ c'.tds = ts
  <1>1. PICK k \in 0..MaxTds : Used = 1..k
    BY DEF Inv, Owned, Counted
  <1>2. MaxTds \in Nat /\ k \in Nat /\ n \in {1, 2}
    BY <1>1, ConstantsAssumption
  <1>3. Cardinality(Used) = k
    <2>1. PICK a, b : a = 1 /\ b = k
      OBVIOUS
    <2>2. a \in Int /\ b \in Int
      BY <1>2, <2>1
    <2>3. Cardinality(a..b) = IF a > b THEN 0 ELSE b - a + 1
      BY <2>2, FS_Interval
    <2> QED
      BY <1>1, <1>2, <2>1, <2>3
  <1>4. PICK ts : ts = [i \in 1..n |-> k + 1 + i - 1]
    OBVIOUS
  <1>5. /\ k + 1 + n - 1 <= bound.tds /\ c'.tds = ts
        /\ td' = [t \in Tds |-> IF t \notin ToSet(ts) THEN td[t]
                                ELSE [status |-> "off", next |-> IF t = Last(ts) THEN Null ELSE t + 1,
                                      ioc |-> t = Last(ts), cb |-> cb /\ t = Last(ts)]]
    BY <1>3, <1>4 DEF Submit
  <1>6. k + n <= MaxTds
    <2>1. bound.tds \in 0..MaxTds
      BY ConstantsAssumption DEF Inv, TypeInv
    <2> QED
      BY <1>2, <1>5, <2>1
  <1>7. /\ ts \in Seq(Tds) /\ Len(ts) = n /\ DOMAIN ts = 1..n
        /\ \A i \in 1..n : ts[i] = k + i /\ k + i \in Tds
    BY <1>2, <1>4, <1>6 DEF Tds
  <1>8. ToSet(ts) = (k + 1)..(k + n)
    <2>1. ASSUME NEW x \in ToSet(ts) PROVE x \in (k + 1)..(k + n)
      BY <1>2, <1>7, <2>1 DEF ToSet
    <2>2. ASSUME NEW x \in (k + 1)..(k + n) PROVE x \in ToSet(ts)
      <3>1. x - k \in 1..n /\ x = k + (x - k)
        BY <1>2, <2>2
      <3> QED
        BY <1>7, <3>1 DEF ToSet
    <2> QED
      BY <2>1, <2>2
  <1>9. Last(ts) = k + n
    BY <1>2, <1>7 DEF Last
  <1>10. \A t \in Tds : t \notin (k + 1)..(k + n) => td'[t] = td[t]
    BY <1>5, <1>8
  <1>11. ASSUME NEW t \in Tds, t \in (k + 1)..(k + n)
         PROVE  /\ td'[t] = [status |-> "off", next |-> IF t = k + n THEN Null ELSE t + 1,
                             ioc |-> t = k + n, cb |-> cb /\ t = k + n]
                /\ td'[t] \in TdType /\ td[t].status = "unused"
    <2>1. td'[t] = [status |-> "off", next |-> IF t = k + n THEN Null ELSE t + 1,
                    ioc |-> t = k + n, cb |-> cb /\ t = k + n]
      BY <1>5, <1>8, <1>9, <1>11
    <2>2. (IF t = k + n THEN Null ELSE t + 1) \in Tds \cup {Null}
      BY <1>2, <1>6, <1>11 DEF Tds
    <2>3. t \notin Used
      BY <1>1, <1>2, <1>11
    <2> QED
      BY <2>1, <2>2, <2>3 DEF TdType, Used
  <1>12. td' \in [Tds -> TdType]
    <2>1. td \in [Tds -> TdType]
      BY TypesAre DEF Inv, TypeInv, Types, QueueTypes
    <2>2. \A t \in Tds : td'[t] \in TdType
      BY <1>10, <1>11, <2>1
    <2>3. td' = [t \in Tds |-> td'[t]]
      BY <1>5
    <2> QED
      BY <2>2, <2>3
  <1>13. ASSUME NEW i \in 1..n
         PROVE  /\ td[ts[i]].status = "unused" /\ td'[ts[i]].status = "off"
                /\ td'[ts[i]].next = IF i < n THEN ts[i + 1] ELSE Null
                /\ i < n => ~td'[ts[i]].ioc
    <2>1. ts[i] = k + i /\ k + i \in Tds /\ k + i \in (k + 1)..(k + n) /\ (i < n => i + 1 \in 1..n)
      BY <1>2, <1>7
    <2>2. (k + i = k + n <=> ~(i < n)) /\ (i < n => ts[i + 1] = k + i + 1)
      BY <1>2, <1>7, <2>1
    <2>3. PICK t \in Tds, r \in {td'[k + i]} : t = k + i
      BY <2>1
    <2>4. /\ r = [status |-> "off", next |-> IF t = k + n THEN Null ELSE t + 1,
                  ioc |-> t = k + n, cb |-> cb /\ t = k + n]
          /\ td[t].status = "unused"
      BY <1>11, <2>1, <2>3
    <2>5. r.status = "off" /\ r.next = (IF t = k + n THEN Null ELSE t + 1)
      BY <2>4
    <2>6. t # k + n => ~r.ioc
      BY <2>4
    <2>7. r.next = IF i < n THEN ts[i + 1] ELSE Null
      BY <2>2, <2>3, <2>5
    <2> QED
      BY <2>1, <2>2, <2>3, <2>4, <2>5, <2>6, <2>7
  <1>14. Allocated(n, k, ts)
    BY <1>1, <1>2, <1>6, <1>7, <1>8, <1>10, <1>12, <1>13 DEF Allocated
  <1> QED
    BY <1>5, <1>14

\* What a new transfer leaves of the queues and gives the client.
LEMMA SubmitKeepsQueues ==
    ASSUME Inv, NEW q \in Heads, NEW n \in 1..2, NEW cb \in BOOLEAN, Submit(q, n, cb)
    PROVE  /\ QueueTypes' /\ c' \in ClientType /\ c'.q = q
           /\ Owned' /\ Telling' /\ Working'
           /\ Prepared' /\ Distinct' /\ Activating' /\ Found' /\ Walking' /\ c'.tds # <<>>
           /\ c'.pc = IF qh[q] = "none" /\ tail # Null THEN "hw" ELSE Ready(cb)
  <1>1. /\ Running /\ c.pc = "idle" /\ qh[q] \in {"none", "ring"}
        /\ UNCHANGED <<tdns, overlay, told>>
        /\ qh' = [qh EXCEPT ![q] = "ring"]
    BY DEF Submit, Stage
  <1>2. Types
    BY TypesAre DEF Inv, TypeInv
  <1>3. PICK k, ts : Allocated(n, k, ts) /\ c'.tds = ts
    BY SubmitAllocates
  <1>4. n \in Nat /\ n > 0 /\ k \in Nat
    BY <1>3 DEF Allocated
  <1>5. PICK pc : pc = IF qh[q] = "none" /\ tail # Null THEN "hw" ELSE Ready(cb)
    OBVIOUS
  <1>6. /\ pc \in {"hw", "test", "drain"} /\ pc \in Stages
        /\ c' = [pc |-> pc, q |-> q, tds |-> c'.tds, cb |-> cb, at |-> Null]
    <2>1. pc \in {"hw", "test", "drain"}
      BY <1>5 DEF Ready
    <2> QED
      BY <1>5, <2>1 DEF Submit, Stages, AddStages
  <1>7. c' \in ClientType /\ c'.pc = pc /\ c'.pc \in {"hw", "test", "drain"} /\ c'.q = q /\ ts # <<>>
    <2>1. c'.tds \in Seq(Tds)
      BY <1>3 DEF Allocated
    <2>2. ts # <<>>
      BY <1>3, <1>4 DEF Allocated
    <2> QED
      BY <1>6, <2>1, <2>2 DEF ClientType
  <1>8. /\ \A r \in Heads : r # q => qh'[r] = qh[r]
        /\ qh'[q] = "ring" /\ qh[q] # "freed"
    BY <1>1, <1>2 DEF Types, RingTypes
  <1>9. QueueTypes'
    BY <1>1, <1>2, <1>3 DEF Types, QueueTypes, Allocated
  <1>10. \A t \in Used : t \in Tds /\ td'[t] = td[t] /\ t \notin ToSet(ts)
    <2>1. \A t \in Used : t \in Tds /\ t \in 1..k
      BY <1>3 DEF Allocated, Used
    <2>2. \A t \in 1..k : t \notin (k + 1)..(k + n)
      BY <1>4
    <2> QED
      BY <1>3, <2>1, <2>2 DEF Allocated
  <1>11. \A r \in Heads : /\ tdns[r] \in Seq(Tds) /\ ToSet(tdns[r]) \subseteq Used
                          /\ \A i \in DOMAIN tdns[r] : tdns[r][i] \in Used
    BY <1>2 DEF Inv, Owned, OwnQueue, Types, QueueTypes, ToSet
  <1>12. Used' = Used \cup ToSet(ts)
    <2>1. ASSUME NEW t \in ToSet(ts) PROVE t \in Used'
      <3>1. PICK i \in 1..n : t = ts[i] /\ t \in Tds
        BY <1>3, <2>1 DEF Allocated, ToSet
      <3>2. td'[t].status = "off"
        BY <1>3, <3>1 DEF Allocated
      <3> QED
        BY <3>1, <3>2 DEF Used
    <2>2. \A t \in Tds : t \notin ToSet(ts) => td'[t] = td[t]
      BY <1>3 DEF Allocated
    <2>3. ToSet(ts) \subseteq Tds /\ Used \subseteq Tds /\ Used' \subseteq Tds
      BY <1>3 DEF Allocated, ToSet, Used
    <2> QED
      BY <1>10, <2>1, <2>2, <2>3 DEF Used
  <1>13. Owned'
    <2>1. Counted'
      <3>1. k + n \in 0..MaxTds
        BY <1>3, <1>4, ConstantsAssumption DEF Allocated
      <3>2. PICK m : m = k + n
        OBVIOUS
      <3>3. Used' = 1..m
        <4>1. Used' = (1..k) \cup ((k + 1)..(k + n))
          BY <1>3, <1>12 DEF Allocated
        <4> QED
          BY <1>4, <3>2, <4>1
      <3> QED
        BY <3>1, <3>2, <3>3 DEF Counted
    <2>2. Apart'
      BY <1>1 DEF Inv, Owned, Apart
    <2>3. ASSUME NEW r \in Heads PROVE OwnQueue(r)'
      <3>1. OwnQueue(r)
        BY DEF Inv, Owned
      <3>2. Chained(r) => Chained(r)'
        BY <1>1, <1>10, <1>11 DEF Chained
      <3>3. (qh'[r] = "none" => qh[r] = "none") /\ (qh'[r] # "freed" => qh[r] # "freed")
        BY <1>8
      <3> QED
        BY <1>1, <1>12, <3>1, <3>2, <3>3 DEF OwnQueue
    <2> QED
      BY <2>1, <2>2, <2>3 DEF Owned
  <1>14. Telling'
    <2> SUFFICES ASSUME NEW t \in Tds
                 PROVE  /\ td'[t].status # "freed" => told[t] = "nothing"
                        /\ td'[t].status = "freed" /\ td'[t].cb => told[t] # "nothing"
                        /\ told[t] # "twice"
      BY <1>1 DEF Telling
    <2>1. Telling
      BY DEF Inv
    <2>2. CASE t \in ToSet(ts)
      <3>1. PICK i \in 1..n : t = ts[i]
        BY <1>3, <2>2 DEF Allocated, ToSet
      <3>2. td[t].status = "unused" /\ td'[t].status = "off"
        BY <1>3, <3>1 DEF Allocated
      <3> QED
        BY <2>1, <3>2 DEF Telling
    <2>3. CASE t \notin ToSet(ts)
      <3>1. td'[t] = td[t]
        BY <1>3, <2>3 DEF Allocated
      <3> QED
        BY <2>1, <3>1 DEF Telling
    <2> QED
      BY <2>2, <2>3
  <1>15. Working'
    <2> SUFFICES ASSUME NEW r \in Heads, qh'[r] # "freed" PROVE QueueWorks(r)'
      BY DEF Working
    <2>1. QueueWorks(r) /\ tdns[r] \in Seq(Tds) /\ overlay[r] \in OverlayType
      BY <1>2, <1>8 DEF Inv, Working, Types, QueueTypes
    <2>2. overlay[r].cur \in Tds \cup {Null}
      BY <2>1 DEF OverlayType
    <2>3. \A t \in Tds : td[t].status = "freed" => td'[t].status = "freed"
      <3>1. \A t \in Tds : td[t].status = "freed" => t \in Used
        BY DEF Used
      <3> QED
        BY <1>10, <3>1
    <2>4. \A t \in ToSet(tdns[r]) : td'[t].status = td[t].status
      BY <1>10, <1>11
    <2>5. qh'[r] = "ring" => qh[r] = "ring" \/ overlay[r].status = "done"
      <3>1. CASE qh[r] = "none"
        <4>1. tdns[r] = <<>>
          BY <3>1 DEF Inv, Owned, OwnQueue
        <4>2. PICK p \in 0..Len(tdns[r]) : Works(r, p)
          BY <2>1 DEF QueueWorks
        <4>3. ~(p < Len(tdns[r]))
          BY <4>1, <4>2
        <4> QED
          BY <4>2, <4>3 DEF Works
      <3> QED
        BY <1>1, <1>8, <3>1
    <2> QED
      BY <1>1, <2>1, <2>2, <2>3, <2>4, <2>5, QueueKeeps
  <1>16. Prepared'
    <2>1. \A i \in DOMAIN ts : td'[ts[i]].status = "off"
      BY <1>3 DEF Allocated
    <2>2. \A r \in Heads : ToSet(ts) \cap ToSet(tdns[r]) = {}
      BY <1>10, <1>11
    <2>3. \A i \in DOMAIN ts : td'[ts[i]].next = IF i < Len(ts) THEN ts[i + 1] ELSE Null
      BY <1>3 DEF Allocated
    <2> QED
      BY <1>1, <1>3, <2>1, <2>2, <2>3 DEF Prepared
  <1>17. Distinct'
    <2>1. \A i, j \in DOMAIN ts : i # j => ts[i] # ts[j]
      BY <1>3, <1>4 DEF Allocated
    <2>2. \A i \in DOMAIN ts : i < Len(ts) => ~td'[ts[i]].ioc
      BY <1>3 DEF Allocated
    <2> QED
      BY <1>3, <2>1, <2>2 DEF Distinct
  <1>18. Activating' /\ Found' /\ Walking'
    BY <1>7 DEF Activating, Found, Walking, Linked
  <1> QED
    BY <1>3, <1>5, <1>7, <1>9, <1>13, <1>14, <1>15, <1>16, <1>17, <1>18

\* The first queue head of all makes the ring; another one will go in behind the
\* tail, and the ring is not yet touched.
LEMMA SubmitKeepsRing ==
    ASSUME Inv, NEW q \in Heads, NEW n \in 1..2, NEW cb \in BOOLEAN, Submit(q, n, cb)
    PROVE  /\ RingTypes' /\ hw' \in ControllerType /\ qh'[q] = "ring"
           /\ Links' /\ Removed' /\ RingInv' /\ DoorInv' /\ HandlerInv' /\ ~OnFreed'
  <1>1. /\ Running /\ c.pc = "idle" /\ qh[q] \in {"none", "ring"} /\ q \notin gone
        /\ UNCHANGED <<was_cancelled, db_pending, tdns, usbsts, h, gone, bound>>
        /\ qh' = [qh EXCEPT ![q] = "ring"]
        /\ slips' = slips \cup (IF qh[q] = "none" /\ Removing /\ tail \in {h.prev, h.q}
                                THEN {"torn"} ELSE {})
    BY DEF Submit, Stage, ClientKeeps, removal, Slip
  <1>2. /\ qh[q] = "ring" => UNCHANGED <<tail, next, qhlptr, hw>>
        /\ qh[q] = "none" /\ tail = Null => AddFirst(q)
        /\ qh[q] = "none" /\ tail # Null => AddLink(q)
    BY DEF Submit, ring
  <1>3. Types /\ tail \in Heads \cup {Null} /\ Null \notin Heads /\ (tail # Null => qh[tail] # "none")
        /\ next \in [Heads -> Heads \cup {Null}] /\ qhlptr \in [Heads -> Heads \cup {Null}]
    BY TypesAre, HeadsAre DEF Inv, TypeInv, Links, Known, Types, RingTypes
  <1>4. /\ c'.q = q
        /\ qh[q] = "none" /\ tail # Null => c'.pc = "hw"
        /\ ~(qh[q] = "none" /\ tail # Null) => c'.pc \in {"test", "drain"}
    BY SubmitKeepsQueues DEF Ready
  <1>5. /\ ~Adding /\ (Adding' <=> qh[q] = "none" /\ tail # Null)
        /\ SameRemoving /\ (Removing' <=> Removing) /\ (Cancelling' <=> Cancelling)
        /\ Settled = InRing /\ Passable = InRing
    BY <1>1, <1>4, SameStages DEF Adding, AddStages, Removing, Cancelling, Settled, Passable
  <1>6. /\ qh' \in [Heads -> {"none", "ring", "pending", "freed"}] /\ qh'[q] = "ring"
        /\ \A r \in Heads : r # q => qh'[r] = qh[r]
        /\ qh[q] = "ring" => qh' = qh
    BY <1>1, <1>3 DEF Types, RingTypes
  <1>7. /\ InRing' = InRing \cup {q} /\ Pending' = Pending /\ q \notin Pending
        /\ qh[q] = "none" => q \notin InRing
        /\ InRing \subseteq Heads /\ Pending \subseteq Heads
    BY <1>1, <1>6 DEF InRing, Pending
  <1>8. /\ next' \in [Heads -> Heads \cup {Null}] /\ qhlptr' \in [Heads -> Heads \cup {Null}]
        /\ tail' \in Heads \cup {Null}
        /\ \A r \in Heads : r # q => next'[r] = next[r] /\ qhlptr'[r] = qhlptr[r]
        /\ qh[q] = "none" /\ tail = Null => tail' = q /\ next'[q] = q /\ qhlptr'[q] = q
        /\ qh[q] = "none" /\ tail # Null => tail' = tail /\ next' = next /\ qhlptr'[q] = qhlptr[tail]
    <2>1. CASE qh[q] = "ring"
      BY <1>2, <1>3, <2>1
    <2>2. CASE qh[q] = "none" /\ tail = Null
      BY <1>2, <1>3, <2>2 DEF AddFirst
    <2>3. CASE qh[q] = "none" /\ tail # Null
      BY <1>2, <1>3, <2>3 DEF AddLink
    <2> QED
      BY <1>1, <2>1, <2>2, <2>3
  <1>9. RingTypes'
    BY <1>1, <1>3, <1>6, <1>8 DEF Types, RingTypes
  <1>10. /\ hw.at # Null => hw' = hw
         /\ hw.at = Null => /\ hw' = [at |-> q, ahead |-> q, old |-> {}] /\ tail = Null
                            /\ \A r \in Heads : qh[r] = "none"
    <2>1. hw.at = Null => tail = Null /\ \A r \in Heads : qh[r] = "none"
      BY DEF Inv, Links
    <2>2. hw.at # Null => hw' = hw
      BY <1>1, <1>2 DEF AddFirst, AddLink
    <2>3. hw.at = Null => hw' = [at |-> q, ahead |-> q, old |-> {}]
      BY <1>2, <2>1 DEF AddFirst
    <2> QED
      BY <2>1, <2>2, <2>3
  <1>11. /\ hw' \in ControllerType
         /\ hw.at = Null => hw'.at = q /\ hw'.ahead = q /\ hw'.old = {}
    BY <1>3, <1>10 DEF Types, ControllerType
  <1>12. \A r \in Heads : qh[r] # "none" => qh'[r] # "none"
    BY <1>6
  <1>13. Links'
    <2>1. ASSUME NEW r \in Heads, qh'[r] # "none" PROVE qhlptr'[r] \in Heads /\ qh'[qhlptr'[r]] # "none"
      <3>1. \/ qhlptr'[r] = q
            \/ \E u \in Heads : qh[u] # "none" /\ qhlptr'[r] = qhlptr[u]
        <4>1. CASE r # q
          BY <1>6, <1>8, <2>1, <4>1
        <4>2. CASE r = q
          BY <1>1, <1>2, <1>3, <1>8, <4>2
        <4> QED
          BY <4>1, <4>2
      <3> QED
        BY <1>6, <1>12, <3>1 DEF Inv, Links, Known
    <2>2. ASSUME NEW r \in Heads, next'[r] # Null PROVE next'[r] \in Heads /\ qh'[next'[r]] # "none"
      <3>1. next'[r] = q \/ next'[r] = next[r]
        BY <1>1, <1>2, <1>8
      <3> QED
        BY <1>6, <1>12, <2>2, <3>1 DEF Inv, Links, Known
    <2>3. hw'.at \in Heads /\ qh'[hw'.at] # "none" /\ hw'.ahead \in Heads /\ qh'[hw'.ahead] # "none"
      BY <1>6, <1>10, <1>11, <1>12 DEF Inv, Links, Known
    <2>4. hw'.at # Null
      BY <1>3, <2>3
    <2>5. tail' = q \/ tail' = tail
      BY <1>1, <1>2, <1>8
    <2>6. tail' # Null => tail' \in Heads /\ qh'[tail'] # "none"
      BY <1>3, <1>6, <1>12, <2>5
    <2> QED
      BY <2>1, <2>2, <2>3, <2>4, <2>6 DEF Links, Known
  <1>14. Removed'
    BY <1>1, <1>7 DEF Inv, Removed
  <1>15. RingInv'
    <2>1. CASE qh[q] = "ring"
      <3>1. SameAdding /\ UNCHANGED <<tail, next, qhlptr, qh, was_cancelled>> /\ slips \subseteq slips'
        BY <1>1, <1>2, <1>5, <1>6, <2>1 DEF SameAdding
      <3> QED
        BY <1>5, <3>1, RingFrame DEF Inv
    <2>2. CASE qh[q] = "none"
      <3> SUFFICES ASSUME Clean({"emptied", "torn"})' PROVE Ringed'
        BY DEF RingInv
      <3>1. Ringed /\ (Removing => tail \notin {h.prev, h.q})
        BY <1>1, <2>2 DEF Clean, Inv, RingInv
      <3>2. LeadsBack'
        <4>1. \A r \in Pending : qhlptr'[r] = qhlptr[r]
          BY <1>7, <1>8
        <4> QED
          BY <1>1, <1>7, <3>1, <4>1 DEF Ringed, LeadsBack
      <3>3. CASE tail = Null
        <4>1. \A r \in Heads : qh[r] = "none"
          BY <1>3, <1>5, <1>7, <3>1, <3>3 DEF Ringed, TailIn
        <4>2. InRing = {} /\ Settled' = {q} /\ ~Adding' /\ ~Removing'
          <5>1. InRing = {}
            BY <4>1 DEF InRing
          <5>2. ~Removing
            BY <5>1 DEF Inv, HandlerInv
          <5> QED
            BY <1>5, <1>7, <3>3, <5>1, <5>2 DEF Settled
        <4>3. PICK L : L = [x \in {q} |-> q]
          OBVIOUS
        <4>4. L \in [{q} -> {q}] /\ L[q] = q
          BY <4>3
        <4>5. c'.pc \notin {"sw", "splice", "tail"} /\ h'.pc \notin {"unlink", "retail", "pend"}
          BY <1>4, <3>3, <4>2 DEF Removing
        <4>6. RingOf(L)'
          <5>1. Cyclic(L)' /\ Joins(L)' /\ Leaves(L)'
            BY <4>2, <4>4 DEF Cyclic, Joins, Leaves
          <5>2. Soft(L, q)' = q /\ Hard(L, q)' = q
            BY <4>4, <4>5 DEF Soft, Hard
          <5> QED
            BY <1>8, <2>2, <3>3, <4>2, <5>1, <5>2 DEF RingOf
        <4>7. TailIn'
          BY <1>8, <2>2, <3>3, <4>2 DEF TailIn
        <4> QED
          BY <3>2, <4>2, <4>4, <4>6, <4>7 DEF Ringed
      <3>4. CASE tail # Null
        <4>1. PICK L \in [Settled -> Settled] : RingOf(L)
          BY <3>1 DEF Ringed
        <4>2. Settled' = Settled /\ Adding' /\ q \notin Settled /\ tail \in Settled /\ tail # q
          <5>1. Adding' /\ Settled' = InRing
            BY <1>4, <1>5, <1>7, <2>2, <3>4 DEF Settled
          <5>2. tail \in Settled
            BY <3>1, <3>4 DEF Ringed, TailIn
          <5> QED
            BY <1>5, <1>7, <2>2, <5>1, <5>2
        <4>3. h.pc \in {"unlink", "retail", "pend"} => Removing
          BY DEF Removing
        <4>4. c.pc \notin {"sw", "splice", "tail"} /\ c'.pc = "hw"
          BY <1>1, <1>4, <2>2, <3>4
        <4>5. qhlptr[tail] = L[tail]
          <5>1. qhlptr[tail] = Hard(L, tail)
            BY <4>1, <4>2 DEF RingOf
          <5> QED
            BY <3>1, <4>3, <4>4, <5>1 DEF Hard
        <4>6. \A x : Soft(L, x)' = Soft(L, x) /\ Hard(L, x)' = Hard(L, x)
          BY <1>1, <4>4 DEF Soft, Hard
        <4>7. \A x \in Settled : next'[x] = Soft(L, x)' /\ qhlptr'[x] = Hard(L, x)'
          <5>1. \A x \in Settled : next[x] = Soft(L, x) /\ qhlptr[x] = Hard(L, x)
            BY <4>1 DEF RingOf
          <5>2. \A x \in Settled : next'[x] = next[x] /\ qhlptr'[x] = qhlptr[x]
            BY <1>5, <1>7, <1>8, <4>2
          <5> QED
            BY <4>6, <5>1, <5>2
        <4>8. Cyclic(L)'
          BY <4>1, <4>2 DEF RingOf, Cyclic
        <4>9. Joins(L)'
          BY <1>4, <1>7, <1>8, <2>2, <3>4, <4>2, <4>4, <4>5 DEF Joins
        <4>10. Leaves(L)'
          BY <1>1, <1>5, <1>8, <2>2, <3>1, <3>4, <4>1, <4>2 DEF RingOf, Leaves
        <4>11. RingOf(L)'
          BY <4>2, <4>7, <4>8, <4>9, <4>10 DEF RingOf
        <4>12. TailIn'
          BY <1>8, <2>2, <3>4, <4>2 DEF TailIn
        <4> QED
          BY <3>2, <4>1, <4>2, <4>11, <4>12 DEF Ringed
      <3> QED
        BY <3>3, <3>4
    <2> QED
      BY <1>1, <2>1, <2>2
  <1>16. DoorInv'
    <2>1. hw.at = Null => Pending = {}
      BY <1>10 DEF Pending
    <2>2. Answered' = Answered /\ (Clean({"emptied", "torn", "early"})' => Clean({"emptied", "torn", "early"}))
      BY <1>1 DEF Answered, Clean
    <2> QED
      BY <1>1, <1>7, <1>10, <2>1, <2>2 DEF Inv, DoorInv, Doorbells
  <1>17. HandlerInv'
    <2>1. HandlerInv
      BY DEF Inv
    <2>2. /\ Clean({"emptied", "torn"})' => Clean({"emptied", "torn"})
          /\ Clean({"crossed"})' => Clean({"crossed"})
      BY <1>1 DEF Clean
    <2>3. InRing \subseteq Passable'
      BY <1>4, <1>5, <1>7 DEF Passable, Settled
    <2>4. Cancelling => c'.q # h.q
      BY <1>1, <1>4, <2>1 DEF HandlerInv
    <2> QED
      BY <1>1, <1>5, <1>7, <2>1, <2>2, <2>3, <2>4 DEF HandlerInv
  <1>18. ~OnFreed'
    <2>1. {hw.at, hw.ahead} \ {Null} \subseteq Heads
      BY <1>3 DEF Types, ControllerType
    <2>2. \A r \in Heads : qh'[r] = "freed" => qh[r] = "freed"
      BY <1>6
    <2>3. hw.at # Null => ~OnFreed'
      BY <1>1, <1>10, <2>1, <2>2 DEF Running, HoldsFreed, OnFreed
    <2>4. hw.at = Null => ~OnFreed'
      BY <1>6, <1>11 DEF OnFreed
    <2> QED
      BY <2>3, <2>4
  <1> QED
    BY <1>6, <1>9, <1>11, <1>13, <1>14, <1>15, <1>16, <1>17, <1>18

LEMMA SubmitKeeps ==
    ASSUME Inv, NEW q \in Heads, NEW n \in 1..2, NEW cb \in BOOLEAN, Submit(q, n, cb)
    PROVE  Inv'
  <1>1. Running /\ UNCHANGED <<usbsts, usbintr, doorbell, h, gone, bound, fault>>
    BY DEF Submit, Stage, ClientKeeps
  <1>2. /\ QueueTypes' /\ c' \in ClientType /\ c'.q = q
        /\ Owned' /\ Telling' /\ Working'
        /\ Prepared' /\ Distinct' /\ Activating' /\ Found' /\ Walking' /\ c'.tds # <<>>
    BY SubmitKeepsQueues
  <1>3. /\ RingTypes' /\ hw' \in ControllerType /\ qh'[q] = "ring"
        /\ Links' /\ Removed' /\ RingInv' /\ DoorInv' /\ HandlerInv' /\ ~OnFreed'
    BY SubmitKeepsRing
  <1>4. Types
    BY TypesAre DEF Inv, TypeInv
  <1>5. TypeInv'
    BY <1>1, <1>2, <1>3, <1>4, TypesAre DEF Inv, TypeInv, Types, RegTypes
  <1>6. ClientInv'
    <2>1. Serving'
      BY <1>2, <1>3 DEF Serving, InRing, Known
    <2> QED
      BY <1>2, <2>1 DEF ClientInv
  <1>7. ControllerSafe' /\ MemorySafe'
    BY <1>1, <1>2, <1>3, <1>5, HoldsOnlyNext, MemoryFrame DEF TypeInv, ControllerSafe
  <1> QED
    BY <1>2, <1>3, <1>5, <1>6, <1>7 DEF Inv
-----------------------------------------------------------------------------
(* The theorems.                                                           *)

LEMMA NextKeeps ==
    ASSUME Inv, [Next]_vars
    PROVE  Inv'
  <1>1. ASSUME NEW q \in Heads, NEW n \in 1..2, NEW cb \in BOOLEAN, Submit(q, n, cb) PROVE Inv'
    BY <1>1, SubmitKeeps
  <1>2. ASSUME NEW q \in Heads, HwFetch(q) PROVE Inv'
    BY <1>2, HwFetchKeeps
  <1>3. ASSUME NEW q \in Heads, HwDone(q) PROVE Inv'
    BY <1>3, HwDoneKeeps
  <1>4. ASSUME NEW q \in Heads, HwError(q) PROVE Inv'
    BY <1>4, HwErrorKeeps
  <1>5. ASSUME NEW q \in Heads, Unplug(q) PROVE Inv'
    BY <1>5, UnplugKeeps
  <1>6. CASE HwAdvance
    BY <1>6, HwAdvanceKeeps
  <1>7. CASE Client
    <2>1. CASE Drain
      BY <2>1, DrainKeeps
    <2>2. CASE TestQueue
      BY <2>2, TestQueueKeeps
    <2>3. CASE LockQueue
      BY <2>3, LockQueueKeeps
    <2>4. CASE LinkQueue
      BY <2>4, LinkQueueKeeps
    <2>5. CASE Activate
      BY <2>5, ActivateKeeps
    <2>6. CASE ReadLink
      BY <2>6, ReadLinkKeeps
    <2>7. CASE Wait
      BY <2>7, WaitKeeps
    <2>8. CASE ClientWalk
      BY <2>8, ClientWalkKeeps
    <2>9. CASE UseFreed
      BY <2>9, UseFreedKeeps
    <2>10. CASE AddHw
      BY <2>10, AddHwKeeps
    <2>11. CASE AddSw
      BY <2>11, AddSwKeeps
    <2>12. CASE AddSplice
      BY <2>12, AddSpliceKeeps
    <2>13. CASE AddTail
      BY <2>13, AddTailKeeps
    <2> QED
      BY <1>7, <2>1, <2>2, <2>3, <2>4, <2>5, <2>6, <2>7, <2>8, <2>9, <2>10, <2>11, <2>12, <2>13 DEF Client
  <1>8. CASE Handler
    <2>1. CASE Interrupt
      BY <2>1, InterruptKeeps
    <2>2. CASE HandlerWalk
      BY <2>2, HandlerWalkKeeps
    <2>3. ASSUME NEW q \in Heads, Cancel(q) PROVE Inv'
      BY <2>3, CancelKeeps
    <2>4. CASE PortsDone
      BY <2>4, PortsDoneKeeps
    <2>5. CASE CheckDoorbell
      BY <2>5, CheckDoorbellKeeps
    <2>6. CASE Clear
      BY <2>6, ClearKeeps
    <2>7. CASE Halt
      BY <2>7, HaltKeeps
    <2>8. CASE Search
      BY <2>8, SearchKeeps
    <2>9. CASE Cut
      BY <2>9, CutKeeps
    <2>10. CASE Unlink
      BY <2>10, UnlinkKeeps
    <2>11. CASE Retail
      BY <2>11, RetailKeeps
    <2>12. CASE Pend
      BY <2>12, PendKeeps
    <2> QED
      BY <1>8, <2>1, <2>2, <2>3, <2>4, <2>5, <2>6, <2>7, <2>8, <2>9, <2>10, <2>11, <2>12 DEF Handler
  <1>9. CASE UNCHANGED vars
    BY <1>9, UnchangedKeeps
  <1> QED
    BY <1>1, <1>2, <1>3, <1>4, <1>5, <1>6, <1>7, <1>8, <1>9 DEF Next

THEOREM Invariance == Spec => []Inv
  <1>1. Init => Inv
    BY InitEstablishes
  <1>2. Inv /\ [Next]_vars => Inv'
    BY NextKeeps
  <1> QED
    BY <1>1, <1>2, PTL DEF Spec

\* The schedule is sound for the controller, however its steps and the single
\* stores of ehci_add_qhn_async and ehci_del_qhn_async interleave: the two rings
\* are the same between changes, a queue head that was removed leads back, and
\* check_doorbell destroys none that the controller holds.  The exceptions are in
\* RingsAgree and ControllerSafe: a ring that was emptied, one that both threads
\* changed next to the same queue head, and a removal before an earlier answer to
\* the doorbell was handled.
THEOREM ScheduleIsSafe == Spec => []ScheduleSafe
  <1>1. Inv => ScheduleSafe
    <2> SUFFICES ASSUME Inv PROVE ScheduleSafe
      OBVIOUS
    <2>1. RingsAgree
      <3> SUFFICES ASSUME Clean({"emptied", "torn"}) PROVE RingsAgree
        BY DEF RingsAgree
      <3>1. Ringed /\ ToSet(db_pending) = Pending
        BY DEF Inv, RingInv, Removed
      <3>2. PICK L \in [Settled -> Settled] : RingOf(L)
        BY <3>1 DEF Ringed
      <3>3. ASSUME Still
            PROVE  /\ \A q \in InRing : qhlptr[q] = next[q] /\ next[q] \in InRing
                   /\ \A q \in InRing : \E p \in InRing : next[p] = q
                   /\ tail \in InRing \/ InRing = {}
        <4>1. Settled = InRing
          BY <3>3 DEF Still, Settled
        <4>2. c.pc \notin {"sw", "splice", "tail"} /\ h.pc \notin {"unlink", "retail", "pend"}
          BY <3>3 DEF Still, Adding, AddStages, Removing
        <4>3. \A q \in InRing : next[q] = L[q] /\ qhlptr[q] = L[q] /\ L[q] \in InRing
          BY <3>2, <4>1, <4>2 DEF RingOf, Soft, Hard
        <4>4. \A q \in InRing : \E p \in InRing : L[p] = q
          BY <3>2, <4>1 DEF RingOf, Cyclic
        <4>5. tail \in InRing \/ InRing = {}
          BY <3>1, <4>1 DEF Ringed, TailIn, InRing
        <4> QED
          BY <4>3, <4>4, <4>5
      <3>4. \A q \in InRing : qhlptr[q] \in InRing
        BY <3>1, RingLinks
      <3>5. \A q \in Heads : qh[q] = "pending" => qhlptr[q] \in InRing \cup ToSet(db_pending)
        BY <3>1 DEF Ringed, LeadsBack, Pending
      <3> QED
        BY <3>3, <3>4, <3>5 DEF RingsAgree
    <2> QED
      BY <2>1 DEF Inv, TypeInv, ScheduleSafe
  <1> QED
    BY <1>1, Invariance, PTL

\* Neither ehci_schedule_xact nor ehci_handle_irq uses a queue head or a TD that
\* the other has freed, or a link that is null, as long as neither took away what
\* the other was working on, the ring was not emptied, and they did not both
\* change it at one place.  That the freed TD which ehci_async_complete reads
\* again still has its link is up to the allocator.
THEOREM MemoryIsSafe == Spec => []MemorySafe
  <1>1. Inv => MemorySafe
    BY DEF Inv
  <1> QED
    BY <1>1, Invariance, PTL

\* The callback of a transfer is called once, when its TD comes off the queue,
\* and the controller finishes the TDs of a queue in the order in which
\* qtd_enqueue linked them.
THEOREM TransfersAreRight == Spec => []TransfersRight
  <1>1. Inv => TransfersRight
    <2> SUFFICES ASSUME Inv PROVE TransfersRight
      OBVIOUS
    <2>1. ToldOnce
      BY DEF Inv, Telling, ToldOnce
    <2>2. ASSUME NEW q \in InRing, NEW i \in DOMAIN tdns[q], NEW j \in DOMAIN tdns[q],
                 i < j, td[tdns[q][j]].status \in {"done", "error"}
          PROVE  td[tdns[q][i]].status = "done"
      <3>1. q \in Heads /\ qh[q] # "freed" /\ tdns[q] \in Seq(Tds)
        BY DEF InRing, Inv, TypeInv, TypeOK
      <3>2. PICK p \in 0..Len(tdns[q]) : Works(q, p)
        BY <3>1 DEF Inv, Working, QueueWorks
      <3>3. PICK m : m = IF overlay[q].status = "error" THEN p + 1 ELSE p
        OBVIOUS
      <3>4. ToDo(q, m) /\ m \in Nat
        <4>1. overlay[q].status \in {"done", "active", "error"}
          BY <3>1, TypesAre DEF Inv, TypeInv, Types, QueueTypes, OverlayType
        <4> QED
          BY <3>2, <3>3, <4>1 DEF Works
      <3>5. ~(j > m)
        BY <2>2, <3>4 DEF ToDo
      <3>6. i \in 1..p
        BY <2>2, <3>1, <3>2, <3>3, <3>4, <3>5
      <3> QED
        BY <3>2, <3>6 DEF Works
    <2>3. InOrder
      BY <2>2 DEF InOrder
    <2> QED
      BY <2>1, <2>3 DEF TransfersRight
  <1> QED
    BY <1>1, Invariance, PTL
=============================================================================
