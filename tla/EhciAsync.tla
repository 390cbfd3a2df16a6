----------------------------- MODULE EhciAsync ------------------------------
(***************************************************************************)
(* libusbdrivers: the asynchronous schedule of the EHCI driver.            *)
(*                                                                         *)
(* Queue heads (QH), one per control or bulk endpoint, form a ring that    *)
(* the driver keeps twice, in its own list and in the links the controller *)
(* follows.  Each has a queue of transfer descriptors (TD), kept twice     *)
(* too, and an overlay into which the controller copies the TD it works    *)
(* on.  A client thread submits transfers, the thread that handles         *)
(* interrupts takes finished ones off and cancels those of devices that    *)
(* were unplugged, and the controller runs beside both.                    *)
(*                                                                         *)
(* A device may be unplugged at any time, in the middle of a call on its   *)
(* endpoint too, but no call on it starts after that: this is up to the    *)
(* class drivers.  A freed TD keeps its link until the call that freed it  *)
(* has ended, which is up to the allocator: see Reread.                    *)
(***************************************************************************)
EXTENDS Naturals, Sequences, SequencesExt, FiniteSetsExt

CONSTANTS
    NHeads,      \* queue heads
    MaxTds,      \* TDs ever allocated; none is reused
    MaxErrors, MaxTimeouts,
    Instances    \* endpoints that are in use at first and that may be used,
                 \* TDs and unplugs, of each instance to check

ASSUME ConstantsAssumption ==
    /\ NHeads \in Nat \ {0} /\ MaxTds \in Nat /\ MaxErrors \in Nat /\ MaxTimeouts \in Nat
    /\ \A b \in Instances : b.inUse \in 0..b.heads /\ b.heads \in 1..NHeads
                          /\ b.tds \in 0..MaxTds /\ b.unplugs \in Nat

VARIABLES
    tail, next,     \* alist_tail and the driver's links
    qhlptr,         \* the controller's links
    qh,             \* what became of each queue head
    was_cancelled,
    db_pending,     \* queue heads to destroy, in order
    tdns,           \* the driver's queue of each queue head
    td,             \* status, link, IOC bit and callback of each TD
    overlay,        \* td_cur, td_overlay.next and status of each queue head
    usbsts, usbintr, doorbell,
    hw,             \* external: the queue head the controller is at, and the
                    \* one it has read ahead, and those removed at its last answer
    c, h,           \* the client thread and the interrupt thread
    told,           \* what the callback of a TD was told
    gone,           \* endpoints of unplugged devices
    bound,          \* the instance
    slips, fault    \* history: what went wrong, and the memory error it led to

ring == <<tail, next, qhlptr>>
removal == <<was_cancelled, db_pending>>
queue == <<tdns, td, overlay, told>>
regs == <<usbsts, usbintr, doorbell>>
history == <<slips, fault>>
vars == <<ring, qh, removal, queue, regs, hw, c, h, gone, bound, history>>

Null == 0                       \* no queue head, no TD; TDLP_INVALID
Heads == 1..NHeads
Tds == 1..MaxTds
Used == {t \in Tds : td[t].status # "unused"}
AddStages == {"hw", "sw", "splice", "tail"}
Stages == AddStages \cup
    {"idle", "drain", "test", "lock", "link", "activate", "read", "wait", "walk"}
Adding == c.pc \in AddStages                          \* in ehci_add_qhn_async
Removing == h.pc \in {"cut", "unlink", "retail", "pend"} \* past its search

Init ==
    /\ bound \in Instances
    /\ LET k == bound.inUse \* these are idle
       IN  /\ tail = k
           /\ next = [q \in Heads |-> IF q > k THEN Null ELSE IF q = k THEN 1 ELSE q + 1]
           /\ qh = [q \in Heads |-> IF q > k THEN "none" ELSE "ring"]
           /\ hw = [at |-> Min({k, 1}), ahead |-> IF k = 0 THEN Null ELSE next[1], old |-> {}]
    /\ qhlptr = next
    /\ was_cancelled = [q \in Heads |-> 0] /\ db_pending = <<>>
    /\ tdns = [q \in Heads |-> <<>>]
    /\ td = [t \in Tds |-> [status |-> "unused", next |-> Null, ioc |-> FALSE, cb |-> FALSE]]
    /\ overlay = [q \in Heads |-> [cur |-> Null, next |-> Null, status |-> "done"]]
    /\ usbsts = {} /\ usbintr = TRUE /\ doorbell = FALSE
    /\ c = [pc |-> "idle", q |-> Null, tds |-> <<>>, cb |-> FALSE, at |-> Null]
    /\ h = [pc |-> "idle", q |-> Null, prev |-> Null, td |-> Null, sts |-> {}, rang |-> FALSE]
    /\ told = [t \in Tds |-> "nothing"]
    /\ gone = {} /\ slips = {} /\ fault = "none"

\* The controller holds a queue head, or works on a TD, that was freed.
HoldsFreed ==
    \E q \in {hw.at, hw.ahead} \ {Null} :
        \/ qh[q] = "freed"
        \/ overlay[q].status = "active" /\ td[overlay[q].cur].status = "freed"

Running == fault = "none" /\ ~HoldsFreed
Slip(what) == slips' = slips \cup what
NoSlip == UNCHANGED history
Fault(what) == fault' = what /\ UNCHANGED slips
-----------------------------------------------------------------------------
(* External: the controller.  It goes round the ring with one link read    *)
(* ahead, and copies the next TD of a queue when it is active, together    *)
(* with the link that TD has then.  It answers the doorbell when it moves  *)
(* on; it may then still be on a queue head that was removed, but not on   *)
(* one that was already out of the ring at the answer before.              *)

HwKeeps == UNCHANGED <<ring, qh, removal, tdns, told, usbintr, c, h, gone, bound>>

Fetchable(q) ==
    overlay[q].status = "done" /\ overlay[q].next # Null /\ td[overlay[q].next].status = "active"

HwAdvance ==
    /\ Running /\ hw.at # Null /\ ~Fetchable(hw.at)
    /\ LET ahead == qhlptr[hw.ahead]
           answer == doorbell /\ {hw.ahead, ahead} \cap hw.old = {}
       IN  /\ hw' = [at |-> hw.ahead, ahead |-> ahead,
                     old |-> IF answer THEN ToSet(db_pending) ELSE hw.old]
           /\ usbsts' = usbsts \cup (IF answer THEN {"adv"} ELSE {})
           /\ doorbell' = (doorbell /\ ~answer)
    /\ UNCHANGED <<td, overlay, history>> /\ HwKeeps

HwFetch(q) ==
    /\ Running /\ hw.at = q /\ Fetchable(q)
    /\ LET t == overlay[q].next
       IN  overlay' = [overlay EXCEPT ![q] = [cur |-> t, next |-> td[t].next, status |-> "active"]]
    /\ UNCHANGED <<td, usbsts, doorbell, hw, history>> /\ HwKeeps

HwFinish(q, status) ==
    /\ Running /\ hw.at = q /\ overlay[q].status = "active"
    /\ overlay' = [overlay EXCEPT ![q].status = status]
    /\ td' = [td EXCEPT ![overlay[q].cur].status = status]
    /\ UNCHANGED <<doorbell, hw, fault>> /\ HwKeeps

HwDone(q) ==
    /\ HwFinish(q, "done")
    /\ usbsts' = usbsts \cup (IF td[overlay[q].cur].ioc THEN {"usb"} ELSE {})
    /\ UNCHANGED slips

\* The queue is halted, and nothing in the driver starts it again.
HwError(q) ==
    /\ Cardinality({t \in Tds : td[t].status = "error"}) < MaxErrors
    /\ HwFinish(q, "error")
    /\ Slip({"error"}) /\ usbsts' = usbsts \cup {"err"}

Unplug(q) ==
    /\ Running /\ qh[q] = "ring" /\ q \notin gone /\ Cardinality(gone) < bound.unplugs
    /\ gone' = gone \cup {q}
    /\ usbsts' = usbsts \cup {"port"}
    /\ UNCHANGED <<ring, qh, removal, queue, usbintr, doorbell, hw, c, h, bound, history>>
-----------------------------------------------------------------------------
(* ehci_async_complete.                                                    *)

Success(t) == td[t].status = "done"

\* The TDs that come off: up to the last IOC one of the finished ones in front.
Taken(q) ==
    LET s == tdns[q]
        n == Max({0} \cup {i \in DOMAIN s : td[s[i]].ioc /\ \A j \in 1..i : Success(s[j])})
    IN  SubSeq(s, 1, n)

Callback(t, what) == IF ~td[t].cb THEN told[t] ELSE IF told[t] = "nothing" THEN what ELSE "twice"
Tell(ts, what) == told' = [t \in Tds |-> IF t \in ts THEN Callback(t, what) ELSE told[t]]
Free(ts) == td' = [t \in Tds |-> IF t \in ts THEN [td[t] EXCEPT !.status = "freed"] ELSE td[t]]

\* Mutant: the controller is not sent on.
MutTake(q, taken) ==
    /\ tdns' = [tdns EXCEPT ![q] = SubSeq(@, Len(taken) + 1, Len(@))]
    /\ Tell(ToSet(taken), "success")
    /\ Free(ToSet(taken))
    /\ UNCHANGED overlay

\* One queue head, under its lock (which only the client holds for more than
\* one step).  The controller may have stopped at the last TD that comes off
\* when there was nothing behind it yet: then it is sent on.
Take(q, taken) ==
    LET rest == SubSeq(tdns[q], Len(taken) + 1, Len(tdns[q]))
    IN  /\ tdns' = [tdns EXCEPT ![q] = rest]
        /\ Tell(ToSet(taken), "success")
        /\ Free(ToSet(taken))
        /\ overlay' = IF taken # <<>> /\ rest # <<>> /\ overlay[q].cur = Last(taken)
                         /\ overlay[q].next = Null
                      THEN [overlay EXCEPT ![q].next = Head(rest)]
                      ELSE overlay

\* The loop goes on from the link of the last TD that it has just freed.
Reread(taken) == IF taken = <<>> THEN {} ELSE {"reread"}

\* Mutant: the handler does not take the lock.
MutUnlocked(q) == TRUE

Unlocked(q) == ~(c.pc = "link" /\ c.q = q)

\* The client is between its test of the queue and the lock, or still reads the
\* TDs it has put there.
Crossing(q, taken) ==
    IF /\ c.q = q
       /\ \/ c.pc = "lock" /\ Len(taken) = Len(tdns[q])
          \/ c.pc \in {"activate", "read", "wait"} /\ ToSet(taken) \cap ToSet(c.tds) # {}
    THEN {"crossed"} ELSE {}

\* A thread that walks the ring is at q.  A queue head that was removed has no
\* successor, and one that was destroyed is not there.
Lost(q) == q = Null \/ qh[q] = "freed"
WalkEnds(q) == next[q] = tail
-----------------------------------------------------------------------------
(* The client: ehci_schedule_xact for a control or bulk endpoint.          *)

ClientKeeps == UNCHANGED <<removal, doorbell, h, gone, bound>>
Stage(pc) == Running /\ c.pc = pc

\* The first stage behind ehci_add_qhn_async
Ready(cb) == IF cb THEN "test" ELSE "drain"

\* The first queue head of all leads to itself, and ehci_schedule_async starts the
\* controller.  This is one step: no other queue head is in use, so there is
\* nothing yet that the controller or the handler would look at.
AddFirst(q) ==
    /\ tail' = q
    /\ next' = [next EXCEPT ![q] = q] /\ qhlptr' = [qhlptr EXCEPT ![q] = q]
    /\ hw' = IF hw.at = Null THEN [at |-> q, ahead |-> q, old |-> {}] ELSE hw

\* The others start with the link of the tail.
AddLink(q) ==
    /\ qhlptr' = [qhlptr EXCEPT ![q] = qhlptr[tail]]
    /\ UNCHANGED <<tail, next, hw>>

\* qhn_alloc and the beginning of ehci_add_qhn_async on first use, and qtd_alloc
\* for n TDs, the last of which has the IOC bit and the callback.
Submit(q, n, cb) ==
    LET first == Cardinality(Used) + 1
        ts == [i \in 1..n |-> first + i - 1]
        new == qh[q] = "none"
    IN  /\ Stage("idle") /\ qh[q] \in {"none", "ring"} /\ q \notin gone
        /\ q <= bound.heads /\ first + n - 1 <= bound.tds
        /\ ~(new /\ tail # Null /\ qh[tail] = "freed")
        /\ IF ~new THEN UNCHANGED <<ring, hw>> ELSE IF tail = Null THEN AddFirst(q) ELSE AddLink(q)
        /\ qh' = [qh EXCEPT ![q] = "ring"]
        /\ td' = [t \in Tds |-> IF t \notin ToSet(ts) THEN td[t]
                                ELSE [status |-> "off", next |-> IF t = Last(ts) THEN Null ELSE t + 1,
                                      ioc |-> t = Last(ts), cb |-> cb /\ t = Last(ts)]]
        /\ c' = [pc |-> IF new /\ tail # Null THEN "hw" ELSE Ready(cb),
                 q |-> q, tds |-> ts, cb |-> cb, at |-> Null]
        /\ Slip(IF new /\ Removing /\ tail \in {h.prev, h.q} THEN {"torn"} ELSE {})
        /\ UNCHANGED <<tdns, overlay, told, usbsts, usbintr, fault>> /\ ClientKeeps

\* The client follows a pointer to a queue head that was destroyed, or none.
UseFreed ==
    /\ Running
    /\ \/ \E q \in Heads : Stage("idle") /\ qh[q] = "none" /\ tail # Null /\ qh[tail] = "freed"
       \/ c.pc \in {"hw", "sw", "splice"} /\ (Lost(tail) \/ qh[c.q] = "freed")
       \/ c.pc \in {"drain", "test", "lock", "link"} /\ qh[c.q] = "freed"
    /\ Fault("head")
    /\ UNCHANGED <<ring, qh, queue, usbsts, usbintr, hw, c>> /\ ClientKeeps

\* The other stores of ehci_add_qhn_async, one by one.
AddStage(pc) ==
    /\ Stage(pc) /\ (pc # "tail" => ~Lost(tail) /\ qh[c.q] # "freed")
    /\ UNCHANGED <<qh, queue, usbsts, usbintr, hw, history>> /\ ClientKeeps

AddHw ==
    /\ AddStage("hw")
    /\ qhlptr' = [qhlptr EXCEPT ![tail] = c.q]
    /\ c' = [c EXCEPT !.pc = "sw"]
    /\ UNCHANGED <<tail, next>>

AddSw ==
    /\ AddStage("sw")
    /\ next' = [next EXCEPT ![c.q] = next[tail]]
    /\ c' = [c EXCEPT !.pc = "splice"]
    /\ UNCHANGED <<tail, qhlptr>>

AddSplice ==
    /\ AddStage("splice")
    /\ next' = [next EXCEPT ![tail] = c.q]
    /\ c' = [c EXCEPT !.pc = "tail"]
    /\ UNCHANGED <<tail, qhlptr>>

AddTail ==
    /\ AddStage("tail")
    /\ tail' = c.q
    /\ c' = [c EXCEPT !.pc = Ready(c.cb)]
    /\ UNCHANGED <<next, qhlptr>>

\* A blocking call waits until the queue is empty and turns off the interrupt.
Drain ==
    /\ Stage("drain") /\ qh[c.q] # "freed" /\ tdns[c.q] = <<>>
    /\ usbintr' = FALSE
    /\ c' = [c EXCEPT !.pc = "test"]
    /\ UNCHANGED <<ring, qh, queue, usbsts, hw, history>> /\ ClientKeeps

\* qtd_enqueue tests the queue without its lock.
TestQueue ==
    /\ Stage("test") /\ qh[c.q] # "freed"
    /\ IF tdns[c.q] = <<>>
       THEN /\ overlay' = [overlay EXCEPT ![c.q].next = Head(c.tds)]
            /\ tdns' = [tdns EXCEPT ![c.q] = c.tds]
            /\ c' = [c EXCEPT !.pc = "activate"]
       ELSE c' = [c EXCEPT !.pc = "lock"] /\ UNCHANGED <<overlay, tdns>>
    /\ UNCHANGED <<ring, qh, td, told, usbsts, usbintr, hw, history>> /\ ClientKeeps

\* Mutant: the controller is pointed at the new TDs in any case.
MutLockQueue ==
    /\ Stage("lock") /\ qh[c.q] # "freed" /\ tdns[c.q] # <<>>
    /\ overlay' = [overlay EXCEPT ![c.q].next = Head(c.tds)]
    /\ c' = [c EXCEPT !.pc = "link"]
    /\ UNCHANGED <<ring, qh, tdns, td, told, usbsts, usbintr, hw, history>> /\ ClientKeeps

\* It takes the lock and finds the last TD, of which there may be none now.
LockQueue ==
    /\ Stage("lock") /\ qh[c.q] # "freed"
    /\ IF tdns[c.q] = <<>>
       THEN Fault("emptied") /\ UNCHANGED <<overlay, c>>
       ELSE /\ overlay' = IF overlay[c.q].cur = Last(tdns[c.q]) /\ overlay[c.q].next = Null
                          THEN [overlay EXCEPT ![c.q].next = Head(c.tds)] ELSE overlay
            /\ c' = [c EXCEPT !.pc = "link"]
            /\ NoSlip
    /\ UNCHANGED <<ring, qh, tdns, td, told, usbsts, usbintr, hw>> /\ ClientKeeps

\* It links the new TDs behind the last one, and unlocks.
LinkQueue ==
    /\ Stage("link") /\ qh[c.q] # "freed"
    /\ IF tdns[c.q] = <<>>
       THEN Fault("link") /\ UNCHANGED <<tdns, td, c>>
       ELSE /\ td' = [td EXCEPT ![Last(tdns[c.q])].next = Head(c.tds)]
            /\ tdns' = [tdns EXCEPT ![c.q] = @ \o c.tds]
            /\ c' = [c EXCEPT !.pc = "activate"]
            /\ NoSlip
    /\ UNCHANGED <<ring, qh, overlay, told, usbsts, usbintr, hw>> /\ ClientKeeps

\* It activates the TDs in order, reading the link of each after that.
Activate ==
    /\ Stage("activate")
    /\ IF td[Last(c.tds)].status = "freed" THEN Fault("activate") /\ UNCHANGED <<td, c>>
       ELSE LET t == SelectInSeq(c.tds, LAMBDA x : td[x].status = "off")
            IN  /\ td' = [td EXCEPT ![c.tds[t]].status = "active"]
                /\ c' = [c EXCEPT !.pc = IF t = Len(c.tds) THEN "read" ELSE "activate"]
                /\ NoSlip
    /\ UNCHANGED <<ring, qh, tdns, overlay, told, usbsts, usbintr, hw>> /\ ClientKeeps

ReadLink ==
    /\ Stage("read")
    /\ IF td[Last(c.tds)].status = "freed" THEN Fault("activate") /\ UNCHANGED c
       ELSE c' = [c EXCEPT !.pc = IF c.cb THEN "idle" ELSE "wait"] /\ NoSlip
    /\ UNCHANGED <<ring, qh, queue, usbsts, usbintr, hw>> /\ ClientKeeps

\* ehci_wait_for_completion polls the TDs, for some time.
Wait ==
    /\ Stage("wait")
    /\ LET status == {td[t].status : t \in ToSet(c.tds)}
       IN  \/ "freed" \in status /\ Fault("polled") /\ UNCHANGED c
          \/ /\ "freed" \notin status
             /\ status = {"done"} \/ MaxTimeouts > 0
             /\ NoSlip
             /\ c' = [c EXCEPT !.pc = "walk", !.at = tail]
    /\ UNCHANGED <<ring, qh, queue, usbsts, usbintr, hw>> /\ ClientKeeps

\* A blocking call ends with ehci_async_complete and turns the interrupt on.
ClientWalk ==
    /\ Stage("walk")
    /\ IF Lost(c.at) THEN Fault("walk") /\ UNCHANGED <<queue, usbintr, c>>
       ELSE /\ Unlocked(c.at) /\ Take(c.at, Taken(c.at))
            /\ IF WalkEnds(c.at) THEN c' = [c EXCEPT !.pc = "idle"] /\ usbintr' = TRUE
               ELSE c' = [c EXCEPT !.at = next[c.at]] /\ UNCHANGED usbintr
            /\ Slip(Reread(Taken(c.at)) \cup
                    (IF h.pc = "halt" /\ h.td \in ToSet(Taken(c.at)) THEN {"crossed"} ELSE {}))
            /\ UNCHANGED fault
    /\ UNCHANGED <<ring, qh, usbsts, hw>> /\ ClientKeeps
-----------------------------------------------------------------------------
(* The interrupt thread: ehci_handle_irq.                                  *)

At(pc) == Running /\ h.pc = pc
HandlerKeeps == UNCHANGED <<usbintr, hw, c, gone, bound>>

\* The status is read whatever interrupt is enabled.
Interrupt ==
    /\ At("idle")
    /\ \/ "usb" \in usbsts /\ usbintr
       \/ {"err", "port", "adv"} \cap usbsts # {}
    /\ h' = [h EXCEPT !.pc = IF "usb" \in usbsts /\ tail # Null THEN "walk" ELSE "port",
                      !.q = tail, !.sts = usbsts]
    /\ UNCHANGED <<ring, qh, removal, queue, usbsts, doorbell, history>> /\ HandlerKeeps

HandlerWalk ==
    /\ At("walk")
    /\ IF Lost(h.q) THEN Fault("walk") /\ UNCHANGED <<queue, h>>
       ELSE /\ Unlocked(h.q) /\ Take(h.q, Taken(h.q))
            /\ h' = IF WalkEnds(h.q) THEN [h EXCEPT !.pc = "port"] ELSE [h EXCEPT !.q = next[h.q]]
            /\ Slip(Crossing(h.q, Taken(h.q)) \cup Reread(Taken(h.q))) /\ UNCHANGED fault
    /\ UNCHANGED <<ring, qh, removal, usbsts, doorbell>> /\ HandlerKeeps

ToCancel == {q \in gone : qh[q] = "ring"}

\* ehci_del_qhn_async, step by step.  It takes no lock: a call on the endpoint
\* goes on beside it.
Cancel(q) ==
    /\ At("port") /\ "port" \in h.sts /\ q \in ToCancel
    /\ h' = [h EXCEPT !.pc = "halt", !.q = q, !.td = IF tdns[q] = <<>> THEN Null ELSE Head(tdns[q])]
    /\ Slip(IF c.pc \notin {"idle", "walk"} /\ c.q = q THEN {"crossed"} ELSE {})
    /\ UNCHANGED <<ring, qh, removal, queue, usbsts, doorbell, fault>> /\ HandlerKeeps

\* The active TDs are halted one after the other.
Halt ==
    /\ At("halt") /\ h.td # Null
    /\ IF td[h.td].status = "freed" THEN Fault("halt") /\ UNCHANGED <<td, h>>
       ELSE /\ td' = [td EXCEPT ![h.td].status = IF @ = "active" THEN "halted" ELSE @]
            /\ h' = [h EXCEPT !.td = td[h.td].next]
            /\ NoSlip
    /\ UNCHANGED <<ring, qh, removal, tdns, overlay, told, usbsts, doorbell>> /\ HandlerKeeps

\* The predecessor is looked for in the driver's ring, from the tail on.  Once
\* the ring was emptied the tail leads nowhere.
Search ==
    /\ At("halt") /\ h.td = Null
    /\ IF Lost(tail) \/ next[tail] = Null THEN Fault("search") /\ UNCHANGED h
       ELSE /\ \E prev \in Heads :
                  /\ qh[prev] = "ring" /\ next[prev] = h.q
                  /\ h' = [h EXCEPT !.pc = "cut", !.prev = prev]
                  /\ Slip(IF Adding /\ {tail, c.q} \cap {prev, h.q} # {} THEN {"torn"} ELSE {})
            /\ UNCHANGED fault
    /\ UNCHANGED <<ring, qh, removal, queue, usbsts, doorbell>> /\ HandlerKeeps

\* It is taken out of the controller's ring, ...
Cut ==
    /\ At("cut")
    /\ qhlptr' = [qhlptr EXCEPT ![h.prev] = qhlptr[h.q]]
    /\ h' = [h EXCEPT !.pc = "unlink"]
    /\ UNCHANGED <<tail, next, qh, removal, queue, usbsts, doorbell, history>> /\ HandlerKeeps

\* ... out of the driver's ...
Unlink ==
    /\ At("unlink")
    /\ next' = [next EXCEPT ![h.prev] = next[h.q]]
    /\ h' = [h EXCEPT !.pc = "retail"]
    /\ UNCHANGED <<tail, qhlptr, qh, removal, queue, usbsts, doorbell, history>> /\ HandlerKeeps

Retail ==
    /\ At("retail")
    /\ tail' = IF tail = h.q THEN next[h.q] ELSE tail
    /\ h' = [h EXCEPT !.pc = "pend"]
    /\ UNCHANGED <<next, qhlptr, qh, removal, queue, usbsts, doorbell, history>> /\ HandlerKeeps

\* ... and into the list of those to destroy, and the doorbell is rung.  If it
\* was the only one, the tail is still on it.
Pend ==
    /\ At("pend")
    /\ next' = [next EXCEPT ![h.q] = Null]
    /\ qh' = [qh EXCEPT ![h.q] = "pending"]
    /\ was_cancelled' = [was_cancelled EXCEPT ![h.q] = 1]
    /\ db_pending' = Append(db_pending, h.q)
    /\ doorbell' = TRUE
    /\ Slip((IF h.prev = h.q THEN {"emptied"} ELSE {})
            \cup (IF "adv" \in usbsts THEN {"early"} ELSE {})
            \cup (IF c.pc = "walk" /\ c.at = h.q THEN {"crossed"} ELSE {}))
    /\ h' = [h EXCEPT !.pc = "port", !.q = Null, !.prev = Null]
    /\ UNCHANGED <<tail, qhlptr, queue, usbsts, fault>> /\ HandlerKeeps

PortsDone ==
    /\ At("port") /\ ("port" \notin h.sts \/ ToCancel = {})
    /\ h' = [h EXCEPT !.pc = IF "adv" \in h.sts THEN "doorbell" ELSE "clear"]
    /\ UNCHANGED <<ring, qh, removal, queue, usbsts, doorbell, history>> /\ HandlerKeeps

\* Mutant: one answer of the controller is enough.
MutCyclesPassed(q) == was_cancelled[q] > 0

CyclesPassed(q) == was_cancelled[q] > 1

\* Mutant: the doorbell is not rung again.
MutRing(pending) == doorbell

Ring(pending) == doorbell \/ pending # <<>>

\* check_doorbell, and qhn_destroy of those that have waited long enough.  They
\* are in front: a queue head that stays before one that goes would keep its link
\* to it.
CheckDoorbell ==
    /\ At("doorbell")
    /\ LET n == Max({0} \cup {i \in DOMAIN db_pending : CyclesPassed(db_pending[i])})
           out == ToSet(SubSeq(db_pending, 1, n))
           ts == UNION {ToSet(tdns[q]) : q \in out}
       IN  IF \E q \in out : ~CyclesPassed(q)
           THEN Fault("pending") /\ UNCHANGED <<qh, removal, td, told, doorbell, h>>
           ELSE /\ db_pending' = SubSeq(db_pending, n + 1, Len(db_pending))
                /\ was_cancelled' = [q \in Heads |-> IF q \in ToSet(db_pending')
                                                     THEN was_cancelled[q] + 1 ELSE was_cancelled[q]]
                /\ doorbell' = Ring(db_pending')
                /\ qh' = [q \in Heads |-> IF q \in out THEN "freed" ELSE qh[q]]
                /\ Tell(ts, "cancelled") /\ Free(ts)
                /\ h' = [h EXCEPT !.pc = "clear", !.rang = doorbell']
                /\ NoSlip
    /\ UNCHANGED <<ring, tdns, overlay, usbsts>> /\ HandlerKeeps

\* The status bits that were read are cleared, whatever set them again since.
Clear ==
    /\ At("clear")
    /\ usbsts' = usbsts \ h.sts
    /\ Slip((IF "usb" \in h.sts /\ \E q \in Heads : qh[q] = "ring" /\ Taken(q) # <<>>
             THEN {"missed"} ELSE {})
            \cup (IF h.rang /\ ~doorbell THEN {"unanswered"} ELSE {})
            \cup (IF "port" \in h.sts /\ ToCancel # {} THEN {"unseen"} ELSE {}))
    /\ h' = [h EXCEPT !.pc = "idle", !.q = Null, !.sts = {}, !.rang = FALSE]
    /\ UNCHANGED <<ring, qh, removal, queue, doorbell, fault>> /\ HandlerKeeps

Client == \/ UseFreed \/ AddHw \/ AddSw \/ AddSplice \/ AddTail
          \/ Drain \/ TestQueue \/ LockQueue \/ LinkQueue \/ Activate \/ ReadLink
          \/ Wait \/ ClientWalk
Handler == \/ Interrupt \/ HandlerWalk \/ \E q \in Heads : Cancel(q)
           \/ Halt \/ Search \/ Cut \/ Unlink \/ Retail \/ Pend
           \/ PortsDone \/ CheckDoorbell \/ Clear

Next ==
    \/ \E q \in Heads : \/ \E n \in 1..2, cb \in BOOLEAN : Submit(q, n, cb)
                        \/ HwFetch(q) \/ HwDone(q) \/ HwError(q) \/ Unplug(q)
    \/ HwAdvance \/ Client \/ Handler

\* Both threads are scheduled, and the controller gets to every queue of the
\* ring and to the end of every TD it has begun.
Fairness ==
    /\ WF_vars(Client) /\ WF_vars(Handler)
    /\ WF_vars(HwAdvance \/ \E q \in Heads : HwFetch(q))
    /\ \A q \in Heads : SF_vars(HwDone(q) \/ HwError(q))

Spec == Init /\ [][Next]_vars /\ Fairness
-----------------------------------------------------------------------------
(* Properties.                                                             *)

\* The state has its types.
TypeOK ==
    /\ tail \in Heads \cup {Null}
    /\ next \in [Heads -> Heads \cup {Null}] /\ qhlptr \in [Heads -> Heads \cup {Null}]
    /\ qh \in [Heads -> {"none", "ring", "pending", "freed"}]
    /\ was_cancelled \in [Heads -> 0..2] /\ db_pending \in Seq(Heads)
    /\ tdns \in [Heads -> Seq(Tds)]
    /\ td \in [Tds -> [status : {"unused", "off", "active", "halted", "done", "error", "freed"},
                       next : Tds \cup {Null}, ioc : BOOLEAN, cb : BOOLEAN]]
    /\ overlay \in [Heads -> [cur : Tds \cup {Null}, next : Tds \cup {Null},
                              status : {"done", "active", "error"}]]
    /\ usbsts \subseteq {"usb", "err", "port", "adv"} /\ usbintr \in BOOLEAN /\ doorbell \in BOOLEAN
    /\ hw \in [at : Heads \cup {Null}, ahead : Heads \cup {Null}, old : SUBSET Heads]
    /\ c \in [pc : Stages, q : Heads \cup {Null}, tds : Seq(Tds), cb : BOOLEAN,
              at : Heads \cup {Null}]
    /\ h \in [pc : {"idle", "walk", "port", "halt", "cut", "unlink", "retail", "pend",
                    "doorbell", "clear"},
              q : Heads \cup {Null}, prev : Heads \cup {Null}, td : Tds \cup {Null},
              sts : SUBSET {"usb", "err", "port", "adv"}, rang : BOOLEAN]
    /\ told \in [Tds -> {"nothing", "success", "cancelled", "twice"}]

Clean(what) == slips \cap what = {}
InRing == {q \in Heads : qh[q] = "ring"}

\* Neither thread is about to change the ring.
Still == ~Adding /\ ~Removing

\* The driver's ring and the controller's are the same whenever neither thread
\* is changing them, and the controller always gets back to the ring from a queue
\* head that was removed: unless the ring was emptied, or one thread changed it
\* next to a queue head that the other was adding or removing.
RingsAgree ==
    Clean({"emptied", "torn"}) =>
        /\ Still =>
              /\ \A q \in InRing : qhlptr[q] = next[q] /\ next[q] \in InRing
              /\ \A q \in InRing : \E p \in InRing : next[p] = q
              /\ tail \in InRing \/ InRing = {}
        /\ \A q \in InRing : qhlptr[q] \in InRing
        /\ \A q \in Heads : qh[q] = "pending" => qhlptr[q] \in InRing \cup ToSet(db_pending)

\* The controller never holds a queue head, or works on a TD, that the driver
\* has freed, unless the ring was emptied, or changed by both threads at one
\* place, or a queue head was removed while the answer to an earlier doorbell had
\* still to be handled.
ControllerSafe == Clean({"emptied", "torn", "early"}) => ~HoldsFreed

\* The schedule is sound for the controller: it walks the ring the driver has,
\* and nothing it can reach has been freed.
ScheduleSafe == TypeOK /\ RingsAgree /\ ControllerSafe

\* No thread uses memory that the other has freed, or follows a null pointer,
\* unless one took away TDs or a queue head that the other was working on, both
\* changed the ring at one place, or the ring was emptied.  What a thread has
\* freed itself it does read: "reread" says that it has, and is no fault as long
\* as the allocator leaves the link of a freed TD alone.
MemorySafe == Clean({"crossed", "emptied", "torn"}) => fault = "none"

\* A callback is called exactly once, in the step that frees its TD.
ToldOnce ==
    \A t \in Tds : /\ told[t] # "twice"
                   /\ td[t].cb => (told[t] # "nothing" <=> td[t].status = "freed")

\* The controller finishes the TDs of a queue in the order of submission.
InOrder ==
    \A q \in InRing : \A i, j \in DOMAIN tdns[q] :
        i < j /\ td[tdns[q][j]].status \in {"done", "error"} => td[tdns[q][i]].status = "done"

\* Transfers end in the order they were submitted and are told of once.
TransfersRight == ToldOnce /\ InOrder

\* The driver does not recover from a finished transfer whose interrupt was
\* cleared with an earlier one, a halted queue, an emptied ring or one that both
\* threads have changed at one place.
Excused(what) == ~Running \/ ~Clean({"missed", "error", "emptied", "torn"} \cup what)

\* A transfer with a callback hears of its end, though its TDs may be linked
\* behind a queue that the controller is just finishing, unless the doorbell or
\* the port change of its removal was lost: none is left waiting for ever.
Heard ==
    \A t \in Tds :
        []<>(td[t].cb /\ td[t].status # "off" => told[t] # "nothing" \/ Excused({"unanswered", "unseen"}))

\* A call ends, a blocking one with whatever came before it in the queue.
CallEnds == []<>(c.pc = "idle" \/ Excused({}))

\* The queue heads of an unplugged device are freed in the end.
Recycled ==
    \A q \in Heads :
        []<>(q \in gone => \/ qh[q] = "freed" \/ ~Running
                           \/ ~Clean({"unanswered", "unseen", "emptied", "torn"}))

\* What the driver starts, calls and removals, comes to an end.
Finishes == CallEnds /\ Recycled
=============================================================================
