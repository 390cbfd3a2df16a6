------------------------------ MODULE IvcProofs ------------------------------
(***************************************************************************)
(* Proofs about Ivc, for any number of frames, any width of the counters,  *)
(* any frame contents, and any number of resets and crashes of either end. *)
(* A reset that overtakes a tegra_ivc_channel_notified of the peer ends    *)
(* what the channel promises; the types are kept even then.                *)
(***************************************************************************)
EXTENDS Ivc, SequenceTheorems, TLAPS

(* The slot k places after position a of the ring.                         *)
Slot(a, k) == (a + k) % NFrames

(* The channel from e to its peer: the counters count the frames on it,    *)
(* the reader finds them in order at its position, and the writer's        *)
(* position is behind them.                                                *)
Counted(e) ==
    /\ Len(wire[e]) <= NFrames
    /\ Diff(wCount[e], rCount[Peer(e)]) = Len(wire[e])

Readable(e) ==
    \A i \in 1..Len(wire[e]) :
       frames[e][Slot(rPos[Peer(e)], i - 1)] = wire[e][i]

InPlace(e) == wPos[e] = Slot(rPos[Peer(e)], Len(wire[e]))

\* e has cleared its side.
TxCleared(e) == wCount[e] = 0 /\ wPos[e] = 0 /\ wire[e] = <<>>
RxCleared(e) == rCount[e] = 0 /\ rPos[e] = 0

Cleared(e) ==
    /\ state[e] = "ack" \/ pc[e] = "set" => TxCleared(e) /\ RxCleared(e)
    /\ pc[e] = "clearR" => TxCleared(e)

(* What an end in channel_notified knows of its peer, although the load of *)
(* the peer's state is some steps back: the peer has not left the          *)
(* handshake.                                                              *)
Handshake(e) ==
    MidNotified(e) =>
       /\ goal[e] \in {"ack", "established"}
       /\ state[e] = "established" => goal[e] = "ack" /\ state[Peer(e)] = "sync"
       /\ state[e] = "sync" /\ goal[e] = "ack" => state[Peer(e)] \in {"sync", "ack"}
       /\ state[e] = "sync" /\ goal[e] = "established" => state[Peer(e)] = "ack"
       /\ state[e] = "ack" /\ goal[e] = "established" =>
             pc[e] = "set" /\ state[Peer(e)] # "sync"

(* Neither end is in sync: the channel is sound, except that an end which  *)
(* has just started has lost its positions.                                *)
Joined(e) ==
    state[e] # "sync" /\ state[Peer(e)] # "sync" =>
       /\ Counted(e)
       /\ pc[Peer(e)] # "start" => Readable(e)
       /\ pc[e] # "start" /\ pc[Peer(e)] # "start" => InPlace(e)

(* The peer has reset and e has not noticed: what e knows is still true.   *)
Parted(e) ==
    Up(e) /\ state[Peer(e)] = "sync" =>
       Counted(e) /\ Counted(Peer(e)) /\ Readable(Peer(e))

(* What a client that was given a frame still has.                         *)
Granted(e) ==
    /\ pc[e] \in {"filled", "wrote", "found", "read", "consumed"} =>
          state[e] = "established"
    /\ pc[e] = "filled" => Len(wire[e]) < NFrames
    /\ pc[e] \in {"found", "read"} => wire[Peer(e)] # <<>>
    /\ pc[e] = "read" => got[e] = wire[Peer(e)][1]

EndInv(e) == Cleared(e) /\ Handshake(e) /\ Joined(e) /\ Parted(e) /\ Granted(e)

Inv == TypeOK /\ \A e \in Ends : EndInv(e)

(* The inductive invariant: Inv up to a reset that overtakes the peer.     *)
Safe == TypeOK /\ (~overtaken => Inv)
-----------------------------------------------------------------------------
(* Positions and counters.                                                 *)

(* Each end has one peer, and is its peer's peer.                          *)
LEMMA Peers ==
    ASSUME NEW e \in Ends
    PROVE  /\ Peer(e) \in Ends /\ Peer(e) # e /\ Peer(Peer(e)) = e
           /\ \A x \in Ends : x = e \/ x = Peer(e)
BY DEF Ends, Peer

(* Slots are positions; the next slot is the next position, with the wrap  *)
(* of r_pos and w_pos; slots less than a ring apart are different.         *)
LEMMA Slots ==
    ASSUME NEW a \in Pos, NEW k \in 0..NFrames
    PROVE  /\ Slot(a, k) = IF a + k < NFrames THEN a + k ELSE a + k - NFrames
           /\ Slot(a, k) \in Pos
BY FramesAssumption DEF Slot, Pos

LEMMA SlotNext ==
    ASSUME NEW a \in Pos, NEW k \in 0..(NFrames - 1)
    PROVE  /\ Slot(IncPos(a), k) = Slot(a, k + 1)
           /\ IncPos(Slot(a, k)) = Slot(a, k + 1)
           /\ IncPos(a) \in Pos
           /\ Slot(a, 0) = a
<1>1. IncPos(a) \in Pos /\ k \in 0..NFrames /\ k + 1 \in 0..NFrames /\ 0 \in 0..NFrames
  BY FramesAssumption DEF IncPos, Pos
<1>2. /\ Slot(a, k) = IF a + k < NFrames THEN a + k ELSE a + k - NFrames
      /\ Slot(a, k) \in Pos
  BY <1>1, Slots
<1>3. Slot(a, k + 1) = IF a + (k + 1) < NFrames THEN a + (k + 1) ELSE a + (k + 1) - NFrames
  BY <1>1, Slots
<1>4. Slot(IncPos(a), k) =
        IF IncPos(a) + k < NFrames THEN IncPos(a) + k ELSE IncPos(a) + k - NFrames
  BY <1>1, Slots
<1>5. Slot(a, 0) = IF a + 0 < NFrames THEN a + 0 ELSE a + 0 - NFrames
  BY <1>1, Slots
<1>6. Slot(IncPos(a), k) = Slot(a, k + 1)
  BY <1>3, <1>4, FramesAssumption DEF IncPos, Pos
<1>7. IncPos(Slot(a, k)) = Slot(a, k + 1)
  BY <1>2, <1>3, FramesAssumption DEF IncPos, Pos
<1>8. Slot(a, 0) = a
  BY <1>5, FramesAssumption DEF Pos
<1> QED
  BY <1>1, <1>6, <1>7, <1>8

LEMMA SlotsApart ==
    ASSUME NEW a \in Pos, NEW i \in 0..(NFrames - 1), NEW j \in 0..(NFrames - 1),
           i # j
    PROVE  Slot(a, i) # Slot(a, j)
<1>1. i \in 0..NFrames /\ j \in 0..NFrames
  BY FramesAssumption
<1>2. Slot(a, i) = IF a + i < NFrames THEN a + i ELSE a + i - NFrames
  BY <1>1, Slots
<1>3. Slot(a, j) = IF a + j < NFrames THEN a + j ELSE a + j - NFrames
  BY <1>1, Slots
<1> QED
  BY <1>2, <1>3, FramesAssumption DEF Pos

(* The difference of two counters survives their wrap.                     *)
LEMMA DiffIs ==
    ASSUME NEW w \in Count, NEW r \in Count
    PROVE  /\ Diff(w, r) = IF w >= r THEN w - r ELSE w - r + CountMod
           /\ Diff(w, r) \in Count
BY CountAssumption, FramesAssumption DEF Diff, Count

LEMMA IncIs ==
    ASSUME NEW c \in Count
    PROVE  Inc(c) = (IF c + 1 = CountMod THEN 0 ELSE c + 1) /\ Inc(c) \in Count
BY CountAssumption, FramesAssumption DEF Inc, Count

LEMMA DiffInc ==
    ASSUME NEW w \in Count, NEW r \in Count
    PROVE  /\ Diff(w, r) < NFrames => Diff(Inc(w), r) = Diff(w, r) + 1
           /\ Diff(w, r) # 0 => Diff(w, Inc(r)) = Diff(w, r) - 1
           /\ Diff(w, w) = 0
<1>1. Inc(w) \in Count /\ Inc(r) \in Count
  BY IncIs
<1>2. /\ Inc(w) = IF w + 1 = CountMod THEN 0 ELSE w + 1
      /\ Inc(r) = IF r + 1 = CountMod THEN 0 ELSE r + 1
  BY IncIs
<1>3. Diff(w, r) = IF w >= r THEN w - r ELSE w - r + CountMod
  BY DiffIs
<1>4. Diff(Inc(w), r) = IF Inc(w) >= r THEN Inc(w) - r ELSE Inc(w) - r + CountMod
  BY <1>1, DiffIs
<1>5. Diff(w, Inc(r)) = IF w >= Inc(r) THEN w - Inc(r) ELSE w - Inc(r) + CountMod
  BY <1>1, DiffIs
<1>6. Diff(w, w) = 0
  BY DiffIs DEF Count
<1>7. Diff(w, r) < NFrames => Diff(Inc(w), r) = Diff(w, r) + 1
  BY <1>2, <1>3, <1>4, CountAssumption, FramesAssumption DEF Count
<1>8. Diff(w, r) # 0 => Diff(w, Inc(r)) = Diff(w, r) - 1
  BY <1>2, <1>3, <1>5, CountAssumption, FramesAssumption DEF Count
<1> QED
  BY <1>6, <1>7, <1>8
-----------------------------------------------------------------------------
(* What tegra_ivc_channel_notified decides for each pair of states.        *)
LEMMA Reactions ==
    ASSUME NEW l \in States, NEW r \in States
    PROVE  /\ r = "sync" =>
                Reaction(l, r)[1] = "clearW" /\ Reaction(l, r)[2] = "ack"
           /\ l = "sync" /\ r = "ack" =>
                Reaction(l, r)[1] = "clearW" /\ Reaction(l, r)[2] = "established"
           /\ l = "ack" /\ r # "sync" =>
                Reaction(l, r)[1] = "set" /\ Reaction(l, r)[2] = "established"
           /\ r # "sync" /\ l # "ack" /\ ~(l = "sync" /\ r = "ack") =>
                Reaction(l, r)[1] = "idle" /\ Reaction(l, r)[2] = l
BY DEF States, Reaction

(* The channel an end finds when it comes up is sound.                     *)
LEMMA Initially == Init => Inv
<1> SUFFICES ASSUME Init PROVE Inv
  OBVIOUS
<1>1. PICK w \in [Ends -> Count] :
        /\ wCount = w
        /\ rCount = [e \in Ends |-> w[Peer(e)]]
        /\ wPos = [e \in Ends |-> IF e = "cpu" THEN 0 ELSE w[e] % NFrames]
        /\ rPos = [e \in Ends |-> IF e = "cpu" THEN 0 ELSE w[Peer(e)] % NFrames]
  BY DEF Init
<1>2. /\ state = [e \in Ends |-> "established"]
      /\ pc = [e \in Ends |-> IF e = "cpu" THEN "start" ELSE "idle"]
      /\ wire = [e \in Ends |-> <<>>]
  BY DEF Init
<1>3. TypeOK
  <2>1. PICK d \in Data : d = CHOOSE x \in Data : TRUE
    BY DataAssumption
  <2>2. frames \in [Ends -> [Pos -> {d}]] /\ got = [e \in Ends |-> d]
    BY <2>1 DEF Init
  <2>3. frames \in [Ends -> [Pos -> Data]] /\ got \in [Ends -> Data]
    BY <2>2
  <2>4. 0 \in Pos /\ \A n \in Count : n % NFrames \in Pos
    BY FramesAssumption, CountAssumption DEF Pos, Count
  <2>5. /\ wCount \in [Ends -> Count] /\ rCount \in [Ends -> Count]
        /\ wPos \in [Ends -> Pos] /\ rPos \in [Ends -> Pos]
    BY <1>1, <2>4, Peers
  <2>6. wire \in [Ends -> Seq(Data)]
    BY <1>2, EmptySeq
  <2>7. bell \in [Ends -> BOOLEAN]
    BY DEF Init
  <2>8. awake \in [Ends -> BOOLEAN]
    <3>1. \A e \in Ends : (e \in Pollers) \in BOOLEAN
      OBVIOUS
    <3>2. awake = [e \in Ends |-> e \in Pollers]
      BY DEF Init
    <3> QED
      BY <3>1, <3>2
  <2>10. overtaken \in BOOLEAN
    BY DEF Init
  <2>9. /\ state \in [Ends -> States] /\ goal \in [Ends -> States]
        /\ pc \in [Ends -> Step_] /\ resets \in 0..MaxResets
    BY ResetsAssumption DEF Init, States, Step_
  <2> QED
    BY <2>3, <2>5, <2>6, <2>7, <2>8, <2>9, <2>10 DEF TypeOK
<1>4. ASSUME NEW e \in Ends PROVE EndInv(e)
  <2>1. PICK p \in Ends : p = Peer(e) /\ Peer(p) = e
    BY Peers
  <2>2. /\ state[e] = "established" /\ state[p] = "established"
        /\ wire[e] = <<>> /\ pc[e] \in {"start", "idle"}
        /\ pc[e] = "start" \/ pc[p] = "start"
    BY <1>2, <2>1 DEF Ends, Peer
  <2>3. wCount[e] = rCount[p] /\ wCount[e] \in Count
    BY <1>1, <2>1
  <2>4. Counted(e) /\ Readable(e)
    BY <2>1, <2>2, <2>3, DiffInc, FramesAssumption DEF Counted, Readable
  <2> QED
    BY <2>1, <2>2, <2>4
    DEF EndInv, Cleared, Handshake, MidNotified, Joined, Parted, Granted
<1> QED
  BY <1>3, <1>4 DEF Inv
-----------------------------------------------------------------------------
(* Every step keeps the types, a reset that overtakes the peer too.        *)
LEMMA TypeStep ==
    ASSUME TypeOK, NEW e \in Ends,
           \/ Restart(e) \/ ChannelReset(e)
           \/ Protocol(e) \/ Transmit(e) \/ Receive(e)
    PROVE  TypeOK'
<1> USE Peers
<1>0. 0 \in Pos /\ 0 \in Count
  BY FramesAssumption, CountAssumption DEF Pos, Count
<1>1. CASE Restart(e)
  BY <1>0, <1>1, ResetsAssumption DEF Restart, TypeOK, Step_
<1>2. CASE ChannelReset(e)
  BY <1>2, ResetsAssumption DEF ChannelReset, counters, TypeOK, Step_, States
<1>3. CASE Notify(e)
  BY <1>3 DEF Notify, Step, counters, TypeOK, Step_
<1>4. CASE ChannelNotified(e)
  <2>1. PICK p \in Ends : p = Peer(e)
    OBVIOUS
  <2>2. PICK r1, r2 : /\ r1 = Reaction(state[e], state[p])[1]
                      /\ r2 = Reaction(state[e], state[p])[2]
    OBVIOUS
  <2>3. r1 \in Step_ /\ r2 \in States
    <3>1. PICK l \in States, r \in States : l = state[e] /\ r = state[p]
      BY DEF TypeOK
    <3> QED
      BY <2>2, <3>1, Reactions DEF Step_, States
  <2>4. /\ pc' = [pc EXCEPT ![e] = r1] /\ goal' = [goal EXCEPT ![e] = r2]
        /\ bell' = [bell EXCEPT ![e] = FALSE] /\ awake' = [awake EXCEPT ![e] = TRUE]
        /\ UNCHANGED <<state, counters, frames, got, resets, wire, overtaken>>
    BY <1>4, <2>1, <2>2 DEF ChannelNotified, Step
  <2> QED
    BY <2>3, <2>4 DEF TypeOK, counters
<1>5. CASE ClearTx(e)
  BY <1>0, <1>5, EmptySeq DEF ClearTx, Step, TypeOK, Step_
<1>6. CASE ClearRx(e)
  BY <1>0, <1>6 DEF ClearRx, Step, TypeOK, Step_
<1>7. CASE SetState(e)
  BY <1>7 DEF SetState, Step, counters, TypeOK, Step_
<1>8. ASSUME NEW d \in Data, WriteFrame(e, d) PROVE TypeOK'
  BY <1>8 DEF WriteFrame, Step, counters, TypeOK, Step_
<1>9. CASE WriteAdvance(e)
  <2>1. Inc(wCount[e]) \in Count /\ IncPos(wPos[e]) \in Pos
    <3>1. 0 \in 0..(NFrames - 1)
      BY FramesAssumption
    <3> QED
      BY <3>1, IncIs, SlotNext DEF TypeOK
  <2>2. PICK f \in Data : f = frames[e][wPos[e]]
    BY DEF TypeOK
  <2>3. Append(wire[e], f) \in Seq(Data)
    BY DEF TypeOK
  <2> QED
    BY <1>9, <2>1, <2>2, <2>3 DEF WriteAdvance, Step, TypeOK, Step_
<1>10. CASE WriteNotify(e)
  BY <1>10 DEF WriteNotify, Step, counters, TypeOK, Step_
<1>11. CASE ReadGetNextFrame(e)
  BY <1>11 DEF ReadGetNextFrame, Step, counters, TypeOK, Step_
<1>12. CASE ReadNothing(e)
  BY <1>12 DEF ReadNothing, Step, counters, TypeOK, Step_
<1>13. CASE ReadFrame(e)
  BY <1>13 DEF ReadFrame, Step, counters, TypeOK, Step_
<1>14. CASE ReadAdvance(e)
  <2>1. Inc(rCount[e]) \in Count /\ IncPos(rPos[e]) \in Pos
    <3>1. 0 \in 0..(NFrames - 1)
      BY FramesAssumption
    <3> QED
      BY <3>1, IncIs, SlotNext DEF TypeOK
  <2>2. PICK p \in Ends : p = Peer(e)
    OBVIOUS
  <2>3. PICK s \in Seq(Data) : s = wire[p]
    BY <2>2 DEF TypeOK
  <2>4. PICK t \in Seq(Data) : t = IF s = <<>> THEN s ELSE Tail(s)
    BY HeadTailProperties
  <2>5. wire' = [wire EXCEPT ![p] = t]
    BY <1>14, <2>2, <2>3, <2>4 DEF ReadAdvance
  <2> QED
    BY <1>14, <2>1, <2>5 DEF ReadAdvance, Step, TypeOK, Step_
<1>15. CASE ReadNotify(e)
  BY <1>15 DEF ReadNotify, Step, counters, TypeOK, Step_
<1>16. CASE AdvanceFails(e)
  BY <1>16 DEF AdvanceFails, Step, counters, TypeOK, Step_
<1> QED
  BY <1>1, <1>2, <1>3, <1>4, <1>5, <1>6, <1>7, <1>8, <1>9, <1>10, <1>11, <1>12,
     <1>13, <1>14, <1>15, <1>16 DEF Protocol, Transmit, Receive
-----------------------------------------------------------------------------
(* The steps of an end.  Inv is re-established for the end that moves and  *)
(* for its peer.                                                           *)

(* Two ends are all the ends.                                              *)
LEMMA BothEnds ==
    ASSUME NEW e \in Ends, NEW p \in Ends, p = Peer(e),
           TypeOK', EndInv(e)', EndInv(p)'
    PROVE  Inv'
<1>1. ASSUME NEW x \in Ends PROVE EndInv(x)'
  <2>1. x = e \/ x = p
    BY Peers
  <2> QED
    BY <2>1
<1> QED
  BY <1>1 DEF Inv

(* A step that stores nothing in shared memory and moves no position keeps *)
(* both channels.                                                          *)
LEMMA Quiet ==
    ASSUME NEW e \in Ends,
           UNCHANGED <<wCount, rCount, frames, wPos, rPos, wire>>
    PROVE  /\ Counted(e)' = Counted(e) /\ Readable(e)' = Readable(e)
           /\ InPlace(e)' = InPlace(e)
           /\ TxCleared(e)' = TxCleared(e) /\ RxCleared(e)' = RxCleared(e)
BY DEF Counted, Readable, InPlace, TxCleared, RxCleared

(* tegra_ivc_init loses the positions of e, and nothing else.              *)
LEMMA RestartStep ==
    ASSUME Inv, NEW e \in Ends, Restart(e)
    PROVE  Inv'
<1>1. PICK p \in Ends : p = Peer(e) /\ p # e /\ Peer(p) = e
  BY Peers
<1>2. EndInv(e) /\ EndInv(p) /\ TypeOK
  BY DEF Inv
<1>3. /\ pc'[e] = "start" /\ pc'[p] = pc[p]
      /\ wPos'[e] = 0 /\ rPos'[e] = 0 /\ wPos'[p] = wPos[p] /\ rPos'[p] = rPos[p]
      /\ UNCHANGED <<state, wCount, rCount, frames, goal, got, wire>>
  BY <1>1, <1>2 DEF Restart, TypeOK
<1>4. Counted(e)' = Counted(e) /\ Counted(p)' = Counted(p)
  BY <1>1, <1>3 DEF Counted
<1>5. Readable(e)' = Readable(e)
  BY <1>1, <1>3 DEF Readable
<1>6. EndInv(e)'
  BY <1>1, <1>2, <1>3, <1>4, <1>5
  DEF EndInv, Cleared, TxCleared, RxCleared, Handshake, MidNotified, Joined, Parted, Up, Granted
<1>7. EndInv(p)'
  BY <1>1, <1>2, <1>3, <1>4, <1>5
  DEF EndInv, Cleared, TxCleared, RxCleared, Handshake, MidNotified, Joined, Parted, Up, Granted
<1>8. TypeOK'
  BY <1>2, TypeStep DEF EndInv
<1> QED
  BY <1>1, <1>6, <1>7, <1>8, BothEnds

(* tegra_ivc_channel_reset: e leaves for sync.  Its peer, if up, still     *)
(* sees what it saw.                                                       *)
LEMMA ChannelResetStep ==
    ASSUME Inv, ~overtaken', NEW e \in Ends, ChannelReset(e)
    PROVE  Inv'
<1>1. PICK p \in Ends : p = Peer(e) /\ p # e /\ Peer(p) = e
  BY Peers
<1>2. EndInv(e) /\ EndInv(p) /\ TypeOK
  BY DEF Inv
<1>3. /\ pc'[e] = "notify" /\ pc'[p] = pc[p] /\ ~MidNotified(p)
      /\ state'[e] = "sync" /\ state'[p] = state[p]
      /\ UNCHANGED <<wCount, rCount, frames, wPos, rPos, goal, got, wire>>
  BY <1>1, <1>2 DEF ChannelReset, counters, TypeOK
<1>4. /\ Counted(e)' = Counted(e) /\ Counted(p)' = Counted(p)
      /\ Readable(e)' = Readable(e)
  BY <1>3, Quiet
<1>5. EndInv(e)'
  BY <1>1, <1>2, <1>3
  DEF EndInv, Cleared, Handshake, MidNotified, Joined, Parted, Up, Granted
<1>6. Cleared(p)' /\ Granted(p)' /\ Handshake(p)' /\ Joined(p)'
  BY <1>1, <1>2, <1>3
  DEF EndInv, Cleared, TxCleared, RxCleared, Handshake, MidNotified, Joined, Granted
<1>7. Parted(p)'
  <2> SUFFICES ASSUME Up(p)'
               PROVE  Counted(e) /\ Counted(p) /\ Readable(e)
    BY <1>1, <1>3, <1>4 DEF Parted
  <2>1. Up(p)
    BY <1>3 DEF Up, MidNotified
  <2>2. CASE state[e] = "sync"
    BY <1>1, <1>2, <2>1, <2>2 DEF EndInv, Parted
  <2>3. CASE state[e] # "sync"
    BY <1>1, <1>2, <2>1, <2>3 DEF EndInv, Joined, Up
  <2> QED
    BY <2>2, <2>3
<1>8. TypeOK'
  BY <1>2, TypeStep DEF EndInv
<1>9. EndInv(p)'
  BY <1>6, <1>7 DEF EndInv
<1> QED
  BY <1>1, <1>5, <1>8, <1>9, BothEnds

(* The loads of tegra_ivc_channel_notified: e now knows its peer's state.  *)
LEMMA ChannelNotifiedStep ==
    ASSUME Inv, NEW e \in Ends, ChannelNotified(e)
    PROVE  Inv'
<1>1. PICK p \in Ends : p = Peer(e) /\ p # e /\ Peer(p) = e
  BY Peers
<1>2. EndInv(e) /\ EndInv(p) /\ TypeOK
  BY DEF Inv
<1>3. PICK l \in States, r \in States : l = state[e] /\ r = state[p]
  BY <1>2 DEF TypeOK
<1>4. /\ pc[e] = "idle"
      /\ pc'[e] = Reaction(l, r)[1] /\ pc'[p] = pc[p]
      /\ goal'[e] = Reaction(l, r)[2] /\ goal'[p] = goal[p]
      /\ UNCHANGED <<state, wCount, rCount, frames, wPos, rPos, got, wire>>
  BY <1>1, <1>2, <1>3 DEF ChannelNotified, Step, counters, TypeOK
<1>5. /\ Counted(e)' = Counted(e) /\ Counted(p)' = Counted(p)
      /\ Readable(e)' = Readable(e) /\ Readable(p)' = Readable(p)
      /\ InPlace(e)' = InPlace(e) /\ InPlace(p)' = InPlace(p)
      /\ TxCleared(e)' = TxCleared(e) /\ RxCleared(e)' = RxCleared(e)
      /\ TxCleared(p)' = TxCleared(p) /\ RxCleared(p)' = RxCleared(p)
  BY <1>4, Quiet
<1>6. /\ pc'[e] \in {"clearW", "set", "idle"}
      /\ pc'[e] = "set" => state[e] = "ack"
      /\ pc'[e] # "idle" => Handshake(e)'
  BY <1>1, <1>3, <1>4, Reactions DEF States, Handshake, MidNotified
<1>7. EndInv(e)'
  BY <1>1, <1>2, <1>4, <1>5, <1>6
  DEF EndInv, Cleared, Handshake, MidNotified, Joined, Parted, Up, Granted
<1>8. EndInv(p)'
  BY <1>1, <1>2, <1>4, <1>5, <1>6
  DEF EndInv, Cleared, Handshake, MidNotified, Joined, Parted, Up, Granted
<1>9. TypeOK'
  BY <1>2, TypeStep DEF EndInv, Protocol
<1> QED
  BY <1>1, <1>7, <1>8, <1>9, BothEnds

(* An end that is up sees true counters, whatever its peer is doing.       *)
LEMMA UpSees ==
    ASSUME Inv, NEW e \in Ends, Up(e)
    PROVE  Counted(e) /\ Counted(Peer(e)) /\ Readable(Peer(e))
<1>1. PICK p \in Ends : p = Peer(e) /\ Peer(p) = e
  BY Peers
<1>2. EndInv(e) /\ EndInv(p)
  BY DEF Inv
<1>3. CASE state[p] = "sync"
  BY <1>1, <1>2, <1>3 DEF EndInv, Parted
<1>4. CASE state[p] # "sync"
  BY <1>1, <1>2, <1>4 DEF EndInv, Joined, Up
<1> QED
  BY <1>3, <1>4

(* A client is given a frame, or the room for one, that is there.          *)
LEMMA Grants ==
    ASSUME Inv, NEW e \in Ends, Up(e)
    PROVE  /\ CheckWrite(e) <=> Len(wire[e]) < NFrames
           /\ CheckRead(e) <=> wire[Peer(e)] # <<>>
<1>1. PICK p \in Ends : p = Peer(e) /\ Peer(p) = e
  BY Peers
<1>2. /\ wire[e] \in Seq(Data) /\ wire[p] \in Seq(Data)
      /\ Diff(wCount[e], rCount[p]) = Len(wire[e])
      /\ Diff(wCount[p], rCount[e]) = Len(wire[p]) /\ Len(wire[p]) <= NFrames
      /\ state[e] = "established"
  BY <1>1, UpSees DEF Counted, Inv, TypeOK, Up
<1>3. /\ Len(wire[e]) \in Nat /\ Len(wire[p]) \in Nat
      /\ Len(wire[p]) = 0 <=> wire[p] = <<>>
  BY <1>2, LenProperties, EmptySeq
<1> QED
  BY <1>1, <1>2, <1>3, FramesAssumption DEF CheckWrite, CheckRead, Full, Empty

(* A step of a call that neither stores in a channel nor moves a position. *)
LEMMA CallStep ==
    ASSUME Inv, NEW e \in Ends,
           pc[e] \notin {"start", "clearW", "clearR", "set"},
           pc'[e] \notin {"start", "clearW", "clearR", "set"},
           pc'[Peer(e)] = pc[Peer(e)], got'[Peer(e)] = got[Peer(e)],
           UNCHANGED <<state, wCount, rCount, frames, wPos, rPos, goal, wire>>,
           TypeOK', Granted(e)'
    PROVE  Inv'
<1>1. PICK p \in Ends : p = Peer(e) /\ p # e /\ Peer(p) = e
  BY Peers
<1>2. EndInv(e) /\ EndInv(p)
  BY DEF Inv
<1>3. /\ Counted(e)' = Counted(e) /\ Counted(p)' = Counted(p)
      /\ Readable(e)' = Readable(e) /\ Readable(p)' = Readable(p)
      /\ InPlace(e)' = InPlace(e) /\ InPlace(p)' = InPlace(p)
      /\ TxCleared(e)' = TxCleared(e) /\ RxCleared(e)' = RxCleared(e)
      /\ TxCleared(p)' = TxCleared(p) /\ RxCleared(p)' = RxCleared(p)
  BY Quiet
<1>4. EndInv(e)'
  BY <1>1, <1>2, <1>3
  DEF EndInv, Cleared, Handshake, MidNotified, Joined, Parted, Up
<1>5. EndInv(p)'
  BY <1>1, <1>2, <1>3
  DEF EndInv, Cleared, Handshake, MidNotified, Joined, Parted, Up, Granted
<1> QED
  BY <1>1, <1>4, <1>5, BothEnds

LEMMA QuietStep ==
    ASSUME Inv, NEW e \in Ends,
           \/ Notify(e) \/ WriteNotify(e) \/ ReadNotify(e)
           \/ ReadNothing(e) \/ ReadGetNextFrame(e) \/ AdvanceFails(e)
    PROVE  Inv'
<1>1. PICK p \in Ends : p = Peer(e) /\ p # e /\ Peer(p) = e
  BY Peers
<1>2. EndInv(e) /\ TypeOK
  BY DEF Inv
<1>3. /\ pc'[p] = pc[p] /\ pc[e] \notin {"start", "clearW", "clearR", "set"}
      /\ pc'[e] \in {"idle", "notify", "found"}
      /\ pc'[e] = "found" => pc[e] = "idle" /\ CheckRead(e)
      /\ UNCHANGED <<state, wCount, rCount, frames, wPos, rPos, goal, got, wire>>
  BY <1>1, <1>2 DEF Notify, WriteNotify, ReadNotify, ReadNothing,
     ReadGetNextFrame, AdvanceFails, Step, counters, TypeOK
<1>4. Granted(e)'
  <2>1. pc'[e] = "found" => state[e] = "established" /\ Up(e) /\ wire[p] # <<>>
    BY <1>1, <1>3, Grants DEF CheckRead, Up, MidNotified
  <2> QED
    BY <1>1, <1>3, <2>1 DEF Granted
<1>5. TypeOK'
  BY <1>2, TypeStep DEF EndInv, Protocol, Transmit, Receive
<1> QED
  BY <1>1, <1>3, <1>4, <1>5, CallStep

(* The frame the client copies is the oldest one on the channel.           *)
LEMMA ReadFrameStep ==
    ASSUME Inv, NEW e \in Ends, ReadFrame(e)
    PROVE  Inv'
<1>1. PICK p \in Ends : p = Peer(e) /\ p # e /\ Peer(p) = e
  BY Peers
<1>2. EndInv(e) /\ TypeOK
  BY DEF Inv
<1>3. /\ pc[e] = "found" /\ pc'[e] = "read" /\ pc'[p] = pc[p]
      /\ got'[e] = frames[p][rPos[e]] /\ got'[p] = got[p]
      /\ UNCHANGED <<state, wCount, rCount, frames, wPos, rPos, goal, wire>>
  BY <1>1, <1>2 DEF ReadFrame, Step, counters, TypeOK
<1>4. state[e] = "established" /\ Up(e) /\ wire[p] # <<>>
  BY <1>1, <1>2, <1>3 DEF EndInv, Granted, Up, MidNotified
<1>5. frames[p][rPos[e]] = wire[p][1]
  <2>1. wire[p] \in Seq(Data) /\ rPos[e] \in Pos
    BY <1>2 DEF TypeOK
  <2>2. 1 \in 1..Len(wire[p])
    BY <1>4, <2>1, EmptySeq, LenProperties
  <2>3. Slot(rPos[e], 0) = rPos[e]
    BY <2>1, SlotNext, FramesAssumption
  <2>4. frames[p][Slot(rPos[e], 1 - 1)] = wire[p][1]
    BY <1>1, <1>4, <2>2, UpSees DEF Readable
  <2> QED
    BY <2>3, <2>4
<1>6. Granted(e)'
  BY <1>1, <1>3, <1>4, <1>5 DEF Granted
<1>7. TypeOK'
  BY <1>2, TypeStep DEF EndInv, Receive
<1> QED
  BY <1>1, <1>3, <1>6, <1>7, CallStep

(* tegra_ivc_channel_notified: the stores.  An end between its loads and   *)
(* its store of the state either is in ack, and its side is cleared        *)
(* already, or no client of its peer is in a call.                         *)
LEMMA AloneOrCleared ==
    ASSUME NEW e \in Ends, NEW p \in Ends, p = Peer(e), EndInv(e), TypeOK,
           pc[e] \in {"clearW", "clearR"}
    PROVE  \/ state[e] = "ack" /\ TxCleared(e) /\ RxCleared(e)
           \/ /\ state[p] # "established"
              /\ state[e] = "sync" \/ state[p] = "sync"
BY DEF EndInv, Cleared, Handshake, MidNotified, TypeOK, States

LEMMA ClearTxStep ==
    ASSUME Inv, NEW e \in Ends, ClearTx(e)
    PROVE  Inv'
<1>1. PICK p \in Ends : p = Peer(e) /\ p # e /\ Peer(p) = e
  BY Peers
<1>2. EndInv(e) /\ EndInv(p) /\ TypeOK
  BY DEF Inv
<1>3. /\ pc[e] = "clearW" /\ pc'[e] = "clearR" /\ pc'[p] = pc[p]
      /\ wCount'[e] = 0 /\ wCount'[p] = wCount[p]
      /\ wPos'[e] = 0 /\ wPos'[p] = wPos[p]
      /\ wire'[e] = <<>> /\ wire'[p] = wire[p]
      /\ UNCHANGED <<state, rCount, frames, rPos, goal, got>>
  BY <1>1, <1>2 DEF ClearTx, Step, TypeOK
<1>4. Cleared(e)' /\ Cleared(p)' /\ Handshake(e)' /\ Handshake(p)'
  BY <1>1, <1>2, <1>3
  DEF EndInv, Cleared, TxCleared, RxCleared, Handshake, MidNotified
<1>5. Counted(p)' = Counted(p) /\ Readable(p)' = Readable(p) /\ InPlace(p)' = InPlace(p)
  BY <1>1, <1>3 DEF Counted, Readable, InPlace
<1>6. ASSUME state[e] = "ack", TxCleared(e)
      PROVE  Joined(e)' /\ Joined(p)' /\ Parted(e)' /\ Parted(p)'
             /\ Granted(e)' /\ Granted(p)'
  <2>1. wCount'[e] = wCount[e] /\ wPos'[e] = wPos[e] /\ wire'[e] = wire[e]
    BY <1>3, <1>6 DEF TxCleared
  <2>2. Counted(e)' = Counted(e) /\ Readable(e)' = Readable(e) /\ InPlace(e)' = InPlace(e)
    BY <1>1, <1>3, <2>1 DEF Counted, Readable, InPlace
  <2> QED
    BY <1>1, <1>2, <1>3, <1>5, <1>6, <2>1, <2>2
    DEF EndInv, Joined, Parted, Up, MidNotified, Granted
<1>7. ASSUME state[p] # "established", state[e] = "sync" \/ state[p] = "sync"
      PROVE  Joined(e)' /\ Joined(p)' /\ Parted(e)' /\ Parted(p)'
             /\ Granted(e)' /\ Granted(p)'
  BY <1>1, <1>2, <1>3, <1>7
  DEF EndInv, Joined, Parted, Up, MidNotified, Granted
<1>8. Joined(e)' /\ Joined(p)' /\ Parted(e)' /\ Parted(p)' /\ Granted(e)' /\ Granted(p)'
  BY <1>1, <1>2, <1>3, <1>6, <1>7, AloneOrCleared
<1>9. TypeOK'
  BY <1>2, TypeStep DEF EndInv, Protocol
<1> QED
  BY <1>1, <1>4, <1>8, <1>9, BothEnds DEF EndInv

LEMMA ClearRxStep ==
    ASSUME Inv, NEW e \in Ends, ClearRx(e)
    PROVE  Inv'
<1>1. PICK p \in Ends : p = Peer(e) /\ p # e /\ Peer(p) = e
  BY Peers
<1>2. EndInv(e) /\ EndInv(p) /\ TypeOK
  BY DEF Inv
<1>3. /\ pc[e] = "clearR" /\ pc'[e] = "set" /\ pc'[p] = pc[p]
      /\ rCount'[e] = 0 /\ rCount'[p] = rCount[p]
      /\ rPos'[e] = 0 /\ rPos'[p] = rPos[p]
      /\ UNCHANGED <<state, wCount, frames, wPos, goal, got, wire>>
  BY <1>1, <1>2 DEF ClearRx, Step, TypeOK
<1>4. Cleared(e)' /\ Cleared(p)' /\ Handshake(e)' /\ Handshake(p)'
  BY <1>1, <1>2, <1>3
  DEF EndInv, Cleared, TxCleared, RxCleared, Handshake, MidNotified
<1>5. Counted(e)' = Counted(e) /\ Readable(e)' = Readable(e) /\ InPlace(e)' = InPlace(e)
  BY <1>1, <1>3 DEF Counted, Readable, InPlace
<1>6. ASSUME state[e] = "ack", RxCleared(e)
      PROVE  Joined(e)' /\ Joined(p)' /\ Parted(e)' /\ Parted(p)'
  <2>1. rCount'[e] = rCount[e] /\ rPos'[e] = rPos[e]
    BY <1>3, <1>6 DEF RxCleared
  <2>2. Counted(p)' = Counted(p) /\ Readable(p)' = Readable(p) /\ InPlace(p)' = InPlace(p)
    BY <1>1, <1>3, <2>1 DEF Counted, Readable, InPlace
  <2> QED
    BY <1>1, <1>2, <1>3, <1>5, <1>6, <2>2
    DEF EndInv, Joined, Parted, Up, MidNotified
<1>7. ASSUME state[p] # "established", state[e] = "sync" \/ state[p] = "sync"
      PROVE  Joined(e)' /\ Joined(p)' /\ Parted(e)' /\ Parted(p)'
  BY <1>1, <1>2, <1>3, <1>7 DEF EndInv, Joined, Parted, Up, MidNotified
<1>8. Joined(e)' /\ Joined(p)' /\ Parted(e)' /\ Parted(p)'
  BY <1>1, <1>2, <1>3, <1>6, <1>7, AloneOrCleared
<1>9. Granted(e)' /\ Granted(p)'
  BY <1>1, <1>2, <1>3 DEF EndInv, Granted
<1>10. TypeOK'
  BY <1>2, TypeStep DEF EndInv, Protocol
<1> QED
  BY <1>1, <1>4, <1>8, <1>9, <1>10, BothEnds DEF EndInv

(* A channel whose two ends are cleared is sound.                          *)
LEMMA ClearedChannel ==
    ASSUME NEW e \in Ends, TxCleared(e), RxCleared(Peer(e))
    PROVE  Counted(e) /\ Readable(e) /\ InPlace(e)
<1>1. 0 \in Pos /\ 0 \in Count /\ 0 \in 0..(NFrames - 1) /\ NFrames \in Nat
  BY FramesAssumption, CountAssumption DEF Pos, Count
<1>2. Slot(0, 0) = 0 /\ Diff(0, 0) = 0
  BY <1>1, SlotNext, DiffInc
<1>3. Len(wire[e]) = 0
  BY DEF TxCleared
<1> QED
  BY <1>1, <1>2, <1>3 DEF TxCleared, RxCleared, Counted, Readable, InPlace

(* The store of the state.  It joins the channel only when both ends are   *)
(* cleared.                                                                *)
LEMMA SetStateStep ==
    ASSUME Inv, NEW e \in Ends, SetState(e)
    PROVE  Inv'
<1>1. PICK p \in Ends : p = Peer(e) /\ p # e /\ Peer(p) = e
  BY Peers
<1>2. EndInv(e) /\ EndInv(p) /\ TypeOK
  BY DEF Inv
<1>3. /\ pc[e] = "set" /\ pc'[e] = "notify" /\ pc'[p] = pc[p]
      /\ state'[e] = goal[e] /\ state'[p] = state[p]
      /\ UNCHANGED <<wCount, rCount, frames, wPos, rPos, goal, got, wire>>
  BY <1>1, <1>2 DEF SetState, Step, counters, TypeOK
<1>4. /\ Counted(e)' = Counted(e) /\ Counted(p)' = Counted(p)
      /\ Readable(e)' = Readable(e) /\ Readable(p)' = Readable(p)
      /\ InPlace(e)' = InPlace(e) /\ InPlace(p)' = InPlace(p)
      /\ TxCleared(e)' = TxCleared(e) /\ RxCleared(e)' = RxCleared(e)
      /\ TxCleared(p)' = TxCleared(p) /\ RxCleared(p)' = RxCleared(p)
  BY <1>3, Quiet
<1>5. /\ state[e] \in States /\ state[p] \in States
      /\ goal[e] \in {"ack", "established"}
      /\ state[e] = "established" => goal[e] = "ack" /\ state[p] = "sync"
      /\ state[e] = "sync" /\ goal[e] = "ack" => state[p] \in {"sync", "ack"}
      /\ state[e] = "sync" /\ goal[e] = "established" => state[p] = "ack"
      /\ state[e] = "ack" /\ goal[e] = "established" => state[p] # "sync"
      /\ TxCleared(e) /\ RxCleared(e)
  BY <1>1, <1>2, <1>3 DEF EndInv, Handshake, Cleared, MidNotified, TypeOK
<1>6. Cleared(e)' /\ Cleared(p)' /\ Handshake(e)' /\ Granted(e)' /\ Granted(p)'
  BY <1>1, <1>2, <1>3, <1>4, <1>5 DEF EndInv, Cleared, Handshake, MidNotified, Granted
<1>7. Handshake(p)'
  BY <1>1, <1>2, <1>3, <1>5 DEF EndInv, Handshake, MidNotified, States
<1>8. Joined(e)' /\ Joined(p)'
  <2>1. CASE state[p] = "sync"
    BY <1>1, <1>3, <2>1 DEF Joined
  <2>2. CASE state[p] # "sync" /\ state[e] = "sync"
    <3>1. TxCleared(p) /\ RxCleared(p)
      BY <1>2, <1>5, <2>2 DEF EndInv, Cleared
    <3>2. /\ Counted(e) /\ Readable(e) /\ InPlace(e)
          /\ Counted(p) /\ Readable(p) /\ InPlace(p)
      BY <1>1, <1>5, <3>1, ClearedChannel
    <3> QED
      BY <1>4, <3>2 DEF Joined
  <2>3. CASE state[p] # "sync" /\ state[e] # "sync"
    BY <1>1, <1>2, <1>3, <1>4, <2>3 DEF EndInv, Joined
  <2> QED
    BY <2>1, <2>2, <2>3
<1>9. Parted(e)' /\ Parted(p)'
  BY <1>1, <1>3, <1>5 DEF Parted, Up, States
<1>10. TypeOK'
  BY <1>2, TypeStep DEF EndInv, Protocol
<1> QED
  BY <1>1, <1>6, <1>7, <1>8, <1>9, <1>10, BothEnds DEF EndInv
-----------------------------------------------------------------------------
(* The client fills a frame that holds nothing the peer may still read.    *)
LEMMA WriteFrameStep ==
    ASSUME Inv, NEW e \in Ends, NEW d \in Data, WriteFrame(e, d)
    PROVE  Inv'
<1>1. PICK p \in Ends : p = Peer(e) /\ p # e /\ Peer(p) = e
  BY Peers
<1>2. EndInv(e) /\ EndInv(p) /\ TypeOK
  BY DEF Inv
<1>3. /\ CheckWrite(e) /\ state[e] = "established"
      /\ pc[e] = "idle" /\ pc'[e] = "filled" /\ pc'[p] = pc[p]
      /\ frames'[p] = frames[p]
      /\ \A k \in Pos : k # wPos[e] => frames'[e][k] = frames[e][k]
      /\ UNCHANGED <<state, wCount, rCount, wPos, rPos, goal, got, wire>>
  BY <1>1, <1>2 DEF WriteFrame, CheckWrite, Step, counters, TypeOK
<1>4. Len(wire[e]) \in Nat /\ Len(wire[e]) < NFrames
  BY <1>2, <1>3, Grants, LenProperties DEF Up, MidNotified, TypeOK
<1>5. /\ Counted(e)' = Counted(e) /\ Counted(p)' = Counted(p)
      /\ Readable(p)' = Readable(p)
      /\ InPlace(e)' = InPlace(e) /\ InPlace(p)' = InPlace(p)
      /\ TxCleared(p)' = TxCleared(p) /\ RxCleared(p)' = RxCleared(p)
  BY <1>3 DEF Counted, Readable, InPlace, TxCleared, RxCleared
<1>6. ASSUME Readable(e), InPlace(e) PROVE Readable(e)'
  <2> SUFFICES ASSUME NEW i \in 1..Len(wire[e])
               PROVE  frames'[e][Slot(rPos[p], i - 1)] = wire[e][i]
    BY <1>1, <1>3 DEF Readable
  <2>1. PICK a \in Pos, n \in 0..(NFrames - 1), k \in 0..(NFrames - 1) :
           a = rPos[p] /\ n = Len(wire[e]) /\ k = i - 1
    BY <1>2, <1>4, FramesAssumption DEF TypeOK
  <2>2. k # n /\ k \in 0..NFrames
    BY <1>4, <2>1, FramesAssumption
  <2>3. Slot(a, k) \in Pos /\ Slot(a, k) # Slot(a, n)
    BY <2>2, Slots, SlotsApart
  <2>4. wPos[e] = Slot(a, n) /\ frames[e][Slot(a, k)] = wire[e][i]
    BY <1>1, <1>6, <2>1 DEF InPlace, Readable
  <2> QED
    BY <1>3, <2>1, <2>3, <2>4
<1>7. Joined(e)' /\ Joined(p)'
  BY <1>1, <1>2, <1>3, <1>5, <1>6 DEF EndInv, Joined
<1>8. Parted(e)' /\ Parted(p)'
  BY <1>1, <1>2, <1>3, <1>5 DEF EndInv, Parted, Up, MidNotified
<1>9. Cleared(e)' /\ Cleared(p)' /\ Handshake(e)' /\ Handshake(p)'
  BY <1>1, <1>2, <1>3, <1>5 DEF EndInv, Cleared, Handshake, MidNotified
<1>10. Granted(e)' /\ Granted(p)'
  BY <1>1, <1>2, <1>3, <1>4 DEF EndInv, Granted
<1>11. TypeOK'
  BY <1>2, TypeStep DEF EndInv, Transmit
<1> QED
  BY <1>1, <1>7, <1>8, <1>9, <1>10, <1>11, BothEnds DEF EndInv

(* tegra_ivc_write_advance publishes the frame behind the others.          *)
LEMMA WriteAdvanceStep ==
    ASSUME Inv, NEW e \in Ends, WriteAdvance(e)
    PROVE  Inv'
<1>1. PICK p \in Ends : p = Peer(e) /\ p # e /\ Peer(p) = e
  BY Peers
<1>2. EndInv(e) /\ EndInv(p) /\ TypeOK
  BY DEF Inv
<1>3. PICK f \in Data, s \in Seq(Data) : f = frames[e][wPos[e]] /\ s = wire[e]
  BY <1>2 DEF TypeOK
<1>4. /\ state[e] = "established"
      /\ pc[e] = "filled" /\ pc'[e] = "wrote" /\ pc'[p] = pc[p]
      /\ wCount'[e] = Inc(wCount[e]) /\ wCount'[p] = wCount[p]
      /\ wPos'[e] = IncPos(wPos[e]) /\ wPos'[p] = wPos[p]
      /\ wire'[e] = Append(s, f) /\ wire'[p] = wire[p]
      /\ UNCHANGED <<state, rCount, frames, rPos, goal, got>>
  BY <1>1, <1>2, <1>3 DEF WriteAdvance, CheckWrite, Step, TypeOK
<1>5. PICK n \in 0..(NFrames - 1) : n = Len(s)
  BY <1>2, <1>3, <1>4, LenProperties, FramesAssumption DEF EndInv, Granted
<1>6. /\ Len(wire'[e]) = n + 1 /\ wire'[e][n + 1] = f
      /\ \A i \in 1..n : wire'[e][i] = s[i]
  BY <1>4, <1>5
<1>7. Counted(p)' = Counted(p) /\ Readable(p)' = Readable(p) /\ InPlace(p)' = InPlace(p)
  BY <1>1, <1>4 DEF Counted, Readable, InPlace
<1>8. Counted(e)'
  <2>1. PICK w \in Count, r \in Count : w = wCount[e] /\ r = rCount[p]
    BY <1>2 DEF TypeOK
  <2>2. Diff(w, r) = n
    BY <1>1, <1>3, <1>4, <1>5, <2>1, UpSees DEF Counted, Up, MidNotified
  <2>3. Diff(Inc(w), r) = n + 1
    BY <1>5, <2>2, DiffInc, FramesAssumption
  <2> QED
    BY <1>1, <1>4, <1>5, <1>6, <2>1, <2>3, FramesAssumption DEF Counted
<1>9. ASSUME Readable(e), InPlace(e) PROVE Readable(e)'
  <2> SUFFICES ASSUME NEW i \in 1..(n + 1)
               PROVE  frames[e][Slot(rPos[p], i - 1)] = wire'[e][i]
    BY <1>1, <1>4, <1>6 DEF Readable
  <2>1. CASE i \in 1..n
    BY <1>1, <1>3, <1>5, <1>6, <1>9, <2>1 DEF Readable
  <2>2. CASE i = n + 1
    <3>1. wPos[e] = Slot(rPos[p], n) /\ i - 1 = n
      BY <1>1, <1>3, <1>5, <1>9, <2>2 DEF InPlace
    <3> QED
      BY <1>3, <1>6, <2>2, <3>1
  <2> QED
    BY <1>5, <2>1, <2>2
<1>10. ASSUME InPlace(e) PROVE InPlace(e)'
  <2>1. PICK a \in Pos : a = rPos[p]
    BY <1>2 DEF TypeOK
  <2>2. wPos[e] = Slot(a, n)
    BY <1>1, <1>3, <1>5, <1>10, <2>1 DEF InPlace
  <2>3. IncPos(Slot(a, n)) = Slot(a, n + 1)
    BY <1>5, <2>1, SlotNext
  <2>4. wPos'[e] = Slot(a, n + 1)
    BY <1>4, <2>2, <2>3
  <2>5. rPos'[Peer(e)] = a /\ Len(wire'[e]) = n + 1
    BY <1>1, <1>4, <1>6, <2>1
  <2> QED
    BY <2>4, <2>5 DEF InPlace
<1>11. Joined(e)' /\ Joined(p)'
  BY <1>1, <1>2, <1>4, <1>7, <1>8, <1>9, <1>10 DEF EndInv, Joined
<1>12. Parted(e)' /\ Parted(p)'
  BY <1>1, <1>2, <1>4, <1>7, <1>8 DEF EndInv, Parted, Up, MidNotified
<1>13. Cleared(e)' /\ Cleared(p)' /\ Handshake(e)' /\ Handshake(p)'
  BY <1>1, <1>2, <1>4
  DEF EndInv, Cleared, TxCleared, RxCleared, Handshake, MidNotified
<1>14. Granted(e)'
  BY <1>1, <1>4 DEF Granted
<1>15. Granted(p)'
  <2>1. wire'[e] # <<>>
    BY <1>5, <1>6
  <2>2. s # <<>> => wire'[e][1] = s[1]
    BY <1>3, <1>5, <1>6, EmptySeq, LenProperties
  <2> QED
    BY <1>1, <1>2, <1>3, <1>4, <2>1, <2>2 DEF EndInv, Granted
<1>16. TypeOK'
  BY <1>2, TypeStep DEF EndInv, Transmit
<1> QED
  BY <1>1, <1>11, <1>12, <1>13, <1>14, <1>15, <1>16, BothEnds DEF EndInv

(* tegra_ivc_read_advance takes the oldest frame off the channel.          *)
LEMMA ReadAdvanceStep ==
    ASSUME Inv, NEW e \in Ends, ReadAdvance(e)
    PROVE  Inv'
<1>1. PICK p \in Ends : p = Peer(e) /\ p # e /\ Peer(p) = e
  BY Peers
<1>2. EndInv(e) /\ EndInv(p) /\ TypeOK
  BY DEF Inv
<1>3. PICK s \in Seq(Data) : s = wire[p]
  BY <1>2 DEF TypeOK
<1>31. s # <<>>
  BY <1>1, <1>2, <1>3 DEF ReadAdvance, Step, EndInv, Granted
<1>4. /\ state[e] = "established"
      /\ pc[e] = "read" /\ pc'[e] = "consumed" /\ pc'[p] = pc[p]
      /\ rCount'[e] = Inc(rCount[e]) /\ rCount'[p] = rCount[p]
      /\ rPos'[e] = IncPos(rPos[e]) /\ rPos'[p] = rPos[p]
      /\ wire'[p] = Tail(s) /\ wire'[e] = wire[e]
      /\ UNCHANGED <<state, wCount, frames, wPos, goal, got>>
  BY <1>1, <1>2, <1>3, <1>31 DEF ReadAdvance, CheckRead, Step, TypeOK
<1>5. /\ s # <<>> /\ Len(s) <= NFrames /\ Readable(p)
      /\ Diff(wCount[p], rCount[e]) = Len(s)
  BY <1>1, <1>2, <1>3, <1>4, UpSees DEF EndInv, Granted, Counted, Up, MidNotified
<1>6. PICK n \in 0..(NFrames - 1) : Len(s) = n + 1
  <2>1. Len(s) \in Nat /\ Len(s) # 0
    BY <1>5, LenProperties, EmptySeq
  <2> QED
    BY <1>5, <2>1, FramesAssumption
<1>7. Len(wire'[p]) = n /\ \A i \in 1..n : wire'[p][i] = s[i + 1]
  BY <1>4, <1>5, <1>6, HeadTailProperties
<1>8. Counted(e)' = Counted(e) /\ Readable(e)' = Readable(e) /\ InPlace(e)' = InPlace(e)
  BY <1>1, <1>4 DEF Counted, Readable, InPlace
<1>9. PICK a \in Pos : a = rPos[e]
  BY <1>2 DEF TypeOK
<1>10. Counted(p)'
  <2>1. PICK w \in Count, r \in Count : w = wCount[p] /\ r = rCount[e]
    BY <1>2 DEF TypeOK
  <2>2. Diff(w, r) = n + 1 /\ n + 1 # 0
    BY <1>5, <1>6, <2>1, FramesAssumption
  <2>3. Diff(w, Inc(r)) = n
    BY <2>2, DiffInc, FramesAssumption
  <2> QED
    BY <1>1, <1>4, <1>7, <2>1, <2>3, FramesAssumption DEF Counted
<1>11. Readable(p)'
  <2> SUFFICES ASSUME NEW i \in 1..n
               PROVE  frames[p][Slot(IncPos(a), i - 1)] = wire'[p][i]
    BY <1>1, <1>4, <1>7, <1>9 DEF Readable
  <2>1. PICK k \in 0..(NFrames - 1) : k = i - 1 /\ k + 1 = (i + 1) - 1
    BY <1>6, FramesAssumption
  <2>2. Slot(IncPos(a), k) = Slot(a, k + 1)
    BY SlotNext
  <2>3. i + 1 \in 1..Len(s)
    BY <1>6, FramesAssumption
  <2>4. frames[p][Slot(a, (i + 1) - 1)] = s[i + 1]
    BY <1>1, <1>3, <1>5, <1>9, <2>3 DEF Readable
  <2> QED
    BY <1>7, <2>1, <2>2, <2>4
<1>12. ASSUME InPlace(p) PROVE InPlace(p)'
  <2>1. wPos[p] = Slot(a, n + 1)
    BY <1>1, <1>3, <1>6, <1>9, <1>12 DEF InPlace
  <2> QED
    BY <1>1, <1>4, <1>7, <1>9, <2>1, SlotNext DEF InPlace
<1>13. Joined(e)' /\ Joined(p)'
  BY <1>1, <1>2, <1>4, <1>8, <1>10, <1>11, <1>12 DEF EndInv, Joined
<1>14. Parted(e)' /\ Parted(p)'
  BY <1>1, <1>2, <1>4, <1>8, <1>10, <1>11 DEF EndInv, Parted, Up, MidNotified
<1>15. Cleared(e)' /\ Cleared(p)' /\ Handshake(e)' /\ Handshake(p)'
  BY <1>1, <1>2, <1>3, <1>4, <1>5
  DEF EndInv, Cleared, TxCleared, RxCleared, Handshake, MidNotified
<1>16. Granted(e)' /\ Granted(p)'
  BY <1>1, <1>2, <1>3, <1>4, <1>6, <1>7, FramesAssumption DEF EndInv, Granted
<1>17. TypeOK'
  BY <1>2, TypeStep DEF EndInv, Receive
<1> QED
  BY <1>1, <1>13, <1>14, <1>15, <1>16, <1>17, BothEnds DEF EndInv
-----------------------------------------------------------------------------
LEMMA InvStep ==
    ASSUME Inv, ~overtaken', [Next]_vars
    PROVE  Inv'
<1>1. CASE UNCHANGED vars
  <2>1. TypeOK'
    BY <1>1 DEF Inv, TypeOK, vars
  <2>2. ASSUME NEW x \in Ends PROVE EndInv(x)'
    <3>1. EndInv(x)
      BY DEF Inv
    <3> QED
      BY <1>1, <3>1 DEF vars, EndInv, Cleared, TxCleared, RxCleared, Handshake,
         MidNotified, Joined, Parted, Up, Granted, Counted, Readable, InPlace
  <2> QED
    BY <2>1, <2>2 DEF Inv
<1>2. ASSUME NEW e \in Ends,
             \/ Restart(e) \/ ChannelReset(e)
             \/ Protocol(e) \/ Transmit(e) \/ Receive(e)
      PROVE  Inv'
  <2>1. ASSUME NEW d \in Data, WriteFrame(e, d) PROVE Inv'
    BY <2>1, WriteFrameStep
  <2> QED
    BY <1>2, <2>1, RestartStep, ChannelResetStep, QuietStep, ChannelNotifiedStep,
       ClearTxStep, ClearRxStep, SetStateStep, WriteAdvanceStep, ReadFrameStep,
       ReadAdvanceStep
    DEF Protocol, Transmit, Receive
<1> QED
  BY <1>1, <1>2 DEF Next

(* A reset that has overtaken the peer stays on record.                    *)
LEMMA Recorded ==
    ASSUME [Next]_vars, overtaken
    PROVE  overtaken'
BY DEF Next, vars, Restart, ChannelReset, Protocol, Transmit, Receive, Notify,
   ChannelNotified, ClearTx, ClearRx, SetState, WriteFrame, WriteAdvance,
   WriteNotify, ReadGetNextFrame, ReadNothing, ReadFrame, ReadAdvance,
   ReadNotify, AdvanceFails

LEMMA SafeStep ==
    ASSUME Safe, [Next]_vars
    PROVE  Safe'
<1>1. overtaken => overtaken'
  BY Recorded
<1>2. TypeOK'
  <2>1. CASE UNCHANGED vars
    BY <2>1 DEF Safe, TypeOK, vars
  <2>2. CASE Next
    BY <2>2, TypeStep DEF Safe, Next
  <2> QED
    BY <2>1, <2>2
<1>3. ASSUME ~overtaken' PROVE Inv'
  BY <1>1, <1>3, InvStep DEF Safe
<1> QED
  BY <1>2, <1>3 DEF Safe

LEMMA SafeHolds == Spec => []Safe
<1>1. Init => Safe
  BY Initially DEF Safe, Inv
<1>2. Safe /\ [Next]_vars => Safe'
  BY SafeStep
<1> QED
  BY <1>1, <1>2, PTL DEF Spec

(* What an end may use is granted: it is past its start and not in         *)
(* channel_notified while a call is in progress.                           *)
LEMMA CallIsUp ==
    ASSUME Inv, NEW e \in Ends, pc[e] \in {"filled", "found", "read"}
    PROVE  Up(e)
BY DEF Inv, EndInv, Granted, Up, MidNotified

LEMMA Soundness == Inv => EstablishedAgree /\ AdvanceSucceeds /\ ReadsOldest
<1> SUFFICES ASSUME Inv PROVE EstablishedAgree /\ AdvanceSucceeds /\ ReadsOldest
  OBVIOUS
<1>1. EstablishedAgree
  <2> SUFFICES ASSUME NEW e \in Ends, Up(e)
               PROVE  /\ Diff(wCount[Peer(e)], rCount[e]) = Len(wire[Peer(e)])
                      /\ Diff(wCount[e], rCount[Peer(e)]) = Len(wire[e])
                      /\ Len(wire[Peer(e)]) <= NFrames
                      /\ \A i \in 1..Len(wire[Peer(e)]) :
                            frames[Peer(e)][(rPos[e] + i - 1) % NFrames] = wire[Peer(e)][i]
    BY DEF EstablishedAgree
  <2>1. PICK p \in Ends : p = Peer(e) /\ Peer(p) = e
    BY Peers
  <2>2. Counted(e) /\ Counted(p) /\ Readable(p)
    BY <2>1, UpSees
  <2>3. ASSUME NEW i \in 1..Len(wire[p])
        PROVE  frames[p][(rPos[e] + i - 1) % NFrames] = wire[p][i]
    <3>1. frames[p][Slot(rPos[e], i - 1)] = wire[p][i]
      BY <2>1, <2>2 DEF Readable
    <3>2. rPos[e] + (i - 1) = rPos[e] + i - 1
      <4>1. rPos[e] \in Pos
        BY DEF Inv, TypeOK
      <4>2. i \in Int
        OBVIOUS
      <4> QED
        BY <4>1, <4>2, FramesAssumption DEF Pos
    <3> QED
      BY <3>1, <3>2 DEF Slot
  <2> QED
    BY <2>1, <2>2, <2>3 DEF Counted
<1>2. AdvanceSucceeds
  <2> SUFFICES ASSUME NEW e \in Ends
               PROVE  /\ pc[e] = "filled" => CheckWrite(e)
                      /\ pc[e] \in {"found", "read"} => CheckRead(e)
    BY DEF AdvanceSucceeds
  <2> QED
    BY CallIsUp, Grants DEF Inv, EndInv, Granted
<1>3. ReadsOldest
  <2> SUFFICES ASSUME NEW e \in Ends, pc[e] = "read"
               PROVE  wire[Peer(e)] # <<>> /\ got[e] = Head(wire[Peer(e)])
    BY DEF ReadsOldest
  <2> QED
    BY DEF Inv, EndInv, Granted
<1> QED
  BY <1>1, <1>2, <1>3

(* A client of tegra_ivc_* may rely on an established end: its counters    *)
(* tell what the peer has published and freed, an advance after a grant    *)
(* succeeds, and the frame read is the oldest, across resets, crashes and  *)
(* counter wraps, up to the first tegra_ivc_channel_reset that falls       *)
(* within a tegra_ivc_channel_notified of the peer.                        *)
THEOREM ChannelIsSound == Spec => []ChannelSound
<1>1. Spec => []Safe
  BY SafeHolds
<1>2. Safe => ChannelSound
  BY Soundness DEF Safe, ChannelSound
<1> QED
  BY <1>1, <1>2, PTL
-----------------------------------------------------------------------------
(* The refinement.  The abstract link is up at the ends that are Up, and   *)
(* its queues are the frames on the wire.                                  *)
Ups == [e \in Ends |-> Up(e)]

LEMMA OtherIsPeer ==
    ASSUME NEW e \in Ends
    PROVE  A!Other(e) = Peer(e)
BY DEF A!Other, Ends, Peer

(* What a step of e does to the abstract state: the peer's end stays as it *)
(* is, and e's end stays, goes down or comes up.                           *)
LEMMA UpsStep ==
    ASSUME NEW e \in Ends, NEW p \in Ends, p = Peer(e), Up(p)' = Up(p)
    PROVE  /\ Up(e)' = Up(e) => Ups' = Ups
           /\ ~Up(e)' => Ups' = [Ups EXCEPT ![e] = FALSE]
           /\ Up(e)' => Ups' = [Ups EXCEPT ![e] = TRUE]
<1>1. \A x \in Ends : x = e \/ x = p
  BY Peers
<1>2. p # e
  BY Peers
<1>3. Up(e) \in BOOLEAN /\ Up(p) \in BOOLEAN /\ Up(e)' \in BOOLEAN
  BY DEF Up
<1> QED
  BY <1>1, <1>2, <1>3 DEF Ups

LEMMA AbsStutter ==
    ASSUME NEW e \in Ends, NEW p \in Ends, p = Peer(e), Up(p)' = Up(p),
           Up(e)' = Up(e), wire' = wire
    PROVE  UNCHANGED A!ivcVars
BY UpsStep DEF A!ivcVars, Ups

LEMMA AbsDown ==
    ASSUME NEW e \in Ends, NEW p \in Ends, p = Peer(e), Up(p)' = Up(p),
           ~Up(e)', wire' = wire
    PROVE  A!Next
<1>1. A!Down(e)
  BY UpsStep DEF A!Down, Ups
<1> QED
  BY <1>1 DEF A!Next

LEMMA AbsUp ==
    ASSUME NEW e \in Ends, NEW p \in Ends, p = Peer(e), Up(p)' = Up(p),
           Up(e)', wire[e] = <<>>, wire' = wire
    PROVE  A!Next
<1>1. A!Up(e)
  BY UpsStep DEF A!Up, Ups
<1> QED
  BY <1>1 DEF A!Next

LEMMA AbsDrop ==
    ASSUME NEW e \in Ends, NEW p \in Ends, p = Peer(e), Up(p)' = Up(p),
           Up(e)' = Up(e), ~Up(p), wire' = [wire EXCEPT ![e] = <<>>]
    PROVE  A!Next
<1>1. A!Drop(e)
  BY UpsStep, OtherIsPeer DEF A!Drop, Ups
<1> QED
  BY <1>1 DEF A!Next

LEMMA AbsWrite ==
    ASSUME NEW e \in Ends, NEW p \in Ends, p = Peer(e), Up(p)' = Up(p),
           Up(e)' = Up(e), Up(e), NEW d \in Data, Len(wire[e]) < NFrames,
           wire' = [wire EXCEPT ![e] = Append(@, d)]
    PROVE  A!Next
<1>1. A!Write(e, d)
  BY UpsStep DEF A!Write, Ups
<1> QED
  BY <1>1 DEF A!Next

LEMMA AbsRead ==
    ASSUME NEW e \in Ends, NEW p \in Ends, p = Peer(e), Up(p)' = Up(p),
           Up(e)' = Up(e), Up(e), wire[p] # <<>>,
           wire' = [wire EXCEPT ![p] = Tail(@)]
    PROVE  A!Next
<1>1. A!Read(e)
  BY UpsStep, OtherIsPeer DEF A!Read, Ups
<1> QED
  BY <1>1 DEF A!Next

(* Every step of the channels is a step of the link, or none of its        *)
(* business.                                                               *)
LEMMA LinkStep ==
    ASSUME Inv, NEW e \in Ends,
           \/ Restart(e) \/ ChannelReset(e)
           \/ Protocol(e) \/ Transmit(e) \/ Receive(e)
    PROVE  A!Next \/ UNCHANGED A!ivcVars
<1>1. PICK p \in Ends : p = Peer(e) /\ p # e /\ Peer(p) = e
  BY Peers
<1>2. EndInv(e) /\ EndInv(p) /\ TypeOK
  BY DEF Inv
<1>3. CASE Restart(e) \/ ChannelReset(e)
  <2>1. /\ pc'[p] = pc[p] /\ state'[p] = state[p] /\ wire' = wire
        /\ pc'[e] = "start" \/ state'[e] = "sync"
    BY <1>1, <1>2, <1>3 DEF Restart, ChannelReset, TypeOK
  <2>2. Up(p)' = Up(p) /\ ~Up(e)'
    BY <2>1 DEF Up, MidNotified
  <2> QED
    BY <1>1, <2>1, <2>2, AbsDown
<1>4. CASE \/ Notify(e) \/ ChannelNotified(e) \/ ClearRx(e) \/ WriteNotify(e)
           \/ (\E d \in Data : WriteFrame(e, d)) \/ ReadGetNextFrame(e)
           \/ ReadNothing(e) \/ ReadFrame(e) \/ ReadNotify(e) \/ AdvanceFails(e)
  <2>1. /\ pc'[p] = pc[p] /\ state' = state /\ wire' = wire
        /\ \/ pc[e] = "clearR" /\ pc'[e] = "set"
           \/ pc[e] \notin {"start", "clearW", "clearR", "set"}
    BY <1>1, <1>2, <1>4
    DEF Notify, ChannelNotified, ClearRx, WriteNotify, WriteFrame, ReadGetNextFrame,
        ReadNothing, ReadFrame, ReadNotify, AdvanceFails, Step, TypeOK
  <2>2. Up(p)' = Up(p) /\ (~Up(e)' \/ Up(e)' = Up(e))
    BY <2>1 DEF Up, MidNotified
  <2> QED
    BY <1>1, <2>1, <2>2, AbsDown, AbsStutter
<1>5. CASE ClearTx(e)
  <2>1. /\ pc[e] = "clearW" /\ pc'[e] = "clearR" /\ pc'[p] = pc[p] /\ state' = state
        /\ wire' = [wire EXCEPT ![e] = <<>>]
    BY <1>1, <1>2, <1>5 DEF ClearTx, Step, TypeOK
  <2>2. Up(p)' = Up(p) /\ Up(e)' = Up(e)
    BY <2>1 DEF Up, MidNotified
  <2>3. CASE ~Up(p)
    BY <1>1, <2>1, <2>2, <2>3, AbsDrop
  <2>4. CASE Up(p)
    <3>1. wire[e] = <<>>
      BY <1>1, <1>2, <2>1, <2>4, AloneOrCleared DEF TxCleared, Up
    <3>2. wire' = wire
      BY <1>2, <2>1, <3>1 DEF TypeOK
    <3> QED
      BY <1>1, <2>2, <3>2, AbsStutter
  <2> QED
    BY <2>3, <2>4
<1>6. CASE SetState(e)
  <2>1. /\ pc[e] = "set" /\ pc'[e] = "notify" /\ pc'[p] = pc[p] /\ state'[p] = state[p]
        /\ wire' = wire
    BY <1>1, <1>2, <1>6 DEF SetState, Step, TypeOK
  <2>2. Up(p)' = Up(p) /\ wire[e] = <<>>
    BY <1>2, <2>1 DEF Up, MidNotified, EndInv, Cleared, TxCleared
  <2> QED
    BY <1>1, <2>1, <2>2, AbsUp, AbsDown
<1>7. CASE WriteAdvance(e)
  <2>1. PICK d \in Data : d = frames[e][wPos[e]]
    BY <1>2 DEF TypeOK
  <2>2. /\ pc[e] = "filled" /\ pc'[e] = "wrote" /\ pc'[p] = pc[p] /\ state' = state
        /\ wire' = [wire EXCEPT ![e] = Append(@, d)]
    BY <1>1, <1>2, <1>7, <2>1 DEF WriteAdvance, Step, TypeOK
  <2>3. Up(e) /\ Len(wire[e]) < NFrames
    BY <1>2, <2>2, CallIsUp DEF EndInv, Granted
  <2>4. Up(p)' = Up(p) /\ Up(e)' = Up(e)
    BY <2>2 DEF Up, MidNotified
  <2> QED
    BY <1>1, <2>2, <2>3, <2>4, AbsWrite
<1>8. CASE ReadAdvance(e)
  <2>2. pc[e] = "read" /\ Up(e) /\ wire[p] # <<>>
    BY <1>1, <1>2, <1>8, CallIsUp DEF ReadAdvance, Step, EndInv, Granted
  <2>1. /\ pc'[e] = "consumed" /\ pc'[p] = pc[p] /\ state' = state
        /\ wire' = [wire EXCEPT ![p] = Tail(@)]
    BY <1>1, <1>2, <1>8, <2>2 DEF ReadAdvance, Step, TypeOK
  <2>3. Up(p)' = Up(p) /\ Up(e)' = Up(e)
    BY <2>1, <2>2 DEF Up, MidNotified
  <2> QED
    BY <1>1, <2>1, <2>2, <2>3, AbsRead
<1> QED
  BY <1>3, <1>4, <1>5, <1>6, <1>7, <1>8 DEF Protocol, Transmit, Receive

(* The two channels implement the bounded link that "transfers fixed-size  *)
(* frames bi-directionally and in-order", with a frame lost only while an  *)
(* end is down, whatever the crashes and resets, up to the first           *)
(* tegra_ivc_channel_reset that falls within a tegra_ivc_channel_notified  *)
(* of the peer.                                                            *)
THEOREM RefinesTheLink == Spec => RefinesLink
<1>1. Init => A!Init
  <2> SUFFICES ASSUME Init PROVE A!Init
    OBVIOUS
  <2>1. \A e \in Ends : Up(e) \in BOOLEAN
    BY DEF Up
  <2>2. wire = [e \in Ends |-> <<>>]
    BY DEF Init
  <2> QED
    BY <2>1, <2>2 DEF A!Init
<1>2. Safe /\ Safe' /\ [Next]_vars => [overtaken' \/ A!Next]_(A!ivcVars)
  <2> SUFFICES ASSUME Safe, [Next]_vars, ~overtaken'
               PROVE  A!Next \/ UNCHANGED A!ivcVars
    OBVIOUS
  <2>1. CASE UNCHANGED vars
    BY <2>1 DEF vars, A!ivcVars, Up, MidNotified
  <2>2. CASE Next
    <3>1. Inv
      BY Recorded DEF Safe
    <3> QED
      BY <2>2, <3>1, LinkStep DEF Next
  <2> QED
    BY <2>1, <2>2
<1>3. Spec => []Safe
  BY SafeHolds
<1> QED
  BY <1>1, <1>2, <1>3, PTL DEF Spec, RefinesLink
=============================================================================
