---------------------------- MODULE MCVirtqueue -----------------------------
(***************************************************************************)
(* Instances of Virtqueue for TLC.  Buffers, driver objects and device     *)
(* objects are interchangeable, so runs without a liveness formula may     *)
(* identify states that differ by a permutation of them.                   *)
(*                                                                         *)
(* LiveState is a view that leaves out the contents of dead ring slots,    *)
(* those outside the window between a reader's cursor and the writer's     *)
(* index.  A reader loads only from its window and the writer stores to    *)
(* the slot at the index before it moves the index, so two states with the *)
(* same view have the same futures.                                        *)
(***************************************************************************)
EXTENDS Virtqueue, TLC

Symmetry == Permutations(Bufs) \cup Permutations(DrvObjs)
                \cup Permutations(DevObjs)

LiveSlots(ring, last, idx, writing, dead) ==
    [i \in Desc |->
        IF \/ \E k \in 1..Pending(last, idx) : i = After(last, k)
           \/ writing /\ i = idx
        THEN ring[i] ELSE dead]

LiveState ==
    <<desc, driver, device, history, availIdx, usedIdx,
      LiveSlots(availRing, aLast, availIdx, drv.pc = "publish", 0),
      LiveSlots(usedRing, uLast, usedIdx, dev.pc = "publish", 0)>>
=============================================================================
