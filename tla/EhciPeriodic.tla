---------------------------- MODULE EhciPeriodic ----------------------------
(***************************************************************************)
(* libusbdrivers, ehci/periodic.c: the schedule of the interrupt           *)
(* endpoints.  intn_list is a linked list of queue heads, which the        *)
(* controller follows as well; frame i of the frame list holds the queue   *)
(* head at which the controller enters it.  A queue head of rate r is      *)
(* meant to be visited in every r-th frame: the list is meant to go from   *)
(* slow to fast, so that each entry leads to all that are due.             *)
(*                                                                         *)
(* The links the controller follows are written together with the ones of  *)
(* the driver, and shadow_flist together with flist: one sequence and one  *)
(* function stand for both.                                                *)
(***************************************************************************)
EXTENDS Integers, Sequences, SequencesExt

CONSTANTS
    Frames,      \* flist_size
    NoQh         \* no queue head

ASSUME FramesAssumption == Frames \in Nat \ {0}

EmptySchedule == [list |-> <<>>, frame |-> [i \in 1..Frames |-> NoQh]]

\* The place of q in the list, and what follows it.
Place(list, q) == CHOOSE i \in DOMAIN list : list[i] = q
Follower(list, q) ==
    LET i == Place(list, q) IN IF i < Len(list) THEN list[i + 1] ELSE NoQh

(* Where a queue head of rate r goes: behind the head, which is never      *)
(* compared, and behind every other that is not faster.                    *)
SlotFor(list, rate, r) ==
    IF list = <<>> THEN 1
    ELSE CHOOSE i \in 2..(Len(list) + 1) :
            /\ \A j \in 2..(i - 1) : rate[list[j]] >= r
            /\ i > Len(list) \/ rate[list[i]] < r

\* Mutant: a frame that is taken stays as it is.
MutAddQhn(s, q, rate) ==
    [list |-> InsertAt(s.list, SlotFor(s.list, rate, rate[q]), q),
     frame |-> [i \in 1..Frames |->
         IF i % rate[q] = 0 /\ s.frame[i] = NoQh THEN q ELSE s.frame[i]]]

(* ehci_add_qhn_periodic: the list, and then the frames that are due and   *)
(* are not entered by a slower queue head.                                 *)
AddQhn(s, q, rate) ==
    IF q \in ToSet(s.list) THEN s
    ELSE [list |-> InsertAt(s.list, SlotFor(s.list, rate, rate[q]), q),
          frame |-> [i \in 1..Frames |->
              IF i % rate[q] = 0
                    /\ (s.frame[i] = NoQh \/ rate[s.frame[i]] < rate[q])
              THEN q ELSE s.frame[i]]]

(* ehci_del_qhn_periodic: unlink the queue head, and let the frames of its *)
(* rate that it enters be entered by its follower.                         *)
DelQhn(s, q, rate) ==
    [list |-> RemoveAt(s.list, Place(s.list, q)),
     frame |-> [i \in 1..Frames |->
         IF i % rate[q] = 0 /\ s.frame[i] = q THEN Follower(s.list, q)
         ELSE s.frame[i]]]

\* From slow to fast.
Sorted(list, rate) ==
    \A i, j \in DOMAIN list : i < j => rate[list[i]] >= rate[list[j]]

\* The queue heads the controller visits in frame i.
Visited(s, i) ==
    IF s.frame[i] \notin ToSet(s.list) THEN {s.frame[i]} \ {NoQh}
    ELSE {s.list[j] : j \in Place(s.list, s.frame[i])..Len(s.list)}

\* The ones that are due in it.
Due(s, i, rate) == {q \in ToSet(s.list) : i % rate[q] = 0}
=============================================================================
