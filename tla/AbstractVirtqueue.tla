------------------------- MODULE AbstractVirtqueue --------------------------
(***************************************************************************)
(* What libvirtqueue promises its two clients: a first-in first-out queue  *)
(* of entries (lists of buffers) from the driver to the device, and one    *)
(* back.  The device may finish the entries it holds in any order, and the *)
(* driver may lengthen an entry the device has not taken yet.              *)
(***************************************************************************)
EXTENDS Naturals, Sequences

CONSTANTS Bufs, DevObjs, MaxInFlight

VARIABLES avail, held, used

absVars == <<avail, held, used>>

Init ==
    /\ avail = <<>>
    /\ held = [r \in DevObjs |-> <<>>]
    /\ used = <<>>

Submit(b) ==
    /\ Len(avail) < MaxInFlight
    /\ avail' = Append(avail, <<b>>)
    /\ UNCHANGED <<held, used>>

Chain(i, b) ==
    /\ avail' = [avail EXCEPT ![i] = Append(@, b)]
    /\ UNCHANGED <<held, used>>

Take(r) ==
    /\ avail # <<>>
    /\ held[r] = <<>>
    /\ held' = [held EXCEPT ![r] = Head(avail)]
    /\ avail' = Tail(avail)
    /\ UNCHANGED used

Return(r) ==
    /\ held[r] # <<>>
    /\ used' = Append(used, held[r])
    /\ held' = [held EXCEPT ![r] = <<>>]
    /\ UNCHANGED avail

Collect ==
    /\ used # <<>>
    /\ used' = Tail(used)
    /\ UNCHANGED <<avail, held>>

Next ==
    \/ \E b \in Bufs : Submit(b) \/ (\E i \in DOMAIN avail : Chain(i, b))
    \/ \E r \in DevObjs : Take(r) \/ Return(r)
    \/ Collect

Spec == Init /\ [][Next]_absVars
=============================================================================
