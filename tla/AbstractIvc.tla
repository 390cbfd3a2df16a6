---------------------------- MODULE AbstractIvc -----------------------------
(***************************************************************************)
(* What the Tegra IVC layer promises its clients: frames move in order in  *)
(* both directions, at most NFrames at a time each way, between ends that  *)
(* are up.  A reset takes an end down; frames are dropped only while an    *)
(* end is down, and an end comes up with nothing of its own in flight.     *)
(***************************************************************************)
EXTENDS Naturals, Sequences

CONSTANTS Ends, NFrames, Data

VARIABLES up, q    \* q[e]: frames from e that its peer has not consumed

ivcVars == <<up, q>>

Other(e) == CHOOSE p \in Ends : p # e

Init ==
    /\ up \in [Ends -> BOOLEAN]
    /\ q = [e \in Ends |-> <<>>]

Write(e, d) ==
    /\ up[e]
    /\ Len(q[e]) < NFrames
    /\ q' = [q EXCEPT ![e] = Append(@, d)]
    /\ UNCHANGED up

Read(e) ==
    /\ up[e]
    /\ q[Other(e)] # <<>>
    /\ q' = [q EXCEPT ![Other(e)] = Tail(@)]
    /\ UNCHANGED up

Down(e) ==
    /\ up' = [up EXCEPT ![e] = FALSE]
    /\ UNCHANGED q

Drop(e) ==
    /\ ~up[Other(e)]
    /\ q' = [q EXCEPT ![e] = <<>>]
    /\ UNCHANGED up

Up(e) ==
    /\ q[e] = <<>>
    /\ up' = [up EXCEPT ![e] = TRUE]
    /\ UNCHANGED q

Next ==
    \E e \in Ends : \/ \E d \in Data : Write(e, d)
                    \/ Read(e) \/ Down(e) \/ Drop(e) \/ Up(e)

Spec == Init /\ [][Next]_ivcVars
=============================================================================
