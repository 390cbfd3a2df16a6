------------------------------- MODULE MCMmc --------------------------------
(***************************************************************************)
(* Instance of Mmc for TLC: SD cards of both capacity classes and of the   *)
(* first version, and an MMC card, with CSDs of each structure whose bits  *)
(* tell neighbouring places apart.                                         *)
(***************************************************************************)
EXTENDS Mmc

Pattern(k) == {b \in 0..125 : b % k = 0}
MCCards ==
    {[kind |-> "sd", v2 |-> TRUE, ccs |-> TRUE, csd |-> Pattern(2) \cup {126}],
     [kind |-> "sd", v2 |-> TRUE, ccs |-> TRUE, csd |-> Pattern(3) \cup {126}],
     [kind |-> "sd", v2 |-> TRUE, ccs |-> FALSE, csd |-> Pattern(5)],
     [kind |-> "sd", v2 |-> FALSE, ccs |-> FALSE, csd |-> Pattern(3)],
     [kind |-> "sd", v2 |-> FALSE, ccs |-> FALSE, csd |-> Pattern(7) \cup {127}],
     [kind |-> "mmc", v2 |-> FALSE, ccs |-> FALSE, csd |-> Pattern(2)]}
=============================================================================
