---------------------------- MODULE MCEhciAsync -----------------------------
(***************************************************************************)
(* Instances of EhciAsync for TLC: transfers on two endpoints; on one that *)
(* may be unplugged; the first transfer of an endpoint while one of two    *)
(* others, or the only other, is removed; and the removal of two endpoints *)
(* of three.                                                               *)
(***************************************************************************)
EXTENDS EhciAsync

MCInstances ==
    [inUse : {0}, heads : {2}, tds : {2}, unplugs : {0}]
        \cup [inUse : {1}, heads : {1}, tds : {2}, unplugs : {1}]
        \cup [inUse : {2}, heads : {3}, tds : {1}, unplugs : {1}]
        \cup [inUse : {1}, heads : {2}, tds : {1}, unplugs : {1}]
        \cup [inUse : {3}, heads : {3}, tds : {0}, unplugs : {2}]
=============================================================================
