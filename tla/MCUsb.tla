------------------------------- MODULE MCUsb --------------------------------
(***************************************************************************)
(* Instance of Usb for TLC: a root hub with two ports, an external hub     *)
(* with one, and two other devices.                                        *)
(***************************************************************************)
EXTENDS Usb

CONSTANTS h, a, b

MCThings == {h, a, b}
MCHubSockets == h :> {3}
MCFits == {<<h, 1>>, <<b, 2>>, <<a, 3>>}
MCInterval == h :> 4 @@ a :> 2 @@ b :> 1
=============================================================================
