-------------------------------- MODULE Bpmp --------------------------------
(***************************************************************************)
(* libtx2bpmp/bpmp.c as its clients see it: the handles of BpmpLifecycle   *)
(* and the calls of BpmpCall.  The init that succeeds first leaves the     *)
(* channel established; calls are made on open handles, one at a time and  *)
(* never during an init or a destroy, by clients of one thread.  A handle  *)
(* opened after the last destroy has no memory behind it (BpmpLifecycle),  *)
(* and what a call on it would do is not modelled.                         *)
(***************************************************************************)
EXTENDS BpmpLifecycle, BpmpCall

bpmpVars == <<vars, callVars>>

\* The shared memory of the channel is mapped.
Mapped == open # {} /\ {"tx", "rx"} \subseteq live

\* tx2_bpmp_init and tx2_bpmp_destroy, between calls
Manage == pc = "idle" /\ Next /\ UNCHANGED callVars

\* tx2_bpmp_call on an open handle, and the firmware behind the channel
Use(action) == Mapped /\ action /\ UNCHANGED vars
Serve(action) == initialised /\ action /\ UNCHANGED vars

BpmpInit == Init /\ CallInit

BpmpNext ==
    \/ Manage
    \/ Use(Call) \/ Use(Poll) \/ Use(PollTimeout)
    \/ Serve(Firmware) \/ Serve(FwReset)

(* A call that has begun runs on and the firmware serves; nobody has to    *)
(* open a handle or to call.                                               *)
BpmpSpec ==
    /\ BpmpInit /\ [][BpmpNext]_bpmpVars
    /\ WF_bpmpVars(Use(Poll)) /\ WF_bpmpVars(Serve(Firmware))
=============================================================================
