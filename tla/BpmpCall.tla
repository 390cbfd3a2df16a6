------------------------------ MODULE BpmpCall ------------------------------
(***************************************************************************)
(* libtx2bpmp/bpmp.c: bpmp_call, a remote procedure call over an IVC       *)
(* channel with BPMP_IVC_FRAME_COUNT = 1 frame each way.  The caller       *)
(* writes its request, then polls for a response until a counter runs out. *)
(* Calls are made one at a time.  The channel is the link of AbstractIvc,  *)
(* with the reset states it has in ivc.c; the firmware at the other end is *)
(* not in the repository and follows the same channel protocol.            *)
(***************************************************************************)
EXTENDS Integers, Sequences, IvcStates

CONSTANTS
    Ids,          \* requests are numbered 1..Ids, again and again
    MaxTimeouts,  \* calls that time out
    MaxResets     \* resets by the firmware

ASSUME BoundsAssumption ==
    /\ Ids \in Nat /\ Ids > 4    \* more than can be outstanding
    /\ MaxTimeouts \in Nat /\ MaxResets \in Nat

VARIABLES
    state,    \* state[e]: the reset state of each end
    q,        \* q[e]: frames written by e that the other end has not consumed
    pc,       \* "idle", or "wait" while bpmp_call polls for its response
    sent,     \* the number of the last request sent
    result,   \* what the last call returned: how, and the response it copied
    timeouts,
    serving,  \* the request the firmware works on, 0 for none
    resets

callVars == <<state, q, pc, sent, result, timeouts, serving, resets>>

FrameCount == 1   \* BPMP_IVC_FRAME_COUNT

NextId == (sent % Ids) + 1

\* A call that returned without a response
Failed(err) == [err |-> err, answer |-> 0]

CallInit ==
    /\ state = [e \in Ends |-> "established"]
    /\ q = [e \in Ends |-> <<>>]
    /\ pc = "idle"
    /\ sent = 0
    /\ result = Failed("none")
    /\ timeouts = 0 /\ serving = 0 /\ resets = 0

Established == state["cpu"] = "established"
-----------------------------------------------------------------------------
(* bpmp_call.                                                              *)

\* tegra_ivc_channel_notified in the polling loop: e follows its peer's state.
\* Clearing its counters empties its transmit channel.
Follow(e) ==
    LET reaction == Reaction(state[e], state[Peer(e)])
    IN  /\ state' = [state EXCEPT ![e] = reaction[2]]
        /\ q' = IF reaction[1] = "clearW" THEN [q EXCEPT ![e] = <<>>] ELSE q

\* tegra_ivc_write_get_next_frame fails: the channel is being reset, or the
\* last request has not been taken.
CallRefused ==
    /\ pc = "idle"
    /\ \/ ~Established /\ result' = Failed("ECONNRESET")
       \/ /\ Established
          /\ Len(q["cpu"]) >= FrameCount
          /\ result' = Failed("ENOMEM")
    /\ UNCHANGED <<state, q, pc, sent, timeouts, serving, resets>>

CallSend ==
    /\ pc = "idle"
    /\ Established
    /\ Len(q["cpu"]) < FrameCount
    /\ sent' = NextId
    /\ q' = [q EXCEPT !["cpu"] = Append(@, NextId)]
    /\ pc' = "wait"
    /\ UNCHANGED <<state, result, timeouts, serving, resets>>

\* Mutant: the loop goes on whatever channel_notified says.
MutPollReset ==
    /\ pc = "wait"
    /\ Follow("cpu")
    /\ UNCHANGED <<pc, sent, result, timeouts, serving, resets>>

\* The peer resets: channel_notified returns -EAGAIN and so does the call.
PollReset ==
    /\ pc = "wait"
    /\ Follow("cpu")
    /\ state'["cpu"] # "established"
    /\ pc' = "idle"
    /\ result' = Failed("EAGAIN")
    /\ UNCHANGED <<sent, timeouts, serving, resets>>

\* Mutant: the response is left in the channel.
MutPollResponse ==
    /\ pc = "wait"
    /\ state["peer"] # "sync"    \* else channel_notified fails
    /\ q["peer"] # <<>>
    /\ \E err \in {"ok", "EIO"} : result' = [err |-> err, answer |-> Head(q["peer"])]
    /\ pc' = "idle"
    /\ UNCHANGED <<state, q, sent, timeouts, serving, resets>>

\* A response is there: it is copied, consumed and returned, as -EIO when the
\* firmware reports an error.
PollResponse ==
    /\ pc = "wait"
    /\ state["peer"] # "sync"    \* else channel_notified fails
    /\ q["peer"] # <<>>
    /\ q' = [q EXCEPT !["peer"] = Tail(@)]
    /\ \E err \in {"ok", "EIO"} : result' = [err |-> err, answer |-> Head(q["peer"])]
    /\ pc' = "idle"
    /\ UNCHANGED <<state, sent, timeouts, serving, resets>>

\* The counter runs out: -ETIMEDOUT.  The request stays where it is.
PollTimeout ==
    /\ pc = "wait"
    /\ timeouts < MaxTimeouts
    /\ timeouts' = timeouts + 1
    /\ pc' = "idle"
    /\ result' = Failed("ETIMEDOUT")
    /\ UNCHANGED <<state, q, sent, serving, resets>>
-----------------------------------------------------------------------------
(* The firmware (external): it serves requests in order, one at a time.    *)

FwTake ==
    /\ state["peer"] = "established"
    /\ serving = 0 /\ q["cpu"] # <<>>
    /\ serving' = Head(q["cpu"])
    /\ q' = [q EXCEPT !["cpu"] = Tail(@)]
    /\ UNCHANGED <<state, pc, sent, result, timeouts, resets>>

FwReply ==
    /\ state["peer"] = "established"
    /\ serving # 0 /\ Len(q["peer"]) < FrameCount
    /\ q' = [q EXCEPT !["peer"] = Append(@, serving)]
    /\ serving' = 0
    /\ UNCHANGED <<state, pc, sent, result, timeouts, resets>>

FwReset ==
    /\ resets < MaxResets
    /\ resets' = resets + 1
    /\ state["peer"] = "established"
    /\ state' = [state EXCEPT !["peer"] = "sync"]
    /\ serving' = 0
    /\ UNCHANGED <<q, pc, sent, result, timeouts>>

FwNotified ==
    /\ Reaction(state["peer"], state["cpu"])[1] # "idle"
    /\ Follow("peer")
    /\ UNCHANGED <<pc, sent, result, timeouts, serving, resets>>
-----------------------------------------------------------------------------
Call == CallRefused \/ CallSend
Poll == PollReset \/ PollResponse
Firmware == FwTake \/ FwReply \/ FwNotified

CallNext == Call \/ Poll \/ PollTimeout \/ Firmware \/ FwReset

CallSpec == CallInit /\ [][CallNext]_callVars
-----------------------------------------------------------------------------
CallTypeOK ==
    /\ state \in [Ends -> States]
    /\ q \in [Ends -> Seq(1..Ids)]
    /\ \A e \in Ends : Len(q[e]) <= FrameCount
    /\ pc \in {"idle", "wait"}
    /\ sent \in 0..Ids
    /\ result \in [err : {"none", "ok", "EIO", "ECONNRESET", "ENOMEM",
                          "EAGAIN", "ETIMEDOUT"},
                   answer : 0..Ids]
    /\ timeouts \in 0..MaxTimeouts /\ serving \in 0..Ids
    /\ resets \in 0..MaxResets

(* "A buffer to hold the response of the request": the response a call     *)
(* returns is the response to its own request.  A call that follows a      *)
(* timeout breaks it.                                                      *)
AnswerMatches ==
    pc = "idle" /\ result.answer # 0 => result.answer = sent

(* How far from that a call can be: bpmp_call has no more responses before *)
(* its own than calls have timed out, so what it returns answers one of    *)
(* the last `timeouts' requests or its own.  As long as no call times out  *)
(* each gets its own response, whatever the resets.                        *)
AnswerAge ==
    pc = "idle" /\ result.answer # 0 => (sent - result.answer) % Ids <= timeouts

(* No answer is older than that, and the channel never holds more than its *)
(* one frame a side.                                                       *)
CallsSound == CallTypeOK /\ AnswerAge

(* Every call returns, even without the timeout, as long as the firmware   *)
(* works, resets included.                                                 *)
EveryCallReturns == (pc = "wait") ~> (pc = "idle")
=============================================================================
