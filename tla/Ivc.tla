-------------------------------- MODULE Ivc ---------------------------------
(***************************************************************************)
(* libtx2bpmp/ivc.c: the Tegra inter-VM channel.  Two ends, the CPU and    *)
(* its peer, each run the same protocol on a pair of channels in shared    *)
(* memory and ring each other's doorbell.  (The peer's firmware is not in  *)
(* the repository; the protocol is symmetric, so the peer is modelled by   *)
(* the same code.)                                                         *)
(*                                                                         *)
(* A channel header has w_count and state, stored only by the transmitting *)
(* end, and r_count, stored only by the receiving end.  A step is one      *)
(* store to shared memory, with the loads that decide it; the code orders  *)
(* them with barriers.  Either end may reset the channel at any time, and  *)
(* may crash between any two stores and start again: tegra_ivc_init loses  *)
(* the positions, shared memory keeps what it had, and the reset that      *)
(* follows must bring the channel back.                                    *)
(***************************************************************************)
EXTENDS Integers, Sequences, IvcStates

CONSTANTS
    NFrames,     \* nframes
    CountMod,    \* 2^32, the number of values of a counter
    Data,        \* frame contents
    Writers,     \* ends whose clients transmit
    Pollers,     \* ends that poll; the others act when their doorbell rings
    MaxResets,   \* resets and restarts in a behaviour
    CanCrash     \* ends that may crash and restart

ASSUME FramesAssumption == NFrames \in Nat \ {0}
ASSUME CountAssumption == CountMod \in Nat /\ CountMod > NFrames
ASSUME DataAssumption == Data # {}
ASSUME ResetsAssumption == MaxResets \in Nat
ASSUME EndsAssumption ==
    Writers \subseteq Ends /\ Pollers \subseteq Ends /\ CanCrash \subseteq Ends

VARIABLES
    state,   \* state[e]: state of e's tx channel
    wCount,  \* wCount[e]: w_count of e's tx channel
    rCount,  \* rCount[e]: r_count of e's rx channel
    frames,  \* frames[e]: the frames of e's tx channel
    wPos, rPos,   \* private positions
    bell,    \* bell[e]: e's doorbell is pending
    awake,   \* awake[e]: e's client is not waiting for the doorbell
    pc,      \* the step of the call in progress at e
    goal,    \* the state channel_notified is moving e to
    got,     \* the frame e's client has read
    resets,  \* resets and restarts so far
    wire,    \* history: wire[e] = frames e published that its peer did not consume
    overtaken \* history: a reset came while the peer was in channel_notified

vars == <<state, wCount, rCount, frames, wPos, rPos, bell, awake, pc,
          goal, got, resets, wire, overtaken>>
counters == <<wCount, rCount, wPos, rPos>>

Pos == 0..(NFrames - 1)
Count == 0..(CountMod - 1)

\* uint32_t arithmetic
Inc(c) == (c + 1) % CountMod
Diff(w, r) == (w - r) % CountMod

\* Advance of r_pos and w_pos
IncPos(p) == IF p = NFrames - 1 THEN 0 ELSE p + 1

Step(e, from, to) == pc[e] = from /\ pc' = [pc EXCEPT ![e] = to]

(* Memory shared with a peer that is already running holds a channel in    *)
(* the middle of its life, all frames consumed; the CPU comes up with      *)
(* tegra_ivc_init and resets it.                                           *)
Init ==
    /\ state = [e \in Ends |-> "established"]
    /\ \E w \in [Ends -> Count] :
          /\ wCount = w
          /\ rCount = [e \in Ends |-> w[Peer(e)]]
          /\ wPos = [e \in Ends |-> IF e = "cpu" THEN 0 ELSE w[e] % NFrames]
          /\ rPos = [e \in Ends |-> IF e = "cpu" THEN 0 ELSE w[Peer(e)] % NFrames]
    /\ frames \in [Ends -> [Pos -> {CHOOSE d \in Data : TRUE}]]
    /\ bell = [e \in Ends |-> FALSE]
    /\ awake = [e \in Ends |-> e \in Pollers]
    /\ pc = [e \in Ends |-> IF e = "cpu" THEN "start" ELSE "idle"]
    /\ goal = [e \in Ends |-> "established"]
    /\ got = [e \in Ends |-> CHOOSE d \in Data : TRUE]
    /\ resets = 0
    /\ wire = [e \in Ends |-> <<>>]
    /\ overtaken = FALSE
-----------------------------------------------------------------------------
(* tegra_ivc_init after a crash, and tegra_ivc_channel_reset.              *)

Restart(e) ==
    /\ e \in CanCrash
    /\ resets < MaxResets
    /\ resets' = resets + 1
    /\ wPos' = [wPos EXCEPT ![e] = 0]
    /\ rPos' = [rPos EXCEPT ![e] = 0]
    /\ pc' = [pc EXCEPT ![e] = "start"]
    /\ UNCHANGED <<state, wCount, rCount, frames, bell, awake, goal, got, wire, overtaken>>

\* e is between the load of its peer's state and the store of its own
MidNotified(e) == pc[e] \in {"clearW", "clearR", "set"}

ChannelReset(e) ==
    /\ pc[e] \in {"start", "idle"}
    /\ pc[e] = "idle" => resets < MaxResets
    /\ resets' = IF pc[e] = "idle" THEN resets + 1 ELSE resets
    /\ state' = [state EXCEPT ![e] = "sync"]
    /\ pc' = [pc EXCEPT ![e] = "notify"]
    /\ overtaken' = (overtaken \/ MidNotified(Peer(e)))
    /\ UNCHANGED <<counters, frames, bell, awake, goal, got, wire>>

\* ivc->notify
Notify(e) ==
    /\ Step(e, "notify", "idle")
    /\ bell' = [bell EXCEPT ![Peer(e)] = TRUE]
    /\ UNCHANGED <<state, counters, frames, awake, goal, got, resets, wire, overtaken>>
-----------------------------------------------------------------------------
(* tegra_ivc_channel_notified: the loads, then the stores in order.        *)

ChannelNotified(e) ==
    LET reaction == Reaction(state[e], state[Peer(e)])
    IN  /\ bell[e] \/ e \in Pollers
        /\ Step(e, "idle", reaction[1])
        /\ goal' = [goal EXCEPT ![e] = reaction[2]]
        /\ bell' = [bell EXCEPT ![e] = FALSE]
        /\ awake' = [awake EXCEPT ![e] = TRUE]
        /\ UNCHANGED <<state, counters, frames, got, resets, wire, overtaken>>

ClearTx(e) ==
    /\ Step(e, "clearW", "clearR")
    /\ wCount' = [wCount EXCEPT ![e] = 0]
    /\ wPos' = [wPos EXCEPT ![e] = 0]
    /\ wire' = [wire EXCEPT ![e] = <<>>]
    /\ UNCHANGED <<state, rCount, rPos, frames, bell, awake, goal, got, resets, overtaken>>

\* Mutant: only the transmit side is cleared.
MutClearRx(e) ==
    /\ Step(e, "clearR", "set")
    /\ UNCHANGED <<state, counters, frames, bell, awake, goal, got, resets, wire, overtaken>>

ClearRx(e) ==
    /\ Step(e, "clearR", "set")
    /\ rCount' = [rCount EXCEPT ![e] = 0]
    /\ rPos' = [rPos EXCEPT ![e] = 0]
    /\ UNCHANGED <<state, wCount, wPos, frames, bell, awake, goal, got, resets, wire, overtaken>>

SetState(e) ==
    /\ Step(e, "set", "notify")
    /\ state' = [state EXCEPT ![e] = goal[e]]
    /\ UNCHANGED <<counters, frames, bell, awake, goal, got, resets, wire, overtaken>>
-----------------------------------------------------------------------------
(* Transmit: tegra_ivc_write_get_next_frame, fill, tegra_ivc_write_advance. *)

\* Mutant: one frame too many.
MutFull(e) == Diff(wCount[e], rCount[Peer(e)]) > NFrames

\* tegra_ivc_channel_full, for the end that transmits
Full(e) == Diff(wCount[e], rCount[Peer(e)]) >= NFrames

CheckWrite(e) == state[e] = "established" /\ ~Full(e)

WriteFrame(e, d) ==
    /\ e \in Writers
    /\ CheckWrite(e)
    /\ Step(e, "idle", "filled")
    /\ frames' = [frames EXCEPT ![e][wPos[e]] = d]
    /\ UNCHANGED <<state, counters, bell, awake, goal, got, resets, wire, overtaken>>

WriteAdvance(e) ==
    /\ CheckWrite(e)
    /\ Step(e, "filled", "wrote")
    /\ wCount' = [wCount EXCEPT ![e] = Inc(@)]
    /\ wPos' = [wPos EXCEPT ![e] = IncPos(@)]
    /\ wire' = [wire EXCEPT ![e] = Append(@, frames[e][wPos[e]])]
    /\ UNCHANGED <<state, rCount, rPos, frames, bell, awake, goal, got, resets, overtaken>>

\* Mutant: the reader is notified when the channel becomes full.
MutWriteNotify(e) ==
    LET count == Diff(wCount[e], rCount[Peer(e)])
    IN  /\ Step(e, "wrote", IF count = NFrames THEN "notify" ELSE "idle")
        /\ UNCHANGED <<state, counters, frames, bell, awake, goal, got, resets, wire, overtaken>>

\* Was it empty?  Then the peer may be waiting.
WriteNotify(e) ==
    LET count == Diff(wCount[e], rCount[Peer(e)])
    IN  /\ Step(e, "wrote", IF count = 1 THEN "notify" ELSE "idle")
        /\ UNCHANGED <<state, counters, frames, bell, awake, goal, got, resets, wire, overtaken>>
-----------------------------------------------------------------------------
(* Receive: tegra_ivc_read_get_next_frame, read, tegra_ivc_read_advance.   *)

\* tegra_ivc_channel_empty, for the end that receives; over-full is empty
Empty(e) ==
    LET count == Diff(wCount[Peer(e)], rCount[e])
    IN  count > NFrames \/ count = 0

CheckRead(e) == state[e] = "established" /\ ~Empty(e)

ReadGetNextFrame(e) ==
    /\ awake[e]
    /\ CheckRead(e)
    /\ Step(e, "idle", "found")
    /\ UNCHANGED <<state, counters, frames, bell, awake, goal, got, resets, wire, overtaken>>

\* -ENOMEM or -ECONNRESET: a client that does not poll waits for the doorbell.
ReadNothing(e) ==
    /\ awake[e] /\ e \notin Pollers
    /\ ~CheckRead(e)
    /\ Step(e, "idle", "idle")
    /\ awake' = [awake EXCEPT ![e] = FALSE]
    /\ UNCHANGED <<state, counters, frames, bell, goal, got, resets, wire, overtaken>>

ReadFrame(e) ==
    /\ Step(e, "found", "read")
    /\ got' = [got EXCEPT ![e] = frames[Peer(e)][rPos[e]]]
    /\ UNCHANGED <<state, counters, frames, bell, awake, goal, resets, wire, overtaken>>

ReadAdvance(e) ==
    /\ CheckRead(e)
    /\ Step(e, "read", "consumed")
    /\ rCount' = [rCount EXCEPT ![e] = Inc(@)]
    /\ rPos' = [rPos EXCEPT ![e] = IncPos(@)]
    /\ wire' = [wire EXCEPT ![Peer(e)] = IF @ = <<>> THEN @ ELSE Tail(@)]
    /\ UNCHANGED <<state, wCount, wPos, frames, bell, awake, goal, got, resets, overtaken>>

\* The check before an advance fails, and the call returns its error.
AdvanceFails(e) ==
    /\ \/ ~CheckWrite(e) /\ Step(e, "filled", "idle")
       \/ ~CheckRead(e) /\ Step(e, "read", "idle")
    /\ UNCHANGED <<state, counters, frames, bell, awake, goal, got, resets, wire, overtaken>>

\* Was it full?  Then the peer may be waiting.
ReadNotify(e) ==
    LET count == Diff(wCount[Peer(e)], rCount[e])
    IN  /\ Step(e, "consumed", IF count = NFrames - 1 THEN "notify" ELSE "idle")
        /\ UNCHANGED <<state, counters, frames, bell, awake, goal, got, resets, wire, overtaken>>
-----------------------------------------------------------------------------
Protocol(e) ==
    \/ Notify(e) \/ ChannelNotified(e)
    \/ ClearTx(e) \/ ClearRx(e) \/ SetState(e)

Transmit(e) ==
    \/ \E d \in Data : WriteFrame(e, d)
    \/ WriteAdvance(e) \/ WriteNotify(e)

Receive(e) ==
    \/ ReadGetNextFrame(e) \/ ReadNothing(e)
    \/ ReadFrame(e) \/ ReadAdvance(e) \/ ReadNotify(e) \/ AdvanceFails(e)

Next ==
    \E e \in Ends : \/ Restart(e) \/ ChannelReset(e)
                    \/ Protocol(e) \/ Transmit(e) \/ Receive(e)

Spec == Init /\ [][Next]_vars
-----------------------------------------------------------------------------
Step_ == {"start", "idle", "notify", "clearW", "clearR", "set", "filled",
          "wrote", "found", "read", "consumed"}

TypeOK ==
    /\ state \in [Ends -> States]
    /\ wCount \in [Ends -> Count] /\ rCount \in [Ends -> Count]
    /\ wPos \in [Ends -> Pos] /\ rPos \in [Ends -> Pos]
    /\ frames \in [Ends -> [Pos -> Data]]
    /\ bell \in [Ends -> BOOLEAN] /\ awake \in [Ends -> BOOLEAN]
    /\ pc \in [Ends -> Step_]
    /\ goal \in [Ends -> States]
    /\ got \in [Ends -> Data]
    /\ resets \in 0..MaxResets
    /\ wire \in [Ends -> Seq(Data)]
    /\ overtaken \in BOOLEAN

\* e may use the channel: it is established and not about to leave that state
Up(e) ==
    /\ state[e] = "established"
    /\ pc[e] # "start" /\ ~MidNotified(e)

(* An end that is established sees the truth in the counters, across any   *)
(* number of resets, crashes and counter wraps: what it may read is what   *)
(* its peer has published since the last reset, at the position where it   *)
(* was put, and what it may write is bounded by what the peer freed.       *)
EstablishedAgree ==
    \A e \in Ends : Up(e) =>
       LET p == Peer(e)
           n == Len(wire[p])
       IN  /\ Diff(wCount[p], rCount[e]) = n
           /\ Diff(wCount[e], rCount[p]) = Len(wire[e])
           /\ n <= NFrames
           /\ \A i \in 1..n : frames[p][(rPos[e] + i - 1) % NFrames] = wire[p][i]

(* The check that tegra_ivc_read_advance and tegra_ivc_write_advance       *)
(* repeat "just to catch programming errors" cannot fail: nothing the peer *)
(* does takes back a frame, or the room for one, that a client was given.  *)
AdvanceSucceeds ==
    \A e \in Ends : /\ pc[e] = "filled" => CheckWrite(e)
                    /\ pc[e] \in {"found", "read"} => CheckRead(e)

(* The frame a client has read is the oldest one, and the writer cannot    *)
(* reuse it before tegra_ivc_read_advance.                                 *)
ReadsOldest ==
    \A e \in Ends : pc[e] = "read" =>
       wire[Peer(e)] # <<>> /\ got[e] = Head(wire[Peer(e)])

(* What a client may rely on once its end is established: the counters are *)
(* sound, the advance that follows a grant succeeds, and the frame it read *)
(* is the oldest, across resets, crashes and counter wraps.  All this is   *)
(* promised only up to a reset that overtakes the peer: one that falls     *)
(* between the load of the state in tegra_ivc_channel_notified and the     *)
(* stores that answer it.  The peer then answers a state that is gone, and *)
(* clears counters that are in use.                                        *)
ChannelSound ==
    /\ TypeOK
    /\ ~overtaken => EstablishedAgree /\ AdvanceSucceeds /\ ReadsOldest

A == INSTANCE AbstractIvc WITH up <- [e \in Ends |-> Up(e)], q <- wire

(* The two channels implement the bounded in-order link that "transfers    *)
(* fixed-size frames bi-directionally and in-order", with frames lost only *)
(* while an end is down, up to the first reset that overtakes the peer.    *)
RefinesLink == A!Init /\ [][overtaken' \/ A!Next]_(A!ivcVars)
-----------------------------------------------------------------------------
(* Fairness: an end finishes the call it is in, resets when it starts,     *)
(* serves its doorbell, and while awake reads what is there, however often *)
(* its client writes in between.  It need not write, reset again or poll.  *)
FinishCall(e) ==
    \/ Notify(e) \/ ClearTx(e) \/ ClearRx(e) \/ SetState(e)
    \/ WriteAdvance(e) \/ WriteNotify(e)
    \/ ReadFrame(e) \/ ReadAdvance(e) \/ ReadNotify(e) \/ AdvanceFails(e)

FairSpec ==
    /\ Spec
    /\ \A e \in Ends : /\ WF_vars(FinishCall(e))
                       /\ WF_vars(pc[e] = "start" /\ ChannelReset(e))
                       /\ SF_vars(bell[e] /\ ChannelNotified(e))
                       /\ SF_vars(ReadGetNextFrame(e))

(* No state change is missed: once resets stop, both ends reach            *)
(* established and stay there, although an end acts only when its doorbell *)
(* rings.                                                                  *)
EventuallyEstablished ==
    <>[](\A e \in Ends : state[e] = "established")

(* No frame is stuck: a channel does not stay non-empty with nobody        *)
(* reading, although the writer rings only for the first frame of a batch  *)
(* and the reader sleeps when it finds the channel empty.                  *)
FramesMove ==
    \A e \in Ends : []<>(wire[e] = <<>> \/ pc[Peer(e)] = "consumed")
=============================================================================
