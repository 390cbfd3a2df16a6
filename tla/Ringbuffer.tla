---------------------------- MODULE Ringbuffer ------------------------------
(***************************************************************************)
(* libringbuffer: a one-way byte channel in shared memory with no shared   *)
(* index.  A zero byte marks the place where the receiver must wait, so    *)
(* the order of the two stores of rb_transmit_byte is all the              *)
(* synchronisation there is.  Transmitter and receiver are separate        *)
(* processes, each with its own offset; every step below is one load or    *)
(* store of the shared region (the accesses are volatile, hence ordered).  *)
(*                                                                         *)
(* The library has no flow control, by design: MaxUnread says how far      *)
(* ahead of the receiver the transmitter's client may run.                 *)
(***************************************************************************)
EXTENDS Integers, Sequences

CONSTANTS
    Size,       \* r->size
    Bytes,      \* the bytes a client sends, all different from 0
    MaxUnread,  \* bytes the client has unread at most
    MaxLen      \* longest string or block one call transfers

ASSUME SizeAssumption == Size \in Nat \ {0, 1}
ASSUME BytesAssumption == Bytes \subseteq (1..255)
ASSUME UnreadAssumption == MaxUnread \in Nat
ASSUME LenAssumption == MaxLen \in Nat \ {0}

VARIABLES
    base,    \* the shared region
    txOff,   \* the transmitter's offset
    tx,      \* its call: step, kind, bytes left, byte in hand
    rxOff,   \* the receiver's offset
    rx,      \* its call: step, kind, bytes left
    queue    \* history: bytes stored and not yet read

rbVars == <<base, txOff, tx, rxOff, rx, queue>>

Slot == 0..(Size - 1)

NextOff(off) == (off + 1) % Size

IdleTx == [pc |-> "idle", kind |-> "none", left |-> 0, c |-> 0]
IdleRx == [pc |-> "idle", kind |-> "none", left |-> 0]

(* rb_new on both sides.  It does not clear the region: frames shared      *)
(* between components start zeroed.                                        *)
RbNew ==
    /\ base = [i \in Slot |-> 0]
    /\ txOff = 0
    /\ rxOff = 0

RbInit ==
    /\ RbNew
    /\ tx = IdleTx /\ rx = IdleRx
    /\ queue = <<>>
-----------------------------------------------------------------------------
(* The transmitter: rb_transmit_string ("string") and rb_transmit ("block").*)

TransmitCall(kind, n) ==
    /\ tx.pc = "idle"
    /\ tx' = [IdleTx EXCEPT !.pc = "next", !.kind = kind, !.left = n]
    /\ UNCHANGED <<base, txOff, rxOff, rx, queue>>

\* The byte loop is done.
TransmitReturn ==
    /\ tx.pc = "next"
    /\ tx.left = 0
    /\ tx' = IdleTx
    /\ UNCHANGED <<base, txOff, rxOff, rx, queue>>

\* rb_transmit_byte(0): "We can't send 0s."  Nothing is sent.  A string ends
\* at its first 0.
TransmitZero ==
    /\ tx.pc = "next"
    /\ tx.left > 0
    /\ tx.kind = "block"
    /\ tx' = [tx EXCEPT !.left = @ - 1]
    /\ UNCHANGED <<base, txOff, rxOff, rx, queue>>

\* Mutant: the terminator is not written.
MutTransmitClear(c) ==
    /\ tx.pc = "next"
    /\ tx.left > 0
    /\ Len(queue) < MaxUnread
    /\ tx' = [tx EXCEPT !.pc = "store", !.c = c]
    /\ UNCHANGED <<base, txOff, rxOff, rx, queue>>

\* rb_transmit_byte, first store: 0 into the slot after the byte's.
TransmitClear(c) ==
    /\ tx.pc = "next"
    /\ tx.left > 0
    /\ Len(queue) < MaxUnread
    /\ base' = [base EXCEPT ![NextOff(txOff)] = 0]
    /\ tx' = [tx EXCEPT !.pc = "store", !.c = c]
    /\ UNCHANGED <<txOff, rxOff, rx, queue>>

\* Second store: the byte, which is what the receiver waits for.
TransmitStore ==
    /\ tx.pc = "store"
    /\ base' = [base EXCEPT ![txOff] = tx.c]
    /\ txOff' = NextOff(txOff)
    /\ queue' = Append(queue, tx.c)
    /\ tx' = [tx EXCEPT !.pc = "next", !.left = @ - 1]
    /\ UNCHANGED <<rxOff, rx>>
-----------------------------------------------------------------------------
(* The receiver: rb_poll_byte ("poll"), and rb_receive_string or           *)
(* rb_receive_data ("block"), which call rb_receive_byte n times.          *)

ReceiveCall(kind, n) ==
    /\ rx.pc = "idle"
    /\ kind = "poll" => n = 1
    /\ rx' = [pc |-> "test", kind |-> kind, left |-> n]
    /\ UNCHANGED <<base, txOff, tx, rxOff, queue>>

\* rb_poll_byte finds 0: poll returns it, rb_receive_byte spins.
PollEmpty ==
    /\ rx.pc = "test"
    /\ rx.kind = "poll"
    /\ base[rxOff] = 0
    /\ rx' = IdleRx
    /\ UNCHANGED <<base, txOff, tx, rxOff, queue>>

\* Mutant: the slot after the offset is tested.
MutPollTest ==
    /\ rx.pc = "test"
    /\ base[NextOff(rxOff)] # 0
    /\ rx' = [rx EXCEPT !.pc = "read"]
    /\ UNCHANGED <<base, txOff, tx, rxOff, queue>>

\* rb_poll_byte, first load: there is data ...
PollTest ==
    /\ rx.pc = "test"
    /\ base[rxOff] # 0
    /\ rx' = [rx EXCEPT !.pc = "read"]
    /\ UNCHANGED <<base, txOff, tx, rxOff, queue>>

\* Mutant: the offset moves on before the byte is loaded.
MutPollRead ==
    LET c == base[NextOff(rxOff)]
        left == IF c = 0 /\ rx.kind = "block" THEN rx.left ELSE rx.left - 1
    IN  /\ rx.pc = "read"
        /\ rxOff' = NextOff(rxOff)
        /\ queue' = IF queue # <<>> /\ Head(queue) = c THEN Tail(queue) ELSE queue
        /\ rx' = IF left = 0 THEN IdleRx
                            ELSE [rx EXCEPT !.pc = "test", !.left = left]
        /\ UNCHANGED <<base, txOff, tx>>

\* ... second load: the byte.  Had it become 0 in between, a blocking receive
\* would go round again, past the slot.
PollRead ==
    LET c == base[rxOff]
        left == IF c = 0 /\ rx.kind = "block" THEN rx.left ELSE rx.left - 1
    IN  /\ rx.pc = "read"
        /\ rxOff' = NextOff(rxOff)
        /\ queue' = IF queue # <<>> /\ Head(queue) = c THEN Tail(queue) ELSE queue
        /\ rx' = IF left = 0 THEN IdleRx
                            ELSE [rx EXCEPT !.pc = "test", !.left = left]
        /\ UNCHANGED <<base, txOff, tx>>
-----------------------------------------------------------------------------
Transmit ==
    \/ \E kind \in {"string", "block"}, n \in 1..MaxLen : TransmitCall(kind, n)
    \/ TransmitReturn
    \/ TransmitZero
    \/ \E c \in Bytes : TransmitClear(c)
    \/ TransmitStore

Receive ==
    \/ \E kind \in {"poll", "block"}, n \in 1..MaxLen : ReceiveCall(kind, n)
    \/ PollEmpty
    \/ PollTest
    \/ PollRead

RbNext == Transmit \/ Receive

RbSpec == RbInit /\ [][RbNext]_rbVars

(* The receiver's client keeps receiving; the transmitter owes nothing.    *)
RbFairSpec == RbSpec /\ WF_rbVars(Receive)
-----------------------------------------------------------------------------
Byte == Bytes \cup {0}

TxType == [pc : {"idle", "next", "store"}, kind : {"none", "string", "block"},
           left : Nat, c : Byte]
RxType == [pc : {"idle", "test", "read"}, kind : {"none", "poll", "block"},
           left : Nat]

(* Every offset stays inside the region the two sides share.               *)
RbTypeOK ==
    /\ base \in [Slot -> Byte]
    /\ txOff \in Slot /\ rxOff \in Slot
    /\ tx \in TxType /\ rx \in RxType
    /\ queue \in Seq(Bytes)

\* The slot of the i-th byte from an offset on
SlotAt(off, i) == (off + i - 1) % Size

(* The region spells what was sent and not yet read: from the receiver's   *)
(* offset the unread bytes in order, then the 0 at which it must wait,     *)
(* also between the two stores of rb_transmit_byte.                        *)
RegionSpellsQueue ==
    /\ txOff = SlotAt(rxOff, Len(queue) + 1)
    /\ \A i \in 1..Len(queue) : base[SlotAt(rxOff, i)] = queue[i]
    /\ base[txOff] = 0
    /\ tx.pc = "store" => base[NextOff(txOff)] = 0

(* The receiver gets every byte once and in order: a byte it reads is the  *)
(* oldest unread one, although rb_poll_byte loads the slot twice.          *)
ReceivesInOrder ==
    [][rx.pc = "read" /\ rxOff' # rxOff
         => /\ queue # <<>>
            /\ base[rxOff] = Head(queue)
            /\ queue' = Tail(queue)]_rbVars

(* A byte sent does not stay unread: the receiver does not wait at a slot  *)
(* for ever while there is data.                                           *)
EveryByteReceived ==
    \A i \in Slot : (queue # <<>> /\ rxOff = i) ~> (rxOff # i)
=============================================================================
