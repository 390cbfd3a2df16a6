-------------------------------- MODULE Mmc ---------------------------------
(***************************************************************************)
(* libsdhcdrivers, mmc.c: bringing a card up, and the life of a block      *)
(* transfer.  mmc_init sends the card one blocking command after another,  *)
(* most of them without looking at the result.  A command that fails       *)
(* leaves cmd.response as an earlier command of the same function wrote    *)
(* it, and what follows reads that.                                        *)
(*                                                                         *)
(* A response of four 32 bit words is the set of its bits that are 1.  The *)
(* card is external: a state machine that answers the commands that are    *)
(* legal in its state and keeps silent otherwise.  A fault loses a command *)
(* or the answer to it; either way host_send_command returns an error.     *)
(***************************************************************************)
EXTENDS Integers, FiniteSets

CONSTANTS
    Cards,       \* the cards: records of kind, v2, ccs and csd
    MaxBusy,     \* polls a card may need before it is ready
    MaxFaults,   \* commands or answers lost while the card is brought up
    Transfers,   \* transfers that can be under way together
    Starts,      \* starting blocks the client asks for
    BlockSize,   \* mmc_block_size
    ArgSpan      \* 2^32, the values of a command's argument

ASSUME MmcBounds ==
    /\ MaxBusy \in Nat /\ MaxFaults \in Nat
    /\ BlockSize \in Nat \ {0} /\ ArgSpan \in Nat \ {0}
    /\ Starts \subseteq Nat
ASSUME CardAssumption ==
    \A c \in Cards : /\ c.kind \in {"sd", "mmc"} /\ c.csd \subseteq 0..127
                     /\ c.v2 \in BOOLEAN /\ c.ccs \in BOOLEAN
                     /\ (c.ccs => c.v2) /\ (c.v2 => c.kind = "sd")

VARIABLES
    pc,       \* the step of mmc_init, or where it ended
    mmc,      \* struct mmc_card: type, ocr, high_capacity, raw_rca, raw_csd
    resp,     \* cmd.response of the function that runs
    hcs,      \* voltage has the bits that only a compatible host sets
    card,     \* the card
    faults,   \* faults so far
    failed,   \* history: the steps of mmc_init that a fault hit
    call,     \* transfer_data: its transfer, step, ret and whether it has a cb
    args,     \* start and arg of each transfer
    heap,     \* what is allocated: pairs of a transfer and a kind of block
    queued,   \* transfers the host has accepted and not called back
    badFree   \* history: something not allocated was freed

init == <<pc, mmc, resp, hcs, card, faults, failed>>
transfer == <<call, args, heap, queued, badFree>>
vars == <<init, transfer>>

\* The bits of word i of a response, and shifts of a word.
Word(r, i) == {b \in 0..31 : 32 * i + b \in r}
Shl(w, k) == {b + k : b \in {c \in w : c + k < 32}}
Shr(w, k) == {b - k : b \in {c \in w : c >= k}}
Words(f) == UNION {{32 * i + b : b \in f[i]} : i \in DOMAIN f}

\* Mutant: the words are shifted from the lowest up, each into a shifted one.
MutShiftResponse(r) ==
    Words([i \in 0..3 |->
        Shl(Word(r, i), 8)
            \cup (IF i = 0 THEN {} ELSE Shr(Shl(Word(r, i - 1), 8), 24))])

\* "Left shift the response by 8": the controller drops the checksum byte.
ShiftResponse(r) ==
    Words([i \in 0..3 |->
        Shl(Word(r, i), 8) \cup (IF i = 0 THEN {} ELSE Shr(Word(r, i - 1), 24))])

\* slice_bits: bits start..start+size-1 of a value of several words.
SliceBits(r, start, size) ==
    LET idx == start \div 32 low == start % 32 high == (start + size) % 32
    IN  CASE high = 0 -> Shr(Word(r, idx), low)
          [] high > low -> Shr(Word(r, idx) \cap 0..(high - 1), low)
          [] OTHER -> Shr(Word(r, idx), low)
                         \cup Shl(Word(r, idx + 1) \cap 0..(high - 1), 32 - low)

(* mmc_decode_csd: the fields as sets of bits; mmc_card_capacity is        *)
(* computed from them alone, -1 for an unknown structure.                  *)
DecodeCsd(r) ==
    LET structure == SliceBits(r, 126, 2)
        rest == [bl_len |-> SliceBits(r, 80, 4), speed |-> SliceBits(r, 96, 8)]
    IN  CASE structure = {} ->
               <<SliceBits(r, 62, 12), SliceBits(r, 47, 3), rest>>
          [] structure = {0} -> <<SliceBits(r, 48, 22), {}, rest>>
          [] OTHER -> <<>>
-----------------------------------------------------------------------------
\* The card (external).
NoRca == {}
CardRca == {0, 3}          \* the address an SD card publishes
CardCid == {5, 40, 57, 100, 119}
Voltages == {17, 18, 20}
Inquiry == {}              \* an operating condition command without a voltage
HcsBit == 30
BlockLen == {9}            \* 512

Ocr(ready) == Voltages \cup (IF ready THEN {31} ELSE {})
                       \cup (IF ready /\ card.ccs THEN {HcsBit} ELSE {})
Addressed(arg) == Shr(arg, 16) = card.rca

\* The card can be ready: it has seen the high capacity bit it needs.
Serviceable(arg) == card.ccs => HcsBit \in arg /\ card.cmd8
Powered(arg) == arg # Inquiry /\ Serviceable(arg) /\ card.busy = 0

\* Whether the card answers the command, and the bits of its answer.
Answers(c, arg) ==
    \/ c = 0
    \/ c = 8 /\ card.v2 /\ card.state = "idle"
    \/ /\ c = 55 /\ card.kind = "sd" /\ card.state \in {"idle", "stby", "tran"}
       /\ Addressed(arg)
    \/ c = 41 /\ card.app /\ card.state = "idle"
    \/ c = 1 /\ card.kind = "mmc" /\ card.state = "idle"
    \/ c = 2 /\ card.state = "ready"
    \/ c = 3 /\ card.state \in {"ident", "stby"}
    \/ c \in {7, 9} /\ card.state = "stby" /\ Addressed(arg)
    \/ c = 13 /\ card.state \in {"stby", "tran"} /\ Addressed(arg)
    \/ c = 6 /\ card.state = "tran" /\ card.kind = "sd"
    \/ c = 16 /\ card.state = "tran"

Answer(c, arg) ==
    CASE c = 41 -> Ocr(Powered(arg))
      [] c = 1 -> Ocr(card.busy = 0)
      [] c = 2 -> {b - 8 : b \in CardCid \ 0..7}
      [] c = 9 -> {b - 8 : b \in card.csd \ 0..7}
      [] c = 3 -> Shl(CardRca, 16)
      [] OTHER -> {8}      \* the status: ready for data

\* The state a command that is answered takes the card to.
Goes(c, arg) ==
    CASE c = 0 -> "idle"
      [] c = 41 /\ Powered(arg) -> "ready"
      [] c = 2 -> "ident"
      [] c = 3 -> "stby"
      [] c = 7 -> "tran"
      [] OTHER -> card.state

\* What the card does with a command it receives.  A prefix that is answered
\* holds for the next command only.
Takes(c, arg) ==
    LET ok == Answers(c, arg)
    IN  [card EXCEPT
            !.state = IF ok THEN Goes(c, arg) ELSE @,
            !.app = ok /\ c = 55,
            !.busy = IF ok /\ c = 41 /\ arg # Inquiry /\ @ > 0 THEN @ - 1 ELSE @,
            !.cmd8 = c # 0 /\ (@ \/ (ok /\ c = 8)),
            !.rca = IF c = 0 THEN NoRca ELSE IF ok /\ c = 3 THEN CardRca ELSE @,
            !.wide = c # 0 /\ (@ \/ (ok /\ c = 6 /\ card.app)),
            !.len = IF ok /\ c = 16 THEN arg = BlockLen ELSE @ /\ c # 0]

(* host_send_command for command c: 0, or an error when the card keeps     *)
(* silent or a fault strikes.                                              *)
Send(c, arg, ret) ==
    \/ /\ ret = IF Answers(c, arg) THEN 0 ELSE -1
       /\ card' = Takes(c, arg)
       /\ UNCHANGED <<faults, failed>>
    \/ /\ faults < MaxFaults /\ ret = -1
       /\ faults' = faults + 1
       /\ failed' = failed \cup {pc}
       /\ card' \in {card, Takes(c, arg)}

\* cmd.response afterwards: a short answer is written on success only.
Short(c, arg, ret) ==
    IF ret = 0 THEN (resp \ 0..31) \cup Answer(c, arg) ELSE resp

\* A long answer likewise; then what is there is shifted, new or old.
Long(c, arg, ret) == ShiftResponse(IF ret = 0 THEN Answer(c, arg) ELSE resp)

\* A command whose result mmc_init does not look at, then the step next.
Blind(step, c, arg, next) ==
    /\ pc = step
    /\ \E ret \in {0, -1} : Send(c, arg, ret) /\ resp' = Short(c, arg, ret)
    /\ pc' = next
    /\ UNCHANGED <<mmc, hcs, transfer>>
-----------------------------------------------------------------------------
\* What malloc left in the structure is overwritten before it is read.
NoCard == [type |-> "unknown", ocr |-> {}, hc |-> FALSE, rca |-> NoRca,
           csd |-> {}]

\* mmc_init is called with a card in the slot, in whatever state it is.
Init ==
    /\ pc = "reset" /\ mmc = NoCard /\ resp = {} /\ hcs = FALSE
    /\ \E c \in Cards, s \in {"idle", "tran"}, busy \in 0..MaxBusy :
          card = [kind |-> c.kind, v2 |-> c.v2, ccs |-> c.ccs, csd |-> c.csd,
                  state |-> s, app |-> FALSE, busy |-> busy, cmd8 |-> FALSE,
                  rca |-> NoRca, wide |-> FALSE, len |-> FALSE]
    /\ faults = 0 /\ failed = {}
    /\ call = [t |-> 0, at |-> "none", ret |-> 0, cb |-> FALSE]
    /\ args = [t \in Transfers |-> [start |-> 0, arg |-> 0]]
    /\ heap = {} /\ queued = {} /\ badFree = FALSE

\* host_reset: an error frees the card.
HostReset ==
    /\ pc = "reset"
    /\ pc' \in {"go_idle", "failed"}
    /\ UNCHANGED <<mmc, resp, hcs, card, faults, failed, transfer>>

\* mmc_reset, whose cmd is dropped: the next function has one of its own.
ResetCard(step, c, arg, next) ==
    /\ pc = step
    /\ \E ret \in {0, -1} : Send(c, arg, ret)
    /\ pc' = next
    /\ UNCHANGED <<mmc, resp, hcs, transfer>>
GoIdle == ResetCard("go_idle", 0, {}, "cmd8")
Cmd8 == ResetCard("cmd8", 8, {1, 3, 5, 7, 8}, "probe")

\* A card that answers the prefix of an application command is an SD card.
Probe ==
    /\ pc = "probe"
    /\ \E ret \in {0, -1} :
          /\ Send(55, {}, ret) /\ resp' = Short(55, {}, ret)
          /\ mmc' = [mmc EXCEPT !.type = IF ret = 0 THEN "sd" ELSE "mmc"]
    /\ pc' = "op_cond"
    /\ UNCHANGED <<hcs, transfer>>

(* The first operating condition command, which asserts that it was        *)
(* answered; a host that can supply the voltage offers high capacity.      *)
OpCond ==
    LET c == IF mmc.type = "sd" THEN 41 ELSE 1
    IN  /\ pc = "op_cond"
        /\ \E ret \in {0, -1} :
              /\ Send(c, Inquiry, ret) /\ resp' = Short(c, Inquiry, ret)
              /\ IF ret # 0
                 THEN /\ mmc' = [mmc EXCEPT !.type = "unknown"]
                      /\ pc' = "asserted" /\ UNCHANGED hcs
                 ELSE /\ mmc' = [mmc EXCEPT !.ocr = Word(resp', 0)]
                      /\ pc' = "app"
                      /\ hcs' \in {FALSE, mmc'.ocr \cap {17, 18} # {}}
        /\ UNCHANGED transfer

\* The prefix in the polling loop, sent to an SD card only.
PollApp ==
    \/ mmc.type = "sd" /\ Blind("app", 55, {}, "poll")
    \/ /\ pc = "app" /\ mmc.type # "sd"
       /\ pc' = "poll"
       /\ UNCHANGED <<mmc, resp, hcs, card, faults, failed, transfer>>

Voltage == {17, 18} \cup IF hcs THEN {24, 25, HcsBit} ELSE {}

\* The loop ends when the response says that the card is ready.
Ready(r) == 31 \in r

\* Mutant: a poll that fails is not repeated with its prefix.
MutPoll ==
    /\ pc = "poll"
    /\ \E ret \in {0, -1} :
          Send(41, Voltage, ret) /\ resp' = Short(41, Voltage, ret)
    /\ IF Ready(resp')
       THEN /\ mmc' = [mmc EXCEPT !.ocr = Word(resp', 0),
                                  !.hc = HcsBit \in resp']
            /\ pc' = "cid"
       ELSE pc' = "poll" /\ UNCHANGED mmc
    /\ UNCHANGED <<hcs, transfer>>

(* Poll until the card is ready, reading on an error what an earlier       *)
(* command left; then keep the operating conditions.                       *)
Poll ==
    /\ pc = "poll"
    /\ \E ret \in {0, -1} :
          Send(41, Voltage, ret) /\ resp' = Short(41, Voltage, ret)
    /\ IF Ready(resp')
       THEN /\ mmc' = [mmc EXCEPT !.ocr = Word(resp', 0),
                                  !.hc = HcsBit \in resp']
            /\ pc' = "cid"
       ELSE pc' = "app" /\ UNCHANGED mmc
    /\ UNCHANGED <<hcs, transfer>>

\* mmc_card_registry: no answer to the identification ends mmc_init.
Cid ==
    /\ pc = "cid"
    /\ \E ret \in {0, -1} :
          /\ Send(2, {}, ret)
          /\ resp' = IF ret = 0 THEN Long(2, {}, ret) ELSE resp
          /\ pc' = IF ret = 0 THEN "rca" ELSE "failed"
    /\ UNCHANGED <<mmc, hcs, transfer>>

\* The address the card publishes, and the registers read with it.
Rca ==
    /\ pc = "rca"
    /\ \E ret \in {0, -1} : Send(3, {}, ret) /\ resp' = Short(3, {}, ret)
    /\ mmc' = [mmc EXCEPT !.rca = Shr(Word(resp', 0), 16)]
    /\ pc' = "csd"
    /\ UNCHANGED <<hcs, transfer>>
RcaArg == Shl(mmc.rca, 16)
Csd ==
    /\ pc = "csd"
    /\ \E ret \in {0, -1} :
          Send(9, RcaArg, ret) /\ resp' = Long(9, RcaArg, ret)
    /\ mmc' = [mmc EXCEPT !.csd = resp']
    /\ pc' = "status"
    /\ UNCHANGED <<hcs, transfer>>

\* The card is selected, switched to four bits, and told the block length.
Status == Blind("status", 13, RcaArg, "select")
Select == Blind("select", 7, RcaArg, "width_app")
WidthApp == Blind("width_app", 55, RcaArg, "width")
Width == Blind("width", 6, {1}, IF mmc.hc THEN "operational" ELSE "block_len")
BlockLength == Blind("block_len", 16, BlockLen, "operational")

\* host_set_operational: an error frees the card.
Operational ==
    /\ pc = "operational"
    /\ pc' \in {"up", "failed"}
    /\ UNCHANGED <<mmc, resp, hcs, card, faults, failed, transfer>>

MmcInit ==
    \/ HostReset \/ GoIdle \/ Cmd8 \/ Probe \/ OpCond \/ PollApp \/ Poll
    \/ Cid \/ Rca \/ Csd \/ Status \/ Select \/ WidthApp \/ Width
    \/ BlockLength \/ Operational
-----------------------------------------------------------------------------
\* What a transfer's command carries: blocks, or bytes, in 32 bits.
TransferArg(start) == (IF mmc.hc THEN start ELSE start * BlockSize) % ArgSpan

\* transfer_data: without memory for the command it returns at once.
TransferData(t, start, cb) ==
    /\ pc = "up" /\ call.at = "none" /\ t \notin queued
    /\ args' = [args EXCEPT ![t] = [start |-> start, arg |-> TransferArg(start)]]
    /\ \/ /\ heap' = heap \cup {<<t, "cmd">>}
          /\ call' = [t |-> t, at |-> "data", ret |-> -1, cb |-> cb]
       \/ UNCHANGED <<heap, call>>
    /\ UNCHANGED <<init, queued, badFree>>

\* mmc_cmd_add_data, and the token of a transfer with a callback.
Allocate(step, kind, next) ==
    /\ call.at = step
    /\ \/ /\ heap' = heap \cup {<<call.t, kind>>}
          /\ call' = [call EXCEPT !.at = next]
       \/ call' = [call EXCEPT !.at = "exit", !.ret = -1] /\ UNCHANGED heap
    /\ UNCHANGED <<init, args, queued, badFree>>
AddData == Allocate("data", "data", IF call.cb THEN "token" ELSE "send")
NewToken == Allocate("token", "token", "send")

(* host_send_command: the host keeps a command with a callback and returns *)
(* 0; one without has succeeded or failed when the call returns.           *)
SendTransfer ==
    /\ call.at = "send"
    /\ \E ret \in IF call.cb THEN {0} ELSE {0, -1} :
          call' = [call EXCEPT !.at = "exit", !.ret = ret]
    /\ queued' = IF call.cb THEN queued \cup {call.t} ELSE queued
    /\ UNCHANGED <<init, args, heap, badFree>>

\* Free the blocks of a transfer that are there, or that are taken to be.
FreeAll(t, kinds) ==
    /\ badFree' = (badFree \/ \E k \in kinds : <<t, k>> \notin heap)
    /\ heap' = heap \ {<<t, k>> : k \in kinds}

\* Mutant: only a failure cleans up.
MutKept == call.ret = 0

\* The clean up is left to the callback.
Kept == call.cb /\ call.ret = 0

(* The label exit_transfer_data: mmc_token and cmd->data are freed when    *)
(* they are not NULL.                                                      *)
ExitTransferData ==
    /\ call.at = "exit"
    /\ IF Kept THEN UNCHANGED <<heap, badFree>>
       ELSE FreeAll(call.t, {"cmd"} \cup
                {k \in {"data", "token"} : <<call.t, k>> \in heap})
    /\ call' = [call EXCEPT !.at = "none"]
    /\ UNCHANGED <<init, args, queued>>

(* mmc_blockop_completion_cb, called by the host's interrupt handler: tell *)
(* the client and free the command, its data and the token.                *)
BlockopCompletionCb(t) ==
    /\ call.at = "none" /\ t \in queued
    /\ queued' = queued \ {t}
    /\ FreeAll(t, {"cmd", "data", "token"})
    /\ UNCHANGED <<init, call, args>>

Next ==
    \/ MmcInit
    \/ \E t \in Transfers, s \in Starts, cb \in BOOLEAN : TransferData(t, s, cb)
    \/ AddData \/ NewToken \/ SendTransfer \/ ExitTransferData
    \/ \E t \in Transfers : BlockopCompletionCb(t)

\* The thread that calls mmc_init goes on running.
Spec == Init /\ [][Next]_vars /\ WF_vars(MmcInit)
-----------------------------------------------------------------------------
Steps == {"reset", "go_idle", "cmd8", "probe", "op_cond", "app", "poll", "cid",
          "rca", "csd", "status", "select", "width_app", "width", "block_len",
          "operational", "up", "failed", "asserted"}

\* Types and bounds of the model; an argument fits 32 bits.
TypeOK ==
    /\ pc \in Steps
    /\ mmc.type \in {"unknown", "sd", "mmc"} /\ mmc.hc \in BOOLEAN
    /\ mmc.ocr \subseteq 0..31 /\ mmc.rca \subseteq 0..15
    /\ mmc.csd \subseteq 0..127 /\ resp \subseteq 0..127
    /\ hcs \in BOOLEAN
    /\ card.state \in {"idle", "ready", "ident", "stby", "tran"}
    /\ card.busy \in 0..MaxBusy
    /\ faults \in 0..MaxFaults /\ failed \subseteq Steps
    /\ call.at \in {"none", "data", "token", "send", "exit"}
    /\ call.ret \in {0, -1}
    /\ args \in [Transfers -> [start : Starts \cup {0}, arg : 0..(ArgSpan - 1)]]
    /\ heap \subseteq Transfers \X {"cmd", "data", "token"}
    /\ queued \subseteq Transfers /\ badFree \in BOOLEAN

(* A card that mmc_init brings up is an SD card whose capacity class and   *)
(* readiness the driver read from the card's own final answer, whatever    *)
(* was lost on the way: a stale response never ends the polling.           *)
ClassRight ==
    pc = "up" => /\ card.kind = "sd" /\ mmc.type = "sd"
                 /\ mmc.hc = card.ccs /\ mmc.ocr = Ocr(TRUE)

(* If none of the commands whose result is ignored after the polling was   *)
(* hit by a fault, the card ends in the state the driver and the host rely *)
(* on: selected, at the address the driver keeps, four bits wide, with the *)
(* block length of a byte addressed card set.                              *)
CardReady ==
    pc = "up" /\ failed \cap {"rca", "select", "width_app", "width",
                              "block_len"} = {} =>
        /\ card.state = "tran" /\ mmc.rca = card.rca /\ card.wide
        /\ ~card.ccs => card.len

(* The fields decoded from the CSD, after the controller dropped its low   *)
(* byte and the driver shifted it back over four words, are the card's.    *)
CsdRight ==
    LET Field(start, size) ==
            {b - start : b \in card.csd \cap start..(start + size - 1)}
        rest == [bl_len |-> Field(80, 4), speed |-> Field(96, 8)]
    IN  pc = "up" /\ failed \cap {"rca", "csd"} = {} =>
            DecodeCsd(mmc.csd) =
                CASE Field(126, 2) = {} -> <<Field(62, 12), Field(47, 3), rest>>
                  [] Field(126, 2) = {0} -> <<Field(48, 22), {}, rest>>
                  [] OTHER -> <<>>

(* The assertion in mmc_voltage_validation fails only if a fault hit the   *)
(* reset or one of the two commands that find out the kind of the card.    *)
AssertsOnFault ==
    pc = "asserted" => failed \cap {"go_idle", "probe", "op_cond"} # {}

(* mmc_init ends with a card it has understood and brought to its transfer *)
(* state, or gives up for a reason.                                        *)
InitSound == TypeOK /\ ClassRight /\ CardReady /\ CsdRight /\ AssertsOnFault

(* A command the host has been given addresses the block that was asked    *)
(* for, when that block's address fits the argument.                       *)
AddressRight ==
    \A t \in queued :
        LET start == args[t].start
            arg == args[t].arg
        IN  start * (IF card.ccs THEN 1 ELSE BlockSize) < ArgSpan =>
                (IF card.ccs THEN arg ELSE arg \div BlockSize) = start

(* Between calls, what is allocated is exactly what the transfers the host *)
(* still holds need, and nothing was freed that was not allocated.         *)
NothingLeaks ==
    /\ ~badFree
    /\ call.at = "none" => heap = queued \X {"cmd", "data", "token"}

(* A transfer goes to the block asked for, and returns what it allocated.  *)
TransfersSound == AddressRight /\ NothingLeaks

(* The polling cannot end: an MMC card is polled with a command it does    *)
(* not know; a high capacity card has not been told that the host knows    *)
(* it; or the one answer that said ready was lost.                         *)
Unanswerable ==
    /\ pc \in {"app", "poll"}
    /\ \/ mmc.type = "mmc"
       \/ card.ccs /\ (~hcs \/ ~card.cmd8)
       \/ card.state # "idle"

(* mmc_init ends, although the loop that waits for the card has no limit,  *)
(* unless the polling cannot end.                                          *)
InitEnds == <>(pc \in {"up", "failed", "asserted"} \/ Unanswerable)
=============================================================================
