-------------------------------- MODULE Sdhc --------------------------------
(***************************************************************************)
(* libsdhcdrivers: the command queue of sdhc.c and the block transfers of  *)
(* mmc.c that use it.  Commands wait in a linked list whose head the       *)
(* controller executes; sdhc_handle_irq moves the list on, called by the   *)
(* client when the interrupt fires or, for a blocking command, by the loop *)
(* of sdhc_send_cmd.  The driver is one thread; the controller runs        *)
(* beside it and latches its events in INT_STATUS, where the driver reads  *)
(* them and, several steps later, clears what it has read.                 *)
(*                                                                         *)
(* A command is a structure in memory, which is used again once it has     *)
(* been destroyed.  Blocking commands never come from a callback.          *)
(***************************************************************************)
EXTENDS Integers, Sequences

CONSTANTS
    Cmds,        \* the command structures
    Null,        \* no command
    Blocking,    \* commands sent without a callback
    Pio, Dma,    \* commands with data, copied by the driver or by DMA
    Long,        \* commands with more data than one block
    Blocks,      \* blocks of such a command
    MaxErrors,   \* errors the controller reports
    MaxRemovals  \* removals of the card

ASSUME CmdAssumption ==
    /\ Null \notin Cmds
    /\ Blocking \subseteq Cmds /\ Pio \subseteq Cmds /\ Dma \subseteq Cmds
    /\ Pio \cap Dma = {} /\ Cmds \ Blocking \subseteq Pio \cup Dma
    /\ Long \subseteq Pio \cup Dma
ASSUME SdhcBounds ==
    /\ Blocks \in Nat \ {0} /\ MaxErrors \in Nat /\ MaxRemovals \in Nat

VARIABLES
    head,      \* cmd_list_head
    tail,      \* cmd_list_tail: whose next it points to, Null for the head
    next,      \* next of every command
    complete,  \* complete of every command: 0, 1 or -1
    remaining, \* blocks_remaining
    at, cur,   \* the step of sdhc_handle_irq, and its cmd
    bits,      \* its int_status
    waiting,   \* the command whose sdhc_send_cmd waits for it, or Null
    status,    \* INT_STATUS
    hw,        \* the controller: command, phase, block, and a block in its port
    errors, removals,
    \* History variables.
    fifo,      \* commands sent and not yet finished, in order
    busy,      \* commands sent and not yet destroyed
    outcome,   \* what the controller did: "none", "done", "error"
    told,      \* what the client was told: "none", "ok", "failed"
    copied,    \* pairs of a block in memory and a block on the card
    tripped    \* an assertion has failed

list == <<head, tail, next>>
irqVars == <<at, cur, bits>>
history == <<fifo, busy, outcome, told, copied, tripped>>
vars == <<list, complete, remaining, irqVars, waiting, status, hw, errors,
          removals, history>>

Data == Pio \cup Dma
Size(c) == IF c \in Long THEN Blocks ELSE 1
IdleHw == [cmd |-> Null, phase |-> "idle", block |-> 0, port |-> FALSE]
NoStatus == {}
Bits == {"CC", "BR", "TC", "ERR", "CRM"}

\* sdhc_init
Init ==
    /\ head = Null /\ tail = Null
    /\ next = [c \in Cmds |-> Null]
    /\ complete = [c \in Cmds |-> 0]
    /\ remaining = 0
    /\ at = "none" /\ cur = Null /\ bits = NoStatus
    /\ waiting = Null
    /\ status = NoStatus
    /\ hw = IdleHw
    /\ errors = 0 /\ removals = 0
    /\ fifo = <<>> /\ busy = {}
    /\ outcome = [c \in Cmds |-> "none"]
    /\ told = [c \in Cmds |-> "none"]
    /\ copied = [c \in Cmds |-> {}]
    /\ tripped = FALSE
-----------------------------------------------------------------------------
(* sdhc_next_cmd for the command c: wait until the controller is ready,    *)
(* program it and issue the command.                                       *)
NextCmd(c) ==
    /\ hw.phase = "idle"
    /\ hw' = [cmd |-> c, phase |-> "command", block |-> 1, port |-> FALSE]
    /\ remaining' = IF c \in Data THEN Size(c) ELSE remaining

\* The thread is in the client: outside the driver, or in a callback.
InClient == (at = "none" /\ waiting = Null) \/ at = "callback"

\* Mutant: the tail is not moved.
MutEnqueue(c) ==
    /\ next' = [d \in Cmds |-> IF d = c THEN Null
                               ELSE IF d = tail THEN c ELSE next[d]]
    /\ head' = IF tail = Null THEN c ELSE head
    /\ tail' = IF tail = Null THEN c ELSE tail

\* *cmd_list_tail = cmd; cmd_list_tail = &cmd->next
Enqueue(c) ==
    /\ next' = [d \in Cmds |-> IF d = c THEN Null
                               ELSE IF d = tail THEN c ELSE next[d]]
    /\ head' = IF tail = Null THEN c ELSE head
    /\ tail' = c

\* transfer_data allocates the command; those without data are on a stack.
NewCmd(c) ==
    /\ c \notin busy
    /\ busy' = busy \cup {c}
    /\ outcome' = [outcome EXCEPT ![c] = "none"]
    /\ told' = [told EXCEPT ![c] = "none"]
    /\ copied' = [copied EXCEPT ![c] = {}]

(* sdhc_send_cmd, for a new command.  A blocking one goes on to wait for   *)
(* it, any other returns 0.                                                *)
SendCmd(c) ==
    /\ InClient
    /\ NewCmd(c)
    /\ c \in Blocking => at = "none"
    /\ complete' = [complete EXCEPT ![c] = 0]
    /\ Enqueue(c)
    /\ IF head' = c THEN NextCmd(c) ELSE UNCHANGED <<hw, remaining>>
    /\ waiting' = IF c \in Blocking THEN c ELSE waiting
    /\ fifo' = Append(fifo, c)
    /\ UNCHANGED <<irqVars, status, errors, removals, tripped>>

\* transfer_data destroys the command and passes the result on.
TransferReturns(c) ==
    /\ told' = [told EXCEPT ![c] = IF complete[c] < 0 THEN "failed" ELSE "ok"]
    /\ busy' = busy \ {c}

\* The waiting loop ends, and so does the call.
SendCmdReturns ==
    /\ waiting # Null /\ at = "none"
    /\ complete[waiting] # 0
    /\ TransferReturns(waiting)
    /\ waiting' = Null
    /\ UNCHANGED <<list, complete, remaining, irqVars, status, hw, errors,
                   removals, fifo, outcome, copied, tripped>>
-----------------------------------------------------------------------------
(* sdhc_handle_irq.                                                        *)

\* Called by the client or, before a blocking command is complete, by its loop
IrqRead ==
    /\ at = "none"
    /\ waiting # Null => complete[waiting] = 0
    /\ status # {}
    /\ bits' = status /\ cur' = head
    /\ at' = IF head = Null THEN "clear" ELSE "handle"
    /\ UNCHANGED <<list, complete, remaining, waiting, status, hw, errors,
                   removals, history>>

\* The error bits that set complete to -1
Failed(b) == "ERR" \in b \/ "CRM" \in b

\* The assertions on the command, for the bits that were read
AssertsHold(c, b) ==
    /\ ("CC" \in b /\ c \notin Data) \/ "BR" \in b \/ "TC" \in b =>
          complete[c] = 0 /\ ~Failed(b)
    /\ "BR" \in b => c \in Data
    /\ "CC" \in b /\ "TC" \in b => c \in Data

\* Mutant: a command with data is complete with its response.
MutCompleted(c, b) == "CC" \in b \/ "TC" \in b

\* The events that set complete to 1
Completed(c, b) == ("CC" \in b /\ c \notin Data) \/ "TC" \in b

\* Errors, then the response, then one block through the data port, then the
\* end of the transfer
IrqHandle ==
    LET copies == "BR" \in bits /\ remaining > 0
    IN  /\ at = "handle"
        /\ AssertsHold(cur, bits)
        /\ complete' = [complete EXCEPT ![cur] =
                           IF Completed(cur, bits) THEN 1
                           ELSE IF Failed(bits) THEN -1 ELSE @]
        /\ IF copies
           THEN /\ remaining' = remaining - 1
                /\ copied' = [copied EXCEPT ![cur] = @ \cup
                                 {<<1, IF hw.port THEN hw.block ELSE 0>>}]
                /\ hw' = IF hw.port
                         THEN [hw EXCEPT !.port = FALSE, !.block = @ + 1]
                         ELSE hw
           ELSE UNCHANGED <<remaining, copied, hw>>
        /\ at' = "clear"
        /\ UNCHANGED <<list, cur, bits, waiting, status, errors, removals, fifo,
                       busy, outcome, told, tripped>>

\* An assertion fails and the program stops.
IrqAbort ==
    /\ at = "handle"
    /\ ~AssertsHold(cur, bits)
    /\ tripped' = TRUE
    /\ at' = "aborted"
    /\ UNCHANGED <<list, complete, remaining, cur, bits, waiting, status, hw,
                   errors, removals, fifo, busy, outcome, told, copied>>

\* Mutant: everything is cleared, whether it was read or not.
MutIrqClear ==
    /\ at = "clear"
    /\ status' = {}
    /\ at' = IF cur # Null /\ complete[cur] # 0 THEN "finish" ELSE "none"
    /\ UNCHANGED <<list, complete, remaining, cur, bits, waiting, hw, errors,
                   removals, history>>

\* The bits that were read are cleared.
IrqClear ==
    /\ at = "clear"
    /\ status' = status \ bits
    /\ at' = IF cur # Null /\ complete[cur] # 0 THEN "finish" ELSE "none"
    /\ UNCHANGED <<list, complete, remaining, cur, bits, waiting, hw, errors,
                   removals, history>>

\* The list moves on from its first command.
Dequeue(c) ==
    /\ head' = next[c]
    /\ tail' = IF next[c] = Null THEN Null ELSE tail
    /\ next' = [next EXCEPT ![c] = Null]

\* The command has finished: the next one is issued, and the callback, if
\* there is one, is called, with status 0 in every case.
IrqFinish ==
    /\ at = "finish"
    /\ Dequeue(cur)
    /\ IF head' # Null THEN NextCmd(head') ELSE UNCHANGED <<hw, remaining>>
    /\ at' = IF cur \in Blocking THEN "none" ELSE "callback"
    /\ told' = IF cur \in Blocking THEN told ELSE [told EXCEPT ![cur] = "ok"]
    /\ fifo' = Tail(fifo)
    /\ UNCHANGED <<complete, cur, bits, waiting, status, errors, removals, busy,
                   outcome, copied, tripped>>

\* Mutant: the command is not destroyed.
MutCallbackReturns ==
    /\ at = "callback"
    /\ at' = "none"
    /\ UNCHANGED <<list, complete, remaining, cur, bits, waiting, status, hw,
                   errors, removals, history>>

\* mmc_blockop_completion_cb has called the client and destroys the command.
CallbackReturns ==
    /\ at = "callback"
    /\ at' = "none"
    /\ busy' = busy \ {cur}
    /\ UNCHANGED <<list, complete, remaining, cur, bits, waiting, status, hw,
                   errors, removals, fifo, outcome, told, copied, tripped>>
-----------------------------------------------------------------------------
(* The controller and the card (external).                                 *)

Raise(bit) == status' = status \cup {bit}

HwUnchanged ==
    UNCHANGED <<list, complete, remaining, irqVars, waiting, fifo, busy, told,
                tripped>>

HwEnd(what) ==
    /\ hw' = IdleHw
    /\ outcome' = [outcome EXCEPT ![hw.cmd] = what]

HwResponse ==
    /\ hw.phase = "command"
    /\ Raise("CC")
    /\ IF hw.cmd \in Data
       THEN hw' = [hw EXCEPT !.phase = "data"] /\ UNCHANGED outcome
       ELSE HwEnd("done")
    /\ UNCHANGED <<errors, removals, copied>> /\ HwUnchanged

\* A block by DMA, or a block ready in the data port
HwBlock ==
    /\ hw.phase = "data" /\ hw.block <= Size(hw.cmd) /\ ~hw.port
    /\ IF hw.cmd \in Dma
       THEN /\ hw' = [hw EXCEPT !.block = @ + 1]
            /\ copied' = [copied EXCEPT ![hw.cmd] = @ \cup {<<hw.block, hw.block>>}]
            /\ UNCHANGED status
       ELSE hw' = [hw EXCEPT !.port = TRUE] /\ Raise("BR") /\ UNCHANGED copied
    /\ UNCHANGED <<outcome, errors, removals>> /\ HwUnchanged

HwTransferComplete ==
    /\ hw.phase = "data" /\ hw.block > Size(hw.cmd)
    /\ Raise("TC")
    /\ HwEnd("done")
    /\ UNCHANGED <<errors, removals, copied>> /\ HwUnchanged

HwError ==
    /\ hw.phase # "idle"
    /\ errors < MaxErrors /\ errors' = errors + 1
    /\ Raise("ERR")
    /\ HwEnd("error")
    /\ UNCHANGED <<removals, copied>> /\ HwUnchanged

HwRemoval ==
    /\ removals < MaxRemovals /\ removals' = removals + 1
    /\ Raise("CRM")
    /\ UNCHANGED <<hw, outcome, errors, copied>> /\ HwUnchanged
-----------------------------------------------------------------------------
Irq == IrqRead \/ IrqHandle \/ IrqAbort \/ IrqClear \/ IrqFinish \/ CallbackReturns
Controller == HwResponse \/ HwBlock \/ HwTransferComplete

Next ==
    \/ \E c \in Cmds : SendCmd(c)
    \/ SendCmdReturns
    \/ Irq
    \/ Controller \/ HwError \/ HwRemoval

Spec == Init /\ [][Next]_vars

\* The controller finishes what it is given, the driver its calls, and the
\* interrupt, or the loop that waits, leads to the handler.  Nobody need send.
FairSpec ==
    /\ Spec
    /\ WF_vars(Controller) /\ WF_vars(Irq) /\ WF_vars(SendCmdReturns)
-----------------------------------------------------------------------------
Outcomes == {"none", "done", "error"}
HwType == [cmd : Cmds \cup {Null}, phase : {"idle", "command", "data"},
           block : 0..(Blocks + 1), port : BOOLEAN]

TypeOK ==
    /\ head \in Cmds \cup {Null} /\ tail \in Cmds \cup {Null}
    /\ next \in [Cmds -> Cmds \cup {Null}]
    /\ complete \in [Cmds -> {-1, 0, 1}]
    /\ remaining \in 0..Blocks
    /\ at \in {"none", "handle", "clear", "finish", "callback", "aborted"}
    /\ cur \in Cmds \cup {Null} /\ waiting \in Blocking \cup {Null}
    /\ bits \subseteq Bits /\ status \subseteq Bits
    /\ hw \in HwType
    /\ errors \in 0..MaxErrors /\ removals \in 0..MaxRemovals
    /\ fifo \in Seq(Cmds) /\ busy \subseteq Cmds
    /\ outcome \in [Cmds -> Outcomes]
    /\ told \in [Cmds -> {"none", "ok", "failed"}]
    /\ copied \in [Cmds -> SUBSET ((0..Blocks) \X (0..Blocks))]
    /\ tripped \in BOOLEAN

(* The list spells the commands sent and not finished, in the order they   *)
(* were sent: it links only commands that have not been destroyed, and its *)
(* tail is the next field of the last one, or the head when it is empty.   *)
QueueSpelled ==
    LET n == Len(fifo)
    IN  /\ head = (IF n = 0 THEN Null ELSE fifo[1])
        /\ tail = (IF n = 0 THEN Null ELSE fifo[n])
        /\ \A i \in 1..n :
              /\ fifo[i] \in busy
              /\ next[fifo[i]] = (IF i = n THEN Null ELSE fifo[i + 1])
        /\ \A i, j \in 1..n : fifo[i] = fifo[j] => i = j

(* The controller and the list agree on the command in progress: what the  *)
(* controller executes is the head, and an idle controller with commands   *)
(* waiting has left an event behind for the driver, which therefore does   *)
(* not stall.  (A removal takes the head off under the controller.)        *)
ControllerServesHead ==
    removals = 0 =>
       /\ hw.phase # "idle" => hw.cmd = head
       /\ hw.phase = "idle" /\ head # Null =>
             status # {} \/ at \in {"handle", "clear", "finish", "aborted"}

(* The assertions of sdhc_handle_irq, a command completes once and data is *)
(* ready only for a command with data, fail in no other case than a card   *)
(* removal or an error in a transfer through the data port.                *)
AssertionsHold == tripped => removals > 0 \/ (errors > 0 /\ cur \in Pio)

(* "A function to be called onces the command has been accepted by the     *)
(* connected device": a command is complete only after the controller has  *)
(* ended it, and it fails only if that was with an error or the card is    *)
(* gone.                                                                   *)
AcceptedByDevice ==
    \A c \in busy : /\ complete[c] = 1 => outcome[c] = "done"
                    /\ complete[c] = -1 => outcome[c] = "error" \/ removals > 0

\* Every block of a command is in its own place, in memory and on the card.
Transferred(c) == c \in Data => copied[c] = {<<k, k>> : k \in 1..Size(c)}

\* The data port loop of sdhc_handle_irq starts at vbuf for every block, so the
\* blocks of a long command through the port overwrite one another.
Overwrites(c) == c \in Pio /\ c \in Long

\* The device is done with a command and, but for that, its data is in place.
Served(c) == outcome[c] = "done" /\ (Transferred(c) \/ Overwrites(c))

(* What is left of that promise: until a card is removed, a command that   *)
(* is complete has been ended by the controller with its data in place     *)
(* (but for a long one through the data port).                             *)
AcceptedUnlessRemoved ==
    removals = 0 =>
       /\ AcceptedByDevice
       /\ \A c \in busy : complete[c] = 1 => Served(c)

(* "If NULL is passed as this argument, the call will be blocking": a      *)
(* blocking call that reports success comes after the device is done, and  *)
(* every block is in its place by then.                                    *)
BlockingTold ==
    removals = 0 => \A c \in Blocking : told[c] = "ok" => Served(c)

(* A callback is given status 0 whatever became of the command.  It comes  *)
(* after the device has ended it, and with the data in place unless that   *)
(* was with an error, which the callback is not told.                      *)
CallbackTold ==
    removals = 0 =>
       \A c \in Cmds \ Blocking :
          told[c] = "ok" => Served(c) \/ outcome[c] = "error"

(* The list is sound: typed, and spelling the commands in flight.          *)
ListSound == TypeOK /\ QueueSpelled

(* The driver and the controller stay in step: the command in progress is  *)
(* the head and no assertion of the handler fails without a fault.         *)
InStep == ControllerServesHead /\ AssertionsHold

(* Until a card is removed, a client is told of success only after the     *)
(* device is done, with every block in its place.  Two cases of the code   *)
(* are excepted: long transfers through the data port, and callbacks after *)
(* an error.                                                               *)
ToldTheTruth == AcceptedUnlessRemoved /\ BlockingTold /\ CallbackTold

\* A block waits in the data port and its event has been cleared: it was
\* latched between the copy of the block before it and the clear.
Stranded == hw.port /\ "BR" \notin status

(* Every command sent is finished and destroyed, a blocking one behind any *)
(* number of others too, and whatever errors come, unless an assertion     *)
(* stops the program, a block is stranded in the data port, or the card is *)
(* removed (the handler may then wait for a controller that waits for it). *)
EveryCommandEnds ==
    \A c \in Cmds :
       (c \in busy) ~> (c \notin busy \/ tripped \/ Stranded \/ removals > 0)
=============================================================================
