----------------------------- MODULE SdhcProofs -----------------------------
(***************************************************************************)
(* Proofs about Sdhc, for any set of commands, blocks per command, errors  *)
(* and removals.                                                           *)
(***************************************************************************)
EXTENDS Sdhc, SequenceTheorems, TLAPS

(* The list: the handler works on its head, and only that command may be   *)
(* complete while it is still linked, until the handler takes it off.      *)
HandlerInv ==
    /\ hw.phase # "idle" => hw.cmd # Null
    /\ hw.port => hw.phase = "data" /\ hw.block <= Blocks
    /\ at \in {"handle", "finish", "callback"} => cur # Null
    /\ at \in {"handle", "clear", "finish"} => cur = head
    /\ at = "callback" => cur \notin Blocking
    /\ at = "callback" => cur \in busy /\ \A i \in 1..Len(fifo) : fifo[i] # cur
    /\ waiting # Null => waiting \in busy
    /\ \A i \in 1..Len(fifo) :
          complete[fifo[i]] # 0 => i = 1 /\ at \in {"clear", "finish"}

ListInv == TypeOK /\ QueueSpelled /\ HandlerInv

\* The events that end a command
Ending(c) == IF c \in Data THEN {"TC", "ERR"} ELSE {"CC", "ERR"}

\* What the driver and the controller move: by DMA every block to its place,
\* through the data port every block to or from the first place.
Passed(c) ==
    /\ c \in Dma => copied[c] = {<<k, k>> : k \in 1..Size(c)}
    /\ c \in Pio => copied[c] = {<<1, k>> : k \in 1..Size(c)}

\* An event in INT_STATUS is about the head.
EventsOfHead ==
    /\ status # {} => head # Null
    /\ "CRM" \notin status
    /\ "TC" \in status =>
          /\ head \in Data /\ "ERR" \notin status
          /\ outcome[head] = "done" /\ Passed(head)
    /\ "CC" \in status /\ head \notin Data =>
          "ERR" \notin status /\ outcome[head] = "done"
    /\ "ERR" \in status => outcome[head] = "error" /\ errors > 0
    /\ "BR" \in status => head \in Pio

\* What the handler has read is still in INT_STATUS, and all there is if the
\* command has ended.
ReadEvents ==
    /\ at \in {"handle", "clear"} => bits \subseteq status
    /\ at \in {"handle", "clear"} /\ head # Null /\ bits \cap Ending(head) # {} =>
          bits = status /\ hw.phase = "idle"
    /\ at = "clear" /\ head # Null =>
          (complete[head] # 0 <=> bits \cap Ending(head) # {})
    /\ at = "finish" => status = {} /\ hw.phase = "idle"
    /\ "BR" \in status /\ "TC" \in status =>
          at = "clear" /\ "BR" \in bits /\ "TC" \notin bits

\* The controller's progress with the head
HeadProgress ==
    /\ hw.phase # "idle" => hw.cmd = head
    /\ hw.phase = "command" =>
          /\ status = {} /\ at \in {"none", "callback"}
          /\ hw.block = 1 /\ copied[head] = {}
          /\ head \in Pio => remaining = Size(head)
    /\ hw.phase = "data" =>
          /\ head \in Data /\ status \subseteq {"CC", "BR"}
          /\ hw.block \in 1..(Size(head) + 1)
          /\ hw.port => hw.block <= Size(head)
          /\ head \in Pio =>
                /\ remaining = Size(head) + 1 - hw.block
                /\ copied[head] = {<<1, k>> : k \in 1..(hw.block - 1)}
          /\ head \in Dma => copied[head] = {<<k, k>> : k \in 1..(hw.block - 1)}
          /\ "BR" \in status => hw.port \/ (at = "clear" /\ "BR" \in bits)
    /\ hw.phase = "idle" /\ head # Null =>
          at \in {"finish", "aborted"} \/ status \cap Ending(head) # {}

\* A command in flight is complete only as the controller has ended it, ...
Settled ==
    \A c \in busy :
       /\ complete[c] = 1 => outcome[c] = "done" /\ Passed(c)
       /\ complete[c] = -1 => outcome[c] = "error"

\* ... its client is told when it is destroyed, ...
ToldLate ==
    \A c \in Blocking :
       /\ told[c] = "ok" => outcome[c] = "done" /\ Passed(c)
       /\ c \in busy => told[c] = "none"

\* ... and no data moves before its turn.
Untouched == \A i \in 1..Len(fifo) : i # 1 => copied[fifo[i]] = {}

Calm ==
    EventsOfHead /\ ReadEvents /\ HeadProgress /\ Settled /\ ToldLate /\ Untouched

StepInv ==
    /\ tripped => at = "aborted"
    /\ AssertionsHold
    /\ removals = 0 => Calm
-----------------------------------------------------------------------------
(* The list.                                                               *)
Places == (0..Blocks) \X (0..Blocks)

LEMMA Sizes == \A c : Size(c) \in 1..Blocks
  BY SdhcBounds DEF Size

LEMMA IdleHwType == IdleHw \in HwType /\ IdleHw.phase = "idle" /\ ~IdleHw.port
  BY SdhcBounds DEF IdleHw, HwType

LEMMA InitListInv == Init => ListInv
  <1> SUFFICES ASSUME Init PROVE ListInv
    OBVIOUS
  <1>1. copied \in [Cmds -> SUBSET Places]
    BY DEF Init
  <1>2. TypeOK
    <2>1. /\ next \in [Cmds -> Cmds \cup {Null}] /\ complete \in [Cmds -> {-1, 0, 1}]
          /\ outcome \in [Cmds -> Outcomes]
          /\ told \in [Cmds -> {"none", "ok", "failed"}]
      BY DEF Init, Outcomes
    <2>2. /\ remaining \in 0..Blocks /\ errors \in 0..MaxErrors
          /\ removals \in 0..MaxRemovals
      BY SdhcBounds DEF Init
    <2>3. /\ fifo \in Seq(Cmds) /\ busy \subseteq Cmds
          /\ bits \subseteq Bits /\ status \subseteq Bits /\ hw \in HwType
      BY IdleHwType DEF Init, NoStatus
    <2>4. tripped \in BOOLEAN
      BY Zenon DEF Init
    <2>5. /\ head \in Cmds \cup {Null} /\ tail \in Cmds \cup {Null}
          /\ cur \in Cmds \cup {Null} /\ waiting \in Blocking \cup {Null}
          /\ at \in {"none", "handle", "clear", "finish", "callback", "aborted"}
      BY DEF Init
    <2> QED
      BY <1>1, <2>1, <2>2, <2>3, <2>4, <2>5 DEF TypeOK, Places
  <1>3. Len(fifo) = 0
    BY DEF Init
  <1> QED
    BY <1>2, <1>3, IdleHwType DEF Init, ListInv, HandlerInv, QueueSpelled

\* The controller with one field changed.
LEMMA HwFields ==
    ASSUME NEW h \in HwType
    PROVE  /\ h.cmd \in Cmds \cup {Null} /\ h.phase \in {"idle", "command", "data"}
           /\ h.block \in 0..(Blocks + 1) /\ h.port \in BOOLEAN
           /\ h = [cmd |-> h.cmd, phase |-> h.phase, block |-> h.block, port |-> h.port]
  BY DEF HwType

LEMMA HwOffersBlock ==
    ASSUME NEW h \in HwType, NEW g, g = [h EXCEPT !.port = TRUE]
    PROVE  /\ g \in HwType /\ g.cmd = h.cmd /\ g.phase = h.phase /\ g.block = h.block
           /\ g.port = TRUE
  <1>1. g = [cmd |-> h.cmd, phase |-> h.phase, block |-> h.block, port |-> TRUE]
    BY HwFields DEF HwType
  <1> QED
    BY <1>1, HwFields DEF HwType

\* Issuing a command.
LEMMA NextCmdType ==
    ASSUME TypeOK, NEW c \in Cmds, NextCmd(c)
    PROVE  /\ hw' \in HwType /\ hw'.cmd = c /\ hw'.phase = "command" /\ ~hw'.port
           /\ hw'.block = 1
           /\ remaining' \in 0..Blocks
  BY SdhcBounds, Sizes DEF NextCmd, HwType, TypeOK

LEMMA SendCmdList ==
    ASSUME ListInv, NEW c \in Cmds, SendCmd(c)
    PROVE  ListInv'
  <1> DEFINE n == Len(fifo)
  <1>1. /\ fifo \in Seq(Cmds) /\ n \in Nat /\ fifo' = Append(fifo, c)
        /\ c \notin busy /\ busy' = busy \cup {c} /\ busy \subseteq Cmds
        /\ next \in [Cmds -> Cmds \cup {Null}] /\ tail \in Cmds \cup {Null}
    BY DEF ListInv, HandlerInv, TypeOK, SendCmd, NewCmd
  <1>2. /\ fifo' \in Seq(Cmds) /\ Len(fifo') = n + 1 /\ fifo'[n + 1] = c
        /\ \A i \in 1..n : fifo'[i] = fifo[i] /\ fifo[i] \in Cmds /\ fifo[i] # c
    BY <1>1, ElementOfSeq DEF ListInv, HandlerInv, QueueSpelled
  <1>3. /\ next' \in [Cmds -> Cmds \cup {Null}] /\ next'[c] = Null /\ tail' = c
        /\ \A d \in Cmds : d # c => next'[d] = IF d = tail THEN c ELSE next[d]
        /\ head' = IF tail = Null THEN c ELSE head
    BY <1>1 DEF SendCmd, Enqueue
  <1>4. (n = 0 <=> tail = Null) /\ (n # 0 => tail = fifo[n])
    BY <1>1, <1>2, CmdAssumption DEF ListInv, HandlerInv, QueueSpelled
  <1>5. TypeOK'
    <2>1. head' \in Cmds \cup {Null} /\ tail' \in Cmds \cup {Null}
      BY <1>3 DEF ListInv, HandlerInv, TypeOK
    <2>2. hw' \in HwType /\ remaining' \in 0..Blocks
      BY NextCmdType DEF SendCmd, ListInv, HandlerInv, TypeOK
    <2>3. /\ complete' \in [Cmds -> {-1, 0, 1}] /\ waiting' \in Blocking \cup {Null}
          /\ outcome' \in [Cmds -> Outcomes]
          /\ told' \in [Cmds -> {"none", "ok", "failed"}]
          /\ UNCHANGED <<at, cur, bits, status, errors, removals, tripped>>
      BY DEF SendCmd, NewCmd, ListInv, HandlerInv, TypeOK, Outcomes, irqVars
    <2>4. copied' \in [Cmds -> SUBSET Places]
      BY DEF SendCmd, NewCmd, ListInv, HandlerInv, TypeOK, Places
    <2> QED
      BY <1>1, <1>2, <1>3, <2>1, <2>2, <2>3, <2>4 DEF ListInv, HandlerInv, TypeOK, Places
  <1>6. QueueSpelled'
    <2>1. head' = fifo'[1]
      BY <1>1, <1>2, <1>3, <1>4 DEF ListInv, HandlerInv, QueueSpelled
    <2>2. ASSUME NEW i \in 1..(n + 1)
          PROVE  /\ fifo'[i] \in busy'
                 /\ next'[fifo'[i]] = IF i = n + 1 THEN Null ELSE fifo'[i + 1]
      <3>1. CASE i = n + 1
        BY <1>1, <1>2, <1>3, <3>1
      <3>2. CASE i # n + 1
        <4>1. i \in 1..n /\ fifo'[i] = fifo[i] /\ fifo[i] \in Cmds /\ fifo[i] # c
              /\ fifo[i] \in busy
          BY <1>1, <1>2, <3>2 DEF ListInv, HandlerInv, QueueSpelled
        <4>2. CASE i = n
          BY <1>1, <1>2, <1>3, <1>4, <4>1, <4>2
        <4>3. CASE i # n
          <5>1. i + 1 \in 1..n /\ n \in 1..n
            BY <1>1, <4>1, <4>3
          <5>2. fifo[i] # tail /\ next[fifo[i]] = fifo[i + 1]
            BY <1>4, <4>1, <4>3, <5>1 DEF ListInv, HandlerInv, QueueSpelled
          <5> QED
            BY <1>1, <1>2, <1>3, <3>2, <4>1, <5>1, <5>2
        <4> QED
          BY <4>2, <4>3
      <3> QED
        BY <3>1, <3>2
    <2>3. \A i, j \in 1..(n + 1) : fifo'[i] = fifo'[j] => i = j
      BY <1>1, <1>2 DEF ListInv, HandlerInv, QueueSpelled
    <2> QED
      BY <1>1, <1>2, <1>3, <2>1, <2>2, <2>3 DEF QueueSpelled
  <1>7. HandlerInv'
    <2>1. /\ UNCHANGED <<at, cur>> /\ at \in {"none", "callback"}
          /\ complete' = [complete EXCEPT ![c] = 0]
      BY DEF SendCmd, InClient, irqVars
    <2>2. /\ hw'.phase # "idle" => hw'.cmd # Null
          /\ hw'.port => hw'.phase = "data" /\ hw'.block <= Blocks
      <3>1. CASE NextCmd(c)
        BY <3>1, NextCmdType, CmdAssumption DEF ListInv, HandlerInv
      <3>2. CASE UNCHANGED hw
        BY <3>2 DEF ListInv, HandlerInv
      <3> QED
        BY <3>1, <3>2 DEF SendCmd
    <2>3. ASSUME NEW i \in 1..(n + 1) PROVE complete'[fifo'[i]] = 0
      <3>1. CASE i = n + 1
        BY <1>2, <2>1, <3>1 DEF ListInv, HandlerInv, TypeOK
      <3>2. CASE i # n + 1
        <4>1. i \in 1..n /\ fifo'[i] = fifo[i] /\ fifo[i] \in Cmds /\ fifo[i] # c
          BY <1>1, <1>2, <3>2
        <4>2. complete[fifo[i]] = 0
          BY <2>1, <4>1 DEF ListInv, HandlerInv
        <4> QED
          BY <2>1, <4>1, <4>2 DEF ListInv, HandlerInv, TypeOK
      <3> QED
        BY <3>1, <3>2
    <2>4. waiting' # Null => waiting' \in busy'
      BY <1>1 DEF SendCmd, ListInv, HandlerInv
    <2>5. at = "callback" =>
             cur \in busy' /\ \A i \in 1..(n + 1) : fifo'[i] # cur
      BY <1>1, <1>2 DEF ListInv, HandlerInv
    <2> QED
      BY <1>1, <1>2, <2>1, <2>2, <2>3, <2>4, <2>5 DEF ListInv, HandlerInv
  <1> QED
    BY <1>5, <1>6, <1>7 DEF ListInv, HandlerInv

\* The command a call waits for is not in the list once it is complete.
LEMMA SendCmdReturnsList ==
    ASSUME ListInv, SendCmdReturns
    PROVE  ListInv'
  <1>1. /\ waiting # Null /\ waiting \in Cmds /\ at = "none" /\ complete[waiting] # 0
        /\ busy' = busy \ {waiting} /\ waiting' = Null
        /\ told' = [told EXCEPT ![waiting] = IF complete[waiting] < 0 THEN "failed" ELSE "ok"]
        /\ UNCHANGED <<head, tail, next, complete, remaining, at, cur, bits, status,
                       hw, errors, removals, fifo, outcome, copied, tripped>>
    BY CmdAssumption DEF SendCmdReturns, TransferReturns, list, irqVars, ListInv, HandlerInv, TypeOK
  <1>2. TypeOK'
    BY <1>1 DEF ListInv, HandlerInv, TypeOK
  <1>3. QueueSpelled'
    BY <1>1 DEF ListInv, HandlerInv, QueueSpelled
  <1> QED
    BY <1>1, <1>2, <1>3 DEF ListInv, HandlerInv

LEMMA IrqReadList ==
    ASSUME ListInv, IrqRead
    PROVE  ListInv'
  <1>1. /\ at = "none" /\ bits' = status /\ cur' = head
        /\ head = Null => at' = "clear"
        /\ head # Null => at' = "handle"
        /\ UNCHANGED <<head, tail, next, complete, remaining, waiting, status, hw, errors,
                       removals, fifo, busy, outcome, told, copied, tripped>>
    BY DEF IrqRead, list, history
  <1>2. TypeOK'
    BY <1>1 DEF ListInv, HandlerInv, TypeOK
  <1>3. QueueSpelled'
    BY <1>1 DEF ListInv, HandlerInv, QueueSpelled
  <1> QED
    BY <1>1, <1>2, <1>3 DEF ListInv, HandlerInv

\* The head is the only command whose complete the handler sets.
LEMMA HeadIsFirst ==
    ASSUME ListInv, head # Null
    PROVE  /\ Len(fifo) \in Nat \ {0} /\ fifo # <<>> /\ head = fifo[1] /\ head \in Cmds
           /\ head \in busy
           /\ \A i \in 1..Len(fifo) : fifo[i] = head => i = 1
  <1>1. fifo \in Seq(Cmds) /\ Len(fifo) \in Nat
    BY DEF ListInv, HandlerInv, TypeOK
  <1>2. Len(fifo) # 0 /\ head = fifo[1]
    BY DEF ListInv, HandlerInv, QueueSpelled
  <1>3. 1 \in 1..Len(fifo)
    BY <1>1, <1>2
  <1> QED
    BY <1>1, <1>2, <1>3, ElementOfSeq DEF ListInv, HandlerInv, QueueSpelled

LEMMA IrqHandleList ==
    ASSUME ListInv, IrqHandle
    PROVE  ListInv'
  <1>1. /\ at = "handle" /\ at' = "clear" /\ cur = head /\ cur # Null /\ cur \in Cmds
        /\ UNCHANGED <<head, tail, next, cur, bits, waiting, status, errors, removals,
                       fifo, busy, outcome, told, tripped>>
    BY DEF IrqHandle, list, ListInv, HandlerInv, TypeOK
  <1>2. complete' \in [Cmds -> {-1, 0, 1}] /\ \A d \in Cmds : d # cur => complete'[d] = complete[d]
    BY <1>1 DEF IrqHandle, ListInv, HandlerInv, TypeOK
  <1>3. hw \in HwType /\ hw.port \in BOOLEAN /\ hw.block \in 0..(Blocks + 1) /\ Blocks \in Nat
    BY SdhcBounds DEF ListInv, HandlerInv, TypeOK, HwType
  <1>4. hw.port => hw.block \in 0..Blocks
    BY <1>3 DEF ListInv, HandlerInv
  <1>5. /\ hw' \in HwType /\ hw'.phase = hw.phase /\ hw'.cmd = hw.cmd
        /\ hw'.port => hw.port /\ hw'.block = hw.block
    <2>1. CASE hw.port /\ hw' = [hw EXCEPT !.port = FALSE, !.block = hw.block + 1]
      <3>1. PICK b \in 0..(Blocks + 1) : b = hw.block + 1
        BY <1>3, <1>4, <2>1
      <3>2. hw' = [hw EXCEPT !.port = FALSE, !.block = b]
        BY <2>1, <3>1
      <3>3. hw' = [cmd |-> hw.cmd, phase |-> hw.phase, block |-> b, port |-> FALSE]
        BY <1>3, <3>2 DEF HwType
      <3>4. hw' \in HwType /\ hw'.phase = hw.phase /\ hw'.cmd = hw.cmd /\ ~hw'.port
        BY <1>3, <3>3, HwFields DEF HwType
      <3> QED
        BY <3>4
    <2>2. CASE hw' = hw
      BY <1>3, <2>2
    <2> QED
      BY <2>1, <2>2 DEF IrqHandle
  <1>6. remaining' \in 0..Blocks
    BY <1>3 DEF IrqHandle, ListInv, HandlerInv, TypeOK
  <1>7. copied' \in [Cmds -> SUBSET Places]
    <2>1. copied \in [Cmds -> SUBSET Places]
      BY DEF ListInv, HandlerInv, TypeOK, Places
    <2>2. PICK b : b = IF hw.port THEN hw.block ELSE 0
      OBVIOUS
    <2>3. <<1, b>> \in Places
      BY <1>3, <1>4, <2>2, SdhcBounds DEF Places
    <2>4. copied' = copied \/ copied' = [copied EXCEPT ![cur] = copied[cur] \cup {<<1, b>>}]
      BY <2>2 DEF IrqHandle
    <2> QED
      BY <1>1, <2>1, <2>3, <2>4
  <1>8. TypeOK'
    BY <1>1, <1>2, <1>5, <1>6, <1>7 DEF ListInv, HandlerInv, TypeOK, Places
  <1>9. QueueSpelled'
    BY <1>1 DEF ListInv, HandlerInv, QueueSpelled
  <1>10. \A i \in 1..Len(fifo) : complete'[fifo[i]] # 0 => i = 1
    <2>1. ASSUME NEW i \in 1..Len(fifo), i # 1 PROVE complete'[fifo[i]] = 0
      <3>1. fifo[i] # cur /\ fifo[i] \in Cmds /\ complete[fifo[i]] = 0
        BY <1>1, <2>1, HeadIsFirst, ElementOfSeq DEF ListInv, HandlerInv, TypeOK
      <3> QED
        BY <1>2, <3>1
    <2> QED
      BY <2>1
  <1> QED
    BY <1>1, <1>5, <1>8, <1>9, <1>10 DEF ListInv, HandlerInv

LEMMA IrqAbortList ==
    ASSUME ListInv, IrqAbort
    PROVE  ListInv'
  <1>1. /\ at = "handle" /\ at' = "aborted" /\ tripped' = TRUE
        /\ UNCHANGED <<head, tail, next, complete, remaining, cur, bits, waiting, status,
                       hw, errors, removals, fifo, busy, outcome, told, copied>>
    BY DEF IrqAbort, list
  <1>2. TypeOK'
    BY <1>1 DEF ListInv, HandlerInv, TypeOK
  <1>3. QueueSpelled'
    BY <1>1 DEF ListInv, HandlerInv, QueueSpelled
  <1> QED
    BY <1>1, <1>2, <1>3 DEF ListInv, HandlerInv

LEMMA IrqClearList ==
    ASSUME ListInv, IrqClear
    PROVE  ListInv'
  <1>1. /\ at = "clear" /\ status' = status \ bits /\ cur = head
        /\ IF cur # Null /\ complete[cur] # 0 THEN at' = "finish" ELSE at' = "none"
        /\ UNCHANGED <<head, tail, next, complete, remaining, cur, bits, waiting, hw,
                       errors, removals, fifo, busy, outcome, told, copied, tripped>>
    BY DEF IrqClear, list, history, ListInv, HandlerInv
  <1>2. TypeOK'
    BY <1>1 DEF ListInv, HandlerInv, TypeOK
  <1>3. QueueSpelled'
    BY <1>1 DEF ListInv, HandlerInv, QueueSpelled
  <1>4. ASSUME NEW i \in 1..Len(fifo), complete[fifo[i]] # 0 PROVE i = 1 /\ at' = "finish"
    <2>1. i = 1 /\ head = fifo[1] /\ head # Null
      BY <1>4, CmdAssumption, ElementOfSeq DEF ListInv, HandlerInv, QueueSpelled, TypeOK
    <2> QED
      BY <1>1, <1>4, <2>1
  <1> QED
    BY <1>1, <1>2, <1>3, <1>4 DEF ListInv, HandlerInv

\* The list without its first command.
LEMMA TailFacts ==
    ASSUME NEW S, NEW s \in Seq(S), s # <<>>
    PROVE  /\ Tail(s) \in Seq(S) /\ Len(Tail(s)) = Len(s) - 1 /\ Len(s) \in Nat \ {0}
           /\ \A i \in 1..(Len(s) - 1) : Tail(s)[i] = s[i + 1]
  BY HeadTailProperties, EmptySeq

LEMMA IrqFinishList ==
    ASSUME ListInv, IrqFinish
    PROVE  ListInv'
  <1> DEFINE n == Len(fifo)
  <1>1. /\ at = "finish" /\ cur = head /\ head # Null
        /\ UNCHANGED <<complete, cur, bits, waiting, status, errors, removals, busy,
                       outcome, copied, tripped>>
        /\ at' = IF cur \in Blocking THEN "none" ELSE "callback"
        /\ fifo' = Tail(fifo)
        /\ head' = next[cur] /\ tail' = (IF next[cur] = Null THEN Null ELSE tail)
        /\ next' = [next EXCEPT ![cur] = Null]
    BY DEF IrqFinish, Dequeue, ListInv, HandlerInv
  <1>2. /\ n \in Nat \ {0} /\ fifo # <<>> /\ cur = fifo[1] /\ cur \in Cmds /\ cur \in busy
        /\ \A i \in 1..n : fifo[i] = cur => i = 1
        /\ fifo \in Seq(Cmds)
    BY <1>1, HeadIsFirst DEF ListInv, HandlerInv, TypeOK
  <1>3. /\ fifo' \in Seq(Cmds) /\ Len(fifo') = n - 1
        /\ \A i \in 1..(n - 1) : fifo'[i] = fifo[i + 1] /\ fifo[i + 1] # cur
                                 /\ fifo[i + 1] \in Cmds
    <2>1. /\ Tail(fifo) \in Seq(Cmds) /\ Len(Tail(fifo)) = n - 1
          /\ \A i \in 1..(n - 1) : Tail(fifo)[i] = fifo[i + 1]
      BY <1>2, TailFacts
    <2>2. ASSUME NEW i \in 1..(n - 1) PROVE fifo[i + 1] # cur /\ fifo[i + 1] \in Cmds
      <3>1. i + 1 \in 1..n /\ i + 1 # 1
        BY <1>2
      <3> QED
        BY <1>2, <3>1, ElementOfSeq
    <2> QED
      BY <1>1, <2>1, <2>2
  <1>4. /\ n = 1 => next[cur] = Null
        /\ n # 1 => next[cur] = fifo[2] /\ fifo[2] \in Cmds /\ fifo[2] # Null
                    /\ fifo'[1] = fifo[2]
    BY <1>2, <1>3, CmdAssumption DEF ListInv, HandlerInv, QueueSpelled
  <1>5. /\ hw' \in HwType /\ remaining' \in 0..Blocks
        /\ hw'.phase # "idle" => hw'.cmd # Null
        /\ hw'.port => hw'.phase = "data" /\ hw'.block <= Blocks
    <2>1. CASE head' # Null
      <3>1. NextCmd(head') /\ head' \in Cmds
        BY <1>1, <1>4, <2>1 DEF IrqFinish
      <3> QED
        BY <3>1, NextCmdType, CmdAssumption DEF ListInv, HandlerInv
    <2>2. CASE head' = Null
      <3>1. UNCHANGED <<hw, remaining>>
        BY <2>2 DEF IrqFinish
      <3> QED
        BY <3>1 DEF ListInv, HandlerInv, TypeOK
    <2> QED
      BY <2>1, <2>2
  <1>6. TypeOK'
    <2>1. head' \in Cmds \cup {Null} /\ tail' \in Cmds \cup {Null}
          /\ next' \in [Cmds -> Cmds \cup {Null}]
      BY <1>1, <1>2 DEF ListInv, HandlerInv, TypeOK
    <2>2. told' \in [Cmds -> {"none", "ok", "failed"}]
          /\ at' \in {"none", "callback"}
      BY <1>1 DEF IrqFinish, ListInv, HandlerInv, TypeOK
    <2> QED
      BY <1>1, <1>3, <1>5, <2>1, <2>2 DEF ListInv, HandlerInv, TypeOK
  <1>7. QueueSpelled'
    <2>1. /\ n = 1 => head' = Null /\ tail' = Null
          /\ n # 1 => head' = fifo'[1] /\ tail' = fifo'[n - 1]
      <3>1. n # 1 => tail = fifo[n] /\ fifo'[n - 1] = fifo[n]
        BY <1>2, <1>3 DEF ListInv, HandlerInv, QueueSpelled
      <3> QED
        BY <1>1, <1>4, <3>1
    <2>2. ASSUME NEW i \in 1..(n - 1)
          PROVE  /\ fifo'[i] \in busy'
                 /\ next'[fifo'[i]] = IF i = n - 1 THEN Null ELSE fifo'[i + 1]
      <3>1. i + 1 \in 1..n /\ fifo[i + 1] \in Cmds /\ fifo[i + 1] # cur /\ fifo'[i] = fifo[i + 1]
        BY <1>2, <1>3
      <3>2. next'[fifo[i + 1]] = next[fifo[i + 1]]
        BY <1>1, <3>1 DEF ListInv, HandlerInv, TypeOK
      <3>3. fifo[i + 1] \in busy
            /\ next[fifo[i + 1]] = IF i + 1 = n THEN Null ELSE fifo[(i + 1) + 1]
        BY <3>1 DEF ListInv, HandlerInv, QueueSpelled
      <3>4. i # n - 1 => fifo'[i + 1] = fifo[(i + 1) + 1]
        BY <1>2, <1>3
      <3> QED
        BY <1>1, <1>2, <3>1, <3>2, <3>3, <3>4
    <2>3. ASSUME NEW i \in 1..(n - 1), NEW j \in 1..(n - 1), fifo'[i] = fifo'[j]
          PROVE  i = j
      <3>1. i + 1 \in 1..n /\ j + 1 \in 1..n /\ fifo[i + 1] = fifo[j + 1]
        BY <1>2, <1>3, <2>3
      <3>2. i + 1 = j + 1
        BY <3>1 DEF ListInv, HandlerInv, QueueSpelled
      <3> QED
        BY <3>2
    <2> QED
      BY <1>2, <1>3, <2>1, <2>2, <2>3 DEF QueueSpelled
  <1>8. HandlerInv'
    <2>1. ASSUME NEW i \in 1..(n - 1) PROVE complete'[fifo'[i]] = 0
      <3>1. i + 1 \in 1..n /\ i + 1 # 1 /\ fifo'[i] = fifo[i + 1]
        BY <1>2, <1>3
      <3>2. complete[fifo[i + 1]] = 0
        BY <3>1 DEF ListInv, HandlerInv
      <3> QED
        BY <1>1, <3>1, <3>2
    <2>2. cur' \in busy' /\ \A i \in 1..(n - 1) : fifo'[i] # cur'
      BY <1>1, <1>2, <1>3
    <2>3. at' \in {"none", "callback"} /\ cur' # Null
      BY <1>1
    <2> QED
      BY <1>1, <1>3, <1>5, <2>1, <2>2, <2>3 DEF ListInv, HandlerInv
  <1> QED
    BY <1>6, <1>7, <1>8 DEF ListInv, HandlerInv

LEMMA CallbackReturnsList ==
    ASSUME ListInv, CallbackReturns
    PROVE  ListInv'
  <1>1. /\ at = "callback" /\ at' = "none" /\ busy' = busy \ {cur}
        /\ UNCHANGED <<head, tail, next, complete, remaining, cur, bits, waiting, status,
                       hw, errors, removals, fifo, outcome, told, copied, tripped>>
    BY DEF CallbackReturns, list
  <1>2. TypeOK'
    BY <1>1 DEF ListInv, HandlerInv, TypeOK
  <1>3. QueueSpelled'
    BY <1>1 DEF ListInv, HandlerInv, QueueSpelled
  <1> QED
    BY <1>1, <1>2, <1>3, CmdAssumption DEF ListInv, HandlerInv, TypeOK
-----------------------------------------------------------------------------
(* The controller leaves the list alone.                                   *)
LEMMA HwListFrame ==
    ASSUME ListInv, HwUnchanged,
           hw' \in HwType, hw'.phase # "idle" => hw'.cmd # Null,
           hw'.port => hw'.phase = "data" /\ hw'.block <= Blocks,
           status' \subseteq Bits, errors' \in 0..MaxErrors, removals' \in 0..MaxRemovals,
           outcome' \in [Cmds -> Outcomes], copied' \in [Cmds -> SUBSET Places]
    PROVE  ListInv'
  <1>1. UNCHANGED <<head, tail, next, complete, remaining, at, cur, bits, waiting, fifo,
                    busy, told, tripped>>
    BY DEF HwUnchanged, list, irqVars
  <1>2. TypeOK'
    BY <1>1 DEF ListInv, HandlerInv, TypeOK, Places
  <1>3. QueueSpelled'
    BY <1>1 DEF ListInv, HandlerInv, QueueSpelled
  <1> QED
    BY <1>1, <1>2, <1>3 DEF ListInv, HandlerInv

LEMMA HwTypes ==
    ASSUME ListInv
    PROVE  /\ hw \in HwType /\ status \subseteq Bits /\ errors \in 0..MaxErrors
           /\ removals \in 0..MaxRemovals
           /\ outcome \in [Cmds -> Outcomes] /\ copied \in [Cmds -> SUBSET Places]
           /\ hw.phase # "idle" => hw.cmd \in Cmds
           /\ Blocks \in Nat \ {0}
  BY HwFields, SdhcBounds DEF ListInv, HandlerInv, TypeOK, Places

LEMMA HwResponseList ==
    ASSUME ListInv, HwResponse
    PROVE  ListInv'
  <1>1. HwUnchanged /\ UNCHANGED <<errors, removals, copied>> /\ status' \subseteq Bits
        /\ hw.phase = "command"
    BY HwTypes DEF HwResponse, Raise, Bits
  <1>2. CASE hw.cmd \in Data
    <2>1. hw' = [hw EXCEPT !.phase = "data"] /\ UNCHANGED outcome
      BY <1>2 DEF HwResponse
    <2>2. hw' = [cmd |-> hw.cmd, phase |-> "data", block |-> hw.block, port |-> hw.port]
      BY <2>1, HwTypes, HwFields
    <2>3. hw' \in HwType /\ ~hw.port /\ hw'.port = hw.port /\ hw'.cmd = hw.cmd
      BY <1>1, <2>2, HwTypes, HwFields DEF HwType, ListInv, HandlerInv
    <2> QED
      BY <1>1, <2>1, <2>3, HwTypes, HwListFrame, CmdAssumption
  <1>3. CASE hw.cmd \notin Data
    <2>1. hw' = IdleHw /\ outcome' = [outcome EXCEPT ![hw.cmd] = "done"]
      BY <1>3 DEF HwResponse, HwEnd
    <2>2. outcome' \in [Cmds -> Outcomes]
      BY <2>1, HwTypes DEF Outcomes
    <2> QED
      BY <1>1, <2>1, <2>2, IdleHwType, HwTypes, HwListFrame
  <1> QED
    BY <1>2, <1>3

LEMMA HwBlockList ==
    ASSUME ListInv, HwBlock
    PROVE  ListInv'
  <1>1. /\ HwUnchanged /\ UNCHANGED <<outcome, errors, removals>>
        /\ status' \subseteq Bits
        /\ hw.phase = "data" /\ hw.block <= Size(hw.cmd) /\ ~hw.port /\ hw.cmd \in Cmds
    BY HwTypes DEF HwBlock, Raise, Bits
  <1>2. hw.block \in 0..Blocks
    BY <1>1, HwTypes, HwFields, Sizes
  <1>3. CASE hw.cmd \in Dma
    <2>1. /\ hw' = [hw EXCEPT !.block = hw.block + 1]
          /\ copied' = [copied EXCEPT ![hw.cmd] = copied[hw.cmd] \cup {<<hw.block, hw.block>>}]
      BY <1>3 DEF HwBlock
    <2>2. PICK b \in 0..(Blocks + 1) : b = hw.block + 1
      BY <1>2, HwTypes
    <2>3. hw' = [cmd |-> hw.cmd, phase |-> hw.phase, block |-> b, port |-> hw.port]
      BY <2>1, <2>2, HwTypes, HwFields
    <2>4. hw' \in HwType /\ hw'.port = hw.port /\ hw'.cmd = hw.cmd
      BY <2>3, HwTypes, HwFields DEF HwType
    <2>5. <<hw.block, hw.block>> \in Places
      BY <1>2 DEF Places
    <2>6. copied' \in [Cmds -> SUBSET Places]
      BY <1>1, <2>1, <2>5, HwTypes
    <2> QED
      BY <1>1, <2>4, <2>6, HwTypes, HwListFrame, CmdAssumption
  <1>4. CASE hw.cmd \notin Dma
    <2>1. hw' = [hw EXCEPT !.port = TRUE] /\ UNCHANGED copied
      BY <1>4 DEF HwBlock
    <2>2. hw' \in HwType /\ hw'.phase = "data" /\ hw'.block = hw.block /\ hw'.cmd = hw.cmd
      BY <1>1, <2>1, HwTypes, HwOffersBlock
    <2> QED
      BY <1>1, <1>2, <2>1, <2>2, HwTypes, HwListFrame, CmdAssumption
  <1> QED
    BY <1>3, <1>4

LEMMA HwEndsList ==
    ASSUME ListInv, HwTransferComplete \/ HwError \/ HwRemoval
    PROVE  ListInv'
  <1>1. HwUnchanged /\ status' \subseteq Bits /\ UNCHANGED copied
    BY HwTypes DEF HwTransferComplete, HwError, HwRemoval, Raise, Bits
  <1>2. errors' \in 0..MaxErrors /\ removals' \in 0..MaxRemovals
    BY HwTypes, SdhcBounds DEF HwTransferComplete, HwError, HwRemoval
  <1>3. CASE HwTransferComplete \/ HwError
    <2>1. PICK w \in {"done", "error"} : HwEnd(w)
      BY <1>3 DEF HwTransferComplete, HwError
    <2>2. hw' = IdleHw /\ outcome' \in [Cmds -> Outcomes]
      BY <2>1, HwTypes DEF HwEnd, Outcomes
    <2> QED
      BY <1>1, <1>2, <2>2, IdleHwType, HwTypes, HwListFrame
  <1>4. CASE HwRemoval
    BY <1>1, <1>2, <1>4, HwTypes, HwListFrame DEF HwRemoval, ListInv, HandlerInv
  <1> QED
    BY <1>3, <1>4

LEMMA NextListInv == ListInv /\ [Next]_vars => ListInv'
  <1> SUFFICES ASSUME ListInv, [Next]_vars PROVE ListInv'
    OBVIOUS
  <1>1. CASE UNCHANGED vars
    <2>1. TypeOK'
      BY <1>1 DEF vars, list, irqVars, history, ListInv, HandlerInv, TypeOK
    <2>2. QueueSpelled'
      BY <1>1 DEF vars, list, irqVars, history, ListInv, HandlerInv, QueueSpelled
    <2> QED
      BY <1>1, <2>1, <2>2 DEF vars, list, irqVars, history, ListInv, HandlerInv
  <1> QED
    BY <1>1, SendCmdList, SendCmdReturnsList, IrqReadList, IrqHandleList, IrqAbortList,
       IrqClearList, IrqFinishList, CallbackReturnsList, HwResponseList, HwBlockList,
       HwEndsList
    DEF Next, Irq, Controller

(* However many commands are sent, from callbacks or while others wait,    *)
(* and whatever the controller and the card do, the list links exactly the *)
(* commands sent and not finished, in order, none of them destroyed.       *)
THEOREM ListIsSound == Spec => []ListSound
  <1>1. ListInv => ListSound
    BY DEF ListInv, HandlerInv, ListSound
  <1> QED
    BY <1>1, InitListInv, NextListInv, PTL DEF Spec
-----------------------------------------------------------------------------
(* The driver and the controller, until a card is removed.                 *)

LEMMA InitStepInv == Init => StepInv
  <1> SUFFICES ASSUME Init PROVE StepInv
    OBVIOUS
  <1>1. EventsOfHead /\ ReadEvents /\ HeadProgress
    BY IdleHwType DEF Init, NoStatus, EventsOfHead, ReadEvents, HeadProgress
  <1>2. Settled /\ ToldLate /\ Untouched
    BY CmdAssumption DEF Init, Settled, ToldLate, Untouched
  <1>3. ~tripped
    BY Zenon DEF Init
  <1> QED
    BY <1>1, <1>2, <1>3 DEF StepInv, AssertionsHold, Calm

\* While the controller works it works on the head, which is not complete.
LEMMA WorksOnHead ==
    ASSUME ListInv, Calm, hw.phase # "idle"
    PROVE  /\ hw.cmd = head /\ head \in Cmds /\ head \in busy /\ complete[head] = 0
           /\ \A i \in 1..Len(fifo) : i # 1 => fifo[i] # head
           /\ at # "finish"
           /\ at \in {"handle", "clear"} => bits \cap Ending(head) = {}
  <1>1. hw.cmd = head /\ head # Null
    BY DEF ListInv, HandlerInv, Calm, HeadProgress
  <1>2. /\ head \in Cmds /\ head \in busy /\ Len(fifo) \in Nat \ {0} /\ head = fifo[1]
        /\ \A i \in 1..Len(fifo) : i # 1 => fifo[i] # head
    BY <1>1, HeadIsFirst
  <1>3. at # "finish" /\ (at \in {"handle", "clear"} => bits \cap Ending(head) = {})
    BY <1>1 DEF Calm, ReadEvents
  <1>4. complete[head] = 0
    <2>1. 1 \in 1..Len(fifo)
      BY <1>2
    <2>2. complete[head] # 0 => at \in {"clear", "finish"}
      BY <1>2, <2>1 DEF ListInv, HandlerInv
    <2> QED
      BY <1>1, <1>3, <2>2 DEF Calm, ReadEvents
  <1> QED
    BY <1>1, <1>2, <1>3, <1>4

LEMMA SendCmdCalm ==
    ASSUME ListInv, ListInv', Calm, NEW c \in Cmds, SendCmd(c)
    PROVE  Calm'
  <1>1. /\ c \notin busy /\ busy' = busy \cup {c} /\ at \in {"none", "callback"}
        /\ UNCHANGED <<at, cur, bits, status, errors>>
        /\ outcome' = [outcome EXCEPT ![c] = "none"]
        /\ told' = [told EXCEPT ![c] = "none"]
        /\ copied' = [copied EXCEPT ![c] = {}]
        /\ complete' = [complete EXCEPT ![c] = 0]
        /\ head' = (IF tail = Null THEN c ELSE head)
        /\ IF head' = c THEN NextCmd(c) ELSE UNCHANGED <<hw, remaining>>
        /\ fifo' = Append(fifo, c)
    BY DEF SendCmd, NewCmd, InClient, irqVars, Enqueue
  <1>2. /\ outcome \in [Cmds -> Outcomes] /\ copied \in [Cmds -> SUBSET Places]
        /\ told \in [Cmds -> {"none", "ok", "failed"}]
        /\ complete \in [Cmds -> {-1, 0, 1}] /\ fifo \in Seq(Cmds) /\ busy \subseteq Cmds
    BY DEF ListInv, HandlerInv, TypeOK, Places
  <1>3. \A d \in Cmds : d # c =>
           /\ outcome'[d] = outcome[d] /\ copied'[d] = copied[d] /\ told'[d] = told[d]
           /\ complete'[d] = complete[d] /\ (Passed(d)' <=> Passed(d))
    BY <1>1, <1>2 DEF Passed
  <1>4. copied'[c] = {} /\ told'[c] = "none" /\ complete'[c] = 0
    BY <1>1, <1>2
  <1>5. Settled' /\ ToldLate'
    BY <1>1, <1>2, <1>3, <1>4, CmdAssumption DEF Calm, Settled, ToldLate
  <1>6. Untouched'
    <2>1. /\ Len(fifo') = Len(fifo) + 1 /\ fifo'[Len(fifo) + 1] = c /\ Len(fifo) \in Nat
          /\ \A i \in 1..Len(fifo) : fifo'[i] = fifo[i] /\ fifo[i] \in busy
      BY <1>1, <1>2 DEF ListInv, HandlerInv, QueueSpelled
    <2>2. ASSUME NEW i \in 1..(Len(fifo) + 1), i # 1 PROVE copied'[fifo'[i]] = {}
      <3>1. CASE i = Len(fifo) + 1
        BY <1>4, <2>1, <3>1
      <3>2. CASE i # Len(fifo) + 1
        <4>1. i \in 1..Len(fifo) /\ fifo'[i] = fifo[i] /\ fifo[i] \in Cmds /\ fifo[i] # c
          BY <1>1, <1>2, <2>1, <3>2
        <4> QED
          BY <1>3, <2>2, <4>1 DEF Calm, Untouched
      <3> QED
        BY <3>1, <3>2
    <2> QED
      BY <2>1, <2>2 DEF Untouched
  <1>7. CASE head = Null
    <2>1. tail = Null /\ status = {} /\ head' = c
      BY <1>1, <1>7, CmdAssumption, ElementOfSeq
         DEF ListInv, HandlerInv, TypeOK, QueueSpelled, Calm, EventsOfHead
    <2>2. /\ hw'.cmd = c /\ hw'.phase = "command" /\ hw'.block = 1
          /\ c \in Pio => remaining' = Size(c)
      BY <1>1, <2>1, NextCmdType DEF ListInv, HandlerInv, NextCmd, Data
    <2> QED
      BY <1>1, <1>4, <1>5, <1>6, <2>1, <2>2
         DEF Calm, EventsOfHead, ReadEvents, HeadProgress
  <1>8. CASE head # Null
    <2>1. head' = head /\ head # c /\ head \in Cmds
      <3>1. head \in busy /\ head \in Cmds /\ Len(fifo) \in Nat \ {0}
        BY <1>8, HeadIsFirst
      <3>2. tail # Null
        BY <3>1, CmdAssumption, ElementOfSeq DEF ListInv, HandlerInv, TypeOK, QueueSpelled
      <3> QED
        BY <1>1, <3>1, <3>2
    <2>2. UNCHANGED <<hw, remaining>>
      BY <1>1, <2>1
    <2>3. EventsOfHead' /\ ReadEvents' /\ HeadProgress'
      BY <1>1, <1>3, <2>1, <2>2 DEF Calm, EventsOfHead, ReadEvents, HeadProgress, Ending
    <2> QED
      BY <1>5, <1>6, <2>3 DEF Calm
  <1> QED
    BY <1>7, <1>8

LEMMA SendCmdReturnsCalm ==
    ASSUME ListInv, Calm, SendCmdReturns
    PROVE  Calm'
  <1>1. /\ waiting \in Cmds /\ complete[waiting] # 0
        /\ busy' = busy \ {waiting}
        /\ told' = [told EXCEPT ![waiting] = IF complete[waiting] < 0 THEN "failed" ELSE "ok"]
        /\ UNCHANGED <<head, tail, next, complete, remaining, at, cur, bits, status,
                       hw, errors, removals, fifo, outcome, copied, tripped>>
    BY CmdAssumption DEF SendCmdReturns, TransferReturns, list, irqVars, ListInv, HandlerInv, TypeOK
  <1>2. EventsOfHead' /\ ReadEvents' /\ HeadProgress' /\ Settled' /\ Untouched'
    BY <1>1 DEF Calm, EventsOfHead, ReadEvents, HeadProgress, Settled, Untouched, Ending,
                Passed
  <1>3. /\ waiting \in busy /\ told \in [Cmds -> {"none", "ok", "failed"}]
        /\ complete[waiting] \in {-1, 0, 1}
    BY <1>1, CmdAssumption DEF ListInv, HandlerInv, TypeOK
  <1>4. ToldLate'
    <2>1. \A c \in Cmds : c # waiting => told'[c] = told[c]
      BY <1>1, <1>3
    <2>2. told'[waiting] = "ok" => outcome[waiting] = "done" /\ Passed(waiting)
      BY <1>1, <1>3 DEF Calm, Settled
    <2>3. ASSUME NEW c \in Blocking
          PROVE  /\ told'[c] = "ok" => outcome'[c] = "done" /\ Passed(c)'
                 /\ c \in busy' => told'[c] = "none"
      <3>1. (Passed(c)' <=> Passed(c)) /\ outcome' = outcome
        BY <1>1 DEF Passed
      <3> QED
        BY <1>1, <2>1, <2>2, <3>1, CmdAssumption DEF Calm, ToldLate
    <2> QED
      BY <2>3 DEF ToldLate
  <1> QED
    BY <1>2, <1>4 DEF Calm

LEMMA IrqReadCalm ==
    ASSUME ListInv, Calm, IrqRead
    PROVE  Calm'
  <1>1. /\ at = "none" /\ bits' = status /\ cur' = head /\ status # {}
        /\ head = Null => at' = "clear"
        /\ head # Null => at' = "handle"
        /\ UNCHANGED <<head, tail, next, complete, remaining, waiting, status, hw, errors,
                       removals, fifo, busy, outcome, told, copied, tripped>>
    BY DEF IrqRead, list, history
  <1>2. EventsOfHead' /\ Settled' /\ ToldLate' /\ Untouched'
    BY <1>1 DEF Calm, EventsOfHead, Settled, ToldLate, Untouched, Passed
  <1>3. hw.phase \in {"idle", "command", "data"}
    BY HwFields DEF ListInv, TypeOK
  <1>4. ReadEvents'
    <2>1. status \cap Ending(head) # {} => hw.phase = "idle"
      BY <1>3 DEF Calm, HeadProgress, Ending
    <2> QED
      BY <1>1, <2>1 DEF Calm, ReadEvents, EventsOfHead, Ending
  <1>5. HeadProgress'
    BY <1>1 DEF Calm, HeadProgress, Ending
  <1> QED
    BY <1>2, <1>4, <1>5 DEF Calm

LEMMA IrqClearCalm ==
    ASSUME ListInv, Calm, IrqClear
    PROVE  Calm'
  <1>1. /\ at = "clear" /\ status' = status \ bits /\ cur = head
        /\ IF cur # Null /\ complete[cur] # 0 THEN at' = "finish" ELSE at' = "none"
        /\ UNCHANGED <<head, tail, next, complete, remaining, cur, bits, waiting, hw,
                       errors, removals, fifo, busy, outcome, told, copied, tripped>>
    BY DEF IrqClear, list, history, ListInv, HandlerInv
  <1>2. Settled' /\ ToldLate' /\ Untouched'
    BY <1>1 DEF Calm, Settled, ToldLate, Untouched, Passed
  <1>3. EventsOfHead'
    BY <1>1 DEF Calm, EventsOfHead, Passed
  <1>4. ReadEvents'
    BY <1>1 DEF Calm, ReadEvents
  <1>5. HeadProgress'
    <2>1. head # Null /\ complete[head] = 0 => bits \cap Ending(head) = {}
      BY <1>1 DEF Calm, ReadEvents
    <2>2. /\ hw.phase = "idle" /\ head # Null =>
                at' = "finish" \/ status' \cap Ending(head) # {}
      BY <1>1, <2>1 DEF Calm, HeadProgress
    <2> QED
      BY <1>1, <2>2 DEF Calm, HeadProgress, Ending
  <1> QED
    BY <1>2, <1>3, <1>4, <1>5 DEF Calm

LEMMA CallbackReturnsCalm ==
    ASSUME ListInv, Calm, CallbackReturns
    PROVE  Calm'
  <1>1. /\ at = "callback" /\ at' = "none" /\ busy' = busy \ {cur}
        /\ UNCHANGED <<head, tail, next, complete, remaining, cur, bits, waiting, status,
                       hw, errors, removals, fifo, outcome, told, copied, tripped>>
    BY DEF CallbackReturns, list
  <1>2. Settled' /\ ToldLate' /\ Untouched'
    BY <1>1 DEF Calm, Settled, ToldLate, Untouched, Passed
  <1>3. EventsOfHead' /\ ReadEvents' /\ HeadProgress'
    BY <1>1 DEF Calm, EventsOfHead, ReadEvents, HeadProgress, Passed, Ending
  <1> QED
    BY <1>2, <1>3 DEF Calm

LEMMA IrqAbortCalm ==
    ASSUME ListInv, Calm, IrqAbort
    PROVE  Calm'
  <1>1. /\ at = "handle" /\ at' = "aborted" /\ tripped' = TRUE
        /\ UNCHANGED <<head, tail, next, complete, remaining, cur, bits, waiting, status,
                       hw, errors, removals, fifo, busy, outcome, told, copied>>
    BY DEF IrqAbort, list
  <1>2. Settled' /\ ToldLate' /\ Untouched'
    BY <1>1 DEF Calm, Settled, ToldLate, Untouched, Passed
  <1>3. EventsOfHead' /\ ReadEvents' /\ HeadProgress'
    BY <1>1 DEF Calm, EventsOfHead, ReadEvents, HeadProgress, Passed, Ending
  <1> QED
    BY <1>2, <1>3 DEF Calm

\* The assertions fail only for a block that was ready when an error came.
LEMMA AbortCause ==
    ASSUME ListInv, Calm, IrqAbort
    PROVE  errors > 0 /\ cur \in Pio
  <1>1. at = "handle" /\ ~AssertsHold(cur, bits) /\ cur = head /\ cur # Null /\ bits \subseteq status
    BY DEF IrqAbort, ListInv, HandlerInv, Calm, ReadEvents
  <1>2. complete[cur] = 0
    <2>1. head = fifo[1] /\ 1 \in 1..Len(fifo)
      BY <1>1, HeadIsFirst
    <2> QED
      BY <1>1, <2>1 DEF ListInv, HandlerInv
  <1> QED
    BY <1>1, <1>2, CmdAssumption DEF AssertsHold, Failed, Calm, EventsOfHead, Data

LEMMA IrqFinishCalm ==
    ASSUME ListInv, ListInv', Calm, IrqFinish
    PROVE  Calm'
  <1>1. /\ at = "finish" /\ cur = head /\ head # Null
        /\ UNCHANGED <<complete, cur, bits, waiting, status, errors, removals, busy,
                       outcome, copied, tripped>>
        /\ at' \in {"none", "callback"} /\ status = {} /\ hw.phase = "idle"
        /\ fifo' = Tail(fifo) /\ fifo \in Seq(Cmds)
        /\ told' = IF cur \in Blocking THEN told ELSE [told EXCEPT ![cur] = "ok"]
    BY DEF IrqFinish, ListInv, TypeOK, HandlerInv, Calm, ReadEvents
  <1>2. Len(fifo) \in Nat \ {0} /\ fifo # <<>> /\ cur \in Cmds
    BY <1>1, HeadIsFirst
  <1>3. \A i \in 1..(Len(fifo) - 1) : fifo'[i] = fifo[i + 1]
    BY <1>1, <1>2, TailFacts
  <1>4. Len(fifo') = Len(fifo) - 1
    BY <1>1, <1>2, TailFacts
  <1>5. ASSUME NEW i \in 1..Len(fifo') PROVE copied'[fifo'[i]] = {}
    <2>1. i + 1 \in 1..Len(fifo) /\ i + 1 # 1 /\ fifo'[i] = fifo[i + 1]
      BY <1>2, <1>3, <1>4
    <2> QED
      BY <1>1, <2>1 DEF Calm, Untouched
  <1>6. Untouched'
    BY <1>5 DEF Untouched
  <1>7. Settled'
    BY <1>1 DEF Calm, Settled, Passed
  <1>8. ToldLate'
    <2>1. \A c \in Blocking : told'[c] = told[c]
      BY <1>1, CmdAssumption DEF ListInv, TypeOK
    <2> QED
      BY <1>1, <2>1 DEF Calm, ToldLate, Passed
  <1>9. CASE head' = Null
    <2>1. UNCHANGED hw
      BY <1>9 DEF IrqFinish
    <2> QED
      BY <1>1, <1>6, <1>7, <1>8, <1>9, <2>1
         DEF Calm, EventsOfHead, ReadEvents, HeadProgress
  <1>10. CASE head' # Null
    <2>1. /\ Len(fifo') \in Nat \ {0} /\ head' = fifo'[1] /\ head' \in Cmds
      <3>1. fifo' \in Seq(Cmds) /\ Len(fifo') \in Nat /\ head' \in Cmds \cup {Null}
        BY DEF ListInv, TypeOK
      <3>2. Len(fifo') # 0 /\ head' = fifo'[1]
        BY <1>10 DEF ListInv, QueueSpelled
      <3> QED
        BY <1>10, <3>1, <3>2
    <2>2. NextCmd(head')
      BY <1>10 DEF IrqFinish
    <2>3. /\ hw'.cmd = head' /\ hw'.phase = "command" /\ hw'.block = 1
          /\ head' \in Pio => remaining' = Size(head')
      BY <2>2 DEF NextCmd, Data
    <2>4. copied'[head'] = {}
      BY <1>5, <2>1
    <2> QED
      BY <1>1, <1>6, <1>7, <1>8, <2>1, <2>3, <2>4
         DEF Calm, EventsOfHead, ReadEvents, HeadProgress
  <1> QED
    BY <1>9, <1>10

\* The blocks moved so far, with one more.
LEMMA OneMoreBlock ==
    ASSUME NEW b \in Nat \ {0}
    PROVE  /\ {<<1, k>> : k \in 1..(b - 1)} \cup {<<1, b>>}
                 = {<<1, k>> : k \in 1..((b + 1) - 1)}
           /\ {<<k, k>> : k \in 1..(b - 1)} \cup {<<b, b>>}
                 = {<<k, k>> : k \in 1..((b + 1) - 1)}
  <1>1. 1..((b + 1) - 1) = 1..(b - 1) \cup {b}
    OBVIOUS
  <1> QED
    BY <1>1

LEMMA IrqHandleCalm ==
    ASSUME ListInv, Calm, IrqHandle
    PROVE  Calm'
  <1> DEFINE copies == "BR" \in bits /\ remaining > 0
  <1>1. /\ at = "handle" /\ at' = "clear" /\ cur = head /\ head # Null
        /\ AssertsHold(head, bits) /\ bits \subseteq status
        /\ UNCHANGED <<head, tail, next, cur, bits, waiting, status, errors, removals,
                       fifo, busy, outcome, told, tripped>>
    BY DEF IrqHandle, list, ListInv, HandlerInv, Calm, ReadEvents
  <1>2. /\ head \in Cmds /\ head \in busy /\ head = fifo[1]
        /\ \A i \in 1..Len(fifo) : i # 1 => fifo[i] # head
        /\ complete[head] = 0
    BY <1>1, HeadIsFirst DEF ListInv, HandlerInv
  <1>3. /\ complete \in [Cmds -> {-1, 0, 1}] /\ copied \in [Cmds -> SUBSET Places]
        /\ hw \in HwType /\ busy \subseteq Cmds /\ fifo \in Seq(Cmds)
        /\ Blocks \in Nat \ {0} /\ remaining \in 0..Blocks
        /\ hw.block \in 0..(Blocks + 1) /\ hw.phase \in {"idle", "command", "data"}
    BY HwTypes, HwFields DEF ListInv, TypeOK
  <1>4. /\ complete'[head] = (IF Completed(head, bits) THEN 1
                              ELSE IF Failed(bits) THEN -1 ELSE 0)
        /\ \A c \in Cmds : c # head => complete'[c] = complete[c]
    BY <1>1, <1>2, <1>3 DEF IrqHandle
  <1>5. /\ \A c \in Cmds : c # head => copied'[c] = copied[c]
        /\ ~copies => UNCHANGED <<remaining, copied, hw>>
    BY <1>1, <1>3 DEF IrqHandle
  <1>6. hw'.phase = hw.phase /\ hw'.cmd = hw.cmd
    <2>1. CASE hw' = [hw EXCEPT !.port = FALSE, !.block = hw.block + 1]
      BY <1>3, <2>1 DEF HwType
    <2>2. CASE hw' = hw
      BY <2>2
    <2> QED
      BY <2>1, <2>2 DEF IrqHandle
  <1>7. "TC" \in status \/ head \notin Data => copied' = copied
    BY <1>1, <1>5, CmdAssumption DEF Calm, ReadEvents, EventsOfHead, Data
  <1>8. Settled'
    <2>1. complete'[head] = 1 => outcome[head] = "done" /\ Passed(head) /\ copied' = copied
      BY <1>1, <1>4, <1>7, CmdAssumption
         DEF Completed, Calm, EventsOfHead, Data, Passed
    <2>2. complete'[head] = -1 => outcome[head] = "error"
      BY <1>1, <1>4 DEF Failed, Calm, EventsOfHead
    <2>3. ASSUME NEW c \in busy
          PROVE  /\ complete'[c] = 1 => outcome'[c] = "done" /\ Passed(c)'
                 /\ complete'[c] = -1 => outcome'[c] = "error"
      <3>1. CASE c = head
        BY <1>1, <2>1, <2>2, <3>1 DEF Passed
      <3>2. CASE c # head
        BY <1>1, <1>3, <1>4, <1>5, <3>2 DEF Calm, Settled, Passed
      <3> QED
        BY <3>1, <3>2
    <2> QED
      BY <1>1, <2>3 DEF Settled
  <1>9. ToldLate'
    <2>1. ASSUME NEW c \in Blocking, told[c] = "ok" PROVE Passed(c)' <=> Passed(c)
      <3>1. c # head /\ c \in Cmds
        BY <1>2, <2>1, CmdAssumption DEF Calm, ToldLate
      <3> QED
        BY <1>5, <3>1 DEF Passed
    <2> QED
      BY <1>1, <2>1 DEF Calm, ToldLate
  <1>10. Untouched'
    <2>1. ASSUME NEW i \in 1..Len(fifo), i # 1 PROVE copied'[fifo[i]] = {}
      <3>1. fifo[i] # head /\ fifo[i] \in Cmds
        BY <1>2, <1>3, <2>1, ElementOfSeq
      <3> QED
        BY <1>5, <2>1, <3>1 DEF Calm, Untouched
    <2> QED
      BY <1>1, <2>1 DEF Untouched
  <1>11. EventsOfHead'
    BY <1>1, <1>7 DEF Calm, EventsOfHead, Passed
  <1>12. ReadEvents'
    <2>1. complete'[head] # 0 <=> bits \cap Ending(head) # {}
      <3>1. "CRM" \notin bits
        BY <1>1 DEF Calm, EventsOfHead
      <3>2. "TC" \in bits => head \in Data
        BY <1>1 DEF Calm, EventsOfHead
      <3> QED
        BY <1>4, <3>1, <3>2 DEF Completed, Failed, Ending
    <2> QED
      BY <1>1, <1>6, <2>1 DEF Calm, ReadEvents
  <1>13. HeadProgress'
    <2>1. CASE hw.phase # "data"
      BY <1>1, <1>3, <1>6, <2>1 DEF Calm, HeadProgress, Ending
    <2>2. CASE hw.phase = "data" /\ "BR" \notin bits
      BY <1>1, <1>5, <1>6, <2>2 DEF Calm, HeadProgress, Ending
    <2>3. CASE hw.phase = "data" /\ "BR" \in bits
      <3>1. /\ hw.port /\ head \in Pio /\ head \notin Dma
            /\ hw.block <= Size(head) /\ hw.block >= 1 /\ Size(head) \in 1..Blocks
            /\ remaining = Size(head) + 1 - hw.block
            /\ copied[head] = {<<1, k>> : k \in 1..(hw.block - 1)}
        BY <1>1, <2>3, CmdAssumption, Sizes DEF Calm, HeadProgress, EventsOfHead
      <3>2. copies
        BY <1>3, <2>3, <3>1
      <3>3. /\ remaining' = remaining - 1
            /\ copied'[head] = copied[head] \cup {<<1, hw.block>>}
            /\ hw' = [hw EXCEPT !.port = FALSE, !.block = hw.block + 1]
        BY <1>1, <1>2, <1>3, <3>1, <3>2 DEF IrqHandle
      <3>4. hw'.block = hw.block + 1 /\ ~hw'.port
        BY <1>3, <3>3 DEF HwType
      <3>5. PICK b \in Nat \ {0} : b = hw.block
        BY <1>3, <3>1
      <3>6. copied'[head] = {<<1, k>> : k \in 1..(hw'.block - 1)}
        BY <3>1, <3>3, <3>4, <3>5, OneMoreBlock
      <3>7. remaining' = Size(head) + 1 - hw'.block /\ hw'.block \in 1..(Size(head) + 1)
        BY <1>3, <3>1, <3>3, <3>4
      <3> QED
        BY <1>1, <1>6, <2>3, <3>1, <3>4, <3>6, <3>7 DEF Calm, HeadProgress
    <2> QED
      BY <2>1, <2>2, <2>3
  <1> QED
    BY <1>8, <1>9, <1>10, <1>11, <1>12, <1>13 DEF Calm
-----------------------------------------------------------------------------
(* The controller changes only what belongs to the head.                   *)
LEMMA HwCalmFrame ==
    ASSUME ListInv, Calm, HwUnchanged, hw.phase # "idle",
           \A c \in Cmds : c # head => outcome'[c] = outcome[c] /\ copied'[c] = copied[c]
    PROVE  /\ Settled' /\ ToldLate' /\ Untouched'
           /\ UNCHANGED <<head, complete, remaining, at, cur, bits>>
  <1>1. UNCHANGED <<head, tail, next, complete, remaining, at, cur, bits, waiting, fifo,
                    busy, told, tripped>>
    BY DEF HwUnchanged, list, irqVars
  <1>2. /\ head \in Cmds /\ head \in busy /\ complete[head] = 0
        /\ \A i \in 1..Len(fifo) : i # 1 => fifo[i] # head
    BY WorksOnHead
  <1>3. busy \subseteq Cmds /\ fifo \in Seq(Cmds)
    BY DEF ListInv, TypeOK
  <1>4. Settled'
    <2>1. ASSUME NEW c \in busy
          PROVE  /\ complete[c] = 1 => outcome'[c] = "done" /\ Passed(c)'
                 /\ complete[c] = -1 => outcome'[c] = "error"
      <3>1. CASE c = head
        BY <1>2, <3>1
      <3>2. CASE c # head
        BY <1>3, <3>2 DEF Calm, Settled, Passed
      <3> QED
        BY <3>1, <3>2
    <2> QED
      BY <1>1, <2>1 DEF Settled
  <1>5. ToldLate'
    <2>1. ASSUME NEW c \in Blocking, told[c] = "ok"
          PROVE  outcome'[c] = outcome[c] /\ (Passed(c)' <=> Passed(c))
      <3>1. c # head /\ c \in Cmds
        BY <1>2, <2>1, CmdAssumption DEF Calm, ToldLate
      <3> QED
        BY <3>1 DEF Passed
    <2> QED
      BY <1>1, <2>1 DEF Calm, ToldLate
  <1>6. Untouched'
    <2>1. ASSUME NEW i \in 1..Len(fifo), i # 1 PROVE copied'[fifo[i]] = {}
      <3>1. fifo[i] # head /\ fifo[i] \in Cmds
        BY <1>2, <1>3, <2>1, ElementOfSeq
      <3> QED
        BY <2>1, <3>1 DEF Calm, Untouched
    <2> QED
      BY <1>1, <2>1 DEF Untouched
  <1> QED
    BY <1>1, <1>4, <1>5, <1>6

LEMMA HwResponseCalm ==
    ASSUME ListInv, Calm, HwResponse
    PROVE  Calm'
  <1>1. /\ hw.phase = "command" /\ status' = status \cup {"CC"} /\ status = {}
        /\ at \in {"none", "callback"} /\ HwUnchanged /\ UNCHANGED <<errors, copied>>
        /\ hw.block = 1 /\ copied[head] = {} /\ (head \in Pio => remaining = Size(head))
    BY DEF HwResponse, Raise, Calm, HeadProgress
  <1>2. hw.cmd = head /\ head \in Cmds /\ head # Null
    BY <1>1, WorksOnHead, CmdAssumption
  <1>3. CASE head \in Data
    <2>1. hw' = [hw EXCEPT !.phase = "data"] /\ UNCHANGED outcome
      BY <1>2, <1>3 DEF HwResponse
    <2>2. hw'.phase = "data" /\ hw'.block = 1 /\ hw'.cmd = head
      BY <1>1, <1>2, <2>1, HwTypes DEF HwType
    <2>3. /\ Settled' /\ ToldLate' /\ Untouched'
          /\ UNCHANGED <<head, complete, remaining, at, cur, bits>>
      BY <1>1, <2>1, HwCalmFrame
    <2>4. EventsOfHead' /\ ReadEvents'
      BY <1>1, <1>2, <1>3, <2>3 DEF EventsOfHead, ReadEvents
    <2>5. {<<1, k>> : k \in 1..(1 - 1)} = {} /\ {<<k, k>> : k \in 1..(1 - 1)} = {}
      OBVIOUS
    <2>6. Size(head) + 1 - 1 = Size(head) /\ 1 \in 1..(Size(head) + 1) /\ 1 <= Size(head)
      BY Sizes
    <2>7. HeadProgress'
      BY <1>1, <1>3, <2>2, <2>3, <2>5, <2>6 DEF HeadProgress
    <2> QED
      BY <2>3, <2>4, <2>7 DEF Calm
  <1>4. CASE head \notin Data
    <2>1. hw' = IdleHw /\ outcome' = [outcome EXCEPT ![head] = "done"]
      BY <1>2, <1>4 DEF HwResponse, HwEnd
    <2>2. outcome'[head] = "done" /\ \A c \in Cmds : c # head => outcome'[c] = outcome[c]
      BY <1>2, <2>1, HwTypes
    <2>3. /\ Settled' /\ ToldLate' /\ Untouched'
          /\ UNCHANGED <<head, complete, remaining, at, cur, bits>>
      BY <1>1, <2>2, HwCalmFrame
    <2>4. EventsOfHead' /\ ReadEvents'
      BY <1>1, <1>2, <2>2, <2>3 DEF EventsOfHead, ReadEvents
    <2>5. HeadProgress'
      BY <1>1, <1>4, <2>1, <2>3, IdleHwType DEF HeadProgress, Ending
    <2> QED
      BY <2>3, <2>4, <2>5 DEF Calm
  <1> QED
    BY <1>3, <1>4

LEMMA HwBlockCalm ==
    ASSUME ListInv, Calm, HwBlock
    PROVE  Calm'
  <1>1. /\ hw.phase = "data" /\ hw.block <= Size(head) /\ hw.block >= 1 /\ ~hw.port
        /\ HwUnchanged /\ UNCHANGED <<outcome, errors>>
        /\ head \in Data /\ status \subseteq {"CC", "BR"}
    BY DEF HwBlock, Calm, HeadProgress
  <1>2. /\ hw.cmd = head /\ head \in Cmds /\ head # Null
        /\ at # "finish" /\ (at \in {"handle", "clear"} => bits \cap Ending(head) = {})
    BY <1>1, WorksOnHead, CmdAssumption
  <1>3. at \in {"handle", "clear"} => bits \subseteq status
    BY DEF Calm, ReadEvents
  <1>4. CASE head \in Dma
    <2>1. /\ hw' = [hw EXCEPT !.block = hw.block + 1] /\ UNCHANGED status
          /\ copied' = [copied EXCEPT ![head] = copied[head] \cup {<<hw.block, hw.block>>}]
      BY <1>2, <1>4 DEF HwBlock
    <2>2. hw'.phase = "data" /\ hw'.block = hw.block + 1 /\ hw'.cmd = head /\ head \notin Pio
      BY <1>1, <1>2, <1>4, <2>1, HwTypes, CmdAssumption DEF HwType
    <2>3. /\ copied'[head] = copied[head] \cup {<<hw.block, hw.block>>}
          /\ \A c \in Cmds : c # head => copied'[c] = copied[c]
      BY <1>2, <2>1, HwTypes
    <2>4. /\ Settled' /\ ToldLate' /\ Untouched'
          /\ UNCHANGED <<head, complete, remaining, at, cur, bits>>
      BY <1>1, <2>3, HwCalmFrame
    <2>5. EventsOfHead' /\ ReadEvents'
      BY <1>1, <1>2, <2>1, <2>4 DEF Calm, EventsOfHead, ReadEvents
    <2>6. PICK b \in Nat \ {0} : b = hw.block
      BY <1>1, HwTypes, HwFields
    <2>7. copied'[head] = {<<k, k>> : k \in 1..(hw'.block - 1)}
      <3>1. copied[head] = {<<k, k>> : k \in 1..(b - 1)}
        BY <1>1, <1>4, <2>6 DEF Calm, HeadProgress
      <3> QED
        BY <2>2, <2>3, <2>6, <3>1, OneMoreBlock
    <2>8. "BR" \notin status /\ hw'.block \in 1..(Size(head) + 1) /\ ~hw'.port
      <3>1. "BR" \notin status
        BY <1>4, CmdAssumption DEF Calm, EventsOfHead
      <3>2. hw'.port = hw.port
        BY <2>1, HwTypes DEF HwType
      <3> QED
        BY <1>1, <2>2, <2>6, <3>1, <3>2, Sizes
    <2>9. HeadProgress'
      BY <1>1, <2>1, <2>2, <2>4, <2>7, <2>8 DEF HeadProgress
    <2> QED
      BY <2>4, <2>5, <2>9 DEF Calm
  <1>5. CASE head \notin Dma
    <2>1. /\ hw' = [hw EXCEPT !.port = TRUE] /\ UNCHANGED copied
          /\ status' = status \cup {"BR"} /\ head \in Pio
      BY <1>1, <1>2, <1>5 DEF HwBlock, Raise, Data
    <2>2. hw'.phase = "data" /\ hw'.block = hw.block /\ hw'.cmd = head /\ hw'.port
      BY <1>1, <1>2, <2>1, HwTypes DEF HwType
    <2>3. /\ Settled' /\ ToldLate' /\ Untouched'
          /\ UNCHANGED <<head, complete, remaining, at, cur, bits>>
      BY <1>1, <2>1, HwCalmFrame
    <2>4. EventsOfHead'
      BY <1>1, <1>2, <2>1, <2>3 DEF Calm, EventsOfHead, Passed
    <2>5. ReadEvents'
      BY <1>1, <1>2, <1>3, <2>1, <2>3 DEF Calm, ReadEvents, Ending
    <2>6. HeadProgress'
      BY <1>1, <1>5, <2>1, <2>2, <2>3 DEF Calm, HeadProgress
    <2> QED
      BY <2>3, <2>4, <2>5, <2>6 DEF Calm
  <1> QED
    BY <1>4, <1>5

LEMMA HwEndCalm ==
    ASSUME ListInv, Calm, HwTransferComplete \/ HwError
    PROVE  Calm'
  <1>1. hw.phase \in {"command", "data"} /\ HwUnchanged /\ UNCHANGED copied
    BY HwTypes, HwFields DEF HwTransferComplete, HwError
  <1>2. /\ hw.cmd = head /\ head \in Cmds /\ head # Null
        /\ at # "finish" /\ (at \in {"handle", "clear"} => bits \cap Ending(head) = {})
    BY <1>1, WorksOnHead, CmdAssumption
  <1>3. at \in {"handle", "clear"} => bits \subseteq status
    BY DEF Calm, ReadEvents
  <1>4. PICK w \in {"done", "error"} :
           /\ HwTransferComplete => w = "done"
           /\ ~HwTransferComplete => w = "error"
           /\ HwEnd(w)
    BY DEF HwTransferComplete, HwError
  <1>5. /\ hw' = IdleHw /\ outcome'[head] = w
        /\ \A c \in Cmds : c # head => outcome'[c] = outcome[c]
    BY <1>2, <1>4, HwTypes DEF HwEnd
  <1>6. /\ Settled' /\ ToldLate' /\ Untouched'
        /\ UNCHANGED <<head, complete, remaining, at, cur, bits>>
    BY <1>1, <1>5, HwCalmFrame
  <1>7. /\ hw.phase = "command" => status = {} /\ at \in {"none", "callback"}
        /\ hw.phase = "data" => status \subseteq {"CC", "BR"} /\ head \in Data
    BY DEF Calm, HeadProgress
  <1>8. CASE HwTransferComplete
    <2>1. /\ hw.phase = "data" /\ hw.block > Size(head) /\ status' = status \cup {"TC"}
          /\ UNCHANGED errors
      BY <1>2, <1>8 DEF HwTransferComplete, Raise
    <2>2. ~hw.port /\ hw.block - 1 = Size(head)
      BY <2>1, Sizes DEF Calm, HeadProgress
    <2>3. Passed(head)'
      <3>1. /\ head \in Pio => copied[head] = {<<1, k>> : k \in 1..Size(head)}
            /\ head \in Dma => copied[head] = {<<k, k>> : k \in 1..Size(head)}
        BY <2>1, <2>2 DEF Calm, HeadProgress
      <3> QED
        BY <1>1, <1>6, <3>1 DEF Passed
    <2>4. EventsOfHead'
      BY <1>2, <1>4, <1>5, <1>6, <1>7, <1>8, <2>1, <2>3 DEF Calm, EventsOfHead
    <2>5. "BR" \in status => at = "clear" /\ "BR" \in bits
      BY <2>1, <2>2 DEF Calm, HeadProgress
    <2>6. ReadEvents'
      BY <1>2, <1>3, <1>6, <1>7, <2>1, <2>5 DEF Calm, ReadEvents, Ending
    <2>7. HeadProgress'
      BY <1>5, <1>6, <1>7, <2>1, IdleHwType DEF HeadProgress, Ending
    <2> QED
      BY <1>6, <2>4, <2>6, <2>7 DEF Calm
  <1>9. CASE ~HwTransferComplete
    <2>1. status' = status \cup {"ERR"} /\ errors' = errors + 1 /\ errors' > 0
      BY <1>9, HwTypes, SdhcBounds DEF HwError, Raise
    <2>2. EventsOfHead'
      BY <1>1, <1>2, <1>4, <1>5, <1>6, <1>7, <1>9, <2>1 DEF Calm, EventsOfHead
    <2>3. ReadEvents'
      BY <1>1, <1>2, <1>3, <1>6, <1>7, <2>1 DEF Calm, ReadEvents, Ending
    <2>4. HeadProgress'
      BY <1>5, <1>6, <2>1, IdleHwType DEF HeadProgress, Ending
    <2> QED
      BY <1>6, <2>2, <2>3, <2>4 DEF Calm
  <1> QED
    BY <1>8, <1>9
-----------------------------------------------------------------------------
LEMMA AssertionsKept ==
    ASSUME ListInv, StepInv, [Next]_vars
    PROVE  (tripped => at = "aborted")' /\ AssertionsHold'
  <1>1. /\ errors \in Nat /\ removals \in Nat /\ errors' \in {errors, errors + 1}
        /\ removals' \in {removals, removals + 1}
    BY HwTypes, SdhcBounds
       DEF Next, SendCmd, SendCmdReturns, Irq, IrqRead, IrqHandle, IrqAbort, IrqClear,
           IrqFinish, CallbackReturns, Controller, HwResponse, HwBlock,
           HwTransferComplete, HwError, HwRemoval, vars
  <1>2. CASE IrqAbort
    <2>1. at' = "aborted" /\ cur' = cur /\ UNCHANGED <<errors, removals>>
      BY <1>2 DEF IrqAbort
    <2>2. removals = 0 => errors > 0 /\ cur \in Pio
      BY <1>2, AbortCause DEF StepInv
    <2> QED
      BY <1>1, <2>1, <2>2 DEF AssertionsHold
  <1>3. CASE ~IrqAbort
    <2>1. UNCHANGED tripped
      BY <1>3
         DEF Next, SendCmd, SendCmdReturns, Irq, IrqRead, IrqHandle, IrqClear,
             IrqFinish, CallbackReturns, Controller, HwResponse, HwBlock,
             HwTransferComplete, HwError, HwRemoval, HwUnchanged, vars, history
    <2>2. at = "aborted" => UNCHANGED <<at, cur>>
      BY DEF Next, SendCmd, InClient, SendCmdReturns, Irq, IrqRead, IrqHandle, IrqAbort,
             IrqClear, IrqFinish, CallbackReturns, Controller, HwResponse, HwBlock,
             HwTransferComplete, HwError, HwRemoval, HwUnchanged, vars, irqVars
    <2>3. tripped' => tripped
      BY <2>1, Zenon
    <2>4. tripped => at = "aborted" /\ (removals > 0 \/ (errors > 0 /\ cur \in Pio))
      BY DEF StepInv, AssertionsHold
    <2>5. errors > 0 => errors' > 0
      BY <1>1
    <2>6. removals > 0 => removals' > 0
      BY <1>1
    <2> QED
      BY <2>2, <2>3, <2>4, <2>5, <2>6 DEF AssertionsHold
  <1> QED
    BY <1>2, <1>3

LEMMA NextStepInv ==
    ASSUME ListInv, StepInv, [Next]_vars
    PROVE  StepInv'
  <1>1. ListInv'
    BY NextListInv
  <1>2. ASSUME removals' = 0 PROVE Calm'
    <2>1. ~HwRemoval /\ removals = 0
      BY <1>2, HwTypes, SdhcBounds
         DEF Next, SendCmd, SendCmdReturns, Irq, IrqRead, IrqHandle, IrqAbort, IrqClear,
             IrqFinish, CallbackReturns, Controller, HwResponse, HwBlock,
             HwTransferComplete, HwError, HwRemoval, vars
    <2>2. Calm
      BY <2>1 DEF StepInv
    <2>3. CASE UNCHANGED vars
      <3>1. UNCHANGED <<head, complete, remaining, at, bits, status, hw, errors, fifo,
                        busy, outcome, told, copied>>
        BY <2>3 DEF vars, list, irqVars, history
      <3>2. EventsOfHead' /\ ReadEvents' /\ HeadProgress'
        BY <2>2, <3>1
           DEF Calm, EventsOfHead, ReadEvents, HeadProgress, Passed, Ending
      <3>3. Settled' /\ ToldLate' /\ Untouched'
        BY <2>2, <3>1 DEF Calm, Settled, ToldLate, Untouched, Passed
      <3> QED
        BY <3>2, <3>3 DEF Calm
    <2> QED
      BY <1>1, <2>1, <2>2, <2>3, SendCmdCalm, SendCmdReturnsCalm, IrqReadCalm,
         IrqHandleCalm, IrqAbortCalm, IrqClearCalm, IrqFinishCalm, CallbackReturnsCalm,
         HwResponseCalm, HwBlockCalm, HwEndCalm
      DEF Next, Irq, Controller
  <1> QED
    BY <1>2, AssertionsKept DEF StepInv

\* A callback comes when the handler takes the ended command off the list.
CallbackLate ==
    /\ at = "finish" => complete[cur] # 0
    /\ \A c \in Cmds \ Blocking :
          /\ told[c] = "ok" =>
                (outcome[c] = "done" /\ Passed(c)) \/ outcome[c] = "error"
          /\ c \in busy => told[c] = "none" \/ (at = "callback" /\ c = cur)

\* A step that leaves a command alone, and does not enter or end a callback
LEMMA ToldFrame ==
    ASSUME CallbackLate, at' # "finish",
           at = "callback" => UNCHANGED <<at, cur>>,
           \A c \in Cmds \ Blocking :
              told'[c] # "none" =>
                 /\ told'[c] = told[c] /\ outcome'[c] = outcome[c]
                 /\ copied'[c] = copied[c] /\ (c \in busy' => c \in busy)
    PROVE  CallbackLate'
  <1>1. ASSUME NEW c \in Cmds \ Blocking, told'[c] # "none"
        PROVE  /\ told'[c] = "ok" =>
                     (outcome'[c] = "done" /\ Passed(c)') \/ outcome'[c] = "error"
               /\ c \in busy' => at' = "callback" /\ c = cur'
    <2>1. Passed(c)' <=> Passed(c)
      BY <1>1 DEF Passed
    <2> QED
      BY <1>1, <2>1 DEF CallbackLate
  <1> QED
    BY <1>1 DEF CallbackLate

\* The head has not been told: it is in the list, which a callback's command
\* has left.
LEMMA HeadUntold ==
    ASSUME ListInv, CallbackLate, head # Null, head \notin Blocking
    PROVE  told[head] = "none"
  <1>1. head \in Cmds /\ head \in busy /\ Len(fifo) \in Nat \ {0} /\ head = fifo[1]
    BY HeadIsFirst
  <1>2. 1 \in 1..Len(fifo)
    BY <1>1
  <1>3. at = "callback" => cur # head
    BY <1>1, <1>2 DEF ListInv, HandlerInv
  <1> QED
    BY <1>1, <1>3 DEF CallbackLate

LEMMA NextCallbackLate ==
    ASSUME ListInv, Calm, CallbackLate, [Next]_vars, ~HwRemoval
    PROVE  CallbackLate'
  <1>1. /\ told \in [Cmds -> {"none", "ok", "failed"}] /\ outcome \in [Cmds -> Outcomes]
        /\ copied \in [Cmds -> SUBSET Places] /\ busy \subseteq Cmds
        /\ complete \in [Cmds -> {-1, 0, 1}] /\ cur \in Cmds \cup {Null}
        /\ waiting \in Blocking \cup {Null} /\ Blocking \subseteq Cmds
        /\ Null \notin Cmds
    BY CmdAssumption DEF ListInv, TypeOK, Places
  <1>2. ASSUME NEW d \in Cmds, SendCmd(d) PROVE CallbackLate'
    <2>1. /\ at' # "finish" /\ UNCHANGED <<at, cur>> /\ busy' = busy \cup {d}
          /\ told' = [told EXCEPT ![d] = "none"] /\ outcome' = [outcome EXCEPT ![d] = "none"]
          /\ copied' = [copied EXCEPT ![d] = {}]
      BY <1>2 DEF SendCmd, NewCmd, InClient, irqVars
    <2>2. \A c \in Cmds : told'[c] # "none" =>
             /\ c # d /\ told'[c] = told[c] /\ outcome'[c] = outcome[c]
             /\ copied'[c] = copied[c]
      BY <1>1, <2>1
    <2> QED
      BY <2>1, <2>2, ToldFrame
  <1>3. CASE SendCmdReturns
    <2>1. /\ at' # "finish" /\ UNCHANGED <<at, cur, outcome, copied>>
          /\ busy' \subseteq busy /\ waiting \in Blocking
          /\ \A c \in Cmds : c # waiting => told'[c] = told[c]
      BY <1>1, <1>3 DEF SendCmdReturns, TransferReturns, irqVars
    <2> QED
      BY <2>1, ToldFrame
  <1>4. CASE IrqRead \/ IrqAbort
    <2>1. /\ at' # "finish" /\ at # "callback" /\ UNCHANGED <<told, outcome, copied, busy>>
      BY <1>4 DEF IrqRead, IrqAbort, history
    <2> QED
      BY <2>1, ToldFrame
  <1>5. CASE IrqClear
    <2>1. /\ at = "clear" /\ UNCHANGED <<cur, complete, told, outcome, copied, busy>>
          /\ at' = "finish" => complete[cur] # 0
      BY <1>5 DEF IrqClear, history
    <2> QED
      BY <2>1 DEF CallbackLate, Passed
  <1>6. CASE IrqHandle
    <2>1. /\ at = "handle" /\ at' = "clear" /\ cur = head /\ head # Null
          /\ UNCHANGED <<told, outcome, busy>>
          /\ \A c \in Cmds : c # head => copied'[c] = copied[c]
      BY <1>1, <1>6 DEF IrqHandle, ListInv, HandlerInv
    <2>2. \A c \in Cmds \ Blocking : told[c] # "none" => c # head
      BY <2>1, HeadUntold
    <2> QED
      BY <2>1, <2>2, ToldFrame
  <1>7. CASE IrqFinish
    <2>1. /\ at = "finish" /\ cur = head /\ cur \in Cmds /\ cur \in busy /\ complete[cur] # 0
          /\ at' = (IF cur \in Blocking THEN "none" ELSE "callback")
          /\ told' = (IF cur \in Blocking THEN told ELSE [told EXCEPT ![cur] = "ok"])
          /\ UNCHANGED <<cur, busy, outcome, copied>>
      BY <1>1, <1>7, HeadIsFirst DEF IrqFinish, ListInv, HandlerInv, CallbackLate
    <2>2. (outcome[cur] = "done" /\ Passed(cur)) \/ outcome[cur] = "error"
      BY <1>1, <2>1 DEF Calm, Settled
    <2>3. \A c \in Cmds \ Blocking :
             /\ c # cur => told'[c] = told[c]
             /\ c = cur => at' = "callback"
      BY <1>1, <2>1
    <2>4. \A c : Passed(c)' <=> Passed(c)
      BY <2>1 DEF Passed
    <2>5. ASSUME NEW c \in Cmds \ Blocking
          PROVE  /\ told'[c] = "ok" =>
                       (outcome'[c] = "done" /\ Passed(c)') \/ outcome'[c] = "error"
                 /\ c \in busy' => told'[c] = "none" \/ (at' = "callback" /\ c = cur')
      BY <2>1, <2>2, <2>3, <2>4 DEF CallbackLate
    <2> QED
      BY <2>1, <2>5 DEF CallbackLate
  <1>8. CASE CallbackReturns
    <2>1. /\ at' = "none" /\ busy' = busy \ {cur} /\ UNCHANGED <<cur, told, outcome, copied>>
      BY <1>8 DEF CallbackReturns
    <2> QED
      BY <2>1 DEF CallbackLate, Passed
  <1>9. CASE Controller \/ HwError
    <2>1. /\ HwUnchanged /\ hw.phase # "idle"
          /\ UNCHANGED <<at, cur, busy, told, complete>>
      BY <1>9 DEF Controller, HwResponse, HwBlock, HwTransferComplete, HwError,
                  HwUnchanged, irqVars
    <2>2. hw.cmd = head /\ head \in Cmds /\ at # "finish"
      BY <2>1, WorksOnHead
    <2>3. \A c \in Cmds : c # head => outcome'[c] = outcome[c] /\ copied'[c] = copied[c]
      BY <1>1, <1>9, <2>2
         DEF Controller, HwResponse, HwBlock, HwTransferComplete, HwError, HwEnd
    <2>4. \A c \in Cmds \ Blocking : told[c] # "none" => c # head
      BY <1>1, <2>2, HeadUntold
    <2> QED
      BY <2>1, <2>2, <2>3, <2>4, ToldFrame
  <1>10. CASE UNCHANGED vars
    BY <1>10 DEF vars, history, irqVars, CallbackLate, Passed
  <1> QED
    BY <1>2, <1>3, <1>4, <1>5, <1>6, <1>7, <1>8, <1>9, <1>10 DEF Next, Irq

LEMMA SpecInv == Spec => [](ListInv /\ StepInv /\ (removals = 0 => CallbackLate))
  <1>1. Init => CallbackLate /\ removals = 0
    BY DEF Init, CallbackLate
  <1>2. ListInv /\ StepInv /\ (removals = 0 => CallbackLate) /\ [Next]_vars
           => ListInv' /\ StepInv' /\ (removals = 0 => CallbackLate)'
    <2> SUFFICES ASSUME ListInv, StepInv, removals = 0 => CallbackLate, [Next]_vars
                 PROVE  ListInv' /\ StepInv' /\ (removals' = 0 => CallbackLate')
      OBVIOUS
    <2>1. removals' = 0 => removals = 0 /\ ~HwRemoval
      BY HwTypes, SdhcBounds
         DEF Next, SendCmd, SendCmdReturns, Irq, IrqRead, IrqHandle, IrqAbort, IrqClear,
             IrqFinish, CallbackReturns, Controller, HwResponse, HwBlock,
             HwTransferComplete, HwError, HwRemoval, vars
    <2>2. removals = 0 => Calm
      BY DEF StepInv
    <2> QED
      BY <2>1, <2>2, NextListInv, NextStepInv, NextCallbackLate
  <1> QED
    BY <1>1, <1>2, InitListInv, InitStepInv, PTL DEF Spec

(* Until a card is removed the controller works on the head of the list    *)
(* and does not idle unnoticed, and in every behaviour an assertion of the *)
(* handler fails only after a removal, or after an error in a transfer     *)
(* through the data port.                                                  *)
THEOREM StaysInStep == Spec => []InStep
  <1>1. ListInv /\ StepInv => InStep
    <2> SUFFICES ASSUME ListInv, StepInv, removals = 0 PROVE ControllerServesHead
      BY DEF StepInv, InStep, ControllerServesHead
    <2>1. /\ hw.phase # "idle" => hw.cmd = head
          /\ hw.phase = "idle" /\ head # Null =>
                at \in {"finish", "aborted"} \/ status \cap Ending(head) # {}
      BY DEF StepInv, Calm, HeadProgress
    <2> QED
      BY <2>1 DEF ControllerServesHead
  <1> QED
    BY <1>1, SpecInv, PTL

\* What has passed is in place, but for a long command through the port.
LEMMA PassedInPlace == \A c : Passed(c) => Transferred(c) \/ Overwrites(c)
  <1>1. {<<1, k>> : k \in 1..1} = {<<k, k>> : k \in 1..1}
    OBVIOUS
  <1> QED
    BY <1>1 DEF Passed, Transferred, Overwrites, Data, Size

(* Until a card is removed, a command that the driver takes for complete,  *)
(* and a blocking call that reports success, were ended by the controller  *)
(* with every block in its own place, and a callback comes only for a      *)
(* command that was ended like that or with an error.  Excepted are long   *)
(* transfers through the data port, whose blocks overwrite one another.    *)
THEOREM ToldIsTrue == Spec => []ToldTheTruth
  <1>1. ListInv /\ StepInv /\ (removals = 0 => CallbackLate) => ToldTheTruth
    <2> SUFFICES ASSUME StepInv, removals = 0, CallbackLate
                 PROVE  AcceptedUnlessRemoved /\ BlockingTold /\ CallbackTold
      BY DEF ToldTheTruth, AcceptedUnlessRemoved, BlockingTold, CallbackTold
    <2>1. Settled /\ ToldLate
      BY DEF StepInv, Calm
    <2>2. \A c : outcome[c] = "done" /\ Passed(c) => Served(c)
      BY PassedInPlace DEF Served
    <2>3. AcceptedUnlessRemoved
      BY <2>1, <2>2 DEF Settled, AcceptedUnlessRemoved, AcceptedByDevice
    <2>4. BlockingTold
      BY <2>1, <2>2 DEF ToldLate, BlockingTold
    <2>5. CallbackTold
      BY <2>2 DEF CallbackLate, CallbackTold
    <2> QED
      BY <2>3, <2>4, <2>5
  <1> QED
    BY <1>1, SpecInv, PTL
=============================================================================
