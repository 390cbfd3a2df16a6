----------------------------- MODULE MmcProofs ------------------------------
(***************************************************************************)
(* Proofs about Mmc, for any set of cards, any number of faults and of     *)
(* transfers, and any block size and width of an argument.                 *)
(***************************************************************************)
EXTENDS Mmc, TLAPS

CardStates == {"idle", "ready", "ident", "stby", "tran"}
Commands == {0, 1, 2, 3, 6, 7, 8, 9, 13, 16, 41, 55}


\* Sets of bits: of a register of 128, a word of 32 and an address of 16.
Registers == SUBSET (0..127)
Bits32 == SUBSET (0..31)
Addresses == SUBSET (0..15)

CardType ==
    [kind : {"sd", "mmc"}, v2 : BOOLEAN, ccs : BOOLEAN, csd : Registers,
     state : CardStates, app : BOOLEAN, busy : 0..MaxBusy, cmd8 : BOOLEAN,
     rca : Addresses, wide : BOOLEAN, len : BOOLEAN]
MmcType ==
    [type : {"unknown", "sd", "mmc"}, ocr : Bits32, hc : BOOLEAN,
     rca : Addresses, csd : Registers]
CallType ==
    [t : Transfers \cup {0}, at : {"none", "data", "token", "send", "exit"},
     ret : {0, -1}, cb : BOOLEAN]
Kinds == {"cmd", "data", "token"}
-----------------------------------------------------------------------------
(* The inductive invariant.                                                *)

Types ==
    /\ pc \in Steps /\ mmc \in MmcType /\ resp \in Registers
    /\ hcs \in BOOLEAN /\ card \in CardType
    /\ faults \in 0..MaxFaults /\ failed \subseteq Steps

Lost(steps) == failed \cap steps # {}

\* The driver has the class and the readiness of the card right.
Classified ==
    /\ card.kind = "sd" /\ mmc.type = "sd"
    /\ mmc.hc = card.ccs /\ mmc.ocr = Ocr(TRUE)

\* Until the polling ends the response does not say ready, unless it comes
\* from an MMC card, which then stays idle and ends mmc_init.
Polling ==
    /\ card.app => card.kind = "sd"
    /\ pc \in {"reset", "go_idle", "cmd8", "probe"} => resp = {}
    /\ pc = "op_cond" => ~Ready(resp) /\ mmc.type \in {"sd", "mmc"}
    /\ pc \in {"app", "poll"} =>
          \/ mmc.type = "sd" /\ ~Ready(resp)
          \/ mmc.type = "mmc" /\ card.state = "idle" /\ ~card.app
    /\ pc = "cid" => (Classified /\ card.state = "ready") \/ card.state = "idle"
    /\ pc = "rca" => card.state = "ident"
    /\ pc \in {"rca", "csd", "status", "select", "width_app", "width",
               "block_len", "operational", "up"} => Classified

\* Until the card is asked for its operating conditions, and unless a command
\* was lost, it is idle and the driver knows its kind.
Probing ==
    /\ pc \in {"cmd8", "probe"} /\ ~Lost({"go_idle"}) =>
          card.state = "idle" /\ card.rca = NoRca
    /\ pc = "op_cond" /\ ~Lost({"go_idle", "probe"}) =>
          /\ card.state = "idle"
          /\ mmc.type = "sd" => card.app
          /\ mmc.type = "mmc" => card.kind = "mmc"
    /\ pc = "asserted" => Lost({"go_idle", "probe", "op_cond"})

\* Afterwards, unless a command was lost, the card follows the driver.
Published == mmc.rca = CardRca /\ card.rca = CardRca
Following ==
    /\ pc \in {"csd", "status", "select"} /\ ~Lost({"rca"}) =>
          card.state = "stby" /\ Published
    /\ pc \in {"width_app", "width", "block_len", "operational", "up"}
       /\ ~Lost({"rca", "select"}) => card.state = "tran" /\ Published
    /\ pc = "width" /\ ~Lost({"rca", "select", "width_app"}) => card.app
    /\ pc \in {"block_len", "operational", "up"}
       /\ ~Lost({"rca", "select", "width_app", "width"}) => card.wide
    /\ pc \in {"operational", "up"} /\ ~mmc.hc
       /\ ~Lost({"rca", "select", "block_len"}) => card.len

\* What the driver has read of the CSD is all but its checksum byte.
CsdRead ==
    pc \in {"status", "select", "width_app", "width", "block_len",
            "operational", "up"} /\ ~Lost({"rca", "csd"}) =>
        mmc.csd = card.csd \ 0..7

InitInv == Types /\ Polling /\ Probing /\ Following /\ CsdRead

TransferTypes ==
    /\ call \in CallType
    /\ args \in [Transfers -> [start : Starts \cup {0}, arg : 0..(ArgSpan - 1)]]
    /\ heap \subseteq Transfers \X Kinds
    /\ queued \subseteq Transfers /\ badFree \in BOOLEAN

\* The transfer that transfer_data has begun and the host does not have.
Begun == call.at # "none" /\ ~(call.at = "exit" /\ Kept)

\* What is allocated: all blocks of a queued transfer, none of any other,
\* except those that the call in progress has come to.
Allocated ==
    /\ call.at # "none" => pc = "up" /\ call.t \in Transfers
    /\ Begun => call.t \notin queued /\ <<call.t, "cmd">> \in heap
    /\ Begun /\ call.at \in {"token", "send"} => <<call.t, "data">> \in heap
    /\ call.at = "token" => call.cb
    /\ call.at = "send" /\ call.cb => <<call.t, "token">> \in heap
    /\ call.at = "exit" /\ Kept => call.t \in queued
    /\ \A t \in Transfers, k \in Kinds :
          ~(Begun /\ t = call.t) => (<<t, k>> \in heap <=> t \in queued)
    /\ ~badFree

\* The argument of a transfer the host has, or will be given.
Argued ==
    /\ queued # {} => pc = "up"
    /\ \A t \in Transfers :
          t \in queued \/ (Begun /\ t = call.t) =>
             args[t].arg = TransferArg(args[t].start)

TransferInv == TransferTypes /\ Allocated /\ Argued
-----------------------------------------------------------------------------
(* The card: what a command it answers does to it.                         *)

LEMMA AnswersBoolean ==
    ASSUME card \in CardType, NEW c \in Commands, NEW arg
    PROVE  Answers(c, arg) \in BOOLEAN
  BY DEF CardType, Answers, Commands, Addressed

LEMMA TakesFields ==
    ASSUME card \in CardType, NEW c \in Commands, NEW arg
    PROVE  LET ok == Answers(c, arg)
               d == Takes(c, arg)
           IN  /\ d.kind = card.kind /\ d.v2 = card.v2
               /\ d.ccs = card.ccs /\ d.csd = card.csd
               /\ d.state = (IF ok THEN Goes(c, arg) ELSE card.state)
               /\ d.app = (ok /\ c = 55)
               /\ d.busy = (IF ok /\ c = 41 /\ arg # Inquiry /\ card.busy > 0
                            THEN card.busy - 1 ELSE card.busy)
               /\ d.cmd8 = (c # 0 /\ (card.cmd8 \/ (ok /\ c = 8)))
               /\ d.rca = (IF c = 0 THEN NoRca
                           ELSE IF ok /\ c = 3 THEN CardRca ELSE card.rca)
               /\ d.wide = (c # 0 /\ (card.wide \/ (ok /\ c = 6 /\ card.app)))
               /\ d.len = (IF ok /\ c = 16 THEN arg = BlockLen
                           ELSE card.len /\ c # 0)
  BY DEF Takes, CardType

LEMMA GoesType ==
    ASSUME card \in CardType, NEW c \in Commands, NEW arg
    PROVE  Goes(c, arg) \in CardStates
  BY DEF Goes, CardType, CardStates

LEMMA TakesType ==
    ASSUME card \in CardType, NEW c \in Commands, NEW arg
    PROVE  Takes(c, arg) \in CardType
  <1>1. PICK g : g = Goes(c, arg) /\ g \in CardStates
    BY GoesType
  <1>2. PICK state \in CardStates : state = IF Answers(c, arg) THEN g ELSE card.state
    BY <1>1 DEF CardType
  <1>3. PICK app \in BOOLEAN : app = (Answers(c, arg) /\ c = 55)
    BY AnswersBoolean
  <1>4. PICK busy \in 0..MaxBusy :
           busy = IF Answers(c, arg) /\ c = 41 /\ arg # Inquiry /\ card.busy > 0
                  THEN card.busy - 1 ELSE card.busy
    BY MmcBounds DEF CardType
  <1>5. PICK cmd8 \in BOOLEAN :
           cmd8 = (c # 0 /\ (card.cmd8 \/ (Answers(c, arg) /\ c = 8)))
    BY AnswersBoolean DEF CardType
  <1> NoRca \in Addresses /\ CardRca \in Addresses /\ card.rca \in Addresses
    BY DEF CardType, NoRca, CardRca, Addresses
  <1>6. PICK rca \in Addresses :
           rca = IF c = 0 THEN NoRca
                 ELSE IF Answers(c, arg) /\ c = 3 THEN CardRca ELSE card.rca
    OBVIOUS
  <1>7. PICK wide \in BOOLEAN :
           wide = (c # 0 /\ (card.wide \/ (Answers(c, arg) /\ c = 6 /\ card.app)))
    BY AnswersBoolean DEF CardType
  <1>8. PICK len \in BOOLEAN :
           len = IF Answers(c, arg) /\ c = 16 THEN arg = BlockLen
                 ELSE card.len /\ c # 0
    BY AnswersBoolean DEF CardType
  <1>9. Takes(c, arg) = [card EXCEPT !.state = state, !.app = app, !.busy = busy,
                                     !.cmd8 = cmd8, !.rca = rca, !.wide = wide,
                                     !.len = len]
    BY <1>1, <1>2, <1>3, <1>4, <1>5, <1>6, <1>7, <1>8, Zenon DEF Takes
  <1> QED
    BY <1>9 DEF CardType

LEMMA TakesFlags ==
    ASSUME card \in CardType, NEW c \in Commands, NEW arg
    PROVE  LET ok == Answers(c, arg)
               d == Takes(c, arg)
           IN  /\ d.app <=> ok /\ c = 55
               /\ d.wide <=> c # 0 /\ (card.wide \/ (ok /\ c = 6 /\ card.app))
               /\ ok /\ c = 16 => (d.len <=> arg = BlockLen)
               /\ ok /\ c # 16 /\ c # 0 => (d.len <=> card.len)
  <1>1. Answers(c, arg) \in BOOLEAN
    BY AnswersBoolean
  <1>2. LET ok == Answers(c, arg)
            d == Takes(c, arg)
        IN  /\ d.app = (ok /\ c = 55)
            /\ d.wide = (c # 0 /\ (card.wide \/ (ok /\ c = 6 /\ card.app)))
            /\ d.len = (IF ok /\ c = 16 THEN arg = BlockLen
                        ELSE card.len /\ c # 0)
    BY TakesFields
  <1> QED
    BY <1>1, <1>2 DEF CardType

LEMMA AppIsSd ==
    ASSUME card \in CardType, NEW c \in Commands, NEW arg, Takes(c, arg).app
    PROVE  card.kind = "sd"
  <1>1. Answers(c, arg) /\ c = 55
    BY TakesFields
  <1> QED
    BY <1>1 DEF Answers

(* host_send_command: the card has not got the command, or has; and a      *)
(* command that succeeds, or that no fault hit, has reached it.            *)
LEMMA SendCard ==
    ASSUME Types, card.app => card.kind = "sd",
           NEW c \in Commands, NEW arg, NEW ret, Send(c, arg, ret)
    PROVE  /\ card' \in CardType
           /\ card' \in {card, Takes(c, arg)}
           /\ card'.kind = card.kind /\ card'.v2 = card.v2
           /\ card'.ccs = card.ccs /\ card'.csd = card.csd
           /\ card'.app => card'.kind = "sd"
           /\ faults' \in 0..MaxFaults
           /\ failed \subseteq failed' /\ failed' \subseteq failed \cup {pc}
           /\ failed' \subseteq Steps
           /\ pc \notin failed' \/ ret = 0 =>
                 card' = Takes(c, arg) /\ ret = IF Answers(c, arg) THEN 0 ELSE -1
  <1>1. card \in CardType /\ faults \in 0..MaxFaults /\ pc \in Steps
        /\ failed \subseteq Steps
    BY DEF Types
  <1>2. card' \in {card, Takes(c, arg)}
    BY DEF Send
  <1>3. Takes(c, arg) \in CardType
    BY <1>1, TakesType
  <1>4. /\ Takes(c, arg).kind = card.kind /\ Takes(c, arg).v2 = card.v2
        /\ Takes(c, arg).ccs = card.ccs /\ Takes(c, arg).csd = card.csd
    BY <1>1, TakesFields
  <1>5. Takes(c, arg).app => card.kind = "sd"
    BY <1>1, AppIsSd
  <1>6. faults' \in 0..MaxFaults
    BY <1>1, MmcBounds DEF Send
  <1>7. /\ failed \subseteq failed' /\ failed' \subseteq failed \cup {pc}
        /\ pc \notin failed' \/ ret = 0 =>
              card' = Takes(c, arg) /\ ret = IF Answers(c, arg) THEN 0 ELSE -1
    BY DEF Send
  <1> QED
    BY <1>1, <1>2, <1>3, <1>4, <1>5, <1>6, <1>7
-----------------------------------------------------------------------------
(* Words and shifts.                                                       *)

LEMMA WordType ==
    ASSUME NEW r, NEW i \in Nat
    PROVE  Word(r, i) \in Bits32
  BY DEF Word, Bits32

LEMMA ShrType ==
    ASSUME NEW w \in Bits32
    PROVE  Shr(w, 16) \in Addresses
  BY DEF Shr, Bits32, Addresses

LEMMA ShlType ==
    ASSUME NEW w \in Bits32, NEW k \in 0..31
    PROVE  Shl(w, k) \in Bits32
  BY DEF Shl, Bits32

LEMMA RcaShifts ==
    /\ Shl(CardRca, 16) = {16, 19}
    /\ Shr({16, 19}, 16) = CardRca
    /\ Shr({}, 16) = NoRca
  <1>1. Shl(CardRca, 16) = {16, 19}
    BY DEF Shl, CardRca
  <1>2. Shr({16, 19}, 16) = CardRca
    BY DEF Shr, CardRca
  <1>3. Shr({}, 16) = NoRca
    BY DEF Shr, NoRca
  <1> QED
    BY <1>1, <1>2, <1>3

LEMMA ShlBits ==
    ASSUME NEW w \in Bits32, NEW k \in 0..31, NEW x
    PROVE  x \in Shl(w, k) <=> x \in k..31 /\ x - k \in w
  <1>1. ASSUME x \in Shl(w, k) PROVE x \in k..31 /\ x - k \in w
    BY <1>1 DEF Shl, Bits32
  <1>2. ASSUME x \in k..31, x - k \in w PROVE x \in Shl(w, k)
    <2>1. x = (x - k) + k /\ x - k \in {c \in w : c + k < 32}
      BY <1>2
    <2> QED
      BY <2>1 DEF Shl
  <1> QED
    BY <1>1, <1>2

LEMMA ShrBits ==
    ASSUME NEW w \in Bits32, NEW k \in 0..31, NEW x
    PROVE  x \in Shr(w, k) <=> x \in 0..(31 - k) /\ x + k \in w
  <1>1. ASSUME x \in Shr(w, k) PROVE x \in 0..(31 - k) /\ x + k \in w
    BY <1>1 DEF Shr, Bits32
  <1>2. ASSUME x \in 0..(31 - k), x + k \in w PROVE x \in Shr(w, k)
    <2>1. x = (x + k) - k /\ x + k \in {c \in w : c >= k}
      BY <1>2
    <2> QED
      BY <2>1 DEF Shr
  <1> QED
    BY <1>1, <1>2

LEMMA WordBits ==
    ASSUME NEW r, NEW i \in Nat, NEW x
    PROVE  x \in Word(r, i) <=> x \in 0..31 /\ 32 * i + x \in r
  BY DEF Word

\* The lowest word of a response that a short answer has been written to.
LEMMA WordOfShort ==
    ASSUME NEW r, NEW w \in Bits32
    PROVE  Word((r \ 0..31) \cup w, 0) = w
  <1>1. ASSUME NEW x PROVE x \in Word((r \ 0..31) \cup w, 0) <=> x \in w
    <2>1. x \in Word((r \ 0..31) \cup w, 0)
            <=> x \in 0..31 /\ 32 * 0 + x \in (r \ 0..31) \cup w
      BY WordBits
    <2>2. x \in 0..31 => 32 * 0 + x = x
      OBVIOUS
    <2>3. x \in w => x \in 0..31
      BY DEF Bits32
    <2> QED
      BY <2>1, <2>2, <2>3
  <1> QED
    BY <1>1

LEMMA ShiftResponseBits ==
    ASSUME NEW r \in Registers
    PROVE  ShiftResponse(r) = {b \in 8..127 : b - 8 \in r}
  <1> SUFFICES ASSUME NEW b
               PROVE  b \in ShiftResponse(r) <=> b \in 8..127 /\ b - 8 \in r
    OBVIOUS
  <1> DEFINE f == [i \in 0..3 |-> Shl(Word(r, i), 8)
                      \cup (IF i = 0 THEN {} ELSE Shr(Word(r, i - 1), 24))]
  <1>1. ASSUME NEW i \in 0..3, NEW x
        PROVE  x \in f[i] <=> /\ x \in 0..31
                              /\ 32 * i + x >= 8 /\ 32 * i + x - 8 \in r
    <2>1. x \in Shl(Word(r, i), 8) <=> x \in 8..31 /\ 32 * i + (x - 8) \in r
      BY WordType, WordBits, ShlBits
    <2>2. CASE i = 0
      BY <2>1, <2>2
    <2>3. CASE i # 0
      <3>1. x \in Shr(Word(r, i - 1), 24)
              <=> x \in 0..7 /\ 32 * (i - 1) + (x + 24) \in r
        <4>1. i - 1 \in Nat
          BY <2>3
        <4>2. Word(r, i - 1) \in Bits32
          BY <4>1, WordType
        <4>3. x \in Shr(Word(r, i - 1), 24)
                <=> x \in 0..7 /\ x + 24 \in Word(r, i - 1)
          BY <4>2, ShrBits
        <4> QED
          BY <4>1, <4>3, WordBits
      <3>2. x \in 0..31 => 32 * (i - 1) + (x + 24) = 32 * i + x - 8
                          /\ 32 * i + (x - 8) = 32 * i + x - 8
        OBVIOUS
      <3> QED
        BY <2>1, <2>3, <3>1, <3>2
    <2> QED
      BY <2>2, <2>3
  <1>2. b \in ShiftResponse(r) <=> \E i \in 0..3 : \E x \in f[i] : b = 32 * i + x
    BY DEF ShiftResponse, Words
  <1> HIDE DEF f
  <1>3. (\E i \in 0..3 : \E x \in f[i] : b = 32 * i + x)
          <=> (\E i \in 0..3 : \E x \in 0..31 :
                 b = 32 * i + x /\ b >= 8 /\ b - 8 \in r)
    <2>1. ASSUME NEW i \in 0..3, NEW x \in f[i], b = 32 * i + x
          PROVE  x \in 0..31 /\ b >= 8 /\ b - 8 \in r
      BY <1>1, <2>1
    <2>2. ASSUME NEW i \in 0..3, NEW x \in 0..31,
                 b = 32 * i + x, b >= 8, b - 8 \in r
          PROVE  x \in f[i]
      BY <1>1, <2>2
    <2> QED
      BY <2>1, <2>2
  <1>4. ASSUME b \in 8..127
        PROVE  \E i \in 0..3 : \E x \in 0..31 : b = 32 * i + x
    <2>1. /\ b \div 32 \in 0..3 /\ b % 32 \in 0..31
          /\ b = 32 * (b \div 32) + (b % 32)
      BY <1>4
    <2> QED
      BY <2>1
  <1> QED
    BY <1>2, <1>3, <1>4

LEMMA ShiftResponseType ==
    ASSUME NEW r \in Registers
    PROVE  ShiftResponse(r) \in Registers
  BY ShiftResponseBits DEF Registers

(* The shift undoes the controller's: what it has dropped is gone, the     *)
(* rest is back in its place.                                              *)
LEMMA ShiftedBack ==
    ASSUME NEW csd \in Registers
    PROVE  /\ {b - 8 : b \in csd \ 0..7} \in Registers
           /\ ShiftResponse({b - 8 : b \in csd \ 0..7}) = csd \ 0..7
  <1> DEFINE r == {b - 8 : b \in csd \ 0..7}
  <1>1. r \in Registers
    BY DEF Registers
  <1>2. \A b \in 8..127 : b - 8 \in r <=> b \in csd
    BY DEF Registers
  <1>3. ShiftResponse(r) = {b \in 8..127 : b - 8 \in r}
    BY <1>1, ShiftResponseBits
  <1> HIDE DEF r
  <1>4. ASSUME NEW x
        PROVE  x \in {b \in 8..127 : b - 8 \in r} <=> x \in csd \ 0..7
    <2>1. CASE x \in 8..127
      BY <1>2, <2>1
    <2>2. CASE x \notin 8..127
      <3>1. x \in csd => x \in 0..127
        BY DEF Registers
      <3> QED
        BY <2>2, <3>1
    <2> QED
      BY <2>1, <2>2
  <1> USE DEF r
  <1> QED
    BY <1>1, <1>3, <1>4

LEMMA SliceBitsBits ==
    ASSUME NEW r \in Registers, NEW start \in Nat, NEW size \in 1..32, NEW y
    PROVE  y \in SliceBits(r, start, size)
             <=> y \in 0..(size - 1) /\ start + y \in r
  <1> DEFINE i == start \div 32  l == start % 32  h == (start + size) % 32
  <1>1. PICK idx, low, high : idx = i /\ low = l /\ high = h
    OBVIOUS
  <1>2. idx \in Nat /\ low \in 0..31 /\ start = 32 * idx + low
    BY <1>1
  <1>3. /\ low + size < 32 => high = low + size
        /\ low + size = 32 => high = 0
        /\ low + size > 32 => high = low + size - 32
    <2>1. high = (32 * idx + (low + size)) % 32
      BY <1>1, <1>2
    <2>2. (32 * idx + (low + size)) % 32 = (low + size) % 32
      BY <1>2
    <2>3. PICK n \in 1..63 : n = low + size
      BY <1>2
    <2>4. /\ n < 32 => n % 32 = n
          /\ n = 32 => n % 32 = 0
          /\ n > 32 => n % 32 = n - 32
      OBVIOUS
    <2>5. high = n % 32
      BY ONLY <2>1, <2>2, <2>3
    <2> HIDE DEF i, l, h
    <2> QED
      BY <1>2, <2>3, <2>4, <2>5
  <1>4. SliceBits(r, start, size) =
          CASE high = 0 -> Shr(Word(r, idx), low)
            [] high > low -> Shr(Word(r, idx) \cap 0..(high - 1), low)
            [] OTHER -> Shr(Word(r, idx), low)
                          \cup Shl(Word(r, idx + 1) \cap 0..(high - 1), 32 - low)
    BY <1>1, Zenon DEF SliceBits
  <1> HIDE DEF i, l, h
  <1>5. y \in Shr(Word(r, idx), low)
          <=> y \in 0..(31 - low) /\ 32 * idx + (y + low) \in r
    <2>1. Word(r, idx) \in Bits32
      BY <1>2, WordType
    <2>2. y \in 0..(31 - low) => y + low \in 0..31
      BY <1>2
    <2>3. y \in Shr(Word(r, idx), low)
            <=> y \in 0..(31 - low) /\ y + low \in Word(r, idx)
      BY <1>2, <2>1, ShrBits
    <2> QED
      BY <1>2, <2>2, <2>3, WordBits
  <1>6. y \in 0..31 => 32 * idx + (y + low) = start + y
    BY <1>2
  <1>7. CASE low + size < 32
    <2>1. high = low + size /\ high # 0 /\ high > low
      BY <1>2, <1>3, <1>7
    <2>2. SliceBits(r, start, size) = Shr(Word(r, idx) \cap 0..(high - 1), low)
      BY <1>4, <2>1
    <2>3. Word(r, idx) \cap 0..(high - 1) \in Bits32
      BY <1>2, WordType DEF Bits32
    <2>4. y \in SliceBits(r, start, size)
            <=> /\ y \in 0..(31 - low)
                /\ y + low \in Word(r, idx) \cap 0..(high - 1)
      BY <1>2, <2>2, <2>3, ShrBits
    <2>5. y \in 0..(31 - low) =>
             (y + low \in Word(r, idx) <=> 32 * idx + (y + low) \in r)
      BY <1>2, WordBits
    <2>6. y \in 0..(31 - low) => (y + low \in 0..(high - 1) <=> y \in 0..(size - 1))
      BY <1>2, <2>1
    <2>7. y \in 0..(size - 1) => y \in 0..(31 - low)
      BY <1>2, <1>7
    <2>8. y \in 0..(31 - low) => y \in 0..31
      BY <1>2
    <2> QED
      BY <1>6, <2>4, <2>5, <2>6, <2>7, <2>8
  <1>8. CASE low + size = 32
    <2>1. high = 0 /\ ~(high > low) /\ 31 - low = size - 1
      BY <1>2, <1>3, <1>8
    <2>2. SliceBits(r, start, size) = Shr(Word(r, idx), low)
      BY <1>4, <2>1
    <2>3. y \in 0..(31 - low) => y \in 0..31
      BY <1>2
    <2> QED
      BY <1>5, <1>6, <2>1, <2>2, <2>3
  <1>9. CASE low + size > 32
    <2>1. /\ high = low + size - 32 /\ high # 0 /\ ~(high > low)
          /\ low \in 1..31 /\ 32 - low \in 0..31 /\ idx + 1 \in Nat
      BY <1>2, <1>3, <1>9
    <2>2. SliceBits(r, start, size) =
            Shr(Word(r, idx), low)
              \cup Shl(Word(r, idx + 1) \cap 0..(high - 1), 32 - low)
      BY <1>4, <2>1
    <2>3. Word(r, idx + 1) \cap 0..(high - 1) \in Bits32
      BY <2>1, WordType DEF Bits32
    <2>4. y \in Shl(Word(r, idx + 1) \cap 0..(high - 1), 32 - low)
            <=> /\ y \in (32 - low)..31
                /\ y - (32 - low) \in Word(r, idx + 1) \cap 0..(high - 1)
      BY <2>1, <2>3, ShlBits
    <2>5. y \in (32 - low)..31 =>
            (y - (32 - low) \in Word(r, idx + 1)
               <=> 32 * (idx + 1) + (y - (32 - low)) \in r)
      BY <2>1, WordBits
    <2>6. y \in (32 - low)..31 =>
            /\ y - (32 - low) \in 0..(high - 1) <=> y \in 0..(size - 1)
            /\ 32 * (idx + 1) + (y - (32 - low)) = start + y
      BY <1>2, <2>1
    <2>7. y \in 0..(size - 1) <=>
            y \in 0..(31 - low) \/ (y \in (32 - low)..31 /\ y \in 0..(size - 1))
      BY <1>2, <1>9
    <2>8. y \in 0..(31 - low) => y \in 0..31
      BY <1>2
    <2> QED
      BY <1>5, <1>6, <2>2, <2>4, <2>5, <2>6, <2>7, <2>8
  <1> QED
    BY <1>2, <1>7, <1>8, <1>9

LEMMA AnswerType ==
    ASSUME card \in CardType, NEW c \in Commands, NEW arg
    PROVE  Answer(c, arg) \in Registers
  <1>1. \A ready \in BOOLEAN : Ocr(ready) \in Registers
    BY DEF Ocr, Registers, Voltages, HcsBit
  <1>2. Ocr(Powered(arg)) \in Registers /\ Ocr(card.busy = 0) \in Registers
    BY DEF Ocr, Registers, Voltages, HcsBit
  <1>3. {b - 8 : b \in CardCid \ 0..7} \in Registers
    BY DEF Registers, CardCid
  <1>4. {b - 8 : b \in card.csd \ 0..7} \in Registers
    BY ShiftedBack DEF CardType
  <1>5. Shl(CardRca, 16) \in Registers
    BY RcaShifts DEF Registers
  <1>6. {8} \in Registers
    BY DEF Registers
  <1> QED
    BY <1>2, <1>3, <1>4, <1>5, <1>6 DEF Answer

LEMMA ShortType ==
    ASSUME card \in CardType, resp \in Registers,
           NEW c \in Commands, NEW arg, NEW ret
    PROVE  Short(c, arg, ret) \in Registers
  <1>1. Answer(c, arg) \in Registers
    BY AnswerType
  <1> QED
    BY <1>1 DEF Short, Registers

LEMMA LongType ==
    ASSUME card \in CardType, resp \in Registers,
           NEW c \in Commands, NEW arg, NEW ret
    PROVE  Long(c, arg, ret) \in Registers
  BY AnswerType, ShiftResponseType DEF Long
-----------------------------------------------------------------------------
(* mmc_init, step by step.                                                 *)

\* What every step of mmc_init that sends a command says of the card.
LEMMA SendKeeps ==
    ASSUME InitInv, NEW c \in Commands, NEW arg, NEW ret, Send(c, arg, ret)
    PROVE  /\ card \in CardType /\ card' \in CardType
           /\ card'.kind = card.kind /\ card'.ccs = card.ccs
           /\ card'.csd = card.csd
           /\ card'.app => card'.kind = "sd"
           /\ faults' \in 0..MaxFaults /\ failed' \subseteq Steps
           /\ \A steps : Lost(steps) => Lost(steps)'
           /\ \A steps : pc \in steps /\ ~Lost(steps)' => pc \notin failed'
           /\ card' \in {card, Takes(c, arg)}
           /\ pc \notin failed' \/ ret = 0 =>
                 card' = Takes(c, arg) /\ ret = IF Answers(c, arg) THEN 0 ELSE -1
  <1>1. card \in CardType /\ (card.app => card.kind = "sd") /\ Types
    BY DEF InitInv, Types, Polling
  <1>2. /\ card' \in CardType
        /\ card'.kind = card.kind /\ card'.ccs = card.ccs
        /\ card'.csd = card.csd
        /\ card'.app => card'.kind = "sd"
        /\ faults' \in 0..MaxFaults /\ failed' \subseteq Steps
        /\ failed \subseteq failed'
        /\ card' \in {card, Takes(c, arg)}
        /\ pc \notin failed' \/ ret = 0 =>
              card' = Takes(c, arg) /\ ret = IF Answers(c, arg) THEN 0 ELSE -1
    BY <1>1, SendCard
  <1>3. /\ \A steps : Lost(steps) => Lost(steps)'
        /\ \A steps : pc \in steps /\ ~Lost(steps)' => pc \notin failed'
    BY <1>2 DEF Lost
  <1> QED
    BY <1>1, <1>2, <1>3

\* The class stays right as long as the driver keeps it.
LEMMA ClassKept ==
    ASSUME Classified, card'.kind = card.kind, card'.ccs = card.ccs,
           mmc'.type = mmc.type, mmc'.hc = mmc.hc, mmc'.ocr = mmc.ocr
    PROVE  Classified'
  BY DEF Classified, Ocr

LEMMA HostResetKeeps ==
    ASSUME InitInv, HostReset
    PROVE  InitInv'
  BY DEF InitInv, HostReset, Types, Polling, Probing, Following, CsdRead, Steps

LEMMA OperationalKeeps ==
    ASSUME InitInv, Operational
    PROVE  InitInv'
  <1>1. Classified'
    BY ClassKept DEF InitInv, Operational, Polling
  <1> QED
    BY <1>1 DEF InitInv, Operational, Types, Polling, Probing, Following, CsdRead,
                Steps, Lost, Published

LEMMA GoIdleKeeps ==
    ASSUME InitInv, GoIdle
    PROVE  InitInv'
  <1>1. PICK ret \in {0, -1} : Send(0, {}, ret)
    BY DEF GoIdle, ResetCard
  <1>2. 0 \in Commands /\ pc = "go_idle" /\ pc' = "cmd8"
        /\ UNCHANGED <<mmc, resp, hcs>>
    BY DEF Commands, GoIdle, ResetCard
  <1>3. Types' /\ Polling'
    BY <1>1, <1>2, SendKeeps DEF InitInv, Types, Polling, Steps
  <1>4. Takes(0, {}).state = "idle" /\ Takes(0, {}).rca = NoRca
    <2>1. Answers(0, {}) /\ Goes(0, {}) = "idle"
      BY DEF Answers, Goes
    <2> QED
      BY <1>2, <2>1, TakesFields DEF InitInv, Types
  <1>5. Probing'
    BY <1>1, <1>2, <1>4, SendKeeps DEF Probing
  <1> QED
    BY <1>2, <1>3, <1>5 DEF InitInv, Following, CsdRead

LEMMA Cmd8Keeps ==
    ASSUME InitInv, Cmd8
    PROVE  InitInv'
  <1> DEFINE arg == {1, 3, 5, 7, 8}
  <1>1. PICK ret \in {0, -1} : Send(8, arg, ret)
    BY DEF Cmd8, ResetCard
  <1>2. 8 \in Commands /\ pc = "cmd8" /\ pc' = "probe"
        /\ UNCHANGED <<mmc, resp, hcs>>
    BY DEF Commands, Cmd8, ResetCard
  <1> HIDE DEF arg
  <1>3. Types' /\ Polling'
    BY <1>1, <1>2, SendKeeps DEF InitInv, Types, Polling, Steps
  <1>4. Takes(8, arg).state = card.state /\ Takes(8, arg).rca = card.rca
    <2>1. Goes(8, arg) = card.state
      BY DEF Goes
    <2> QED
      BY <1>2, <2>1, TakesFields DEF InitInv, Types
  <1>5. Probing'
    BY <1>1, <1>2, <1>4, SendKeeps DEF InitInv, Probing
  <1> QED
    BY <1>2, <1>3, <1>5 DEF InitInv, Following, CsdRead

\* A prefix is answered with a status, which does not say ready.
LEMMA PrefixNotReady ==
    ASSUME ~Ready(resp), NEW arg, NEW ret
    PROVE  ~Ready(Short(55, arg, ret))
  <1>1. Answer(55, arg) = {8}
    BY DEF Answer
  <1> QED
    BY <1>1 DEF Ready, Short

LEMMA ProbeKeeps ==
    ASSUME InitInv, Probe
    PROVE  InitInv'
  <1>1. PICK ret \in {0, -1} :
           /\ Send(55, {}, ret) /\ resp' = Short(55, {}, ret)
           /\ mmc' = [mmc EXCEPT !.type = IF ret = 0 THEN "sd" ELSE "mmc"]
    BY DEF Probe
  <1>2. 55 \in Commands /\ pc = "probe" /\ pc' = "op_cond" /\ hcs' = hcs
    BY DEF Commands, Probe
  <1>3. mmc' \in MmcType /\ mmc'.type = IF ret = 0 THEN "sd" ELSE "mmc"
    BY <1>1 DEF InitInv, Types, MmcType
  <1>4. Types'
    BY <1>1, <1>2, <1>3, SendKeeps, ShortType DEF InitInv, Types, Steps
  <1>5. ~Ready(resp')
    <2>1. ~Ready(resp)
      BY <1>2 DEF InitInv, Polling, Ready
    <2> QED
      BY <1>1, <2>1, PrefixNotReady
  <1>6. Polling'
    BY <1>1, <1>2, <1>3, <1>5, SendKeeps DEF InitInv, Polling, Ready
  <1>7. ASSUME ~Lost({"go_idle", "probe"})'
        PROVE  /\ card'.state = "idle"
               /\ mmc'.type = "sd" => card'.app
               /\ mmc'.type = "mmc" => card'.kind = "mmc"
    <2>1. ~Lost({"go_idle"})
      BY <1>1, <1>2, <1>7, SendKeeps DEF Lost
    <2>2. card.state = "idle" /\ card.rca = NoRca
      BY <1>2, <2>1 DEF InitInv, Probing
    <2>3. card' = Takes(55, {}) /\ ret = IF Answers(55, {}) THEN 0 ELSE -1
      BY <1>1, <1>2, <1>7, SendKeeps
    <2>4. Answers(55, {}) <=> card.kind = "sd"
      BY <2>2, RcaShifts DEF Answers, Addressed
    <2>5. Goes(55, {}) = card.state
      BY DEF Goes
    <2>6. card \in CardType /\ card.kind \in {"sd", "mmc"}
      BY DEF InitInv, Types, CardType
    <2>7. card'.state = card.state /\ card'.kind = card.kind
      BY <1>2, <2>3, <2>5, <2>6, TakesFields
    <2>8. card'.app <=> Answers(55, {})
      BY <1>2, <2>3, <2>6, TakesFlags
    <2> QED
      BY <1>3, <2>2, <2>3, <2>4, <2>6, <2>7, <2>8
  <1>8. Probing'
    BY <1>2, <1>7 DEF Probing
  <1> QED
    BY <1>2, <1>4, <1>6, <1>8 DEF InitInv, Following, CsdRead

LEMMA OpCondKeeps ==
    ASSUME InitInv, OpCond
    PROVE  InitInv'
  <1> DEFINE c == IF mmc.type = "sd" THEN 41 ELSE 1
  <1>1. PICK ret \in {0, -1} :
           /\ Send(c, Inquiry, ret) /\ resp' = Short(c, Inquiry, ret)
           /\ IF ret # 0
              THEN /\ mmc' = [mmc EXCEPT !.type = "unknown"]
                   /\ pc' = "asserted" /\ UNCHANGED hcs
              ELSE /\ mmc' = [mmc EXCEPT !.ocr = Word(resp', 0)]
                   /\ pc' = "app"
                   /\ hcs' \in {FALSE, mmc'.ocr \cap {17, 18} # {}}
    BY DEF OpCond
  <1>2. /\ c \in Commands /\ pc = "op_cond" /\ pc' \in {"app", "asserted"}
        /\ mmc.type \in {"sd", "mmc"}
        /\ mmc.type = "sd" => c = 41
        /\ mmc.type = "mmc" => c = 1
    BY <1>1 DEF Commands, OpCond, InitInv, Polling
  <1> HIDE DEF c
  <1>3. mmc' \in MmcType /\ (ret = 0 => mmc'.type = mmc.type)
    <2>1. mmc \in MmcType /\ Word(resp', 0) \in Bits32
      BY WordType DEF InitInv, Types
    <2>2. CASE ret = 0
      BY <1>1, <2>1, <2>2 DEF MmcType
    <2>3. CASE ret # 0
      BY <1>1, <2>1, <2>3 DEF MmcType
    <2> QED
      BY <2>2, <2>3
  <1>4. hcs' \in BOOLEAN
    BY <1>1 DEF InitInv, Types
  <1>5. Types'
    BY <1>1, <1>2, <1>3, <1>4, SendKeeps, ShortType DEF InitInv, Types, Steps
  <1>6. ASSUME ret = 0, mmc.type = "sd" PROVE ~Ready(resp')
    <2>1. Answer(c, Inquiry) = Ocr(Powered(Inquiry)) /\ ~Powered(Inquiry)
      BY <1>2, <1>6 DEF Answer, Powered
    <2> QED
      BY <1>1, <1>6, <2>1 DEF Ocr, Short, Ready, Voltages, HcsBit
  <1>7. ASSUME ret = 0, mmc.type = "mmc" PROVE card'.state = "idle" /\ ~card'.app
    <2>1. card' = Takes(c, Inquiry) /\ Answers(c, Inquiry) /\ c = 1
      BY <1>1, <1>2, <1>7, SendKeeps
    <2>2. card.state = "idle" /\ Goes(c, Inquiry) = card.state
      BY <2>1 DEF Answers, Goes
    <2>3. card \in CardType
      BY DEF InitInv, Types
    <2>4. card'.state = "idle"
      BY <1>2, <2>1, <2>2, <2>3, TakesFields
    <2>5. ~card'.app
      BY <1>2, <2>1, <2>3, TakesFlags
    <2> QED
      BY <2>4, <2>5
  <1>8. Polling'
    BY <1>1, <1>2, <1>3, <1>6, <1>7, SendKeeps DEF Polling
  <1>9. ASSUME ret # 0 PROVE Lost({"go_idle", "probe", "op_cond"})'
    <2> SUFFICES ASSUME ~Lost({"go_idle", "probe", "op_cond"})' PROVE FALSE
      OBVIOUS
    <2>1. ~Lost({"go_idle", "probe"})
      BY <1>1, <1>2, SendKeeps DEF Lost
    <2>2. ~Answers(c, Inquiry)
      BY <1>1, <1>2, <1>9, SendKeeps
    <2>3. /\ card.state = "idle"
          /\ mmc.type = "sd" => card.app
          /\ mmc.type = "mmc" => card.kind = "mmc"
      BY <1>2, <2>1 DEF InitInv, Probing
    <2> QED
      BY <1>2, <2>2, <2>3 DEF Answers
  <1>10. Probing'
    BY <1>1, <1>2, <1>9 DEF Probing
  <1> QED
    BY <1>2, <1>5, <1>8, <1>10 DEF InitInv, Following, CsdRead

LEMMA PollAppKeeps ==
    ASSUME InitInv, PollApp
    PROVE  InitInv'
  <1>1. CASE mmc.type = "sd" /\ Blind("app", 55, {}, "poll")
    <2>1. PICK ret \in {0, -1} : Send(55, {}, ret) /\ resp' = Short(55, {}, ret)
      BY <1>1 DEF Blind
    <2>2. 55 \in Commands /\ pc = "app" /\ pc' = "poll" /\ UNCHANGED <<mmc, hcs>>
      BY <1>1 DEF Blind, Commands
    <2>3. Types'
      BY <2>1, <2>2, SendKeeps, ShortType DEF InitInv, Types, Steps
    <2>4. ~Ready(resp')
      BY <1>1, <2>1, <2>2, PrefixNotReady DEF InitInv, Polling
    <2> QED
      BY <1>1, <2>1, <2>2, <2>3, <2>4, SendKeeps
      DEF InitInv, Polling, Probing, Following, CsdRead
  <1>2. CASE ~(mmc.type = "sd" /\ Blind("app", 55, {}, "poll"))
    BY <1>2 DEF PollApp, InitInv, Types, Polling, Probing, Following, CsdRead, Steps
  <1> QED
    BY <1>1, <1>2

LEMMA PollKeeps ==
    ASSUME InitInv, Poll
    PROVE  InitInv'
  <1>1. PICK ret \in {0, -1} :
           Send(41, Voltage, ret) /\ resp' = Short(41, Voltage, ret)
    BY DEF Poll
  <1>2. 41 \in Commands /\ pc = "poll" /\ hcs' = hcs /\ card \in CardType
        /\ mmc \in MmcType
    BY DEF Commands, Poll, InitInv, Types
  <1>3. /\ Ready(resp') => /\ mmc' = [mmc EXCEPT !.ocr = Word(resp', 0),
                                                !.hc = HcsBit \in resp']
                           /\ pc' = "cid"
        /\ ~Ready(resp') => pc' = "app" /\ mmc' = mmc
    BY DEF Poll
  <1>4. mmc' \in MmcType
    <2>1. Word(resp', 0) \in Bits32
      BY WordType
    <2> (HcsBit \in resp') \in BOOLEAN
      OBVIOUS
    <2>2. PICK hc \in BOOLEAN : hc = (HcsBit \in resp')
      BY Zenon
    <2>3. CASE Ready(resp')
      <3>1. mmc' = [mmc EXCEPT !.ocr = Word(resp', 0), !.hc = hc]
        BY <1>3, <2>2, <2>3
      <3> QED
        BY <1>2, <2>1, <3>1 DEF MmcType
    <2>4. CASE ~Ready(resp')
      BY <1>2, <1>3, <2>4
    <2> QED
      BY <2>3, <2>4
  <1>5. Types'
    BY <1>1, <1>2, <1>3, <1>4, SendKeeps, ShortType DEF InitInv, Types, Steps
  <1>6. CASE mmc.type = "mmc"
    <2>1. card.state = "idle" /\ ~card.app
      BY <1>2, <1>6 DEF InitInv, Polling
    <2>2. ~Answers(41, Voltage)
      BY <2>1 DEF Answers
    <2>3. Takes(41, Voltage).state = "idle"
      BY <1>2, <2>1, <2>2, TakesFields
    <2>4. ~Takes(41, Voltage).app
      BY <1>2, <2>2, TakesFlags
    <2>5. card'.state = "idle" /\ ~card'.app
      BY <1>1, <1>2, <2>1, <2>3, <2>4, SendKeeps
    <2> QED
      BY <1>1, <1>2, <1>3, <1>5, <1>6, <2>5, SendKeeps
      DEF InitInv, Polling, Probing, Following, CsdRead
  <1>7. CASE mmc.type # "mmc"
    <2>1. mmc.type = "sd" /\ ~Ready(resp)
      BY <1>2, <1>7 DEF InitInv, Polling
    <2>2. CASE ~Ready(resp')
      BY <1>1, <1>2, <1>3, <1>5, <2>1, <2>2, SendKeeps
      DEF InitInv, Polling, Probing, Following, CsdRead
    <2>3. CASE Ready(resp')
      <3>1. ret = 0
        BY <1>1, <2>1, <2>3 DEF Short
      <3>2. card' = Takes(41, Voltage) /\ Answers(41, Voltage)
        BY <1>1, <1>2, <3>1, SendKeeps
      <3>3. card.app /\ card.kind = "sd"
        BY <3>2 DEF Answers, InitInv, Polling
      <3>4. Answer(41, Voltage) = Ocr(Powered(Voltage))
        BY DEF Answer
      <3>5. resp' = (resp \ 0..31) \cup Ocr(Powered(Voltage))
        BY <1>1, <3>1, <3>4 DEF Short
      <3>6. Powered(Voltage)
        BY <2>3, <3>5 DEF Ready, Ocr, Voltages, HcsBit
      <3>7. Goes(41, Voltage) = "ready"
        BY <3>6 DEF Goes
      <3>8. card'.state = "ready"
        BY <1>2, <3>2, <3>7, TakesFields
      <3>9. resp' = (resp \ 0..31) \cup Ocr(TRUE) /\ Ocr(TRUE) \subseteq 0..31
        BY <3>5, <3>6 DEF Ocr, Voltages, HcsBit
      <3>10. Word(resp', 0) = Ocr(TRUE)
        BY <3>9, WordOfShort DEF Bits32
      <3>11. HcsBit \in resp' <=> card.ccs
        BY <3>9 DEF Ocr, Voltages, HcsBit
      <3>12. mmc'.type = "sd" /\ mmc'.ocr = Ocr(TRUE) /\ (mmc'.hc <=> card.ccs)
        BY <1>2, <1>3, <2>1, <2>3, <3>10, <3>11 DEF MmcType
      <3>13. mmc'.hc \in BOOLEAN /\ card.ccs \in BOOLEAN /\ card'.ccs = card.ccs
             /\ card'.kind = card.kind
        BY <1>1, <1>2, <1>4, SendKeeps DEF MmcType, CardType
      <3>14. Ocr(TRUE)' = Ocr(TRUE)
        BY <3>13 DEF Ocr
      <3>15. Classified'
        BY <3>3, <3>12, <3>13, <3>14 DEF Classified
      <3> QED
        BY <1>1, <1>2, <1>3, <1>5, <2>3, <3>8, <3>15, SendKeeps
        DEF InitInv, Polling, Probing, Following, CsdRead
    <2> QED
      BY <2>2, <2>3
  <1> QED
    BY <1>6, <1>7

LEMMA CidKeeps ==
    ASSUME InitInv, Cid
    PROVE  InitInv'
  <1>1. PICK ret \in {0, -1} :
          /\ Send(2, {}, ret)
          /\ resp' = IF ret = 0 THEN Long(2, {}, ret) ELSE resp
          /\ pc' = IF ret = 0 THEN "rca" ELSE "failed"
    BY DEF Cid
  <1>2. 2 \in Commands /\ pc = "cid" /\ UNCHANGED <<mmc, hcs>> /\ card \in CardType
    BY DEF Commands, Cid, InitInv, Types
  <1>3. Types'
    BY <1>1, <1>2, SendKeeps, LongType DEF InitInv, Types, Steps
  <1>4. ASSUME ret = 0 PROVE card'.state = "ident" /\ Classified'
    <2>1. card' = Takes(2, {}) /\ Answers(2, {})
      BY <1>1, <1>2, <1>4, SendKeeps
    <2>2. card.state = "ready" /\ Goes(2, {}) = "ident"
      BY <2>1 DEF Answers, Goes
    <2>3. Classified
      BY <1>2, <2>2 DEF InitInv, Polling
    <2> QED
      BY <1>1, <1>2, <2>1, <2>2, <2>3, TakesFields, SendKeeps, ClassKept
  <1> QED
    BY <1>1, <1>2, <1>3, <1>4, SendKeeps
    DEF InitInv, Polling, Probing, Following, CsdRead

LEMMA RcaKeeps ==
    ASSUME InitInv, Rca
    PROVE  InitInv'
  <1>1. PICK ret \in {0, -1} : Send(3, {}, ret) /\ resp' = Short(3, {}, ret)
    BY DEF Rca
  <1>2. 3 \in Commands /\ pc = "rca" /\ pc' = "csd" /\ hcs' = hcs
        /\ card \in CardType /\ mmc \in MmcType
        /\ mmc' = [mmc EXCEPT !.rca = Shr(Word(resp', 0), 16)]
    BY DEF Commands, Rca, InitInv, Types
  <1>3. /\ mmc' \in MmcType /\ mmc'.rca = Shr(Word(resp', 0), 16)
        /\ mmc'.type = mmc.type /\ mmc'.hc = mmc.hc /\ mmc'.ocr = mmc.ocr
    <2>1. Shr(Word(resp', 0), 16) \in Addresses
      BY WordType, ShrType
    <2> QED
      BY <1>2, <2>1 DEF MmcType
  <1>4. Types'
    BY <1>1, <1>2, <1>3, SendKeeps, ShortType DEF InitInv, Types, Steps
  <1>5. Classified /\ card.state = "ident"
    BY <1>2 DEF InitInv, Polling
  <1>6. Classified'
    BY <1>1, <1>2, <1>3, <1>5, SendKeeps, ClassKept
  <1>7. ASSUME ~Lost({"rca"})'
        PROVE  card'.state = "stby" /\ Published'
    <2>1. card' = Takes(3, {}) /\ ret = IF Answers(3, {}) THEN 0 ELSE -1
      BY <1>1, <1>2, <1>7, SendKeeps
    <2>2. Answers(3, {}) /\ Goes(3, {}) = "stby" /\ ret = 0
      BY <1>5, <2>1 DEF Answers, Goes
    <2>3. card'.state = "stby" /\ card'.rca = CardRca
      BY <1>2, <2>1, <2>2, TakesFields
    <2>4. Answer(3, {}) = {16, 19}
      BY RcaShifts DEF Answer
    <2>5. resp' = (resp \ 0..31) \cup {16, 19}
      BY <1>1, <2>2, <2>4 DEF Short
    <2> {16, 19} \in Bits32
      BY DEF Bits32
    <2>6. Word(resp', 0) = {16, 19}
      BY <2>5, WordOfShort, Zenon
    <2> QED
      BY <1>3, <2>3, <2>6, RcaShifts DEF Published
  <1> QED
    BY <1>1, <1>2, <1>4, <1>6, <1>7, SendKeeps
    DEF InitInv, Polling, Probing, Following, CsdRead

\* A card that has published its address is addressed by it.
LEMMA PublishedAddressed ==
    ASSUME Published
    PROVE  Addressed(RcaArg)
  BY RcaShifts DEF Published, Addressed, RcaArg

LEMMA CsdKeeps ==
    ASSUME InitInv, Csd
    PROVE  InitInv'
  <1>1. PICK ret \in {0, -1} : Send(9, RcaArg, ret) /\ resp' = Long(9, RcaArg, ret)
    BY DEF Csd
  <1>2. 9 \in Commands /\ pc = "csd" /\ pc' = "status" /\ hcs' = hcs
        /\ card \in CardType /\ mmc \in MmcType
        /\ mmc' = [mmc EXCEPT !.csd = resp']
    BY DEF Commands, Csd, InitInv, Types
  <1>3. /\ mmc' \in MmcType /\ mmc'.rca = mmc.rca /\ mmc'.csd = resp'
        /\ mmc'.type = mmc.type /\ mmc'.hc = mmc.hc /\ mmc'.ocr = mmc.ocr
        /\ resp' \in Registers
    <2>1. resp' \in Registers
      BY <1>1, <1>2, LongType DEF InitInv, Types
    <2> QED
      BY <1>2, <2>1 DEF MmcType
  <1>4. Types'
    BY <1>1, <1>2, <1>3, SendKeeps DEF InitInv, Types, Steps
  <1>5. Classified'
    BY <1>1, <1>2, <1>3, SendKeeps, ClassKept DEF InitInv, Polling
  <1>6. ASSUME ~Lost({"rca"})'
        PROVE  card.state = "stby" /\ Published
    BY <1>1, <1>2, <1>6, SendKeeps DEF InitInv, Following
  <1>7. ASSUME ~Lost({"rca"})'
        PROVE  card'.state = "stby" /\ Published'
    <2>1. Takes(9, RcaArg).rca = card.rca
      BY <1>2, TakesFields
    <2>2. Goes(9, RcaArg) = card.state
      BY DEF Goes
    <2>3. Takes(9, RcaArg).state = card.state
      BY <1>2, <2>2, TakesFields
    <2>4. card'.state = card.state /\ card'.rca = card.rca
      BY <1>1, <1>2, <2>1, <2>3, SendKeeps
    <2> QED
      BY <1>3, <1>6, <1>7, <2>4 DEF Published
  <1>8. ASSUME ~Lost({"rca", "csd"})'
        PROVE  mmc'.csd = card'.csd \ 0..7
    <2>1. ~Lost({"rca"})'
      BY <1>8 DEF Lost
    <2>2. Answers(9, RcaArg)
      BY <1>6, <2>1, PublishedAddressed DEF Answers
    <2>3. ret = 0 /\ card'.csd = card.csd
      BY <1>1, <1>2, <1>8, <2>2, SendKeeps
    <2>4. Answer(9, RcaArg) = {b - 8 : b \in card.csd \ 0..7}
      BY DEF Answer
    <2>5. card.csd \in Registers
      BY <1>2 DEF CardType
    <2> QED
      BY <1>1, <1>3, <2>3, <2>4, <2>5, ShiftedBack DEF Long
  <1> QED
    BY <1>1, <1>2, <1>4, <1>5, <1>7, <1>8, SendKeeps
    DEF InitInv, Polling, Probing, Following, CsdRead
\* What holds across every command sent blindly after the registers are read.
Configuring == {"status", "select", "width_app", "width", "block_len"}
LEMMA BlindKeeps ==
    ASSUME InitInv, NEW step \in Configuring, NEW c \in Commands \ {0, 2, 3, 41},
           NEW arg, NEW next \in Configuring \cup {"operational"},
           Blind(step, c, arg, next), next # "status"
    PROVE  /\ Types' /\ Polling' /\ Probing' /\ CsdRead'
           /\ pc = step /\ pc' = next /\ mmc' = mmc
           /\ card \in CardType /\ card.kind = "sd"
           /\ card'.state = card.state \/ c = 7
           /\ card'.rca = card.rca
           /\ \A steps : Lost(steps) => Lost(steps)'
           /\ \A steps : step \in steps /\ ~Lost(steps)' => card' = Takes(c, arg)
  <1>1. PICK ret \in {0, -1} : Send(c, arg, ret) /\ resp' = Short(c, arg, ret)
    BY DEF Blind
  <1>2. /\ c \in Commands /\ pc = step /\ pc' = next
        /\ UNCHANGED <<mmc, hcs>> /\ card \in CardType
    BY DEF Blind, InitInv, Types
  <1>3. Types'
    BY <1>1, <1>2, SendKeeps, ShortType DEF InitInv, Types, Steps, Configuring
  <1>4. Classified
    BY <1>2 DEF InitInv, Polling, Configuring
  <1>5. Classified'
    BY <1>1, <1>2, <1>4, SendKeeps, ClassKept
  <1>6. Polling' /\ Probing'
    BY <1>1, <1>2, <1>5, SendKeeps DEF Polling, Probing, Configuring
  <1>7. CsdRead'
    BY <1>1, <1>2, SendKeeps DEF InitInv, CsdRead, Configuring
  <1>8. c # 7 => Goes(c, arg) = card.state
    BY DEF Goes
  <1>9. (Takes(c, arg).state = card.state \/ c = 7) /\ Takes(c, arg).rca = card.rca
    BY <1>2, <1>8, TakesFields
  <1>10. (card'.state = card.state \/ c = 7) /\ card'.rca = card.rca
    BY <1>1, <1>2, <1>9, SendKeeps
  <1> QED
    BY <1>1, <1>2, <1>3, <1>4, <1>6, <1>7, <1>10, SendKeeps DEF Classified

LEMMA StatusKeeps ==
    ASSUME InitInv, Status
    PROVE  InitInv'
  <1>1. Blind("status", 13, RcaArg, "select")
    BY DEF Status
  <1>2. "status" \in Configuring /\ 13 \in Commands \ {0, 2, 3, 41}
        /\ "select" \in Configuring \cup {"operational"} /\ "select" # "status"
    BY DEF Configuring, Commands
  <1>3. /\ Types' /\ Polling' /\ Probing' /\ CsdRead'
        /\ pc = "status" /\ pc' = "select" /\ mmc' = mmc
        /\ card'.state = card.state /\ card'.rca = card.rca
        /\ \A steps : Lost(steps) => Lost(steps)'
    BY <1>1, <1>2, BlindKeeps
  <1> QED
    BY <1>3 DEF InitInv, Following, Published

LEMMA SelectKeeps ==
    ASSUME InitInv, Select
    PROVE  InitInv'
  <1>1. Blind("select", 7, RcaArg, "width_app")
    BY DEF Select
  <1>2. "select" \in Configuring /\ 7 \in Commands \ {0, 2, 3, 41} /\ 7 \in Commands
        /\ "width_app" \in Configuring \cup {"operational"} /\ "width_app" # "status"
    BY DEF Configuring, Commands
  <1>3. /\ Types' /\ Polling' /\ Probing' /\ CsdRead'
        /\ pc = "select" /\ pc' = "width_app" /\ mmc' = mmc
        /\ card'.rca = card.rca /\ card \in CardType
        /\ \A steps : Lost(steps) => Lost(steps)'
        /\ \A steps : "select" \in steps /\ ~Lost(steps)' => card' = Takes(7, RcaArg)
    BY <1>1, <1>2, BlindKeeps
  <1>4. ASSUME ~Lost({"rca", "select"})'
        PROVE  card'.state = "tran" /\ Published'
    <2>1. ~Lost({"rca"})
      BY <1>3, <1>4 DEF Lost
    <2>2. card.state = "stby" /\ Published
      BY <1>3, <2>1 DEF InitInv, Following
    <2>3. Answers(7, RcaArg) /\ Goes(7, RcaArg) = "tran"
      BY <2>2, PublishedAddressed DEF Answers, Goes
    <2>4. card'.state = "tran"
      BY <1>2, <1>3, <1>4, <2>3, TakesFields
    <2> QED
      BY <1>3, <2>2, <2>4 DEF Published
  <1> QED
    BY <1>3, <1>4 DEF InitInv, Following

LEMMA WidthAppKeeps ==
    ASSUME InitInv, WidthApp
    PROVE  InitInv'
  <1>1. Blind("width_app", 55, RcaArg, "width")
    BY DEF WidthApp
  <1>2. "width_app" \in Configuring /\ 55 \in Commands \ {0, 2, 3, 41}
        /\ 55 \in Commands
        /\ "width" \in Configuring \cup {"operational"} /\ "width" # "status"
    BY DEF Configuring, Commands
  <1>3. /\ Types' /\ Polling' /\ Probing' /\ CsdRead'
        /\ pc = "width_app" /\ pc' = "width" /\ mmc' = mmc
        /\ card'.state = card.state /\ card'.rca = card.rca
        /\ card \in CardType /\ card.kind = "sd"
        /\ \A steps : Lost(steps) => Lost(steps)'
        /\ \A steps : "width_app" \in steps /\ ~Lost(steps)' =>
                          card' = Takes(55, RcaArg)
    BY <1>1, <1>2, BlindKeeps
  <1>4. ASSUME ~Lost({"rca", "select", "width_app"})'
        PROVE  card'.app
    <2>1. ~Lost({"rca", "select"})
      BY <1>3, <1>4 DEF Lost
    <2>2. card.state = "tran" /\ Published
      BY <1>3, <2>1 DEF InitInv, Following
    <2>3. Answers(55, RcaArg)
      BY <1>3, <2>2, PublishedAddressed DEF Answers
    <2> QED
      BY <1>2, <1>3, <1>4, <2>3, TakesFlags
  <1> QED
    BY <1>3, <1>4 DEF InitInv, Following, Published

LEMMA WidthKeeps ==
    ASSUME InitInv, Width
    PROVE  InitInv'
  <1>1. PICK next : next = (IF mmc.hc THEN "operational" ELSE "block_len")
    OBVIOUS
  <1>2. Blind("width", 6, {1}, next)
    BY <1>1 DEF Width
  <1>3. "width" \in Configuring /\ 6 \in Commands \ {0, 2, 3, 41} /\ 6 \in Commands
        /\ next \in Configuring \cup {"operational"} /\ next # "status"
    BY <1>1 DEF Configuring, Commands
  <1>4. /\ Types' /\ Polling' /\ Probing' /\ CsdRead'
        /\ pc = "width" /\ pc' = next /\ mmc' = mmc
        /\ card'.state = card.state /\ card'.rca = card.rca
        /\ card \in CardType /\ card.kind = "sd"
        /\ \A steps : Lost(steps) => Lost(steps)'
        /\ \A steps : "width" \in steps /\ ~Lost(steps)' => card' = Takes(6, {1})
    BY <1>2, <1>3, BlindKeeps
  <1>5. ASSUME ~Lost({"rca", "select", "width_app", "width"})'
        PROVE  card'.wide
    <2>1. ~Lost({"rca", "select"}) /\ ~Lost({"rca", "select", "width_app"})
      BY <1>4, <1>5 DEF Lost
    <2>2. card.state = "tran" /\ card.app
      BY <1>4, <2>1 DEF InitInv, Following
    <2>3. Answers(6, {1})
      BY <1>4, <2>2 DEF Answers
    <2> QED
      BY <1>3, <1>4, <1>5, <2>2, <2>3, TakesFlags
  <1> QED
    BY <1>1, <1>4, <1>5 DEF InitInv, Following, Published

LEMMA BlockLengthKeeps ==
    ASSUME InitInv, BlockLength
    PROVE  InitInv'
  <1>1. Blind("block_len", 16, BlockLen, "operational")
    BY DEF BlockLength
  <1>2. "block_len" \in Configuring /\ 16 \in Commands \ {0, 2, 3, 41}
        /\ 16 \in Commands
        /\ "operational" \in Configuring \cup {"operational"}
        /\ "operational" # "status"
    BY DEF Configuring, Commands
  <1>3. /\ Types' /\ Polling' /\ Probing' /\ CsdRead'
        /\ pc = "block_len" /\ pc' = "operational" /\ mmc' = mmc
        /\ card'.state = card.state /\ card'.rca = card.rca
        /\ card \in CardType
        /\ \A steps : Lost(steps) => Lost(steps)'
        /\ \A steps : "block_len" \in steps /\ ~Lost(steps)' =>
                          card' = Takes(16, BlockLen)
    BY <1>1, <1>2, BlindKeeps
  <1>4. card.wide => card'.wide
    <2>1. card' \in {card, Takes(16, BlockLen)}
      BY <1>1 DEF Blind, Send
    <2>2. card.wide => Takes(16, BlockLen).wide
      BY <1>2, <1>3, TakesFlags
    <2> QED
      BY <2>1, <2>2
  <1>5. ASSUME ~Lost({"rca", "select", "block_len"})'
        PROVE  card'.len
    <2>1. ~Lost({"rca", "select"})
      BY <1>3, <1>5 DEF Lost
    <2>2. card.state = "tran"
      BY <1>3, <2>1 DEF InitInv, Following
    <2>3. Answers(16, BlockLen)
      BY <2>2 DEF Answers
    <2> QED
      BY <1>2, <1>3, <1>5, <2>3, TakesFlags
  <1> QED
    BY <1>3, <1>4, <1>5 DEF InitInv, Following, Published

LEMMA MmcInitKeeps ==
    ASSUME InitInv, MmcInit
    PROVE  InitInv'
  BY HostResetKeeps, GoIdleKeeps, Cmd8Keeps, ProbeKeeps, OpCondKeeps,
     PollAppKeeps, PollKeeps, CidKeeps, RcaKeeps, CsdKeeps, StatusKeeps,
     SelectKeeps, WidthAppKeeps, WidthKeeps, BlockLengthKeeps, OperationalKeeps
  DEF MmcInit
-----------------------------------------------------------------------------
(* The transfers.                                                          *)

\* What a transfer's operations leave alone.
LEMMA InitUnchanged ==
    ASSUME InitInv, UNCHANGED init
    PROVE  InitInv'
  BY DEF init, InitInv, Types, Polling, Probing, Following, CsdRead, Classified,
         Ocr, Lost, Ready, Published

\* No transfer begins before mmc_init has ended.
LEMMA MmcInitKeepsTransfers ==
    ASSUME TransferInv, MmcInit
    PROVE  TransferInv'
  <1>1. pc # "up" /\ UNCHANGED transfer
    BY DEF MmcInit, HostReset, GoIdle, Cmd8, ResetCard, Probe, OpCond, PollApp,
           Poll, Cid, Rca, Csd, Status, Select, WidthApp, Width, BlockLength,
           Blind, Operational, transfer
  <1>2. UNCHANGED <<call, args, heap, queued, badFree>>
    BY <1>1 DEF transfer
  <1>3. call.at = "none" /\ queued = {}
    BY <1>1 DEF TransferInv, Allocated, Argued
  <1> QED
    BY <1>2, <1>3 DEF TransferInv, TransferTypes, Allocated, Argued, Begun, Kept

LEMMA TransferArgType ==
    ASSUME NEW s \in Nat
    PROVE  TransferArg(s) \in 0..(ArgSpan - 1)
  <1>1. s * BlockSize \in Nat
    BY MmcBounds
  <1> QED
    BY <1>1, MmcBounds DEF TransferArg

\* What an argument is depends on mmc_init's state only.
LEMMA TransferArgKept ==
    ASSUME UNCHANGED init, NEW s
    PROVE  TransferArg(s)' = TransferArg(s)
  BY DEF init, TransferArg

LEMMA TransferDataKeeps ==
    ASSUME TransferInv, NEW t \in Transfers, NEW s \in Starts, NEW cb \in BOOLEAN,
           TransferData(t, s, cb)
    PROVE  TransferInv'
  <1>1. /\ pc = "up" /\ pc' = "up" /\ call.at = "none" /\ t \notin queued
        /\ queued' = queued /\ badFree' = badFree
        /\ UNCHANGED init
    BY DEF TransferData, init
  <1>2. PICK arg \in 0..(ArgSpan - 1) : arg = TransferArg(s)
    BY TransferArgType, MmcBounds
  <1>3. args' = [args EXCEPT ![t] = [start |-> s, arg |-> arg]]
    BY <1>2 DEF TransferData
  <1>4. CASE UNCHANGED <<heap, call>>
    <2>1. args' \in [Transfers -> [start : Starts \cup {0}, arg : 0..(ArgSpan - 1)]]
      BY <1>3 DEF TransferInv, TransferTypes
    <2>2. TransferTypes' /\ Allocated'
      BY <1>1, <1>4, <2>1 DEF TransferInv, TransferTypes, Allocated, Begun, Kept
    <2>3. \A u \in queued : args'[u] = args[u]
      BY <1>1, <1>3 DEF TransferInv, TransferTypes
    <2>4. Argued'
      BY <1>1, <1>4, <2>3, TransferArgKept DEF TransferInv, TransferTypes, Argued, Begun
    <2> QED
      BY <2>2, <2>4 DEF TransferInv
  <1>5. CASE /\ heap' = heap \cup {<<t, "cmd">>}
             /\ call' = [t |-> t, at |-> "data", ret |-> -1, cb |-> cb]
    <2>1. args' \in [Transfers -> [start : Starts \cup {0}, arg : 0..(ArgSpan - 1)]]
      BY <1>3 DEF TransferInv, TransferTypes
    <2>2. call' \in CallType /\ call'.t = t /\ call'.at = "data"
      BY <1>5 DEF CallType
    <2>3. TransferTypes'
      BY <1>1, <1>5, <2>1, <2>2 DEF TransferInv, TransferTypes, Kinds
    <2>4. Begun' /\ ~Begun
      BY <1>1, <2>2 DEF Begun
    <2>5. \A u \in Transfers, k \in Kinds :
             u # t => (<<u, k>> \in heap' <=> <<u, k>> \in heap)
      BY <1>5
    <2>6. Allocated'
      BY <1>1, <1>5, <2>2, <2>4, <2>5 DEF TransferInv, Allocated
    <2>7. \A u \in Transfers : u # t => args'[u] = args[u]
      BY <1>3 DEF TransferInv, TransferTypes
    <2>8. args'[t].start = s /\ args'[t].arg = arg
      BY <1>3 DEF TransferInv, TransferTypes
    <2>9. Argued'
      BY <1>1, <1>2, <2>2, <2>4, <2>7, <2>8, TransferArgKept
      DEF TransferInv, TransferTypes, Argued
    <2> QED
      BY <2>3, <2>6, <2>9 DEF TransferInv
  <1> QED
    BY <1>4, <1>5 DEF TransferData

\* An allocation of the call in progress, or its failure.
LEMMA AllocateKeeps ==
    ASSUME TransferInv, NEW step \in {"data", "token"},
           NEW next \in {"token", "send"},
           Allocate(step, step, next),
           step = "data" => next = IF call.cb THEN "token" ELSE "send",
           step = "token" => next = "send"
    PROVE  TransferInv'
  <1>1. /\ call.at = step /\ call \in CallType /\ call.t \in Transfers
        /\ pc = "up" /\ pc' = "up" /\ Begun
        /\ UNCHANGED <<args, queued, badFree>> /\ UNCHANGED init
    BY DEF Allocate, TransferInv, TransferTypes, Allocated, Begun, init
  <1>2. CASE /\ heap' = heap \cup {<<call.t, step>>}
             /\ call' = [call EXCEPT !.at = next]
    <2>1. call' \in CallType /\ call'.t = call.t /\ call'.at = next
          /\ call'.cb = call.cb
      BY <1>1, <1>2 DEF CallType
    <2>2. TransferTypes'
      BY <1>1, <1>2, <2>1 DEF TransferInv, TransferTypes, Kinds
    <2>3. Begun'
      BY <2>1 DEF Begun
    <2>4. /\ \A u \in Transfers, k \in Kinds :
               u # call.t => (<<u, k>> \in heap' <=> <<u, k>> \in heap)
          /\ heap \subseteq heap' /\ <<call.t, step>> \in heap'
      BY <1>2
    <2>5. Allocated'
      BY <1>1, <2>1, <2>3, <2>4 DEF TransferInv, Allocated
    <2>6. Argued'
      BY <1>1, <2>1, <2>3, TransferArgKept DEF TransferInv, Argued
    <2> QED
      BY <2>2, <2>5, <2>6 DEF TransferInv
  <1>3. CASE call' = [call EXCEPT !.at = "exit", !.ret = -1] /\ UNCHANGED heap
    <2>1. call' \in CallType /\ call'.t = call.t /\ call'.at = "exit"
          /\ call'.cb = call.cb /\ call'.ret = -1
      BY <1>1, <1>3 DEF CallType
    <2>2. Begun'
      BY <2>1 DEF Begun, Kept
    <2>3. TransferTypes' /\ Allocated'
      BY <1>1, <1>3, <2>1, <2>2 DEF TransferInv, TransferTypes, Allocated, Kept
    <2>4. Argued'
      BY <1>1, <2>1, <2>2, TransferArgKept DEF TransferInv, Argued
    <2> QED
      BY <2>3, <2>4 DEF TransferInv
  <1> QED
    BY <1>2, <1>3 DEF Allocate

LEMMA AddDataKeeps ==
    ASSUME TransferInv, AddData
    PROVE  TransferInv'
  <1>1. PICK next : next = (IF call.cb THEN "token" ELSE "send")
    OBVIOUS
  <1>2. next \in {"token", "send"} /\ Allocate("data", "data", next)
    BY <1>1 DEF AddData
  <1> QED
    BY <1>1, <1>2, AllocateKeeps

LEMMA NewTokenKeeps ==
    ASSUME TransferInv, NewToken
    PROVE  TransferInv'
  BY AllocateKeeps DEF NewToken

LEMMA SendTransferKeeps ==
    ASSUME TransferInv, SendTransfer
    PROVE  TransferInv'
  <1>1. /\ call.at = "send" /\ call \in CallType /\ call.t \in Transfers
        /\ pc = "up" /\ pc' = "up" /\ Begun /\ call.cb \in BOOLEAN
        /\ UNCHANGED <<args, heap, badFree>> /\ UNCHANGED init
    BY DEF SendTransfer, TransferInv, TransferTypes, Allocated, Begun, init, CallType
  <1>2. PICK ret \in {0, -1} :
           /\ call' = [call EXCEPT !.at = "exit", !.ret = ret]
           /\ call.cb => ret = 0
    BY DEF SendTransfer
  <1>3. call' \in CallType /\ call'.t = call.t /\ call'.at = "exit"
        /\ call'.cb = call.cb /\ call'.ret = ret
    BY <1>1, <1>2 DEF CallType
  <1>4. queued' = IF call.cb THEN queued \cup {call.t} ELSE queued
    BY DEF SendTransfer
  <1>5. TransferTypes'
    BY <1>1, <1>3, <1>4 DEF TransferInv, TransferTypes
  <1>6. Begun' <=> ~call.cb
    BY <1>1, <1>2, <1>3 DEF Begun, Kept
  <1>7. Kept' <=> call.cb
    BY <1>1, <1>2, <1>3 DEF Kept
  <1>8. /\ call.t \notin queued /\ <<call.t, "cmd">> \in heap
        /\ <<call.t, "data">> \in heap
        /\ call.cb => <<call.t, "token">> \in heap
    BY <1>1 DEF TransferInv, Allocated
  <1>9. Allocated'
    <2>1. CASE call.cb
      BY <1>1, <1>3, <1>4, <1>6, <1>7, <1>8, <2>1 DEF TransferInv, Allocated, Kinds
    <2>2. CASE ~call.cb
      BY <1>1, <1>3, <1>4, <1>6, <1>7, <1>8, <2>2 DEF TransferInv, Allocated
    <2> QED
      BY <2>1, <2>2
  <1>10. Argued'
    BY <1>1, <1>3, <1>4, <1>6, TransferArgKept DEF TransferInv, Argued
  <1> QED
    BY <1>5, <1>9, <1>10 DEF TransferInv

LEMMA ExitTransferDataKeeps ==
    ASSUME TransferInv, ExitTransferData
    PROVE  TransferInv'
  <1>1. /\ call.at = "exit" /\ call \in CallType /\ call.t \in Transfers
        /\ pc = "up" /\ pc' = "up"
        /\ UNCHANGED <<args, queued>> /\ UNCHANGED init
        /\ call' = [call EXCEPT !.at = "none"]
    BY DEF ExitTransferData, TransferInv, TransferTypes, Allocated, init
  <1>2. call' \in CallType /\ call'.at = "none"
    BY <1>1 DEF CallType
  <1>3. ~Begun' /\ (Begun <=> ~Kept)
    BY <1>1, <1>2 DEF Begun
  <1>4. Argued'
    BY <1>1, <1>3, TransferArgKept DEF TransferInv, Argued
  <1>5. CASE Kept
    <2>1. UNCHANGED <<heap, badFree>>
      BY <1>5 DEF ExitTransferData
    <2>2. TransferTypes' /\ Allocated'
      BY <1>1, <1>2, <1>3, <1>5, <2>1 DEF TransferInv, TransferTypes, Allocated
    <2> QED
      BY <1>4, <2>2 DEF TransferInv
  <1>6. CASE ~Kept
    <2> DEFINE kinds == {"cmd"} \cup {k \in {"data", "token"} : <<call.t, k>> \in heap}
    <2>1. /\ badFree' = (badFree \/ \E k \in kinds : <<call.t, k>> \notin heap)
          /\ heap' = heap \ {<<call.t, k>> : k \in kinds}
      BY <1>6 DEF ExitTransferData, FreeAll
    <2>2. <<call.t, "cmd">> \in heap /\ ~badFree /\ call.t \notin queued
      BY <1>3, <1>6 DEF TransferInv, Allocated
    <2>3. \A k \in kinds : <<call.t, k>> \in heap
      BY <2>2
    <2>4. ~badFree' /\ badFree' \in BOOLEAN
      <3>1. badFree' \in BOOLEAN
        BY <2>1, Zenon
      <3> QED
        BY <2>1, <2>2, <2>3, <3>1
    <2>5. heap' \subseteq heap
      BY <2>1
    <2>6. \A k \in Kinds : <<call.t, k>> \notin heap'
      BY <2>1 DEF Kinds
    <2>7. \A u \in Transfers, k \in Kinds :
             u # call.t => (<<u, k>> \in heap' <=> <<u, k>> \in heap)
      BY <2>1
    <2> HIDE DEF kinds
    <2>8. TransferTypes'
      BY <1>1, <1>2, <2>4, <2>5 DEF TransferInv, TransferTypes
    <2>9. Allocated'
      BY <1>1, <1>2, <1>3, <2>2, <2>4, <2>6, <2>7 DEF TransferInv, Allocated
    <2> QED
      BY <1>4, <2>8, <2>9 DEF TransferInv
  <1> QED
    BY <1>5, <1>6

LEMMA CompletionKeeps ==
    ASSUME TransferInv, NEW t \in Transfers, BlockopCompletionCb(t)
    PROVE  TransferInv'
  <1>1. /\ call.at = "none" /\ t \in queued /\ queued' = queued \ {t}
        /\ UNCHANGED <<call, args>> /\ UNCHANGED init /\ pc' = pc
        /\ ~Begun /\ ~Begun'
    BY DEF BlockopCompletionCb, init, Begun
  <1>2. /\ badFree' = (badFree \/ \E k \in Kinds : <<t, k>> \notin heap)
        /\ heap' = heap \ {<<t, k>> : k \in Kinds}
    BY DEF BlockopCompletionCb, FreeAll, Kinds
  <1>3. \A k \in Kinds : <<t, k>> \in heap
    BY <1>1 DEF TransferInv, Allocated
  <1>4. ~badFree' /\ badFree' \in BOOLEAN
    <2>1. badFree' \in BOOLEAN
      BY <1>2, Zenon
    <2> QED
      BY <1>2, <1>3, <2>1 DEF TransferInv, Allocated
  <1>5. heap' \subseteq heap
    BY <1>2
  <1>6. \A u \in Transfers, k \in Kinds :
           <<u, k>> \in heap' <=> u # t /\ <<u, k>> \in heap
    BY <1>2
  <1>7. TransferTypes'
    BY <1>1, <1>4, <1>5 DEF TransferInv, TransferTypes
  <1>8. Allocated'
    BY <1>1, <1>4, <1>6 DEF TransferInv, Allocated
  <1>9. Argued'
    BY <1>1, TransferArgKept DEF TransferInv, Argued
  <1> QED
    BY <1>7, <1>8, <1>9 DEF TransferInv
-----------------------------------------------------------------------------
(* The specification.                                                      *)

LEMMA InitEstablishes ==
    ASSUME Init
    PROVE  InitInv /\ TransferInv
  <1>1. PICK c \in Cards, s \in {"idle", "tran"}, busy \in 0..MaxBusy :
          card = [kind |-> c.kind, v2 |-> c.v2, ccs |-> c.ccs, csd |-> c.csd,
                  state |-> s, app |-> FALSE, busy |-> busy, cmd8 |-> FALSE,
                  rca |-> NoRca, wide |-> FALSE, len |-> FALSE]
    BY DEF Init
  <1>2. /\ c.kind \in {"sd", "mmc"} /\ c.csd \in Registers
        /\ c.v2 \in BOOLEAN /\ c.ccs \in BOOLEAN
        /\ NoRca \in Addresses /\ {} \in Registers /\ {} \in Bits32
    BY CardAssumption DEF Registers, NoRca, Addresses, Bits32
  <1>3. card \in CardType /\ ~card.app
    BY <1>1, <1>2 DEF CardType, CardStates
  <1>4. pc = "reset" /\ mmc = NoCard /\ resp = {} /\ hcs = FALSE
        /\ faults = 0 /\ failed = {}
    BY DEF Init
  <1>5. mmc \in MmcType
    BY <1>2, <1>4 DEF NoCard, MmcType
  <1>6. Types
    <2>1. faults \in 0..MaxFaults /\ pc \in Steps /\ failed \subseteq Steps
      BY <1>4, MmcBounds DEF Steps
    <2>2. hcs \in BOOLEAN /\ resp \in Registers
      BY <1>2, <1>4
    <2> QED
      BY <1>3, <1>5, <2>1, <2>2 DEF Types
  <1>7. InitInv
    BY <1>3, <1>4, <1>6 DEF InitInv, Polling, Probing, Following, CsdRead
  <1>8. /\ call = [t |-> 0, at |-> "none", ret |-> 0, cb |-> FALSE]
        /\ args = [t \in Transfers |-> [start |-> 0, arg |-> 0]]
        /\ heap = {} /\ queued = {} /\ badFree = FALSE
    BY DEF Init
  <1>9. call \in CallType /\ call.at = "none"
    BY <1>8 DEF CallType
  <1>10. args \in [Transfers -> [start : Starts \cup {0}, arg : 0..(ArgSpan - 1)]]
    BY <1>8, MmcBounds
  <1>11. TransferInv
    BY <1>8, <1>9, <1>10 DEF TransferInv, TransferTypes, Allocated, Argued, Begun
  <1> QED
    BY <1>7, <1>11

LEMMA NextKeeps ==
    ASSUME InitInv, TransferInv, [Next]_vars
    PROVE  InitInv' /\ TransferInv'
  <1>1. CASE MmcInit
    BY <1>1, MmcInitKeeps, MmcInitKeepsTransfers
  <1>2. CASE \E t \in Transfers, s \in Starts, cb \in BOOLEAN : TransferData(t, s, cb)
    <2>1. UNCHANGED init
      BY <1>2 DEF TransferData
    <2> QED
      BY <1>2, <2>1, InitUnchanged, TransferDataKeeps
  <1>3. CASE AddData
    <2>1. UNCHANGED init
      BY <1>3 DEF AddData, Allocate
    <2> QED
      BY <1>3, <2>1, InitUnchanged, AddDataKeeps
  <1>4. CASE NewToken
    <2>1. UNCHANGED init
      BY <1>4 DEF NewToken, Allocate
    <2> QED
      BY <1>4, <2>1, InitUnchanged, NewTokenKeeps
  <1>5. CASE SendTransfer
    <2>1. UNCHANGED init
      BY <1>5 DEF SendTransfer
    <2> QED
      BY <1>5, <2>1, InitUnchanged, SendTransferKeeps
  <1>6. CASE ExitTransferData
    <2>1. UNCHANGED init
      BY <1>6 DEF ExitTransferData
    <2> QED
      BY <1>6, <2>1, InitUnchanged, ExitTransferDataKeeps
  <1>7. CASE \E t \in Transfers : BlockopCompletionCb(t)
    <2>1. UNCHANGED init
      BY <1>7 DEF BlockopCompletionCb
    <2> QED
      BY <1>7, <2>1, InitUnchanged, CompletionKeeps
  <1>8. CASE UNCHANGED vars
    <2>1. UNCHANGED init /\ UNCHANGED <<call, args, heap, queued, badFree>>
      BY <1>8 DEF vars, transfer
    <2>2. TransferInv'
      BY <2>1 DEF TransferInv, TransferTypes, Allocated, Argued, Begun, Kept, init,
                  TransferArg
    <2> QED
      BY <2>1, <2>2, InitUnchanged
  <1> QED
    BY <1>1, <1>2, <1>3, <1>4, <1>5, <1>6, <1>7, <1>8 DEF Next

\* The field of a register, as the driver reads it and as it is.
LEMMA FieldRead ==
    ASSUME NEW csd \in Registers, NEW start \in 8..127, NEW size \in 1..32
    PROVE  SliceBits(csd \ 0..7, start, size)
             = {b - start : b \in csd \cap start..(start + size - 1)}
  <1>1. PICK r \in Registers : r = csd \ 0..7
    BY DEF Registers
  <1>2. ASSUME NEW y
        PROVE  y \in SliceBits(csd \ 0..7, start, size)
                 <=> y \in {b - start : b \in csd \cap start..(start + size - 1)}
    <2>1. y \in SliceBits(csd \ 0..7, start, size)
            <=> y \in 0..(size - 1) /\ start + y \in csd \ 0..7
      <3>1. start \in Nat
        OBVIOUS
      <3>2. y \in SliceBits(r, start, size)
              <=> y \in 0..(size - 1) /\ start + y \in r
        BY <3>1, SliceBitsBits
      <3> QED
        BY <1>1, <3>2
    <2>2. y \in 0..(size - 1) => start + y \notin 0..7
      OBVIOUS
    <2>3. ASSUME y \in 0..(size - 1), start + y \in csd
          PROVE  y \in {b - start : b \in csd \cap start..(start + size - 1)}
      <3>1. y = (start + y) - start /\ start + y \in csd \cap start..(start + size - 1)
        BY <2>3
      <3> QED
        BY <3>1
    <2>4. ASSUME y \in {b - start : b \in csd \cap start..(start + size - 1)}
          PROVE  y \in 0..(size - 1) /\ start + y \in csd
      BY <2>4
    <2> QED
      BY <2>1, <2>2, <2>3, <2>4
  <1> QED
    BY <1>2

LEMMA InvImpliesCsdRight ==
    ASSUME InitInv
    PROVE  CsdRight
  <1> SUFFICES ASSUME pc = "up", failed \cap {"rca", "csd"} = {}
               PROVE  CsdRight
    BY DEF CsdRight
  <1>1. mmc.csd = card.csd \ 0..7
    BY DEF InitInv, CsdRead, Lost
  <1>2. PICK csd \in Registers : csd = card.csd
    BY DEF InitInv, Types, CardType
  <1> DEFINE Field(start, size) == {b - start : b \in csd \cap start..(start + size - 1)}
  <1>3. \A start \in 8..127, size \in 1..32 :
           SliceBits(mmc.csd, start, size) = Field(start, size)
    BY <1>1, <1>2, FieldRead
  <1>4. /\ SliceBits(mmc.csd, 126, 2) = Field(126, 2)
        /\ SliceBits(mmc.csd, 80, 4) = Field(80, 4)
        /\ SliceBits(mmc.csd, 96, 8) = Field(96, 8)
        /\ SliceBits(mmc.csd, 62, 12) = Field(62, 12)
        /\ SliceBits(mmc.csd, 47, 3) = Field(47, 3)
        /\ SliceBits(mmc.csd, 48, 22) = Field(48, 22)
    <2> HIDE DEF Field
    <2> /\ {126, 80, 96, 62, 47, 48} \subseteq 8..127
        /\ {2, 4, 8, 12, 3, 22} \subseteq 1..32
      OBVIOUS
    <2>1. SliceBits(mmc.csd, 126, 2) = Field(126, 2)
      BY <1>3, Zenon
    <2>2. SliceBits(mmc.csd, 80, 4) = Field(80, 4)
      BY <1>3, Zenon
    <2>3. SliceBits(mmc.csd, 96, 8) = Field(96, 8)
      BY <1>3, Zenon
    <2>4. SliceBits(mmc.csd, 62, 12) = Field(62, 12)
      BY <1>3, Zenon
    <2>5. SliceBits(mmc.csd, 47, 3) = Field(47, 3)
      BY <1>3, Zenon
    <2>6. SliceBits(mmc.csd, 48, 22) = Field(48, 22)
      BY <1>3, Zenon
    <2> QED
      BY <2>1, <2>2, <2>3, <2>4, <2>5, <2>6
  <1> QED
    BY <1>2, <1>4, Zenon DEF CsdRight, DecodeCsd

LEMMA InvImpliesInitSound ==
    ASSUME InitInv, TransferInv
    PROVE  InitSound
  <1>1. TypeOK
    BY DEF InitInv, Types, TransferInv, TransferTypes, TypeOK, MmcType, CardType,
           CallType, CardStates, Registers, Bits32, Addresses, Kinds
  <1>2. ClassRight
    BY DEF InitInv, Polling, Classified, ClassRight
  <1>3. CardReady
    <2>1. mmc.hc \in BOOLEAN /\ card.ccs \in BOOLEAN
      BY DEF InitInv, Types, MmcType, CardType
    <2>2. pc = "up" => mmc.hc = card.ccs
      BY DEF InitInv, Polling, Classified
    <2> QED
      BY <2>1, <2>2 DEF InitInv, Following, Published, Lost, CardReady
  <1>4. AssertsOnFault
    BY DEF InitInv, Probing, Lost, AssertsOnFault
  <1> QED
    BY <1>1, <1>2, <1>3, <1>4, InvImpliesCsdRight DEF InitSound

LEMMA WholeBlocks ==
    ASSUME NEW s \in Nat, NEW b \in Nat \ {0}
    PROVE  (s * b) \div b = s
  OBVIOUS

LEMMA InvImpliesTransfersSound ==
    ASSUME InitInv, TransferInv
    PROVE  TransfersSound
  <1>1. NothingLeaks
    <2>1. ASSUME call.at = "none" PROVE heap = queued \X {"cmd", "data", "token"}
      <3>1. ~Begun
        BY <2>1 DEF Begun
      <3>2. \A t \in Transfers, k \in Kinds : <<t, k>> \in heap <=> t \in queued
        BY <3>1 DEF TransferInv, Allocated
      <3>3. heap \subseteq Transfers \X Kinds /\ queued \subseteq Transfers
        BY DEF TransferInv, TransferTypes
      <3>4. ASSUME NEW x PROVE x \in heap <=> x \in queued \X Kinds
        <4>1. CASE x \in Transfers \X Kinds
          <5>1. PICK t \in Transfers, k \in Kinds : x = <<t, k>>
            BY <4>1
          <5> QED
            BY <3>2, <5>1
        <4>2. CASE x \notin Transfers \X Kinds
          BY <3>3, <4>2
        <4> QED
          BY <4>1, <4>2
      <3> QED
        BY <3>4 DEF Kinds
    <2> QED
      BY <2>1 DEF NothingLeaks, TransferInv, Allocated
  <1>2. ASSUME NEW t \in queued,
               args[t].start * (IF card.ccs THEN 1 ELSE BlockSize) < ArgSpan
        PROVE  (IF card.ccs THEN args[t].arg ELSE args[t].arg \div BlockSize)
                 = args[t].start
    <2>1. t \in Transfers /\ args[t].arg = TransferArg(args[t].start) /\ pc = "up"
      BY DEF TransferInv, TransferTypes, Argued
    <2>2. mmc.hc = card.ccs
      BY <2>1 DEF InitInv, Polling, Classified
    <2>3. PICK s \in Nat : s = args[t].start
      BY <2>1, MmcBounds DEF TransferInv, TransferTypes
    <2>4. CASE card.ccs
      <3>1. s < ArgSpan /\ args[t].arg = s % ArgSpan
        BY <1>2, <2>1, <2>2, <2>3, <2>4 DEF TransferArg
      <3>2. s % ArgSpan = s
        BY <3>1, MmcBounds
      <3> QED
        BY <2>3, <2>4, <3>1, <3>2
    <2>5. CASE ~card.ccs
      <3>1. PICK n : n = s * BlockSize
        OBVIOUS
      <3>2. n \in Nat /\ n \div BlockSize = s
        BY <3>1, WholeBlocks, MmcBounds
      <3>3. n < ArgSpan /\ args[t].arg = n % ArgSpan
        BY <1>2, <2>1, <2>2, <2>3, <2>5, <3>1 DEF TransferArg
      <3>4. n % ArgSpan = n
        BY <3>2, <3>3, MmcBounds
      <3> QED
        BY <2>3, <2>5, <3>2, <3>3, <3>4
    <2> QED
      BY <2>4, <2>5
  <1>3. AddressRight
    BY <1>2 DEF AddressRight
  <1> QED
    BY <1>1, <1>3 DEF TransfersSound

(* Whatever commands and answers are lost while a card is brought up, for  *)
(* every card and any number of faults: mmc_init ends with the class and   *)
(* readiness that the card itself reported, with the card selected and     *)
(* configured unless a command that it sends blindly was lost, with the    *)
(* CSD that the card has, and it asserts only if a fault hit the probing.  *)
THEOREM InitIsSound == Spec => []InitSound
  <1>1. Init => InitInv /\ TransferInv
    BY InitEstablishes
  <1>2. InitInv /\ TransferInv /\ [Next]_vars => InitInv' /\ TransferInv'
    BY NextKeeps
  <1>3. InitInv /\ TransferInv => InitSound
    BY InvImpliesInitSound
  <1> QED
    BY <1>1, <1>2, <1>3, PTL DEF Spec

(* Any number of transfers, however their calls, allocation failures and   *)
(* completions interleave: a transfer the host has goes to the block that  *)
(* was asked for if its address fits, nothing leaks and nothing is freed   *)
(* that is not allocated.                                                  *)
THEOREM TransfersAreSound == Spec => []TransfersSound
  <1>1. Init => InitInv /\ TransferInv
    BY InitEstablishes
  <1>2. InitInv /\ TransferInv /\ [Next]_vars => InitInv' /\ TransferInv'
    BY NextKeeps
  <1>3. InitInv /\ TransferInv => TransfersSound
    BY InvImpliesTransfersSound
  <1> QED
    BY <1>1, <1>2, <1>3, PTL DEF Spec
=============================================================================
