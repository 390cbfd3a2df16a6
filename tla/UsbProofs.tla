----------------------------- MODULE UsbProofs ------------------------------
(***************************************************************************)
(* Proofs about Usb, for any devices, sockets and bounds: the lists, the   *)
(* ports, the addresses and the periodic schedule stay consistent while    *)
(* devices come and go.                                                    *)
(***************************************************************************)
EXTENDS Usb, FiniteSetTheorems, SequenceTheorems, WellFoundedInduction, TLAPS

(***************************************************************************)
(* Numbers, sequences and recursive functions.                             *)
(***************************************************************************)

LEMMA LeastElement ==
    ASSUME NEW S \in SUBSET Nat, S # {}
    PROVE  \E x \in S : \A y \in S : x <= y
  <1>1. PICK R : R = OpToRel(<, Nat)
    OBVIOUS
  <1>2. IsWellFoundedOn(R, Nat)
    BY <1>1, NatLessThanWellFounded
  <1>3. \E x \in S : \A y \in S : ~ (<<y, x>> \in R)
    BY <1>2, WFMin
  <1>4. \A y, z \in Nat : y < z => <<y, z>> \in R
    BY <1>1 DEF OpToRel
  <1>5. PICK x \in S : \A y \in S : ~ (<<y, x>> \in R)
    BY <1>3
  <1>6. \A y \in S : ~(y < x)
    BY <1>4, <1>5
  <1> QED
    BY <1>5, <1>6

LEMMA MinIn ==
    ASSUME NEW S \in SUBSET Nat, S # {}
    PROVE  Min(S) \in S /\ \A y \in S : Min(S) <= y
  <1>1. \E x \in S : \A y \in S : x <= y
    BY LeastElement
  <1> QED
    BY <1>1 DEF Min

(* Functions defined by recursion on 0..n exist.                           *)
Iterates(f, n, T, a, G) ==
    /\ f \in [0..n -> T] /\ f[0] = a
    /\ \A i \in 0..(n - 1) : f[i + 1] = G[i][f[i]]

LEMMA IteratesExist ==
    ASSUME NEW T, NEW a \in T, NEW G \in [Nat -> [T -> T]]
    PROVE  \A n \in Nat : \E f : Iterates(f, n, T, a, G)
  <1>1. PICK S : S = {n \in Nat : ~\E f : Iterates(f, n, T, a, G)}
    OBVIOUS
  <1> SUFFICES ASSUME S # {} PROVE FALSE
    BY <1>1
  <1>2. PICK n \in S : \A m \in S : n <= m
    BY <1>1, LeastElement
  <1>3. CASE n = 0
    <2>1. PICK f : f = [i \in 0..0 |-> a]
      OBVIOUS
    <2>2. Iterates(f, 0, T, a, G)
      BY <2>1 DEF Iterates
    <2> QED
      BY <1>1, <1>2, <1>3, <2>2
  <1>4. CASE n # 0
    <2>1. PICK m \in Nat : n = m + 1
      <3>1. n \in Nat /\ n - 1 \in Nat /\ n = (n - 1) + 1
        BY <1>1, <1>2, <1>4
      <3> QED
        BY <3>1
    <2>2. PICK g : Iterates(g, m, T, a, G)
      BY <1>1, <1>2, <2>1
    <2>3. PICK f : f = [i \in 0..(m + 1) |-> IF i <= m THEN g[i] ELSE G[m][g[m]]]
      OBVIOUS
    <2>4. f[0] = a /\ f \in [0..(m + 1) -> T]
      BY <2>1, <2>2, <2>3 DEF Iterates
    <2>5. ASSUME NEW i \in 0..m PROVE f[i + 1] = G[i][f[i]]
      <3>1. CASE i < m
        <4>1. i \in 0..(m - 1) /\ i + 1 <= m /\ i + 1 \in 0..(m + 1) /\ i \in 0..(m + 1) /\ i <= m
          BY <2>1, <3>1
        <4> QED
          BY <2>2, <2>3, <4>1 DEF Iterates
      <3>2. CASE i = m
        <4>1. ~(i + 1 <= m) /\ i + 1 \in 0..(m + 1) /\ i \in 0..(m + 1) /\ i <= m
          BY <2>1, <3>2
        <4> QED
          BY <2>3, <3>2, <4>1
      <3> QED
        BY <2>1, <3>1, <3>2
    <2>6. 0..((m + 1) - 1) = 0..m
      BY <2>1
    <2>7. Iterates(f, m + 1, T, a, G)
      BY <2>4, <2>5, <2>6 DEF Iterates
    <2> QED
      BY <1>1, <1>2, <2>1, <2>7
  <1> QED
    BY <1>3, <1>4

(* What InsertAt and RemoveAt make of a sequence.                          *)
IsInsertion(t, s, i, q) ==
    /\ Len(t) = Len(s) + 1
    /\ \A j \in 1..(Len(s) + 1) :
          t[j] = IF j < i THEN s[j] ELSE IF j = i THEN q ELSE s[j - 1]
IsRemoval(t, s, i) ==
    /\ Len(t) = Len(s) - 1
    /\ \A j \in 1..(Len(s) - 1) : t[j] = IF j < i THEN s[j] ELSE s[j + 1]

LEMMA InsertIs ==
    ASSUME NEW S, NEW s \in Seq(S), NEW q \in S, NEW i \in 1..(Len(s) + 1)
    PROVE  InsertAt(s, i, q) \in Seq(S) /\ IsInsertion(InsertAt(s, i, q), s, i, q)
  <1>1. PICK n \in Nat : n = Len(s)
    OBVIOUS
  <1>2. PICK a, b : a = SubSeq(s, 1, i - 1) /\ b = SubSeq(s, i, n)
    OBVIOUS
  <1>3. /\ a \in Seq(S) /\ Len(a) = i - 1
        /\ \A j \in 1..(i - 1) : a[j] = s[j]
    <2>1. PICK m \in Nat : m = i - 1
      BY <1>1
    <2>2. /\ SubSeq(s, 1, m) \in Seq(S) /\ Len(SubSeq(s, 1, m)) = m
          /\ \A j \in 1..m : SubSeq(s, 1, m)[j] = s[j]
      BY <1>1, <2>1
    <2> QED
      BY <1>2, <2>1, <2>2
  <1>4. /\ b \in Seq(S) /\ Len(b) = n - i + 1
        /\ \A j \in 1..(n - i + 1) : b[j] = s[i + j - 1]
    BY <1>1, <1>2
  <1>5. PICK c : c = a \o <<q>>
    OBVIOUS
  <1>6. /\ c \in Seq(S) /\ Len(c) = i /\ c[i] = q
        /\ \A j \in 1..(i - 1) : c[j] = s[j]
    BY <1>1, <1>3, <1>5
  <1>7. PICK d : d = c \o b
    OBVIOUS
  <1>8. d \in Seq(S) /\ Len(d) = n + 1
    BY <1>1, <1>4, <1>6, <1>7
  <1>9. ASSUME NEW j \in 1..(n + 1)
        PROVE  d[j] = IF j < i THEN s[j] ELSE IF j = i THEN q ELSE s[j - 1]
    <2>1. CASE j <= i
      BY <1>1, <1>4, <1>6, <1>7, <2>1
    <2>2. CASE j > i
      <3>1. PICK k \in Nat : k = j - i
        BY <1>1, <2>2
      <3>2. k \in 1..(n - i + 1) /\ i + k - 1 = j - 1 /\ j = Len(c) + k
        BY <1>1, <1>6, <2>2, <3>1
      <3>3. d[j] = b[k]
        BY <1>1, <1>4, <1>6, <1>7, <2>2, <3>1, <3>2
      <3>4. b[k] = s[i + k - 1]
        BY <1>4, <3>2
      <3> QED
        BY <1>1, <2>2, <3>2, <3>3, <3>4
    <2> QED
      BY <1>1, <2>1, <2>2
  <1>10. InsertAt(s, i, q) = d
    BY <1>1, <1>2, <1>5, <1>7 DEF InsertAt
  <1> QED
    BY <1>1, <1>8, <1>9, <1>10 DEF IsInsertion

LEMMA RemoveIs ==
    ASSUME NEW S, NEW s \in Seq(S), NEW i \in 1..Len(s)
    PROVE  RemoveAt(s, i) \in Seq(S) /\ IsRemoval(RemoveAt(s, i), s, i)
  <1>1. PICK n \in Nat : n = Len(s)
    OBVIOUS
  <1>2. PICK a, b : a = SubSeq(s, 1, i - 1) /\ b = SubSeq(s, i + 1, n)
    OBVIOUS
  <1>3. /\ a \in Seq(S) /\ Len(a) = i - 1
        /\ \A j \in 1..(i - 1) : a[j] = s[j]
    <2>1. PICK m \in Nat : m = i - 1
      BY <1>1
    <2>2. /\ SubSeq(s, 1, m) \in Seq(S) /\ Len(SubSeq(s, 1, m)) = m
          /\ \A j \in 1..m : SubSeq(s, 1, m)[j] = s[j]
      BY <1>1, <2>1
    <2> QED
      BY <1>2, <2>1, <2>2
  <1>4. /\ b \in Seq(S) /\ Len(b) = n - i
        /\ \A j \in 1..(n - i) : b[j] = s[i + j]
    BY <1>1, <1>2
  <1>5. PICK d : d = a \o b
    OBVIOUS
  <1>6. d \in Seq(S) /\ Len(d) = n - 1
    BY <1>1, <1>3, <1>4, <1>5
  <1>7. ASSUME NEW j \in 1..(n - 1)
        PROVE  d[j] = IF j < i THEN s[j] ELSE s[j + 1]
    <2>1. CASE j < i
      BY <1>1, <1>3, <1>4, <1>5, <2>1
    <2>2. CASE j >= i
      <3>1. PICK k \in Nat : k = j - i + 1
        BY <1>1, <2>2
      <3>2. k \in 1..(n - i) /\ i + k = j + 1 /\ j = Len(a) + k
        BY <1>1, <1>3, <2>2, <3>1
      <3>3. d[j] = b[k]
        BY <1>1, <1>3, <1>4, <1>5, <2>2, <3>1, <3>2
      <3>4. b[k] = s[i + k]
        BY <1>4, <3>2
      <3> QED
        BY <1>1, <2>2, <3>2, <3>3, <3>4
    <2> QED
      BY <1>1, <2>1, <2>2
  <1>8. RemoveAt(s, i) = d
    BY <1>1, <1>2, <1>5 DEF RemoveAt
  <1> QED
    BY <1>1, <1>6, <1>7, <1>8 DEF IsRemoval

LEMMA ToSetIs ==
    ASSUME NEW s, NEW S, s \in Seq(S)
    PROVE  /\ ToSet(s) = {s[i] : i \in 1..Len(s)} /\ ToSet(s) \subseteq S
           /\ DOMAIN s = 1..Len(s) /\ Len(s) \in Nat
  BY DEF ToSet

(***************************************************************************)
(* The periodic schedule.  Frame i is entered at the first queue head of   *)
(* the list that is due in it.                                             *)
(***************************************************************************)

Schedules == [list : Seq(Ids), frame : [1..Frames -> Ids \cup {NoQh}]]
Rates == [Ids -> Nat \ {0}]
Turn(i, r) == i % r = 0
Once(list) == \A i, j \in DOMAIN list : list[i] = list[j] => i = j
Enters(s, rate, i) ==
    \/ s.frame[i] = NoQh /\ \A j \in DOMAIN s.list : ~Turn(i, rate[s.list[j]])
    \/ \E j \in DOMAIN s.list :
          /\ s.frame[i] = s.list[j] /\ Turn(i, rate[s.list[j]])
          /\ \A k \in 1..(j - 1) : ~Turn(i, rate[s.list[k]])
Entered(s, rate) == Sorted(s.list, rate) /\ \A i \in 1..Frames : Enters(s, rate, i)

\* A frame that is due for a slow queue head is due for the faster ones.
Nests(rate, us) ==
    \A u, v \in us : rate[u] >= rate[v] =>
        \A i \in 1..Frames : Turn(i, rate[u]) => Turn(i, rate[v])

LEMMA PlaceIs ==
    ASSUME NEW s \in Seq(Ids), NEW q \in ToSet(s)
    PROVE  Place(s, q) \in 1..Len(s) /\ s[Place(s, q)] = q
  <1>1. \E i \in DOMAIN s : s[i] = q
    BY ToSetIs
  <1> QED
    BY <1>1, ToSetIs DEF Place

LEMMA SlotIs ==
    ASSUME NEW s \in Seq(Ids), NEW rate \in Rates, NEW r \in Nat
    PROVE  /\ SlotFor(s, rate, r) \in 1..(Len(s) + 1)
           /\ s # <<>> =>
                /\ SlotFor(s, rate, r) \in 2..(Len(s) + 1)
                /\ \A j \in 2..(SlotFor(s, rate, r) - 1) : rate[s[j]] >= r
                /\ \/ SlotFor(s, rate, r) > Len(s)
                   \/ rate[s[SlotFor(s, rate, r)]] < r
  <1>0. Len(s) \in Nat /\ \A j \in 1..Len(s) : rate[s[j]] \in Nat
    BY DEF Rates
  <1>1. CASE s = <<>>
    BY <1>0, <1>1 DEF SlotFor
  <1>2. CASE s # <<>>
    <2>1. PICK n \in Nat : n = Len(s)
      BY <1>0
    <2>2. n >= 1
      BY <1>2, <2>1
    <2>3. PICK S : S = {i \in 2..(n + 1) : i > n \/ rate[s[i]] < r}
      OBVIOUS
    <2>4. S \in SUBSET Nat /\ n + 1 \in S
      BY <2>1, <2>2, <2>3
    <2>5. PICK i \in S : \A y \in S : i <= y
      BY <2>4, LeastElement
    <2>6. i \in 2..(n + 1) /\ (i > n \/ rate[s[i]] < r)
      BY <2>3, <2>5
    <2>7. ASSUME NEW j \in 2..(i - 1) PROVE rate[s[j]] >= r
      <3>1. j \in 2..(n + 1) /\ j \in 1..n /\ ~(i <= j) /\ ~(j > n)
        BY <2>1, <2>6
      <3>2. ~(rate[s[j]] < r)
        BY <2>3, <2>5, <3>1
      <3> QED
        BY <1>0, <2>1, <3>1, <3>2
    <2>8. \E k \in 2..(Len(s) + 1) :
              /\ \A j \in 2..(k - 1) : rate[s[j]] >= r
              /\ k > Len(s) \/ rate[s[k]] < r
      BY <2>1, <2>6, <2>7
    <2>9. SlotFor(s, rate, r) = CHOOSE k \in 2..(Len(s) + 1) :
              /\ \A j \in 2..(k - 1) : rate[s[j]] >= r
              /\ k > Len(s) \/ rate[s[k]] < r
      BY <1>2 DEF SlotFor
    <2>10. PICK k : k = SlotFor(s, rate, r)
      OBVIOUS
    <2>11. /\ k \in 2..(Len(s) + 1)
           /\ \A j \in 2..(k - 1) : rate[s[j]] >= r
           /\ k > Len(s) \/ rate[s[k]] < r
      BY <2>8, <2>9, <2>10
    <2> QED
      BY <1>0, <2>10, <2>11
  <1> QED
    BY <1>1, <1>2

(* A queue head is added to the list and to no other's place.              *)
LEMMA AddIs ==
    ASSUME NEW s \in Schedules, NEW q \in Ids, NEW rate \in Rates, Once(s.list)
    PROVE  /\ AddQhn(s, q, rate) \in Schedules
           /\ Once(AddQhn(s, q, rate).list)
           /\ ToSet(AddQhn(s, q, rate).list) = ToSet(s.list) \cup {q}
  <1>1. CASE q \in ToSet(s.list)
    BY <1>1 DEF AddQhn
  <1>2. CASE q \notin ToSet(s.list)
    <2>1. s.list \in Seq(Ids) /\ s.frame \in [1..Frames -> Ids \cup {NoQh}]
      BY DEF Schedules
    <2>a. PICK l \in Seq(Ids) : l = s.list
      BY <2>1
    <2>b. PICK n \in Nat : n = Len(l)
      OBVIOUS
    <2>c. PICK i : i = SlotFor(l, rate, rate[q])
      OBVIOUS
    <2>2. l = s.list /\ n = Len(l) /\ i = SlotFor(l, rate, rate[q])
      BY <2>a, <2>b, <2>c
    <2>3. rate[q] \in Nat
      BY DEF Rates
    <2>4. i \in 1..(n + 1)
      BY <2>2, <2>3, SlotIs
    <2>5. PICK t : t = InsertAt(l, i, q)
      OBVIOUS
    <2>6. /\ t \in Seq(Ids) /\ Len(t) = n + 1
          /\ \A j \in 1..(n + 1) : t[j] = IF j < i THEN l[j] ELSE IF j = i THEN q ELSE l[j - 1]
      <3>1. PICK S : S = Ids
        OBVIOUS
      <3>2. l \in Seq(S) /\ q \in S /\ i \in 1..(Len(l) + 1)
        BY <2>2, <2>4, <3>1
      <3>3. InsertAt(l, i, q) \in Seq(S) /\ IsInsertion(InsertAt(l, i, q), l, i, q)
        BY <3>2, InsertIs
      <3> QED
        BY <2>2, <2>5, <3>1, <3>3 DEF IsInsertion
    <2>7. PICK f \in [1..Frames -> Ids \cup {NoQh}] : AddQhn(s, q, rate) = [list |-> t, frame |-> f]
      <3>1. PICK f : f = [k \in 1..Frames |->
              IF k % rate[q] = 0
                    /\ (s.frame[k] = NoQh \/ rate[s.frame[k]] < rate[q])
              THEN q ELSE s.frame[k]]
        OBVIOUS
      <3>2. f \in [1..Frames -> Ids \cup {NoQh}]
        BY <2>1, <3>1
      <3>3. AddQhn(s, q, rate) = [list |-> t, frame |-> f]
        BY <1>2, <2>2, <2>5, <3>1 DEF AddQhn
      <3> QED
        BY <3>2, <3>3
    <2>8. \A j \in 1..n : l[j] # q
      BY <1>2, <2>2, ToSetIs
    <2>9. \A j, k \in 1..n : l[j] = l[k] => j = k
      BY <2>2, ToSetIs DEF Once
    <2>10. Once(t)
      <3>1. DOMAIN t = 1..(n + 1)
        BY <2>6
      <3>2. ASSUME NEW j \in 1..(n + 1), NEW k \in 1..(n + 1), t[j] = t[k], j < k PROVE FALSE
        <4>1. CASE k < i
          BY <2>4, <2>6, <2>9, <3>2, <4>1
        <4>2. CASE k = i
          BY <2>4, <2>6, <2>8, <3>2, <4>2
        <4>3. CASE k > i
          <5>1. k - 1 \in 1..n /\ t[k] = l[k - 1]
            BY <2>4, <2>6, <4>3
          <5>2. CASE j < i
            <6>1. j \in 1..n /\ t[j] = l[j] /\ j < k - 1
              BY <2>4, <2>6, <4>3, <5>2
            <6> QED
              BY <2>9, <3>2, <5>1, <6>1
          <5>3. CASE j = i
            BY <2>4, <2>6, <2>8, <3>2, <4>3, <5>1, <5>3
          <5>4. CASE j > i
            <6>1. j - 1 \in 1..n /\ t[j] = l[j - 1]
              BY <2>4, <2>6, <5>4
            <6>2. j - 1 = k - 1
              BY <2>9, <3>2, <5>1, <6>1
            <6> QED
              BY <3>2, <6>2
          <5> QED
            BY <2>4, <5>2, <5>3, <5>4
        <4> QED
          BY <2>4, <4>1, <4>2, <4>3
      <3> QED
        BY <3>1, <3>2 DEF Once
    <2>11. ToSet(t) = ToSet(l) \cup {q}
      <3>1. ToSet(t) = {t[j] : j \in 1..(n + 1)} /\ ToSet(l) = {l[j] : j \in 1..n}
        BY <2>2, <2>6, ToSetIs
      <3>2. ASSUME NEW j \in 1..(n + 1) PROVE t[j] \in ToSet(l) \cup {q}
        <4>1. CASE j < i
          BY <2>4, <2>6, <3>1, <4>1
        <4>2. CASE j > i
          <5>1. j - 1 \in 1..n /\ t[j] = l[j - 1]
            BY <2>4, <2>6, <4>2
          <5> QED
            BY <3>1, <5>1
        <4>3. CASE j = i
          BY <2>4, <2>6, <4>3
        <4> QED
          BY <2>4, <4>1, <4>2, <4>3
      <3>3. ASSUME NEW j \in 1..n PROVE l[j] \in ToSet(t)
        <4>1. CASE j < i
          BY <2>4, <2>6, <3>1, <4>1
        <4>2. CASE j >= i
          <5>1. j + 1 \in 1..(n + 1) /\ t[j + 1] = l[j]
            BY <2>4, <2>6, <4>2
          <5> QED
            BY <3>1, <5>1
        <4> QED
          BY <2>4, <4>1, <4>2
      <3>4. q \in ToSet(t)
        <4>1. i \in 1..(n + 1) /\ t[i] = q
          BY <2>4, <2>6
        <4> QED
          BY <3>1, <4>1
      <3> QED
        BY <3>1, <3>2, <3>3, <3>4
    <2> QED
      BY <2>2, <2>6, <2>7, <2>10, <2>11 DEF Schedules
  <1> QED
    BY <1>1, <1>2

(* The frames that are due for it are entered at it, unless a slower one   *)
(* is due as well: if the list is in order, now as it was before.          *)
LEMMA AddEnters ==
    ASSUME NEW s \in Schedules, NEW q \in Ids, NEW rate \in Rates, Once(s.list),
           Entered(s, rate), Sorted(AddQhn(s, q, rate).list, rate)
    PROVE  Entered(AddQhn(s, q, rate), rate)
  <1>1. CASE q \in ToSet(s.list)
    BY <1>1 DEF AddQhn
  <1>2. CASE q \notin ToSet(s.list)
    <2>1. s.list \in Seq(Ids) /\ s.frame \in [1..Frames -> Ids \cup {NoQh}]
      BY DEF Schedules
    <2>a. PICK l \in Seq(Ids) : l = s.list
      BY <2>1
    <2>b. PICK n \in Nat : n = Len(l)
      OBVIOUS
    <2>c. PICK i : i = SlotFor(l, rate, rate[q])
      OBVIOUS
    <2>3. rate[q] \in Nat /\ \A j \in 1..n : rate[l[j]] \in Nat /\ l[j] \in Ids
      BY <2>b DEF Rates
    <2>4. /\ i \in 1..(n + 1)
          /\ n > 0 => /\ i >= 2
                      /\ \A j \in 2..(i - 1) : rate[l[j]] >= rate[q]
                      /\ i > n \/ rate[l[i]] < rate[q]
      <3>1. PICK r \in Nat : r = rate[q]
        BY <2>3
      <3>2. /\ SlotFor(l, rate, r) \in 1..(Len(l) + 1)
            /\ l # <<>> =>
                /\ SlotFor(l, rate, r) \in 2..(Len(l) + 1)
                /\ \A j \in 2..(SlotFor(l, rate, r) - 1) : rate[l[j]] >= r
                /\ \/ SlotFor(l, rate, r) > Len(l)
                   \/ rate[l[SlotFor(l, rate, r)]] < r
        BY SlotIs
      <3>3. SlotFor(l, rate, r) = i
        BY <2>c, <3>1
      <3>4. n > 0 => l # <<>>
        BY <2>b
      <3> QED
        BY <2>b, <3>1, <3>2, <3>3, <3>4
    <2>5. PICK t : t = InsertAt(l, i, q)
      OBVIOUS
    <2>6. /\ t \in Seq(Ids) /\ Len(t) = n + 1
          /\ \A j \in 1..(n + 1) : t[j] = IF j < i THEN l[j] ELSE IF j = i THEN q ELSE l[j - 1]
      <3>1. PICK S : S = Ids
        OBVIOUS
      <3>2. l \in Seq(S) /\ q \in S /\ i \in 1..(Len(l) + 1)
        BY <2>b, <2>4, <3>1
      <3>3. InsertAt(l, i, q) \in Seq(S) /\ IsInsertion(InsertAt(l, i, q), l, i, q)
        BY <3>2, InsertIs
      <3> QED
        BY <2>b, <2>5, <3>1, <3>3 DEF IsInsertion
    <2>7. PICK f : f = [k \in 1..Frames |->
              IF Turn(k, rate[q])
                    /\ (s.frame[k] = NoQh \/ rate[s.frame[k]] < rate[q])
              THEN q ELSE s.frame[k]]
      OBVIOUS
    <2>8. AddQhn(s, q, rate) = [list |-> t, frame |-> f]
      BY <1>2, <2>a, <2>c, <2>5, <2>7 DEF AddQhn, Turn
    <2>9. ASSUME NEW k \in 1..Frames
          PROVE  \/ f[k] = NoQh /\ \A j \in 1..(n + 1) : ~Turn(k, rate[t[j]])
                 \/ \E j \in 1..(n + 1) :
                       /\ f[k] = t[j] /\ Turn(k, rate[t[j]])
                       /\ \A m \in 1..(j - 1) : ~Turn(k, rate[t[m]])
      <3>0. /\ f[k] = IF Turn(k, rate[q]) /\ (s.frame[k] = NoQh \/ rate[s.frame[k]] < rate[q])
                      THEN q ELSE s.frame[k]
            /\ i \in 1..(n + 1) /\ t[i] = q
            /\ \A j \in 1..n : /\ j < i => t[j] = l[j]
                               /\ j >= i => j + 1 \in 1..(n + 1) /\ t[j + 1] = l[j]
            /\ \A j \in 1..(n + 1) : /\ j < i => j \in 1..n /\ t[j] = l[j]
                                     /\ j > i => j - 1 \in 1..n /\ t[j] = l[j - 1]
        BY <2>4, <2>6, <2>7
      <3>1. CASE s.frame[k] = NoQh /\ \A j \in 1..n : ~Turn(k, rate[l[j]])
        <4>0. \A j \in 1..(n + 1) : j # i => ~Turn(k, rate[t[j]])
          <5>1. \A j \in 1..(n + 1) : j < i => ~Turn(k, rate[t[j]])
            BY <3>0, <3>1
          <5>2. \A j \in 1..(n + 1) : j > i => ~Turn(k, rate[t[j]])
            BY <3>0, <3>1
          <5> QED
            BY <2>4, <5>1, <5>2
        <4>1. CASE Turn(k, rate[q])
          <5>1. \A m \in 1..(i - 1) : ~Turn(k, rate[t[m]])
            BY <2>4, <4>0
          <5> QED
            BY <3>0, <3>1, <4>1, <5>1
        <4>2. CASE ~Turn(k, rate[q])
          BY <3>0, <3>1, <4>0, <4>2
        <4> QED
          BY <4>1, <4>2
      <3>2. ASSUME NEW j \in 1..n, s.frame[k] = l[j], Turn(k, rate[l[j]]),
                   \A m \in 1..(j - 1) : ~Turn(k, rate[l[m]])
            PROVE  \E p \in 1..(n + 1) :
                       /\ f[k] = t[p] /\ Turn(k, rate[t[p]])
                       /\ \A m \in 1..(p - 1) : ~Turn(k, rate[t[m]])
        <4>0. l[j] # NoQh
          <5>1. l[j] \in Nat
            BY <2>3 DEF Ids
          <5> QED
            BY <5>1, UsbAssumption
        <4>1. CASE j < i /\ ~(Turn(k, rate[q]) /\ rate[l[j]] < rate[q])
          <5>1. f[k] = t[j] /\ Turn(k, rate[t[j]]) /\ j \in 1..(n + 1)
            BY <3>0, <3>2, <4>0, <4>1
          <5>2. \A m \in 1..(j - 1) : m \in 1..n /\ m < i
            BY <2>4, <4>1
          <5>3. \A m \in 1..(j - 1) : ~Turn(k, rate[t[m]])
            BY <3>0, <3>2, <5>2
          <5> QED
            BY <5>1, <5>3
        <4>2. CASE j < i /\ Turn(k, rate[q]) /\ rate[l[j]] < rate[q]
          <5>1. j \in DOMAIN t /\ i \in DOMAIN t /\ t[j] = l[j]
            BY <2>6, <3>0, <4>2
          <5>2. rate[t[j]] >= rate[t[i]]
            BY <2>8, <4>2, <5>1 DEF Sorted
          <5> QED
            BY <2>3, <3>0, <4>2, <5>1, <5>2
        <4>3. CASE j >= i /\ Turn(k, rate[q])
          <5>1. rate[l[j]] < rate[q]
            <6>1. n > 0 /\ i <= n
              BY <2>4, <4>3
            <6>2. rate[l[i]] < rate[q] /\ i \in 1..n
              BY <2>4, <6>1
            <6>3. rate[l[i]] >= rate[l[j]]
              <7>1. CASE i = j
                BY <2>3, <6>2, <7>1
              <7>2. CASE i < j
                <8>1. i \in DOMAIN l /\ j \in DOMAIN l
                  BY <2>b, <6>2
                <8> QED
                  BY <2>a, <7>2, <8>1 DEF Entered, Sorted
              <7> QED
                BY <2>4, <4>3, <7>1, <7>2
            <6> QED
              BY <2>3, <6>2, <6>3
          <5>2. f[k] = t[i] /\ Turn(k, rate[t[i]])
            BY <3>0, <3>2, <4>3, <5>1
          <5>3. \A m \in 1..(i - 1) : m \in 1..n /\ m < i /\ m \in 1..(j - 1)
            BY <2>4, <4>3
          <5>4. \A m \in 1..(i - 1) : ~Turn(k, rate[t[m]])
            BY <3>0, <3>2, <5>3
          <5> QED
            BY <3>0, <5>2, <5>4
        <4>4. CASE j >= i /\ ~Turn(k, rate[q])
          <5>1. f[k] = t[j + 1] /\ Turn(k, rate[t[j + 1]]) /\ j + 1 \in 1..(n + 1)
            BY <3>0, <3>2, <4>4
          <5>2. ASSUME NEW m \in 1..((j + 1) - 1) PROVE ~Turn(k, rate[t[m]])
            <6>1. CASE m < i
              <7>1. m \in 1..n /\ m \in 1..(j - 1)
                BY <2>4, <4>4, <6>1
              <7> QED
                BY <3>0, <3>2, <6>1, <7>1
            <6>2. CASE m = i
              BY <3>0, <4>4, <6>2
            <6>3. CASE m > i
              <7>1. m \in 1..(n + 1) /\ m - 1 \in 1..(j - 1) /\ t[m] = l[m - 1]
                BY <2>4, <3>0, <4>4, <6>3
              <7> QED
                BY <3>2, <7>1
            <6> QED
              BY <2>4, <6>1, <6>2, <6>3
          <5>3. PICK p \in 1..(n + 1) : p = j + 1
            BY <5>1
          <5> QED
            BY <5>1, <5>2, <5>3
        <4> QED
          BY <2>4, <4>1, <4>2, <4>3, <4>4
      <3>3. DOMAIN l = 1..n
        BY <2>b
      <3>4. Enters(s, rate, k)
        BY DEF Entered
      <3> QED
        BY <2>a, <3>1, <3>2, <3>3, <3>4 DEF Enters
    <2>10. DOMAIN t = 1..(n + 1)
      BY <2>6
    <2>11. \A k \in 1..Frames : Enters([list |-> t, frame |-> f], rate, k)
      BY <2>9, <2>10 DEF Enters
    <2> QED
      BY <2>8, <2>11 DEF Entered
  <1> QED
    BY <1>1, <1>2

(* A queue head is taken out of the list.                                  *)
LEMMA DelIs ==
    ASSUME NEW s \in Schedules, NEW q \in ToSet(s.list), NEW rate \in Rates, Once(s.list)
    PROVE  /\ DelQhn(s, q, rate) \in Schedules
           /\ Once(DelQhn(s, q, rate).list)
           /\ ToSet(DelQhn(s, q, rate).list) = ToSet(s.list) \ {q}
           /\ Entered(s, rate) /\ Nests(rate, ToSet(s.list)) =>
                 Entered(DelQhn(s, q, rate), rate)
  <1>1. s.list \in Seq(Ids) /\ s.frame \in [1..Frames -> Ids \cup {NoQh}]
    BY DEF Schedules
  <1>a. PICK l \in Seq(Ids) : l = s.list
    BY <1>1
  <1>b. PICK n \in Nat : n = Len(l)
    OBVIOUS
  <1>c. PICK i : i = Place(l, q)
    OBVIOUS
  <1>2. i \in 1..n /\ l[i] = q
    BY <1>a, <1>b, <1>c, PlaceIs
  <1>3. PICK t : t = RemoveAt(l, i)
    OBVIOUS
  <1>4. /\ t \in Seq(Ids) /\ Len(t) = n - 1
        /\ \A j \in 1..(n - 1) : t[j] = IF j < i THEN l[j] ELSE l[j + 1]
    <2>1. PICK S : S = Ids
      OBVIOUS
    <2>2. l \in Seq(S) /\ i \in 1..Len(l)
      BY <1>b, <1>2, <2>1
    <2>3. RemoveAt(l, i) \in Seq(S) /\ IsRemoval(RemoveAt(l, i), l, i)
      BY <2>2, RemoveIs
    <2> QED
      BY <1>b, <1>3, <2>1, <2>3 DEF IsRemoval
  <1>5. PICK g : g = IF i < n THEN l[i + 1] ELSE NoQh
    OBVIOUS
  <1>6. Follower(l, q) = g /\ g \in Ids \cup {NoQh}
    <2>1. i < n => i + 1 \in 1..n /\ l[i + 1] \in Ids
      BY <1>b, <1>2
    <2> QED
      BY <1>b, <1>c, <1>5, <2>1 DEF Follower
  <1>7. PICK f : f = [k \in 1..Frames |->
             IF Turn(k, rate[q]) /\ s.frame[k] = q THEN g ELSE s.frame[k]]
    OBVIOUS
  <1>8. DelQhn(s, q, rate) = [list |-> t, frame |-> f]
    BY <1>a, <1>c, <1>3, <1>6, <1>7 DEF DelQhn, Turn
  <1>9. f \in [1..Frames -> Ids \cup {NoQh}]
    BY <1>1, <1>6, <1>7
  <1>10. \A j, k \in 1..n : l[j] = l[k] => j = k
    BY <1>a, <1>b DEF Once
  <1>11. /\ \A j \in 1..(n - 1) : /\ j < i => j \in 1..n /\ t[j] = l[j]
                                  /\ j >= i => j + 1 \in 1..n /\ t[j] = l[j + 1]
         /\ \A j \in 1..n : /\ j < i => j \in 1..(n - 1) /\ t[j] = l[j]
                            /\ j > i => j - 1 \in 1..(n - 1) /\ t[j - 1] = l[j]
    BY <1>2, <1>4
  <1>12. DOMAIN t = 1..(n - 1) /\ DOMAIN l = 1..n
    BY <1>b, <1>2, <1>4
  <1>13. Once(t)
    <2>1. ASSUME NEW j \in 1..(n - 1), NEW k \in 1..(n - 1), t[j] = t[k], j < k PROVE FALSE
      <3>1. CASE k < i
        BY <1>2, <1>10, <1>11, <2>1, <3>1
      <3>2. CASE j < i /\ k >= i
        BY <1>2, <1>10, <1>11, <2>1, <3>2
      <3>3. CASE j >= i
        <4>1. j + 1 \in 1..n /\ k + 1 \in 1..n /\ l[j + 1] = l[k + 1]
          BY <1>2, <1>11, <2>1, <3>3
        <4>2. j + 1 = k + 1
          BY <1>10, <4>1
        <4> QED
          BY <2>1, <4>2
      <3> QED
        BY <1>2, <2>1, <3>1, <3>2, <3>3
    <2> QED
      BY <1>12, <2>1 DEF Once
  <1>14. ToSet(t) = ToSet(l) \ {q}
    <2>1. ToSet(t) = {t[j] : j \in 1..(n - 1)} /\ ToSet(l) = {l[j] : j \in 1..n}
      BY <1>b, <1>4, ToSetIs
    <2>2. ASSUME NEW j \in 1..(n - 1) PROVE t[j] \in ToSet(l) /\ t[j] # q
      <3>1. CASE j < i
        BY <1>2, <1>10, <1>11, <2>1, <3>1
      <3>2. CASE j >= i
        <4>1. j + 1 \in 1..n /\ t[j] = l[j + 1] /\ j + 1 # i
          BY <1>2, <1>11, <3>2
        <4> QED
          BY <1>2, <1>10, <2>1, <4>1
      <3> QED
        BY <1>2, <3>1, <3>2
    <2>3. ASSUME NEW j \in 1..n, l[j] # q PROVE l[j] \in ToSet(t)
      <3>1. CASE j < i
        BY <1>2, <1>11, <2>1, <3>1
      <3>2. CASE j > i
        <4>1. j - 1 \in 1..(n - 1) /\ t[j - 1] = l[j]
          BY <1>11, <3>2
        <4> QED
          BY <2>1, <4>1
      <3> QED
        BY <1>2, <2>3, <3>1, <3>2
    <2> QED
      BY <2>1, <2>2, <2>3
  <1>15. ASSUME Entered(s, rate), Nests(rate, ToSet(s.list))
         PROVE  Entered([list |-> t, frame |-> f], rate)
    <2>1. \A j \in 1..n : rate[l[j]] \in Nat /\ l[j] \in Ids /\ l[j] \in ToSet(l)
      BY <1>b, ToSetIs DEF Rates
    <2>2. \A j, k \in 1..n : j < k => rate[l[j]] >= rate[l[k]]
      BY <1>a, <1>12, <1>15 DEF Entered, Sorted
    <2>3. Sorted(t, rate)
      <3>1. ASSUME NEW j \in 1..(n - 1), NEW k \in 1..(n - 1), j < k
            PROVE  rate[t[j]] >= rate[t[k]]
        <4>1. CASE k < i
          BY <1>2, <1>11, <2>2, <3>1, <4>1
        <4>2. CASE j < i /\ k >= i
          <5>1. k + 1 \in 1..n /\ t[k] = l[k + 1] /\ j \in 1..n /\ t[j] = l[j] /\ j < k + 1
            BY <1>2, <1>11, <3>1, <4>2
          <5> QED
            BY <2>2, <5>1
        <4>3. CASE j >= i
          <5>1. /\ j + 1 \in 1..n /\ k + 1 \in 1..n /\ j + 1 < k + 1
                /\ t[j] = l[j + 1] /\ t[k] = l[k + 1]
            BY <1>2, <1>11, <3>1, <4>3
          <5> QED
            BY <2>2, <5>1
        <4> QED
          BY <1>2, <3>1, <4>1, <4>2, <4>3
      <3> QED
        BY <1>12, <3>1 DEF Sorted
    <2>4. ASSUME NEW k \in 1..Frames
          PROVE  \/ f[k] = NoQh /\ \A j \in 1..(n - 1) : ~Turn(k, rate[t[j]])
                 \/ \E j \in 1..(n - 1) :
                       /\ f[k] = t[j] /\ Turn(k, rate[t[j]])
                       /\ \A m \in 1..(j - 1) : ~Turn(k, rate[t[m]])
      <3>0. f[k] = IF Turn(k, rate[q]) /\ s.frame[k] = q THEN g ELSE s.frame[k]
        BY <1>7
      <3>1. CASE s.frame[k] = NoQh /\ \A j \in 1..n : ~Turn(k, rate[l[j]])
        <4>1. f[k] = NoQh
          BY <1>2, <3>0, <3>1
        <4>2. ASSUME NEW j \in 1..(n - 1) PROVE ~Turn(k, rate[t[j]])
          <5>1. CASE j < i
            BY <1>11, <3>1, <5>1
          <5>2. CASE j >= i
            BY <1>11, <3>1, <5>2
          <5> QED
            BY <1>2, <5>1, <5>2
        <4> QED
          BY <4>1, <4>2
      <3>2. ASSUME NEW j \in 1..n, s.frame[k] = l[j], Turn(k, rate[l[j]]),
                   \A m \in 1..(j - 1) : ~Turn(k, rate[l[m]])
            PROVE  \/ f[k] = NoQh /\ \A p \in 1..(n - 1) : ~Turn(k, rate[t[p]])
                   \/ \E p \in 1..(n - 1) :
                         /\ f[k] = t[p] /\ Turn(k, rate[t[p]])
                         /\ \A m \in 1..(p - 1) : ~Turn(k, rate[t[m]])
        <4>1. CASE j < i
          <5>1. f[k] = t[j] /\ Turn(k, rate[t[j]]) /\ j \in 1..(n - 1)
            <6>1. l[j] # q
              BY <1>2, <1>10, <4>1
            <6> QED
              BY <1>11, <3>0, <3>2, <4>1, <6>1
          <5>2. \A m \in 1..(j - 1) : m \in 1..n /\ m < i
            BY <1>2, <4>1
          <5>3. \A m \in 1..(j - 1) : ~Turn(k, rate[t[m]])
            BY <1>11, <3>2, <5>2
          <5> QED
            BY <5>1, <5>3
        <4>2. CASE j > i
          <5>1. PICK p \in 1..(n - 1) : p = j - 1
            BY <1>2, <4>2
          <5>2. f[k] = t[p] /\ Turn(k, rate[t[p]])
            <6>1. l[j] # q
              BY <1>2, <1>10, <4>2
            <6> QED
              BY <1>11, <3>0, <3>2, <4>2, <5>1, <6>1
          <5>3. ASSUME NEW m \in 1..(p - 1) PROVE ~Turn(k, rate[t[m]])
            <6>1. CASE m < i
              <7>1. m \in 1..n /\ m \in 1..(j - 1)
                BY <1>2, <4>2, <5>1, <6>1
              <7> QED
                BY <1>11, <3>2, <6>1, <7>1
            <6>2. CASE m >= i
              <7>1. m \in 1..(n - 1) /\ m + 1 \in 1..(j - 1) /\ t[m] = l[m + 1]
                BY <1>2, <1>11, <4>2, <5>1, <6>2
              <7> QED
                BY <3>2, <7>1
            <6> QED
              BY <1>2, <6>1, <6>2
          <5> QED
            BY <5>2, <5>3
        <4>3. CASE j = i
          <5>1. Turn(k, rate[q]) /\ f[k] = g
            BY <1>2, <3>0, <3>2, <4>3
          <5>2. \A m \in 1..(i - 1) : m \in 1..n /\ m < i /\ m \in 1..(j - 1)
            BY <1>2, <4>3
          <5>3. \A m \in 1..(i - 1) : ~Turn(k, rate[t[m]])
            BY <1>11, <3>2, <5>2
          <5>4. CASE i < n
            <6>1. i \in 1..(n - 1) /\ i + 1 \in 1..n /\ t[i] = l[i + 1] /\ f[k] = t[i]
              BY <1>2, <1>5, <1>11, <5>1, <5>4
            <6>2. rate[l[i]] >= rate[l[i + 1]]
              BY <1>2, <2>2, <6>1
            <6>3. Turn(k, rate[t[i]])
              BY <1>2, <1>a, <1>15, <2>1, <5>1, <6>1, <6>2 DEF Nests
            <6> QED
              BY <5>3, <6>1, <6>3
          <5>5. CASE ~(i < n)
            <6>1. f[k] = NoQh
              BY <1>5, <5>1, <5>5
            <6>2. \A p \in 1..(n - 1) : p \in 1..(i - 1)
              BY <1>2, <5>5
            <6> QED
              BY <5>3, <6>1, <6>2
          <5> QED
            BY <5>4, <5>5
        <4> QED
          BY <1>2, <4>1, <4>2, <4>3
      <3>3. Enters(s, rate, k)
        BY <1>15 DEF Entered
      <3> QED
        BY <1>a, <1>12, <3>1, <3>2, <3>3 DEF Enters
    <2>5. \A k \in 1..Frames : Enters([list |-> t, frame |-> f], rate, k)
      BY <1>12, <2>4 DEF Enters
    <2> QED
      BY <2>3, <2>5 DEF Entered
  <1> QED
    BY <1>a, <1>4, <1>8, <1>9, <1>13, <1>14, <1>15 DEF Schedules

(* Then the controller visits in each frame the ones that are due.         *)
LEMMA VisitedIsDue ==
    ASSUME NEW s \in Schedules, NEW rate \in Rates, Once(s.list),
           Entered(s, rate), Nests(rate, ToSet(s.list)), NEW k \in 1..Frames
    PROVE  Visited(s, k) = Due(s, k, rate)
  <1>1. s.list \in Seq(Ids) /\ s.frame \in [1..Frames -> Ids \cup {NoQh}]
    BY DEF Schedules
  <1>a. PICK l \in Seq(Ids) : l = s.list
    BY <1>1
  <1>b. PICK n \in Nat : n = Len(l)
    OBVIOUS
  <1>2. DOMAIN l = 1..n /\ ToSet(l) = {l[j] : j \in 1..n} /\ ToSet(l) \subseteq Ids
    BY <1>b, ToSetIs
  <1>3. Due(s, k, rate) = {u \in ToSet(l) : Turn(k, rate[u])}
    BY <1>a DEF Due, Turn
  <1>4. NoQh \notin Ids
    BY UsbAssumption DEF Ids
  <1>5. CASE s.frame[k] = NoQh /\ \A j \in 1..n : ~Turn(k, rate[l[j]])
    <2>1. Visited(s, k) = {}
      BY <1>a, <1>2, <1>4, <1>5 DEF Visited
    <2>2. Due(s, k, rate) = {}
      BY <1>2, <1>3, <1>5
    <2> QED
      BY <2>1, <2>2
  <1>6. ASSUME NEW j \in 1..n, s.frame[k] = l[j], Turn(k, rate[l[j]]),
               \A m \in 1..(j - 1) : ~Turn(k, rate[l[m]])
        PROVE  Visited(s, k) = Due(s, k, rate)
    <2>0. l[j] \in ToSet(l)
      BY <1>2
    <2>1. Place(l, l[j]) = j
      <3>1. PICK q \in ToSet(l) : q = l[j]
        BY <2>0
      <3>2. Place(l, q) \in 1..Len(l) /\ l[Place(l, q)] = q
        BY PlaceIs
      <3> QED
        BY <1>a, <1>b, <1>2, <3>1, <3>2 DEF Once
    <2>2. Visited(s, k) = {l[m] : m \in j..n}
      BY <1>a, <1>b, <1>6, <2>0, <2>1 DEF Visited
    <2>3. ASSUME NEW m \in j..n PROVE l[m] \in ToSet(l) /\ Turn(k, rate[l[m]])
      <3>1. m \in 1..n /\ l[m] \in ToSet(l)
        BY <1>2
      <3>2. rate[l[j]] >= rate[l[m]]
        <4>1. CASE m = j
          <5>1. rate[l[j]] \in Nat
            BY <1>2, <2>0 DEF Rates
          <5> QED
            BY <4>1, <5>1
        <4>2. CASE j < m
          BY <1>a, <1>2, <3>1, <4>2 DEF Entered, Sorted
        <4> QED
          BY <4>1, <4>2
      <3> QED
        BY <1>a, <1>6, <2>0, <3>1, <3>2 DEF Nests
    <2>4. ASSUME NEW u \in ToSet(l), Turn(k, rate[u]) PROVE u \in {l[m] : m \in j..n}
      <3>1. PICK m \in 1..n : u = l[m]
        BY <1>2
      <3>2. m \notin 1..(j - 1)
        BY <1>6, <2>4, <3>1
      <3>3. m \in j..n
        BY <3>2
      <3> QED
        BY <3>1, <3>3
    <2> QED
      BY <1>3, <2>2, <2>3, <2>4
  <1>7. Enters(s, rate, k)
    BY DEF Entered
  <1> QED
    BY <1>a, <1>2, <1>5, <1>6, <1>7 DEF Enters

(* The queue heads of several devices are taken out one after the other.   *)
Remains(r, s, us, rate) ==
    /\ r \in Schedules /\ Once(r.list)
    /\ ToSet(r.list) \subseteq ToSet(s.list)
    /\ ToSet(s.list) \ us \subseteq ToSet(r.list)
    /\ Entered(s, rate) /\ Nests(rate, ToSet(s.list)) => Entered(r, rate)

LEMMA DelRemains ==
    ASSUME NEW s \in Schedules, NEW us, NEW rate \in Rates, NEW r, Remains(r, s, us, rate),
           NEW q \in us, q \in ToSet(r.list)
    PROVE  Remains(DelQhn(r, q, rate), s, us, rate) /\ q \notin ToSet(DelQhn(r, q, rate).list)
  <1>1. r \in Schedules /\ Once(r.list)
    BY DEF Remains
  <1>2. /\ DelQhn(r, q, rate) \in Schedules
        /\ Once(DelQhn(r, q, rate).list)
        /\ ToSet(DelQhn(r, q, rate).list) = ToSet(r.list) \ {q}
        /\ Entered(r, rate) /\ Nests(rate, ToSet(r.list)) =>
              Entered(DelQhn(r, q, rate), rate)
    BY <1>1, DelIs
  <1>3. Nests(rate, ToSet(s.list)) => Nests(rate, ToSet(r.list))
    BY DEF Nests, Remains
  <1> QED
    BY <1>2, <1>3 DEF Remains

LEMMA CancelIs ==
    ASSUME NEW s \in Schedules, NEW us \in SUBSET Ids, Rate \in Rates, Once(s.list)
    PROVE  /\ Remains(Cancelled(s, us), s, us, Rate)
           /\ ToSet(Cancelled(s, us).list) = ToSet(s.list) \ us
  <1>1. PICK rate \in Rates : rate = Rate
    OBVIOUS
  <1>2. PICK T : T = {r \in Schedules : Remains(r, s, us, rate)}
    OBVIOUS
  <1>3. \A r \in T : Remains(r, s, us, rate) /\ r \in Schedules
    BY <1>2
  <1>4. s \in T
    BY <1>2 DEF Remains
  <1>5. PICK G : G = [i \in Nat |-> [r \in T |->
                    IF MaxDevs + 1 - (i + 1) \in us /\ MaxDevs + 1 - (i + 1) \in ToSet(r.list)
                    THEN DelQhn(r, MaxDevs + 1 - (i + 1), rate) ELSE r]]
    OBVIOUS
  <1>6. G \in [Nat -> [T -> T]]
    <2>1. ASSUME NEW i \in Nat, NEW r \in T PROVE G[i][r] \in T
      <3>1. PICK u : u = MaxDevs + 1 - (i + 1)
        OBVIOUS
      <3>2. G[i][r] = IF u \in us /\ u \in ToSet(r.list) THEN DelQhn(r, u, rate) ELSE r
        BY <1>5, <3>1
      <3>3. CASE u \in us /\ u \in ToSet(r.list)
        <4>1. Remains(DelQhn(r, u, rate), s, us, rate)
          BY <1>3, <3>3, DelRemains
        <4> QED
          BY <1>2, <3>2, <3>3, <4>1 DEF Remains
      <3> QED
        BY <3>2, <3>3
    <2>2. ASSUME NEW i \in Nat PROVE G[i] \in [T -> T]
      <3>1. PICK g : g = G[i]
        OBVIOUS
      <3>2. g = [r \in T |-> g[r]]
        BY <1>5, <3>1
      <3>3. \A r \in T : g[r] \in T
        BY <2>1, <3>1
      <3> QED
        BY <3>1, <3>2, <3>3
    <2> QED
      BY <1>5, <2>2
  <1>7. PICK m \in Nat : m = MaxDevs
    BY UsbBounds
  <1>8. PICK f : Iterates(f, m, T, s, G)
    BY <1>4, <1>6, IteratesExist
  <1>9. PICK del : del = CHOOSE d : d = [n \in 0..MaxDevs |->
            IF n = 0 THEN s
            ELSE IF MaxDevs + 1 - n \in us /\ MaxDevs + 1 - n \in ToSet(d[n - 1].list)
                 THEN DelQhn(d[n - 1], MaxDevs + 1 - n, Rate) ELSE d[n - 1]]
    OBVIOUS
  <1>10. Cancelled(s, us) = del[MaxDevs]
    BY <1>9 DEF Cancelled
  <1>11. f = [n \in 0..MaxDevs |->
            IF n = 0 THEN s
            ELSE IF MaxDevs + 1 - n \in us /\ MaxDevs + 1 - n \in ToSet(f[n - 1].list)
                 THEN DelQhn(f[n - 1], MaxDevs + 1 - n, Rate) ELSE f[n - 1]]
    <2>1. ASSUME NEW n \in 0..m, n # 0
          PROVE  f[n] = IF MaxDevs + 1 - n \in us /\ MaxDevs + 1 - n \in ToSet(f[n - 1].list)
                        THEN DelQhn(f[n - 1], MaxDevs + 1 - n, Rate) ELSE f[n - 1]
      <3>1. PICK i \in 0..(m - 1) : i = n - 1
        BY <2>1
      <3>2. i + 1 = n /\ i \in Nat /\ i \in 0..m /\ MaxDevs + 1 - (i + 1) = MaxDevs + 1 - n
        BY <1>7, <3>1
      <3>3. f[n] = G[i][f[i]] /\ f[i] \in T
        BY <1>8, <3>2 DEF Iterates
      <3> QED
        BY <1>1, <1>5, <3>1, <3>2, <3>3
    <2>2. f[0] = s /\ f \in [0..m -> T]
      BY <1>8 DEF Iterates
    <2> QED
      BY <1>7, <2>1, <2>2
  <1>12. del = [n \in 0..MaxDevs |->
            IF n = 0 THEN s
            ELSE IF MaxDevs + 1 - n \in us /\ MaxDevs + 1 - n \in ToSet(del[n - 1].list)
                 THEN DelQhn(del[n - 1], MaxDevs + 1 - n, Rate) ELSE del[n - 1]]
    BY <1>9, <1>11
  <1>13. del[0] = s /\ \A n \in 1..m : del[n] =
             IF MaxDevs + 1 - n \in us /\ MaxDevs + 1 - n \in ToSet(del[n - 1].list)
             THEN DelQhn(del[n - 1], MaxDevs + 1 - n, rate) ELSE del[n - 1]
    BY <1>1, <1>7, <1>12
  <1>14. \A n \in 0..m : /\ Remains(del[n], s, us, rate)
                         /\ \A u \in us : u > m - n => u \notin ToSet(del[n].list)
    <2>1. PICK S : S = {n \in 0..m : ~(/\ Remains(del[n], s, us, rate)
                         /\ \A u \in us : u > m - n => u \notin ToSet(del[n].list))}
      OBVIOUS
    <2> SUFFICES ASSUME S # {} PROVE FALSE
      BY <2>1
    <2>2. S \in SUBSET Nat
      BY <2>1
    <2>3. PICK n \in S : \A k \in S : n <= k
      BY <2>2, LeastElement
    <2>4. n \in 0..m
      BY <2>1
    <2>5. CASE n = 0
      <3>1. Remains(del[0], s, us, rate)
        BY <1>3, <1>4, <1>13
      <3>2. \A u \in us : ~(u > m - 0)
        BY <1>7 DEF Ids
      <3> QED
        BY <2>1, <2>5, <3>1, <3>2
    <2>6. CASE n # 0
      <3>1. PICK i \in 0..m : i = n - 1
        BY <2>4, <2>6
      <3>2. n \in 1..m /\ ~(n <= i) /\ n - 1 = i /\ m - n = m - i - 1
        BY <2>4, <2>6, <3>1
      <3>3. Remains(del[i], s, us, rate) /\ \A u \in us : u > m - i => u \notin ToSet(del[i].list)
        BY <2>1, <2>3, <3>2
      <3>4. PICK v : v = MaxDevs + 1 - n
        OBVIOUS
      <3>5. del[n] = IF v \in us /\ v \in ToSet(del[i].list) THEN DelQhn(del[i], v, rate) ELSE del[i]
        BY <1>13, <3>2, <3>4
      <3>6. \A u \in us : u > m - n => u > m - i \/ u = v
        BY <1>7, <2>4, <3>2, <3>4 DEF Ids
      <3>7. CASE v \in us /\ v \in ToSet(del[i].list)
        <4>1. PICK r : r = del[i]
          OBVIOUS
        <4>2. Remains(DelQhn(r, v, rate), s, us, rate) /\ v \notin ToSet(DelQhn(r, v, rate).list)
          BY <3>3, <3>7, <4>1, DelRemains
        <4>3. ToSet(DelQhn(r, v, rate).list) = ToSet(r.list) \ {v}
          <5>1. r \in Schedules /\ Once(r.list)
            BY <3>3, <4>1 DEF Remains
          <5> QED
            BY <3>7, <4>1, <5>1, DelIs
        <4>4. \A u \in us : u > m - n => u \notin ToSet(del[n].list)
          BY <3>3, <3>5, <3>6, <3>7, <4>1, <4>3
        <4> QED
          BY <2>1, <3>5, <3>7, <4>1, <4>2, <4>4
      <3>8. CASE ~(v \in us /\ v \in ToSet(del[i].list))
        <4>1. \A u \in us : u > m - n => u \notin ToSet(del[n].list)
          BY <3>3, <3>5, <3>6, <3>8
        <4> QED
          BY <2>1, <3>3, <3>5, <3>8, <4>1
      <3> QED
        BY <3>7, <3>8
    <2> QED
      BY <2>5, <2>6
  <1>15. /\ Remains(del[m], s, us, rate)
         /\ \A u \in us : u \notin ToSet(del[m].list)
    <2>1. m \in 0..m /\ \A u \in us : u > m - m
      BY <1>7 DEF Ids
    <2> QED
      BY <1>14, <2>1
  <1> QED
    BY <1>1, <1>7, <1>10, <1>15 DEF Remains

(* Intervals that divide each other nest.                                  *)
Multiples ==
    \A t, u \in Things : Interval[t] >= Interval[u] => Interval[t] % Interval[u] = 0

LEMMA Quotient ==
    ASSUME NEW i \in Nat, NEW r \in Nat \ {0}, i % r = 0
    PROVE  \E k \in Nat : i = r * k
  <1>1. i = r * (i \div r) + (i % r) /\ i \div r \in Nat
    OBVIOUS
  <1> QED
    BY <1>1

LEMMA DividesBoth ==
    ASSUME NEW i \in Nat, NEW r \in Nat \ {0}, NEW s \in Nat \ {0}, i % r = 0, r % s = 0
    PROVE  i % s = 0
  <1>1. PICK k \in Nat : i = r * k
    BY Quotient
  <1>2. PICK j \in Nat : r = s * j
    BY Quotient
  <1>3. i = s * (j * k)
    BY <1>1, <1>2
  <1>4. PICK n \in Nat : n = j * k
    OBVIOUS
  <1>5. (s * n) % s = 0
    OBVIOUS
  <1> QED
    BY <1>3, <1>4, <1>5

(***************************************************************************)
(* The inductive invariant.                                                *)
(***************************************************************************)

NewSteps == {"address", "desc", "strings", "bind", "config", "power"}
PortSteps == HubSteps \cup {"desc8", "enable"} \cup NewSteps
Steps == PortSteps \cup {"idle", "walk", "root", "ack", "next", "resched", "hung"}
DevType == [st : {"none", "live", "freed"}, thing : Things \cup {Empty},
            hub : Ids \cup {Root}, socket : Sockets \cup {Null}, addr : Nat,
            data : {"none", "hub", "dangling"}]
IrqType == [at : Steps, sts : SUBSET {"INT", "PCD"}, cur : Ids \cup {NoQh},
            hub : Ids \cup {Root}, bm : SUBSET Sockets, port : Sockets \cup {Null},
            conn : BOOLEAN, en : BOOLEAN, new : Ids \cup {Null}]

WorldTypes ==
    /\ plug \in [Sockets -> Things \cup {Empty}]
    /\ chg \subseteq Sockets /\ enC \subseteq RootSockets
    /\ bus \in [Things -> Int]
    /\ plugs \in 0..MaxPlugs /\ faults \in 0..MaxFaults
    /\ intr \subseteq {"INT", "PCD"} /\ intbm \in [Ids -> SUBSET Sockets]
CoreTypes ==
    /\ td \in [Ids -> {"none", "active", "done"}]
    /\ dev \in [Ids -> DevType]
    /\ port \in [Ids \cup {Root} -> [Sockets -> Ids \cup {Null}]]
    /\ devlist \subseteq Ids /\ addrbm \subseteq 0..(NumDevices - 1)
    /\ nextAddr \in Nat /\ sched \in Schedules
    /\ halted \subseteq Ids /\ marks \subseteq Marks
IrqTypes ==
    /\ irq \in IrqType
    /\ irq.at \in PortSteps => irq.port \in Sockets
    /\ irq.at \in NewSteps => irq.new \in Ids
Types == WorldTypes /\ CoreTypes /\ IrqTypes

Listed == ToSet(sched.list)

\* The handler serves the root hub, or a hub that is live, bound and scheduled.
Serving ==
    /\ irq.at \in PortSteps \cup {"next", "resched"} /\ irq.hub # Root =>
          /\ irq.hub \in Live /\ dev[irq.hub].data = "hub"
          /\ irq.cur = irq.hub /\ irq.cur \in Listed
    /\ irq.at = "walk" => irq.cur = NoQh \/ irq.cur \in Listed

\* Structures are used in the order of their numbers.
Unused ==
    \A u \in Ids : dev[u].st = "none" =>
        /\ dev[u] = NoDev /\ u \notin devlist
        /\ \A s \in Sockets : port[u][s] = Null
        /\ \A v \in Ids : v > u => dev[v].st = "none"

\* A device comes after the hub it is on; only hubs are bound as hubs.
Tree ==
    /\ \A u \in Live : /\ dev[u].hub < u /\ dev[u].socket \in Sockets
                       /\ dev[u].data # "none" => IsHub(dev[u].thing)
                       /\ dev[u].hub # Root => IsHub(dev[dev[u].hub].thing)
    /\ \A u \in Ids : dev[u].data = "dangling" => "unbound" \in marks

\* Endpoints are those of live devices whose descriptor was read.
Endpoints ==
    /\ \A u \in Ids : td[u] # "none" =>
          /\ u \in Live /\ dev[u].thing # Empty
          /\ IsHub(dev[u].thing) => dev[u].data = "hub"
          /\ td[u] = "done" => IsHub(dev[u].thing)
    /\ \A u \in Listed :
          /\ u \in Live /\ dev[u].thing # Empty
          /\ IsHub(dev[u].thing) => dev[u].data = "hub"
    /\ Once(sched.list)

\* The device that is being set up is the last one.
Newest ==
    irq.at \in NewSteps =>
        /\ irq.new \in Live
        /\ dev[irq.new].hub = irq.hub /\ dev[irq.new].socket = irq.port
        /\ \A v \in Ids : v > irq.new => dev[v].st = "none"
        /\ irq.at = "address" => dev[irq.new].addr = 0 /\ irq.new \notin devlist
        /\ dev[irq.new].thing = Empty <=> irq.at \in {"address", "desc"}
        /\ irq.at \in {"address", "desc", "strings", "bind"} => dev[irq.new].data = "none"
        /\ irq.at \in {"bind", "config", "power"} =>
              /\ IsHub(dev[irq.new].thing) /\ td[irq.new] = "none"
              /\ irq.new \notin Listed
        /\ irq.at \in {"config", "power"} => dev[irq.new].data = "hub"

\* What a port points to is live and says so.
PortsSound ==
    /\ \A w \in Live \cup {Root}, s \in Sockets : port[w][s] # Null =>
          /\ port[w][s] \in Live
          /\ dev[port[w][s]].hub = w /\ dev[port[w][s]].socket = s
    /\ irq.at \in {"address", "desc", "strings"} =>
          \A w \in Live \cup {Root}, s \in Sockets : port[w][s] # irq.new

\* The list has live devices only, unless one failed when it was listed.
ListLive == "listed" \notin marks => devlist \subseteq Live

\* The new device, which has no address yet, and the one without a port.
Nameless(u) == irq.at = "address" /\ u = irq.new
Portless(u) == irq.at \in {"address", "desc", "strings"} /\ u = irq.new

\* Live devices have different addresses, that are taken in the map or were
\* found past its end.
Taken(a) == a \in addrbm \/ (NumDevices <= a /\ a < nextAddr)
Addresses ==
    /\ {0, 1} \subseteq addrbm /\ nextAddr >= 1 /\ nextAddr # NumDevices
    /\ "wild" \notin marks => nextAddr < NumDevices
    /\ \A u \in Live : Nameless(u) \/ (dev[u].addr >= 2 /\ Taken(dev[u].addr))
    /\ \A u, v \in Live : dev[u].addr = dev[v].addr => u = v

\* One search goes past the map for each structure.
Bounds ==
    /\ \A u \in Ids : dev[u].st = "none" => nextAddr < NumDevices + u
    /\ nextAddr <= NumDevices + MaxDevs
    /\ irq.at = "address" => nextAddr < NumDevices + irq.new
    /\ \A t \in Things : bus[t] >= Off /\ bus[t] <= NumDevices + MaxDevs

\* As long as nothing went wrong, the list is the live devices, ...
ListWhole ==
    marks \cap {"listed", "wild"} = {} =>
        /\ \A u \in Live : u \in devlist \/ Nameless(u)
        /\ \A a \in addrbm : a \in {0, 1} \/ \E u \in devlist : dev[u].addr = a

\* ... and each is on a port of a live hub.
Owners ==
    "replug" \notin marks /\ irq.at # "hung" =>
        \A u \in Live :
            /\ Portless(u) \/ port[dev[u].hub][dev[u].socket] = u
            /\ dev[u].hub # Root =>
                  dev[u].hub \in Live /\ dev[dev[u].hub].data = "hub"

(***************************************************************************)
(* What the actions do, one fact per variable.                             *)
(***************************************************************************)

LEMMA SocketsAre ==
    /\ RootSockets \subseteq Sockets /\ Sockets \subseteq Nat /\ Null \notin Sockets
    /\ \A h \in Hubs : HubSockets[h] \subseteq Sockets
    /\ \A t : Below(t) \subseteq Sockets
  <1>1. /\ RootSockets \subseteq Sockets
        /\ \A h \in Hubs : HubSockets[h] \subseteq Sockets
    BY DEF Sockets
  <1>2. Sockets \subseteq Nat
    BY UsbAssumption
  <1>3. Null \notin Sockets
    BY <1>2 DEF Null
  <1>4. \A t : Below(t) \subseteq Sockets
    BY <1>1 DEF Below, IsHub
  <1> QED
    BY <1>1, <1>2, <1>3, <1>4

LEMMA IdsAre ==
    /\ Ids \subseteq Nat \ {0} /\ 1 \in Ids /\ Root \notin Ids /\ Null \notin Ids
    /\ NoQh \notin Ids /\ Null # Root /\ MaxDevs \in Nat
  BY UsbAssumption, UsbBounds DEF Ids, Root, Null

LEMMA HubsAre == Hubs \subseteq Things /\ ~IsHub(Empty) /\ Empty \notin Things
  BY UsbAssumption DEF IsHub

\* A transaction, and one of the control endpoint of u.
Tried == faults' \in 0..MaxFaults /\ marks \subseteq marks' /\ marks' \subseteq Marks

LEMMA XactIs ==
    ASSUME Types, NEW a, NEW ok \in BOOLEAN, NEW m, Xact(a, ok, m)
    PROVE  faults' \in 0..MaxFaults /\ (ok => Answering(a) # {})
  <1>1. faults \in 0..MaxFaults
    BY DEF Types, WorldTypes
  <1>2. PICK S : S = Answering(a)
    OBVIOUS
  <1>3. \/ ok = (S # {}) /\ faults' = faults
        \/ ~ok /\ faults' = faults
        \/ ~ok /\ faults < MaxFaults /\ faults' = faults + 1
    BY <1>2 DEF Xact
  <1>4. ok => S # {}
    BY <1>3
  <1>5. faults' \in 0..MaxFaults
    BY <1>1, <1>3, UsbBounds
  <1> QED
    BY <1>2, <1>4, <1>5

LEMMA ControlIs ==
    ASSUME Types, NEW u \in Ids \cup {Root}, NEW ok \in BOOLEAN, NEW m, Control(u, ok, m)
    PROVE  /\ faults' \in 0..MaxFaults /\ u \notin halted
           /\ halted \subseteq halted' /\ halted' \subseteq Ids
           /\ ok => halted' = halted
           /\ ~ok => u \in halted' /\ u # Root
           /\ ok /\ u # Root => Answering(dev[u].addr) # {}
  <1>1. CASE u = Root
    BY <1>1 DEF Types, WorldTypes, CoreTypes, Control
  <1>2. CASE u # Root
    <2>1. Xact(dev[u].addr, ok, m) /\ u \notin halted /\ u \in Ids
          /\ halted' = (IF ok THEN halted ELSE halted \cup {u})
      BY <1>2 DEF Control
    <2>2. faults' \in 0..MaxFaults /\ (ok => Answering(dev[u].addr) # {})
      BY <2>1, XactIs
    <2> QED
      BY <1>2, <2>1, <2>2 DEF Types, CoreTypes
  <1> QED
    BY <1>1, <1>2

LEMMA OutcomesAre ==
    \A o \in Outcomes : o[1] \in BOOLEAN /\ o[2] \subseteq {"fault"} /\ o[2] \subseteq Marks
  <1>1. ASSUME NEW o \in Outcomes PROVE o[1] \in BOOLEAN /\ o[2] \subseteq {"fault"}
    BY DEF Outcomes
  <1> QED
    BY <1>1 DEF Marks

\* The handler goes on with the same port.
SamePort ==
    /\ irq' \in IrqType /\ irq'.hub = irq.hub /\ irq'.port = irq.port
    /\ irq'.bm = irq.bm /\ irq'.cur = irq.cur

\* A transaction with the hub on the way.
Asked ==
    /\ Tried /\ irq.hub \notin halted /\ halted \subseteq halted' /\ halted' \subseteq Ids
    /\ irq.at \in PortSteps /\ SamePort /\ irq'.new = irq.new

LEMMA PortStatusIs ==
    ASSUME Types, PortStatus
    PROVE  /\ Asked /\ irq.at = "status" /\ irq'.at \in {"clear", "enable"}
           /\ irq'.hub \notin halted' /\ ~irq'.conn => plug[irq.port] = Empty
           /\ UNCHANGED <<world, hc, core, sched>>
  <1>1. PICK o \in Outcomes, conn \in BOOLEAN, change \in BOOLEAN, en \in BOOLEAN :
            /\ HubStep("status", o[1], o[2])
            /\ o[1] => conn = (plug[irq.port] # Empty)
            /\ irq' = [irq EXCEPT !.conn = conn, !.en = en,
                                  !.at = IF change THEN "clear" ELSE "enable"]
            /\ marks' = marks \cup o[2]
            /\ UNCHANGED <<world, hc, core, sched>>
    BY DEF PortStatus
  <1>2. irq \in IrqType /\ irq.hub \in Ids \cup {Root} /\ marks \subseteq Marks
    BY DEF Types, CoreTypes, IrqTypes, IrqType
  <1>3. PICK ok \in BOOLEAN : ok = o[1]
    BY OutcomesAre
  <1>4. irq.at = "status" /\ Control(irq.hub, ok, o[2])
    BY <1>1, <1>3 DEF HubStep
  <1>5. /\ faults' \in 0..MaxFaults /\ irq.hub \notin halted
        /\ halted \subseteq halted' /\ halted' \subseteq Ids
        /\ ok => halted' = halted
        /\ ~ok => irq.hub \in halted'
    BY <1>2, <1>4, ControlIs
  <1>6. irq' \in IrqType /\ irq'.conn = conn /\ SamePort /\ irq'.new = irq.new
        /\ irq'.at \in {"clear", "enable"}
    <2>1. PICK at \in {"clear", "enable"} : at = IF change THEN "clear" ELSE "enable"
      OBVIOUS
    <2>2. irq' = [irq EXCEPT !.conn = conn, !.en = en, !.at = at]
      BY <1>1, <2>1
    <2>3. at \in Steps
      BY DEF Steps, PortSteps, HubSteps
    <2>4. /\ irq'.conn = conn /\ irq'.at = at /\ irq'.hub = irq.hub
          /\ irq'.port = irq.port /\ irq'.bm = irq.bm /\ irq'.cur = irq.cur
          /\ irq'.new = irq.new /\ irq' \in IrqType
      BY <1>2, <2>2, <2>3 DEF IrqType
    <2> QED
      BY <2>4 DEF SamePort
  <1>7. Tried
    BY <1>1, <1>2, <1>5, OutcomesAre DEF Tried
  <1> QED
    BY <1>1, <1>3, <1>4, <1>5, <1>6, <1>7 DEF Asked, PortSteps, HubSteps, SamePort

LEMMA ClearConnectionIs ==
    ASSUME Types, ClearConnection
    PROVE  /\ Asked /\ irq.at = "clear"
           /\ irq'.at = IF irq.conn THEN "reset" ELSE "suspend"
           /\ chg' \subseteq Sockets
           /\ UNCHANGED <<plug, enC, bus, plugs, hc, core, sched>>
  <1>1. PICK o \in Outcomes :
            /\ HubStep("clear", o[1], o[2])
            /\ chg' = IF o[1] THEN chg \ {irq.port} ELSE chg
            /\ irq' = [irq EXCEPT !.at = IF irq.conn THEN "reset" ELSE "suspend"]
            /\ marks' = marks \cup o[2] \cup
                   (IF irq.conn # (plug[irq.port] # Empty) THEN {"raced"} ELSE {})
            /\ UNCHANGED <<plug, enC, bus, plugs, hc, core, sched>>
    BY DEF ClearConnection
  <1>2. irq \in IrqType /\ irq.hub \in Ids \cup {Root} /\ marks \subseteq Marks /\ chg \subseteq Sockets
    BY DEF Types, WorldTypes, CoreTypes, IrqTypes, IrqType
  <1>3. PICK ok \in BOOLEAN : ok = o[1]
    BY OutcomesAre
  <1>4. irq.at = "clear" /\ Control(irq.hub, ok, o[2])
    BY <1>1, <1>3 DEF HubStep
  <1>5. /\ faults' \in 0..MaxFaults /\ irq.hub \notin halted
        /\ halted \subseteq halted' /\ halted' \subseteq Ids
    BY <1>2, <1>4, ControlIs
  <1>6. irq' \in IrqType /\ SamePort /\ irq'.new = irq.new
        /\ irq'.at = IF irq.conn THEN "reset" ELSE "suspend"
    BY <1>1, <1>2 DEF IrqType, SamePort, Steps, PortSteps, HubSteps
  <1>7. Tried
    BY <1>1, <1>2, <1>5, OutcomesAre DEF Tried, Marks
  <1> QED
    BY <1>1, <1>2, <1>4, <1>5, <1>6, <1>7 DEF Asked, PortSteps, HubSteps

LEMMA ResetIs ==
    ASSUME Types, Reset
    PROVE  /\ Asked
           /\ \/ irq.at = "reset" /\ irq'.at = "settle"
              \/ irq.at = "again" /\ irq'.at = "enable" /\ (plug[irq.port] # Empty => "stray" \in marks')
           /\ enC' \subseteq RootSockets
           /\ \E ok \in BOOLEAN :
                 /\ bus' = [t \in Things |-> IF ok /\ t = plug[irq.port] THEN 0 ELSE bus[t]]
                 /\ ok /\ irq.hub # Root => Answering(dev[irq.hub].addr) # {}
           /\ UNCHANGED <<plug, chg, plugs, hc, core, sched>>
  <1>1. PICK o \in Outcomes, step \in {"reset", "again"} :
            /\ HubStep(step, o[1], o[2])
            /\ ResetPort(o[1])
            /\ irq' = [irq EXCEPT !.at = IF step = "reset" THEN "settle" ELSE "enable"]
            /\ marks' = marks \cup o[2] \cup
                   (IF step = "again" /\ plug[irq.port] # Empty THEN {"stray"} ELSE {})
            /\ UNCHANGED <<hc, core, sched>>
    BY DEF Reset
  <1>2. /\ irq \in IrqType /\ irq.hub \in Ids \cup {Root} /\ marks \subseteq Marks
        /\ enC \subseteq RootSockets
    BY DEF Types, WorldTypes, CoreTypes, IrqTypes, IrqType
  <1>3. PICK ok \in BOOLEAN : ok = o[1]
    BY OutcomesAre
  <1>4. irq.at = step /\ Control(irq.hub, ok, o[2])
    BY <1>1, <1>3 DEF HubStep
  <1>5. /\ faults' \in 0..MaxFaults /\ irq.hub \notin halted
        /\ halted \subseteq halted' /\ halted' \subseteq Ids
        /\ ok /\ irq.hub # Root => Answering(dev[irq.hub].addr) # {}
    BY <1>2, <1>4, ControlIs
  <1>6. irq' \in IrqType /\ SamePort /\ irq'.new = irq.new
        /\ irq'.at = IF step = "reset" THEN "settle" ELSE "enable"
    BY <1>1, <1>2 DEF IrqType, SamePort, Steps, PortSteps, HubSteps
  <1>7. Tried
    BY <1>1, <1>2, <1>5, OutcomesAre DEF Tried, Marks
  <1>8. Asked
    BY <1>4, <1>5, <1>6, <1>7 DEF Asked, PortSteps, HubSteps
  <1>9. /\ bus' = [t \in Things |-> IF ok /\ t = plug[irq.port] THEN 0 ELSE bus[t]]
        /\ enC' \subseteq RootSockets
        /\ UNCHANGED <<plug, chg, plugs, hc, core, sched>>
    BY <1>1, <1>2, <1>3 DEF ResetPort
  <1>10. step = "again" /\ plug[irq.port] # Empty => "stray" \in marks'
    BY <1>1
  <1> QED
    BY <1>4, <1>5, <1>6, <1>8, <1>9, <1>10

LEMMA SettleIs ==
    ASSUME Types, Settle
    PROVE  /\ Asked /\ irq.at = "settle" /\ irq'.at = "desc8"
           /\ UNCHANGED <<world, hc, core, sched>>
  <1>1. PICK o \in Outcomes :
            /\ HubStep("settle", o[1], o[2])
            /\ irq' = [irq EXCEPT !.at = "desc8"]
            /\ marks' = marks \cup o[2]
            /\ UNCHANGED <<world, hc, core, sched>>
    BY DEF Settle
  <1>2. irq \in IrqType /\ irq.hub \in Ids \cup {Root} /\ marks \subseteq Marks
    BY DEF Types, CoreTypes, IrqTypes, IrqType
  <1>3. PICK ok \in BOOLEAN : ok = o[1]
    BY OutcomesAre
  <1>4. irq.at = "settle" /\ Control(irq.hub, ok, o[2])
    BY <1>1, <1>3 DEF HubStep
  <1>5. /\ faults' \in 0..MaxFaults /\ irq.hub \notin halted
        /\ halted \subseteq halted' /\ halted' \subseteq Ids
    BY <1>2, <1>4, ControlIs
  <1>6. irq' \in IrqType /\ SamePort /\ irq'.new = irq.new /\ irq'.at = "desc8"
    BY <1>1, <1>2 DEF IrqType, SamePort, Steps, PortSteps, HubSteps
  <1>7. Tried
    BY <1>1, <1>2, <1>5, OutcomesAre DEF Tried, Marks
  <1> QED
    BY <1>1, <1>4, <1>5, <1>6, <1>7 DEF Asked, PortSteps, HubSteps

LEMMA PortEnableIs ==
    ASSUME Types, PortEnable
    PROVE  /\ Tried /\ halted \subseteq halted' /\ halted' \subseteq Ids
           /\ SamePort /\ irq'.new = irq.new
           /\ irq.at = "enable" /\ irq'.at = "next" /\ chg' \subseteq Sockets
           /\ UNCHANGED <<plug, enC, bus, plugs, hc, core, sched>>
  <1>1. /\ irq.at = "enable" /\ irq' = [irq EXCEPT !.at = "next"]
        /\ UNCHANGED <<plug, enC, bus, plugs, hc, core, sched>>
    BY DEF PortEnable
  <1>2. irq \in IrqType /\ irq.hub \in Ids \cup {Root} /\ marks \subseteq Marks /\ chg \subseteq Sockets
        /\ halted \subseteq Ids /\ faults \in 0..MaxFaults
    BY DEF Types, WorldTypes, CoreTypes, IrqTypes, IrqType
  <1>3. SamePort /\ irq'.new = irq.new /\ irq'.at = "next"
    BY <1>1, <1>2 DEF IrqType, SamePort, Steps, PortSteps, HubSteps
  <1>4. CASE irq.en
    <2>1. PICK o \in Outcomes :
                /\ Control(irq.hub, o[1], o[2])
                /\ chg' = IF o[1] THEN chg \ {irq.port} ELSE chg
                /\ marks' = marks \cup o[2] \cup
                       (IF irq.port \in chg THEN {"wiped"} ELSE {})
      BY <1>4 DEF PortEnable
    <2>2. PICK ok \in BOOLEAN : ok = o[1]
      BY OutcomesAre
    <2>3. /\ faults' \in 0..MaxFaults
          /\ halted \subseteq halted' /\ halted' \subseteq Ids
      BY <1>2, <2>1, <2>2, ControlIs
    <2>4. Tried
      BY <1>2, <2>1, <2>3, OutcomesAre DEF Tried, Marks
    <2> QED
      BY <1>1, <1>2, <1>3, <2>1, <2>3, <2>4
  <1>5. CASE ~irq.en
    <2>1. UNCHANGED <<chg, faults, halted, marks>>
      BY <1>5 DEF PortEnable
    <2> QED
      BY <1>1, <1>2, <1>3, <2>1 DEF Tried
  <1> QED
    BY <1>4, <1>5

\* A structure that was just allocated, and one that was freed.
Allocated(st) == [st |-> st, thing |-> Empty, hub |-> irq.hub, socket |-> irq.port,
                  addr |-> 0, data |-> "none"]
Dead(t) == [st |-> "freed", thing |-> t, hub |-> Root, socket |-> Null,
            addr |-> 0, data |-> "none"]

LEMMA FreeIs == \A d : Free(d) = Dead(d.thing)
  <1>1. ASSUME NEW d PROVE Free(d) = Dead(d.thing)
    <2>1. PICK t : t = d.thing
      OBVIOUS
    <2>2. PICK f : f = NoDev
      OBVIOUS
    <2>3. PICK g : g = [f EXCEPT !.st = "freed", !.thing = t]
      OBVIOUS
    <2>4. g = Dead(t)
      <3>1. /\ g.st = "freed" /\ g.thing = t /\ g.hub = Root /\ g.socket = Null
            /\ g.addr = 0 /\ g.data = "none"
            /\ DOMAIN g = {"st", "thing", "hub", "socket", "addr", "data"}
        BY <2>2, <2>3 DEF NoDev
      <3>2. g = [x \in DOMAIN g |-> g[x]]
        BY <2>3
      <3> QED
        BY <3>1, <3>2 DEF Dead
    <2> QED
      BY <2>1, <2>2, <2>3, <2>4 DEF Free
  <1> QED
    BY <1>1

LEMMA NewDeviceIs ==
    ASSUME Types, NewDevice
    PROVE  /\ Tried /\ SamePort /\ irq.at = "desc8"
           /\ irq'.new \in Ids /\ dev[irq'.new].st = "none"
           /\ \A v \in Ids : v < irq'.new => dev[v].st # "none"
           /\ \/ /\ irq'.at = "address"
                 /\ dev' = [dev EXCEPT ![irq'.new] = Allocated("live")]
              \/ /\ irq'.at = "again"
                 /\ dev' = [dev EXCEPT ![irq'.new] = Allocated("freed")]
           /\ dev' \in [Ids -> DevType]
           /\ UNCHANGED <<world, hc, port, devlist, addrbm, nextAddr, sched, halted>>
  <1>1. PICK u \in Ids, o \in Outcomes :
        /\ dev[u].st = "none" /\ \A v \in 1..(u - 1) : dev[v].st # "none"
        /\ Xact(0, o[1], o[2])
        /\ dev' = [dev EXCEPT ![u] = [NoDev EXCEPT
                      !.st = IF o[1] THEN "live" ELSE "freed",
                      !.hub = irq.hub, !.socket = irq.port]]
        /\ irq' = [irq EXCEPT !.new = u, !.at = IF o[1] THEN "address" ELSE "again"]
        /\ marks' = marks \cup o[2]
    BY DEF NewDevice
  <1>2. /\ irq.at = "desc8"
        /\ UNCHANGED <<world, hc, port, devlist, addrbm, nextAddr, sched, halted>>
    BY DEF NewDevice
  <1>3. irq \in IrqType /\ marks \subseteq Marks /\ irq.port \in Sockets
        /\ irq.hub \in Ids \cup {Root} /\ dev \in [Ids -> DevType]
    BY <1>2 DEF Types, CoreTypes, IrqTypes, IrqType, PortSteps, HubSteps
  <1>4. PICK ok \in BOOLEAN : ok = o[1]
    BY OutcomesAre
  <1>5. faults' \in 0..MaxFaults
    BY <1>1, <1>4, XactIs
  <1>6. PICK at \in {"address", "again"} : at = IF ok THEN "address" ELSE "again"
    OBVIOUS
  <1>7. at \in Steps
    BY DEF Steps, PortSteps, HubSteps, NewSteps
  <1>8. irq' = [irq EXCEPT !.new = u, !.at = at]
    BY <1>1, <1>4, <1>6
  <1>9. SamePort /\ irq'.new = u /\ irq'.at = at
    BY <1>3, <1>7, <1>8 DEF SamePort, IrqType
  <1>10. PICK st \in {"live", "freed"} : st = IF ok THEN "live" ELSE "freed"
    OBVIOUS
  <1>11. dev' = [dev EXCEPT ![u] = Allocated(st)]
    <2>1. PICK f, w, p : f = NoDev /\ w = irq.hub /\ p = irq.port
      OBVIOUS
    <2>2. PICK g : g = [f EXCEPT !.st = st, !.hub = w, !.socket = p]
      OBVIOUS
    <2>3. g = Allocated(st)
      <3>1. /\ g.st = st /\ g.thing = Empty /\ g.hub = w /\ g.socket = p
            /\ g.addr = 0 /\ g.data = "none"
            /\ DOMAIN g = {"st", "thing", "hub", "socket", "addr", "data"}
        BY <2>1, <2>2 DEF NoDev
      <3>2. g = [x \in DOMAIN g |-> g[x]]
        BY <2>2
      <3> QED
        BY <2>1, <3>1, <3>2 DEF Allocated
    <2>4. dev' = [dev EXCEPT ![u] = g]
      BY <1>1, <1>4, <1>10, <2>1, <2>2
    <2> QED
      BY <2>3, <2>4
  <1>12. Allocated(st) \in DevType
    BY <1>3 DEF Allocated, DevType
  <1>13. dev' \in [Ids -> DevType]
    BY <1>3, <1>11, <1>12
  <1>14. \A v \in Ids : v < u => v \in 1..(u - 1)
    BY IdsAre
  <1>15. Tried
    BY <1>1, <1>3, <1>5, OutcomesAre DEF Tried
  <1>16. \/ irq'.at = "address" /\ dev' = [dev EXCEPT ![irq'.new] = Allocated("live")]
         \/ irq'.at = "again" /\ dev' = [dev EXCEPT ![irq'.new] = Allocated("freed")]
    BY <1>6, <1>9, <1>10, <1>11
  <1> QED
    BY <1>1, <1>2, <1>9, <1>13, <1>14, <1>15, <1>16

\* The address that is found.
Found(a) ==
    \/ a \in 2..(NumDevices - 1) /\ a \notin addrbm /\ nextAddr < NumDevices
    \/ a = NumDevices /\ nextAddr < NumDevices
    \/ a = nextAddr /\ nextAddr > NumDevices

LEMMA SearchIs ==
    ASSUME Types, {0, 1} \subseteq addrbm, nextAddr >= 1, nextAddr # NumDevices,
           addrbm # 0..(NumDevices - 1), NEW a \in SearchAddr
    PROVE  Found(a) /\ a \in Nat
  <1>1. nextAddr \in Nat /\ NumDevices \in Nat /\ NumDevices >= 3 /\ addrbm \subseteq 0..(NumDevices - 1)
    BY UsbAssumption DEF Types, CoreTypes
  <1>2. CASE nextAddr >= NumDevices
    <2>0. FreeFrom(nextAddr) = {}
      BY <1>1, <1>2 DEF FreeFrom
    <2>1. a = nextAddr
      BY <1>2, <2>0 DEF SearchAddr
    <2> QED
      BY <1>1, <1>2, <2>1 DEF Found
  <1>3. ASSUME NEW i \in Nat, i >= 1, FreeFrom(i) # {}
        PROVE  Min(FreeFrom(i)) \in 2..(NumDevices - 1) /\ Min(FreeFrom(i)) \notin addrbm
    <2>1. PICK S : S = FreeFrom(i)
      OBVIOUS
    <2>2. \A x \in S : x \in 2..(NumDevices - 1) /\ x \notin addrbm
      <3>1. \A x \in S : x \in i..(NumDevices - 1) /\ x \notin addrbm
        BY <2>1 DEF FreeFrom
      <3>2. ASSUME NEW x \in S PROVE x \in 2..(NumDevices - 1) /\ x \notin addrbm
        <4>1. x \in i..(NumDevices - 1) /\ x \notin addrbm
          BY <3>1
        <4>2. x # 1
          BY <4>1
        <4> QED
          BY <1>1, <1>3, <4>1, <4>2
      <3> QED
        BY <3>2
    <2>3. S \in SUBSET Nat /\ S # {}
      <3>1. \A x \in S : x \in Nat
        BY <2>2
      <3> QED
        BY <1>3, <2>1, <3>1
    <2>4. Min(S) \in S
      BY <2>3, MinIn
    <2> QED
      BY <2>1, <2>2, <2>4
  <1>4. CASE nextAddr < NumDevices /\ FreeFrom(nextAddr) # {}
    <2>1. a = Min(FreeFrom(nextAddr))
      BY <1>1, <1>4 DEF SearchAddr
    <2>2. a \in 2..(NumDevices - 1) /\ a \notin addrbm
      BY <1>1, <1>3, <1>4, <2>1
    <2> QED
      BY <1>1, <1>4, <2>2 DEF Found
  <1>5. CASE nextAddr < NumDevices /\ FreeFrom(nextAddr) = {}
    <2>1. a = NumDevices \/ a = Min(FreeFrom(1))
      BY <1>1, <1>5 DEF SearchAddr
    <2>2. FreeFrom(1) # {}
      <3>1. PICK x \in 0..(NumDevices - 1) : x \notin addrbm
        BY <1>1
      <3>2. x \in 1..(NumDevices - 1)
        <4>1. x # 0
          BY <3>1
        <4> QED
          BY <1>1, <4>1
      <3> QED
        BY <3>1, <3>2 DEF FreeFrom
    <2>3. Min(FreeFrom(1)) \in 2..(NumDevices - 1) /\ Min(FreeFrom(1)) \notin addrbm
      <3>1. PICK i \in Nat : i = 1
        OBVIOUS
      <3> QED
        BY <1>3, <2>2, <3>1
    <2>4. CASE a = NumDevices
      BY <1>1, <1>5, <2>4 DEF Found
    <2>5. CASE a = Min(FreeFrom(1))
      BY <1>1, <1>5, <2>3, <2>5 DEF Found
    <2> QED
      BY <2>1, <2>4, <2>5
  <1> QED
    BY <1>1, <1>2, <1>4, <1>5

\* The address a is listed for the new device.
Lists(a) ==
    /\ Found(a) /\ a \in Nat
    /\ devlist' = devlist \cup {irq.new}
    /\ addrbm' = IF a < NumDevices THEN addrbm \cup {a} ELSE addrbm
    /\ nextAddr' = IF a + 1 = NumDevices THEN 1 ELSE a + 1
    /\ a >= NumDevices => "wild" \in marks'

LEMMA SetAddressIs ==
    ASSUME Types, Addresses, SetAddress
    PROVE  /\ Tried /\ SamePort /\ irq'.new = irq.new /\ irq.at = "address"
           /\ \/ /\ irq'.at = "desc"
                 /\ \E a : /\ Lists(a)
                           /\ dev' = [dev EXCEPT ![irq.new].addr = a]
                           /\ bus' = [t \in Things |-> IF bus[t] = 0 THEN a ELSE bus[t]]
              \/ /\ irq'.at = "again" /\ bus' = bus /\ "listed" \in marks'
                 /\ dev' = [dev EXCEPT ![irq.new] = Dead(dev[irq.new].thing)]
                 /\ \E a : Lists(a)
              \/ /\ irq'.at = "again" /\ bus' = bus
                 /\ dev' = [dev EXCEPT ![irq.new] = Dead(dev[irq.new].thing)]
                 /\ UNCHANGED <<devlist, addrbm, nextAddr>>
           /\ UNCHANGED <<plug, chg, enC, plugs, hc, port, sched, halted>>
  <1>1. irq.at = "address" /\ UNCHANGED <<plug, chg, enC, plugs, hc, port, sched, halted>>
    BY DEF SetAddress
  <1>2. irq \in IrqType /\ marks \subseteq Marks /\ faults \in 0..MaxFaults
        /\ bus \in [Things -> Int]
    BY DEF Types, WorldTypes, CoreTypes, IrqTypes, IrqType
  <1>3. Freed(irq.new) <=> dev' = [dev EXCEPT ![irq.new] = Dead(dev[irq.new].thing)]
    BY FreeIs DEF Freed
  <1>4. ASSUME NEW at \in {"desc", "again"}, irq' = [irq EXCEPT !.at = at]
        PROVE  SamePort /\ irq'.new = irq.new /\ irq'.at = at
    <2>1. at \in Steps
      BY DEF Steps, PortSteps, HubSteps, NewSteps
    <2> QED
      BY <1>2, <1>4, <2>1 DEF SamePort, IrqType
  <1>5. CASE addrbm = 0..(NumDevices - 1)
    <2>1. Freed(irq.new) /\ irq' = [irq EXCEPT !.at = "again"]
          /\ UNCHANGED <<bus, faults, devlist, addrbm, nextAddr, marks>>
      BY <1>5 DEF SetAddress
    <2>2. Tried
      BY <1>2, <2>1 DEF Tried
    <2> QED
      BY <1>1, <1>3, <1>4, <2>1, <2>2
  <1>6. CASE addrbm # 0..(NumDevices - 1)
    <2>1. PICK a \in SearchAddr, o \in Outcomes :
            /\ DevlistInsert(irq.new, a)
            /\ Xact(0, o[1], o[2])
            /\ IF o[1] THEN dev' = [dev EXCEPT ![irq.new].addr = a]
               ELSE Freed(irq.new)
            /\ bus' = [t \in Things |-> IF o[1] /\ bus[t] = 0 THEN a ELSE bus[t]]
            /\ irq' = [irq EXCEPT !.at = IF o[1] THEN "desc" ELSE "again"]
            /\ marks' = marks \cup o[2] \cup (IF o[1] THEN {} ELSE {"listed"})
                              \cup (IF a >= NumDevices THEN {"wild"} ELSE {})
      BY <1>6 DEF SetAddress
    <2>2. PICK ok \in BOOLEAN : ok = o[1]
      BY OutcomesAre
    <2>3. faults' \in 0..MaxFaults
      BY <2>1, <2>2, XactIs
    <2>4. Tried
      BY <1>2, <2>1, <2>3, OutcomesAre DEF Tried, Marks
    <2>5. Found(a) /\ a \in Nat
      BY <1>6, SearchIs DEF Addresses
    <2>6. Lists(a)
      BY <2>1, <2>5 DEF Lists, DevlistInsert
    <2>7. CASE ok
      BY <1>1, <1>4, <2>1, <2>2, <2>4, <2>6, <2>7
    <2>8. CASE ~ok
      <3>1. bus' = bus
        BY <1>2, <2>1, <2>2, <2>8
      <3>2. irq' = [irq EXCEPT !.at = "again"] /\ "listed" \in marks' /\ Freed(irq.new)
        BY <2>1, <2>2, <2>8
      <3> QED
        BY <1>1, <1>3, <1>4, <2>4, <2>6, <3>1, <3>2
    <2> QED
      BY <2>7, <2>8
  <1> QED
    BY <1>5, <1>6

LEMMA GetDescriptorIs ==
    ASSUME Types, GetDescriptor
    PROVE  /\ Tried /\ SamePort /\ irq'.new = irq.new /\ irq.at = "desc"
           /\ \/ /\ irq'.at = "strings"
                 /\ \E t \in Things : /\ bus[t] = dev[irq.new].addr
                                      /\ dev' = [dev EXCEPT ![irq.new].thing = t]
              \/ /\ irq'.at = "again" /\ "listed" \in marks'
                 /\ dev' = [dev EXCEPT ![irq.new] = Dead(dev[irq.new].thing)]
           /\ UNCHANGED <<world, hc, port, devlist, addrbm, nextAddr, sched, halted>>
  <1>1. irq.at = "desc" /\ UNCHANGED <<world, hc, port, devlist, addrbm, nextAddr, sched, halted>>
    BY DEF GetDescriptor
  <1>2. irq \in IrqType /\ marks \subseteq Marks
    BY DEF Types, CoreTypes, IrqTypes
  <1>3. Freed(irq.new) <=> dev' = [dev EXCEPT ![irq.new] = Dead(dev[irq.new].thing)]
    BY FreeIs DEF Freed
  <1>4. PICK o \in Outcomes :
        /\ Xact(dev[irq.new].addr, o[1], o[2])
        /\ IF o[1] THEN \E t \in Answering(dev[irq.new].addr) :
                            dev' = [dev EXCEPT ![irq.new].thing = t]
           ELSE Freed(irq.new)
        /\ irq' = [irq EXCEPT !.at = IF o[1] THEN "strings" ELSE "again"]
        /\ marks' = marks \cup o[2] \cup (IF o[1] THEN {} ELSE {"listed"})
    BY DEF GetDescriptor
  <1>5. PICK ok \in BOOLEAN : ok = o[1]
    BY OutcomesAre
  <1>6. faults' \in 0..MaxFaults
    BY <1>4, <1>5, XactIs
  <1>7. Tried
    BY <1>2, <1>4, <1>6, OutcomesAre DEF Tried, Marks
  <1>8. PICK at \in {"strings", "again"} : at = IF ok THEN "strings" ELSE "again"
    OBVIOUS
  <1>9. at \in Steps
    BY DEF Steps, PortSteps, HubSteps, NewSteps
  <1>10. irq' = [irq EXCEPT !.at = at]
    BY <1>4, <1>5, <1>8
  <1>11. SamePort /\ irq'.new = irq.new /\ irq'.at = at
    BY <1>2, <1>9, <1>10 DEF SamePort, IrqType
  <1>12. CASE ok
    BY <1>1, <1>4, <1>5, <1>7, <1>8, <1>11, <1>12 DEF Answering
  <1>13. CASE ~ok
    BY <1>1, <1>3, <1>4, <1>5, <1>7, <1>8, <1>11, <1>13
  <1> QED
    BY <1>12, <1>13

LEMMA StringsIs ==
    ASSUME Types, Strings
    PROVE  /\ Tried /\ SamePort /\ irq'.new = irq.new /\ irq.at = "strings"
           /\ halted \subseteq halted' /\ halted' \subseteq Ids
           /\ irq'.at = IF IsHub(dev[irq.new].thing) THEN "bind" ELSE "enable"
           /\ port' = [port EXCEPT ![irq.hub][irq.port] = irq.new]
           /\ port[irq.hub][irq.port] # Null => "replug" \in marks'
           /\ UNCHANGED <<world, hc, dev, devlist, addrbm, nextAddr, sched>>
  <1>1. irq.at = "strings" /\ UNCHANGED <<world, hc, dev, devlist, addrbm, nextAddr, sched>>
    BY DEF Strings
  <1>2. irq \in IrqType /\ marks \subseteq Marks /\ faults \in 0..MaxFaults /\ halted \subseteq Ids
    BY DEF Types, WorldTypes, CoreTypes, IrqTypes
  <1>3. /\ port' = [port EXCEPT ![irq.hub][irq.port] = irq.new]
        /\ irq' = [irq EXCEPT !.at = IF IsHub(dev[irq.new].thing) THEN "bind"
                                     ELSE "enable"]
        /\ marks' = marks \cup
               (IF port[irq.hub][irq.port] # Null THEN {"replug"} ELSE {})
    BY DEF Strings
  <1>5. /\ faults' \in 0..MaxFaults
        /\ halted \subseteq halted' /\ halted' \subseteq Ids
    BY <1>2 DEF Strings
  <1>6. Tried
    BY <1>2, <1>3, <1>5 DEF Tried, Marks
  <1>7. PICK at \in {"bind", "enable"} : at = IF IsHub(dev[irq.new].thing) THEN "bind" ELSE "enable"
    OBVIOUS
  <1>8. at \in Steps
    BY DEF Steps, PortSteps, HubSteps, NewSteps
  <1>9. irq' = [irq EXCEPT !.at = at]
    BY <1>3, <1>7
  <1>10. SamePort /\ irq'.new = irq.new /\ irq'.at = at
    BY <1>2, <1>8, <1>9 DEF SamePort, IrqType
  <1> QED
    BY <1>1, <1>3, <1>5, <1>6, <1>7, <1>10

LEMMA BindHubIs ==
    ASSUME Types, BindHub
    PROVE  /\ Tried /\ SamePort /\ irq'.new = irq.new
           /\ halted \subseteq halted' /\ halted' \subseteq Ids
           /\ \/ /\ \/ irq.at = "bind" /\ irq'.at = "config"
                    \/ irq.at = "config" /\ irq'.at = "power"
                 /\ dev' = [dev EXCEPT ![irq.new].data = "hub"]
              \/ /\ irq.at \in {"bind", "config"} /\ irq'.at = "enable"
                 /\ dev' = [dev EXCEPT ![irq.new].data = "dangling"]
                 /\ "unbound" \in marks'
           /\ UNCHANGED <<world, hc, port, devlist, addrbm, nextAddr, sched>>
  <1>1. PICK o \in Outcomes, step \in {"bind", "config"} :
        /\ irq.at = step
        /\ Control(irq.new, o[1], o[2])
        /\ dev' = [dev EXCEPT ![irq.new].data = IF o[1] THEN "hub"
                                                ELSE "dangling"]
        /\ irq' = [irq EXCEPT !.at = IF ~o[1] THEN "enable"
                                     ELSE IF step = "bind" THEN "config"
                                     ELSE "power"]
        /\ marks' = marks \cup o[2] \cup (IF o[1] THEN {} ELSE {"unbound"})
        /\ UNCHANGED <<world, hc, port, devlist, addrbm, nextAddr, sched>>
    BY DEF BindHub
  <1>2. irq \in IrqType /\ marks \subseteq Marks /\ irq.new \in Ids
    BY <1>1 DEF Types, CoreTypes, IrqTypes, NewSteps
  <1>4. PICK ok \in BOOLEAN : ok = o[1]
    BY OutcomesAre
  <1>5. /\ faults' \in 0..MaxFaults
        /\ halted \subseteq halted' /\ halted' \subseteq Ids
    BY <1>1, <1>2, <1>4, ControlIs
  <1>6. Tried
    BY <1>1, <1>2, <1>5, OutcomesAre DEF Tried, Marks
  <1>7. PICK at \in {"config", "power", "enable"} :
            at = IF ~ok THEN "enable" ELSE IF step = "bind" THEN "config" ELSE "power"
    OBVIOUS
  <1>8. at \in Steps
    BY DEF Steps, PortSteps, HubSteps, NewSteps
  <1>9. irq' = [irq EXCEPT !.at = at]
    BY <1>1, <1>4, <1>7
  <1>10. SamePort /\ irq'.new = irq.new /\ irq'.at = at
    BY <1>2, <1>8, <1>9 DEF SamePort, IrqType
  <1>11. CASE ok
    BY <1>1, <1>4, <1>5, <1>6, <1>7, <1>10, <1>11
  <1>12. CASE ~ok
    BY <1>1, <1>4, <1>5, <1>6, <1>7, <1>10, <1>12
  <1> QED
    BY <1>11, <1>12

LEMMA PowerPortsIs ==
    ASSUME Types, Newest, PowerPorts
    PROVE  /\ Tried /\ SamePort /\ irq'.new = irq.new
           /\ halted \subseteq halted' /\ halted' \subseteq Ids
           /\ irq.at = "power" /\ irq'.at = "enable" /\ chg' \subseteq Sockets
           /\ sched' = AddQhn(sched, irq.new, Rate)
           /\ "unsorted" \notin marks' => Sorted(sched'.list, Rate)
           /\ td' = [td EXCEPT ![irq.new] = "active"]
           /\ UNCHANGED <<plug, enC, bus, plugs, intr, intbm, core>>
  <1>1. /\ irq.at = "power" /\ sched' = AddQhn(sched, irq.new, Rate)
        /\ td' = [td EXCEPT ![irq.new] = "active"]
        /\ irq' = [irq EXCEPT !.at = "enable"]
        /\ UNCHANGED <<plug, enC, bus, plugs, intr, intbm, core>>
    BY DEF PowerPorts
  <1>2. irq \in IrqType /\ marks \subseteq Marks /\ irq.new \in Ids /\ chg \subseteq Sockets
    BY <1>1 DEF Types, WorldTypes, CoreTypes, IrqTypes, NewSteps
  <1>3. PICK o \in Outcomes :
        /\ Control(irq.new, o[1], o[2])
        /\ chg' = IF o[1] THEN chg \cup {s \in Owned(irq.new) : plug[s] # Empty}
                  ELSE chg
        /\ marks' = marks \cup o[2] \cup MarkSort(sched')
    BY DEF PowerPorts
  <1>4. PICK ok \in BOOLEAN : ok = o[1]
    BY OutcomesAre
  <1>5. /\ faults' \in 0..MaxFaults
        /\ halted \subseteq halted' /\ halted' \subseteq Ids
    BY <1>2, <1>3, <1>4, ControlIs
  <1>6. MarkSort(sched') \subseteq {"unsorted"}
        /\ ("unsorted" \notin MarkSort(sched') => Sorted(sched'.list, Rate))
    BY DEF MarkSort
  <1>7. Tried
    BY <1>2, <1>3, <1>5, <1>6, OutcomesAre DEF Tried, Marks
  <1>8. "enable" \in Steps
    BY DEF Steps, PortSteps, HubSteps, NewSteps
  <1>10. SamePort /\ irq'.new = irq.new /\ irq'.at = "enable"
    BY <1>1, <1>2, <1>8 DEF SamePort, IrqType
  <1>11. Owned(irq.new) \subseteq Sockets
    <2>1. IsHub(dev[irq.new].thing) /\ irq.new # Root
      BY <1>1, <1>2, IdsAre DEF Newest, NewSteps
    <2> QED
      BY <2>1, SocketsAre DEF Owned, IsHub
  <1>12. chg' \subseteq Sockets
    BY <1>2, <1>3, <1>11
  <1>13. "unsorted" \notin marks' => Sorted(sched'.list, Rate)
    BY <1>3, <1>6
  <1> QED
    BY <1>1, <1>5, <1>7, <1>10, <1>12, <1>13

LEMMA BindDriverIs ==
    ASSUME Types, NEW u \in Ids, BindDriver(u)
    PROVE  /\ marks \subseteq marks' /\ marks' \subseteq Marks
           /\ u \in devlist /\ u \in Live /\ dev[u].thing # Empty /\ ~IsHub(dev[u].thing)
           /\ sched' = AddQhn(sched, u, Rate)
           /\ "unsorted" \notin marks' => Sorted(sched'.list, Rate)
           /\ td' = [td EXCEPT ![u] = "active"]
           /\ UNCHANGED <<world, faults, intr, intbm, irq, core, halted>>
  <1>1. MarkSort(sched') \subseteq {"unsorted"}
        /\ ("unsorted" \notin MarkSort(sched') => Sorted(sched'.list, Rate))
    BY DEF MarkSort
  <1>2. marks' = marks \cup MarkSort(sched') /\ marks \subseteq Marks
    BY DEF BindDriver, Types, CoreTypes
  <1>3. /\ marks \subseteq marks' /\ marks' \subseteq Marks
        /\ "unsorted" \notin marks' => Sorted(sched'.list, Rate)
    BY <1>1, <1>2 DEF Marks
  <1> QED
    BY <1>3 DEF BindDriver, Live

LEMMA AnotherIs ==
    ASSUME Types, Another
    PROVE  /\ Tried /\ halted \subseteq halted' /\ halted' \subseteq Ids
           /\ UNCHANGED <<world, hc, irq, core, sched>>
  <1>1. PICK o \in Outcomes :
            /\ Control(IF irq.at \in {"settle", "next"} THEN irq.hub ELSE irq.new, o[1], o[2])
            /\ marks' = marks \cup o[2]
    BY DEF Another
  <1>2. irq.hub \in Ids \cup {Root} /\ marks \subseteq Marks
    BY DEF Types, CoreTypes, IrqTypes, IrqType
  <1>3. irq.at \in {"strings", "power"} => irq.new \in Ids
    BY DEF Types, IrqTypes, NewSteps
  <1>4. PICK u \in Ids \cup {Root} :
            u = IF irq.at \in {"settle", "next"} THEN irq.hub ELSE irq.new
    BY <1>2, <1>3 DEF Another
  <1>5. PICK ok \in BOOLEAN : ok = o[1]
    BY OutcomesAre
  <1>6. Control(u, ok, o[2])
    BY <1>1, <1>4, <1>5
  <1>7. /\ faults' \in 0..MaxFaults
        /\ halted \subseteq halted' /\ halted' \subseteq Ids
    BY <1>6, ControlIs
  <1>8. Tried
    BY <1>1, <1>2, <1>7, OutcomesAre DEF Tried
  <1> QED
    BY <1>7, <1>8 DEF Another

LEMMA HangIs ==
    ASSUME Types, Hang
    PROVE  /\ SamePort /\ irq'.new = irq.new /\ irq.at \in PortSteps \cup {"next"}
           /\ irq.at \notin {"address", "desc", "desc8"} /\ irq'.at = "hung"
           /\ UNCHANGED <<world, faults, hc, core, sched, halted, marks>>
  <1>1. /\ irq.at \in PortSteps \cup {"next"} /\ irq.at \notin {"address", "desc", "desc8"}
        /\ irq' = [irq EXCEPT !.at = "hung"]
        /\ UNCHANGED <<world, faults, hc, core, sched, halted, marks>>
    BY DEF Hang, PortSteps, HubSteps, NewSteps
  <1>2. irq \in IrqType
    BY DEF Types, IrqTypes
  <1>3. "hung" \in Steps
    BY DEF Steps
  <1> QED
    BY <1>1, <1>2, <1>3 DEF SamePort, IrqType

\* The handler starts with the ports bm of hub h.
Starts(h, bm) ==
    /\ irq' \in IrqType /\ irq'.hub = h /\ irq'.bm = bm /\ irq'.cur = irq.cur
    /\ \/ irq'.at = "resched"
       \/ irq'.at = "status" /\ irq'.port \in bm

LEMMA StartIs ==
    ASSUME Types, NEW h \in Ids \cup {Root}, NEW bm \in SUBSET Sockets, irq' = StartHub(h, bm)
    PROVE  Starts(h, bm)
  <1>1. irq \in IrqType
    BY DEF Types, IrqTypes
  <1>2. PICK at, p : /\ at = IF bm = {} THEN "resched" ELSE "status"
                     /\ p = IF bm = {} THEN Null ELSE Min(bm)
    OBVIOUS
  <1>3. bm # {} => Min(bm) \in bm
    <2>1. bm \in SUBSET Nat
      BY SocketsAre
    <2> QED
      BY <2>1, MinIn
  <1>4. at \in Steps /\ p \in Sockets \cup {Null}
        /\ (at = "resched" \/ (at = "status" /\ p \in bm))
    BY <1>2, <1>3 DEF Steps, PortSteps, HubSteps
  <1>5. irq' = [irq EXCEPT !.hub = h, !.bm = bm, !.conn = FALSE, !.en = FALSE,
                           !.new = Null, !.at = at, !.port = p]
    BY <1>2 DEF StartHub
  <1>6. irq' \in IrqType /\ irq'.hub = h /\ irq'.bm = bm /\ irq'.cur = irq.cur
        /\ irq'.at = at /\ irq'.port = p
    BY <1>1, <1>4, <1>5 DEF IrqType
  <1> QED
    BY <1>4, <1>6 DEF Starts

LEMMA FollowerIs ==
    ASSUME Types, NEW q \in Listed
    PROVE  Follower(sched.list, q) \in Listed \cup {NoQh} /\ Listed \subseteq Ids
  <1>1. PICK l \in Seq(Ids) : l = sched.list
    BY DEF Types, CoreTypes, Schedules
  <1>2. /\ ToSet(l) = {l[i] : i \in 1..Len(l)} /\ ToSet(l) \subseteq Ids /\ Len(l) \in Nat
    BY ToSetIs
  <1>3. Place(l, q) \in 1..Len(l)
    BY <1>1, PlaceIs DEF Listed
  <1>4. Place(l, q) < Len(l) => Place(l, q) + 1 \in 1..Len(l)
    BY <1>2, <1>3
  <1> QED
    BY <1>1, <1>2, <1>4 DEF Follower, Listed

LEMMA HandleIrqIs ==
    ASSUME Types, HandleIrq
    PROVE  /\ irq.at = "idle" /\ irq' \in IrqType /\ irq'.at \in {"walk", "root"}
           /\ irq'.cur = NoQh \/ irq'.cur \in Listed
           /\ UNCHANGED <<world, faults, hc, core, sched, halted, marks>>
  <1>1. irq.at = "idle" /\ UNCHANGED <<world, faults, hc, core, sched, halted, marks>>
    BY DEF HandleIrq
  <1>2. PICK l \in Seq(Ids) : l = sched.list
    BY DEF Types, CoreTypes, Schedules
  <1>3. PICK cur : cur = IF l = <<>> THEN NoQh ELSE Head(l)
    OBVIOUS
  <1>4. (cur = NoQh \/ cur \in Listed) /\ cur \in Ids \cup {NoQh}
    <2>1. CASE l = <<>>
      BY <1>3, <2>1
    <2>2. CASE l # <<>>
      <3>1. Len(l) \in Nat /\ Len(l) >= 1 /\ Head(l) = l[1]
        BY <2>2
      <3>2. 1 \in 1..Len(l)
        BY <3>1
      <3>3. Head(l) \in ToSet(l) /\ ToSet(l) \subseteq Ids
        BY <3>1, <3>2, ToSetIs
      <3> QED
        BY <1>2, <1>3, <2>2, <3>3 DEF Listed
    <2> QED
      BY <2>1, <2>2
  <1>5. PICK at \in {"walk", "root"} : at = IF "INT" \in intr THEN "walk" ELSE "root"
    OBVIOUS
  <1>6. at \in Steps
    BY DEF Steps
  <1>7. PICK f : f = Idle
    OBVIOUS
  <1>8. irq' = [f EXCEPT !.sts = intr, !.at = at, !.cur = cur]
    BY <1>2, <1>3, <1>5, <1>7 DEF HandleIrq
  <1>9. f \in IrqType
    BY <1>7 DEF Idle, IrqType, Steps
  <1>10. intr \in SUBSET {"INT", "PCD"}
    BY DEF Types, WorldTypes
  <1>11. irq' \in IrqType /\ irq'.at = at /\ irq'.cur = cur
    BY <1>4, <1>6, <1>8, <1>9, <1>10 DEF IrqType
  <1> QED
    BY <1>1, <1>4, <1>11

LEMMA PeriodicCompleteIs ==
    ASSUME Types, Serving, PeriodicComplete
    PROVE  /\ irq.at = "walk"
           /\ \/ /\ irq' \in IrqType /\ irq'.at \in {"root", "ack"}
                 /\ UNCHANGED <<td, intbm>>
              \/ /\ irq.cur \in Ids /\ irq.cur \in Listed /\ td[irq.cur] = "done"
                 /\ Starts(irq.cur, intbm[irq.cur])
                 /\ td' = [td EXCEPT ![irq.cur] = "none"]
                 /\ intbm' = [intbm EXCEPT ![irq.cur] = {}]
              \/ /\ irq' \in IrqType /\ irq'.at = "walk"
                 /\ irq'.cur = NoQh \/ irq'.cur \in Listed
                 /\ UNCHANGED <<td, intbm>>
           /\ UNCHANGED <<world, faults, intr, core, sched, halted, marks>>
  <1>1. irq.at = "walk" /\ UNCHANGED <<world, faults, intr, core, sched, halted, marks>>
    BY DEF PeriodicComplete
  <1>2. irq \in IrqType /\ intbm \in [Ids -> SUBSET Sockets]
    BY DEF Types, WorldTypes, IrqTypes
  <1>3. irq.cur = NoQh \/ irq.cur \in Listed
    BY <1>1 DEF Serving
  <1>4. CASE irq.cur = NoQh
    <2>1. PICK at \in {"root", "ack"} : at = IF "PCD" \in irq.sts THEN "root" ELSE "ack"
      OBVIOUS
    <2>2. irq' = [irq EXCEPT !.at = at] /\ UNCHANGED <<td, intbm>>
      BY <1>4, <2>1 DEF PeriodicComplete
    <2>3. at \in Steps
      BY DEF Steps
    <2>4. irq' \in IrqType /\ irq'.at = at
      BY <1>2, <2>2, <2>3 DEF IrqType
    <2> QED
      BY <1>1, <2>2, <2>4
  <1>5. CASE irq.cur # NoQh /\ td[irq.cur] = "done"
    <2>1. /\ irq' = StartHub(irq.cur, intbm[irq.cur])
          /\ td' = [td EXCEPT ![irq.cur] = "none"]
          /\ intbm' = [intbm EXCEPT ![irq.cur] = {}]
      BY <1>5 DEF PeriodicComplete
    <2>2. irq.cur \in Listed /\ irq.cur \in Ids
      BY <1>3, <1>5, FollowerIs
    <2>3. PICK q, bm : q = irq.cur /\ bm = intbm[irq.cur]
      OBVIOUS
    <2>4. q \in Ids /\ bm \in SUBSET Sockets
      BY <1>2, <2>2, <2>3
    <2>5. Starts(q, bm)
      BY <2>1, <2>3, <2>4, StartIs
    <2> QED
      BY <1>1, <1>5, <2>1, <2>2, <2>3, <2>5
  <1>6. CASE irq.cur # NoQh /\ td[irq.cur] # "done"
    <2>1. irq' = [irq EXCEPT !.cur = Follower(sched.list, irq.cur)] /\ UNCHANGED <<td, intbm>>
      BY <1>6 DEF PeriodicComplete
    <2>2. PICK c : c = Follower(sched.list, irq.cur)
      OBVIOUS
    <2>3. c \in Listed \cup {NoQh} /\ Listed \subseteq Ids
      BY <1>3, <1>6, <2>2, FollowerIs
    <2>4. irq' \in IrqType /\ irq'.at = irq.at /\ irq'.cur = c
      BY <1>2, <2>1, <2>2, <2>3 DEF IrqType
    <2> QED
      BY <1>1, <2>1, <2>3, <2>4
  <1> QED
    BY <1>4, <1>5, <1>6

LEMMA RootIrqIs ==
    ASSUME Types, RootIrq
    PROVE  /\ irq.at = "root"
           /\ \/ \E bm \in SUBSET RootSockets : Starts(Root, bm)
              \/ irq' \in IrqType /\ irq'.at = "ack"
           /\ UNCHANGED <<world, faults, hc, core, sched, halted, marks>>
  <1>1. irq.at = "root" /\ UNCHANGED <<world, faults, hc, core, sched, halted, marks>>
    BY DEF RootIrq
  <1>2. irq \in IrqType
    BY DEF Types, IrqTypes
  <1>3. CASE "PCD" \in irq.sts
    <2>1. PICK bm : bm = (chg \cup enC) \cap RootSockets
      OBVIOUS
    <2>2. bm \in SUBSET RootSockets /\ bm \in SUBSET Sockets
      BY <2>1, SocketsAre
    <2>3. irq' = StartHub(Root, bm)
      BY <1>3, <2>1 DEF RootIrq
    <2>4. PICK h \in Ids \cup {Root} : h = Root
      OBVIOUS
    <2>5. Starts(h, bm)
      BY <2>2, <2>3, <2>4, StartIs
    <2> QED
      BY <1>1, <2>2, <2>4, <2>5
  <1>4. CASE "PCD" \notin irq.sts
    <2>1. irq' = [irq EXCEPT !.at = "ack"]
      BY <1>4 DEF RootIrq
    <2>2. "ack" \in Steps
      BY DEF Steps
    <2>3. irq' \in IrqType /\ irq'.at = "ack"
      BY <1>2, <2>1, <2>2 DEF IrqType
    <2> QED
      BY <1>1, <2>3
  <1> QED
    BY <1>3, <1>4

LEMMA NextPortIs ==
    ASSUME Types, NextPort
    PROVE  /\ irq.at = "next" /\ Starts(irq.hub, irq.bm \ {irq.port})
           /\ UNCHANGED <<world, faults, hc, core, sched, halted, marks>>
  <1>1. /\ irq.at = "next" /\ UNCHANGED <<world, faults, hc, core, sched, halted, marks>>
        /\ irq' = StartHub(irq.hub, irq.bm \ {irq.port})
    BY DEF NextPort
  <1>2. PICK h, bm : h = irq.hub /\ bm = irq.bm \ {irq.port}
    OBVIOUS
  <1>3. h \in Ids \cup {Root} /\ bm \in SUBSET Sockets
    BY <1>2 DEF Types, IrqTypes, IrqType
  <1>4. Starts(h, bm)
    BY <1>1, <1>2, <1>3, StartIs
  <1> QED
    BY <1>1, <1>2, <1>4

LEMMA RescheduleIs ==
    ASSUME Types, Serving, Reschedule
    PROVE  /\ irq.at = "resched" /\ irq' \in IrqType
           /\ \/ irq.hub = Root /\ irq'.at = "ack" /\ UNCHANGED td
              \/ /\ irq.hub \in Ids /\ td' = [td EXCEPT ![irq.hub] = "active"]
                 /\ irq'.at = "walk" /\ (irq'.cur = NoQh \/ irq'.cur \in Listed)
           /\ UNCHANGED <<world, faults, intr, intbm, core, sched, halted, marks>>
  <1>1. irq.at = "resched" /\ UNCHANGED <<world, faults, intr, intbm, core, sched, halted, marks>>
    BY DEF Reschedule
  <1>2. irq \in IrqType
    BY DEF Types, IrqTypes
  <1>3. CASE irq.hub = Root
    <2>1. irq' = [irq EXCEPT !.at = "ack"] /\ UNCHANGED td
      BY <1>3 DEF Reschedule
    <2>2. "ack" \in Steps
      BY DEF Steps
    <2>3. irq' \in IrqType /\ irq'.at = "ack"
      BY <1>2, <2>1, <2>2 DEF IrqType
    <2> QED
      BY <1>1, <1>3, <2>1, <2>3
  <1>4. CASE irq.hub # Root
    <2>1. /\ td' = [td EXCEPT ![irq.hub] = "active"]
          /\ irq' = [irq EXCEPT !.at = "walk", !.cur = Follower(sched.list, irq.cur)]
      BY <1>4 DEF Reschedule
    <2>2. irq.hub \in Ids /\ irq.cur \in Listed
      BY <1>1, <1>2, <1>4 DEF Serving, IrqType
    <2>3. PICK c : c = Follower(sched.list, irq.cur)
      OBVIOUS
    <2>4. c \in Listed \cup {NoQh} /\ Listed \subseteq Ids
      BY <2>2, <2>3, FollowerIs
    <2>5. "walk" \in Steps
      BY DEF Steps
    <2>6. irq' \in IrqType /\ irq'.at = "walk" /\ irq'.cur = c
      BY <1>2, <2>1, <2>3, <2>4, <2>5 DEF IrqType
    <2> QED
      BY <1>1, <2>1, <2>2, <2>4, <2>6
  <1> QED
    BY <1>3, <1>4

LEMMA AcknowledgeIs ==
    ASSUME Types, Acknowledge
    PROVE  /\ irq.at = "ack" /\ irq' \in IrqType /\ irq'.at = "idle"
           /\ intr' \subseteq {"INT", "PCD"} /\ marks \subseteq marks' /\ marks' \subseteq Marks
           /\ UNCHANGED <<world, faults, td, intbm, core, sched, halted>>
  <1>1. /\ irq.at = "ack" /\ irq' = Idle /\ intr' = intr \ irq.sts
        /\ UNCHANGED <<world, faults, td, intbm, core, sched, halted>>
        /\ marks \subseteq marks' /\ marks' \subseteq marks \cup {"missed"}
    BY DEF Acknowledge
  <1>2. intr \subseteq {"INT", "PCD"} /\ marks \subseteq Marks
    BY DEF Types, WorldTypes, CoreTypes
  <1>3. Idle \in IrqType /\ Idle.at = "idle"
    BY DEF Idle, IrqType, Steps
  <1> QED
    BY <1>1, <1>2, <1>3 DEF Marks

LEMMA PlugInIs ==
    ASSUME Types, NEW f \in Fits, PlugIn(f[1], f[2])
    PROVE  /\ f[1] \in Things /\ f[2] \in Sockets
           /\ plugs' \in 0..MaxPlugs /\ plug[f[2]] = Empty
           /\ \A r \in Sockets : plug[r] # f[1]
           /\ plug' = [plug EXCEPT ![f[2]] = f[1]]
           /\ chg' \subseteq Sockets /\ intr' \subseteq {"INT", "PCD"}
           /\ UNCHANGED <<enC, bus, faults, td, intbm, irq, core, sched, halted, marks>>
  <1>1. f[1] \in Things /\ f[2] \in Sockets
    BY UsbAssumption
  <1>2. PICK t, s : t = f[1] /\ s = f[2]
    OBVIOUS
  <1>3. /\ plugs < MaxPlugs /\ plugs' = plugs + 1
        /\ plug[s] = Empty /\ \A r \in Sockets : plug[r] # t
        /\ plug' = [plug EXCEPT ![s] = t]
        /\ UNCHANGED <<enC, bus, faults, td, intbm, irq, core, sched, halted, marks>>
    BY <1>2 DEF PlugIn
  <1>4. chg' \subseteq chg \cup {s} /\ intr' \subseteq intr \cup {"PCD"}
    BY <1>2 DEF PlugIn, Raise
  <1>5. plugs \in 0..MaxPlugs /\ chg \subseteq Sockets /\ intr \subseteq {"INT", "PCD"}
    BY DEF Types, WorldTypes
  <1>6. plugs' \in 0..MaxPlugs
    BY <1>3, <1>5, UsbBounds
  <1> QED
    BY <1>1, <1>2, <1>3, <1>4, <1>5, <1>6

LEMMA UnplugIs ==
    ASSUME Types, NEW s \in Sockets, Unplug(s)
    PROVE  /\ plugs' \in 0..MaxPlugs /\ plug[s] \in Things
           /\ plug' = [plug EXCEPT ![s] = Empty]
           /\ bus' = [u \in Things |->
                 IF u = plug[s] \/ \E r \in Below(plug[s]) : u = plug[r] THEN Off ELSE bus[u]]
           /\ chg' \subseteq Sockets /\ intr' \subseteq {"INT", "PCD"}
           /\ UNCHANGED <<enC, faults, td, intbm, irq, core, sched, halted, marks>>
  <1>1. /\ plugs < MaxPlugs /\ plugs' = plugs + 1
        /\ plug[s] # Empty /\ plug' = [plug EXCEPT ![s] = Empty]
        /\ chg' \subseteq chg \cup {s} /\ intr' \subseteq intr \cup {"PCD"}
        /\ UNCHANGED <<enC, faults, td, intbm, irq, core, sched, halted, marks>>
    BY DEF Unplug
  <1>2. bus' = [u \in Things |->
            IF u \in {plug[s]} \cup {plug[r] : r \in Below(plug[s])} THEN Off ELSE bus[u]]
    BY DEF Unplug
  <1>3. plugs \in 0..MaxPlugs /\ chg \subseteq Sockets /\ intr \subseteq {"INT", "PCD"}
        /\ plug[s] \in Things \cup {Empty}
    BY DEF Types, WorldTypes
  <1>4. plugs' \in 0..MaxPlugs
    BY <1>1, <1>3, UsbBounds
  <1>5. bus' = [u \in Things |->
            IF u = plug[s] \/ \E r \in Below(plug[s]) : u = plug[r] THEN Off ELSE bus[u]]
    BY <1>2
  <1> QED
    BY <1>1, <1>3, <1>4, <1>5

LEMMA HubReportsIs ==
    ASSUME Types, NEW u \in Ids, HubReports(u)
    PROVE  /\ td[u] = "active" /\ IsHub(dev[u].thing) /\ td' = [td EXCEPT ![u] = "done"]
           /\ \E t \in Things, bm \in SUBSET Sockets :
                 /\ bus[t] = dev[u].addr /\ bm \subseteq Below(t)
                 /\ intbm' = [intbm EXCEPT ![u] = bm]
           /\ intr' \subseteq {"INT", "PCD"}
           /\ UNCHANGED <<world, faults, irq, core, sched, halted, marks>>
  <1>1. /\ td[u] = "active" /\ IsHub(dev[u].thing) /\ td' = [td EXCEPT ![u] = "done"]
        /\ intr' = intr \cup {"INT"}
        /\ UNCHANGED <<world, faults, irq, core, sched, halted, marks>>
    BY DEF HubReports
  <1>2. PICK t \in Answering(dev[u].addr) : intbm' = [intbm EXCEPT ![u] = Below(t) \cap chg]
    BY DEF HubReports
  <1>3. t \in Things /\ bus[t] = dev[u].addr
    BY DEF Answering
  <1>4. Below(t) \cap chg \in SUBSET Sockets /\ Below(t) \cap chg \subseteq Below(t)
    BY SocketsAre
  <1>5. intr \subseteq {"INT", "PCD"}
    BY DEF Types, WorldTypes
  <1> QED
    BY <1>1, <1>2, <1>3, <1>4, <1>5

\* The devices that go with u: a tree, from u downwards.
Branch(u, us) ==
    /\ u \in us /\ us \subseteq Live
    /\ \A v \in us : v >= u /\ Children(v) \subseteq us
    /\ \A v \in us : \/ v = u
                     \/ /\ dev[v].hub \in us /\ dev[dev[v].hub].data = "hub"
                        /\ port[dev[v].hub][dev[v].socket] = v

LEMMA GoneIs ==
    ASSUME Types, Tree, PortsSound, NEW u \in Live
    PROVE  Branch(u, Gone(u))
  <1>1. PICK us : us = Gone(u)
    OBVIOUS
  <1>2. us \subseteq Ids /\ u \in Ids /\ Live \subseteq Ids /\ u \in us
    BY <1>1 DEF Gone, Live
  <1>3. ASSUME NEW S \in SUBSET Ids, u \in S, \A v \in S : Children(v) \subseteq S
        PROVE  us \subseteq S
    BY <1>1, <1>3 DEF Gone
  <1>4. \A v \in Ids : Children(v) \subseteq Ids
    <2>1. ASSUME NEW v \in Ids PROVE Children(v) \subseteq Ids
      <3>1. \A s \in Sockets : port[v][s] \in Ids \cup {Null}
        BY DEF Types, CoreTypes
      <3> QED
        BY <3>1 DEF Children
    <2> QED
      BY <2>1
  <1>5. ASSUME NEW v \in us PROVE Children(v) \subseteq us
    <2>1. ASSUME NEW c \in Children(v) PROVE c \in us
      <3>1. c \in Ids
        BY <1>2, <1>4
      <3>2. ASSUME NEW S \in SUBSET Ids, u \in S, \A w \in S : Children(w) \subseteq S
            PROVE  c \in S
        BY <1>3, <3>2
      <3> QED
        BY <1>1, <3>1, <3>2 DEF Gone
    <2> QED
      BY <2>1
  <1>6. ASSUME NEW v \in Live, NEW c \in Children(v)
        PROVE  /\ c \in Live /\ dev[c].hub = v /\ c > v /\ dev[v].data = "hub"
               /\ port[dev[c].hub][dev[c].socket] = c
    <2>1. PICK s \in Sockets : c = port[v][s] /\ c # Null
      BY DEF Children
    <2>2. dev[v].data = "hub"
      BY DEF Children
    <2>3. c \in Live /\ dev[c].hub = v /\ dev[c].socket = s
      BY <2>1 DEF PortsSound
    <2>4. c > v
      <3>1. dev[c].hub < c
        BY <2>3 DEF Tree
      <3>2. c \in Nat /\ v \in Nat
        BY <1>2, <2>3, IdsAre
      <3> QED
        BY <2>3, <3>1, <3>2
    <2> QED
      BY <2>1, <2>2, <2>3, <2>4
  <1>7. us \subseteq Live /\ \A v \in us : v >= u
    <2>1. PICK S : S = {v \in Live : v >= u}
      OBVIOUS
    <2>2. S \in SUBSET Ids /\ u \in S
      <3>1. u \in Nat
        BY <1>2, IdsAre
      <3>2. u >= u
        BY <3>1
      <3> QED
        BY <1>2, <2>1, <3>2
    <2>3. ASSUME NEW v \in S PROVE Children(v) \subseteq S
      <3>1. ASSUME NEW c \in Children(v) PROVE c \in S
        <4>1. c \in Live /\ c > v
          BY <1>6, <2>1
        <4>2. c \in Nat /\ v \in Nat /\ u \in Nat /\ v >= u
          BY <1>2, <2>1, <4>1, IdsAre
        <4> QED
          BY <2>1, <4>1, <4>2
      <3> QED
        BY <3>1
    <2>4. us \subseteq S
      BY <1>3, <2>2, <2>3
    <2> QED
      BY <2>1, <2>4
  <1>8. ASSUME NEW v \in us, v # u
        PROVE  /\ dev[v].hub \in us /\ dev[dev[v].hub].data = "hub"
               /\ port[dev[v].hub][dev[v].socket] = v
    <2>1. PICK S : S = {u} \cup {w \in us : /\ dev[w].hub \in us /\ dev[dev[w].hub].data = "hub"
                                            /\ port[dev[w].hub][dev[w].socket] = w}
      OBVIOUS
    <2>2. S \in SUBSET Ids /\ u \in S /\ S \subseteq us
      BY <1>2, <2>1
    <2>3. ASSUME NEW w \in S PROVE Children(w) \subseteq S
      <3>1. ASSUME NEW c \in Children(w) PROVE c \in S
        <4>1. w \in us /\ w \in Live /\ c \in us
          BY <1>5, <1>7, <2>2
        <4>2. dev[c].hub = w /\ dev[w].data = "hub" /\ port[dev[c].hub][dev[c].socket] = c
          BY <1>6, <4>1
        <4> QED
          BY <2>1, <4>1, <4>2
      <3> QED
        BY <3>1
    <2>4. us \subseteq S
      BY <1>3, <2>2, <2>3
    <2> QED
      BY <1>8, <2>1, <2>4
  <1> QED
    BY <1>1, <1>2, <1>5, <1>7, <1>8 DEF Branch

LEMMA RatesAre == Types => Rate \in Rates
  <1> SUFFICES ASSUME Types PROVE Rate \in Rates
    OBVIOUS
  <1>1. \A u \in Ids : dev[u].thing \in Things \cup {Empty}
    BY DEF Types, CoreTypes, DevType
  <1>2. \A t \in Things : Interval[t] \in Nat \ {0}
    BY UsbAssumption
  <1>3. ASSUME NEW u \in Ids
        PROVE  (IF dev[u].thing = Empty THEN 1 ELSE Interval[dev[u].thing]) \in Nat \ {0}
    BY <1>1, <1>2
  <1> QED
    BY <1>3 DEF Rate, Rates

\* The devices us are removed, of which u is on the port.
Removes(u, us) ==
    /\ u \in Live /\ Branch(u, us)
    /\ sched' \in Schedules /\ Once(sched'.list) /\ ToSet(sched'.list) = Listed \ us
    /\ Entered(sched, Rate) /\ Nests(Rate, Listed) => Entered(sched', Rate)
    /\ td' = [v \in Ids |-> IF v \in us THEN "none" ELSE td[v]]
    /\ devlist' = devlist \ us
    /\ addrbm' = addrbm \ Released(us)
    /\ dev' = [v \in Ids |-> IF v \in us THEN Dead(dev[v].thing) ELSE dev[v]]
    /\ port' = [port EXCEPT ![irq.hub][irq.port] = Null]
    /\ "bad" \in marks' => \/ "bad" \in marks \/ dev[u].data = "dangling"
                           \/ \E v \in us \cup devlist : dev[v].st # "live"

LEMMA SuspendIs ==
    ASSUME Types, Serving, Tree, PortsSound, Once(sched.list), Suspend
    PROVE  /\ Asked /\ irq.at = "suspend" /\ irq'.at = "enable"
           /\ \/ /\ UNCHANGED <<dev, devlist, addrbm, port, sched, td>>
                 /\ "bad" \in marks' => "bad" \in marks
              \/ /\ port[irq.hub][irq.port] # Null
                 /\ \E us : Removes(port[irq.hub][irq.port], us)
           /\ UNCHANGED <<world, intr, intbm, nextAddr>>
  <1>1. PICK o \in Outcomes :
            /\ HubStep("suspend", o[1], o[2])
            /\ IF port[irq.hub][irq.port] = Null
               THEN /\ marks' = marks \cup o[2]
                    /\ UNCHANGED <<dev, devlist, addrbm, port, sched, td>>
               ELSE /\ Disconnect(port[irq.hub][irq.port], o[2])
                    /\ port' = Vacated
            /\ irq' = [irq EXCEPT !.at = "enable"]
            /\ UNCHANGED <<world, intr, intbm, nextAddr>>
    BY DEF Suspend
  <1>2. irq \in IrqType /\ irq.hub \in Ids \cup {Root} /\ marks \subseteq Marks
    BY DEF Types, CoreTypes, IrqTypes, IrqType
  <1>3. PICK ok \in BOOLEAN : ok = o[1]
    BY OutcomesAre
  <1>4. irq.at = "suspend" /\ Control(irq.hub, ok, o[2])
    BY <1>1, <1>3 DEF HubStep
  <1>5. /\ faults' \in 0..MaxFaults /\ irq.hub \notin halted
        /\ halted \subseteq halted' /\ halted' \subseteq Ids
    BY <1>2, <1>4, ControlIs
  <1>6. irq' \in IrqType /\ SamePort /\ irq'.new = irq.new /\ irq'.at = "enable"
    BY <1>1, <1>2 DEF IrqType, SamePort, Steps, PortSteps, HubSteps
  <1>7. CASE port[irq.hub][irq.port] = Null
    <2>1. /\ marks' = marks \cup o[2]
          /\ UNCHANGED <<dev, devlist, addrbm, port, sched, td>>
      BY <1>1, <1>7
    <2>2. "bad" \in marks' => "bad" \in marks
      BY <2>1, OutcomesAre
    <2>3. Tried
      BY <1>2, <1>5, <2>1, OutcomesAre DEF Tried, Marks
    <2>4. Asked
      BY <1>4, <1>5, <1>6, <2>3 DEF Asked, PortSteps, HubSteps
    <2> QED
      BY <1>1, <1>4, <1>6, <2>1, <2>2, <2>4
  <1>8. CASE port[irq.hub][irq.port] # Null
    <2>1. PICK u : u = port[irq.hub][irq.port]
      OBVIOUS
    <2>2. Disconnect(u, o[2]) /\ port' = [port EXCEPT ![irq.hub][irq.port] = Null]
      BY <1>1, <1>8, <2>1 DEF Vacated
    <2>3. PICK us : us = Gone(u)
      OBVIOUS
    <2>4. /\ sched' = Cancelled(sched, us)
          /\ td' = [v \in Ids |-> IF v \in us THEN "none" ELSE td[v]]
          /\ devlist' = devlist \ us
          /\ addrbm' = addrbm \ Released(us)
          /\ dev' = [v \in Ids |-> IF v \in us THEN Free(dev[v]) ELSE dev[v]]
          /\ marks' = marks \cup o[2] \cup
               (IF dev[u].data = "dangling"
                   \/ \E v \in us \cup devlist : dev[v].st # "live"
                THEN {"bad"} ELSE {})
      BY <2>2, <2>3 DEF Disconnect
    <2>5. irq.hub \in Live \cup {Root} /\ irq.port \in Sockets
      BY <1>2, <1>4 DEF Serving, Types, IrqTypes, PortSteps, HubSteps
    <2>6. u \in Live
      BY <1>8, <2>1, <2>5 DEF PortsSound
    <2>7. Branch(u, us)
      BY <2>3, <2>6, GoneIs
    <2>8. us \in SUBSET Ids
      BY <2>7 DEF Branch, Live
    <2>9. PICK s \in Schedules : s = sched
      BY DEF Types, CoreTypes
    <2>10. Rate \in Rates
      BY RatesAre
    <2>11. /\ Remains(Cancelled(s, us), s, us, Rate)
           /\ ToSet(Cancelled(s, us).list) = ToSet(s.list) \ us
      BY <2>8, <2>9, <2>10, CancelIs
    <2>12. /\ sched' \in Schedules /\ Once(sched'.list) /\ ToSet(sched'.list) = Listed \ us
           /\ Entered(sched, Rate) /\ Nests(Rate, Listed) => Entered(sched', Rate)
      BY <2>4, <2>9, <2>11 DEF Remains, Listed
    <2>13. dev' = [v \in Ids |-> IF v \in us THEN Dead(dev[v].thing) ELSE dev[v]]
      BY <2>4, FreeIs
    <2>14. Tried /\ ("bad" \in marks' => \/ "bad" \in marks \/ dev[u].data = "dangling"
                           \/ \E v \in us \cup devlist : dev[v].st # "live")
      BY <1>2, <1>5, <2>4, OutcomesAre DEF Tried, Marks
    <2>15. Removes(u, us)
      BY <2>2, <2>4, <2>6, <2>7, <2>12, <2>13, <2>14 DEF Removes
    <2>16. Asked
      BY <1>4, <1>5, <1>6, <2>14 DEF Asked, PortSteps, HubSteps
    <2> QED
      BY <1>1, <1>4, <1>6, <1>8, <2>1, <2>15, <2>16
  <1> QED
    BY <1>7, <1>8

(***************************************************************************)
(* The structures, the ports and the list.                                 *)
(***************************************************************************)

Base == Types /\ Serving /\ Unused /\ Tree /\ Endpoints /\ Newest /\ PortsSound /\ ListLive

\* A step that leaves the devices alone.
Quiet ==
    /\ UNCHANGED core /\ marks \subseteq marks'
    /\ \/ irq' = irq
       \/ /\ irq'.at \notin NewSteps /\ irq.at # "address"
          /\ irq.at \in {"desc", "strings"} => irq'.at = "hung"

LEMMA QuietKeeps ==
    ASSUME Base, Quiet,
           irq' = irq => \A u \in Ids : td[u] = "none" /\ IsHub(dev[u].thing) => td'[u] = "none",
           irq' = irq => \A u \in Ids : u \in Listed' /\ IsHub(dev[u].thing) => u \in Listed
    PROVE  Unused' /\ Tree' /\ Newest' /\ PortsSound' /\ ListLive' /\ Live' = Live
  <1>1. /\ dev' = dev /\ port' = port /\ devlist' = devlist /\ addrbm' = addrbm
        /\ nextAddr' = nextAddr /\ marks \subseteq marks'
    BY DEF Quiet, core
  <1>2. Live' = Live
    BY <1>1 DEF Live
  <1>3. Unused'
    BY <1>1 DEF Base, Unused
  <1>4. Tree'
    BY <1>1, <1>2 DEF Base, Tree
  <1>5. ListLive'
    BY <1>1, <1>2 DEF Base, ListLive
  <1>6. CASE irq' = irq
    <2>1. PortsSound'
      BY <1>1, <1>2, <1>6 DEF Base, PortsSound
    <2>2. irq.at \in NewSteps => irq.new \in Ids
      BY DEF Base, Types, IrqTypes
    <2>3. Newest'
      BY <1>1, <1>2, <1>6, <2>2 DEF Base, Newest, NewSteps
    <2> QED
      BY <1>2, <1>3, <1>4, <1>5, <2>1, <2>3
  <1>7. CASE irq'.at \notin NewSteps
    <2>1. PortsSound'
      BY <1>1, <1>2, <1>7 DEF Base, PortsSound, NewSteps
    <2>2. Newest'
      BY <1>7 DEF Newest
    <2> QED
      BY <1>2, <1>3, <1>4, <1>5, <2>1, <2>2
  <1> QED
    BY <1>6, <1>7 DEF Quiet

\* The hub is served as before.
LEMMA ServingKeeps ==
    ASSUME Types, Serving, SamePort, irq.at \in PortSteps \cup {"next", "resched"},
           irq'.at # "walk",
           irq.hub # Root /\ irq.hub \in Live /\ dev[irq.hub].data = "hub" /\ irq.hub \in Listed
              => irq.hub \in Live' /\ dev'[irq.hub].data = "hub" /\ irq.hub \in Listed'
    PROVE  Serving'
  BY DEF Serving, SamePort

LEMMA SameKeepsEndpoints ==
    ASSUME Endpoints, UNCHANGED <<td, dev, sched>>
    PROVE  Endpoints'
  BY DEF Endpoints, Live, Listed

\* Asking the hub, and the steps that go with it.
LEMMA AskedKeeps ==
    ASSUME Base, Tried, SamePort, halted \subseteq halted', halted' \subseteq Ids,
           irq'.new = irq.new, irq.at \in PortSteps \ NewSteps,
           irq'.at \in (PortSteps \ NewSteps) \cup {"next"},
           WorldTypes', UNCHANGED <<core, sched, td>>
    PROVE  Base'
  <1>0. Types /\ Serving /\ Endpoints
    BY DEF Base
  <1>1. Quiet
    BY DEF Quiet, Tried, NewSteps, PortSteps, HubSteps
  <1>2. irq' # irq \/ irq'.at \notin NewSteps
    BY DEF PortSteps, NewSteps, HubSteps
  <1>3. irq' = irq => \A u \in Ids : td[u] = "none" /\ IsHub(dev[u].thing) => td'[u] = "none"
    OBVIOUS
  <1>5. dev' = dev /\ sched' = sched /\ Listed' = Listed
    BY DEF core, Listed
  <1>4. Unused' /\ Tree' /\ Newest' /\ PortsSound' /\ ListLive' /\ Live' = Live
    BY <1>1, <1>3, <1>5, QuietKeeps
  <1>6. irq'.at # "walk"
    BY DEF PortSteps, NewSteps, HubSteps
  <1>7. Serving'
    BY <1>0, <1>4, <1>5, <1>6, ServingKeeps
  <1>8. Endpoints'
    BY <1>0, <1>5, SameKeepsEndpoints
  <1>9. CoreTypes'
    BY <1>0 DEF Types, CoreTypes, core, Tried
  <1>10. IrqTypes'
    <2>1. irq'.at \in PortSteps => irq'.port \in Sockets
      BY <1>0 DEF Types, IrqTypes, SamePort
    <2>2. irq'.at \notin NewSteps
      BY DEF PortSteps, NewSteps, HubSteps
    <2> QED
      BY <2>1, <2>2 DEF IrqTypes, SamePort
  <1> QED
    BY <1>4, <1>7, <1>8, <1>9, <1>10 DEF Base, Types

LEMMA AskingKeepsBase ==
    ASSUME Base, PortStatus \/ ClearConnection \/ Reset \/ Settle \/ PortEnable
    PROVE  Base'
  <1>0. Types /\ WorldTypes
    BY DEF Base, Types
  <1>1. CASE PortStatus
    <2>1. /\ Asked /\ irq.at = "status" /\ irq'.at \in {"clear", "enable"}
          /\ UNCHANGED <<world, hc, core, sched>>
      BY <1>0, <1>1, PortStatusIs
    <2>2. WorldTypes'
      BY <1>0, <2>1 DEF WorldTypes, world, hc, Asked, Tried
    <2> QED
      BY <2>1, <2>2, AskedKeeps DEF Asked, PortSteps, HubSteps, NewSteps, hc
  <1>2. CASE ClearConnection
    <2>1. /\ Asked /\ irq.at = "clear" /\ irq'.at \in {"reset", "suspend"}
          /\ chg' \subseteq Sockets
          /\ UNCHANGED <<plug, enC, bus, plugs, hc, core, sched>>
      BY <1>0, <1>2, ClearConnectionIs
    <2>2. WorldTypes'
      BY <1>0, <2>1 DEF WorldTypes, hc, Asked, Tried
    <2> QED
      BY <2>1, <2>2, AskedKeeps DEF Asked, PortSteps, HubSteps, NewSteps, hc
  <1>3. CASE Reset
    <2>1. /\ Asked /\ irq.at \in {"reset", "again"} /\ irq'.at \in {"settle", "enable"}
          /\ enC' \subseteq RootSockets
          /\ UNCHANGED <<plug, chg, plugs, hc, core, sched>>
      BY <1>0, <1>3, ResetIs
    <2>2. bus' \in [Things -> Int]
      <3>1. PICK ok \in BOOLEAN :
                bus' = [t \in Things |-> IF ok /\ t = plug[irq.port] THEN 0 ELSE bus[t]]
        BY <1>0, <1>3, ResetIs
      <3> QED
        BY <1>0, <3>1 DEF WorldTypes
    <2>3. WorldTypes'
      BY <1>0, <2>1, <2>2 DEF WorldTypes, hc, Asked, Tried
    <2> QED
      BY <2>1, <2>3, AskedKeeps DEF Asked, PortSteps, HubSteps, NewSteps, hc
  <1>4. CASE Settle
    <2>1. /\ Asked /\ irq.at = "settle" /\ irq'.at = "desc8"
          /\ UNCHANGED <<world, hc, core, sched>>
      BY <1>0, <1>4, SettleIs
    <2>2. WorldTypes'
      BY <1>0, <2>1 DEF WorldTypes, world, hc, Asked, Tried
    <2> QED
      BY <2>1, <2>2, AskedKeeps DEF Asked, PortSteps, HubSteps, NewSteps, hc
  <1>5. CASE PortEnable
    <2>1. /\ Tried /\ halted \subseteq halted' /\ halted' \subseteq Ids
          /\ SamePort /\ irq'.new = irq.new
          /\ irq.at = "enable" /\ irq'.at = "next" /\ chg' \subseteq Sockets
          /\ UNCHANGED <<plug, enC, bus, plugs, hc, core, sched>>
      BY <1>0, <1>5, PortEnableIs
    <2>2. WorldTypes'
      BY <1>0, <2>1 DEF WorldTypes, hc, Tried
    <2> QED
      BY <2>1, <2>2, AskedKeeps DEF PortSteps, HubSteps, NewSteps, hc
  <1> QED
    BY <1>1, <1>2, <1>3, <1>4, <1>5

\* The handler between two ports.
LEMMA MovingKeepsBase ==
    ASSUME Base, HandleIrq \/ RootIrq \/ NextPort \/ Acknowledge \/ Hang
    PROVE  Base'
  <1>0. Types /\ Serving /\ Endpoints /\ WorldTypes /\ CoreTypes /\ IrqTypes
    BY DEF Base, Types
  <1>1. ASSUME UNCHANGED <<core, sched, td>>, marks \subseteq marks', marks' \subseteq Marks,
               irq' \in IrqType, irq'.at \notin NewSteps, WorldTypes', halted' = halted,
               irq.at # "address", irq.at \in {"desc", "strings"} => irq'.at = "hung",
               irq'.at \in PortSteps => irq'.port \in Sockets, Serving'
        PROVE  Base'
    <2>1. Quiet
      BY <1>1 DEF Quiet
    <2>2. /\ \A u \in Ids : td[u] = "none" /\ IsHub(dev[u].thing) => td'[u] = "none"
          /\ \A u \in Ids : u \in Listed' /\ IsHub(dev[u].thing) => u \in Listed
      BY <1>1 DEF Listed
    <2>3. Unused' /\ Tree' /\ Newest' /\ PortsSound' /\ ListLive'
      BY <2>1, <2>2, QuietKeeps
    <2>4. Endpoints'
      BY <1>0, <1>1, SameKeepsEndpoints DEF core
    <2>5. CoreTypes'
      BY <1>0, <1>1 DEF CoreTypes, core
    <2>6. IrqTypes'
      BY <1>1 DEF IrqTypes
    <2> QED
      BY <1>1, <2>3, <2>4, <2>5, <2>6 DEF Base, Types
  <1>2. ASSUME UNCHANGED <<world, faults, hc>> PROVE WorldTypes'
    BY <1>0, <1>2 DEF WorldTypes, world, hc
  <1>3. ASSUME NEW h, NEW bm \in SUBSET Sockets, Starts(h, bm), UNCHANGED <<core, sched>>,
               h # Root => h \in Live /\ dev[h].data = "hub" /\ irq.cur = h /\ h \in Listed
        PROVE  /\ irq' \in IrqType /\ irq'.at \notin NewSteps /\ Serving'
               /\ irq'.at \in PortSteps => irq'.port \in Sockets
    <2>1. /\ irq' \in IrqType /\ irq'.hub = h /\ irq'.cur = irq.cur
          /\ irq'.at = "resched" \/ (irq'.at = "status" /\ irq'.port \in Sockets)
      BY <1>3 DEF Starts
    <2>2. Live' = Live /\ dev' = dev /\ Listed' = Listed
      BY <1>3 DEF core, Live, Listed
    <2>3. Serving'
      BY <1>3, <2>1, <2>2 DEF Serving
    <2> QED
      BY <2>1, <2>3 DEF NewSteps, PortSteps, HubSteps
  <1>4. CASE HandleIrq
    <2>1. /\ irq.at = "idle" /\ irq' \in IrqType /\ irq'.at \in {"walk", "root"}
          /\ irq'.cur = NoQh \/ irq'.cur \in Listed
          /\ UNCHANGED <<world, faults, hc, core, sched, halted, marks>>
      BY <1>0, <1>4, HandleIrqIs
    <2>2. Serving'
      BY <2>1 DEF Serving, PortSteps, HubSteps, NewSteps, Listed
    <2>3. WorldTypes'
      BY <1>2, <2>1
    <2>4. UNCHANGED <<core, sched, td>> /\ irq'.at \notin NewSteps /\ irq'.at \notin PortSteps
      BY <2>1 DEF PortSteps, HubSteps, NewSteps, hc
    <2>5. marks \subseteq Marks
      BY <1>0 DEF CoreTypes
    <2> QED
      BY <1>1, <2>1, <2>2, <2>3, <2>4, <2>5
  <1>5. CASE RootIrq
    <2>1. /\ irq.at = "root"
          /\ UNCHANGED <<world, faults, hc, core, sched, halted, marks>>
      BY <1>0, <1>5, RootIrqIs
    <2>2. WorldTypes' /\ UNCHANGED <<core, sched, td>> /\ marks \subseteq Marks
      BY <1>0, <1>2, <2>1 DEF CoreTypes, hc
    <2>3. CASE \E bm \in SUBSET RootSockets : Starts(Root, bm)
      <3>1. PICK bm \in SUBSET RootSockets : Starts(Root, bm)
        BY <2>3
      <3>2. bm \in SUBSET Sockets
        BY SocketsAre
      <3>3. PICK h : h = Root
        OBVIOUS
      <3>4. /\ irq' \in IrqType /\ irq'.at \notin NewSteps /\ Serving'
            /\ irq'.at \in PortSteps => irq'.port \in Sockets
        BY <1>3, <2>1, <3>1, <3>2, <3>3
      <3> QED
        BY <1>1, <2>1, <2>2, <3>4
    <2>4. CASE irq' \in IrqType /\ irq'.at = "ack"
      <3>1. Serving' /\ irq'.at \notin NewSteps /\ irq'.at \notin PortSteps
        BY <2>4 DEF Serving, PortSteps, HubSteps, NewSteps
      <3> QED
        BY <1>1, <2>1, <2>2, <2>4, <3>1
    <2> QED
      BY <1>0, <1>5, <2>3, <2>4, RootIrqIs
  <1>6. CASE NextPort
    <2>1. /\ irq.at = "next" /\ Starts(irq.hub, irq.bm \ {irq.port})
          /\ UNCHANGED <<world, faults, hc, core, sched, halted, marks>>
      BY <1>0, <1>6, NextPortIs
    <2>2. WorldTypes' /\ UNCHANGED <<core, sched, td>> /\ marks \subseteq Marks
      BY <1>0, <1>2, <2>1 DEF CoreTypes, hc
    <2>3. irq.bm \in SUBSET Sockets
      BY <1>0 DEF IrqTypes, IrqType
    <2>4. PICK h, bm : h = irq.hub /\ bm = irq.bm \ {irq.port}
      OBVIOUS
    <2>5. bm \in SUBSET Sockets /\ Starts(h, bm)
          /\ (h # Root => h \in Live /\ dev[h].data = "hub" /\ irq.cur = h /\ h \in Listed)
      BY <1>0, <2>1, <2>3, <2>4 DEF Serving
    <2>6. /\ irq' \in IrqType /\ irq'.at \notin NewSteps /\ Serving'
          /\ irq'.at \in PortSteps => irq'.port \in Sockets
      BY <1>3, <2>1, <2>5
    <2> QED
      BY <1>1, <2>1, <2>2, <2>6
  <1>7. CASE Acknowledge
    <2>1. /\ irq.at = "ack" /\ irq' \in IrqType /\ irq'.at = "idle"
          /\ intr' \subseteq {"INT", "PCD"} /\ marks \subseteq marks' /\ marks' \subseteq Marks
          /\ UNCHANGED <<world, faults, td, intbm, core, sched, halted>>
      BY <1>0, <1>7, AcknowledgeIs
    <2>2. WorldTypes'
      BY <1>0, <2>1 DEF WorldTypes, world
    <2>3. Serving' /\ irq'.at \notin NewSteps /\ irq'.at \notin PortSteps
      BY <2>1 DEF Serving, PortSteps, HubSteps, NewSteps
    <2> QED
      BY <1>1, <2>1, <2>2, <2>3
  <1>8. CASE Hang
    <2>1. /\ SamePort /\ irq.at # "address" /\ irq'.at = "hung"
          /\ UNCHANGED <<world, faults, hc, core, sched, halted, marks>>
      BY <1>0, <1>8, HangIs
    <2>2. WorldTypes' /\ UNCHANGED <<core, sched, td>> /\ marks \subseteq Marks /\ irq' \in IrqType
      BY <1>0, <1>2, <2>1 DEF CoreTypes, hc, SamePort
    <2>3. Serving' /\ irq'.at \notin NewSteps /\ irq'.at \notin PortSteps
      BY <2>1 DEF Serving, PortSteps, HubSteps, NewSteps
    <2> QED
      BY <1>1, <2>1, <2>2, <2>3
  <1> QED
    BY <1>4, <1>5, <1>6, <1>7, <1>8

\* A transaction that is not the last of its kind.
LEMMA AnotherKeepsBase ==
    ASSUME Base, Another
    PROVE  Base'
  <1>0. Types /\ Serving /\ Endpoints /\ WorldTypes /\ CoreTypes /\ IrqTypes
    BY DEF Base, Types
  <1>1. /\ faults' \in 0..MaxFaults /\ marks \subseteq marks' /\ marks' \subseteq Marks
        /\ halted' \subseteq Ids
        /\ UNCHANGED <<world, hc, irq, core, sched>>
    BY <1>0, AnotherIs DEF Tried
  <1>2. Quiet
    BY <1>1 DEF Quiet
  <1>3. /\ \A u \in Ids : td[u] = "none" /\ IsHub(dev[u].thing) => td'[u] = "none"
        /\ \A u \in Ids : u \in Listed' /\ IsHub(dev[u].thing) => u \in Listed
    BY <1>1 DEF Listed, hc
  <1>4. Unused' /\ Tree' /\ Newest' /\ PortsSound' /\ ListLive'
    BY <1>2, <1>3, QuietKeeps
  <1>5. Endpoints'
    BY <1>0, <1>1, SameKeepsEndpoints DEF core, hc
  <1>6. WorldTypes' /\ CoreTypes' /\ IrqTypes'
    BY <1>0, <1>1 DEF WorldTypes, CoreTypes, IrqTypes, core, world, hc
  <1>7. Serving'
    BY <1>0, <1>1 DEF Serving, Live, Listed, core
  <1> QED
    BY <1>4, <1>5, <1>6, <1>7 DEF Base, Types

LEMMA PlugKeepsBase ==
    ASSUME Base, (\E f \in Fits : PlugIn(f[1], f[2])) \/ (\E s \in Sockets : Unplug(s))
    PROVE  Base'
  <1>0. Types /\ Serving /\ Endpoints /\ WorldTypes /\ CoreTypes /\ IrqTypes
    BY DEF Base, Types
  <1>1. ASSUME UNCHANGED <<irq, core, sched, td, halted, marks>>, WorldTypes'
        PROVE  Base'
    <2>1. Quiet
      BY <1>1 DEF Quiet
    <2>2. /\ \A u \in Ids : td[u] = "none" /\ IsHub(dev[u].thing) => td'[u] = "none"
          /\ \A u \in Ids : u \in Listed' /\ IsHub(dev[u].thing) => u \in Listed
      BY <1>1 DEF Listed
    <2>3. Unused' /\ Tree' /\ Newest' /\ PortsSound' /\ ListLive'
      BY <2>1, <2>2, QuietKeeps
    <2>4. Endpoints'
      BY <1>0, <1>1, SameKeepsEndpoints DEF core
    <2>5. CoreTypes' /\ IrqTypes'
      BY <1>0, <1>1 DEF CoreTypes, IrqTypes, core
    <2>6. Serving'
      BY <1>0, <1>1 DEF Serving, Live, Listed, core
    <2> QED
      BY <1>1, <2>3, <2>4, <2>5, <2>6 DEF Base, Types
  <1>2. ASSUME NEW f \in Fits, PlugIn(f[1], f[2]) PROVE Base'
    <2>1. /\ f[1] \in Things /\ f[2] \in Sockets
          /\ plugs' \in 0..MaxPlugs
          /\ plug' = [plug EXCEPT ![f[2]] = f[1]]
          /\ chg' \subseteq Sockets /\ intr' \subseteq {"INT", "PCD"}
          /\ UNCHANGED <<enC, bus, faults, td, intbm, irq, core, sched, halted, marks>>
      BY <1>0, <1>2, PlugInIs
    <2>2. WorldTypes'
      BY <1>0, <2>1 DEF WorldTypes
    <2> QED
      BY <1>1, <2>1, <2>2
  <1>3. ASSUME NEW s \in Sockets, Unplug(s) PROVE Base'
    <2>1. /\ plugs' \in 0..MaxPlugs
          /\ plug' = [plug EXCEPT ![s] = Empty]
          /\ bus' = [u \in Things |->
                 IF u = plug[s] \/ \E r \in Below(plug[s]) : u = plug[r] THEN Off ELSE bus[u]]
          /\ chg' \subseteq Sockets /\ intr' \subseteq {"INT", "PCD"}
          /\ UNCHANGED <<enC, faults, td, intbm, irq, core, sched, halted, marks>>
      BY <1>0, <1>3, UnplugIs
    <2>2. Off \in Int
      BY DEF Off
    <2>3. WorldTypes'
      BY <1>0, <2>1, <2>2 DEF WorldTypes
    <2> QED
      BY <1>1, <2>1, <2>3
  <1> QED
    BY <1>2, <1>3

\* The steps of the periodic schedule.
LEMMA PeriodicKeepsBase ==
    ASSUME Base, PeriodicComplete \/ Reschedule \/ (\E u \in Ids : HubReports(u))
    PROVE  Base'
  <1>0. Types /\ Serving /\ Endpoints /\ WorldTypes /\ CoreTypes /\ IrqTypes
    BY DEF Base, Types
  <1>1. ASSUME UNCHANGED <<core, sched, halted, marks>>, irq' \in IrqType,
               irq' = irq \/ (irq'.at \notin NewSteps /\ irq.at \notin NewSteps),
               WorldTypes', td' \in [Ids -> {"none", "active", "done"}],
               irq' = irq => \A u \in Ids : td[u] = "none" => td'[u] = "none",
               irq'.at \in PortSteps => irq'.port \in Sockets,
               irq'.at \in NewSteps => irq'.new \in Ids, Serving',
               \A u \in Ids : td'[u] # "none" /\ td'[u] # td[u] =>
                  /\ u \in Live /\ dev[u].thing # Empty
                  /\ IsHub(dev[u].thing) /\ dev[u].data = "hub"
        PROVE  Base'
    <2>1. Quiet
      BY <1>1 DEF Quiet, NewSteps
    <2>2. /\ irq' = irq => \A u \in Ids : td[u] = "none" /\ IsHub(dev[u].thing) => td'[u] = "none"
          /\ \A u \in Ids : u \in Listed' /\ IsHub(dev[u].thing) => u \in Listed
      BY <1>1 DEF Listed
    <2>3. Unused' /\ Tree' /\ Newest' /\ PortsSound' /\ ListLive' /\ Live' = Live
      BY <2>1, <2>2, QuietKeeps
    <2>4. Endpoints'
      <3>1. dev' = dev /\ sched' = sched /\ Listed' = Listed
        BY <1>1 DEF core, Listed
      <3> QED
        BY <1>0, <1>1, <2>3, <3>1 DEF Endpoints
    <2>5. CoreTypes' /\ IrqTypes'
      BY <1>0, <1>1 DEF CoreTypes, IrqTypes, core
    <2> QED
      BY <1>1, <2>3, <2>4, <2>5 DEF Base, Types
  <1>2. ASSUME UNCHANGED <<core, sched>> PROVE Live' = Live /\ dev' = dev /\ Listed' = Listed
    BY <1>2 DEF core, Live, Listed
  <1>3. CASE PeriodicComplete
    <2>1. irq.at = "walk" /\ UNCHANGED <<world, faults, intr, core, sched, halted, marks>>
      BY <1>0, <1>3, PeriodicCompleteIs
    <2>2. irq.at \notin NewSteps
      BY <2>1 DEF NewSteps
    <2>3. CASE irq' \in IrqType /\ irq'.at \in {"root", "ack"} /\ UNCHANGED <<td, intbm>>
      <3>1. Serving' /\ irq'.at \notin NewSteps /\ irq'.at \notin PortSteps
        BY <2>3 DEF Serving, PortSteps, HubSteps, NewSteps
      <3>2. WorldTypes' /\ td \in [Ids -> {"none", "active", "done"}]
        BY <1>0, <2>1, <2>3 DEF WorldTypes, CoreTypes, world
      <3> QED
        BY <1>1, <2>1, <2>2, <2>3, <3>1, <3>2
    <2>4. CASE /\ irq.cur \in Ids /\ irq.cur \in Listed /\ td[irq.cur] = "done"
               /\ Starts(irq.cur, intbm[irq.cur])
               /\ td' = [td EXCEPT ![irq.cur] = "none"]
               /\ intbm' = [intbm EXCEPT ![irq.cur] = {}]
      <3>1. td' \in [Ids -> {"none", "active", "done"}] /\ \A u \in Ids : td'[u] = "none" \/ td'[u] = td[u]
        BY <1>0, <2>4 DEF CoreTypes
      <3>2. intbm[irq.cur] \in SUBSET Sockets /\ WorldTypes'
        BY <1>0, <2>1, <2>4 DEF WorldTypes, world
      <3>3. /\ irq' \in IrqType /\ irq'.hub = irq.cur /\ irq'.cur = irq.cur
            /\ irq'.at = "resched" \/ (irq'.at = "status" /\ irq'.port \in Sockets)
        BY <2>4, <3>2 DEF Starts
      <3>4. irq.cur \in Live /\ dev[irq.cur].data = "hub"
        BY <1>0, <2>4 DEF Endpoints
      <3>5. Serving'
        BY <1>2, <2>1, <2>4, <3>3, <3>4 DEF Serving
      <3>6. irq'.at \notin NewSteps /\ irq' # irq
        BY <2>1, <3>3 DEF NewSteps
      <3>7. irq'.at \in PortSteps => irq'.port \in Sockets
        BY <3>3 DEF PortSteps, HubSteps, NewSteps
      <3>8. \A u \in Ids : ~(td'[u] # "none" /\ td'[u] # td[u])
        BY <3>1
      <3> QED
        BY <1>1, <2>1, <2>2, <3>1, <3>2, <3>3, <3>5, <3>6, <3>7, <3>8
    <2>5. CASE /\ irq' \in IrqType /\ irq'.at = "walk"
               /\ irq'.cur = NoQh \/ irq'.cur \in Listed
               /\ UNCHANGED <<td, intbm>>
      <3>1. irq'.at \notin NewSteps /\ irq'.at \notin PortSteps
        BY <2>5 DEF PortSteps, HubSteps, NewSteps
      <3>2. WorldTypes' /\ td \in [Ids -> {"none", "active", "done"}]
        BY <1>0, <2>1, <2>5 DEF WorldTypes, CoreTypes, world
      <3>3. Serving'
        BY <1>2, <2>1, <2>5, <3>1 DEF Serving
      <3> QED
        BY <1>1, <2>1, <2>2, <2>5, <3>1, <3>2, <3>3
    <2> QED
      BY <1>0, <1>3, <2>3, <2>4, <2>5, PeriodicCompleteIs
  <1>4. CASE Reschedule
    <2>1. /\ irq.at = "resched" /\ irq' \in IrqType
          /\ UNCHANGED <<world, faults, intr, intbm, core, sched, halted, marks>>
          /\ \/ irq.hub = Root /\ irq'.at = "ack" /\ UNCHANGED td
             \/ /\ irq.hub \in Ids /\ td' = [td EXCEPT ![irq.hub] = "active"]
                /\ irq'.at = "walk" /\ (irq'.cur = NoQh \/ irq'.cur \in Listed)
      BY <1>0, <1>4, RescheduleIs
    <2>2. irq.at \notin NewSteps /\ irq'.at \notin NewSteps /\ irq'.at \notin PortSteps
      BY <2>1 DEF NewSteps, PortSteps, HubSteps
    <2>3. WorldTypes' /\ td' \in [Ids -> {"none", "active", "done"}]
      BY <1>0, <2>1 DEF WorldTypes, CoreTypes, world
    <2>4. Serving'
      BY <1>2, <2>1, <2>2 DEF Serving
    <2>5. irq.hub # Root => irq.hub \in Listed /\ dev[irq.hub].data = "hub"
      BY <1>0, <2>1 DEF Serving
    <2>6. irq.hub # Root => /\ irq.hub \in Live /\ dev[irq.hub].thing # Empty
                            /\ IsHub(dev[irq.hub].thing) /\ dev[irq.hub].data = "hub"
      BY <1>0, <2>5 DEF Endpoints, Base, Tree
    <2>7. ASSUME NEW u \in Ids, td'[u] # td[u]
          PROVE  /\ u \in Live /\ dev[u].thing # Empty
                 /\ IsHub(dev[u].thing) /\ dev[u].data = "hub"
      <3>1. u = irq.hub
        BY <1>0, <2>1, <2>7 DEF CoreTypes
      <3>2. u # Root
        BY IdsAre
      <3> QED
        BY <2>6, <3>1, <3>2
    <2>8. irq' # irq
      BY <2>1
    <2> QED
      BY <1>1, <2>1, <2>2, <2>3, <2>4, <2>7, <2>8
  <1>5. ASSUME NEW u \in Ids, HubReports(u) PROVE Base'
    <2>1. /\ td[u] = "active" /\ IsHub(dev[u].thing) /\ td' = [td EXCEPT ![u] = "done"]
          /\ \E bm \in SUBSET Sockets : intbm' = [intbm EXCEPT ![u] = bm]
          /\ intr' \subseteq {"INT", "PCD"}
          /\ UNCHANGED <<world, faults, irq, core, sched, halted, marks>>
      BY <1>0, <1>5, HubReportsIs
    <2>2. WorldTypes'
      <3>1. intbm' \in [Ids -> SUBSET Sockets]
        <4>1. PICK bm \in SUBSET Sockets : intbm' = [intbm EXCEPT ![u] = bm]
          BY <2>1
        <4> QED
          BY <1>0, <4>1 DEF WorldTypes
      <3> QED
        BY <1>0, <2>1, <3>1 DEF WorldTypes, world
    <2>3. td' \in [Ids -> {"none", "active", "done"}] /\ \A v \in Ids : v # u => td'[v] = td[v]
      BY <1>0, <2>1 DEF CoreTypes
    <2>4. u \in Live /\ dev[u].thing # Empty /\ dev[u].data = "hub"
      BY <1>0, <2>1 DEF Endpoints
    <2>5. Serving'
      BY <1>0, <1>2, <2>1 DEF Serving
    <2>6. IrqTypes
      BY <1>0
    <2> QED
      BY <1>1, <2>1, <2>2, <2>3, <2>4, <2>5, <2>6 DEF IrqTypes
  <1> QED
    BY <1>3, <1>4, <1>5

\* An endpoint is scheduled.
LEMMA ScheduleIs ==
    ASSUME Types, Endpoints, NEW u \in Ids, sched' = AddQhn(sched, u, Rate)
    PROVE  sched' \in Schedules /\ Once(sched'.list) /\ Listed' = Listed \cup {u}
  <1>1. PICK r, t : r = Rate /\ t = AddQhn(sched, u, r)
    OBVIOUS
  <1>2. sched \in Schedules /\ Once(sched.list) /\ r \in Rates
    BY <1>1, RatesAre DEF Types, CoreTypes, Endpoints
  <1>3. t \in Schedules /\ Once(t.list) /\ ToSet(t.list) = ToSet(sched.list) \cup {u}
    BY <1>1, <1>2, AddIs
  <1> QED
    BY <1>1, <1>3 DEF Listed

LEMMA SchedulingKeepsBase ==
    ASSUME Base, PowerPorts \/ (\E u \in Ids : BindDriver(u))
    PROVE  Base'
  <1>0. Types /\ Serving /\ Endpoints /\ Newest /\ WorldTypes /\ CoreTypes /\ IrqTypes
    BY DEF Base, Types
  <1>1. ASSUME NEW u \in Live, dev[u].thing # Empty, IsHub(dev[u].thing) => dev[u].data = "hub",
               sched' = AddQhn(sched, u, Rate), td' = [td EXCEPT ![u] = "active"],
               UNCHANGED core, marks \subseteq marks', marks' \subseteq Marks,
               \/ irq' = irq /\ ~IsHub(dev[u].thing)
               \/ /\ irq' # irq /\ irq'.at \notin NewSteps
                  /\ irq.at \notin {"address", "desc", "strings"},
               halted' \subseteq Ids, WorldTypes', IrqTypes', Serving'
        PROVE  Base'
    <2>0. u \in Ids /\ dev' = dev
      BY <1>1 DEF Live, core
    <2>1. Quiet
      BY <1>1 DEF Quiet
    <2>2. irq' = irq => \A v \in Ids : td[v] = "none" /\ IsHub(dev[v].thing) => td'[v] = "none"
      <3>1. ASSUME ~IsHub(dev[u].thing), NEW v \in Ids, td[v] = "none", IsHub(dev[v].thing)
            PROVE  td'[v] = "none"
        BY <1>0, <1>1, <2>0, <3>1 DEF CoreTypes
      <3> QED
        BY <1>1, <3>1
    <2>4. sched' \in Schedules /\ Once(sched'.list) /\ Listed' = Listed \cup {u}
      BY <1>0, <1>1, <2>0, ScheduleIs
    <2>8. irq' = irq => \A v \in Ids : v \in Listed' /\ IsHub(dev[v].thing) => v \in Listed
      BY <1>1, <2>4
    <2>3. Unused' /\ Tree' /\ Newest' /\ PortsSound' /\ ListLive' /\ Live' = Live
      BY <2>1, <2>2, <2>8, QuietKeeps
    <2>5. td' \in [Ids -> {"none", "active", "done"}] /\ td'[u] = "active"
          /\ \A v \in Ids : v # u => td'[v] = td[v]
      BY <1>0, <1>1, <2>0 DEF CoreTypes
    <2>6. Endpoints'
      BY <1>0, <1>1, <2>0, <2>3, <2>4, <2>5 DEF Endpoints
    <2>7. CoreTypes'
      BY <1>0, <1>1, <2>4, <2>5 DEF CoreTypes, core
    <2> QED
      BY <1>1, <2>3, <2>6, <2>7 DEF Base, Types
  <1>2. CASE PowerPorts
    <2>1. /\ Tried /\ SamePort /\ irq'.new = irq.new
          /\ halted \subseteq halted' /\ halted' \subseteq Ids
          /\ irq.at = "power" /\ irq'.at = "enable" /\ chg' \subseteq Sockets
          /\ sched' = AddQhn(sched, irq.new, Rate)
          /\ td' = [td EXCEPT ![irq.new] = "active"]
          /\ UNCHANGED <<plug, enC, bus, plugs, intr, intbm, core>>
      BY <1>0, <1>2, PowerPortsIs
    <2>2. /\ irq.new \in Live /\ IsHub(dev[irq.new].thing) /\ dev[irq.new].data = "hub"
          /\ irq.new \in Ids /\ dev[irq.new].thing # Empty
      BY <1>0, <2>1, HubsAre DEF Newest, NewSteps, Live
    <2>3. WorldTypes'
      BY <1>0, <2>1 DEF WorldTypes, Tried
    <2>4. irq' # irq /\ irq'.at \notin NewSteps /\ irq.at \notin {"address", "desc", "strings"}
          /\ irq.at \in PortSteps /\ irq'.at # "walk"
      BY <2>1 DEF NewSteps, PortSteps
    <2>5. IrqTypes'
      BY <1>0, <2>1, <2>4 DEF IrqTypes, SamePort
    <2>6. Listed' = Listed \cup {irq.new} /\ dev' = dev /\ Live' = Live
      BY <1>0, <2>1, <2>2, ScheduleIs DEF core, Live
    <2>7. Serving'
      BY <1>0, <2>1, <2>4, <2>6, ServingKeeps
    <2> QED
      BY <1>1, <2>1, <2>2, <2>3, <2>4, <2>5, <2>7 DEF Tried
  <1>3. ASSUME NEW u \in Ids, BindDriver(u) PROVE Base'
    <2>1. /\ marks \subseteq marks' /\ marks' \subseteq Marks
          /\ u \in devlist /\ u \in Live /\ dev[u].thing # Empty /\ ~IsHub(dev[u].thing)
          /\ sched' = AddQhn(sched, u, Rate)
          /\ td' = [td EXCEPT ![u] = "active"]
          /\ UNCHANGED <<world, faults, intr, intbm, irq, core, halted>>
      BY <1>0, <1>3, BindDriverIs
    <2>2. WorldTypes' /\ IrqTypes' /\ halted \subseteq Ids
      BY <1>0, <2>1 DEF WorldTypes, IrqTypes, CoreTypes, world
    <2>3. Listed' = Listed \cup {u} /\ dev' = dev /\ Live' = Live
      BY <1>0, <2>1, ScheduleIs DEF core, Live
    <2>4. Serving'
      BY <1>0, <2>1, <2>3 DEF Serving
    <2> QED
      BY <1>1, <2>1, <2>2, <2>4
  <1> QED
    BY <1>2, <1>3

\* The handler goes on with the device that is set up.
LEMMA SetupTypes ==
    ASSUME Types, SamePort, irq'.at \in PortSteps, irq.at \in PortSteps,
           irq'.at \in NewSteps => irq'.new \in Ids
    PROVE  IrqTypes'
  BY DEF Types, IrqTypes, SamePort

LEMMA NewDeviceKeepsBase ==
    ASSUME Base, NewDevice
    PROVE  Base'
  <1>0. /\ Types /\ Serving /\ Endpoints /\ Newest /\ Unused /\ Tree /\ PortsSound /\ ListLive
        /\ WorldTypes /\ CoreTypes /\ IrqTypes
    BY DEF Base, Types
  <1>1. /\ Tried /\ SamePort /\ irq.at = "desc8"
        /\ irq'.new \in Ids /\ dev[irq'.new].st = "none"
        /\ \A v \in Ids : v < irq'.new => dev[v].st # "none"
        /\ \/ /\ irq'.at = "address"
              /\ dev' = [dev EXCEPT ![irq'.new] = Allocated("live")]
           \/ /\ irq'.at = "again"
              /\ dev' = [dev EXCEPT ![irq'.new] = Allocated("freed")]
        /\ dev' \in [Ids -> DevType]
        /\ UNCHANGED <<world, hc, port, devlist, addrbm, nextAddr, sched, halted>>
    BY <1>0, NewDeviceIs
  <1>2. PICK n \in Ids : n = irq'.new
    BY <1>1
  <1>3. PICK st \in {"live", "freed"} :
            /\ dev' = [dev EXCEPT ![n] = Allocated(st)]
            /\ \/ irq'.at = "address" /\ st = "live"
               \/ irq'.at = "again" /\ st = "freed"
    BY <1>1, <1>2
  <1>4. dev \in [Ids -> DevType] /\ td \in [Ids -> {"none", "active", "done"}]
    BY <1>0 DEF CoreTypes
  <1>5. /\ \A v \in Ids : v # n => dev'[v] = dev[v]
        /\ dev'[n] = Allocated(st)
    BY <1>3, <1>4
  <1>6. /\ dev'[n].st = st /\ dev'[n].thing = Empty /\ dev'[n].hub = irq.hub
        /\ dev'[n].socket = irq.port /\ dev'[n].addr = 0 /\ dev'[n].data = "none"
    BY <1>5 DEF Allocated
  <1>7. /\ Live' = IF st = "live" THEN Live \cup {n} ELSE Live
        /\ n \notin Live /\ Live \subseteq Ids
    BY <1>1, <1>2, <1>3, <1>5, <1>6 DEF Live
  <1>8. Ids \subseteq Nat \ {0} /\ Root \notin Ids /\ Null \notin Ids /\ Null # Root
    BY IdsAre
  <1>9. /\ n \notin devlist /\ \A s \in Sockets : port[n][s] = Null
        /\ \A v \in Ids : v > n => dev[v].st = "none"
    BY <1>0, <1>1, <1>2 DEF Unused
  <1>10. \A v \in Live : v < n
    BY <1>7, <1>8, <1>9 DEF Live
  <1>11. /\ irq.hub \in Live \cup {Root} /\ irq.hub # n /\ irq.port \in Sockets
         /\ irq.hub # Root => /\ dev[irq.hub].data = "hub" /\ IsHub(dev[irq.hub].thing)
                              /\ irq.hub \in Listed /\ irq.cur = irq.hub
    <2>1. irq.at \in PortSteps
      BY <1>1 DEF PortSteps
    <2> QED
      BY <1>0, <1>7, <1>8, <2>1 DEF Serving, Tree, IrqTypes
  <1>12. irq.hub < n
    BY <1>8, <1>10, <1>11 DEF Root
  <1>13. irq'.at \in PortSteps /\ irq.at \in PortSteps /\ irq'.at # "walk"
    BY <1>1 DEF PortSteps, HubSteps, NewSteps
  <1>14. Types'
    <2>1. WorldTypes'
      BY <1>0, <1>1 DEF WorldTypes, world, hc, Tried
    <2>2. CoreTypes'
      BY <1>0, <1>1 DEF CoreTypes, hc, Tried
    <2>3. IrqTypes'
      BY <1>0, <1>1, <1>13, SetupTypes
    <2> QED
      BY <2>1, <2>2, <2>3 DEF Types
  <1>15. sched' = sched /\ Listed' = Listed /\ td' = td /\ port' = port /\ devlist' = devlist
    BY <1>1 DEF Listed, hc
  <1>16. Serving'
    BY <1>0, <1>1, <1>5, <1>7, <1>11, <1>13, <1>15, ServingKeeps
  <1>17. Unused'
    <2>1. ASSUME NEW u \in Ids, dev'[u].st = "none"
          PROVE  /\ dev'[u] = NoDev /\ u \notin devlist
                 /\ \A s \in Sockets : port[u][s] = Null
                 /\ \A v \in Ids : v > u => dev'[v].st = "none"
      <3>1. u # n /\ dev'[u] = dev[u]
        BY <1>3, <1>5, <1>6, <2>1
      <3>2. u > n
        BY <1>1, <1>2, <1>8, <2>1, <3>1
      <3>3. \A v \in Ids : v > u => v # n
        BY <1>8, <3>2
      <3> QED
        BY <1>0, <1>5, <2>1, <3>1, <3>3 DEF Unused
    <2> QED
      BY <1>15, <2>1 DEF Unused
  <1>18. Tree'
    <2>1. ASSUME NEW u \in Live'
          PROVE  /\ dev'[u].hub < u /\ dev'[u].socket \in Sockets
                 /\ dev'[u].data # "none" => IsHub(dev'[u].thing)
                 /\ dev'[u].hub # Root => IsHub(dev'[dev'[u].hub].thing)
      <3>1. CASE u = n
        BY <1>5, <1>6, <1>7, <1>11, <1>12, <3>1
      <3>2. CASE u # n
        <4>1. u \in Live /\ dev'[u] = dev[u] /\ dev[u].hub < u
          BY <1>0, <1>5, <1>7, <2>1, <3>2 DEF Tree
        <4>2. dev[u].hub \in Ids \cup {Root}
          BY <1>4, <1>7, <4>1 DEF DevType
        <4>3. dev[u].hub # n
          BY <1>7, <1>8, <1>10, <4>1, <4>2 DEF Root
        <4> QED
          BY <1>0, <1>5, <4>1, <4>2, <4>3 DEF Tree
      <3> QED
        BY <3>1, <3>2
    <2>2. \A u \in Ids : dev'[u].data = "dangling" => "unbound" \in marks'
      BY <1>0, <1>1, <1>5, <1>6 DEF Tree, Tried
    <2> QED
      BY <2>1, <2>2 DEF Tree
  <1>19. Endpoints'
    BY <1>0, <1>5, <1>7, <1>15 DEF Endpoints
  <1>20. Newest'
    <2>1. CASE irq'.at = "address"
      <3>1. n \in Live' /\ dev'[n].hub = irq'.hub /\ dev'[n].socket = irq'.port
        BY <1>1, <1>3, <1>6, <1>7, <2>1 DEF SamePort
      <3>2. \A v \in Ids : v > n => dev'[v].st = "none"
        BY <1>5, <1>8, <1>9
      <3> QED
        BY <1>2, <1>6, <1>9, <1>15, <2>1, <3>1, <3>2 DEF Newest
    <2>2. CASE irq'.at = "again"
      BY <2>2 DEF Newest, NewSteps
    <2> QED
      BY <1>1, <2>1, <2>2
  <1>21. PortsSound'
    <2>1. ASSUME NEW w \in Live' \cup {Root}, NEW s \in Sockets, port[w][s] # Null
          PROVE  /\ port[w][s] \in Live' /\ port[w][s] # n
                 /\ dev'[port[w][s]].hub = w /\ dev'[port[w][s]].socket = s
      <3>1. w # n /\ w \in Live \cup {Root}
        BY <1>7, <1>9, <2>1
      <3>2. /\ port[w][s] \in Live
            /\ dev[port[w][s]].hub = w /\ dev[port[w][s]].socket = s
        BY <1>0, <2>1, <3>1 DEF PortsSound
      <3> QED
        BY <1>5, <1>7, <3>2
    <2>2. \A w \in Live' \cup {Root}, s \in Sockets : port[w][s] # n
      BY <1>8, <2>1
    <2> QED
      BY <1>2, <1>15, <2>1, <2>2 DEF PortsSound
  <1>22. ListLive'
    BY <1>0, <1>1, <1>7, <1>15 DEF ListLive, Tried
  <1> QED
    BY <1>14, <1>16, <1>17, <1>18, <1>19, <1>20, <1>21, <1>22 DEF Base

\* The device that is set up is the last of the live ones, and no hub yet.
LEMMA NewestIs ==
    ASSUME Base, irq.at \in NewSteps
    PROVE  /\ irq.new \in Live /\ irq.new \in Ids /\ Live \subseteq Ids
           /\ \A v \in Live : v <= irq.new /\ dev[v].hub # irq.new
           /\ irq.hub \in Live \cup {Root} /\ irq.hub # irq.new /\ irq.hub < irq.new
           /\ irq.hub # Root => dev[irq.hub].data = "hub" /\ IsHub(dev[irq.hub].thing)
           /\ irq.at \in {"address", "desc"} => td[irq.new] = "none" /\ irq.new \notin Listed
           /\ irq.at \in {"bind", "config", "power"} => td[irq.new] = "none" /\ irq.new \notin Listed
  <1>1. Newest /\ Tree /\ Unused /\ Serving /\ Endpoints /\ Types
    BY DEF Base
  <1>2. irq.new \in Live /\ irq.new \in Ids /\ Live \subseteq Ids /\ dev[irq.new].hub = irq.hub
    BY <1>1 DEF Newest, Live
  <1>3. Ids \subseteq Nat \ {0} /\ Root \notin Ids
    BY IdsAre
  <1>4. \A v \in Live : v <= irq.new
    <2>1. PICK n \in Nat : n = irq.new
      BY <1>2, <1>3
    <2>2. \A v \in Ids : v > n => dev[v].st = "none"
      BY <1>1, <2>1 DEF Newest
    <2>3. \A v \in Live : ~(v > n) /\ v \in Nat
      BY <1>3, <2>2 DEF Live
    <2> QED
      BY <2>1, <2>3
  <1>5. \A v \in Live : dev[v].hub < v /\ dev[v].hub \in Ids \cup {Root}
    BY <1>1 DEF Tree, Types, CoreTypes, DevType, Live
  <1>6. \A v \in Live : dev[v].hub # irq.new
    <2>1. ASSUME NEW v \in Live PROVE dev[v].hub # irq.new
      <3>1. PICK n, k \in Nat, x \in Nat : n = irq.new /\ k = v /\ x = dev[v].hub
        BY <1>2, <1>3, <1>5 DEF Root
      <3> QED
        BY <1>2, <1>3, <1>4, <1>5, <3>1
    <2> QED
      BY <2>1
  <1>7. /\ irq.hub \in Live \cup {Root} /\ irq.hub < irq.new
        /\ irq.hub # Root => dev[irq.hub].data = "hub"
    BY <1>1, <1>2, <1>5 DEF Serving, PortSteps
  <1>8. irq.hub # irq.new
    BY <1>2, <1>6
  <1>9. irq.hub # Root => IsHub(dev[irq.hub].thing)
    BY <1>1, <1>7 DEF Tree
  <1>10. irq.at \in {"address", "desc"} => td[irq.new] = "none" /\ irq.new \notin Listed
    BY <1>1, <1>2 DEF Newest, Endpoints
  <1> QED
    BY <1>1, <1>2, <1>4, <1>6, <1>7, <1>8, <1>9, <1>10 DEF Newest

\* The device that is set up is freed.
LEMMA FreeingKeepsBase ==
    ASSUME Base, Tried, SamePort, irq'.new = irq.new, irq.at \in {"address", "desc"},
           irq'.at = "again",
           dev' = [dev EXCEPT ![irq.new] = Dead(dev[irq.new].thing)],
           devlist' \subseteq devlist \cup {irq.new},
           "listed" \in marks' \/ (irq.at = "address" /\ devlist' = devlist),
           addrbm' \subseteq 0..(NumDevices - 1), nextAddr' \in Nat,
           WorldTypes', UNCHANGED <<td, port, sched, halted>>
    PROVE  Base'
  <1>0. /\ Types /\ Serving /\ Endpoints /\ Newest /\ Unused /\ Tree /\ PortsSound /\ ListLive
        /\ WorldTypes /\ CoreTypes /\ IrqTypes
    BY DEF Base, Types
  <1>1. irq.at \in NewSteps /\ irq.at \in PortSteps /\ irq'.at \in PortSteps
        /\ irq'.at \notin NewSteps /\ irq'.at # "walk"
    BY DEF NewSteps, PortSteps, HubSteps
  <1>2. PICK n \in Ids : n = irq.new
    BY <1>0, <1>1 DEF IrqTypes
  <1>3. /\ n \in Live /\ Live \subseteq Ids
        /\ \A v \in Live : dev[v].hub # n
        /\ irq.hub \in Live \cup {Root} /\ irq.hub # n
        /\ td[n] = "none" /\ n \notin Listed
    BY <1>1, <1>2, NewestIs
  <1>4. dev \in [Ids -> DevType]
    BY <1>0 DEF CoreTypes
  <1>5. /\ \A v \in Ids : v # n => dev'[v] = dev[v]
        /\ dev'[n] = Dead(dev[n].thing)
    BY <1>2, <1>4
  <1>6. dev'[n].st = "freed" /\ dev'[n].data = "none" /\ dev'[n].thing = dev[n].thing
    BY <1>5 DEF Dead
  <1>7. Live' = Live \ {n}
    BY <1>3, <1>5, <1>6 DEF Live
  <1>8. dev' \in [Ids -> DevType]
    <2>1. dev[n].thing \in Things \cup {Empty}
      BY <1>4 DEF DevType
    <2>2. Dead(dev[n].thing) \in DevType
      BY <2>1 DEF Dead, DevType
    <2> QED
      BY <1>2, <1>4, <2>2
  <1>9. Types'
    <2>1. IrqTypes'
      BY <1>0, <1>1, SetupTypes
    <2>2. CoreTypes'
      BY <1>0, <1>2, <1>8 DEF CoreTypes, Tried
    <2> QED
      BY <2>1, <2>2 DEF Types
  <1>10. Listed' = Listed
    BY DEF Listed
  <1>11. Serving'
    BY <1>0, <1>1, <1>3, <1>5, <1>7, <1>10, ServingKeeps
  <1>12. Unused'
    <2>1. ASSUME NEW u \in Ids, dev'[u].st = "none"
          PROVE  /\ dev'[u] = NoDev /\ u \notin devlist'
                 /\ \A s \in Sockets : port[u][s] = Null
                 /\ \A v \in Ids : v > u => dev'[v].st = "none"
      <3>1. u # n /\ dev'[u] = dev[u]
        BY <1>5, <1>6, <2>1
      <3>2. /\ dev[u] = NoDev /\ u \notin devlist
            /\ \A s \in Sockets : port[u][s] = Null
            /\ \A v \in Ids : v > u => dev[v].st = "none"
        BY <1>0, <2>1, <3>1 DEF Unused
      <3>3. \A v \in Ids : v > u => v # n
        BY <1>3, <3>2 DEF Live
      <3> QED
        BY <1>2, <1>5, <3>1, <3>2, <3>3
    <2> QED
      BY <2>1 DEF Unused
  <1>13. Tree'
    <2>1. ASSUME NEW u \in Live'
          PROVE  /\ dev'[u].hub < u /\ dev'[u].socket \in Sockets
                 /\ dev'[u].data # "none" => IsHub(dev'[u].thing)
                 /\ dev'[u].hub # Root => IsHub(dev'[dev'[u].hub].thing)
      <3>1. u \in Live /\ u \in Ids /\ dev'[u] = dev[u]
        BY <1>3, <1>5, <1>7
      <3>2. dev[u].hub \in Ids \cup {Root} /\ dev[u].hub # n
        BY <1>3, <1>4, <3>1 DEF DevType
      <3> QED
        BY <1>0, <1>5, <3>1, <3>2 DEF Tree
    <2>2. \A u \in Ids : dev'[u].data = "dangling" => "unbound" \in marks'
      BY <1>0, <1>5, <1>6 DEF Tree, Tried
    <2> QED
      BY <2>1, <2>2 DEF Tree
  <1>14. Endpoints'
    BY <1>0, <1>3, <1>5, <1>7, <1>10 DEF Endpoints
  <1>15. Newest'
    BY <1>1 DEF Newest
  <1>16. PortsSound'
    <2>1. ASSUME NEW w \in Live' \cup {Root}, NEW s \in Sockets, port[w][s] # Null
          PROVE  /\ port[w][s] \in Live'
                 /\ dev'[port[w][s]].hub = w /\ dev'[port[w][s]].socket = s
      <3>1. w \in Live \cup {Root}
        BY <1>7
      <3>2. /\ port[w][s] \in Live /\ port[w][s] # n
            /\ dev[port[w][s]].hub = w /\ dev[port[w][s]].socket = s
        BY <1>0, <1>2, <2>1, <3>1 DEF PortsSound
      <3> QED
        BY <1>3, <1>5, <1>7, <3>2
    <2> QED
      BY <2>1 DEF PortsSound
  <1>17. ListLive'
    BY <1>0, <1>2, <1>7 DEF ListLive, Tried, Newest, NewSteps
  <1> QED
    BY <1>9, <1>11, <1>12, <1>13, <1>14, <1>15, <1>16, <1>17 DEF Base

\* The record of the device that is set up changes.
LEMMA SettingKeepsBase ==
    ASSUME Base, Tried, SamePort, irq'.new = irq.new, irq.at \in NewSteps,
           irq'.at \in NewSteps \cup {"enable"}, halted' \subseteq Ids,
           NEW d \in DevType, dev' = [dev EXCEPT ![irq.new] = d],
           d.st = "live", d.hub = dev[irq.new].hub, d.socket = dev[irq.new].socket,
           d.data # "none" => IsHub(d.thing),
           d.data = "dangling" => "unbound" \in marks',
           irq.new \in Listed \/ td[irq.new] # "none" =>
              d.thing # Empty /\ d.thing = dev[irq.new].thing /\ d.data = dev[irq.new].data,
           devlist' \subseteq devlist \cup {irq.new},
           addrbm' \subseteq 0..(NumDevices - 1), nextAddr' \in Nat,
           WorldTypes', UNCHANGED <<td, port, sched>>,
           irq'.at \in {"address", "desc", "strings"} => irq.at \in {"address", "desc", "strings"}
    PROVE  /\ Types' /\ Serving' /\ Unused' /\ Tree' /\ Endpoints' /\ ListLive'
           /\ Live' = Live /\ PortsSound'
  <1>0. /\ Types /\ Serving /\ Endpoints /\ Newest /\ Unused /\ Tree /\ PortsSound /\ ListLive
        /\ WorldTypes /\ CoreTypes /\ IrqTypes
    BY DEF Base, Types
  <1>1. irq.at \in PortSteps /\ irq'.at \in PortSteps /\ irq'.at # "walk"
    BY DEF NewSteps, PortSteps, HubSteps
  <1>2. PICK n \in Ids : n = irq.new
    BY <1>0 DEF IrqTypes
  <1>3. /\ n \in Live /\ Live \subseteq Ids
        /\ \A v \in Live : dev[v].hub # n
        /\ irq.hub \in Live \cup {Root} /\ irq.hub # n
    BY <1>2, NewestIs
  <1>4. dev \in [Ids -> DevType]
    BY <1>0 DEF CoreTypes
  <1>5. /\ \A v \in Ids : v # n => dev'[v] = dev[v]
        /\ dev'[n] = d /\ dev' \in [Ids -> DevType]
    BY <1>2, <1>4
  <1>6. Live' = Live
    BY <1>3, <1>5 DEF Live
  <1>7. Types'
    <2>1. IrqTypes'
      BY <1>0, <1>1, <1>2, SetupTypes
    <2>2. CoreTypes'
      BY <1>0, <1>2, <1>5 DEF CoreTypes, Tried
    <2> QED
      BY <2>1, <2>2 DEF Types
  <1>8. Listed' = Listed
    BY DEF Listed
  <1>9. Serving'
    BY <1>0, <1>1, <1>3, <1>5, <1>6, <1>8, ServingKeeps
  <1>10. Unused'
    <2>1. ASSUME NEW u \in Ids, dev'[u].st = "none"
          PROVE  /\ dev'[u] = NoDev /\ u \notin devlist'
                 /\ \A s \in Sockets : port[u][s] = Null
                 /\ \A v \in Ids : v > u => dev'[v].st = "none"
      <3>1. u # n /\ dev'[u] = dev[u]
        BY <1>5, <2>1
      <3>2. /\ dev[u] = NoDev /\ u \notin devlist
            /\ \A s \in Sockets : port[u][s] = Null
            /\ \A v \in Ids : v > u => dev[v].st = "none"
        BY <1>0, <2>1, <3>1 DEF Unused
      <3>3. \A v \in Ids : v > u => v # n
        BY <1>3, <3>2 DEF Live
      <3> QED
        BY <1>2, <1>5, <3>1, <3>2, <3>3
    <2> QED
      BY <2>1 DEF Unused
  <1>11. Tree'
    <2>1. ASSUME NEW u \in Live
          PROVE  /\ dev'[u].hub < u /\ dev'[u].socket \in Sockets
                 /\ dev'[u].data # "none" => IsHub(dev'[u].thing)
                 /\ dev'[u].hub # Root => IsHub(dev'[dev'[u].hub].thing)
      <3>1. /\ dev[u].hub < u /\ dev[u].socket \in Sockets
            /\ dev[u].data # "none" => IsHub(dev[u].thing)
            /\ dev[u].hub # Root => IsHub(dev[dev[u].hub].thing)
        BY <1>0 DEF Tree
      <3>2. u \in Ids /\ dev[u].hub \in Ids \cup {Root} /\ dev[u].hub # n
        BY <1>3, <1>4 DEF DevType
      <3>3. dev'[u].hub = dev[u].hub /\ dev'[u].socket = dev[u].socket
        BY <1>2, <1>5, <3>2
      <3>4. dev[u].hub # Root => dev'[dev[u].hub] = dev[dev[u].hub]
        BY <1>5, <3>2
      <3>5. dev'[u].data # "none" => IsHub(dev'[u].thing)
        BY <1>5, <3>1, <3>2
      <3> QED
        BY <3>1, <3>3, <3>4, <3>5
    <2>2. \A u \in Ids : dev'[u].data = "dangling" => "unbound" \in marks'
      BY <1>0, <1>5 DEF Tree, Tried
    <2> QED
      BY <1>6, <2>1, <2>2 DEF Tree
  <1>12. Endpoints'
    BY <1>0, <1>2, <1>5, <1>6, <1>8 DEF Endpoints
  <1>13. ListLive'
    BY <1>0, <1>2, <1>3, <1>6 DEF ListLive, Tried
  <1>14. PortsSound'
    <2>1. ASSUME NEW w \in Live \cup {Root}, NEW s \in Sockets, port[w][s] # Null
          PROVE  /\ port[w][s] \in Live
                 /\ dev'[port[w][s]].hub = w /\ dev'[port[w][s]].socket = s
      <3>1. /\ port[w][s] \in Live
            /\ dev[port[w][s]].hub = w /\ dev[port[w][s]].socket = s
        BY <1>0, <2>1 DEF PortsSound
      <3> QED
        BY <1>2, <1>3, <1>5, <3>1
    <2>2. irq'.at \in {"address", "desc", "strings"} =>
            \A w \in Live \cup {Root}, s \in Sockets : port[w][s] # irq'.new
      BY <1>0 DEF PortsSound
    <2> QED
      BY <1>6, <2>1, <2>2 DEF PortsSound
  <1> QED
    BY <1>6, <1>7, <1>9, <1>10, <1>11, <1>12, <1>13, <1>14

LEMMA ListsTypes ==
    ASSUME Types, NEW a, Lists(a)
    PROVE  addrbm' \subseteq 0..(NumDevices - 1) /\ nextAddr' \in Nat
  <1>1. a \in Nat /\ addrbm \subseteq 0..(NumDevices - 1) /\ NumDevices \in Nat
    BY UsbAssumption DEF Types, CoreTypes, Lists
  <1>2. a < NumDevices => a \in 0..(NumDevices - 1)
    BY <1>1
  <1> QED
    BY <1>1, <1>2 DEF Lists

LEMMA SetAddressKeepsBase ==
    ASSUME Base, Addresses, SetAddress
    PROVE  Base'
  <1>0. Types /\ Newest /\ WorldTypes /\ CoreTypes /\ IrqTypes
    BY DEF Base, Types
  <1>1. /\ Tried /\ SamePort /\ irq'.new = irq.new /\ irq.at = "address"
        /\ \/ /\ irq'.at = "desc"
              /\ \E a : /\ Lists(a)
                        /\ dev' = [dev EXCEPT ![irq.new].addr = a]
                        /\ bus' = [t \in Things |-> IF bus[t] = 0 THEN a ELSE bus[t]]
           \/ /\ irq'.at = "again" /\ bus' = bus /\ "listed" \in marks'
              /\ dev' = [dev EXCEPT ![irq.new] = Dead(dev[irq.new].thing)]
              /\ \E a : Lists(a)
           \/ /\ irq'.at = "again" /\ bus' = bus
              /\ dev' = [dev EXCEPT ![irq.new] = Dead(dev[irq.new].thing)]
              /\ UNCHANGED <<devlist, addrbm, nextAddr>>
        /\ UNCHANGED <<plug, chg, enC, plugs, hc, port, sched, halted>>
    BY <1>0, SetAddressIs
  <1>2. irq.at \in NewSteps /\ irq.at \in {"address", "desc"}
    BY <1>1 DEF NewSteps
  <1>3. ASSUME bus' \in [Things -> Int] PROVE WorldTypes'
    BY <1>0, <1>1, <1>3 DEF WorldTypes, hc, Tried
  <1>4. UNCHANGED <<td, port, sched, halted>> /\ halted \subseteq Ids
    BY <1>0, <1>1 DEF hc, CoreTypes
  <1>5. CASE /\ irq'.at = "desc"
             /\ \E a : /\ Lists(a)
                       /\ dev' = [dev EXCEPT ![irq.new].addr = a]
                       /\ bus' = [t \in Things |-> IF bus[t] = 0 THEN a ELSE bus[t]]
    <2>1. PICK a : /\ Lists(a)
                   /\ dev' = [dev EXCEPT ![irq.new].addr = a]
                   /\ bus' = [t \in Things |-> IF bus[t] = 0 THEN a ELSE bus[t]]
      BY <1>5
    <2>2. /\ a \in Nat /\ devlist' = devlist \cup {irq.new}
          /\ addrbm' \subseteq 0..(NumDevices - 1) /\ nextAddr' \in Nat
      BY <1>0, <2>1, ListsTypes DEF Lists
    <2>3. WorldTypes'
      BY <1>0, <1>3, <2>1, <2>2 DEF WorldTypes
    <2>4. irq.new \in Ids /\ irq.new \in Live /\ dev \in [Ids -> DevType]
      BY <1>0, <1>2 DEF Newest, IrqTypes, CoreTypes
    <2>5. PICK c, d : c = dev[irq.new] /\ d = [c EXCEPT !.addr = a]
      OBVIOUS
    <2>6. /\ d \in DevType /\ d.st = c.st /\ d.hub = c.hub /\ d.socket = c.socket
          /\ d.thing = c.thing /\ d.data = c.data /\ d.addr = a
      BY <2>2, <2>4, <2>5 DEF DevType
    <2>7. dev' = [dev EXCEPT ![irq.new] = d]
      BY <2>1, <2>5
    <2>8. c.st = "live" /\ c.data = "none" /\ c.thing = Empty
          /\ irq.new \notin Listed /\ td[irq.new] = "none"
      BY <1>0, <1>1, <1>2, <2>4, <2>5, NewestIs DEF Newest, Live
    <2>9. irq'.at \in NewSteps /\ irq'.at \in {"address", "desc", "strings"}
      BY <1>5 DEF NewSteps
    <2>10. /\ Types' /\ Serving' /\ Unused' /\ Tree' /\ Endpoints' /\ ListLive'
           /\ Live' = Live /\ PortsSound'
      BY <1>1, <1>2, <1>4, <2>2, <2>3, <2>5, <2>6, <2>7, <2>8, <2>9, SettingKeepsBase
    <2>11. Newest'
      <3>1. \A v \in Ids : v # irq.new => dev'[v] = dev[v]
        BY <2>4, <2>7
      <3>2. dev'[irq.new] = d
        BY <2>4, <2>7
      <3>3. /\ dev[irq.new].hub = irq.hub /\ dev[irq.new].socket = irq.port
            /\ \A v \in Ids : v > irq.new => dev[v].st = "none"
        BY <1>0, <1>2 DEF Newest
      <3>4. \A v \in Ids : v > irq.new => dev'[v].st = "none"
        BY <2>4, <2>8, <2>5, <3>1, <3>3
      <3>5. irq'.hub = irq.hub /\ irq'.port = irq.port
        BY <1>1 DEF SamePort
      <3> QED
        BY <1>1, <1>5, <2>4, <2>5, <2>6, <2>8, <2>10, <3>2, <3>3, <3>4, <3>5 DEF Newest
    <2> QED
      BY <2>10, <2>11 DEF Base
  <1>6. CASE /\ irq'.at = "again" /\ bus' = bus
             /\ dev' = [dev EXCEPT ![irq.new] = Dead(dev[irq.new].thing)]
             /\ \/ "listed" \in marks' /\ \E a : Lists(a)
                \/ UNCHANGED <<devlist, addrbm, nextAddr>>
    <2>1. WorldTypes'
      BY <1>0, <1>3, <1>6 DEF WorldTypes
    <2>2. /\ devlist' \subseteq devlist \cup {irq.new}
          /\ "listed" \in marks' \/ devlist' = devlist
          /\ addrbm' \subseteq 0..(NumDevices - 1) /\ nextAddr' \in Nat
      <3>1. CASE "listed" \in marks' /\ \E a : Lists(a)
        BY <1>0, <3>1, ListsTypes DEF Lists
      <3>2. CASE UNCHANGED <<devlist, addrbm, nextAddr>>
        BY <1>0, <3>2 DEF CoreTypes
      <3> QED
        BY <1>6, <3>1, <3>2
    <2> QED
      BY <1>1, <1>2, <1>4, <1>6, <2>1, <2>2, FreeingKeepsBase
  <1> QED
    BY <1>1, <1>5, <1>6

LEMMA GetDescriptorKeepsBase ==
    ASSUME Base, GetDescriptor
    PROVE  Base'
  <1>0. Types /\ Newest /\ WorldTypes /\ CoreTypes /\ IrqTypes
    BY DEF Base, Types
  <1>1. /\ Tried /\ SamePort /\ irq'.new = irq.new /\ irq.at = "desc"
        /\ \/ /\ irq'.at = "strings"
              /\ \E t \in Things : /\ bus[t] = dev[irq.new].addr
                                   /\ dev' = [dev EXCEPT ![irq.new].thing = t]
           \/ /\ irq'.at = "again" /\ "listed" \in marks'
              /\ dev' = [dev EXCEPT ![irq.new] = Dead(dev[irq.new].thing)]
        /\ UNCHANGED <<world, hc, port, devlist, addrbm, nextAddr, sched, halted>>
    BY <1>0, GetDescriptorIs
  <1>2. irq.at \in NewSteps /\ irq.at \in {"address", "desc"}
    BY <1>1 DEF NewSteps
  <1>3. WorldTypes'
    BY <1>0, <1>1 DEF WorldTypes, world, hc, Tried
  <1>4. /\ UNCHANGED <<td, port, sched, halted>> /\ halted \subseteq Ids /\ devlist' = devlist
        /\ addrbm' \subseteq 0..(NumDevices - 1) /\ nextAddr' \in Nat
    BY <1>0, <1>1 DEF hc, CoreTypes
  <1>5. CASE /\ irq'.at = "strings"
             /\ \E t \in Things : dev' = [dev EXCEPT ![irq.new].thing = t]
    <2>1. PICK t \in Things : dev' = [dev EXCEPT ![irq.new].thing = t]
      BY <1>5
    <2>4. irq.new \in Ids /\ irq.new \in Live /\ dev \in [Ids -> DevType]
      BY <1>0, <1>2 DEF Newest, IrqTypes, CoreTypes
    <2>5. PICK c, d : c = dev[irq.new] /\ d = [c EXCEPT !.thing = t]
      OBVIOUS
    <2>6. /\ d \in DevType /\ d.st = c.st /\ d.hub = c.hub /\ d.socket = c.socket
          /\ d.thing = t /\ d.data = c.data /\ d.addr = c.addr
      BY <2>4, <2>5 DEF DevType
    <2>7. dev' = [dev EXCEPT ![irq.new] = d]
      BY <2>1, <2>5
    <2>8. c.st = "live" /\ c.data = "none"
          /\ irq.new \notin Listed /\ td[irq.new] = "none"
      BY <1>0, <1>1, <1>2, <2>4, <2>5, NewestIs DEF Newest, Live
    <2>9. irq'.at \in NewSteps /\ irq'.at \in {"address", "desc", "strings"}
          /\ irq.at \in {"address", "desc", "strings"}
      BY <1>1, <1>5 DEF NewSteps
    <2>10. /\ Types' /\ Serving' /\ Unused' /\ Tree' /\ Endpoints' /\ ListLive'
           /\ Live' = Live /\ PortsSound'
      BY <1>1, <1>2, <1>3, <1>4, <2>5, <2>6, <2>7, <2>8, <2>9, SettingKeepsBase
    <2>11. Newest'
      <3>1. \A v \in Ids : v # irq.new => dev'[v] = dev[v]
        BY <2>4, <2>7
      <3>2. dev'[irq.new] = d
        BY <2>4, <2>7
      <3>3. /\ dev[irq.new].hub = irq.hub /\ dev[irq.new].socket = irq.port
            /\ \A v \in Ids : v > irq.new => dev[v].st = "none"
        BY <1>0, <1>2 DEF Newest
      <3>4. \A v \in Ids : v > irq.new => dev'[v].st = "none"
        BY <2>4, <2>8, <2>5, <3>1, <3>3
      <3>5. irq'.hub = irq.hub /\ irq'.port = irq.port /\ t # Empty
        BY <1>1, HubsAre DEF SamePort
      <3>6. /\ dev'[irq.new].thing # Empty /\ dev'[irq.new].data = "none"
            /\ dev'[irq.new].hub = irq.hub /\ dev'[irq.new].socket = irq.port
        BY <2>5, <2>6, <2>8, <3>2, <3>3, <3>5
      <3>7. irq.new \in Live' /\ irq'.new = irq.new /\ irq'.at = "strings"
        BY <1>1, <1>5, <2>4, <2>10
      <3> QED
        BY <3>4, <3>5, <3>6, <3>7 DEF Newest
    <2> QED
      BY <2>10, <2>11 DEF Base
  <1>6. CASE /\ irq'.at = "again" /\ "listed" \in marks'
             /\ dev' = [dev EXCEPT ![irq.new] = Dead(dev[irq.new].thing)]
    BY <1>1, <1>2, <1>3, <1>4, <1>6, FreeingKeepsBase
  <1> QED
    BY <1>1, <1>5, <1>6

LEMMA BindHubKeepsBase ==
    ASSUME Base, BindHub
    PROVE  Base'
  <1>0. Types /\ Newest /\ WorldTypes /\ CoreTypes /\ IrqTypes /\ Endpoints
    BY DEF Base, Types
  <1>1. /\ Tried /\ SamePort /\ irq'.new = irq.new
        /\ halted' \subseteq Ids
        /\ \/ /\ \/ irq.at = "bind" /\ irq'.at = "config"
                 \/ irq.at = "config" /\ irq'.at = "power"
              /\ dev' = [dev EXCEPT ![irq.new].data = "hub"]
           \/ /\ irq.at \in {"bind", "config"} /\ irq'.at = "enable"
              /\ dev' = [dev EXCEPT ![irq.new].data = "dangling"]
              /\ "unbound" \in marks'
        /\ UNCHANGED <<world, hc, port, devlist, addrbm, nextAddr, sched>>
    BY <1>0, BindHubIs
  <1>2. irq.at \in NewSteps /\ irq.at \in {"bind", "config", "power"}
    BY <1>1 DEF NewSteps
  <1>3. WorldTypes'
    BY <1>0, <1>1 DEF WorldTypes, world, hc, Tried
  <1>4. /\ UNCHANGED <<td, port, sched>> /\ devlist' = devlist
        /\ addrbm' \subseteq 0..(NumDevices - 1) /\ nextAddr' \in Nat
    BY <1>0, <1>1 DEF hc, CoreTypes
  <1>5. PICK x \in {"hub", "dangling"} :
          /\ dev' = [dev EXCEPT ![irq.new].data = x]
          /\ \/ irq'.at \in {"config", "power"} /\ x = "hub"
             \/ irq'.at = "enable" /\ x = "dangling" /\ "unbound" \in marks'
    BY <1>1
  <1>6. irq.new \in Ids /\ irq.new \in Live /\ dev \in [Ids -> DevType]
    BY <1>0, <1>2 DEF Newest, IrqTypes, CoreTypes
  <1>7. PICK c, d : c = dev[irq.new] /\ d = [c EXCEPT !.data = x]
    OBVIOUS
  <1>8. /\ d \in DevType /\ d.st = c.st /\ d.hub = c.hub /\ d.socket = c.socket
        /\ d.thing = c.thing /\ d.data = x /\ d.addr = c.addr
    BY <1>6, <1>7 DEF DevType
  <1>9. dev' = [dev EXCEPT ![irq.new] = d]
    BY <1>5, <1>7
  <1>10. c.st = "live" /\ IsHub(c.thing) /\ td[irq.new] = "none"
    BY <1>0, <1>2, <1>6, <1>7 DEF Newest, Live
  <1>11. irq.new \notin Listed
    BY <1>2, NewestIs
  <1>12. irq'.at \in NewSteps \cup {"enable"} /\ irq'.at \notin {"address", "desc", "strings"}
    BY <1>1 DEF NewSteps
  <1>13. /\ Types' /\ Serving' /\ Unused' /\ Tree' /\ Endpoints' /\ ListLive'
         /\ Live' = Live /\ PortsSound'
    BY <1>1, <1>2, <1>3, <1>4, <1>5, <1>7, <1>8, <1>9, <1>10, <1>11, <1>12, SettingKeepsBase
  <1>14. Newest'
    <2>1. CASE irq'.at \in {"config", "power"}
      <3>1. \A v \in Ids : v # irq.new => dev'[v] = dev[v]
        BY <1>6, <1>9
      <3>2. dev'[irq.new] = d
        BY <1>6, <1>9
      <3>3. /\ dev[irq.new].hub = irq.hub /\ dev[irq.new].socket = irq.port
            /\ \A v \in Ids : v > irq.new => dev[v].st = "none"
        BY <1>0, <1>2 DEF Newest
      <3>4. \A v \in Ids : v > irq.new => dev'[v].st = "none"
        BY <1>6, <1>7, <1>10, <3>1, <3>3
      <3>5. irq'.hub = irq.hub /\ irq'.port = irq.port
        BY <1>1 DEF SamePort
      <3>6. /\ dev'[irq.new].thing # Empty /\ dev'[irq.new].data = "hub"
            /\ dev'[irq.new].hub = irq.hub /\ dev'[irq.new].socket = irq.port
            /\ IsHub(dev'[irq.new].thing)
        BY <1>5, <1>7, <1>8, <1>10, <2>1, <3>2, <3>3, HubsAre
      <3>7. irq.new \in Live' /\ irq'.new = irq.new /\ td' = td /\ Listed' = Listed
        BY <1>1, <1>4, <1>6, <1>13 DEF Listed
      <3> QED
        BY <1>10, <1>11, <2>1, <3>4, <3>5, <3>6, <3>7 DEF Newest
    <2>2. CASE irq'.at = "enable"
      BY <2>2 DEF Newest, NewSteps
    <2> QED
      BY <1>1, <2>1, <2>2
  <1> QED
    BY <1>13, <1>14 DEF Base

LEMMA StringsKeepsBase ==
    ASSUME Base, Strings
    PROVE  Base'
  <1>0. /\ Types /\ Serving /\ Endpoints /\ Newest /\ Unused /\ Tree /\ PortsSound /\ ListLive
        /\ WorldTypes /\ CoreTypes /\ IrqTypes
    BY DEF Base, Types
  <1>1. /\ Tried /\ SamePort /\ irq'.new = irq.new /\ irq.at = "strings"
        /\ halted' \subseteq Ids
        /\ irq'.at = IF IsHub(dev[irq.new].thing) THEN "bind" ELSE "enable"
        /\ port' = [port EXCEPT ![irq.hub][irq.port] = irq.new]
        /\ UNCHANGED <<world, hc, dev, devlist, addrbm, nextAddr, sched>>
    BY <1>0, StringsIs
  <1>2. irq.at \in NewSteps /\ irq.at \in PortSteps
    BY <1>1 DEF NewSteps, PortSteps
  <1>3. PICK n \in Ids : n = irq.new
    BY <1>0, <1>2 DEF IrqTypes
  <1>4. /\ n \in Live /\ Live \subseteq Ids /\ Live' = Live
        /\ irq.hub \in Live \cup {Root} /\ irq.hub # n /\ irq.port \in Sockets
        /\ dev[n].hub = irq.hub /\ dev[n].socket = irq.port
        /\ dev' = dev /\ td' = td /\ sched' = sched /\ Listed' = Listed /\ devlist' = devlist
    BY <1>0, <1>1, <1>2, <1>3, NewestIs DEF Newest, IrqTypes, Live, Listed, hc
  <1>5. port \in [Ids \cup {Root} -> [Sockets -> Ids \cup {Null}]]
    BY <1>0 DEF CoreTypes
  <1>6. \A w \in Ids \cup {Root}, s \in Sockets :
            port'[w][s] = IF w = irq.hub /\ s = irq.port THEN n ELSE port[w][s]
    BY <1>1, <1>3, <1>4, <1>5
  <1>7. port' \in [Ids \cup {Root} -> [Sockets -> Ids \cup {Null}]]
    BY <1>1, <1>3, <1>4, <1>5
  <1>8. irq'.at \in {"bind", "enable"} /\ irq'.at \in PortSteps /\ irq'.at # "walk"
    BY <1>1 DEF PortSteps, NewSteps
  <1>9. Types'
    <2>1. WorldTypes'
      BY <1>0, <1>1 DEF WorldTypes, world, hc, Tried
    <2>2. CoreTypes'
      BY <1>0, <1>1, <1>4, <1>7 DEF CoreTypes, Tried
    <2>3. IrqTypes'
      BY <1>0, <1>1, <1>2, <1>3, <1>8, SetupTypes
    <2> QED
      BY <2>1, <2>2, <2>3 DEF Types
  <1>10. Serving'
    BY <1>0, <1>1, <1>2, <1>4, <1>8, ServingKeeps
  <1>11. Unused'
    <2>1. ASSUME NEW u \in Ids, dev[u].st = "none", NEW s \in Sockets PROVE port'[u][s] = Null
      <3>1. u # irq.hub
        BY <1>4, <2>1, IdsAre DEF Live
      <3> QED
        BY <1>0, <1>6, <2>1, <3>1 DEF Unused
    <2> QED
      BY <1>0, <1>4, <2>1 DEF Unused
  <1>12. Tree'
    BY <1>0, <1>1, <1>4 DEF Tree, Tried
  <1>13. Endpoints'
    BY <1>0, <1>4, SameKeepsEndpoints
  <1>14. ListLive'
    BY <1>0, <1>1, <1>4 DEF ListLive, Tried
  <1>15. PortsSound'
    <2>1. ASSUME NEW w \in Live \cup {Root}, NEW s \in Sockets, port'[w][s] # Null
          PROVE  /\ port'[w][s] \in Live
                 /\ dev[port'[w][s]].hub = w /\ dev[port'[w][s]].socket = s
      <3>1. CASE w = irq.hub /\ s = irq.port
        BY <1>4, <1>6, <3>1
      <3>2. CASE ~(w = irq.hub /\ s = irq.port)
        BY <1>0, <1>4, <1>6, <2>1, <3>2 DEF PortsSound
      <3> QED
        BY <3>1, <3>2
    <2> QED
      BY <1>4, <1>8, <2>1 DEF PortsSound
  <1>16. Newest'
    <2>1. CASE irq'.at = "bind"
      <3>1. /\ IsHub(dev[n].thing) /\ dev[n].data = "none" /\ td[n] = "none"
            /\ dev[n].thing # Empty /\ n \notin Listed
        BY <1>0, <1>1, <1>2, <1>3, <1>4, <2>1, HubsAre DEF Newest, Endpoints
      <3>2. \A v \in Ids : v > n => dev[v].st = "none"
        BY <1>0, <1>2, <1>3 DEF Newest
      <3> QED
        BY <1>1, <1>3, <1>4, <2>1, <3>1, <3>2 DEF Newest, SamePort
    <2>2. CASE irq'.at = "enable"
      BY <2>2 DEF Newest, NewSteps
    <2> QED
      BY <1>8, <2>1, <2>2
  <1> QED
    BY <1>9, <1>10, <1>11, <1>12, <1>13, <1>14, <1>15, <1>16 DEF Base

\* A device and the ones behind it are removed.
LEMMA SuspendKeepsBase ==
    ASSUME Base, Suspend
    PROVE  Base'
  <1>0. /\ Types /\ Serving /\ Endpoints /\ Newest /\ Unused /\ Tree /\ PortsSound /\ ListLive
        /\ WorldTypes /\ CoreTypes /\ IrqTypes
    BY DEF Base, Types
  <1>1. /\ Asked /\ irq.at = "suspend" /\ irq'.at = "enable"
        /\ \/ UNCHANGED <<dev, devlist, addrbm, port, sched, td>>
           \/ /\ port[irq.hub][irq.port] # Null
              /\ \E us : Removes(port[irq.hub][irq.port], us)
        /\ UNCHANGED <<world, intr, intbm, nextAddr>>
    BY <1>0, SuspendIs DEF Endpoints
  <1>2. WorldTypes'
    BY <1>0, <1>1 DEF WorldTypes, world, Asked, Tried
  <1>3. CASE UNCHANGED <<dev, devlist, addrbm, port, sched, td>>
    <2>1. irq.at \in PortSteps \ NewSteps /\ irq'.at \in (PortSteps \ NewSteps) \cup {"next"}
      BY <1>1 DEF PortSteps, HubSteps, NewSteps
    <2>2. UNCHANGED <<core, sched, td>>
      BY <1>1, <1>3 DEF core
    <2> QED
      BY <1>1, <1>2, <2>1, <2>2, AskedKeeps DEF Asked
  <1>4. ASSUME port[irq.hub][irq.port] # Null, NEW us, Removes(port[irq.hub][irq.port], us)
        PROVE  Base'
    <2>1. PICK u : u = port[irq.hub][irq.port]
      OBVIOUS
    <2>2. /\ u \in Live /\ Branch(u, us)
          /\ sched' \in Schedules /\ Once(sched'.list) /\ ToSet(sched'.list) = Listed \ us
          /\ td' = [v \in Ids |-> IF v \in us THEN "none" ELSE td[v]]
          /\ devlist' = devlist \ us
          /\ addrbm' = addrbm \ Released(us)
          /\ dev' = [v \in Ids |-> IF v \in us THEN Dead(dev[v].thing) ELSE dev[v]]
          /\ port' = [port EXCEPT ![irq.hub][irq.port] = Null]
      BY <1>4, <2>1 DEF Removes
    <2>3. irq.at \in PortSteps /\ irq'.at \in PortSteps /\ irq'.at \notin NewSteps /\ irq'.at # "walk"
      BY <1>1 DEF PortSteps, HubSteps, NewSteps
    <2>4. /\ irq.hub \in Live \cup {Root} /\ irq.port \in Sockets /\ Live \subseteq Ids
          /\ dev[u].hub = irq.hub /\ dev[u].socket = irq.port
      BY <1>0, <1>4, <2>1, <2>3 DEF Serving, IrqTypes, PortsSound, Live
    <2>5. us \subseteq Live /\ u \in us /\ \A v \in us : v >= u
      BY <2>2 DEF Branch
    <2>6. irq.hub \notin us
      <3>1. dev[u].hub < u
        BY <1>0, <2>2 DEF Tree
      <3>2. Ids \subseteq Nat \ {0} /\ Root \notin Ids
        BY IdsAre
      <3>3. CASE irq.hub \in Live
        <4>1. PICK x \in Nat, y \in Nat : x = irq.hub /\ y = u
          BY <2>2, <2>4, <3>2, <3>3
        <4>2. x < y
          BY <2>4, <3>1, <4>1
        <4> QED
          BY <2>5, <4>1, <4>2
      <3>4. CASE irq.hub = Root
        BY <2>4, <2>5, <3>2, <3>4
      <3> QED
        BY <2>4, <3>3, <3>4
    <2>7. dev \in [Ids -> DevType] /\ port \in [Ids \cup {Root} -> [Sockets -> Ids \cup {Null}]]
      BY <1>0 DEF CoreTypes
    <2>8. /\ \A v \in Ids \ us : dev'[v] = dev[v]
          /\ \A v \in us : dev'[v] = Dead(dev[v].thing)
      BY <2>2, <2>4, <2>5
    <2>9. \A v \in us : dev'[v].st = "freed" /\ dev'[v].data = "none" /\ dev'[v].thing = dev[v].thing
      <3>1. \A t : Dead(t).st = "freed" /\ Dead(t).data = "none" /\ Dead(t).thing = t
        BY DEF Dead
      <3> QED
        BY <2>8, <3>1
    <2>10. Live' = Live \ us /\ Listed' = Listed \ us
      BY <2>2, <2>4, <2>5, <2>8, <2>9 DEF Live, Listed
    <2>11. \A w \in Ids \cup {Root}, s \in Sockets :
              port'[w][s] = IF w = irq.hub /\ s = irq.port THEN Null ELSE port[w][s]
      BY <2>2, <2>4, <2>7
    <2>12. Types'
      <3>1. dev' \in [Ids -> DevType]
        <4>1. ASSUME NEW v \in Ids PROVE Dead(dev[v].thing) \in DevType
          <5>1. dev[v].thing \in Things \cup {Empty}
            BY <2>7 DEF DevType
          <5> QED
            BY <5>1 DEF Dead, DevType
        <4>2. ASSUME NEW v \in Ids PROVE (IF v \in us THEN Dead(dev[v].thing) ELSE dev[v]) \in DevType
          BY <2>7, <4>1
        <4> QED
          BY <2>2, <4>2
      <3>2. port' \in [Ids \cup {Root} -> [Sockets -> Ids \cup {Null}]]
        BY <2>2, <2>4, <2>7
      <3>3. td' \in [Ids -> {"none", "active", "done"}]
        BY <1>0, <2>2 DEF CoreTypes
      <3>4. CoreTypes'
        BY <1>0, <1>1, <2>2, <3>1, <3>2, <3>3 DEF CoreTypes, Asked, Tried
      <3>5. IrqTypes'
        BY <1>0, <1>1, <2>3, SetupTypes DEF Asked
      <3> QED
        BY <1>2, <3>4, <3>5 DEF Types
    <2>13. Serving'
      BY <1>0, <1>1, <2>3, <2>4, <2>6, <2>8, <2>10, ServingKeeps DEF Asked
    <2>14. Unused'
      <3>1. ASSUME NEW v \in Ids, dev'[v].st = "none"
            PROVE  /\ dev'[v] = NoDev /\ v \notin devlist'
                   /\ \A s \in Sockets : port'[v][s] = Null
                   /\ \A w \in Ids : w > v => dev'[w].st = "none"
        <4>1. v \notin us /\ dev'[v] = dev[v]
          BY <2>8, <2>9, <3>1
        <4>2. /\ dev[v] = NoDev /\ v \notin devlist
              /\ \A s \in Sockets : port[v][s] = Null
              /\ \A w \in Ids : w > v => dev[w].st = "none"
          BY <1>0, <3>1, <4>1 DEF Unused
        <4>3. \A w \in Ids : w > v => w \notin us
          BY <2>5, <4>2 DEF Live
        <4>4. \A s \in Sockets : port'[v][s] = Null
          BY <2>11, <4>2
        <4> QED
          BY <2>2, <2>8, <4>1, <4>2, <4>3, <4>4
      <3> QED
        BY <3>1 DEF Unused
    <2>15. Tree'
      <3>1. ASSUME NEW v \in Live'
            PROVE  /\ dev'[v].hub < v /\ dev'[v].socket \in Sockets
                   /\ dev'[v].data # "none" => IsHub(dev'[v].thing)
                   /\ dev'[v].hub # Root => IsHub(dev'[dev'[v].hub].thing)
        <4>1. v \in Live /\ v \in Ids /\ dev'[v] = dev[v]
          BY <2>4, <2>8, <2>10
        <4>2. dev[v].hub \in Ids \cup {Root}
          BY <2>7, <4>1 DEF DevType
        <4>3. dev[v].hub # Root => dev'[dev[v].hub].thing = dev[dev[v].hub].thing
          BY <2>8, <2>9, <4>2
        <4> QED
          BY <1>0, <4>1, <4>3 DEF Tree
      <3>2. \A v \in Ids : dev'[v].data = "dangling" => "unbound" \in marks'
        BY <1>0, <1>1, <2>8, <2>9 DEF Tree, Tried, Asked
      <3> QED
        BY <3>1, <3>2 DEF Tree
    <2>16. Endpoints'
      BY <1>0, <2>2, <2>4, <2>8, <2>10 DEF Endpoints
    <2>17. Newest'
      BY <2>3 DEF Newest
    <2>18. PortsSound'
      <3>1. ASSUME NEW w \in Live' \cup {Root}, NEW s \in Sockets, port'[w][s] # Null
            PROVE  /\ port'[w][s] \in Live'
                   /\ dev'[port'[w][s]].hub = w /\ dev'[port'[w][s]].socket = s
        <4>1. w \in Live \cup {Root} /\ w \in Ids \cup {Root} /\ w \notin us
          BY <2>4, <2>5, <2>10, IdsAre
        <4>2. ~(w = irq.hub /\ s = irq.port)
          BY <2>11, <3>1, <4>1
        <4>3. PICK x : x = port[w][s]
          OBVIOUS
        <4>4. port'[w][s] = x
          BY <2>11, <4>1, <4>2, <4>3
        <4>5. x \in Live /\ dev[x].hub = w /\ dev[x].socket = s
          BY <1>0, <3>1, <4>1, <4>3, <4>4 DEF PortsSound
        <4>6. x # u
          BY <2>4, <4>2, <4>5
        <4>7. x \notin us
          BY <2>2, <4>1, <4>5, <4>6 DEF Branch
        <4> QED
          BY <2>4, <2>8, <2>10, <4>4, <4>5, <4>7
      <3> QED
        BY <1>1, <3>1 DEF PortsSound
    <2>19. ListLive'
      BY <1>0, <1>1, <2>2, <2>10 DEF ListLive, Tried, Asked
    <2> QED
      BY <2>12, <2>13, <2>14, <2>15, <2>16, <2>17, <2>18, <2>19 DEF Base
  <1> QED
    BY <1>1, <1>3, <1>4

(***************************************************************************)
(* The addresses.                                                          *)
(***************************************************************************)

Names == Addresses /\ Bounds

LEMMA NamesKept ==
    ASSUME Types, Names, marks \subseteq marks', irq' = irq \/ irq'.at # "address",
           irq' = irq \/ irq.at # "address",
           \A u \in Ids : dev'[u].st = dev[u].st /\ dev'[u].addr = dev[u].addr,
           UNCHANGED <<addrbm, nextAddr>>,
           \A t \in Things : bus'[t] = bus[t] \/ bus'[t] \in {Off, 0}
    PROVE  Names'
  <1>1. Live' = Live /\ Live \subseteq Ids
    BY DEF Live
  <1>2. Addresses'
    BY <1>1 DEF Names, Addresses, Nameless, Taken
  <1>3. NumDevices \in Nat /\ MaxDevs \in Nat /\ Off \in Int /\ Off <= 0
    BY UsbAssumption, UsbBounds DEF Off
  <1>4. \A t \in Things : bus'[t] >= Off /\ bus'[t] <= NumDevices + MaxDevs
    BY <1>3 DEF Names, Bounds, Off
  <1>5. Bounds'
    BY <1>4 DEF Names, Bounds
  <1> QED
    BY <1>2, <1>5 DEF Names

\* A found address is no other's, and is taken.
LEMMA ListsNames ==
    ASSUME Types, Names, irq.at = "address", NEW n \in Ids, n = irq.new, NEW a, Lists(a),
           marks \subseteq marks'
    PROVE  /\ {0, 1} \subseteq addrbm' /\ nextAddr' >= 1 /\ nextAddr' # NumDevices
           /\ "wild" \notin marks' => nextAddr' < NumDevices
           /\ a \in Nat /\ a >= 2 /\ Taken(a)' /\ a <= NumDevices + MaxDevs
           /\ nextAddr' <= NumDevices + n /\ nextAddr' <= NumDevices + MaxDevs
           /\ \A x \in Nat : Taken(x) => Taken(x)' /\ x # a
           /\ \A u \in Live : u # n =>
                 dev[u].addr \in Nat /\ dev[u].addr >= 2 /\ Taken(dev[u].addr)
  <1>1. /\ Found(a) /\ a \in Nat
        /\ addrbm' = IF a < NumDevices THEN addrbm \cup {a} ELSE addrbm
        /\ nextAddr' = IF a + 1 = NumDevices THEN 1 ELSE a + 1
        /\ a >= NumDevices => "wild" \in marks'
    BY DEF Lists
  <1>2. /\ NumDevices \in Nat /\ NumDevices >= 3 /\ MaxDevs \in Nat /\ n \in Nat /\ n <= MaxDevs
        /\ n >= 1 /\ nextAddr \in Nat /\ addrbm \subseteq 0..(NumDevices - 1)
    BY UsbAssumption, UsbBounds DEF Ids, Types, CoreTypes
  <1>3. /\ {0, 1} \subseteq addrbm /\ nextAddr >= 1 /\ nextAddr # NumDevices
        /\ nextAddr < NumDevices + n
        /\ \A u \in Live : u # n => dev[u].addr >= 2 /\ Taken(dev[u].addr)
    BY DEF Names, Addresses, Bounds, Nameless
  <1>4. \A u \in Live : dev[u].addr \in Nat
    BY DEF Types, CoreTypes, DevType, Live
  <1>5. CASE a \in 2..(NumDevices - 1) /\ a \notin addrbm /\ nextAddr < NumDevices
    <2>1. a < NumDevices /\ addrbm' = addrbm \cup {a} /\ nextAddr' < NumDevices /\ nextAddr' >= 1
      BY <1>1, <1>2, <1>5
    <2>2. ASSUME NEW x \in Nat, Taken(x) PROVE Taken(x)' /\ x # a
      <3>1. x \in addrbm
        BY <1>2, <1>5, <2>2 DEF Taken
      <3>2. x \in addrbm' /\ x # a
        BY <1>5, <2>1, <3>1
      <3> QED
        BY <3>2 DEF Taken
    <2>3. Taken(a)'
      BY <2>1 DEF Taken
    <2> QED
      BY <1>1, <1>2, <1>3, <1>4, <1>5, <2>1, <2>2, <2>3
  <1>6. CASE a >= NumDevices /\ a >= nextAddr /\ a < NumDevices + n
    <2>1. addrbm' = addrbm /\ nextAddr' = a + 1 /\ "wild" \in marks'
      BY <1>1, <1>2, <1>6
    <2>2. ASSUME NEW x \in Nat, Taken(x) PROVE Taken(x)' /\ x # a
      <3>1. x \in addrbm \/ (NumDevices <= x /\ x < nextAddr)
        BY <2>2 DEF Taken
      <3>2. x \in addrbm' \/ (NumDevices <= x /\ x < nextAddr')
        BY <1>1, <1>2, <1>6, <2>1, <3>1
      <3>3. x # a
        BY <1>2, <1>6, <3>1
      <3> QED
        BY <3>2, <3>3 DEF Taken
    <2>3. Taken(a)'
      BY <1>1, <1>2, <1>6, <2>1 DEF Taken
    <2> QED
      BY <1>1, <1>2, <1>3, <1>4, <1>6, <2>1, <2>2, <2>3
  <1>7. \/ a >= NumDevices /\ a >= nextAddr /\ a < NumDevices + n
        \/ a \in 2..(NumDevices - 1) /\ a \notin addrbm /\ nextAddr < NumDevices
    BY <1>1, <1>2, <1>3 DEF Found
  <1> QED
    BY <1>5, <1>6, <1>7

LEMMA FreeingIs ==
    ASSUME Types, irq.new \in Ids, dev' = [dev EXCEPT ![irq.new] = Dead(dev[irq.new].thing)]
    PROVE  /\ Live' = Live \ {irq.new} /\ dev'[irq.new].st = "freed"
           /\ dev'[irq.new].thing = dev[irq.new].thing
           /\ \A v \in Ids : v # irq.new => dev'[v] = dev[v]
  <1>1. dev \in [Ids -> DevType]
    BY DEF Types, CoreTypes
  <1>2. /\ \A v \in Ids : v # irq.new => dev'[v] = dev[v]
        /\ dev'[irq.new] = Dead(dev[irq.new].thing)
    BY <1>1
  <1>3. dev'[irq.new].st = "freed" /\ dev'[irq.new].thing = dev[irq.new].thing
    BY <1>2 DEF Dead
  <1> QED
    BY <1>2, <1>3 DEF Live

LEMMA NewDeviceNames ==
    ASSUME Base, Names, NewDevice
    PROVE  Names'
  <1>0. Types /\ Unused
    BY DEF Base
  <1>1. /\ Tried /\ irq.at = "desc8"
        /\ irq'.new \in Ids /\ dev[irq'.new].st = "none"
        /\ \/ /\ irq'.at = "address"
              /\ dev' = [dev EXCEPT ![irq'.new] = Allocated("live")]
           \/ /\ irq'.at = "again"
              /\ dev' = [dev EXCEPT ![irq'.new] = Allocated("freed")]
        /\ UNCHANGED <<world, hc, port, devlist, addrbm, nextAddr, sched, halted>>
    BY <1>0, NewDeviceIs
  <1>2. PICK n \in Ids : n = irq'.new
    BY <1>1
  <1>3. PICK st \in {"live", "freed"} :
            /\ dev' = [dev EXCEPT ![n] = Allocated(st)]
            /\ \/ irq'.at = "address" /\ st = "live"
               \/ irq'.at = "again" /\ st = "freed"
    BY <1>1, <1>2
  <1>4. dev \in [Ids -> DevType]
    BY <1>0 DEF Types, CoreTypes
  <1>5. /\ \A v \in Ids : v # n => dev'[v] = dev[v]
        /\ dev'[n].st = st /\ dev'[n].addr = 0
    BY <1>3, <1>4 DEF Allocated
  <1>6. /\ Live \subseteq Ids /\ n \notin Live
        /\ Live' = IF st = "live" THEN Live \cup {n} ELSE Live
    BY <1>1, <1>2, <1>3, <1>5 DEF Live
  <1>7. \A u \in Live : dev[u].addr \in Nat /\ dev[u].addr >= 2 /\ Taken(dev[u].addr)
    BY <1>1, <1>4, <1>6 DEF Names, Addresses, Nameless, DevType
  <1>8. addrbm' = addrbm /\ nextAddr' = nextAddr /\ marks \subseteq marks' /\ bus' = bus
    BY <1>1 DEF Tried, world
  <1>9. Addresses'
    <2>1. \A u \in Live' : Nameless(u)' \/ (dev'[u].addr >= 2 /\ Taken(dev'[u].addr))
      BY <1>2, <1>3, <1>5, <1>6, <1>7 DEF Nameless
    <2>2. ASSUME NEW u \in Live', NEW v \in Live', dev'[u].addr = dev'[v].addr PROVE u = v
      <3>1. CASE u # n /\ v # n
        BY <1>5, <1>6, <2>2, <3>1 DEF Names, Addresses
      <3>2. CASE u = n /\ v # n
        BY <1>5, <1>6, <1>7, <2>2, <3>2
      <3>3. CASE u # n /\ v = n
        BY <1>5, <1>6, <1>7, <2>2, <3>3
      <3> QED
        BY <3>1, <3>2, <3>3
    <2> QED
      BY <1>8, <2>1, <2>2 DEF Names, Addresses, Taken
  <1>10. Bounds'
    <2>1. nextAddr < NumDevices + n
      BY <1>1, <1>2 DEF Names, Bounds
    <2>2. \A u \in Ids : dev'[u].st = "none" => dev[u].st = "none"
      BY <1>3, <1>5
    <2> QED
      BY <1>2, <1>8, <2>1, <2>2 DEF Names, Bounds
  <1> QED
    BY <1>9, <1>10 DEF Names

LEMMA SetAddressNames ==
    ASSUME Base, Names, SetAddress
    PROVE  Names'
  <1>0. Types /\ Newest /\ Addresses /\ Bounds
    BY DEF Base, Names
  <1>1. /\ Tried /\ SamePort /\ irq'.new = irq.new /\ irq.at = "address"
        /\ \/ /\ irq'.at = "desc"
              /\ \E a : /\ Lists(a)
                        /\ dev' = [dev EXCEPT ![irq.new].addr = a]
                        /\ bus' = [t \in Things |-> IF bus[t] = 0 THEN a ELSE bus[t]]
           \/ /\ irq'.at = "again" /\ bus' = bus /\ "listed" \in marks'
              /\ dev' = [dev EXCEPT ![irq.new] = Dead(dev[irq.new].thing)]
              /\ \E a : Lists(a)
           \/ /\ irq'.at = "again" /\ bus' = bus
              /\ dev' = [dev EXCEPT ![irq.new] = Dead(dev[irq.new].thing)]
              /\ UNCHANGED <<devlist, addrbm, nextAddr>>
    BY <1>0, SetAddressIs
  <1>2. irq.at \in NewSteps /\ marks \subseteq marks'
    BY <1>1 DEF NewSteps, Tried
  <1>3. PICK n \in Ids : n = irq.new
    BY <1>0, <1>2 DEF Types, IrqTypes
  <1>4. dev \in [Ids -> DevType] /\ n \in Live /\ Live \subseteq Ids
        /\ \A v \in Ids : v > n => dev[v].st = "none"
    BY <1>0, <1>2, <1>3 DEF Types, CoreTypes, Newest, Live
  <1>5. NumDevices \in Nat /\ MaxDevs \in Nat /\ Ids \subseteq Nat
    BY UsbAssumption, UsbBounds DEF Ids
  <1>6. ASSUME NEW a, Lists(a),
               \A u \in Ids : dev'[u].st = "none" => dev[u].st = "none"
        PROVE  /\ \A u \in Ids : dev'[u].st = "none" => nextAddr' < NumDevices + u
               /\ nextAddr' <= NumDevices + MaxDevs
    <2>1. nextAddr' <= NumDevices + n /\ nextAddr' <= NumDevices + MaxDevs /\ nextAddr' \in Nat
      BY <1>0, <1>1, <1>2, <1>3, <1>6, ListsNames, ListsTypes
    <2>2. ASSUME NEW u \in Ids, dev[u].st = "none" PROVE n < u
      <3>1. ~(u = n) /\ ~(n > u)
        BY <1>0, <1>4, <2>2 DEF Base, Unused, Live
      <3> QED
        BY <1>5, <3>1
    <2> QED
      BY <1>5, <1>6, <2>1, <2>2
  <1>7. ASSUME NEW a, irq'.at = "desc", Lists(a), dev' = [dev EXCEPT ![irq.new].addr = a],
               bus' = [t \in Things |-> IF bus[t] = 0 THEN a ELSE bus[t]]
        PROVE  Names'
    <2>1. /\ {0, 1} \subseteq addrbm' /\ nextAddr' >= 1 /\ nextAddr' # NumDevices
          /\ "wild" \notin marks' => nextAddr' < NumDevices
          /\ a \in Nat /\ a >= 2 /\ Taken(a)' /\ a <= NumDevices + MaxDevs
          /\ \A x \in Nat : Taken(x) => Taken(x)' /\ x # a
          /\ \A u \in Live : u # n =>
                dev[u].addr \in Nat /\ dev[u].addr >= 2 /\ Taken(dev[u].addr)
      BY <1>0, <1>1, <1>2, <1>3, <1>7, ListsNames DEF Names
    <2>2. /\ \A v \in Ids : v # n => dev'[v] = dev[v]
          /\ dev'[n].st = dev[n].st /\ dev'[n].addr = a
      BY <1>3, <1>4, <1>7 DEF DevType
    <2>3. Live' = Live
      BY <1>4, <2>2 DEF Live
    <2>4. ASSUME NEW u \in Live PROVE dev'[u].addr >= 2 /\ Taken(dev[u].addr)'
      <3>1. PICK x : x = dev'[u].addr
        OBVIOUS
      <3>2. x >= 2 /\ Taken(x)'
        <4>1. CASE u = n
          BY <2>1, <2>2, <3>1, <4>1
        <4>2. CASE u # n
          <5>1. x = dev[u].addr
            BY <1>4, <2>2, <3>1, <4>2
          <5> QED
            BY <2>1, <4>2, <5>1
        <4> QED
          BY <4>1, <4>2
      <3> QED
        BY <3>1, <3>2 DEF Taken
    <2>5. ASSUME NEW u \in Live, NEW v \in Live, dev'[u].addr = dev'[v].addr PROVE u = v
      <3>1. CASE u # n /\ v # n
        BY <1>0, <1>4, <2>2, <2>5, <3>1 DEF Addresses
      <3>2. CASE u = n /\ v # n
        BY <1>4, <2>1, <2>2, <2>5, <3>2
      <3>3. CASE u # n /\ v = n
        BY <1>4, <2>1, <2>2, <2>5, <3>3
      <3> QED
        BY <3>1, <3>2, <3>3
    <2>6. Addresses'
      BY <2>1, <2>3, <2>4, <2>5 DEF Addresses
    <2>7. \A t \in Things : bus'[t] >= Off /\ bus'[t] <= NumDevices + MaxDevs
      BY <1>0, <1>5, <1>7, <2>1 DEF Bounds, Off
    <2>8. \A u \in Ids : dev'[u].st = "none" => dev[u].st = "none"
      BY <2>2
    <2>9. Bounds'
      BY <1>6, <1>7, <2>7, <2>8 DEF Bounds
    <2> QED
      BY <2>6, <2>9 DEF Names
  <1>8. ASSUME irq'.at = "again", bus' = bus,
               dev' = [dev EXCEPT ![irq.new] = Dead(dev[irq.new].thing)],
               (\E a : Lists(a)) \/ UNCHANGED <<devlist, addrbm, nextAddr>>
        PROVE  Names'
    <2>1. /\ Live' = Live \ {n} /\ dev'[n].st = "freed"
          /\ \A v \in Ids : v # n => dev'[v] = dev[v]
      BY <1>0, <1>3, <1>8, FreeingIs
    <2>2. \A u \in Live : u # n =>
                dev[u].addr \in Nat /\ dev[u].addr >= 2 /\ Taken(dev[u].addr)
      BY <1>0, <1>3, <1>4 DEF Addresses, Nameless, DevType
    <2>3. /\ {0, 1} \subseteq addrbm' /\ nextAddr' >= 1 /\ nextAddr' # NumDevices
          /\ "wild" \notin marks' => nextAddr' < NumDevices
          /\ \A x \in Nat : Taken(x) => Taken(x)'
          /\ \A u \in Ids : dev'[u].st = "none" => nextAddr' < NumDevices + u
          /\ nextAddr' <= NumDevices + MaxDevs
      <3>1. \A u \in Ids : dev'[u].st = "none" => dev[u].st = "none"
        BY <2>1
      <3>2. CASE UNCHANGED <<devlist, addrbm, nextAddr>>
        BY <1>0, <1>2, <3>1, <3>2 DEF Addresses, Bounds, Taken
      <3>3. CASE \E a : Lists(a)
        <4>1. PICK a : Lists(a)
          BY <3>3
        <4>2. /\ {0, 1} \subseteq addrbm' /\ nextAddr' >= 1 /\ nextAddr' # NumDevices
              /\ "wild" \notin marks' => nextAddr' < NumDevices
              /\ \A x \in Nat : Taken(x) => Taken(x)' /\ x # a
          BY <1>0, <1>1, <1>2, <1>3, <4>1, ListsNames DEF Names
        <4> QED
          BY <1>6, <3>1, <4>1, <4>2
      <3> QED
        BY <1>8, <3>2, <3>3
    <2>4. ASSUME NEW u \in Live' PROVE dev'[u].addr >= 2 /\ Taken(dev[u].addr)'
      <3>1. PICK x : x = dev'[u].addr
        OBVIOUS
      <3>2. x = dev[u].addr /\ u # n /\ u \in Live
        BY <1>4, <2>1, <3>1
      <3>3. x >= 2 /\ Taken(x)'
        BY <2>2, <2>3, <3>2
      <3> QED
        BY <3>1, <3>3 DEF Taken
    <2>5. Addresses'
      BY <1>0, <1>4, <2>1, <2>3, <2>4 DEF Addresses
    <2>6. Bounds'
      BY <1>0, <1>8, <2>3 DEF Bounds
    <2> QED
      BY <2>5, <2>6 DEF Names
  <1> QED
    BY <1>1, <1>7, <1>8

LEMMA GetDescriptorNames ==
    ASSUME Base, Names, GetDescriptor
    PROVE  Names'
  <1>0. Types /\ Addresses /\ Bounds
    BY DEF Base, Names
  <1>1. /\ Tried /\ SamePort /\ irq'.new = irq.new /\ irq.at = "desc"
        /\ \/ /\ irq'.at = "strings"
              /\ \E t \in Things : /\ bus[t] = dev[irq.new].addr
                                   /\ dev' = [dev EXCEPT ![irq.new].thing = t]
           \/ /\ irq'.at = "again" /\ "listed" \in marks'
              /\ dev' = [dev EXCEPT ![irq.new] = Dead(dev[irq.new].thing)]
        /\ UNCHANGED <<world, hc, port, devlist, addrbm, nextAddr, sched, halted>>
    BY <1>0, GetDescriptorIs
  <1>2. irq.new \in Ids /\ dev \in [Ids -> DevType] /\ marks \subseteq marks' /\ bus' = bus
    BY <1>0, <1>1 DEF Types, IrqTypes, CoreTypes, NewSteps, Tried, world
  <1>3. CASE /\ irq'.at = "strings"
             /\ \E t \in Things : dev' = [dev EXCEPT ![irq.new].thing = t]
    <2>1. \A u \in Ids : dev'[u].st = dev[u].st /\ dev'[u].addr = dev[u].addr
      BY <1>2, <1>3 DEF DevType
    <2> QED
      BY <1>0, <1>1, <1>2, <1>3, <2>1, NamesKept
  <1>4. CASE dev' = [dev EXCEPT ![irq.new] = Dead(dev[irq.new].thing)] /\ irq'.at = "again"
    <2>1. /\ Live' = Live \ {irq.new} /\ dev'[irq.new].st = "freed"
          /\ \A v \in Ids : v # irq.new => dev'[v] = dev[v]
      BY <1>0, <1>2, <1>4, FreeingIs
    <2>2. Live \subseteq Ids
      BY DEF Live
    <2>3. Addresses'
      BY <1>0, <1>1, <1>2, <2>1, <2>2 DEF Addresses, Nameless, Taken
    <2>4. Bounds'
      BY <1>0, <1>1, <1>2, <1>4, <2>1 DEF Bounds
    <2> QED
      BY <2>3, <2>4 DEF Names
  <1> QED
    BY <1>1, <1>3, <1>4

LEMMA SuspendNames ==
    ASSUME Base, Names, Suspend
    PROVE  Names'
  <1>0. Types /\ Addresses /\ Bounds /\ Serving /\ Endpoints /\ Tree /\ PortsSound
    BY DEF Base, Names
  <1>1. /\ Asked /\ irq.at = "suspend" /\ irq'.at = "enable"
        /\ \/ UNCHANGED <<dev, devlist, addrbm, port, sched, td>>
           \/ /\ port[irq.hub][irq.port] # Null
              /\ \E us : Removes(port[irq.hub][irq.port], us)
        /\ UNCHANGED <<world, intr, intbm, nextAddr>>
    BY <1>0, SuspendIs DEF Endpoints
  <1>2. marks \subseteq marks' /\ bus' = bus
    BY <1>1 DEF Asked, Tried, world
  <1>3. CASE UNCHANGED <<dev, devlist, addrbm, port, sched, td>>
    BY <1>0, <1>1, <1>2, <1>3, NamesKept
  <1>4. ASSUME NEW us, Removes(port[irq.hub][irq.port], us)
        PROVE  Names'
    <2>1. /\ us \subseteq Live /\ Live \subseteq Ids
          /\ addrbm' = addrbm \ Released(us)
          /\ dev' = [v \in Ids |-> IF v \in us THEN Dead(dev[v].thing) ELSE dev[v]]
      BY <1>4 DEF Removes, Branch, Live
    <2>2. /\ \A v \in Ids \ us : dev'[v] = dev[v]
          /\ \A v \in us : dev'[v] = Dead(dev[v].thing)
      BY <2>1
    <2>3. \A t : Dead(t).st = "freed"
      BY DEF Dead
    <2>4. Live' = Live \ us
      BY <2>1, <2>2, <2>3 DEF Live
    <2>5. \A u \in Live : dev[u].addr \in Nat /\ dev[u].addr >= 2 /\ Taken(dev[u].addr)
      BY <1>0, <1>1, <2>1 DEF Addresses, Nameless, Types, CoreTypes, DevType
    <2>6. {0, 1} \subseteq addrbm'
      <3>1. 0 \notin Released(us) /\ 1 \notin Released(us)
        BY <2>1, <2>5 DEF Released
      <3> QED
        BY <1>0, <2>1, <3>1 DEF Addresses
    <2>7. ASSUME NEW u \in Live' PROVE dev'[u].addr >= 2 /\ Taken(dev[u].addr)'
      <3>1. PICK x : x = dev'[u].addr
        OBVIOUS
      <3>2. x = dev[u].addr /\ u \notin us /\ u \in Live
        BY <2>1, <2>2, <2>4, <3>1
      <3>3. x >= 2 /\ Taken(x) /\ x \notin Released(us)
        BY <1>0, <2>1, <2>5, <3>2 DEF Addresses, Released
      <3>4. Taken(x)'
        BY <1>1, <2>1, <3>3 DEF Taken
      <3> QED
        BY <3>1, <3>3, <3>4 DEF Taken
    <2>8. Addresses'
      BY <1>0, <1>1, <1>2, <2>1, <2>2, <2>4, <2>6, <2>7 DEF Addresses
    <2>9. Bounds'
      BY <1>0, <1>1, <1>2, <2>2, <2>3 DEF Bounds
    <2> QED
      BY <2>8, <2>9 DEF Names
  <1> QED
    BY <1>1, <1>3, <1>4

(***************************************************************************)
(* The actions by what they do to the devices.                             *)
(***************************************************************************)

Plain ==
    \/ PortStatus \/ ClearConnection \/ Reset \/ Settle \/ PortEnable
    \/ HandleIrq \/ RootIrq \/ NextPort \/ Acknowledge \/ Another \/ Hang
    \/ PeriodicComplete \/ Reschedule \/ (\E u \in Ids : HubReports(u))
    \/ (\E f \in Fits : PlugIn(f[1], f[2])) \/ (\E s \in Sockets : Unplug(s))

LEMMA NextIs ==
    ASSUME Next
    PROVE  \/ Plain \/ PowerPorts \/ (\E u \in Ids : BindDriver(u))
           \/ NewDevice \/ SetAddress \/ GetDescriptor \/ Strings \/ BindHub \/ Suspend
  BY DEF Next, Handler, Plain

\* No device changes, and none is being set up, or nothing changes about that.
Rests ==
    /\ UNCHANGED core /\ marks \subseteq marks'
    /\ \/ irq' = irq
       \/ /\ irq.at # "address" /\ irq'.at \notin NewSteps
          /\ irq.at \in {"desc", "strings"} => irq'.at = "hung"
          /\ irq.at # "hung"
    /\ \A t \in Things : bus'[t] = bus[t] \/ bus'[t] \in {Off, 0}

LEMMA PlainIs ==
    ASSUME Base, Plain
    PROVE  Rests /\ sched' = sched
  <1>0. Types /\ Serving /\ bus \in [Things -> Int]
    BY DEF Base, Types, WorldTypes
  <1>1. CASE PortStatus
    BY <1>0, <1>1, PortStatusIs DEF Rests, Asked, Tried, world, NewSteps
  <1>2. CASE ClearConnection
    BY <1>0, <1>2, ClearConnectionIs DEF Rests, Asked, Tried, NewSteps
  <1>3. CASE Reset
    <2>1. /\ Asked /\ irq.at \in {"reset", "again"} /\ irq'.at \in {"settle", "enable"}
          /\ UNCHANGED <<plug, chg, plugs, hc, core, sched>>
      BY <1>0, <1>3, ResetIs
    <2>2. PICK ok \in BOOLEAN :
              bus' = [t \in Things |-> IF ok /\ t = plug[irq.port] THEN 0 ELSE bus[t]]
      BY <1>0, <1>3, ResetIs
    <2>3. \A t \in Things : bus'[t] = bus[t] \/ bus'[t] \in {Off, 0}
      BY <2>2
    <2> QED
      BY <2>1, <2>3 DEF Rests, Asked, Tried, NewSteps
  <1>4. CASE Settle
    BY <1>0, <1>4, SettleIs DEF Rests, Asked, Tried, world, NewSteps
  <1>5. CASE PortEnable
    BY <1>0, <1>5, PortEnableIs DEF Rests, Tried, NewSteps
  <1>6. CASE HandleIrq
    BY <1>0, <1>6, HandleIrqIs DEF Rests, world, NewSteps
  <1>7. CASE RootIrq
    BY <1>0, <1>7, RootIrqIs DEF Rests, world, NewSteps, Starts
  <1>8. CASE NextPort
    BY <1>0, <1>8, NextPortIs DEF Rests, world, NewSteps, Starts
  <1>9. CASE Acknowledge
    BY <1>0, <1>9, AcknowledgeIs DEF Rests, world, NewSteps
  <1>10. CASE Hang
    BY <1>0, <1>10, HangIs DEF Rests, world, NewSteps, PortSteps, HubSteps
  <1>11. CASE PeriodicComplete
    BY <1>0, <1>11, PeriodicCompleteIs DEF Rests, world, NewSteps, Starts
  <1>12. CASE Reschedule
    BY <1>0, <1>12, RescheduleIs DEF Rests, world, NewSteps
  <1>13. CASE \E u \in Ids : HubReports(u)
    BY <1>0, <1>13, HubReportsIs DEF Rests, world
  <1>14. CASE \E f \in Fits : PlugIn(f[1], f[2])
    BY <1>0, <1>14, PlugInIs DEF Rests
  <1>15. CASE \E s \in Sockets : Unplug(s)
    BY <1>0, <1>15, UnplugIs DEF Rests
  <1>16. CASE Another
    BY <1>0, <1>16, AnotherIs DEF Rests, Tried, world
  <1> QED
    BY <1>1, <1>2, <1>3, <1>4, <1>5, <1>6, <1>7, <1>8, <1>9, <1>10, <1>11, <1>12, <1>13,
       <1>14, <1>15, <1>16 DEF Plain

LEMMA SchedulingIs ==
    ASSUME Base, PowerPorts \/ (\E u \in Ids : BindDriver(u))
    PROVE  /\ Rests
           /\ \E u \in Ids : sched' = AddQhn(sched, u, Rate)
           /\ "unsorted" \notin marks' => Sorted(sched'.list, Rate)
  <1>0. Types /\ Newest
    BY DEF Base
  <1>1. CASE PowerPorts
    <2>1. irq.new \in Ids
      BY <1>0, <1>1, PowerPortsIs DEF Types, IrqTypes, NewSteps
    <2> QED
      BY <1>0, <1>1, <2>1, PowerPortsIs DEF Rests, Tried, NewSteps
  <1>2. CASE \E u \in Ids : BindDriver(u)
    BY <1>0, <1>2, BindDriverIs DEF Rests, world
  <1> QED
    BY <1>1, <1>2

(***************************************************************************)
(* The start.                                                              *)
(***************************************************************************)

\* The schedule of one endpoint does not depend on the rates of others.
LEMMA FirstIs ==
    ASSUME NEW q, NEW r
    PROVE  AddQhn(EmptySchedule, q, r) =
             [list |-> InsertAt(<<>>, 1, q),
              frame |-> [i \in 1..Frames |-> IF i % r[q] = 0 THEN q ELSE NoQh]]
  <1>1. PICK e, f : e = EmptySchedule /\ f = [i \in 1..Frames |-> NoQh]
    OBVIOUS
  <1>2. e.list = <<>> /\ e.frame = f /\ \A i \in 1..Frames : e.frame[i] = NoQh
    BY <1>1 DEF EmptySchedule
  <1>3. q \notin ToSet(e.list)
    BY <1>2 DEF ToSet
  <1>4. SlotFor(e.list, r, r[q]) = 1
    BY <1>2 DEF SlotFor
  <1>5. AddQhn(e, q, r) =
          [list |-> InsertAt(<<>>, 1, q),
           frame |-> [i \in 1..Frames |->
              IF i % r[q] = 0 /\ (e.frame[i] = NoQh \/ r[e.frame[i]] < r[q])
              THEN q ELSE e.frame[i]]]
    BY <1>2, <1>3, <1>4 DEF AddQhn
  <1>6. [i \in 1..Frames |->
              IF i % r[q] = 0 /\ (e.frame[i] = NoQh \/ r[e.frame[i]] < r[q])
              THEN q ELSE e.frame[i]]
        = [i \in 1..Frames |-> IF i % r[q] = 0 THEN q ELSE NoQh]
    BY <1>2
  <1> QED
    BY <1>1, <1>5, <1>6

LEMMA EmptyIs ==
    /\ EmptySchedule \in Schedules /\ Once(EmptySchedule.list)
    /\ ToSet(EmptySchedule.list) = {}
    /\ \A rate \in Rates : Entered(EmptySchedule, rate)
  <1>1. PICK f : f = [i \in 1..Frames |-> NoQh]
    OBVIOUS
  <1>2. EmptySchedule.list = <<>> /\ EmptySchedule.frame = f
    BY <1>1 DEF EmptySchedule
  <1>3. DOMAIN EmptySchedule.list = {} /\ EmptySchedule.list \in Seq(Ids)
    BY <1>2
  <1>4. f \in [1..Frames -> Ids \cup {NoQh}] /\ \A i \in 1..Frames : f[i] = NoQh
    BY <1>1
  <1>5. EmptySchedule = [list |-> <<>>, frame |-> f]
    BY <1>1 DEF EmptySchedule
  <1>6. EmptySchedule \in Schedules
    BY <1>4, <1>5 DEF Schedules
  <1>7. ToSet(EmptySchedule.list) = {}
    BY <1>2 DEF ToSet
  <1> QED
    BY <1>2, <1>3, <1>4, <1>6, <1>7 DEF Once, Entered, Enters, Sorted

LEMMA InitSchedule ==
    ASSUME NEW t, NEW s, InitBus(t, s), t \in Things, Rate \in Rates
    PROVE  /\ sched \in Schedules /\ Once(sched.list) /\ Listed = {1}
           /\ Entered(sched, Rate)
  <1>1. PICK r \in Rates : r = Rate
    OBVIOUS
  <1>2. PICK q \in Ids : q = 1
    BY IdsAre
  <1>3. PICK e, a : e = EmptySchedule /\ a = AddQhn(e, q, r)
    OBVIOUS
  <1>4. r[q] = Interval[t]
    <2>1. dev[1].thing = t
      BY <1>2 DEF InitBus
    <2>2. t # Empty
      BY HubsAre
    <2> QED
      BY <1>1, <1>2, <2>1, <2>2 DEF Rate
  <1>5. sched = a
    <2>1. PICK w : w = [v \in {1} |-> Interval[t]]
      OBVIOUS
    <2>2. w[q] = r[q]
      BY <1>2, <1>4, <2>1
    <2>3. sched = AddQhn(EmptySchedule, q, w)
      BY <1>2, <2>1 DEF InitBus
    <2>4. PICK x : x = r[q]
      OBVIOUS
    <2>5. AddQhn(EmptySchedule, q, w) =
            [list |-> InsertAt(<<>>, 1, q),
             frame |-> [i \in 1..Frames |-> IF i % x = 0 THEN q ELSE NoQh]]
      BY <2>2, <2>4, FirstIs
    <2>6. AddQhn(EmptySchedule, q, r) =
            [list |-> InsertAt(<<>>, 1, q),
             frame |-> [i \in 1..Frames |-> IF i % x = 0 THEN q ELSE NoQh]]
      BY <2>4, FirstIs
    <2> QED
      BY <1>3, <2>3, <2>5, <2>6
  <1>6. e \in Schedules /\ Once(e.list) /\ ToSet(e.list) = {} /\ Entered(e, r)
    BY <1>3, EmptyIs
  <1>7. a \in Schedules /\ Once(a.list) /\ ToSet(a.list) = {q}
    <2>1. /\ AddQhn(e, q, r) \in Schedules /\ Once(AddQhn(e, q, r).list)
          /\ ToSet(AddQhn(e, q, r).list) = ToSet(e.list) \cup {q}
      BY <1>6, AddIs
    <2> QED
      BY <1>3, <1>6, <2>1
  <1>8. Sorted(a.list, r)
    <2>1. a.list \in Seq(Ids)
      BY <1>7 DEF Schedules
    <2>2. \A i \in DOMAIN a.list : a.list[i] = q
      BY <1>7 DEF ToSet
    <2>3. \A i, j \in DOMAIN a.list : i = j
      BY <1>7, <2>2 DEF Once
    <2>4. DOMAIN a.list \subseteq Nat
      BY <2>1
    <2>5. \A i, j \in DOMAIN a.list : ~(i < j)
      BY <2>3, <2>4
    <2> QED
      BY <2>5 DEF Sorted
  <1>9. Entered(a, r)
    BY <1>3, <1>6, <1>8, AddEnters
  <1> QED
    BY <1>1, <1>2, <1>5, <1>7, <1>9 DEF Listed

LEMMA InitIs ==
    ASSUME Init
    PROVE  Base /\ Names /\ Entered(sched, Rate)
  <1>1. PICK f \in Fits : IsHub(f[1]) /\ InitBus(f[1], f[2])
    BY DEF Init
  <1>2. PICK t, s : t = f[1] /\ s = f[2]
    OBVIOUS
  <1>3. t \in Things /\ s \in Sockets /\ IsHub(t) /\ InitBus(t, s) /\ t # Empty
    BY <1>1, <1>2, UsbAssumption, HubsAre
  <1>4. /\ plug = [r \in Sockets |-> IF r = s THEN t ELSE Empty]
        /\ bus = [v \in Things |-> IF v = t THEN NumDevices - 1 ELSE Off]
        /\ td = [v \in Ids |-> IF v = 1 THEN "active" ELSE "none"]
        /\ dev = [v \in Ids |-> IF v # 1 THEN NoDev ELSE
                     [st |-> "live", thing |-> t, hub |-> Root, socket |-> s,
                      addr |-> NumDevices - 1, data |-> "hub"]]
        /\ port = [p \in Ids \cup {Root} |-> [r \in Sockets |->
                     IF p = Root /\ r = s THEN 1 ELSE Null]]
    BY <1>3 DEF InitBus
  <1>5. /\ devlist = {1} /\ addrbm = {0, 1, NumDevices - 1} /\ nextAddr = 1
        /\ chg = {} /\ enC = {} /\ plugs = 0 /\ faults = 0
        /\ intr = {} /\ intbm = [u \in Ids |-> {}] /\ irq = Idle
        /\ halted = {} /\ marks = {}
    BY DEF Init
  <1>6. NumDevices \in Nat /\ NumDevices >= 3 /\ MaxDevs \in Nat /\ MaxDevs >= 1
        /\ MaxPlugs \in Nat /\ MaxFaults \in Nat /\ Ids \subseteq Nat \ {0} /\ 1 \in Ids
        /\ Root \notin Ids /\ Null # Root /\ Root = 0 /\ Null = -1 /\ Off = -1
    BY UsbAssumption, UsbBounds, IdsAre DEF Root, Null, Off
  <1>7. /\ \A v \in Ids : v # 1 => dev[v] = NoDev
        /\ dev[1] = [st |-> "live", thing |-> t, hub |-> Root, socket |-> s,
                     addr |-> NumDevices - 1, data |-> "hub"]
    BY <1>4, <1>6
  <1>8. /\ dev[1].st = "live" /\ dev[1].thing = t /\ dev[1].hub = Root /\ dev[1].socket = s
        /\ dev[1].addr = NumDevices - 1 /\ dev[1].data = "hub"
    BY <1>7
  <1>9. NoDev.st = "none" /\ NoDev.data = "none" /\ NoDev \in DevType
    BY DEF NoDev, DevType
  <1>10. Live = {1}
    BY <1>6, <1>7, <1>8, <1>9 DEF Live
  <1>11. dev \in [Ids -> DevType]
    <2>1. dev[1] \in DevType
      BY <1>3, <1>6, <1>7 DEF DevType
    <2> QED
      BY <1>4, <1>6, <1>7, <1>9, <2>1
  <1>12. Rate \in Rates
    <2>1. \A u \in Ids : dev[u].thing \in Things \cup {Empty}
      BY <1>11 DEF DevType
    <2>2. \A x \in Things : Interval[x] \in Nat \ {0}
      BY UsbAssumption
    <2>3. ASSUME NEW u \in Ids
          PROVE  (IF dev[u].thing = Empty THEN 1 ELSE Interval[dev[u].thing]) \in Nat \ {0}
      BY <2>1, <2>2
    <2> QED
      BY <2>3 DEF Rate, Rates
  <1>13. sched \in Schedules /\ Once(sched.list) /\ Listed = {1} /\ Entered(sched, Rate)
    BY <1>3, <1>12, InitSchedule
  <1>14. Idle \in IrqType /\ Idle.at = "idle"
    BY DEF Idle, IrqType, Steps
  <1>15. irq.at = "idle" /\ irq.at \notin PortSteps /\ irq.at \notin NewSteps
    BY <1>5, <1>14 DEF PortSteps, HubSteps, NewSteps
  <1>16. Types
    <2>1. WorldTypes
      BY <1>3, <1>4, <1>5, <1>6 DEF WorldTypes
    <2>2. CoreTypes
      <3>1. addrbm \subseteq 0..(NumDevices - 1)
        BY <1>5, <1>6
      <3>2. td \in [Ids -> {"none", "active", "done"}]
        BY <1>4
      <3>3. port \in [Ids \cup {Root} -> [Sockets -> Ids \cup {Null}]]
        BY <1>4, <1>6
      <3> QED
        BY <1>5, <1>6, <1>11, <1>13, <3>1, <3>2, <3>3 DEF CoreTypes
    <2>3. IrqTypes
      BY <1>5, <1>14, <1>15 DEF IrqTypes
    <2> QED
      BY <2>1, <2>2, <2>3 DEF Types
  <1>17. Serving /\ Newest
    BY <1>15 DEF Serving, Newest
  <1>18. Unused
    <2>1. ASSUME NEW u \in Ids, dev[u].st = "none"
          PROVE  /\ dev[u] = NoDev /\ u \notin devlist
                 /\ \A r \in Sockets : port[u][r] = Null
                 /\ \A v \in Ids : v > u => dev[v].st = "none"
      <3>1. u # 1
        BY <1>8, <2>1
      <3>2. \A v \in Ids : v > u => v # 1
        BY <1>6
      <3>3. \A r \in Sockets : port[u][r] = Null
        BY <1>4, <1>6
      <3> QED
        BY <1>5, <1>7, <1>9, <3>1, <3>2, <3>3
    <2> QED
      BY <2>1 DEF Unused
  <1>19. Tree
    BY <1>3, <1>6, <1>7, <1>8, <1>9, <1>10 DEF Tree
  <1>20. Endpoints
    BY <1>3, <1>4, <1>6, <1>8, <1>10, <1>13 DEF Endpoints
  <1>21. PortsSound
    <2>1. ASSUME NEW w \in Live \cup {Root}, NEW r \in Sockets, port[w][r] # Null
          PROVE  port[w][r] = 1 /\ w = Root /\ r = s
      BY <1>4, <1>6, <1>10, <2>1
    <2> QED
      BY <1>8, <1>10, <1>15, <2>1 DEF PortsSound, NewSteps
  <1>22. ListLive
    BY <1>5, <1>10 DEF ListLive
  <1>23. Addresses
    <2>1. dev[1].addr >= 2 /\ dev[1].addr \in addrbm
      BY <1>5, <1>6, <1>8
    <2> QED
      BY <1>5, <1>6, <1>10, <2>1 DEF Addresses, Taken
  <1>24. Bounds
    <2>1. \A v \in Things : bus[v] >= Off /\ bus[v] <= NumDevices + MaxDevs
      BY <1>4, <1>6
    <2> QED
      BY <1>5, <1>6, <1>15, <2>1 DEF Bounds, NewSteps
  <1> QED
    BY <1>13, <1>16, <1>17, <1>18, <1>19, <1>20, <1>21, <1>22, <1>23, <1>24 DEF Base, Names

LEMMA BaseNext ==
    ASSUME Base, Names, Next
    PROVE  Base'
  <1>1. Addresses
    BY DEF Names
  <1>2. CASE Plain
    BY <1>2, AskingKeepsBase, MovingKeepsBase, AnotherKeepsBase, PeriodicKeepsBase,
       PlugKeepsBase DEF Plain
  <1>3. CASE PowerPorts \/ (\E u \in Ids : BindDriver(u))
    BY <1>3, SchedulingKeepsBase
  <1> QED
    BY <1>1, <1>2, <1>3, NextIs, NewDeviceKeepsBase, SetAddressKeepsBase,
       GetDescriptorKeepsBase, StringsKeepsBase, BindHubKeepsBase, SuspendKeepsBase

LEMMA NamesNext ==
    ASSUME Base, Names, Next
    PROVE  Names'
  <1>0. Types /\ dev \in [Ids -> DevType]
    BY DEF Base, Types, CoreTypes
  <1>1. CASE Rests
    <2>1. "address" \in NewSteps
      BY DEF NewSteps
    <2> QED
      BY <1>0, <1>1, <2>1, NamesKept DEF Rests, core
  <1>2. CASE Strings
    <2>1. /\ marks \subseteq marks' /\ irq.at = "strings" /\ irq'.at \in {"bind", "enable"}
          /\ UNCHANGED <<dev, addrbm, nextAddr, bus>>
      BY <1>0, <1>2, StringsIs DEF Tried, world
    <2> QED
      BY <1>0, <2>1, NamesKept
  <1>3. CASE BindHub
    <2>1. /\ marks \subseteq marks' /\ irq.at \in {"bind", "config"} /\ irq'.at # "address"
          /\ UNCHANGED <<addrbm, nextAddr, bus>>
          /\ \E x : dev' = [dev EXCEPT ![irq.new].data = x]
      BY <1>0, <1>3, BindHubIs DEF Tried, world
    <2>2. \A u \in Ids : dev'[u].st = dev[u].st /\ dev'[u].addr = dev[u].addr
      BY <1>0, <2>1 DEF DevType
    <2> QED
      BY <1>0, <2>1, <2>2, NamesKept
  <1> QED
    BY <1>1, <1>2, <1>3, NextIs, PlainIs, SchedulingIs, NewDeviceNames, SetAddressNames,
       GetDescriptorNames, SuspendNames

LEMMA StutterKeeps ==
    ASSUME Base, Names, UNCHANGED vars
    PROVE  Base' /\ Names' /\ Live' = Live /\ Listed' = Listed /\ Rate' = Rate
  <1>1. /\ UNCHANGED <<plug, chg, enC, bus, plugs, faults, intr, td, intbm, irq>>
        /\ UNCHANGED <<dev, port, devlist, addrbm, nextAddr, sched, halted, marks>>
    BY DEF vars, world, hc, core
  <1>2. Live' = Live /\ Listed' = Listed /\ Rate' = Rate
    BY <1>1 DEF Live, Listed, Rate
  <1>3. Types'
    BY <1>1 DEF Base, Types, WorldTypes, CoreTypes, IrqTypes
  <1>4. Serving' /\ Unused' /\ Tree'
    BY <1>1, <1>2 DEF Base, Serving, Unused, Tree
  <1>5. Endpoints' /\ Newest' /\ PortsSound' /\ ListLive'
    BY <1>1, <1>2 DEF Base, Endpoints, Newest, PortsSound, ListLive
  <1>6. Names'
    BY <1>1, <1>2 DEF Names, Addresses, Bounds, Nameless, Taken
  <1> QED
    BY <1>2, <1>3, <1>4, <1>5, <1>6 DEF Base

\* Only a disconnection can touch what was freed.
LEMMA NothingBad ==
    ASSUME Next, ~Suspend
    PROVE  "bad" \in marks' => "bad" \in marks
  <1>1. \A o \in Outcomes : "bad" \notin o[2]
    BY OutcomesAre
  <1>2. \A s : "bad" \notin MarkSort(s)
    BY DEF MarkSort
  <1>3. CASE PortStatus
    BY <1>1, <1>3 DEF PortStatus
  <1>4. CASE ClearConnection
    BY <1>1, <1>4 DEF ClearConnection
  <1>5. CASE Reset
    BY <1>1, <1>5 DEF Reset
  <1>6. CASE Settle
    BY <1>1, <1>6 DEF Settle
  <1>7. CASE PortEnable
    BY <1>1, <1>7 DEF PortEnable
  <1>8. CASE NewDevice
    BY <1>1, <1>8 DEF NewDevice
  <1>9. CASE SetAddress
    <2>1. CASE addrbm = 0..(NumDevices - 1)
      BY <1>9, <2>1 DEF SetAddress
    <2>2. CASE addrbm # 0..(NumDevices - 1)
      <3>1. PICK a \in SearchAddr, o \in Outcomes :
                marks' = marks \cup o[2] \cup (IF o[1] THEN {} ELSE {"listed"})
                               \cup (IF a >= NumDevices THEN {"wild"} ELSE {})
        BY <1>9, <2>2 DEF SetAddress
      <3> QED
        BY <1>1, <3>1
    <2> QED
      BY <2>1, <2>2
  <1>10. CASE GetDescriptor
    BY <1>1, <1>10 DEF GetDescriptor
  <1>11. CASE Strings
    BY <1>11 DEF Strings
  <1>12. CASE BindHub
    BY <1>1, <1>12 DEF BindHub
  <1>13. CASE PowerPorts
    <2>1. PICK o \in Outcomes : marks' = marks \cup o[2] \cup MarkSort(sched')
      BY <1>13 DEF PowerPorts
    <2> QED
      BY <1>1, <1>2, <2>1
  <1>14. ASSUME NEW u \in Ids, BindDriver(u) PROVE "bad" \in marks' => "bad" \in marks
    <2>1. marks' = marks \cup MarkSort(sched')
      BY <1>14 DEF BindDriver
    <2> QED
      BY <1>2, <2>1
  <1>15. CASE Acknowledge
    BY <1>15 DEF Acknowledge
  <1>16. CASE HandleIrq \/ PeriodicComplete \/ RootIrq \/ NextPort \/ Reschedule \/ Hang
    BY <1>16 DEF HandleIrq, PeriodicComplete, RootIrq, NextPort, Reschedule, Hang
  <1>17. CASE \/ \E f \in Fits : PlugIn(f[1], f[2])
              \/ \E s \in Sockets : Unplug(s)
              \/ \E u \in Ids : HubReports(u)
    BY <1>17 DEF PlugIn, Unplug, HubReports
  <1>18. CASE Another
    BY <1>1, <1>18 DEF Another
  <1> QED
    BY <1>3, <1>4, <1>5, <1>6, <1>7, <1>8, <1>9, <1>10, <1>11, <1>12, <1>13, <1>14, <1>15,
       <1>16, <1>17, <1>18 DEF Next, Handler

LEMMA MarksGrow ==
    ASSUME Base, Names, Next
    PROVE  marks \subseteq marks'
  <1>0. Types /\ Addresses /\ Serving /\ Tree /\ PortsSound /\ Once(sched.list)
    BY DEF Base, Names, Endpoints
  <1>1. CASE Suspend
    BY <1>0, <1>1, SuspendIs DEF Asked, Tried
  <1> QED
    BY <1>0, <1>1, NextIs, PlainIs, SchedulingIs, NewDeviceIs, SetAddressIs, GetDescriptorIs,
       StringsIs, BindHubIs DEF Rests, Tried

LEMMA DisconnectNext ==
    ASSUME Base, Names, DisconnectSafe, Next
    PROVE  DisconnectSafe'
  <1>0. /\ Types /\ Serving /\ Tree /\ PortsSound /\ ListLive /\ Once(sched.list)
        /\ marks \subseteq marks'
    BY MarksGrow DEF Base, Endpoints
  <1>1. CASE ~Suspend
    BY <1>0, <1>1, NothingBad DEF DisconnectSafe
  <1>2. CASE Suspend
    <2>1. \/ "bad" \in marks' => "bad" \in marks
          \/ \E us : Removes(port[irq.hub][irq.port], us)
      BY <1>0, <1>2, SuspendIs
    <2>2. ASSUME NEW us, Removes(port[irq.hub][irq.port], us), "bad" \in marks', "bad" \notin marks
          PROVE  marks \cap {"listed", "unbound"} # {}
      <3>1. PICK u : u = port[irq.hub][irq.port]
        OBVIOUS
      <3>2. /\ u \in Live /\ us \subseteq Live
            /\ \/ dev[u].data = "dangling"
               \/ \E v \in us \cup devlist : dev[v].st # "live"
        BY <2>2, <3>1 DEF Removes, Branch
      <3>3. CASE dev[u].data = "dangling"
        BY <1>0, <3>2, <3>3 DEF Tree, Live
      <3>4. CASE \E v \in us \cup devlist : dev[v].st # "live"
        BY <1>0, <3>2, <3>4 DEF ListLive, Live
      <3> QED
        BY <3>2, <3>3, <3>4
    <2> QED
      BY <1>0, <2>1, <2>2 DEF DisconnectSafe
  <1> QED
    BY <1>1, <1>2

(* Disconnecting a device touches nothing that has been freed, unless it   *)
(* is a hub that could not be bound or a device failed after it was        *)
(* listed: for every set of things, sockets and structures.                *)
THEOREM DisconnectingIsSafe == Spec => []DisconnectSafe
  <1>1. Init => Base /\ Names /\ DisconnectSafe
    BY InitIs DEF Init, DisconnectSafe
  <1>2. Base /\ Names /\ DisconnectSafe /\ [Next]_vars => Base' /\ Names' /\ DisconnectSafe'
    <2>1. ASSUME Base, Names, DisconnectSafe, Next PROVE Base' /\ Names' /\ DisconnectSafe'
      BY <2>1, BaseNext, NamesNext, DisconnectNext
    <2>2. ASSUME Base, Names, DisconnectSafe, UNCHANGED vars
          PROVE  Base' /\ Names' /\ DisconnectSafe'
      <3>1. marks' = marks
        BY <2>2 DEF vars
      <3> QED
        BY <2>2, <3>1, StutterKeeps DEF DisconnectSafe
    <2> QED
      BY <2>1, <2>2
  <1> QED
    BY <1>1, <1>2, PTL DEF Spec

(***************************************************************************)
(* The schedule of the devices.                                            *)
(***************************************************************************)

InOrder == "unsorted" \notin marks => Entered(sched, Rate)

LEMMA EnteredSame ==
    ASSUME NEW s \in Schedules, NEW r, NEW q, \A u \in ToSet(s.list) : q[u] = r[u], Entered(s, r)
    PROVE  Entered(s, q)
  <1>1. PICK l \in Seq(Ids) : l = s.list
    BY DEF Schedules
  <1>2. DOMAIN l = 1..Len(l) /\ Len(l) \in Nat /\ \A i \in DOMAIN l : q[l[i]] = r[l[i]]
    BY <1>1, ToSetIs
  <1>3. Sorted(s.list, q)
    BY <1>1, <1>2 DEF Entered, Sorted
  <1>4. ASSUME NEW i \in 1..Frames PROVE Enters(s, q, i)
    <2>1. Enters(s, r, i)
      BY DEF Entered
    <2>2. CASE s.frame[i] = NoQh /\ \A j \in DOMAIN l : ~Turn(i, r[l[j]])
      BY <1>1, <1>2, <2>2 DEF Enters
    <2>3. ASSUME NEW j \in DOMAIN l, s.frame[i] = l[j], Turn(i, r[l[j]]),
                 \A k \in 1..(j - 1) : ~Turn(i, r[l[k]])
          PROVE  Enters(s, q, i)
      <3>1. \A k \in 1..(j - 1) : k \in DOMAIN l
        BY <1>2
      <3>2. Turn(i, q[l[j]]) /\ \A k \in 1..(j - 1) : ~Turn(i, q[l[k]])
        BY <1>2, <2>3, <3>1
      <3> QED
        BY <1>1, <2>3, <3>2 DEF Enters
    <2> QED
      BY <1>1, <2>1, <2>2, <2>3 DEF Enters
  <1> QED
    BY <1>3, <1>4 DEF Entered

\* The rates are those of the things.
LEMMA RateSame ==
    ASSUME NEW u \in Ids, dev'[u].thing = dev[u].thing
    PROVE  Rate'[u] = Rate[u]
  <1>1. Rate[u] = IF dev[u].thing = Empty THEN 1 ELSE Interval[dev[u].thing]
    BY DEF Rate
  <1>2. Rate'[u] = IF dev'[u].thing = Empty THEN 1 ELSE Interval[dev'[u].thing]
    BY DEF Rate
  <1> QED
    BY <1>1, <1>2

LEMMA ListedNest ==
    ASSUME Base, Multiples
    PROVE  Nests(Rate, Listed)
  <1>1. \A u \in Listed : u \in Ids /\ dev[u].thing \in Things
    BY DEF Base, Endpoints, Types, CoreTypes, DevType, Live
  <1>2. \A t \in Things : Interval[t] \in Nat \ {0}
    BY UsbAssumption
  <1>3. \A u \in Listed : Rate[u] = Interval[dev[u].thing]
    <2>1. \A u \in Listed : dev[u].thing # Empty
      BY <1>1, HubsAre
    <2> QED
      BY <1>1, <2>1 DEF Rate
  <1>4. ASSUME NEW u \in Listed, NEW v \in Listed, Rate[u] >= Rate[v],
               NEW i \in 1..Frames, Turn(i, Rate[u])
        PROVE  Turn(i, Rate[v])
    <2>1. PICK x \in Nat \ {0}, y \in Nat \ {0} : x = Rate[u] /\ y = Rate[v]
      BY <1>1, <1>2, <1>3
    <2>2. x % y = 0
      BY <1>1, <1>3, <1>4, <2>1 DEF Multiples
    <2>3. i \in Nat /\ i % x = 0
      BY <1>4, <2>1, FramesAssumption DEF Turn
    <2>4. i % y = 0
      BY <2>2, <2>3, DividesBoth
    <2> QED
      BY <2>1, <2>4 DEF Turn
  <1> QED
    BY <1>4 DEF Nests

LEMMA InOrderNext ==
    ASSUME Base, Names, Multiples, InOrder, Next
    PROVE  InOrder'
  <1>0. /\ Types /\ Serving /\ Tree /\ PortsSound /\ Endpoints /\ Unused /\ Newest
        /\ sched \in Schedules /\ Once(sched.list)
        /\ marks \subseteq marks' /\ dev \in [Ids -> DevType] /\ Rate \in Rates
        /\ Nests(Rate, Listed) /\ Listed \subseteq Live /\ Live \subseteq Ids /\ Addresses
    BY MarksGrow, RatesAre, ListedNest DEF Base, Endpoints, Types, CoreTypes, Live, Names
  <1>1. ASSUME sched' = sched, \A u \in Listed : dev'[u].thing = dev[u].thing
        PROVE  InOrder'
    <2>0. PICK s \in Schedules : s = sched
      BY <1>0
    <2>1. PICK r, q : r = Rate /\ q = Rate'
      OBVIOUS
    <2>2. \A u \in ToSet(s.list) : q[u] = r[u]
      BY <1>0, <1>1, <2>0, <2>1, RateSame DEF Listed
    <2>3. Entered(s, r) => Entered(s, q)
      BY <2>2, EnteredSame
    <2> QED
      BY <1>0, <1>1, <2>0, <2>1, <2>3 DEF InOrder
  <1>2. CASE Plain
    <2>1. sched' = sched /\ dev' = dev
      BY <1>2, PlainIs DEF Rests, core
    <2> QED
      BY <1>1, <2>1
  <1>3. CASE PowerPorts \/ (\E u \in Ids : BindDriver(u))
    <2>1. PICK u \in Ids : sched' = AddQhn(sched, u, Rate)
      BY <1>3, SchedulingIs
    <2>2. Rate' = Rate /\ ("unsorted" \notin marks' => Sorted(sched'.list, Rate))
      BY <1>3, SchedulingIs DEF Rests, core, Rate
    <2>6. PICK s \in Schedules, r \in Rates : s = sched /\ r = Rate
      BY <1>0
    <2>3. PICK t : s = sched /\ r = Rate /\ t = AddQhn(s, u, r)
      BY <2>6
    <2>4. Once(s.list) /\ Entered(s, r) /\ Sorted(AddQhn(s, u, r).list, r)
            => Entered(AddQhn(s, u, r), r)
      BY AddEnters
    <2>5. "unsorted" \notin marks' => Entered(t, r)
      BY <1>0, <2>1, <2>2, <2>3, <2>4 DEF InOrder
    <2> QED
      BY <2>1, <2>2, <2>3, <2>5 DEF InOrder
  <1>4. CASE NewDevice
    <2>1. /\ sched' = sched
          /\ irq'.new \in Ids /\ dev[irq'.new].st = "none"
          /\ \E d : dev' = [dev EXCEPT ![irq'.new] = d]
      BY <1>0, <1>4, NewDeviceIs
    <2>2. \A u \in Live : dev'[u] = dev[u]
      BY <1>0, <2>1 DEF Live
    <2> QED
      BY <1>0, <1>1, <2>1, <2>2
  <1>5. ASSUME irq.new \in Ids, dev' = [dev EXCEPT ![irq.new] = Dead(dev[irq.new].thing)]
        PROVE  \A u \in Ids : dev'[u].thing = dev[u].thing
    BY <1>0, <1>5, FreeingIs
  <1>6. CASE SetAddress
    <2>1. irq.at = "address" /\ sched' = sched
      BY <1>0, <1>6, SetAddressIs
    <2>2. irq.new \in Ids
      BY <1>0, <2>1 DEF Types, IrqTypes, NewSteps
    <2>3. \/ \E a : dev' = [dev EXCEPT ![irq.new].addr = a]
          \/ dev' = [dev EXCEPT ![irq.new] = Dead(dev[irq.new].thing)]
      BY <1>0, <1>6, SetAddressIs
    <2>4. CASE \E a : dev' = [dev EXCEPT ![irq.new].addr = a]
      <3>1. \A u \in Ids : dev'[u].thing = dev[u].thing
        BY <1>0, <2>2, <2>4 DEF DevType
      <3> QED
        BY <1>0, <1>1, <2>1, <3>1
    <2> QED
      BY <1>0, <1>1, <1>5, <2>1, <2>2, <2>3, <2>4
  <1>7. CASE GetDescriptor
    <2>1. irq.at = "desc" /\ sched' = sched
          /\ \/ \E t : dev' = [dev EXCEPT ![irq.new].thing = t]
             \/ dev' = [dev EXCEPT ![irq.new] = Dead(dev[irq.new].thing)]
      BY <1>0, <1>7, GetDescriptorIs
    <2>2. irq.new \in Ids /\ irq.new \notin Listed
      BY <2>1, NewestIs DEF NewSteps
    <2>3. \A u \in Ids : u # irq.new => dev'[u] = dev[u]
      BY <1>0, <2>1
    <2> QED
      BY <1>0, <1>1, <2>1, <2>2, <2>3
  <1>8. CASE Strings
    BY <1>0, <1>1, <1>8, StringsIs
  <1>9. CASE BindHub
    <2>1. irq.at \in {"bind", "config"} /\ sched' = sched
          /\ \E x : dev' = [dev EXCEPT ![irq.new].data = x]
      BY <1>0, <1>9, BindHubIs
    <2>2. irq.new \in Ids
      BY <1>0, <2>1 DEF Types, IrqTypes, NewSteps
    <2>3. \A u \in Ids : dev'[u].thing = dev[u].thing
      BY <1>0, <2>1, <2>2 DEF DevType
    <2> QED
      BY <1>0, <1>1, <2>1, <2>3
  <1>10. CASE Suspend
    <2>1. \/ UNCHANGED <<dev, sched>>
          \/ \E us : Removes(port[irq.hub][irq.port], us)
      BY <1>0, <1>10, SuspendIs
    <2>2. CASE UNCHANGED <<dev, sched>>
      BY <1>1, <2>2
    <2>3. ASSUME NEW us, Removes(port[irq.hub][irq.port], us) PROVE InOrder'
      <3>1. /\ Entered(sched, Rate) => Entered(sched', Rate)
            /\ dev' = [v \in Ids |-> IF v \in us THEN Dead(dev[v].thing) ELSE dev[v]]
        BY <1>0, <2>3 DEF Removes
      <3>2. \A t : Dead(t).thing = t
        BY DEF Dead
      <3>3. \A v \in Ids : dev'[v].thing = dev[v].thing
        BY <3>1, <3>2
      <3>4. Rate' = Rate
        BY <3>3 DEF Rate
      <3> QED
        BY <1>0, <3>1, <3>4 DEF InOrder
    <2> QED
      BY <2>1, <2>2, <2>3
  <1> QED
    BY <1>2, <1>3, <1>4, <1>6, <1>7, <1>8, <1>9, <1>10, NextIs

LEMMA InOrderIsSound ==
    ASSUME Base, Multiples, InOrder
    PROVE  ScheduleSound
  <1>1. PICK s \in Schedules, r \in Rates : s = sched /\ r = Rate
    BY RatesAre DEF Base, Types, CoreTypes
  <1>2. Once(s.list) /\ ToSet(s.list) = Listed /\ Listed \subseteq Live /\ Nests(r, ToSet(s.list))
    BY <1>1, ListedNest DEF Base, Endpoints, Listed
  <1>3. Entered(s, r) => \A k \in 1..Frames : Visited(s, k) = Due(s, k, r)
    BY <1>2, VisitedIsDue
  <1> QED
    BY <1>1, <1>2, <1>3 DEF InOrder, ScheduleSound

(* As long as the list of interrupt endpoints was never out of order, it   *)
(* refers to live devices only and the controller visits each endpoint     *)
(* exactly in the frames that are due: if of any two intervals one is a    *)
(* multiple of the other.                                                  *)
THEOREM ScheduleIsSound == Multiples => (Spec => []ScheduleSound)
  <1> SUFFICES ASSUME Multiples PROVE Spec => []ScheduleSound
    OBVIOUS
  <1>1. Init => Base /\ Names /\ InOrder
    BY InitIs DEF InOrder
  <1>2. Base /\ Names /\ InOrder /\ [Next]_vars => Base' /\ Names' /\ InOrder'
    <2>1. ASSUME Base, Names, InOrder, Next PROVE Base' /\ Names' /\ InOrder'
      BY <2>1, BaseNext, NamesNext, InOrderNext
    <2>2. ASSUME Base, Names, InOrder, UNCHANGED vars
          PROVE  Base' /\ Names' /\ InOrder'
      <3>1. marks' = marks /\ sched' = sched
        BY <2>2 DEF vars
      <3>2. Base' /\ Names' /\ Rate' = Rate
        BY <2>2, StutterKeeps
      <3> QED
        BY <2>2, <3>1, <3>2 DEF InOrder
    <2> QED
      BY <2>1, <2>2
  <1>3. Base /\ InOrder => ScheduleSound
    BY InOrderIsSound
  <1> QED
    BY <1>1, <1>2, <1>3, PTL DEF Spec

(***************************************************************************)
(* The list and the ports.                                                 *)
(***************************************************************************)

Kin == ListWhole /\ Owners

\* A device changes that is on no port yet, or nothing but its own data.
LEMMA OwnersKept ==
    ASSUME Types, Owners, marks \subseteq marks', Live' = Live, port' = port,
           \A u \in Ids : dev'[u].hub = dev[u].hub /\ dev'[u].socket = dev[u].socket,
           \A u \in Live : dev[u].hub # Root => dev'[dev[u].hub].data = dev[dev[u].hub].data,
           irq.at = "hung" => irq'.at = "hung",
           irq'.at = "hung" \/ \A u \in Ids : Portless(u) => Portless(u)'
    PROVE  Owners'
  <1>1. Live \subseteq Ids
    BY DEF Live
  <1>2. ASSUME "replug" \notin marks', irq'.at # "hung", NEW u \in Live
        PROVE  /\ Portless(u)' \/ port'[dev'[u].hub][dev'[u].socket] = u
               /\ dev'[u].hub # Root =>
                     dev'[u].hub \in Live /\ dev'[dev'[u].hub].data = "hub"
    <2>1. /\ Portless(u) \/ port[dev[u].hub][dev[u].socket] = u
          /\ dev[u].hub # Root =>
                dev[u].hub \in Live /\ dev[dev[u].hub].data = "hub"
      BY <1>2 DEF Owners
    <2> QED
      BY <1>1, <1>2, <2>1
  <1> QED
    BY <1>2 DEF Owners

LEMMA KinKept ==
    ASSUME Types, Kin, marks \subseteq marks', Live' = Live, UNCHANGED <<devlist, addrbm, port>>,
           \A u \in Ids : dev'[u].addr = dev[u].addr /\ dev'[u].hub = dev[u].hub
                          /\ dev'[u].socket = dev[u].socket,
           \A u \in Live : dev[u].hub # Root => dev'[dev[u].hub].data = dev[dev[u].hub].data,
           irq.at = "hung" => irq'.at = "hung",
           \A u \in Ids : Nameless(u) => Nameless(u)',
           irq'.at = "hung" \/ \A u \in Ids : Portless(u) => Portless(u)'
    PROVE  Kin'
  <1>1. devlist \subseteq Ids /\ Live \subseteq Ids
    BY DEF Types, CoreTypes, Live
  <1>2. ListWhole'
    BY <1>1 DEF Kin, ListWhole
  <1>3. Owners'
    BY OwnersKept DEF Kin
  <1> QED
    BY <1>2, <1>3 DEF Kin

LEMMA NewDeviceKin ==
    ASSUME Base, Names, Kin, NewDevice
    PROVE  Kin'
  <1>0. Types /\ Unused /\ Tree /\ Serving /\ IrqTypes
    BY DEF Base, Types
  <1>1. /\ Tried /\ SamePort /\ irq.at = "desc8"
        /\ irq'.new \in Ids /\ dev[irq'.new].st = "none"
        /\ \/ /\ irq'.at = "address"
              /\ dev' = [dev EXCEPT ![irq'.new] = Allocated("live")]
           \/ /\ irq'.at = "again"
              /\ dev' = [dev EXCEPT ![irq'.new] = Allocated("freed")]
        /\ UNCHANGED <<world, hc, port, devlist, addrbm, nextAddr, sched, halted>>
    BY <1>0, NewDeviceIs
  <1>2. PICK n \in Ids : n = irq'.new
    BY <1>1
  <1>3. PICK st \in {"live", "freed"} :
            /\ dev' = [dev EXCEPT ![n] = Allocated(st)]
            /\ \/ irq'.at = "address" /\ st = "live"
               \/ irq'.at = "again" /\ st = "freed"
    BY <1>1, <1>2
  <1>4. dev \in [Ids -> DevType]
    BY <1>0 DEF Types, CoreTypes
  <1>5. /\ \A v \in Ids : v # n => dev'[v] = dev[v]
        /\ dev'[n].st = st /\ dev'[n].addr = 0 /\ dev'[n].hub = irq.hub
    BY <1>3, <1>4 DEF Allocated
  <1>6. /\ Live \subseteq Ids /\ n \notin Live /\ n \notin devlist /\ devlist \subseteq Ids
        /\ Live' = IF st = "live" THEN Live \cup {n} ELSE Live
    BY <1>0, <1>1, <1>2, <1>3, <1>5 DEF Live, Unused, Types, CoreTypes
  <1>7. \A u \in Ids : ~Nameless(u) /\ ~Portless(u)
    BY <1>1 DEF Nameless, Portless
  <1>8. n \in Live' => Nameless(n)' /\ Portless(n)'
    BY <1>2, <1>3, <1>6 DEF Nameless, Portless
  <1>9. marks \subseteq marks' /\ port' = port /\ devlist' = devlist /\ addrbm' = addrbm
    BY <1>1 DEF Tried
  <1>10. ListWhole'
    <2>1. ASSUME marks' \cap {"listed", "wild"} = {}, NEW u \in Live' PROVE u \in devlist \/ Nameless(u)'
      BY <1>6, <1>7, <1>8, <1>9, <2>1 DEF Kin, ListWhole
    <2>2. ASSUME marks' \cap {"listed", "wild"} = {}, NEW a \in addrbm
          PROVE a \in {0, 1} \/ \E u \in devlist : dev'[u].addr = a
      BY <1>5, <1>6, <1>9, <2>2 DEF Kin, ListWhole
    <2> QED
      BY <1>9, <2>1, <2>2 DEF ListWhole
  <1>11. /\ irq.hub # Root => irq.hub \in Live /\ dev[irq.hub].data = "hub"
    BY <1>0, <1>1 DEF Serving, PortSteps
  <1>12. Owners'
    <2>1. ASSUME "replug" \notin marks', NEW u \in Live'
          PROVE  /\ Portless(u)' \/ port'[dev'[u].hub][dev'[u].socket] = u
                 /\ dev'[u].hub # Root =>
                       dev'[u].hub \in Live' /\ dev'[dev'[u].hub].data = "hub"
      <3>1. CASE u = n
        BY <1>5, <1>6, <1>8, <1>11, <2>1, <3>1
      <3>2. CASE u # n
        <4>1. u \in Live /\ dev'[u] = dev[u]
          BY <1>5, <1>6, <2>1, <3>2
        <4>2. /\ port[dev[u].hub][dev[u].socket] = u
              /\ dev[u].hub # Root => dev[u].hub \in Live /\ dev[dev[u].hub].data = "hub"
          BY <1>1, <1>7, <1>9, <2>1, <4>1 DEF Kin, Owners, Live
        <4> QED
          BY <1>5, <1>6, <1>9, <4>1, <4>2
      <3> QED
        BY <3>1, <3>2
    <2> QED
      BY <2>1 DEF Owners
  <1> QED
    BY <1>10, <1>12 DEF Kin

\* The device that is set up is freed.
LEMMA FreeingKin ==
    ASSUME Base, Kin, marks \subseteq marks', irq'.at = "again", irq.at \in {"address", "desc"},
           dev' = [dev EXCEPT ![irq.new] = Dead(dev[irq.new].thing)], port' = port,
           "listed" \in marks' \/ (irq.at = "address" /\ UNCHANGED <<devlist, addrbm>>)
    PROVE  Kin'
  <1>0. Types /\ Newest
    BY DEF Base
  <1>1. /\ irq.new \in Ids /\ Live \subseteq Ids /\ irq.new \in Live
        /\ \A v \in Live : dev[v].hub # irq.new
    BY NewestIs DEF NewSteps
  <1>2. /\ Live' = Live \ {irq.new}
        /\ \A v \in Ids : v # irq.new => dev'[v] = dev[v]
    BY <1>0, <1>1, FreeingIs
  <1>3. ListWhole'
    <2>1. CASE "listed" \in marks'
      BY <2>1 DEF ListWhole
    <2>2. CASE irq.at = "address" /\ UNCHANGED <<devlist, addrbm>>
      <3>1. irq.new \notin devlist /\ devlist \subseteq Ids
        BY <1>0, <2>2 DEF Newest, NewSteps, Types, CoreTypes
      <3>2. \A u \in Live' : ~Nameless(u)
        BY <1>2 DEF Nameless
      <3>3. ASSUME marks' \cap {"listed", "wild"} = {}, NEW a \in addrbm
            PROVE a \in {0, 1} \/ \E u \in devlist : dev'[u].addr = a
        BY <1>2, <3>1, <3>3 DEF Kin, ListWhole
      <3>4. ASSUME marks' \cap {"listed", "wild"} = {}, NEW u \in Live' PROVE u \in devlist
        BY <1>2, <3>2, <3>4 DEF Kin, ListWhole
      <3> QED
        BY <2>2, <3>3, <3>4 DEF ListWhole
    <2> QED
      BY <2>1, <2>2
  <1>4. Owners'
    <2>1. ASSUME "replug" \notin marks', NEW u \in Live'
          PROVE  /\ port'[dev'[u].hub][dev'[u].socket] = u
                 /\ dev'[u].hub # Root =>
                       dev'[u].hub \in Live' /\ dev'[dev'[u].hub].data = "hub"
      <3>1. u \in Live /\ u # irq.new /\ dev'[u] = dev[u] /\ ~Portless(u)
        BY <1>1, <1>2 DEF Portless
      <3>2. /\ port[dev[u].hub][dev[u].socket] = u
            /\ dev[u].hub # Root => dev[u].hub \in Live /\ dev[dev[u].hub].data = "hub"
        BY <2>1, <3>1 DEF Kin, Owners
      <3> QED
        BY <1>1, <1>2, <3>1, <3>2
    <2> QED
      BY <2>1 DEF Owners
  <1> QED
    BY <1>3, <1>4 DEF Kin

LEMMA SetAddressKin ==
    ASSUME Base, Names, Kin, SetAddress
    PROVE  Kin'
  <1>0. Types /\ Newest /\ Addresses /\ dev \in [Ids -> DevType]
    BY DEF Base, Names, Types, CoreTypes
  <1>1. /\ Tried /\ SamePort /\ irq'.new = irq.new /\ irq.at = "address" /\ port' = port
        /\ \/ /\ irq'.at = "desc"
              /\ \E a : Lists(a) /\ dev' = [dev EXCEPT ![irq.new].addr = a]
           \/ /\ irq'.at = "again" /\ "listed" \in marks'
              /\ dev' = [dev EXCEPT ![irq.new] = Dead(dev[irq.new].thing)]
           \/ /\ irq'.at = "again"
              /\ dev' = [dev EXCEPT ![irq.new] = Dead(dev[irq.new].thing)]
              /\ UNCHANGED <<devlist, addrbm, nextAddr>>
    BY <1>0, SetAddressIs
  <1>2. marks \subseteq marks'
    BY <1>1 DEF Tried
  <1>3. ASSUME irq'.at = "desc", NEW a, Lists(a), dev' = [dev EXCEPT ![irq.new].addr = a]
        PROVE  Kin'
    <2>1. PICK n \in Ids : n = irq.new /\ n \notin devlist /\ n \in Live
      BY <1>0, <1>1, NewestIs DEF Newest, NewSteps
    <2>2. PICK c, d : c \in DevType /\ c = dev[n] /\ d = [c EXCEPT !.addr = a]
      BY <1>0
    <2>3. d.st = c.st /\ d.addr = a /\ d.hub = c.hub /\ d.socket = c.socket /\ d.data = c.data
      BY <2>2 DEF DevType
    <2>4. dev' = [dev EXCEPT ![n] = d]
      BY <1>3, <2>1, <2>2
    <2>5. dev'[n] = d /\ \A v \in Ids : v # n => dev'[v] = dev[v]
      BY <1>0, <2>4
    <2>6. \A v \in Ids : /\ dev'[v].st = dev[v].st /\ dev'[v].hub = dev[v].hub
                         /\ dev'[v].socket = dev[v].socket /\ dev'[v].data = dev[v].data
      BY <2>2, <2>3, <2>5
    <2>7. Live' = Live /\ Live \subseteq Ids /\ devlist \subseteq Ids
      BY <1>0, <2>6 DEF Live, Types, CoreTypes
    <2>8. \A u \in Live : dev[u].hub \in Ids \cup {Root}
      BY <1>0, <2>7 DEF DevType
    <2>9. Owners'
      <3>1. \A u \in Ids : Portless(u) => Portless(u)'
        BY <1>1, <1>3 DEF Portless
      <3>2. \A u \in Live : dev[u].hub # Root => dev'[dev[u].hub].data = dev[dev[u].hub].data
        BY <2>6, <2>8
      <3> QED
        BY <1>0, <1>1, <1>2, <2>6, <2>7, <3>1, <3>2, OwnersKept DEF Kin
    <2>10. ListWhole'
      <3>1. SUFFICES ASSUME marks' \cap {"listed", "wild"} = {}
                     PROVE  /\ \A u \in Live' : u \in devlist'
                            /\ \A x \in addrbm' : x \in {0, 1} \/ \E u \in devlist' : dev'[u].addr = x
        BY DEF ListWhole
      <3>2. devlist' = devlist \cup {n} /\ addrbm' \subseteq addrbm \cup {a}
        BY <1>3, <2>1 DEF Lists
      <3>3. /\ \A u \in Live : u \in devlist \/ Nameless(u)
            /\ \A x \in addrbm : x \in {0, 1} \/ \E u \in devlist : dev[u].addr = x
        BY <1>2, <3>1 DEF Kin, ListWhole
      <3>4. \A u \in Live' : u \in devlist'
        BY <2>1, <2>7, <3>2, <3>3 DEF Nameless
      <3>5. \A x \in addrbm' : x \in {0, 1} \/ \E u \in devlist' : dev'[u].addr = x
        BY <2>1, <2>3, <2>5, <2>7, <3>2, <3>3
      <3> QED
        BY <3>4, <3>5
    <2> QED
      BY <2>9, <2>10 DEF Kin
  <1> QED
    BY <1>1, <1>2, <1>3, FreeingKin

LEMMA GetDescriptorKin ==
    ASSUME Base, Names, Kin, GetDescriptor
    PROVE  Kin'
  <1>0. Types /\ dev \in [Ids -> DevType]
    BY DEF Base, Types, CoreTypes
  <1>1. /\ Tried /\ SamePort /\ irq'.new = irq.new /\ irq.at = "desc"
        /\ \/ /\ irq'.at = "strings"
              /\ \E t \in Things : dev' = [dev EXCEPT ![irq.new].thing = t]
           \/ /\ irq'.at = "again" /\ "listed" \in marks'
              /\ dev' = [dev EXCEPT ![irq.new] = Dead(dev[irq.new].thing)]
        /\ UNCHANGED <<world, hc, port, devlist, addrbm, nextAddr, sched, halted>>
    BY <1>0, GetDescriptorIs
  <1>2. marks \subseteq marks'
    BY <1>1 DEF Tried
  <1>3. ASSUME irq'.at = "strings", NEW t \in Things, dev' = [dev EXCEPT ![irq.new].thing = t]
        PROVE  Kin'
    <2>1. \A v \in Ids : /\ dev'[v].st = dev[v].st /\ dev'[v].hub = dev[v].hub
                         /\ dev'[v].addr = dev[v].addr
                         /\ dev'[v].socket = dev[v].socket /\ dev'[v].data = dev[v].data
      BY <1>0, <1>3 DEF DevType
    <2>2. Live' = Live /\ Live \subseteq Ids
      BY <2>1 DEF Live
    <2>3. \A u \in Live : dev[u].hub \in Ids \cup {Root}
      BY <1>0, <2>2 DEF DevType
    <2>4. \A u \in Ids : (Portless(u) => Portless(u)') /\ ~Nameless(u)
      BY <1>1, <1>3 DEF Portless, Nameless
    <2>5. \A u \in Live : dev[u].hub # Root => dev'[dev[u].hub].data = dev[dev[u].hub].data
      BY <2>1, <2>3
    <2> QED
      BY <1>0, <1>1, <1>2, <2>1, <2>2, <2>4, <2>5, KinKept
  <1> QED
    BY <1>1, <1>2, <1>3, FreeingKin

LEMMA BindHubKin ==
    ASSUME Base, Names, Kin, BindHub
    PROVE  Kin'
  <1>0. Types /\ dev \in [Ids -> DevType]
    BY DEF Base, Types, CoreTypes
  <1>1. /\ Tried /\ SamePort /\ irq'.new = irq.new /\ irq.at \in {"bind", "config"}
        /\ irq'.at \in {"config", "power", "enable"}
        /\ \E x : dev' = [dev EXCEPT ![irq.new].data = x]
        /\ UNCHANGED <<world, hc, port, devlist, addrbm, nextAddr, sched>>
    BY <1>0, BindHubIs
  <1>2. marks \subseteq marks' /\ irq.at \in NewSteps
    BY <1>1 DEF Tried, NewSteps
  <1>3. PICK n \in Ids : n = irq.new /\ \A v \in Live : dev[v].hub # n
    BY <1>2, NewestIs
  <1>4. /\ \A v \in Ids : v # n => dev'[v] = dev[v]
        /\ \A v \in Ids : /\ dev'[v].st = dev[v].st /\ dev'[v].hub = dev[v].hub
                          /\ dev'[v].addr = dev[v].addr /\ dev'[v].socket = dev[v].socket
    BY <1>0, <1>1, <1>3 DEF DevType
  <1>5. Live' = Live /\ Live \subseteq Ids
    BY <1>4 DEF Live
  <1>6. \A u \in Live : dev[u].hub \in Ids \cup {Root}
    BY <1>0, <1>5 DEF DevType
  <1>7. \A u \in Ids : ~Portless(u) /\ ~Nameless(u)
    BY <1>1 DEF Portless, Nameless
  <1>8. \A u \in Live : dev[u].hub # Root => dev'[dev[u].hub].data = dev[dev[u].hub].data
    BY <1>3, <1>4, <1>6
  <1> QED
    BY <1>0, <1>1, <1>2, <1>4, <1>5, <1>7, <1>8, KinKept

LEMMA RestsKin ==
    ASSUME Base, Kin, Rests
    PROVE  Kin'
  <1>0. Types /\ dev \in [Ids -> DevType]
    BY DEF Base, Types, CoreTypes
  <1>1. UNCHANGED <<dev, port, devlist, addrbm>> /\ marks \subseteq marks'
    BY DEF Rests, core
  <1>2. Live' = Live /\ Live \subseteq Ids
    BY <1>1 DEF Live
  <1>3. irq.at = "hung" => irq'.at = "hung"
    BY DEF Rests
  <1>4. \A u \in Ids : Nameless(u) => Nameless(u)'
    BY DEF Rests, Nameless
  <1>5. irq'.at = "hung" \/ \A u \in Ids : Portless(u) => Portless(u)'
    BY DEF Rests, Portless
  <1> QED
    BY <1>0, <1>1, <1>2, <1>3, <1>4, <1>5, KinKept

\* The port gets the device; another one there was replaced.
LEMMA StringsKin ==
    ASSUME Base, Names, Kin, Strings
    PROVE  Kin'
  <1>0. Types /\ dev \in [Ids -> DevType] /\ Newest /\ IrqTypes
        /\ port \in [Ids \cup {Root} -> [Sockets -> Ids \cup {Null}]]
    BY DEF Base, Types, CoreTypes
  <1>1. /\ Tried /\ SamePort /\ irq'.new = irq.new /\ irq.at = "strings"
        /\ irq'.at \in {"bind", "enable"}
        /\ port' = [port EXCEPT ![irq.hub][irq.port] = irq.new]
        /\ port[irq.hub][irq.port] # Null => "replug" \in marks'
        /\ UNCHANGED <<world, hc, dev, devlist, addrbm, nextAddr, sched>>
    BY <1>0, StringsIs
  <1>2. marks \subseteq marks' /\ irq.at \in NewSteps /\ irq.at \in PortSteps /\ Live' = Live
    BY <1>1 DEF Tried, NewSteps, PortSteps, Live
  <1>3. PICK n \in Ids, h \in Ids \cup {Root}, s \in Sockets :
            /\ n = irq.new /\ h = irq.hub /\ s = irq.port
            /\ dev[n].hub = h /\ dev[n].socket = s
    BY <1>0, <1>2 DEF IrqTypes, IrqType, Newest
  <1>4. /\ port'[h][s] = n
        /\ \A w \in Ids \cup {Root}, r \in Sockets : w # h \/ r # s => port'[w][r] = port[w][r]
    BY <1>0, <1>1, <1>3
  <1>5. ListWhole'
    BY <1>1, <1>2 DEF Kin, ListWhole, Nameless
  <1>6. Tree /\ Live \subseteq Ids
    BY DEF Base, Live
  <1>7. Owners'
    <2>1. ASSUME "replug" \notin marks', NEW u \in Live
          PROVE  /\ port'[dev[u].hub][dev[u].socket] = u
                 /\ dev[u].hub # Root =>
                       dev[u].hub \in Live /\ dev[dev[u].hub].data = "hub"
      <3>1. /\ Portless(u) \/ port[dev[u].hub][dev[u].socket] = u
            /\ dev[u].hub # Root =>
                  dev[u].hub \in Live /\ dev[dev[u].hub].data = "hub"
        BY <1>1, <1>2, <2>1 DEF Kin, Owners
      <3>2. CASE u = n
        BY <1>3, <1>4, <3>1, <3>2
      <3>3. CASE u # n
        <4>1. PICK k \in Ids \cup {Root}, r \in Sockets : k = dev[u].hub /\ r = dev[u].socket
          BY <1>0, <1>6 DEF DevType, Tree
        <4>2. port[k][r] = u
          BY <1>3, <3>1, <3>3, <4>1 DEF Portless
        <4>3. port[h][s] = Null /\ u # Null
          BY <1>1, <1>3, <1>6, <2>1, IdsAre
        <4>4. port'[k][r] = u
          BY <1>4, <4>2, <4>3
        <4> QED
          BY <3>1, <4>1, <4>4
      <3> QED
        BY <3>2, <3>3
    <2> QED
      BY <1>1, <1>2, <2>1 DEF Owners
  <1> QED
    BY <1>5, <1>7 DEF Kin

\* What remains is on hubs that remain.
LEMMA SuspendKin ==
    ASSUME Base, Names, Kin, Suspend
    PROVE  Kin'
  <1>0. /\ Types /\ Serving /\ Endpoints /\ Tree /\ PortsSound /\ IrqTypes
        /\ dev \in [Ids -> DevType] /\ devlist \subseteq Ids
        /\ port \in [Ids \cup {Root} -> [Sockets -> Ids \cup {Null}]]
    BY DEF Base, Types, CoreTypes
  <1>1. /\ Asked /\ irq.at = "suspend" /\ irq'.at = "enable"
        /\ \/ UNCHANGED <<dev, devlist, addrbm, port, sched, td>>
           \/ /\ port[irq.hub][irq.port] # Null
              /\ \E us : Removes(port[irq.hub][irq.port], us)
    BY <1>0, SuspendIs DEF Endpoints
  <1>2. marks \subseteq marks' /\ \A u \in Ids : ~Nameless(u) /\ ~Portless(u)
    BY <1>1 DEF Asked, Tried, Nameless, Portless
  <1>3. CASE UNCHANGED <<dev, devlist, addrbm, port, sched, td>>
    <2>1. Live' = Live
      BY <1>3 DEF Live
    <2> QED
      BY <1>0, <1>1, <1>2, <1>3, <2>1, KinKept
  <1>4. ASSUME NEW us, Removes(port[irq.hub][irq.port], us)
        PROVE  Kin'
    <2>a. PICK w \in Ids \cup {Root}, s \in Sockets : w = irq.hub /\ s = irq.port
      BY <1>0, <1>1 DEF IrqTypes, IrqType, PortSteps, HubSteps
    <2>0. PICK top : top = port[w][s]
      OBVIOUS
    <2>1. /\ us \subseteq Live /\ Live \subseteq Ids /\ top \in us
          /\ \A v \in us : Children(v) \subseteq us
          /\ addrbm' = addrbm \ Released(us) /\ devlist' = devlist \ us
          /\ dev' = [v \in Ids |-> IF v \in us THEN Dead(dev[v].thing) ELSE dev[v]]
          /\ port' = [port EXCEPT ![w][s] = Null]
      BY <1>4, <2>a, <2>0 DEF Removes, Branch, Live
    <2>2. /\ \A v \in Ids \ us : dev'[v] = dev[v]
          /\ \A v \in us : dev'[v] = Dead(dev[v].thing)
      BY <2>1
    <2>3. \A t : Dead(t).st = "freed"
      BY DEF Dead
    <2>4. Live' = Live \ us
      BY <2>1, <2>2, <2>3 DEF Live
    <2>5. ListWhole'
      <3>1. SUFFICES ASSUME marks' \cap {"listed", "wild"} = {}
                     PROVE  /\ \A u \in Live' : u \in devlist'
                            /\ \A x \in addrbm' : x \in {0, 1} \/ \E u \in devlist' : dev'[u].addr = x
        BY DEF ListWhole
      <3>2. /\ \A u \in Live : u \in devlist
            /\ \A x \in addrbm : x \in {0, 1} \/ \E u \in devlist : dev[u].addr = x
        BY <1>2, <2>1, <3>1 DEF Kin, ListWhole
      <3>3. \A u \in Live' : u \in devlist'
        BY <2>1, <2>4, <3>2
      <3>4. ASSUME NEW x \in addrbm', x \notin {0, 1} PROVE \E u \in devlist' : dev'[u].addr = x
        <4>1. PICK u \in devlist : dev[u].addr = x
          BY <2>1, <3>2, <3>4
        <4>2. u \notin us
          BY <2>1, <3>4, <4>1 DEF Released
        <4> QED
          BY <1>0, <2>1, <2>2, <4>1, <4>2
      <3> QED
        BY <3>3, <3>4
    <2>6. Owners'
      <3>1. ASSUME "replug" \notin marks', NEW u \in Live'
            PROVE  /\ port'[dev'[u].hub][dev'[u].socket] = u
                   /\ dev'[u].hub # Root =>
                         dev'[u].hub \in Live' /\ dev'[dev'[u].hub].data = "hub"
        <4>1. u \in Live /\ u \notin us /\ u \in Ids /\ dev'[u] = dev[u]
          BY <2>1, <2>2, <2>4
        <4>2. /\ port[dev[u].hub][dev[u].socket] = u
              /\ dev[u].hub # Root =>
                    dev[u].hub \in Live /\ dev[dev[u].hub].data = "hub"
          BY <1>1, <1>2, <3>1, <4>1 DEF Kin, Owners
        <4>3. PICK k \in Ids \cup {Root}, r \in Sockets : k = dev[u].hub /\ r = dev[u].socket
          BY <1>0, <4>1 DEF DevType, Tree
        <4>4. k # w \/ r # s
          BY <2>0, <2>1, <4>1, <4>2, <4>3
        <4>5. port'[k][r] = port[k][r]
          BY <1>0, <2>0, <2>1, <4>3, <4>4
        <4>6. k # Root => k \notin us
          <5>1. SUFFICES ASSUME k # Root, k \in us PROVE u \in us
            BY <4>1
          <5>2. u \in Children(k)
            BY <4>1, <4>2, <4>3, <5>1, IdsAre DEF Children
          <5> QED
            BY <2>1, <5>1, <5>2
        <4>7. k # Root => k \in Live' /\ dev'[k].data = "hub"
          BY <2>1, <2>2, <2>4, <4>2, <4>3, <4>6
        <4> QED
          BY <4>1, <4>2, <4>3, <4>5, <4>7
      <3> QED
        BY <3>1 DEF Owners
    <2> QED
      BY <2>5, <2>6 DEF Kin
  <1> QED
    BY <1>1, <1>3, <1>4

LEMMA InitKin ==
    ASSUME Init
    PROVE  Kin
  <1>1. PICK f \in Fits : IsHub(f[1]) /\ InitBus(f[1], f[2])
    BY DEF Init
  <1>2. PICK t, s : t = f[1] /\ s = f[2] /\ s \in Sockets
    BY UsbAssumption
  <1>3. /\ dev = [v \in Ids |-> IF v # 1 THEN NoDev ELSE
                     [st |-> "live", thing |-> t, hub |-> Root, socket |-> s,
                      addr |-> NumDevices - 1, data |-> "hub"]]
        /\ port = [p \in Ids \cup {Root} |-> [r \in Sockets |->
                     IF p = Root /\ r = s THEN 1 ELSE Null]]
    <2>1. InitBus(t, s)
      BY <1>1, <1>2
    <2> QED
      BY <2>1 DEF InitBus
  <1>8. devlist = {1} /\ addrbm = {0, 1, NumDevices - 1}
    BY DEF Init
  <1>4. /\ dev[1].st = "live" /\ dev[1].hub = Root /\ dev[1].socket = s
        /\ dev[1].addr = NumDevices - 1
    BY <1>3, IdsAre
  <1>5. \A v \in Ids : v # 1 => dev[v].st = "none"
    BY <1>3 DEF NoDev
  <1>6. Live = {1}
    BY <1>4, <1>5, IdsAre DEF Live
  <1>7. port[Root][s] = 1
    BY <1>2, <1>3
  <1> QED
    BY <1>4, <1>6, <1>7, <1>8 DEF Kin, ListWhole, Owners

LEMMA KinNext ==
    ASSUME Base, Names, Kin, Next
    PROVE  Kin'
  BY NextIs, PlainIs, SchedulingIs, RestsKin, NewDeviceKin, SetAddressKin, GetDescriptorKin,
     StringsKin, BindHubKin, SuspendKin

LEMMA KinIsSound ==
    ASSUME Base, Names, Kin
    PROVE  TypeOK /\ ListSound /\ DevicesOwned
  <1>0. Types /\ ListLive /\ Addresses /\ Bounds /\ WorldTypes /\ CoreTypes /\ IrqTypes
    BY DEF Base, Names, Types
  <1>1. TypeOK
    <2>1. bus \in [Things -> {Off} \cup 0..(NumDevices + MaxDevs)]
      <3>1. \A t \in Things : bus[t] \in Int /\ bus[t] >= -1 /\ bus[t] <= NumDevices + MaxDevs
        BY <1>0 DEF WorldTypes, Bounds, Off
      <3>2. NumDevices + MaxDevs \in Nat
        BY UsbAssumption, UsbBounds
      <3>3. \A t \in Things : bus[t] \in {Off} \cup 0..(NumDevices + MaxDevs)
        BY <3>1, <3>2 DEF Off
      <3> QED
        BY <1>0, <3>3 DEF WorldTypes
    <2>2. /\ irq.cur \in Ids \cup {NoQh} /\ irq.hub \in Ids \cup {Root}
          /\ irq.bm \subseteq Sockets /\ irq.port \in Sockets \cup {Null}
      BY <1>0 DEF IrqTypes, IrqType
    <2>3. \A u \in Ids : dev[u].st \in {"none", "live", "freed"}
      BY <1>0 DEF CoreTypes, DevType
    <2> QED
      BY <1>0, <2>1, <2>2, <2>3 DEF TypeOK, WorldTypes, CoreTypes
  <1>2. ListSound
    <2>1. SUFFICES ASSUME marks \cap {"listed", "wild"} = {}, Settled
                   PROVE  /\ devlist = Live
                          /\ addrbm = {0, 1} \cup {dev[u].addr : u \in Live}
                          /\ \A u, v \in Live : dev[u].addr = dev[v].addr => u = v
      BY DEF ListSound
    <2>2. \A u \in Ids : ~Nameless(u)
      BY <2>1 DEF Settled, Nameless
    <2>3. devlist = Live
      <3>1. devlist \subseteq Live
        BY <1>0, <2>1 DEF ListLive
      <3>2. \A u \in Live : u \in devlist
        BY <2>1, <2>2 DEF Kin, ListWhole, Live
      <3> QED
        BY <3>1, <3>2
    <2>4. \A u \in Live : dev[u].addr \in addrbm
      <3>1. ASSUME NEW u \in Live PROVE dev[u].addr \in addrbm
        <4>1. Taken(dev[u].addr) /\ nextAddr < NumDevices
          BY <1>0, <2>1, <2>2 DEF Addresses, Live
        <4>2. dev[u].addr \in Nat /\ nextAddr \in Nat /\ NumDevices \in Nat
          BY <1>0, UsbAssumption DEF CoreTypes, DevType, Live
        <4> QED
          BY <4>1, <4>2 DEF Taken
      <3> QED
        BY <3>1
    <2>5. \A x \in addrbm : x \in {0, 1} \/ \E u \in Live : dev[u].addr = x
      BY <2>1, <2>3 DEF Kin, ListWhole
    <2>6. {0, 1} \subseteq addrbm
      BY <1>0 DEF Addresses
    <2> QED
      BY <1>0, <2>3, <2>4, <2>5, <2>6 DEF Addresses
  <1>3. DevicesOwned
    <2>1. Settled => irq.at # "hung" /\ \A u \in Ids : ~Portless(u)
      BY DEF Settled, Portless
    <2> QED
      BY <2>1 DEF DevicesOwned, Kin, Owners, Live
  <1> QED
    BY <1>1, <1>2, <1>3

(***************************************************************************)
(* The bus.                                                                *)
(***************************************************************************)

\* From the reset of a port until its device has an address, or a port.
ResetSteps == {"settle", "desc8", "address", "again", "hung"}
SetupSteps == ResetSteps \cup {"desc", "strings"}

\* A thing is plugged in once, and hubs into the root hub.
Plugged ==
    /\ \A r, s \in Sockets : plug[r] = plug[s] /\ plug[r] # Empty => r = s
    /\ \A s \in Sockets : IsHub(plug[s]) => s \in RootSockets

\* What answers is plugged in.
Powered == \A t \in Things : bus[t] # Off => \E s \in Sockets : plug[s] = t

\* Address 0 is answered by what is on the port that was reset, behind a hub
\* that answers.
Fresh ==
    \A t \in Things : bus[t] = 0 =>
        /\ irq.at \in ResetSteps /\ irq.port \in Sockets /\ plug[irq.port] = t
        /\ irq.hub # Root /\ irq.at # "hung" =>
              bus[dev[irq.hub].thing] = dev[irq.hub].addr

\* Other addresses are taken, and are answered by one thing.
Apart ==
    /\ \A t \in Things : bus[t] > 0 => Taken(bus[t])
    /\ \A t, u \in Things : bus[t] = bus[u] /\ bus[t] > 0 => t = u

\* The thing that answers the device's address is the device.
Answers(v, t) == bus[t] = dev[v].addr /\ bus[t] > 0
Answered ==
    \A v \in Live, t \in Things : Answers(v, t) =>
        plug[dev[v].socket] = t /\ dev[v].thing \in {Empty, t}

\* A device is on a socket of its hub, and hubs are on the root hub.
Sited ==
    /\ \A v \in Live : dev[v].socket \in
          IF dev[v].hub = Root THEN RootSockets ELSE HubSockets[dev[dev[v].hub].thing]
    /\ \A w \in Live : IsHub(dev[w].thing) => dev[w].socket \in RootSockets

\* The handler works on ports of the hub.
Reported ==
    /\ \A u \in Ids : td[u] = "done" => intbm[u] \subseteq HubSockets[dev[u].thing]
    /\ irq.at \in PortSteps \cup {"next", "resched"} => irq.bm \subseteq Owned(irq.hub)
    /\ irq.at \in PortSteps => irq.port \in Owned(irq.hub)

\* When a device answers, so does the hub that its port points to, unless
\* that was reset and is about to be replaced.
Resetting(w) ==
    /\ irq.at \in SetupSteps /\ irq.hub = Root /\ irq.port = dev[w].socket
    /\ plug[irq.port] = dev[w].thing
Branches ==
    \A v \in Live, t \in Things :
        Answers(v, t) /\ dev[v].hub \in Live
            /\ port[Root][dev[dev[v].hub].socket] = dev[v].hub =>
            \/ bus[dev[dev[v].hub].thing] = dev[dev[v].hub].addr
            \/ Resetting(dev[v].hub)

\* What is found disconnected does not answer.
Left ==
    irq.hub \notin halted /\ (irq.at = "suspend" \/ (irq.at = "clear" /\ ~irq.conn)) =>
        plug[irq.port] = Empty \/ bus[plug[irq.port]] = Off

Order == Powered /\ Fresh /\ Apart /\ Answered /\ Sited /\ Branches
BusSound == Plugged /\ ("stray" \notin marks => Order /\ Reported /\ Left)

LEMMA SocketsApart ==
    /\ \A h \in Hubs : \A s \in HubSockets[h] : s \notin RootSockets
    /\ \A g, h \in Hubs : \A s \in HubSockets[g] : s \in HubSockets[h] => g = h
  BY UsbAssumption

\* The fields of live devices.
LEMMA LiveIs ==
    ASSUME Base
    PROVE  /\ Live \subseteq Ids /\ Root \notin Ids
           /\ \A v \in Live :
                 /\ dev[v].hub \in Ids \cup {Root} /\ dev[v].socket \in Sockets
                 /\ dev[v].addr \in Nat /\ dev[v].thing \in Things \cup {Empty}
                 /\ dev[v].hub < v
                 /\ dev[v].hub # Root =>
                       IsHub(dev[dev[v].hub].thing) /\ dev[dev[v].hub].thing \in Things
  <1>1. dev \in [Ids -> DevType] /\ Tree
    BY DEF Base, Types, CoreTypes
  <1>2. Live \subseteq Ids
    BY DEF Live
  <1>3. \A v \in Ids : /\ dev[v].hub \in Ids \cup {Root} /\ dev[v].addr \in Nat
                       /\ dev[v].thing \in Things \cup {Empty}
    BY <1>1 DEF DevType
  <1>4. \A t : IsHub(t) => t \in Things
    BY HubsAre DEF IsHub
  <1> QED
    BY <1>1, <1>2, <1>3, <1>4, IdsAre DEF Tree

\* The handler goes on, and devices go at most.
LEMMA RestKept ==
    ASSUME Base, Order, UNCHANGED <<bus, plug>>,
           \A x \in Nat : Taken(x) /\ (\E t \in Things : bus[t] = x) => Taken(x)',
           \A v \in Live' : v \in Live,
           \A v \in Ids : v \in Live' => dev'[v].addr = dev[v].addr /\ dev'[v].hub = dev[v].hub
                                         /\ dev'[v].socket = dev[v].socket,
           \A v \in Ids : dev'[v].thing = dev[v].thing,
           irq.at \in ResetSteps \ {"hung"} => irq.hub \in Live' \cup {Root},
           \/ irq' = irq
           \/ /\ irq.at # "hung"
              /\ irq.at \in ResetSteps =>
                    irq'.at \in ResetSteps /\ irq'.hub = irq.hub /\ irq'.port = irq.port
    PROVE  Powered' /\ Fresh' /\ Apart' /\ Answered' /\ Sited'
  <1>0. Powered /\ Fresh /\ Apart /\ Answered /\ Sited /\ bus \in [Things -> Int]
    BY DEF Order, Base, Types, WorldTypes
  <1>1. Powered'
    BY <1>0 DEF Powered
  <1>2. Apart'
    <2>1. ASSUME NEW t \in Things, bus[t] > 0 PROVE Taken(bus[t])'
      <3>1. PICK x \in Nat : x = bus[t]
        BY <1>0, <2>1
      <3>2. Taken(x)'
        BY <1>0, <2>1, <3>1 DEF Apart
      <3> QED
        BY <3>1, <3>2 DEF Taken
    <2> QED
      BY <1>0, <2>1 DEF Apart
  <1>3. Fresh'
    <2>1. irq.hub \in Live' => dev'[irq.hub].addr = dev[irq.hub].addr /\ dev'[irq.hub].thing = dev[irq.hub].thing
      BY DEF Live
    <2> QED
      BY <1>0, <2>1 DEF Fresh
  <1>4. Answered'
    BY <1>0, LiveIs DEF Answered, Answers
  <1>5. Sited'
    BY <1>0, LiveIs DEF Sited
  <1> QED
    BY <1>1, <1>2, <1>3, <1>4, <1>5

LEMMA OrderKept ==
    ASSUME Base, Order, UNCHANGED <<bus, plug>>,
           \A x \in Nat : Taken(x) /\ (\E t \in Things : bus[t] = x) => Taken(x)',
           \A v \in Live' : v \in Live,
           \A v \in Ids : v \in Live' => dev'[v].addr = dev[v].addr /\ dev'[v].hub = dev[v].hub
                                         /\ dev'[v].socket = dev[v].socket,
           \A v \in Ids : dev'[v].thing = dev[v].thing,
           \A w \in Live', s \in Sockets : port'[Root][s] = w => port[Root][s] = w,
           irq.at \in ResetSteps \ {"hung"} => irq.hub \in Live' \cup {Root},
           \/ irq' = irq
           \/ /\ irq.at # "hung" /\ (irq.at \in ResetSteps => irq'.at \in ResetSteps)
              /\ irq.at \in SetupSteps =>
                    irq'.at \in SetupSteps /\ irq'.hub = irq.hub /\ irq'.port = irq.port
    PROVE  Order'
  <1>0. Branches /\ ResetSteps \subseteq SetupSteps
    BY DEF Order, SetupSteps
  <1>1. Powered' /\ Fresh' /\ Apart' /\ Answered' /\ Sited'
    BY <1>0, RestKept
  <1>2. Branches'
    <2>1. SUFFICES ASSUME NEW v \in Live', NEW t \in Things, NEW w, w = dev'[v].hub,
                          Answers(v, t)', w \in Live', port'[Root][dev'[w].socket] = w
                   PROVE  bus'[dev'[w].thing] = dev'[w].addr \/ Resetting(w)'
      BY DEF Branches, Resetting
    <2>2. /\ v \in Live /\ w \in Live /\ w = dev[v].hub /\ Answers(v, t)
          /\ dev'[w].socket = dev[w].socket /\ dev'[w].addr = dev[w].addr
          /\ dev'[w].thing = dev[w].thing /\ dev[w].socket \in Sockets
      BY <2>1, LiveIs DEF Answers
    <2>3. bus[dev[w].thing] = dev[w].addr \/ Resetting(w)
      BY <1>0, <2>1, <2>2 DEF Branches
    <2>4. Resetting(w) => Resetting(w)'
      BY <2>2 DEF Resetting
    <2> QED
      BY <2>2, <2>3, <2>4
  <1> QED
    BY <1>1, <1>2 DEF Order

LEMMA ServesIs ==
    ASSUME Base, irq.at \in PortSteps
    PROVE  /\ irq.hub \in Live \cup {Root} /\ irq.hub \in Ids \cup {Root}
           /\ irq.port \in Sockets
           /\ irq.hub # Root => /\ IsHub(dev[irq.hub].thing) /\ ~Nameless(irq.hub)
                                /\ Owned(irq.hub) = HubSockets[dev[irq.hub].thing]
           /\ Owned(Root) = RootSockets
  <1>1. Serving /\ Tree /\ Types /\ Newest /\ IrqTypes
    BY DEF Base, Types
  <1>2. /\ irq.hub \in Live \cup {Root} /\ irq.hub \in Ids \cup {Root} /\ irq.port \in Sockets
        /\ irq.hub # Root => dev[irq.hub].data = "hub" /\ IsHub(dev[irq.hub].thing)
    BY <1>1 DEF Serving, Tree, IrqTypes, IrqType
  <1>3. irq.hub # Root => ~Nameless(irq.hub)
    BY <1>1, <1>2, HubsAre DEF Nameless, Newest, NewSteps
  <1> QED
    BY <1>2, <1>3 DEF Owned

LEMMA RestsOrder ==
    ASSUME Base, Order, Rests, UNCHANGED <<bus, plug>>,
           \/ irq' = irq
           \/ /\ irq.at \in ResetSteps => irq'.at \in ResetSteps
              /\ irq.at \in SetupSteps =>
                    irq'.at \in SetupSteps /\ irq'.hub = irq.hub /\ irq'.port = irq.port
    PROVE  Order'
  <1>1. UNCHANGED <<dev, port, addrbm, nextAddr>> /\ Live' = Live
    BY DEF Rests, core, Live
  <1>2. irq.at \in ResetSteps \ {"hung"} => irq.hub \in Live' \cup {Root}
    <2>1. ResetSteps \ {"hung"} \subseteq PortSteps
      BY DEF ResetSteps, PortSteps, HubSteps, NewSteps
    <2> QED
      BY <1>1, <2>1, ServesIs
  <1>3. irq' = irq \/ irq.at # "hung"
    BY DEF Rests
  <1>4. \A x \in Nat : Taken(x) => Taken(x)'
    BY <1>1 DEF Taken
  <1> QED
    BY <1>1, <1>2, <1>3, <1>4, OrderKept

LEMMA ReportedKept ==
    ASSUME Types, Reported, \A v \in Ids : dev'[v].thing = dev[v].thing,
           \A u \in Ids : td'[u] = "done" => td[u] = "done" /\ intbm'[u] = intbm[u],
           \/ irq' = irq
           \/ irq'.at \notin PortSteps \cup {"next", "resched"}
           \/ SamePort /\ irq.at \in PortSteps
           \/ \E h \in Ids \cup {Root} : \E bm \in SUBSET Owned(h) : Starts(h, bm)
    PROVE  Reported'
  <1>1. \A h \in Ids \cup {Root} : Owned(h)' = Owned(h)
    BY DEF Owned
  <1>2. \A u \in Ids : td'[u] = "done" => intbm'[u] \subseteq HubSockets[dev'[u].thing]
    BY DEF Reported
  <1>3. PICK h \in Ids \cup {Root} : h = irq.hub
    BY DEF Types, IrqTypes, IrqType
  <1>4. CASE irq' = irq
    BY <1>1, <1>2, <1>3, <1>4 DEF Reported
  <1>5. CASE irq'.at \notin PortSteps \cup {"next", "resched"}
    BY <1>2, <1>5 DEF Reported
  <1>6. CASE SamePort /\ irq.at \in PortSteps
    BY <1>1, <1>2, <1>3, <1>6 DEF Reported, SamePort
  <1>7. ASSUME NEW k \in Ids \cup {Root}, NEW bm \in SUBSET Owned(k), Starts(k, bm)
        PROVE  Reported'
    <2>1. "resched" \notin PortSteps
      BY DEF PortSteps, HubSteps, NewSteps
    <2>2. irq'.hub = k /\ irq'.bm = bm /\ (irq'.at \in PortSteps => irq'.port \in bm)
      BY <1>7, <2>1 DEF Starts
    <2> QED
      BY <1>1, <1>2, <1>7, <2>2 DEF Reported
  <1> QED
    BY <1>4, <1>5, <1>6, <1>7

\* The steps that leave the bus alone, but for the reports of hubs.
Asks == PortStatus \/ ClearConnection \/ Settle \/ PortEnable \/ Another \/ Hang
Moves == HandleIrq \/ RootIrq \/ NextPort \/ Acknowledge \/ PeriodicComplete \/ Reschedule

LEMMA AsksBus ==
    ASSUME Base, Order, Reported, Left, Asks
    PROVE  Order' /\ Reported' /\ Left' /\ plug' = plug
  <1>0. Types /\ Rests
    BY PlainIs DEF Base, Asks, Plain
  <1>1. dev' = dev
    BY <1>0 DEF Rests, core
  <1>2. CASE PortStatus
    <2>1. /\ Asked /\ irq.at = "status" /\ irq'.at \in {"clear", "enable"}
          /\ irq'.hub \notin halted' /\ ~irq'.conn => plug[irq.port] = Empty
          /\ UNCHANGED <<bus, plug, td, intbm>>
      BY <1>0, <1>2, PortStatusIs DEF world, hc
    <2>2. Order'
      BY <1>0, <2>1, RestsOrder DEF SetupSteps, ResetSteps
    <2>3. Reported'
      BY <1>0, <1>1, <2>1, ReportedKept DEF Asked
    <2>4. Left'
      BY <2>1 DEF Left, Asked, SamePort
    <2> QED
      BY <2>1, <2>2, <2>3, <2>4
  <1>3. CASE ClearConnection
    <2>1. /\ Asked /\ irq.at = "clear"
          /\ irq'.at = IF irq.conn THEN "reset" ELSE "suspend"
          /\ UNCHANGED <<bus, plug, td, intbm>>
      BY <1>0, <1>3, ClearConnectionIs DEF hc
    <2>2. Order'
      BY <1>0, <2>1, RestsOrder DEF SetupSteps, ResetSteps
    <2>3. Reported'
      BY <1>0, <1>1, <2>1, ReportedKept DEF Asked
    <2>4. Left'
      BY <2>1 DEF Left, Asked, SamePort
    <2> QED
      BY <2>1, <2>2, <2>3, <2>4
  <1>4. CASE Settle
    <2>1. /\ Asked /\ irq.at = "settle" /\ irq'.at = "desc8"
          /\ UNCHANGED <<bus, plug, td, intbm>>
      BY <1>0, <1>4, SettleIs DEF world, hc
    <2>2. Order'
      BY <1>0, <2>1, RestsOrder DEF SetupSteps, ResetSteps, Asked, SamePort
    <2>3. Reported'
      BY <1>0, <1>1, <2>1, ReportedKept DEF Asked
    <2>4. Left'
      BY <2>1 DEF Left
    <2> QED
      BY <2>1, <2>2, <2>3, <2>4
  <1>5. CASE PortEnable
    <2>1. /\ SamePort /\ irq.at = "enable" /\ irq'.at = "next"
          /\ UNCHANGED <<bus, plug, td, intbm>>
      BY <1>0, <1>5, PortEnableIs DEF hc
    <2>2. Order'
      BY <1>0, <2>1, RestsOrder DEF SetupSteps, ResetSteps
    <2>3. Reported'
      BY <1>0, <1>1, <2>1, ReportedKept DEF PortSteps
    <2>4. Left'
      BY <2>1 DEF Left
    <2> QED
      BY <2>1, <2>2, <2>3, <2>4
  <1>6. CASE Hang
    <2>1. /\ SamePort /\ irq'.at = "hung"
          /\ UNCHANGED <<bus, plug, td, intbm>>
      BY <1>0, <1>6, HangIs DEF world, hc
    <2>2. Order'
      BY <1>0, <2>1, RestsOrder DEF SetupSteps, ResetSteps, SamePort
    <2>3. irq'.at \notin PortSteps \cup {"next", "resched"}
      BY <2>1 DEF PortSteps, HubSteps, NewSteps
    <2>4. Reported'
      BY <1>0, <1>1, <2>1, <2>3, ReportedKept
    <2>5. Left'
      BY <2>1 DEF Left
    <2> QED
      BY <2>1, <2>2, <2>4, <2>5
  <1>7. CASE Another
    <2>1. halted \subseteq halted' /\ UNCHANGED <<bus, plug, td, intbm, irq>>
      BY <1>0, <1>7, AnotherIs DEF world, hc
    <2>2. Order'
      BY <1>0, <2>1, RestsOrder
    <2>3. Reported'
      BY <1>0, <1>1, <2>1, ReportedKept
    <2>4. Left'
      BY <2>1 DEF Left
    <2> QED
      BY <2>1, <2>2, <2>3, <2>4
  <1> QED
    BY <1>2, <1>3, <1>4, <1>5, <1>6, <1>7 DEF Asks

LEMMA MovesBus ==
    ASSUME Base, Order, Reported, Left, Moves
    PROVE  Order' /\ Reported' /\ Left' /\ plug' = plug
  <1>0. Types /\ Serving /\ Rests
    BY PlainIs DEF Base, Moves, Plain
  <1>1. dev' = dev /\ td \in [Ids -> {"none", "active", "done"}]
        /\ intbm \in [Ids -> SUBSET Sockets]
    BY <1>0 DEF Rests, core, Types, CoreTypes, WorldTypes
  <1>2. PICK h \in Ids \cup {Root} : h = irq.hub
    BY <1>0 DEF Types, IrqTypes, IrqType
  <1>3. CASE HandleIrq
    <2>1. irq.at = "idle" /\ irq'.at \in {"walk", "root"} /\ UNCHANGED <<bus, plug, td, intbm>>
      BY <1>0, <1>3, HandleIrqIs DEF world, hc
    <2>2. Order'
      BY <1>0, <2>1, RestsOrder DEF SetupSteps, ResetSteps
    <2>3. Reported'
      BY <1>0, <1>1, <2>1, ReportedKept DEF PortSteps, HubSteps, NewSteps
    <2> QED
      BY <2>1, <2>2, <2>3 DEF Left
  <1>4. CASE RootIrq
    <2>1. /\ irq.at = "root" /\ UNCHANGED <<bus, plug, td, intbm>>
          /\ irq'.at \in {"resched", "status", "ack"}
          /\ \/ \E bm \in SUBSET Owned(Root) : Starts(Root, bm)
             \/ irq'.at = "ack"
      BY <1>0, <1>4, RootIrqIs DEF world, hc, Starts, Owned
    <2>2. Order'
      BY <1>0, <2>1, RestsOrder DEF SetupSteps, ResetSteps
    <2>3. Reported'
      BY <1>0, <1>1, <2>1, ReportedKept DEF PortSteps, HubSteps, NewSteps
    <2> QED
      BY <2>1, <2>2, <2>3 DEF Left
  <1>5. CASE NextPort
    <2>1. /\ irq.at = "next" /\ UNCHANGED <<bus, plug, td, intbm>>
          /\ irq'.at \in {"resched", "status"} /\ Starts(h, irq.bm \ {irq.port})
      BY <1>0, <1>2, <1>5, NextPortIs DEF world, hc, Starts
    <2>2. Order'
      BY <1>0, <2>1, RestsOrder DEF SetupSteps, ResetSteps
    <2>3. irq.bm \ {irq.port} \in SUBSET Owned(h)
      BY <1>2, <2>1 DEF Reported
    <2>4. Reported'
      BY <1>0, <1>1, <1>2, <2>1, <2>3, ReportedKept
    <2> QED
      BY <2>1, <2>2, <2>4 DEF Left
  <1>6. CASE Acknowledge
    <2>1. irq.at = "ack" /\ irq'.at = "idle" /\ UNCHANGED <<bus, plug, td, intbm>>
      BY <1>0, <1>6, AcknowledgeIs DEF world, hc
    <2>2. Order'
      BY <1>0, <2>1, RestsOrder DEF SetupSteps, ResetSteps
    <2>3. Reported'
      BY <1>0, <1>1, <2>1, ReportedKept DEF PortSteps, HubSteps, NewSteps
    <2> QED
      BY <2>1, <2>2, <2>3 DEF Left
  <1>7. CASE PeriodicComplete
    <2>1. /\ irq.at = "walk" /\ UNCHANGED <<bus, plug>>
          /\ \/ irq'.at \in {"root", "ack", "walk"} /\ UNCHANGED <<td, intbm>>
             \/ /\ irq.cur \in Ids /\ td[irq.cur] = "done"
                /\ Starts(irq.cur, intbm[irq.cur])
                /\ td' = [td EXCEPT ![irq.cur] = "none"]
                /\ intbm' = [intbm EXCEPT ![irq.cur] = {}]
          /\ irq'.at \in {"root", "ack", "walk", "resched", "status"}
      BY <1>0, <1>7, PeriodicCompleteIs DEF world, Starts
    <2>2. Order'
      BY <1>0, <2>1, RestsOrder DEF SetupSteps, ResetSteps
    <2>3. CASE irq'.at \in {"root", "ack", "walk"} /\ UNCHANGED <<td, intbm>>
      <3>1. Reported'
        BY <1>0, <1>1, <2>1, <2>3, ReportedKept DEF PortSteps, HubSteps, NewSteps
      <3> QED
        BY <2>1, <2>2, <2>3, <3>1 DEF Left
    <2>4. CASE /\ irq.cur \in Ids /\ td[irq.cur] = "done"
               /\ Starts(irq.cur, intbm[irq.cur])
               /\ td' = [td EXCEPT ![irq.cur] = "none"]
               /\ intbm' = [intbm EXCEPT ![irq.cur] = {}]
      <3>1. PICK k, bm : k \in Ids /\ k = irq.cur /\ bm = intbm[irq.cur]
        BY <2>4
      <3>2. bm \in SUBSET Owned(k) /\ Starts(k, bm)
        BY <2>4, <3>1, IdsAre DEF Reported, Owned
      <3>3. \A u \in Ids : td'[u] = "done" => td[u] = "done" /\ intbm'[u] = intbm[u]
        BY <1>1, <2>4
      <3>4. Reported'
        BY <1>0, <1>1, <3>1, <3>2, <3>3, ReportedKept
      <3> QED
        BY <2>1, <2>2, <3>4 DEF Left
    <2> QED
      BY <2>1, <2>3, <2>4
  <1>8. CASE Reschedule
    <2>1. /\ irq.at = "resched" /\ UNCHANGED <<bus, plug, intbm>>
          /\ irq'.at \in {"ack", "walk"}
          /\ \/ UNCHANGED td
             \/ irq.hub \in Ids /\ td' = [td EXCEPT ![irq.hub] = "active"]
      BY <1>0, <1>8, RescheduleIs DEF world
    <2>2. Order'
      BY <1>0, <2>1, RestsOrder DEF SetupSteps, ResetSteps
    <2>3. \A u \in Ids : td'[u] = "done" => td[u] = "done" /\ intbm'[u] = intbm[u]
      BY <1>1, <2>1
    <2>4. Reported'
      BY <1>0, <1>1, <2>1, <2>3, ReportedKept DEF PortSteps, HubSteps, NewSteps
    <2> QED
      BY <2>1, <2>2, <2>4 DEF Left
  <1> QED
    BY <1>3, <1>4, <1>5, <1>6, <1>7, <1>8 DEF Moves

\* A report is about the ports of the device.
LEMMA ReportsBus ==
    ASSUME Base, Names, Order, Reported, Left, NEW u \in Ids, HubReports(u)
    PROVE  Order' /\ Reported' /\ Left' /\ plug' = plug
  <1>0. Types /\ Rests /\ Newest /\ Endpoints /\ Addresses /\ Answered
    BY PlainIs DEF Base, Names, Plain, Order
  <1>1. /\ td[u] = "active" /\ IsHub(dev[u].thing) /\ td' = [td EXCEPT ![u] = "done"]
        /\ \E t \in Things, bm \in SUBSET Sockets :
              /\ bus[t] = dev[u].addr /\ bm \subseteq Below(t)
              /\ intbm' = [intbm EXCEPT ![u] = bm]
        /\ UNCHANGED <<bus, plug, irq, dev, halted>>
    BY <1>0, HubReportsIs DEF world, core
  <1>2. PICK t, bm : /\ t \in Things /\ bus[t] = dev[u].addr /\ bm \subseteq Below(t)
                     /\ intbm' = [intbm EXCEPT ![u] = bm]
    BY <1>1
  <1>3. Order'
    BY <1>0, <1>1, RestsOrder
  <1>4. u \in Live /\ dev[u].thing # Empty /\ dev[u].addr \in Nat
    BY <1>0, <1>1, LiveIs DEF Endpoints
  <1>5. ~Nameless(u)
    BY <1>0, <1>4 DEF Nameless, Newest, NewSteps
  <1>6. dev[u].addr >= 2
    BY <1>0, <1>4, <1>5 DEF Addresses
  <1>7. Answers(u, t)
    BY <1>2, <1>4, <1>6 DEF Answers
  <1>8. dev[u].thing = t
    BY <1>0, <1>2, <1>4, <1>7 DEF Answered
  <1>9. bm \subseteq HubSockets[dev[u].thing]
    BY <1>1, <1>2, <1>8 DEF Below
  <1>10. td \in [Ids -> {"none", "active", "done"}] /\ intbm \in [Ids -> SUBSET Sockets]
    BY <1>0 DEF Types, CoreTypes, WorldTypes
  <1>11. Reported'
    <2>1. ASSUME NEW v \in Ids, td'[v] = "done" PROVE intbm'[v] \subseteq HubSockets[dev[v].thing]
      <3>1. CASE v = u
        BY <1>2, <1>9, <1>10, <3>1
      <3>2. CASE v # u
        BY <1>1, <1>2, <1>10, <2>1, <3>2 DEF Reported
      <3> QED
        BY <3>1, <3>2
    <2> QED
      BY <1>1, <2>1 DEF Reported, Owned
  <1>12. Left'
    BY <1>1 DEF Left
  <1> QED
    BY <1>1, <1>3, <1>11, <1>12

LEMMA SchedulingBus ==
    ASSUME Base, Order, Reported, Left, PowerPorts \/ (\E u \in Ids : BindDriver(u))
    PROVE  Order' /\ Reported' /\ Left' /\ plug' = plug
  <1>0. Types /\ Rests /\ Newest /\ IrqTypes
    BY SchedulingIs DEF Base, Types
  <1>1. dev' = dev /\ td \in [Ids -> {"none", "active", "done"}]
    BY <1>0 DEF Rests, core, Types, CoreTypes
  <1>2. CASE PowerPorts
    <2>1. /\ SamePort /\ irq.at = "power" /\ irq'.at = "enable"
          /\ td' = [td EXCEPT ![irq.new] = "active"] /\ UNCHANGED <<plug, bus, intbm>>
      BY <1>0, <1>2, PowerPortsIs
    <2>2. \A v \in Ids : td'[v] = "done" => td[v] = "done" /\ intbm'[v] = intbm[v]
      BY <1>1, <2>1
    <2>3. Order'
      BY <1>0, <2>1, RestsOrder DEF SetupSteps, ResetSteps
    <2>4. irq.at \in PortSteps
      BY <2>1 DEF PortSteps, NewSteps
    <2>5. Reported'
      BY <1>0, <1>1, <2>1, <2>2, <2>4, ReportedKept
    <2> QED
      BY <2>1, <2>3, <2>5 DEF Left
  <1>3. ASSUME NEW u \in Ids, BindDriver(u) PROVE Order' /\ Reported' /\ Left' /\ plug' = plug
    <2>1. td' = [td EXCEPT ![u] = "active"] /\ UNCHANGED <<plug, bus, intbm, irq, halted>>
      BY <1>0, <1>3, BindDriverIs DEF world
    <2>2. \A v \in Ids : td'[v] = "done" => td[v] = "done" /\ intbm'[v] = intbm[v]
      BY <1>1, <2>1
    <2>3. Order'
      BY <1>0, <2>1, RestsOrder
    <2>4. Reported'
      BY <1>0, <1>1, <2>1, <2>2, ReportedKept
    <2> QED
      BY <2>1, <2>3, <2>4 DEF Left
  <1> QED
    BY <1>2, <1>3

LEMMA PlugInBus ==
    ASSUME Base, BusSound, NEW f \in Fits, PlugIn(f[1], f[2])
    PROVE  BusSound'
  <1>0. Types /\ Plugged
    BY DEF Base, BusSound
  <1>1. PICK t, s : t = f[1] /\ s = f[2]
    OBVIOUS
  <1>2. /\ t \in Things /\ s \in Sockets /\ plug[s] = Empty
        /\ \A r \in Sockets : plug[r] # t
        /\ plug' = [plug EXCEPT ![s] = t]
        /\ UNCHANGED <<bus, td, intbm, irq, dev, port, addrbm, nextAddr, halted, marks>>
    BY <1>0, <1>1, PlugInIs DEF core
  <1>3. plug \in [Sockets -> Things \cup {Empty}]
    BY <1>0 DEF Types, WorldTypes
  <1>4. plug'[s] = t /\ \A r \in Sockets : r # s => plug'[r] = plug[r]
    BY <1>2, <1>3
  <1>5. Plugged'
    <2>1. IsHub(t) => s \in RootSockets
      BY <1>1, UsbAssumption DEF IsHub
    <2>2. \A r \in Sockets : IsHub(plug'[r]) => r \in RootSockets
      BY <1>0, <1>4, <2>1 DEF Plugged
    <2>3. \A q, r \in Sockets : plug'[q] = plug'[r] /\ plug'[q] # Empty => q = r
      BY <1>0, <1>2, <1>4 DEF Plugged
    <2> QED
      BY <2>2, <2>3 DEF Plugged
  <1>6. SUFFICES ASSUME "stray" \notin marks' PROVE Order' /\ Reported' /\ Left'
    BY <1>5 DEF BusSound
  <1>7. Powered /\ Fresh /\ Apart /\ Answered /\ Sited /\ Branches /\ Reported /\ Left
    BY <1>2, <1>6 DEF BusSound, Order
  <1>8. Live' = Live
    BY <1>2 DEF Live
  <1>9. \A r \in Sockets : plug[r] # Empty => plug'[r] = plug[r]
    BY <1>2, <1>4
  <1>10. bus[t] = Off
    BY <1>2, <1>7 DEF Powered
  <1>11. Powered'
    <2>1. ASSUME NEW x \in Things, bus[x] # Off PROVE \E r \in Sockets : plug'[r] = x
      <3>1. PICK r \in Sockets : plug[r] = x
        BY <1>7, <2>1 DEF Powered
      <3> QED
        BY <1>9, <3>1, HubsAre
    <2> QED
      BY <1>2, <2>1 DEF Powered
  <1>12. Fresh'
    BY <1>2, <1>7, <1>9, HubsAre DEF Fresh
  <1>13. Apart' /\ Sited'
    BY <1>2, <1>7, <1>8 DEF Apart, Sited, Taken
  <1>14. Answered'
    <2>1. ASSUME NEW v \in Live, NEW x \in Things, Answers(v, x)
          PROVE  plug'[dev[v].socket] = x /\ dev[v].thing \in {Empty, x}
      BY <1>7, <1>9, <2>1, LiveIs, HubsAre DEF Answered
    <2> QED
      BY <1>2, <1>8, <2>1 DEF Answered, Answers
  <1>15. Branches'
    <2>1. ASSUME NEW w \in Live, IsHub(dev[w].thing), Resetting(w) PROVE Resetting(w)'
      BY <1>2, <1>9, <2>1, LiveIs, HubsAre DEF Resetting
    <2>2. SUFFICES ASSUME NEW v \in Live, NEW x \in Things, NEW w \in Live, w = dev[v].hub,
                          Answers(v, x), port[Root][dev[w].socket] = w
                   PROVE  bus[dev[w].thing] = dev[w].addr \/ Resetting(w)'
      BY <1>2, <1>8 DEF Branches, Answers, Resetting
    <2>3. bus[dev[w].thing] = dev[w].addr \/ Resetting(w)
      BY <1>7, <2>2 DEF Branches
    <2>4. IsHub(dev[w].thing)
      BY <2>2, LiveIs
    <2> QED
      BY <2>1, <2>2, <2>3, <2>4
  <1>16. Reported'
    BY <1>2, <1>7 DEF Reported, Owned
  <1>17. Left'
    <2>1. irq.at \in {"suspend", "clear"} => irq.port \in Sockets
      BY ServesIs DEF PortSteps, HubSteps
    <2> QED
      BY <1>2, <1>4, <1>7, <1>10, <2>1 DEF Left
  <1> QED
    BY <1>11, <1>12, <1>13, <1>14, <1>15, <1>16, <1>17 DEF Order

\* What hangs on a hub falls silent with it.
LEMMA UnplugBus ==
    ASSUME Base, BusSound, NEW s \in Sockets, Unplug(s)
    PROVE  BusSound'
  <1>0. Types /\ Plugged /\ plug \in [Sockets -> Things \cup {Empty}] /\ bus \in [Things -> Int]
    BY DEF Base, BusSound, Types, WorldTypes
  <1>1. PICK t \in Things : t = plug[s]
    BY <1>0, UnplugIs
  <1>2. PICK lost : lost = {x \in Things : x = t \/ \E r \in Below(t) : x = plug[r]}
    OBVIOUS
  <1>3. /\ plug' = [plug EXCEPT ![s] = Empty]
        /\ bus' = [u \in Things |->
               IF u = plug[s] \/ \E r \in Below(plug[s]) : u = plug[r] THEN Off ELSE bus[u]]
        /\ UNCHANGED <<td, intbm, irq, dev, port, addrbm, nextAddr, halted, marks>>
    BY <1>0, UnplugIs DEF core
  <1>4. /\ \A u \in Things : u \in lost => bus'[u] = Off
        /\ \A u \in Things : u \notin lost => bus'[u] = bus[u]
        /\ t \in lost /\ Off < 0 /\ Off \in Int
    BY <1>1, <1>2, <1>3 DEF Off
  <1>5. plug'[s] = Empty /\ \A r \in Sockets : r # s => plug'[r] = plug[r]
    BY <1>0, <1>3
  <1>6. Plugged'
    BY <1>0, <1>5, HubsAre DEF Plugged
  <1>7. SUFFICES ASSUME "stray" \notin marks' PROVE Order' /\ Reported' /\ Left'
    BY <1>6 DEF BusSound
  <1>8. Powered /\ Fresh /\ Apart /\ Answered /\ Sited /\ Branches /\ Reported /\ Left
    BY <1>3, <1>7 DEF BusSound, Order
  <1>9. Live' = Live
    BY <1>3 DEF Live
  <1>10. ASSUME NEW r \in Sockets, NEW x \in Things, plug[r] = x, x \notin lost PROVE plug'[r] = x
    BY <1>1, <1>4, <1>5, <1>10
  <1>11. ASSUME NEW y, IsHub(y), y \in lost PROVE y = t
    <2>1. SUFFICES ASSUME NEW r \in Below(t), y = plug[r] PROVE FALSE
      BY <1>2, <1>11
    <2>2. r \in Sockets /\ r \in RootSockets
      BY <1>0, <1>11, <2>1, SocketsAre DEF Plugged
    <2> QED
      BY <2>1, <2>2, SocketsApart DEF Below, IsHub
  <1>12. ASSUME NEW r \in Sockets, NEW x \in Things, plug[r] = x, x \notin lost, NEW y, IsHub(y),
                r \in HubSockets[y]
         PROVE  y \notin lost
    <2>1. SUFFICES ASSUME y = t PROVE FALSE
      BY <1>11, <1>12
    <2>2. r \in Below(t)
      BY <1>12, <2>1 DEF Below
    <2> QED
      BY <1>2, <1>12, <2>2
  <1>13. \A y : IsHub(y) => y \in Things
    BY HubsAre DEF IsHub
  <1>14. Powered'
    <2>1. ASSUME NEW x \in Things, bus'[x] # Off PROVE \E r \in Sockets : plug'[r] = x
      <3>1. x \notin lost /\ bus[x] # Off
        BY <1>4, <2>1
      <3>2. PICK r \in Sockets : plug[r] = x
        BY <1>8, <3>1 DEF Powered
      <3> QED
        BY <1>10, <3>1, <3>2
    <2> QED
      BY <2>1 DEF Powered
  <1>15. Fresh'
    <2>1. ASSUME NEW x \in Things, bus'[x] = 0
          PROVE  /\ irq.at \in ResetSteps /\ irq.port \in Sockets /\ plug'[irq.port] = x
                 /\ irq.hub # Root /\ irq.at # "hung" =>
                       bus'[dev[irq.hub].thing] = dev[irq.hub].addr
      <3>1. x \notin lost /\ bus[x] = 0
        BY <1>4, <2>1 DEF Off
      <3>2. /\ irq.at \in ResetSteps /\ irq.port \in Sockets /\ plug[irq.port] = x
            /\ irq.hub # Root /\ irq.at # "hung" =>
                  bus[dev[irq.hub].thing] = dev[irq.hub].addr
        BY <1>8, <3>1 DEF Fresh
      <3>3. plug'[irq.port] = x
        BY <1>10, <3>1, <3>2
      <3>4. ASSUME irq.hub # Root, irq.at # "hung"
            PROVE  bus'[dev[irq.hub].thing] = dev[irq.hub].addr
        <4>1. irq.at \in PortSteps
          BY <3>2, <3>4 DEF ResetSteps, PortSteps, HubSteps, NewSteps
        <4>2. PICK y : y = dev[irq.hub].thing
          OBVIOUS
        <4>3. IsHub(y) /\ irq.port \in HubSockets[y]
          BY <1>8, <3>4, <4>1, <4>2, ServesIs DEF Reported
        <4>4. y \notin lost
          BY <1>12, <3>1, <3>2, <4>3
        <4> QED
          BY <1>4, <1>13, <3>2, <3>4, <4>2, <4>3, <4>4
      <3> QED
        BY <3>2, <3>3, <3>4
    <2> QED
      BY <1>3, <2>1 DEF Fresh
  <1>16. Apart'
    <2>1. \A x \in Things : bus'[x] > 0 => bus'[x] = bus[x]
      BY <1>4 DEF Off
    <2>2. \A x \in Things : bus'[x] > 0 => Taken(bus[x])
      BY <1>8, <2>1 DEF Apart
    <2>3. \A x, y \in Things : bus'[x] = bus'[y] /\ bus'[x] > 0 => x = y
      BY <1>8, <2>1 DEF Apart
    <2> QED
      BY <1>3, <2>1, <2>2, <2>3 DEF Apart, Taken
  <1>17. Sited'
    BY <1>3, <1>8, <1>9 DEF Sited
  <1>18. ASSUME NEW v \in Live, NEW x \in Things, Answers(v, x)'
         PROVE  x \notin lost /\ Answers(v, x) /\ plug[dev[v].socket] = x
    <2>1. bus'[x] > 0 /\ bus'[x] = dev[v].addr
      BY <1>3, <1>18 DEF Answers
    <2>2. x \notin lost
      BY <1>4, <2>1 DEF Off
    <2>3. Answers(v, x)
      BY <1>4, <2>1, <2>2 DEF Answers
    <2> QED
      BY <1>8, <2>2, <2>3 DEF Answered
  <1>19. Answered'
    <2>1. ASSUME NEW v \in Live, NEW x \in Things, Answers(v, x)'
          PROVE  plug'[dev[v].socket] = x /\ dev[v].thing \in {Empty, x}
      BY <1>8, <1>10, <1>18, <2>1, LiveIs DEF Answered
    <2> QED
      BY <1>3, <1>9, <2>1 DEF Answered
  <1>20. Branches'
    <2>1. SUFFICES ASSUME NEW v \in Live, NEW x \in Things, NEW w \in Live, w = dev[v].hub,
                          Answers(v, x)', port[Root][dev[w].socket] = w
                   PROVE  bus'[dev[w].thing] = dev[w].addr \/ Resetting(w)'
      BY <1>3, <1>9 DEF Branches, Resetting
    <2>2. x \notin lost /\ Answers(v, x) /\ plug[dev[v].socket] = x /\ dev[v].socket \in Sockets
      BY <1>18, <2>1, LiveIs
    <2>3. PICK y : y = dev[w].thing
      OBVIOUS
    <2>4. IsHub(y) /\ dev[v].socket \in HubSockets[y]
      BY <1>8, <2>1, <2>3, LiveIs DEF Sited
    <2>5. y \notin lost /\ y \in Things
      BY <1>12, <1>13, <2>2, <2>4
    <2>6. bus[y] = dev[w].addr \/ Resetting(w)
      BY <1>8, <2>1, <2>2, <2>3 DEF Branches
    <2>7. Resetting(w) => Resetting(w)'
      BY <1>3, <1>10, <2>1, <2>3, <2>5, LiveIs DEF Resetting
    <2> QED
      BY <1>4, <2>3, <2>5, <2>6, <2>7
  <1>21. Reported'
    BY <1>3, <1>8 DEF Reported, Owned
  <1>22. Left'
    <2>1. irq.at \in {"suspend", "clear"} => irq.port \in Sockets
      BY ServesIs DEF PortSteps, HubSteps
    <2>2. ASSUME NEW r \in Sockets, plug[r] = Empty \/ bus[plug[r]] = Off
          PROVE  plug'[r] = Empty \/ bus'[plug'[r]] = Off
      BY <1>0, <1>4, <1>5, <2>2
    <2> QED
      BY <1>3, <1>8, <2>1, <2>2 DEF Left
  <1> QED
    BY <1>14, <1>15, <1>16, <1>17, <1>19, <1>20, <1>21, <1>22 DEF Order

\* What is reset answers 0, and no other does.
LEMMA ResetBus ==
    ASSUME Base, Names, BusSound, Reset
    PROVE  BusSound'
  <1>0. Types /\ Plugged /\ plug \in [Sockets -> Things \cup {Empty}] /\ bus \in [Things -> Int]
        /\ Rests /\ Addresses
    BY PlainIs DEF Base, Names, BusSound, Types, WorldTypes, Plain
  <1>1. /\ Asked
        /\ \/ irq.at = "reset" /\ irq'.at = "settle"
           \/ irq.at = "again" /\ irq'.at = "enable" /\ (plug[irq.port] # Empty => "stray" \in marks')
        /\ \E ok \in BOOLEAN :
              /\ bus' = [t \in Things |-> IF ok /\ t = plug[irq.port] THEN 0 ELSE bus[t]]
              /\ ok /\ irq.hub # Root => Answering(dev[irq.hub].addr) # {}
        /\ UNCHANGED <<plug, hc, core>>
    BY <1>0, ResetIs
  <1>2. /\ UNCHANGED <<plug, td, intbm, dev, port, addrbm, nextAddr>> /\ SamePort
        /\ marks \subseteq marks' /\ Live' = Live /\ irq.at \in PortSteps
    BY <1>1 DEF hc, core, Asked, Tried, Live
  <1>3. Plugged'
    BY <1>0, <1>2 DEF Plugged
  <1>4. SUFFICES ASSUME "stray" \notin marks' PROVE Order' /\ Reported' /\ Left'
    BY <1>3 DEF BusSound
  <1>5. Order /\ Powered /\ Fresh /\ Apart /\ Answered /\ Sited /\ Branches /\ Reported /\ Left
    BY <1>2, <1>4 DEF BusSound, Order
  <1>6. Reported'
    BY <1>0, <1>2, <1>5, ReportedKept
  <1>7. Left'
    BY <1>1 DEF Left
  <1>8. PICK p \in Sockets : p = irq.port
    BY <1>2, ServesIs
  <1>9. PICK ok \in BOOLEAN :
              /\ bus' = [t \in Things |-> IF ok /\ t = plug[p] THEN 0 ELSE bus[t]]
              /\ ok /\ irq.hub # Root => Answering(dev[irq.hub].addr) # {}
    BY <1>1, <1>8
  <1>10. CASE irq.at = "again"
    <2>1. plug[p] = Empty /\ irq'.at = "enable"
      BY <1>1, <1>4, <1>8, <1>10
    <2>2. bus' = bus
      BY <1>0, <1>9, <2>1, HubsAre
    <2>3. \A t \in Things : bus[t] # 0
      BY <1>5, <1>8, <2>1, HubsAre DEF Fresh
    <2>4. Powered' /\ Apart' /\ Answered' /\ Sited'
      BY <1>2, <1>5, <2>2 DEF Powered, Apart, Taken, Answered, Answers, Sited
    <2>5. Fresh'
      BY <2>2, <2>3 DEF Fresh
    <2>6. \A w \in Live : IsHub(dev[w].thing) => ~Resetting(w)
      BY <1>8, <2>1, HubsAre DEF Resetting
    <2>7. Branches'
      <3>1. SUFFICES ASSUME NEW v \in Live, NEW x \in Things, NEW w \in Live, w = dev[v].hub,
                            Answers(v, x)', port[Root][dev[w].socket] = w
                     PROVE  bus'[dev[w].thing] = dev[w].addr
        BY <1>2 DEF Branches, Resetting
      <3>2. IsHub(dev[w].thing) /\ Answers(v, x)
        BY <1>2, <2>2, <3>1, LiveIs DEF Answers
      <3> QED
        BY <1>5, <2>2, <2>6, <3>1, <3>2 DEF Branches
    <2> QED
      BY <1>6, <1>7, <2>4, <2>5, <2>7 DEF Order
  <1>11. CASE irq.at = "reset"
    <2>1. irq'.at = "settle" /\ irq'.hub = irq.hub /\ irq'.port = p
      BY <1>1, <1>2, <1>8, <1>11 DEF SamePort
    <2>2. \A t \in Things : bus[t] # 0
      BY <1>5, <1>11 DEF Fresh, ResetSteps
    <2>3. /\ \A t \in Things : bus'[t] = bus[t] \/ (bus'[t] = 0 /\ ok /\ t = plug[p])
          /\ \A t \in Things : t # plug[p] => bus'[t] = bus[t]
      BY <1>9
    <2>4. \A t \in Things : bus'[t] > 0 => bus'[t] = bus[t]
      BY <2>3
    <2>5. Powered'
      <3>1. ASSUME NEW t \in Things, bus'[t] # Off PROVE \E r \in Sockets : plug[r] = t
        BY <1>5, <1>8, <2>3, <3>1 DEF Powered
      <3> QED
        BY <1>2, <3>1 DEF Powered
    <2>6. Apart'
      <3>1. \A t \in Things : bus'[t] > 0 => Taken(bus[t])
        BY <1>5, <2>4 DEF Apart
      <3>2. \A t, u \in Things : bus'[t] = bus'[u] /\ bus'[t] > 0 => t = u
        BY <1>5, <2>4 DEF Apart
      <3> QED
        BY <1>2, <2>4, <3>1, <3>2 DEF Apart, Taken
    <2>7. Sited'
      BY <1>2, <1>5 DEF Sited
    <2>8. \A v \in Live, t \in Things : Answers(v, t)' => Answers(v, t)
      BY <1>2, <2>4 DEF Answers
    <2>9. Answered'
      BY <1>2, <1>5, <2>8 DEF Answered
    <2>10. Fresh'
      <3>1. ASSUME NEW t \in Things, bus'[t] = 0
            PROVE  /\ plug[p] = t
                   /\ irq.hub # Root => bus'[dev[irq.hub].thing] = dev[irq.hub].addr
        <4>1. ok /\ t = plug[p]
          BY <2>2, <2>3, <3>1
        <4>2. ASSUME irq.hub # Root PROVE bus'[dev[irq.hub].thing] = dev[irq.hub].addr
          <5>1. PICK x \in Things : bus[x] = dev[irq.hub].addr
            BY <1>9, <4>1, <4>2 DEF Answering
          <5>2. PICK h, y : h = irq.hub /\ y = dev[h].thing
            OBVIOUS
          <5>3. h \in Live /\ IsHub(y) /\ ~Nameless(h) /\ p \in HubSockets[y]
            BY <1>2, <1>5, <1>8, <4>2, <5>2, ServesIs DEF Reported
          <5>4. dev[h].addr \in Nat /\ dev[h].addr >= 2
            BY <1>0, <5>3, LiveIs DEF Addresses
          <5>5. Answers(h, x)
            BY <5>1, <5>2, <5>4 DEF Answers
          <5>6. y = x
            BY <1>5, <5>2, <5>3, <5>5, HubsAre DEF Answered
          <5>7. y # plug[p]
            BY <1>0, <5>3, SocketsApart DEF Plugged, IsHub
          <5> QED
            BY <2>3, <5>1, <5>2, <5>6, <5>7
        <4> QED
          BY <4>1, <4>2
      <3>2. "settle" \in ResetSteps
        BY DEF ResetSteps
      <3> QED
        BY <1>2, <2>1, <3>1, <3>2 DEF Fresh
    <2>11. Branches'
      <3>1. SUFFICES ASSUME NEW v \in Live, NEW x \in Things, NEW w \in Live, w = dev[v].hub,
                            Answers(v, x)', port[Root][dev[w].socket] = w
                     PROVE  bus'[dev[w].thing] = dev[w].addr \/ Resetting(w)'
        BY <1>2 DEF Branches, Resetting
      <3>2. PICK y \in Things : y = dev[w].thing /\ IsHub(y)
        BY <3>1, LiveIs
      <3>3. Answers(v, x) /\ ~Resetting(w)
        BY <1>11, <2>8, <3>1 DEF Resetting, SetupSteps, ResetSteps
      <3>4. bus[y] = dev[w].addr
        BY <1>5, <3>1, <3>2, <3>3 DEF Branches
      <3>5. SUFFICES ASSUME y = plug[p] PROVE Resetting(w)'
        BY <2>3, <3>2, <3>4
      <3>6. ~Nameless(w)
        BY <1>11 DEF Nameless
      <3>7. dev[w].addr \in Nat /\ dev[w].addr >= 2 /\ dev[w].socket \in Sockets
        BY <1>0, <3>6, LiveIs DEF Addresses
      <3>8. Answers(w, y)
        BY <3>4, <3>7 DEF Answers
      <3>9. plug[dev[w].socket] = y /\ y # Empty
        BY <1>5, <3>2, <3>8, HubsAre DEF Answered
      <3>10. dev[w].socket = p
        BY <1>0, <3>5, <3>7, <3>9 DEF Plugged
      <3>11. p \in RootSockets
        BY <1>5, <3>2, <3>10 DEF Sited
      <3>12. irq.hub = Root
        BY <1>2, <1>5, <1>8, <3>11, ServesIs, SocketsApart DEF Reported, IsHub
      <3>13. "settle" \in SetupSteps
        BY DEF SetupSteps, ResetSteps
      <3> QED
        BY <1>2, <2>1, <3>2, <3>5, <3>10, <3>12, <3>13 DEF Resetting
    <2> QED
      BY <1>6, <1>7, <2>5, <2>6, <2>7, <2>9, <2>10, <2>11 DEF Order
  <1> QED
    BY <1>1, <1>10, <1>11

LEMMA NewDeviceBus ==
    ASSUME Base, Names, Order, Reported, NewDevice
    PROVE  Order' /\ Reported' /\ Left' /\ plug' = plug
  <1>0. /\ Types /\ Unused /\ dev \in [Ids -> DevType]
        /\ Powered /\ Fresh /\ Apart /\ Answered /\ Sited /\ Branches
    BY DEF Base, Types, CoreTypes, Order
  <1>1. /\ SamePort /\ irq.at = "desc8" /\ irq'.new \in Ids /\ dev[irq'.new].st = "none"
        /\ \/ /\ irq'.at = "address"
              /\ dev' = [dev EXCEPT ![irq'.new] = Allocated("live")]
           \/ /\ irq'.at = "again"
              /\ dev' = [dev EXCEPT ![irq'.new] = Allocated("freed")]
        /\ UNCHANGED <<bus, plug, td, intbm, port, addrbm, nextAddr>>
    BY <1>0, NewDeviceIs DEF world, hc
  <1>2. PICK n \in Ids : n = irq'.new
    BY <1>1
  <1>3. PICK st \in {"live", "freed"} :
            dev' = [dev EXCEPT ![n] = Allocated(st)] /\ irq'.at \in {"address", "again"}
    BY <1>1, <1>2
  <1>4. /\ \A v \in Ids : v # n => dev'[v] = dev[v]
        /\ dev'[n].thing = Empty /\ dev'[n].addr = 0 /\ dev'[n].hub = irq.hub
        /\ dev'[n].socket = irq.port
    BY <1>0, <1>3 DEF Allocated
  <1>5. /\ n \notin Live /\ dev[n] = NoDev /\ dev[n].thing = Empty
        /\ \A v \in Live' : v = n \/ v \in Live
    <2>1. n \notin Live /\ dev[n] = NoDev
      BY <1>0, <1>1, <1>2 DEF Live, Unused
    <2>2. \A v \in Live' : v = n \/ v \in Live
      BY <1>4 DEF Live
    <2> QED
      BY <2>1, <2>2 DEF NoDev
  <1>6. \A v \in Live : dev[v].hub # n
    <2>1. ASSUME NEW v \in Live, dev[v].hub = n PROVE FALSE
      <3>1. n < v /\ v \in Ids /\ n \in Nat /\ v \in Nat
        BY <2>1, LiveIs, IdsAre
      <3>2. v > n
        BY <3>1
      <3> QED
        BY <1>0, <1>1, <1>2, <2>1, <3>1, <3>2 DEF Unused, Live
    <2> QED
      BY <2>1
  <1>7. /\ irq.at \in PortSteps /\ irq.hub \in Live \cup {Root} /\ irq.port \in Sockets
        /\ irq.port \in Owned(irq.hub)
    BY <1>1, ServesIs DEF PortSteps, Reported
  <1>8. \A w \in Ids : dev'[w].thing = dev[w].thing
    BY <1>4, <1>5
  <1>9. /\ irq'.at \in ResetSteps /\ irq'.at \in SetupSteps /\ irq'.hub = irq.hub
        /\ irq'.port = irq.port
    BY <1>1, <1>3 DEF ResetSteps, SetupSteps, SamePort
  <1>10. Powered' /\ Apart'
    BY <1>0, <1>1 DEF Powered, Apart, Taken
  <1>11. Fresh'
    <2>1. irq.hub # Root => dev'[irq.hub] = dev[irq.hub]
      BY <1>4, <1>5, <1>7, LiveIs
    <2> QED
      BY <1>0, <1>1, <1>9, <2>1 DEF Fresh
  <1>12. ASSUME NEW v \in Live', NEW t \in Things, Answers(v, t)'
         PROVE  v \in Live /\ v # n /\ Answers(v, t) /\ dev'[v] = dev[v]
    <2>1. v # n
      BY <1>4, <1>12 DEF Answers
    <2> QED
      BY <1>1, <1>4, <1>5, <1>12, <2>1, LiveIs DEF Answers
  <1>13. Answered'
    BY <1>0, <1>1, <1>12 DEF Answered
  <1>14. Sited'
    <2>1. ASSUME NEW v \in Live'
          PROVE  dev'[v].socket \in IF dev'[v].hub = Root THEN RootSockets
                                    ELSE HubSockets[dev'[dev'[v].hub].thing]
      <3>1. CASE v = n
        BY <1>4, <1>7, <1>8, <3>1, LiveIs DEF Owned
      <3>2. CASE v # n
        <4>1. v \in Live /\ dev'[v] = dev[v] /\ dev[v].hub \in Ids \cup {Root}
          BY <1>4, <1>5, <3>2, LiveIs
        <4> QED
          BY <1>0, <1>8, <4>1 DEF Sited
      <3> QED
        BY <3>1, <3>2
    <2>2. ASSUME NEW w \in Live', IsHub(dev'[w].thing) PROVE dev'[w].socket \in RootSockets
      <3>1. w # n
        BY <1>4, <2>2, HubsAre
      <3>2. w \in Live /\ dev'[w] = dev[w]
        BY <1>4, <1>5, <3>1, LiveIs
      <3> QED
        BY <1>0, <2>2, <3>2 DEF Sited
    <2> QED
      BY <2>1, <2>2 DEF Sited
  <1>15. Branches'
    <2>1. SUFFICES ASSUME NEW v \in Live', NEW t \in Things, NEW w, w = dev'[v].hub,
                          Answers(v, t)', w \in Live', port[Root][dev'[w].socket] = w
                   PROVE  bus[dev'[w].thing] = dev'[w].addr \/ Resetting(w)'
      BY <1>1 DEF Branches, Resetting
    <2>2. v \in Live /\ Answers(v, t) /\ dev'[v] = dev[v]
      BY <1>12, <2>1
    <2>3. w \in Live /\ w = dev[v].hub /\ dev'[w] = dev[w]
      BY <1>4, <1>5, <1>6, <2>1, <2>2, LiveIs
    <2>4. bus[dev[w].thing] = dev[w].addr \/ Resetting(w)
      BY <1>0, <2>1, <2>2, <2>3 DEF Branches
    <2>5. Resetting(w) => Resetting(w)'
      BY <1>1, <1>9, <2>3 DEF Resetting
    <2> QED
      BY <2>3, <2>4, <2>5
  <1>16. Reported'
    BY <1>0, <1>1, <1>7, <1>8, ReportedKept
  <1>17. Left'
    BY <1>3 DEF Left
  <1> QED
    BY <1>1, <1>10, <1>11, <1>13, <1>14, <1>15, <1>16, <1>17 DEF Order

\* The device that is set up is freed.
LEMMA FreeingBus ==
    ASSUME Base, Order, Reported, SamePort, irq.at \in {"address", "desc"}, irq'.at = "again",
           dev' = [dev EXCEPT ![irq.new] = Dead(dev[irq.new].thing)],
           UNCHANGED <<bus, plug, td, intbm, port>>,
           \A x \in Nat : Taken(x) => Taken(x)'
    PROVE  Order' /\ Reported' /\ Left'
  <1>0. Types
    BY DEF Base
  <1>1. irq.at \in NewSteps /\ irq.at \in PortSteps
    BY DEF NewSteps, PortSteps
  <1>2. irq.new \in Ids /\ Live \subseteq Ids /\ irq.hub \in Live \cup {Root} /\ irq.hub # irq.new
    BY <1>1, NewestIs
  <1>3. /\ Live' = Live \ {irq.new}
        /\ dev'[irq.new].thing = dev[irq.new].thing
        /\ \A v \in Ids : v # irq.new => dev'[v] = dev[v]
    BY <1>0, <1>2, FreeingIs
  <1>4. \A v \in Ids : dev'[v].thing = dev[v].thing
    BY <1>3
  <1>5. Order'
    <2>1. \A v \in Ids : v \in Live' => dev'[v] = dev[v]
      BY <1>3
    <2>2. irq.at # "hung" /\ irq'.at \in ResetSteps /\ irq'.at \in SetupSteps
          /\ irq'.hub = irq.hub /\ irq'.port = irq.port
      BY DEF SetupSteps, ResetSteps, SamePort
    <2> QED
      BY <1>2, <1>3, <1>4, <2>1, <2>2, OrderKept
  <1>6. Reported'
    BY <1>0, <1>1, <1>4, ReportedKept
  <1> QED
    BY <1>5, <1>6 DEF Left

\* The thing that was reset gets the address of the new device.
LEMMA SetAddressBus ==
    ASSUME Base, Names, Order, Reported, SetAddress
    PROVE  Order' /\ Reported' /\ Left' /\ plug' = plug
  <1>0. /\ Types /\ Newest /\ Addresses /\ dev \in [Ids -> DevType] /\ bus \in [Things -> Int]
        /\ Powered /\ Fresh /\ Apart /\ Answered /\ Sited /\ Branches
    BY DEF Base, Names, Types, CoreTypes, WorldTypes, Order
  <1>1. /\ Tried /\ SamePort /\ irq.at = "address"
        /\ \/ /\ irq'.at = "desc"
              /\ \E a : /\ Lists(a)
                        /\ dev' = [dev EXCEPT ![irq.new].addr = a]
                        /\ bus' = [t \in Things |-> IF bus[t] = 0 THEN a ELSE bus[t]]
           \/ /\ irq'.at = "again" /\ bus' = bus
              /\ dev' = [dev EXCEPT ![irq.new] = Dead(dev[irq.new].thing)]
              /\ \E a : Lists(a)
           \/ /\ irq'.at = "again" /\ bus' = bus
              /\ dev' = [dev EXCEPT ![irq.new] = Dead(dev[irq.new].thing)]
              /\ UNCHANGED <<devlist, addrbm, nextAddr>>
        /\ UNCHANGED <<plug, td, intbm, port>>
    BY <1>0, SetAddressIs DEF hc
  <1>2. PICK n \in Ids : /\ n = irq.new /\ n \in Live /\ dev[n].thing = Empty
                         /\ dev[n].hub = irq.hub /\ dev[n].socket = irq.port
                         /\ \A v \in Live : dev[v].hub # n
    BY <1>0, <1>1, NewestIs DEF Newest, NewSteps
  <1>3. marks \subseteq marks'
    BY <1>1 DEF Tried
  <1>4. ASSUME NEW a, Lists(a) PROVE \A x \in Nat : Taken(x) => Taken(x)'
    BY <1>0, <1>1, <1>2, <1>3, <1>4, ListsNames
  <1>5. CASE irq'.at = "again"
    <2>1. \A x \in Nat : Taken(x) => Taken(x)'
      <3>1. CASE \E a : Lists(a)
        BY <1>4, <3>1
      <3>2. CASE UNCHANGED <<devlist, addrbm, nextAddr>>
        BY <3>2 DEF Taken
      <3> QED
        BY <1>1, <1>5, <3>1, <3>2
    <2> QED
      BY <1>1, <1>5, <2>1, FreeingBus
  <1>6. ASSUME irq'.at = "desc", NEW a, Lists(a), dev' = [dev EXCEPT ![n].addr = a],
               bus' = [t \in Things |-> IF bus[t] = 0 THEN a ELSE bus[t]]
        PROVE  Order' /\ Reported' /\ Left'
    <2>1. /\ a \in Nat /\ a >= 2 /\ Taken(a)' /\ \A x \in Nat : Taken(x) => Taken(x)' /\ x # a
          /\ \A u \in Live : u # n => dev[u].addr \in Nat /\ dev[u].addr >= 2 /\ Taken(dev[u].addr)
      BY <1>0, <1>1, <1>2, <1>3, <1>6, ListsNames
    <2>2. PICK c, d : c \in DevType /\ c = dev[n] /\ d = [c EXCEPT !.addr = a]
      BY <1>0
    <2>3. /\ d.st = c.st /\ d.addr = a /\ d.hub = c.hub /\ d.socket = c.socket
          /\ d.thing = c.thing
      BY <2>2 DEF DevType
    <2>4. dev' = [dev EXCEPT ![n] = d]
      BY <1>6, <2>2
    <2>5. dev'[n] = d /\ \A v \in Ids : v # n => dev'[v] = dev[v]
      BY <1>0, <2>4
    <2>6. \A v \in Ids : /\ dev'[v].st = dev[v].st /\ dev'[v].hub = dev[v].hub
                         /\ dev'[v].socket = dev[v].socket /\ dev'[v].thing = dev[v].thing
      BY <2>2, <2>3, <2>5
    <2>7. Live' = Live /\ Live \subseteq Ids
      BY <2>6 DEF Live
    <2>8. \A t \in Things : bus[t] # a
      <3>1. ASSUME NEW t \in Things, bus[t] = a PROVE FALSE
        <4>1. bus[t] > 0 /\ Taken(a)
          BY <1>0, <2>1, <3>1 DEF Apart
        <4> QED
          BY <2>1, <4>1
      <3> QED
        BY <3>1
    <2>9. \A t \in Things : \/ bus'[t] = a /\ bus[t] = 0 /\ plug[irq.port] = t
                            \/ bus'[t] = bus[t] /\ bus[t] # 0 /\ bus[t] # a
      BY <1>0, <1>6, <2>8 DEF Fresh
    <2>10. Powered'
      BY <1>0, <1>1, <2>1, <2>9 DEF Powered, Off
    <2>11. Fresh'
      <3>1. \A t \in Things : bus'[t] # 0
        BY <2>1, <2>9
      <3> QED
        BY <3>1 DEF Fresh
    <2>12. Apart'
      <3>1. ASSUME NEW t \in Things, bus'[t] > 0 PROVE Taken(bus[t])' \/ bus'[t] = a
        <4>1. CASE bus'[t] = bus[t]
          <5>1. PICK x \in Nat : x = bus[t]
            BY <1>0, <3>1, <4>1
          <5>2. Taken(x)
            BY <1>0, <3>1, <4>1, <5>1 DEF Apart
          <5>3. Taken(x)'
            BY <2>1, <5>2
          <5> QED
            BY <4>1, <5>1, <5>3 DEF Taken
        <4> QED
          BY <2>9, <4>1
      <3>2. ASSUME NEW t \in Things, bus'[t] > 0 PROVE Taken(bus[t])'
        BY <2>1, <3>1, <3>2 DEF Taken
      <3>3. ASSUME NEW t \in Things, NEW u \in Things, bus'[t] = bus'[u], bus'[t] > 0 PROVE t = u
        <4>1. CASE bus'[t] = a
          BY <2>9, <3>3, <4>1
        <4>2. CASE bus'[t] # a
          <5>1. bus'[t] = bus[t] /\ bus'[u] = bus[u]
            BY <2>9, <3>3, <4>2
          <5> QED
            BY <1>0, <3>3, <5>1 DEF Apart
        <4> QED
          BY <4>1, <4>2
      <3> QED
        BY <3>2, <3>3 DEF Apart
    <2>13. ASSUME NEW v \in Live, NEW t \in Things, Answers(v, t)'
           PROVE  \/ v = n /\ bus[t] = 0 /\ plug[irq.port] = t
                  \/ v # n /\ dev'[v] = dev[v] /\ Answers(v, t)
      <3>1. bus'[t] = dev'[v].addr /\ bus'[t] > 0
        BY <2>13 DEF Answers
      <3>2. CASE v = n
        BY <2>3, <2>5, <2>9, <3>1, <3>2
      <3>3. CASE v # n
        <4>1. dev'[v] = dev[v]
          BY <2>5, <2>7, <3>3
        <4>2. dev[v].addr # a
          BY <2>1, <3>3
        <4> QED
          BY <2>9, <3>1, <3>3, <4>1, <4>2 DEF Answers
      <3> QED
        BY <3>2, <3>3
    <2>14. Answered'
      <3>1. ASSUME NEW v \in Live, NEW t \in Things, Answers(v, t)'
            PROVE  plug[dev[v].socket] = t /\ dev[v].thing \in {Empty, t}
        BY <1>0, <1>2, <2>13, <3>1 DEF Answered
      <3> QED
        BY <1>1, <2>6, <2>7, <3>1 DEF Answered
    <2>15. Sited'
      BY <1>0, <2>6, <2>7, LiveIs DEF Sited
    <2>16. Branches'
      <3>1. SUFFICES ASSUME NEW v \in Live, NEW t \in Things, NEW w \in Live, w = dev[v].hub,
                            Answers(v, t)', port[Root][dev[w].socket] = w
                     PROVE  bus'[dev'[w].thing] = dev'[w].addr \/ Resetting(w)'
        BY <1>1, <2>6, <2>7 DEF Branches, Resetting
      <3>2. PICK y \in Things : y = dev[w].thing /\ w # n /\ dev'[w] = dev[w]
        BY <1>2, <2>5, <2>7, <3>1, LiveIs
      <3>3. bus[y] = dev[w].addr => bus'[y] = dev[w].addr
        BY <2>1, <2>9, <3>2
      <3>4. bus[y] = dev[w].addr \/ Resetting(w)
        <4>1. CASE v = n
          <5>1. irq.hub = w /\ irq.hub # Root /\ bus[t] = 0
            BY <1>2, <2>1, <2>13, <3>1, <4>1, LiveIs
          <5> QED
            BY <1>0, <1>1, <3>2, <5>1 DEF Fresh
        <4>2. CASE v # n
          BY <1>0, <2>13, <3>1, <3>2, <4>2 DEF Branches
        <4> QED
          BY <4>1, <4>2
      <3>5. Resetting(w) => Resetting(w)'
        BY <1>1, <1>6, <3>2 DEF Resetting, SamePort, SetupSteps
      <3> QED
        BY <3>2, <3>3, <3>4, <3>5
    <2>17. Reported'
      BY <1>0, <1>1, <2>6, ReportedKept DEF PortSteps, NewSteps
    <2>18. Left'
      BY <1>6 DEF Left
    <2> QED
      BY <2>10, <2>11, <2>12, <2>14, <2>15, <2>16, <2>17, <2>18 DEF Order
  <1> QED
    BY <1>1, <1>2, <1>5, <1>6

LEMMA GetDescriptorBus ==
    ASSUME Base, Names, Order, Reported, Plugged, GetDescriptor
    PROVE  Order' /\ Reported' /\ Left' /\ plug' = plug
  <1>0. /\ Types /\ Newest /\ Addresses /\ dev \in [Ids -> DevType]
        /\ Powered /\ Fresh /\ Apart /\ Answered /\ Sited /\ Branches
    BY DEF Base, Names, Types, CoreTypes, Order
  <1>1. /\ SamePort /\ irq.at = "desc"
        /\ \/ /\ irq'.at = "strings"
              /\ \E t \in Things : /\ bus[t] = dev[irq.new].addr
                                   /\ dev' = [dev EXCEPT ![irq.new].thing = t]
           \/ /\ irq'.at = "again"
              /\ dev' = [dev EXCEPT ![irq.new] = Dead(dev[irq.new].thing)]
        /\ UNCHANGED <<bus, plug, td, intbm, port, addrbm, nextAddr>>
    BY <1>0, GetDescriptorIs DEF world, hc
  <1>2. PICK n \in Ids : /\ n = irq.new /\ n \in Live /\ td[n] = "none" /\ irq.hub # n
                         /\ \A v \in Live : dev[v].hub # n
    BY <1>0, <1>1, NewestIs DEF NewSteps
  <1>3. CASE irq'.at = "again"
    <2>1. \A x \in Nat : Taken(x) => Taken(x)'
      BY <1>1 DEF Taken
    <2> QED
      BY <1>1, <1>3, <2>1, FreeingBus
  <1>4. ASSUME irq'.at = "strings", NEW t \in Things, bus[t] = dev[n].addr,
               dev' = [dev EXCEPT ![n].thing = t]
        PROVE  Order' /\ Reported' /\ Left'
    <2>1. PICK c, d : c \in DevType /\ c = dev[n] /\ d = [c EXCEPT !.thing = t]
      BY <1>0
    <2>2. /\ d.st = c.st /\ d.addr = c.addr /\ d.hub = c.hub /\ d.socket = c.socket
          /\ d.thing = t
      BY <2>1 DEF DevType
    <2>3. dev' = [dev EXCEPT ![n] = d]
      BY <1>4, <2>1
    <2>4. dev'[n] = d /\ \A v \in Ids : v # n => dev'[v] = dev[v]
      BY <1>0, <2>3
    <2>5. \A v \in Ids : /\ dev'[v].st = dev[v].st /\ dev'[v].hub = dev[v].hub
                         /\ dev'[v].socket = dev[v].socket /\ dev'[v].addr = dev[v].addr
      BY <2>1, <2>2, <2>4
    <2>6. Live' = Live /\ Live \subseteq Ids
      BY <2>5 DEF Live
    <2>7. Answers(n, t)
      <3>1. ~Nameless(n)
        BY <1>1 DEF Nameless
      <3>2. dev[n].addr \in Nat /\ dev[n].addr >= 2
        BY <1>0, <1>2, <3>1, LiveIs DEF Addresses
      <3> QED
        BY <1>4, <3>2 DEF Answers
    <2>8. \A v \in Live, x \in Things : Answers(v, x)' => Answers(v, x)
      BY <1>1, <2>5, <2>6 DEF Answers
    <2>9. Powered' /\ Apart'
      BY <1>0, <1>1 DEF Powered, Apart, Taken
    <2>10. Fresh'
      BY <1>0, <1>1 DEF Fresh, ResetSteps
    <2>11. Answered'
      <3>1. ASSUME NEW v \in Live, NEW x \in Things, Answers(v, x)
            PROVE  plug[dev[v].socket] = x /\ dev'[v].thing \in {Empty, x}
        <4>1. CASE v = n
          <5>1. x = t
            BY <1>0, <2>7, <3>1, <4>1 DEF Answers, Apart
          <5> QED
            BY <1>0, <2>2, <2>4, <3>1, <4>1, <5>1 DEF Answered
        <4>2. CASE v # n
          BY <1>0, <2>4, <2>6, <3>1, <4>2 DEF Answered
        <4> QED
          BY <4>1, <4>2
      <3> QED
        BY <1>1, <2>5, <2>6, <2>8, <3>1 DEF Answered
    <2>12. Sited'
      <3>1. ASSUME NEW v \in Live
            PROVE  dev[v].socket \in IF dev[v].hub = Root THEN RootSockets
                                     ELSE HubSockets[dev'[dev[v].hub].thing]
        <4>1. dev[v].hub # Root => dev'[dev[v].hub] = dev[dev[v].hub]
          BY <1>2, <2>4, LiveIs
        <4> QED
          BY <1>0, <4>1 DEF Sited
      <3>2. ASSUME NEW w \in Live, IsHub(dev'[w].thing) PROVE dev[w].socket \in RootSockets
        <4>1. CASE w = n
          <5>1. plug[dev[n].socket] = t /\ dev[n].socket \in Sockets
            BY <1>0, <1>2, <2>7, LiveIs DEF Answered
          <5> QED
            BY <2>2, <2>4, <3>2, <4>1, <5>1 DEF Plugged
        <4>2. CASE w # n
          BY <1>0, <2>4, <2>6, <3>2, <4>2 DEF Sited
        <4> QED
          BY <4>1, <4>2
      <3> QED
        BY <2>5, <2>6, <3>1, <3>2 DEF Sited
    <2>13. Branches'
      <3>1. SUFFICES ASSUME NEW v \in Live, NEW x \in Things, NEW w \in Live, w = dev[v].hub,
                            Answers(v, x), port[Root][dev[w].socket] = w
                     PROVE  bus[dev'[w].thing] = dev'[w].addr \/ Resetting(w)'
        BY <1>1, <2>5, <2>6, <2>8 DEF Branches, Resetting
      <3>2. w # n /\ dev'[w] = dev[w]
        BY <1>2, <2>4, <2>6, <3>1
      <3>3. bus[dev[w].thing] = dev[w].addr \/ Resetting(w)
        BY <1>0, <3>1 DEF Branches
      <3>4. Resetting(w) => Resetting(w)'
        BY <1>1, <1>4, <3>2 DEF Resetting, SamePort, SetupSteps
      <3> QED
        BY <3>2, <3>3, <3>4
    <2>14. Reported'
      <3>1. \A u \in Ids : td[u] = "done" => intbm[u] \subseteq HubSockets[dev'[u].thing]
        BY <1>2, <2>4 DEF Reported
      <3>2. irq.at \in PortSteps /\ irq.hub \in Ids \cup {Root}
        BY <1>0, <1>1 DEF PortSteps, NewSteps, Types, IrqTypes, IrqType
      <3>3. PICK h \in Ids \cup {Root} : h = irq.hub /\ h # n
        BY <1>2, <3>2
      <3>4. Owned(h)' = Owned(h)
        BY <2>4, <3>3 DEF Owned
      <3> QED
        BY <1>1, <3>1, <3>2, <3>3, <3>4 DEF Reported, SamePort
    <2>15. Left'
      BY <1>4 DEF Left
    <2> QED
      BY <2>9, <2>10, <2>11, <2>12, <2>13, <2>14, <2>15 DEF Order
  <1> QED
    BY <1>1, <1>2, <1>3, <1>4

\* The port points to the new device, and no more to a hub it replaces.
LEMMA StringsBus ==
    ASSUME Base, Order, Reported, Strings
    PROVE  Order' /\ Reported' /\ Left' /\ plug' = plug
  <1>0. Types /\ Branches /\ port \in [Ids \cup {Root} -> [Sockets -> Ids \cup {Null}]]
    BY DEF Base, Types, CoreTypes, Order
  <1>1. /\ SamePort /\ irq.at = "strings" /\ irq'.at \in {"bind", "enable"}
        /\ port' = [port EXCEPT ![irq.hub][irq.port] = irq.new]
        /\ UNCHANGED <<bus, plug, td, intbm, dev, addrbm, nextAddr>>
    BY <1>0, StringsIs DEF world, hc
  <1>2. /\ irq.at \in NewSteps /\ irq.at \in PortSteps /\ irq.at \notin ResetSteps
        /\ irq.at # "hung" /\ Live' = Live
    BY <1>1 DEF NewSteps, PortSteps, ResetSteps, Live
  <1>3. \A v \in Live : dev[v].hub # irq.new
    BY <1>2, NewestIs
  <1>4. irq.hub \in Ids \cup {Root} /\ irq.port \in Sockets
    BY <1>2, ServesIs
  <1>5. \A x \in Nat : Taken(x) => Taken(x)'
    BY <1>1 DEF Taken
  <1>6. Powered' /\ Fresh' /\ Apart' /\ Answered' /\ Sited'
    BY <1>1, <1>2, <1>5, RestKept
  <1>7. Branches'
    <2>1. SUFFICES ASSUME NEW v \in Live, NEW t \in Things, NEW w \in Live, w = dev[v].hub,
                          Answers(v, t), port'[Root][dev[w].socket] = w
                   PROVE  bus[dev[w].thing] = dev[w].addr
      BY <1>1, <1>2 DEF Branches, Answers
    <2>2. w # irq.new /\ dev[w].socket \in Sockets
      BY <1>3, <2>1, LiveIs
    <2>3. irq.hub # Root \/ irq.port # dev[w].socket
      BY <1>0, <1>1, <1>4, <2>1, <2>2
    <2>4. port[Root][dev[w].socket] = w /\ ~Resetting(w)
      BY <1>0, <1>1, <1>4, <2>1, <2>2, <2>3 DEF Resetting
    <2> QED
      BY <1>0, <2>1, <2>4 DEF Branches
  <1>8. Reported'
    BY <1>0, <1>1, <1>2, ReportedKept
  <1> QED
    BY <1>1, <1>6, <1>7, <1>8 DEF Order, Left

LEMMA BindHubBus ==
    ASSUME Base, Order, Reported, BindHub
    PROVE  Order' /\ Reported' /\ Left' /\ plug' = plug
  <1>0. Types /\ dev \in [Ids -> DevType]
    BY DEF Base, Types, CoreTypes
  <1>1. /\ SamePort /\ irq.at \in {"bind", "config"}
        /\ irq'.at \in {"config", "power", "enable"}
        /\ \E x : dev' = [dev EXCEPT ![irq.new].data = x]
        /\ UNCHANGED <<bus, plug, td, intbm, port, addrbm, nextAddr>>
    BY <1>0, BindHubIs DEF world, hc
  <1>2. \A v \in Ids : /\ dev'[v].st = dev[v].st /\ dev'[v].hub = dev[v].hub
                       /\ dev'[v].addr = dev[v].addr /\ dev'[v].socket = dev[v].socket
                       /\ dev'[v].thing = dev[v].thing
    BY <1>0, <1>1 DEF DevType
  <1>3. Live' = Live
    BY <1>2 DEF Live
  <1>4. \A x \in Nat : Taken(x) => Taken(x)'
    BY <1>1 DEF Taken
  <1>5. Order'
    BY <1>1, <1>2, <1>3, <1>4, OrderKept DEF ResetSteps, SetupSteps
  <1>6. Reported'
    BY <1>0, <1>1, <1>2, ReportedKept DEF PortSteps, NewSteps
  <1> QED
    BY <1>1, <1>5, <1>6 DEF Left

(* Nothing answers for a device that is removed: the one on the port is    *)
(* gone, and the others answer only as long as it does.                    *)
LEMMA RemovedAreSilent ==
    ASSUME Base, Names, Order, Reported, Left, irq.at = "suspend", irq.hub \notin halted,
           NEW us, NEW top, top = port[irq.hub][irq.port], top # Null, Branch(top, us),
           NEW v \in us, NEW t \in Things, bus[t] = dev[v].addr
    PROVE  FALSE
  <1>0. /\ Powered /\ Fresh /\ Apart /\ Answered /\ Sited /\ Branches /\ PortsSound /\ Addresses
    BY DEF Base, Names, Order
  <1>1. /\ us \subseteq Live /\ top \in us
        /\ \A x \in us : x = top \/ (dev[x].hub \in us /\ dev[dev[x].hub].data = "hub")
    BY DEF Branch
  <1>2. irq.at \in PortSteps /\ \A x : ~Nameless(x)
    BY DEF PortSteps, HubSteps, Nameless
  <1>3. /\ irq.hub \in Live \cup {Root} /\ irq.port \in Sockets /\ irq.port \in Owned(irq.hub)
    BY <1>2, ServesIs DEF Reported
  <1>4. top \in Live /\ dev[top].hub = irq.hub /\ dev[top].socket = irq.port
    BY <1>0, <1>3 DEF PortsSound
  <1>5. \A x \in Live : dev[x].addr \in Nat /\ dev[x].addr >= 2
    BY <1>0, <1>2, LiveIs DEF Addresses
  <1>6. plug[irq.port] = Empty \/ bus[plug[irq.port]] = Off
    BY DEF Left
  <1>7. ASSUME NEW x \in Things, Answers(top, x) PROVE FALSE
    <2>1. plug[irq.port] = x /\ bus[x] > 0
      BY <1>0, <1>4, <1>7 DEF Answered, Answers
    <2> QED
      BY <1>6, <2>1, HubsAre DEF Off
  <1>8. Answers(v, t)
    BY <1>1, <1>5 DEF Answers
  <1>9. CASE v = top
    BY <1>7, <1>8, <1>9
  <1>10. CASE v # top
    <2>1. PICK w \in us : w = dev[v].hub /\ w \in Live
      BY <1>1, <1>10
    <2>2. IsHub(dev[w].thing) /\ dev[w].thing \in Things /\ dev[w].socket \in RootSockets
      BY <1>0, <1>1, <2>1, LiveIs DEF Sited
    <2>3. dev[w].hub = Root
      BY <1>0, <2>1, <2>2, LiveIs, SocketsApart DEF Sited, IsHub
    <2>4. w = top
      BY <1>1, <2>1, <2>3, LiveIs
    <2>5. irq.hub = Root /\ dev[w].socket = irq.port /\ port[Root][dev[w].socket] = w
      BY <1>4, <2>3, <2>4
    <2>6. ~Resetting(w)
      BY DEF Resetting, SetupSteps, ResetSteps
    <2>7. bus[dev[w].thing] = dev[w].addr
      BY <1>0, <1>1, <1>8, <2>1, <2>5, <2>6 DEF Branches
    <2>8. Answers(top, dev[w].thing)
      BY <1>4, <1>5, <2>4, <2>7 DEF Answers
    <2> QED
      BY <1>7, <2>2, <2>8
  <1> QED
    BY <1>9, <1>10

LEMMA SuspendBus ==
    ASSUME Base, Names, Order, Reported, Left, Suspend
    PROVE  Order' /\ Reported' /\ Left' /\ plug' = plug
  <1>0. /\ Types /\ Serving /\ Endpoints /\ Tree /\ PortsSound
        /\ dev \in [Ids -> DevType] /\ td \in [Ids -> {"none", "active", "done"}]
        /\ port \in [Ids \cup {Root} -> [Sockets -> Ids \cup {Null}]]
    BY DEF Base, Types, CoreTypes
  <1>1. /\ Asked /\ irq.at = "suspend" /\ irq'.at = "enable"
        /\ \/ UNCHANGED <<dev, devlist, addrbm, port, sched, td>>
           \/ /\ port[irq.hub][irq.port] # Null
              /\ \E us : Removes(port[irq.hub][irq.port], us)
        /\ UNCHANGED <<bus, plug, intbm, nextAddr>>
    BY <1>0, SuspendIs DEF Endpoints, world
  <1>2. irq.at \in PortSteps /\ irq.at \notin SetupSteps /\ SamePort /\ irq.hub \notin halted
        /\ irq.at \notin ResetSteps
    BY <1>1 DEF PortSteps, HubSteps, SetupSteps, ResetSteps, Asked
  <1>3. Left'
    BY <1>1 DEF Left
  <1>4. CASE UNCHANGED <<dev, devlist, addrbm, port, sched, td>>
    <2>1. Live' = Live /\ \A x \in Nat : Taken(x) => Taken(x)'
      BY <1>1, <1>4 DEF Live, Taken
    <2>2. Order'
      BY <1>1, <1>2, <1>4, <2>1, OrderKept DEF ResetSteps
    <2>3. Reported'
      BY <1>0, <1>1, <1>2, <1>4, ReportedKept
    <2> QED
      BY <1>1, <1>3, <2>2, <2>3
  <1>5. ASSUME port[irq.hub][irq.port] # Null, NEW us, Removes(port[irq.hub][irq.port], us)
        PROVE  Order' /\ Reported' /\ Left' /\ plug' = plug
    <2>1. PICK top : top = port[irq.hub][irq.port]
      OBVIOUS
    <2>2. /\ Branch(top, us) /\ us \subseteq Live /\ Live \subseteq Ids
          /\ addrbm' = addrbm \ Released(us)
          /\ dev' = [v \in Ids |-> IF v \in us THEN Dead(dev[v].thing) ELSE dev[v]]
          /\ td' = [v \in Ids |-> IF v \in us THEN "none" ELSE td[v]]
          /\ port' = [port EXCEPT ![irq.hub][irq.port] = Null]
      BY <1>5, <2>1 DEF Removes, Branch, Live
    <2>3. \A t : Dead(t).st = "freed" /\ Dead(t).thing = t
      BY DEF Dead
    <2>4. /\ \A v \in Ids \ us : dev'[v] = dev[v]
          /\ \A v \in us : dev'[v] = Dead(dev[v].thing)
      BY <2>2
    <2>5. Live' = Live \ us /\ \A v \in Ids : dev'[v].thing = dev[v].thing
      BY <2>2, <2>3, <2>4 DEF Live
    <2>6. ASSUME NEW x \in Nat, Taken(x), NEW t \in Things, bus[t] = x PROVE Taken(x)'
      <3>1. x \notin Released(us)
        <4>1. SUFFICES ASSUME NEW v \in us, x = dev[v].addr PROVE FALSE
          BY DEF Released
        <4> QED
          BY <1>1, <1>2, <1>5, <2>1, <2>2, <2>6, <4>1, RemovedAreSilent
      <3> QED
        BY <1>1, <2>2, <2>6, <3>1 DEF Taken
    <2>7. irq.hub \in Ids \cup {Root} /\ irq.port \in Sockets
      BY <1>2, ServesIs
    <2>8. \A w \in Live', s \in Sockets : port'[Root][s] = w => port[Root][s] = w
      <3>1. \A s \in Sockets : port'[Root][s] = port[Root][s] \/ port'[Root][s] = Null
        BY <1>0, <2>2, <2>7
      <3>2. Null \notin Live'
        BY <2>2, <2>5, IdsAre
      <3> QED
        BY <3>1, <3>2
    <2>9. \A v \in Live' : v \in Live /\ v \in Ids /\ dev'[v] = dev[v]
      BY <2>2, <2>4, <2>5
    <2>10. Order'
      BY <1>1, <1>2, <2>5, <2>6, <2>8, <2>9, OrderKept DEF ResetSteps
    <2>11. \A v \in Ids : td'[v] = "done" => td[v] = "done" /\ intbm'[v] = intbm[v]
      BY <1>1, <2>2
    <2>12. Reported'
      BY <1>0, <1>2, <2>5, <2>11, ReportedKept
    <2> QED
      BY <1>1, <1>3, <2>10, <2>12
  <1> QED
    BY <1>1, <1>4, <1>5

LEMMA InitIsSound ==
    ASSUME Init
    PROVE  BusSound
  <1>1. PICK f \in Fits : IsHub(f[1]) /\ InitBus(f[1], f[2])
    BY DEF Init
  <1>2. PICK t, s : t = f[1] /\ s = f[2]
    OBVIOUS
  <1>3. /\ t \in Things /\ s \in Sockets /\ IsHub(t) /\ InitBus(t, s) /\ t # Empty
        /\ s \in RootSockets
    BY <1>1, <1>2, UsbAssumption, HubsAre DEF IsHub
  <1>4. /\ plug = [r \in Sockets |-> IF r = s THEN t ELSE Empty]
        /\ bus = [v \in Things |-> IF v = t THEN NumDevices - 1 ELSE Off]
        /\ td = [v \in Ids |-> IF v = 1 THEN "active" ELSE "none"]
        /\ dev = [v \in Ids |-> IF v # 1 THEN NoDev ELSE
                     [st |-> "live", thing |-> t, hub |-> Root, socket |-> s,
                      addr |-> NumDevices - 1, data |-> "hub"]]
    BY <1>3 DEF InitBus
  <1>5. addrbm = {0, 1, NumDevices - 1} /\ irq = Idle /\ marks = {}
    BY DEF Init
  <1>6. NumDevices \in Nat /\ NumDevices >= 3 /\ 1 \in Ids /\ Root \notin Ids /\ Off = -1
    BY UsbAssumption, IdsAre DEF Off
  <1>7. /\ dev[1].st = "live" /\ dev[1].thing = t /\ dev[1].hub = Root /\ dev[1].socket = s
        /\ dev[1].addr = NumDevices - 1
    BY <1>4, <1>6
  <1>8. \A v \in Ids : v # 1 => dev[v].st = "none"
    BY <1>4 DEF NoDev
  <1>9. Live = {1}
    BY <1>6, <1>7, <1>8 DEF Live
  <1>10. irq.at = "idle"
    BY <1>5 DEF Idle
  <1>11. \A x \in Things : bus[x] = (IF x = t THEN NumDevices - 1 ELSE -1)
    BY <1>4, <1>6
  <1>12. Plugged
    BY <1>3, <1>4, HubsAre DEF Plugged
  <1>13. Powered
    BY <1>3, <1>4, <1>6, <1>11 DEF Powered
  <1>14. Fresh
    <2>1. \A x \in Things : bus[x] # 0
      BY <1>6, <1>11
    <2> QED
      BY <2>1 DEF Fresh
  <1>15. Apart
    <2>1. \A x \in Things : bus[x] > 0 => x = t
      BY <1>11
    <2>2. Taken(bus[t])
      BY <1>3, <1>5, <1>11 DEF Taken
    <2> QED
      BY <2>1, <2>2 DEF Apart
  <1>16. Answered
    <2>1. \A x \in Things : bus[x] > 0 => x = t
      BY <1>11
    <2> QED
      BY <1>3, <1>4, <1>7, <1>9, <2>1 DEF Answered, Answers
  <1>17. Sited
    BY <1>3, <1>7, <1>9 DEF Sited
  <1>18. Branches
    BY <1>6, <1>7, <1>9 DEF Branches
  <1>19. Reported
    <2>1. \A u \in Ids : td[u] # "done"
      BY <1>4
    <2> QED
      BY <1>10, <2>1 DEF Reported, PortSteps, HubSteps, NewSteps
  <1>20. Left
    BY <1>10 DEF Left
  <1> QED
    BY <1>12, <1>13, <1>14, <1>15, <1>16, <1>17, <1>18, <1>19, <1>20 DEF BusSound, Order

LEMMA BusNext ==
    ASSUME Base, Names, BusSound, Next
    PROVE  BusSound'
  <1>1. marks \subseteq marks' /\ Plugged
    BY MarksGrow DEF BusSound
  <1>2. CASE \E f \in Fits : PlugIn(f[1], f[2])
    BY <1>2, PlugInBus
  <1>3. CASE \E s \in Sockets : Unplug(s)
    BY <1>3, UnplugBus
  <1>4. CASE Reset
    BY <1>4, ResetBus
  <1>5. CASE \/ Asks \/ Moves \/ (\E u \in Ids : HubReports(u))
             \/ PowerPorts \/ (\E u \in Ids : BindDriver(u))
             \/ NewDevice \/ SetAddress \/ GetDescriptor \/ Strings \/ BindHub \/ Suspend
    <2>1. Types /\ Serving /\ Endpoints /\ Tree /\ PortsSound /\ Addresses
      BY DEF Base, Names
    <2>2. plug' = plug
      <3>1. CASE Asks
        BY <2>1, <3>1, PortStatusIs, ClearConnectionIs, SettleIs, PortEnableIs, AnotherIs, HangIs
           DEF Asks, world
      <3>2. CASE Moves
        BY <3>2 DEF Moves, HandleIrq, RootIrq, NextPort, Acknowledge, PeriodicComplete, Reschedule, world
      <3>3. CASE \E u \in Ids : HubReports(u)
        BY <3>3 DEF HubReports, world
      <3>4. CASE PowerPorts
        BY <3>4 DEF PowerPorts
      <3>5. CASE \E u \in Ids : BindDriver(u)
        BY <3>5 DEF BindDriver, world
      <3>6. CASE NewDevice
        BY <3>6 DEF NewDevice, world
      <3>7. CASE SetAddress
        BY <3>7 DEF SetAddress
      <3>8. CASE GetDescriptor
        BY <3>8 DEF GetDescriptor, world
      <3>9. CASE Strings
        BY <3>9 DEF Strings, world
      <3>10. CASE BindHub
        BY <3>10 DEF BindHub, world
      <3>11. CASE Suspend
        BY <3>11 DEF Suspend, world
      <3> QED
        BY <1>5, <3>1, <3>2, <3>3, <3>4, <3>5, <3>6, <3>7, <3>8, <3>9, <3>10, <3>11
    <2>3. Plugged'
      BY <1>1, <2>2 DEF Plugged
    <2>4. ASSUME "stray" \notin marks' PROVE Order' /\ Reported' /\ Left'
      <3>1. Order /\ Reported /\ Left
        BY <1>1, <2>4 DEF BusSound
      <3> QED
        BY <1>1, <1>5, <3>1, AsksBus, MovesBus, ReportsBus, SchedulingBus, NewDeviceBus,
           SetAddressBus, GetDescriptorBus, StringsBus, BindHubBus, SuspendBus
    <2> QED
      BY <2>3, <2>4 DEF BusSound
  <1> QED
    BY <1>2, <1>3, <1>4, <1>5, NextIs DEF Plain, Asks, Moves

LEMMA BusIsSound ==
    ASSUME Types, Names, BusSound
    PROVE  AddressesApart
  <1>1. SUFFICES ASSUME "stray" \notin marks, NEW t \in Things, NEW u \in Things,
                        bus[t] = bus[u], bus[t] # Off
                 PROVE  t = u
    BY DEF AddressesApart
  <1>2. Apart /\ Fresh /\ bus[t] \in Int /\ bus[t] >= -1
    BY <1>1 DEF BusSound, Order, Types, WorldTypes, Names, Bounds, Off
  <1>3. CASE bus[t] = 0
    BY <1>1, <1>2, <1>3 DEF Fresh
  <1>4. CASE bus[t] > 0
    BY <1>1, <1>2, <1>4 DEF Apart
  <1> QED
    BY <1>1, <1>2, <1>3, <1>4 DEF Off

(* The tree of devices is consistent in the list, in the address map, on   *)
(* the ports and on the bus, with the exceptions DevicesSound names: for   *)
(* every set of things and sockets, any number of structures and           *)
(* addresses, and however the user plugs while the handler runs.           *)
THEOREM DevicesAreSound == Spec => []DevicesSound
  <1>1. Init => Base /\ Names /\ Kin /\ BusSound
    BY InitIs, InitKin, InitIsSound
  <1>2. Base /\ Names /\ Kin /\ BusSound /\ [Next]_vars => Base' /\ Names' /\ Kin' /\ BusSound'
    <2>1. ASSUME Base, Names, Kin, BusSound, Next PROVE Base' /\ Names' /\ Kin' /\ BusSound'
      BY <2>1, BaseNext, NamesNext, KinNext, BusNext
    <2>2. ASSUME Base, Names, Kin, BusSound, UNCHANGED vars
          PROVE  Base' /\ Names' /\ Kin' /\ BusSound'
      <3>1. /\ UNCHANGED <<plug, bus, td, intbm, irq, dev, port, devlist, addrbm, nextAddr>>
            /\ UNCHANGED <<halted, marks>> /\ Live' = Live
        BY <2>2 DEF vars, world, hc, core, Live
      <3>2. Kin'
        BY <2>2, <3>1 DEF Kin, ListWhole, Owners, Nameless, Portless
      <3>3. Plugged' /\ (Reported => Reported') /\ (Left => Left')
        BY <2>2, <3>1 DEF BusSound, Plugged, Reported, Left, Owned
      <3>4. Order => Order'
        BY <3>1 DEF Order, Powered, Fresh, Apart, Taken, Answered, Answers, Sited, Branches, Resetting
      <3> QED
        BY <2>2, <3>1, <3>2, <3>3, <3>4, StutterKeeps DEF BusSound
    <2> QED
      BY <2>1, <2>2
  <1>3. Base /\ Names /\ Kin /\ BusSound => DevicesSound
    BY KinIsSound, BusIsSound DEF DevicesSound, Base
  <1> QED
    BY <1>1, <1>2, <1>3, PTL DEF Spec
=============================================================================
