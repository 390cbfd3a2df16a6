----------------------------- MODULE BpmpProofs -----------------------------
(***************************************************************************)
(* Proofs about libtx2bpmp's bpmp.c.  First BpmpLifecycle, for any set of  *)
(* handles and any width of the reference count that can hold them; then   *)
(* BpmpCall, for any number of timeouts and resets and any range of        *)
(* request numbers that tells the outstanding ones apart; then both        *)
(* together.                                                               *)
(***************************************************************************)
EXTENDS Bpmp, FiniteSetTheorems, SequenceTheorems, TLAPS

(* A difference of at most a whole turn, reduced to an unsigned count.     *)
LEMMA Reduced ==
    ASSUME NEW M \in Nat, NEW d \in Int, 0 - M <= d, d < M
    PROVE  /\ d >= 0 => d % M = d
           /\ d < 0 => d % M = d + M
  OBVIOUS

(* A whole turn is nothing.                                                *)
LEMMA WholeTurn == ASSUME NEW M \in Nat, M > 0 PROVE M % M = 0
  OBVIOUS

(* An unsigned count, whatever is reduced to it, is in range.              *)
LEMMA InRange ==
    ASSUME NEW M \in Nat, M > 0, NEW d \in Int
    PROVE  d % M \in 0..(M - 1)
  OBVIOUS

(* The constants: the count can hold every handle and every failure.       *)
LEMMA Constants ==
    /\ Cardinality(Handles) \in Nat
    /\ RefMod \in Nat /\ RefMod > 0
    /\ RefMod > Cardinality(Handles) + MaxFails
  <1>1. Cardinality(Handles) \in Nat
    BY HandlesAssumption, FS_CardinalityType
  <1> QED
    BY <1>1, RefAssumption, LifeAssumption

(* refcount++ and refcount-- on a count that stands for a difference.      *)
LEMMA CountSteps ==
    ASSUME NEW d \in Int, 0 - MaxFails <= d, d <= Cardinality(Handles)
    PROVE  /\ d < Cardinality(Handles) =>
                 ((d % RefMod) + 1) % RefMod = (d + 1) % RefMod
           /\ 0 - MaxFails < d =>
                 ((d % RefMod) - 1) % RefMod = (d - 1) % RefMod
  <1> DEFINE N == Cardinality(Handles)
  <1>0. N \in Nat /\ RefMod \in Nat /\ RefMod > N + MaxFails /\ MaxFails \in Nat
    BY Constants, LifeAssumption
  <1>1. (d >= 0 => d % RefMod = d) /\ (d < 0 => d % RefMod = d + RefMod)
    BY <1>0, Reduced
  <1> HIDE DEF N
  <1>2. ASSUME d < N PROVE ((d % RefMod) + 1) % RefMod = (d + 1) % RefMod
    <2>1. CASE d = -1
      <3>1. d % RefMod = RefMod - 1
        BY <1>0, <1>1, <2>1
      <3>2. RefMod % RefMod = 0 /\ 0 % RefMod = 0
        BY <1>0, WholeTurn, Reduced
      <3> QED
        BY <1>0, <2>1, <3>1, <3>2
    <2>2. CASE d >= 0
      BY <1>1, <2>2
    <2>3. CASE d < -1
      <3>1. PICK e \in Int : e = d + RefMod + 1
        BY <1>0
      <3>2. PICK f \in Int : f = d + 1
        OBVIOUS
      <3>3. e % RefMod = e
        <4>1. 0 - RefMod <= e /\ e < RefMod /\ e >= 0
          BY <1>0, <2>3, <3>1
        <4> QED BY ONLY <1>0, <4>1, Reduced
      <3>4. f % RefMod = f + RefMod
        <4>1. 0 - RefMod <= f /\ f < RefMod /\ f < 0
          BY <1>0, <2>3, <3>2
        <4> QED BY ONLY <1>0, <4>1, Reduced
      <3> QED
        BY <1>0, <1>1, <2>3, <3>1, <3>2, <3>3, <3>4
    <2> QED
      BY <2>1, <2>2, <2>3
  <1>3. ASSUME 0 - MaxFails < d
        PROVE  ((d % RefMod) - 1) % RefMod = (d - 1) % RefMod
    <2>1. CASE d >= 0
      BY <1>1, <2>1
    <2>2. CASE d < 0
      <3>1. PICK e \in Int : e = d + RefMod - 1
        BY <1>0
      <3>2. PICK f \in Int : f = d - 1
        OBVIOUS
      <3>3. e % RefMod = e
        <4>1. 0 - RefMod <= e /\ e < RefMod /\ e >= 0
          BY <1>0, <1>3, <2>2, <3>1
        <4> QED BY ONLY <1>0, <4>1, Reduced
      <3>4. f % RefMod = f + RefMod
        <4>1. 0 - RefMod <= f /\ f < RefMod /\ f < 0
          BY <1>0, <1>3, <2>2, <3>2
        <4> QED BY ONLY <1>0, <4>1, Reduced
      <3> QED
        BY <1>0, <1>1, <2>2, <3>1, <3>2, <3>3, <3>4
    <2> QED
      BY <2>1, <2>2
  <1> QED
    BY <1>2, <1>3 DEF N
-----------------------------------------------------------------------------
(* bpmp_refcount is the number of open handles, less one for every init    *)
(* that went to fail.                                                      *)
CountIs == refcount = (Cardinality(open) - fails) % RefMod

LEMMA InitType == Init => TypeOK
  <1> SUFFICES ASSUME Init PROVE TypeOK
    OBVIOUS
  <1>1. refcount \in 0..(RefMod - 1) /\ early \in 0..MaxEarly /\ fails \in 0..MaxFails
    BY Constants, LifeAssumption DEF Init
  <1>2. pointer \subseteq Resources /\ live \subseteq Resources /\ open \subseteq Handles
    BY Zenon DEF Init
  <1>4. lost \in [Resources -> Nat]
    BY DEF Init
  <1>3. initialised \in BOOLEAN /\ reopened \in BOOLEAN /\ misuse \in BOOLEAN
    BY Zenon DEF Init
  <1> QED
    BY <1>1, <1>2, <1>3, <1>4, Zenon DEF TypeOK

(* What is stored over or dropped is one more of its kind.                 *)
LEMMA LosingType ==
    ASSUME TypeOK, NEW s
    PROVE  Losing(s) \in [Resources -> Nat]
  BY DEF TypeOK, Losing

LEMMA NextType == TypeOK /\ [Next]_vars => TypeOK'
  <1> SUFFICES ASSUME TypeOK, [Next]_vars PROVE TypeOK'
    OBVIOUS
  <1>0. RefMod \in Nat /\ RefMod > 0 /\ MaxEarly \in Nat /\ MaxFails \in Nat
    BY Constants, LifeAssumption
  <1>1. refcount \in 0..(RefMod - 1) /\ refcount \in Int
    BY <1>0 DEF TypeOK
  <1>2. /\ (refcount + 1) % RefMod \in 0..(RefMod - 1)
        /\ (refcount - 1) % RefMod \in 0..(RefMod - 1)
    BY <1>0, <1>1, InRange
  <1>3. ASSUME NEW p \in SUBSET Resources, NEW l \in SUBSET Resources, Release(p, l)
        PROVE  /\ refcount' \in 0..(RefMod - 1)
               /\ live' \subseteq Resources /\ misuse' \in BOOLEAN
    <2>1. refcount' \in 0..(RefMod - 1)
      BY <1>2, <1>3 DEF Release
    <2>2. live' \subseteq Resources
      BY <1>3 DEF Release
    <2>3. misuse' \in BOOLEAN
      BY <1>3, Zenon DEF Release
    <2> QED
      BY <2>1, <2>2, <2>3
  <1>4. CASE UNCHANGED vars
    BY <1>4 DEF TypeOK, vars
  <1>5. ASSUME NEW h \in Handles, InitAgain(h) PROVE TypeOK'
    <2>1. reopened' \in BOOLEAN
      BY <1>5, Zenon DEF InitAgain
    <2> QED
      BY <1>2, <1>5, <2>1 DEF TypeOK, InitAgain, Success
  <1>6. ASSUME NEW h \in Handles, InitFirst(h) PROVE TypeOK'
    BY <1>2, <1>6, LosingType DEF TypeOK, InitFirst, Success
  <1>7. ASSUME NEW h \in Handles, InitReturnsEarly(h) PROVE TypeOK'
    <2>1. early' \in 0..MaxEarly
      BY <1>0, <1>7 DEF TypeOK, InitReturnsEarly
    <2>2. \A step \in EarlyReturns : step.got \subseteq Resources
      BY DEF EarlyReturns, Resources
    <2>3. pointer' \subseteq Resources /\ live' \subseteq Resources
          /\ lost' \in [Resources -> Nat]
      BY <1>7, <2>2, LosingType DEF TypeOK, InitReturnsEarly
    <2> QED
      BY <1>7, <2>1, <2>3 DEF TypeOK, InitReturnsEarly
  <1>8. ASSUME NEW h \in Handles, InitFails(h) PROVE TypeOK'
    <2>1. fails' \in 0..MaxFails
      BY <1>0, <1>8 DEF TypeOK, InitFails
    <2>2. /\ refcount' \in 0..(RefMod - 1)
          /\ live' \subseteq Resources /\ misuse' \in BOOLEAN
      BY <1>3, <1>8 DEF InitFails
    <2> QED
      BY <1>8, <2>1, <2>2, LosingType DEF TypeOK, InitFails
  <1>9. ASSUME NEW h \in Handles, Destroy(h) PROVE TypeOK'
    <2>1. /\ refcount' \in 0..(RefMod - 1)
          /\ live' \subseteq Resources /\ misuse' \in BOOLEAN
      BY <1>3, <1>9 DEF Destroy, TypeOK
    <2> QED
      BY <1>9, <2>1 DEF TypeOK, Destroy
  <1> QED
    BY <1>4, <1>5, <1>6, <1>7, <1>8, <1>9 DEF Next
-----------------------------------------------------------------------------
LEMMA InitCount == Init => CountIs
  <1> SUFFICES ASSUME Init PROVE CountIs
    OBVIOUS
  <1>1. Cardinality(open) = 0 /\ fails = 0 /\ refcount = 0
    BY FS_EmptySet DEF Init
  <1>2. 0 % RefMod = 0
    BY Constants, Reduced
  <1> QED
    BY <1>1, <1>2 DEF CountIs

(* The sizes of the sets of open handles, and what they bound.             *)
LEMMA OpenSize ==
    ASSUME TypeOK
    PROVE  /\ IsFiniteSet(open) /\ Cardinality(open) \in Nat
           /\ Cardinality(open) <= Cardinality(Handles)
           /\ fails \in Int /\ 0 <= fails /\ fails <= MaxFails
  <1>1. IsFiniteSet(open) /\ Cardinality(open) <= Cardinality(Handles)
    BY HandlesAssumption, FS_Subset DEF TypeOK
  <1>2. Cardinality(open) \in Nat
    BY <1>1, FS_CardinalityType
  <1> QED
    BY <1>1, <1>2, LifeAssumption DEF TypeOK

LEMMA NextCount == TypeOK /\ TypeOK' /\ CountIs /\ [Next]_vars => CountIs'
  <1> SUFFICES ASSUME TypeOK, TypeOK', CountIs, [Next]_vars PROVE CountIs'
    OBVIOUS
  <1> DEFINE n == Cardinality(open)
             N == Cardinality(Handles)
  <1>1. /\ IsFiniteSet(open) /\ n \in Nat /\ n <= N
        /\ fails \in Int /\ 0 <= fails /\ fails <= MaxFails
    BY OpenSize
  <1>2. N \in Nat /\ MaxFails \in Nat
    BY Constants, LifeAssumption
  <1>3. PICK d \in Int : d = n - fails
    BY <1>1
  <1>4. refcount = d % RefMod
    BY <1>3 DEF CountIs
  <1>5. 0 - MaxFails <= d /\ d <= N
    <2> HIDE DEF n, N
    <2> QED BY <1>1, <1>2, <1>3
  <1>6. /\ d < N => (refcount + 1) % RefMod = (d + 1) % RefMod
        /\ 0 - MaxFails < d => (refcount - 1) % RefMod = (d - 1) % RefMod
    BY <1>4, <1>5, CountSteps
  <1>7. ASSUME NEW h \in Handles, MayOpen(h), Success(h), fails' = fails
        PROVE  CountIs'
    <2>1. Cardinality(open') = n + 1
      <3>1. h \notin open /\ open' = open \cup {h}
        BY <1>7 DEF MayOpen, Success
      <3> QED
        BY <1>1, <3>1, FS_AddElement
    <2>2. Cardinality(open') <= N
      BY HandlesAssumption, FS_Subset DEF TypeOK
    <2>3. d < N
      <3> HIDE DEF n, N
      <3> QED BY <1>1, <1>2, <1>3, <2>1, <2>2
    <2>4. refcount' = (d + 1) % RefMod
      BY <1>6, <1>7, <2>3 DEF Success
    <2>5. Cardinality(open') - fails' = d + 1
      <3> HIDE DEF n, N
      <3> QED BY <1>1, <1>3, <1>7, <2>1
    <2> QED
      BY <2>4, <2>5 DEF CountIs
  <1>8. CASE UNCHANGED vars
    BY <1>8 DEF CountIs, vars
  <1>9. ASSUME NEW h \in Handles, InitAgain(h) PROVE CountIs'
    BY <1>7, <1>9 DEF InitAgain
  <1>10. ASSUME NEW h \in Handles, InitFirst(h) PROVE CountIs'
    BY <1>7, <1>10 DEF InitFirst
  <1>11. ASSUME NEW h \in Handles, InitReturnsEarly(h) PROVE CountIs'
    BY <1>11 DEF InitReturnsEarly, CountIs
  <1>12. ASSUME NEW h \in Handles, InitFails(h) PROVE CountIs'
    <2>1. open' = open /\ fails' = fails + 1 /\ fails < MaxFails
      BY <1>12 DEF InitFails
    <2>2. 0 - MaxFails < d
      <3> HIDE DEF n, N
      <3> QED BY <1>1, <1>2, <1>3, <2>1
    <2>3. refcount' = (d - 1) % RefMod
      BY <1>6, <1>12, <2>2 DEF InitFails, Release
    <2>4. Cardinality(open') - fails' = d - 1
      <3>1. Cardinality(open') = n
        BY <2>1
      <3> HIDE DEF n, N
      <3> QED BY <1>1, <1>3, <2>1, <3>1
    <2> QED
      BY <2>3, <2>4 DEF CountIs
  <1>13. ASSUME NEW h \in Handles, Destroy(h) PROVE CountIs'
    <2>1. h \in open /\ open' = open \ {h} /\ fails' = fails
      BY <1>13 DEF Destroy
    <2>2. Cardinality(open') = n - 1
      BY <1>1, <2>1, FS_RemoveElement
    <2>3. n > 0
      BY <1>1, <2>1, FS_EmptySet
    <2>4. 0 - MaxFails < d
      <3> HIDE DEF n, N
      <3> QED BY <1>1, <1>2, <1>3, <2>3
    <2>5. refcount' = (d - 1) % RefMod
      BY <1>6, <1>13, <2>4 DEF Destroy, Release
    <2>6. Cardinality(open') - fails' = d - 1
      <3> HIDE DEF n, N
      <3> QED BY <1>1, <1>3, <2>1, <2>2
    <2> QED
      BY <2>5, <2>6 DEF CountIs
  <1> QED
    BY <1>8, <1>9, <1>10, <1>11, <1>12, <1>13 DEF Next

LEMMA CountInRange == TypeOK /\ CountIs => CountTracks
  <1> SUFFICES ASSUME TypeOK, CountIs, fails = 0 PROVE refcount = Cardinality(open)
    BY DEF CountTracks
  <1>1. PICK n \in Nat : n = Cardinality(open) /\ n <= Cardinality(Handles)
    BY OpenSize
  <1>2. n - 0 = n /\ n < RefMod
    BY <1>1, Constants, LifeAssumption
  <1>3. n % RefMod = n
    BY <1>1, <1>2, Constants, Reduced
  <1> QED
    BY <1>1, <1>2, <1>3 DEF CountIs

(* bpmp_refcount is, at every moment and for any number of handles, the    *)
(* number of references that are valid, as long as no init goes to fail.   *)
THEOREM CountAlwaysTracks == Spec => [](TypeOK /\ CountTracks)
  <1>1. Init => TypeOK /\ CountIs
    BY InitType, InitCount
  <1>2. TypeOK /\ CountIs /\ [Next]_vars => (TypeOK /\ CountIs)'
    BY NextType, NextCount
  <1>3. TypeOK /\ CountIs => CountTracks
    BY CountInRange
  <1> QED
    BY <1>1, <1>2, <1>3, PTL DEF Spec
-----------------------------------------------------------------------------
(* What LiveWhileOrderly needs to be inductive.                            *)
HeldInv ==
    /\ ~initialised => open = {}
    /\ Orderly /\ open # {} => live = Resources /\ pointer = Resources

(* A count that reaches zero means that nobody is left, while no init has  *)
(* gone to fail.                                                           *)
LEMMA ZeroMeansLast ==
    ASSUME NEW s \in SUBSET Handles, s # {}
    PROVE  (Cardinality(s) - 0) % RefMod # 0
  <1>1. IsFiniteSet(s) /\ Cardinality(s) <= Cardinality(Handles)
    BY HandlesAssumption, FS_Subset
  <1>2. Cardinality(s) \in Nat /\ Cardinality(s) # 0
    BY <1>1, FS_CardinalityType, FS_EmptySet
  <1>3. PICK k \in Int : k = Cardinality(s) - 0
    BY <1>2
  <1>4. k % RefMod = k
    BY <1>1, <1>2, <1>3, Constants, LifeAssumption, Reduced
  <1> QED
    BY <1>2, <1>3, <1>4

LEMMA NextHeld ==
    ASSUME TypeOK, TypeOK', CountIs', HeldInv, [Next]_vars
    PROVE  HeldInv'
  <1>1. CASE UNCHANGED vars
    BY <1>1 DEF HeldInv, Orderly, vars
  <1>2. ASSUME NEW h \in Handles, InitAgain(h) PROVE HeldInv'
    <2>1. initialised'
      BY <1>2 DEF InitAgain, Success
    <2>2. ASSUME Orderly' PROVE Orderly /\ open # {}
      BY <1>2, <2>2, Zenon DEF InitAgain, Orderly
    <2> QED
      BY <1>2, <2>1, <2>2 DEF HeldInv, InitAgain
  <1>3. ASSUME NEW h \in Handles, InitFirst(h) PROVE HeldInv'
    BY <1>3 DEF HeldInv, InitFirst, Success
  <1>4. ASSUME NEW h \in Handles, InitReturnsEarly(h) PROVE HeldInv'
    BY <1>4 DEF HeldInv, InitReturnsEarly
  <1>5. ASSUME NEW h \in Handles, InitFails(h) PROVE HeldInv'
    <2>1. ~Orderly'
      BY <1>5, LifeAssumption DEF InitFails, Orderly, TypeOK
    <2> QED
      BY <1>5, <2>1 DEF HeldInv, InitFails
  <1>6. ASSUME NEW h \in Handles, Destroy(h) PROVE HeldInv'
    <2>1. /\ open # {} /\ initialised
          /\ initialised' = initialised /\ pointer' = pointer
          /\ Orderly' = Orderly
      BY <1>6 DEF HeldInv, Destroy, Orderly
    <2>2. ASSUME Orderly', open' # {} PROVE live' = Resources /\ pointer' = Resources
      <3>1. refcount' # 0
        <4>1. open' \in SUBSET Handles /\ fails' = 0
          BY <2>2 DEF Orderly, TypeOK
        <4>2. (Cardinality(open') - 0) % RefMod # 0
          BY <2>2, <4>1, ZeroMeansLast
        <4> QED
          BY <4>1, <4>2 DEF CountIs
      <3> QED
        BY <1>6, <2>1, <2>2, <3>1 DEF HeldInv, Destroy, Release
    <2> QED
      BY <2>1, <2>2 DEF HeldInv
  <1> QED
    BY <1>1, <1>2, <1>3, <1>4, <1>5, <1>6 DEF Next

(* "Only cleanup the BPMP structure if there are no more references that   *)
(* are valid" holds of bpmp_destroy for any number of handles, up to the   *)
(* first init that takes the fail path or follows the last destroy.        *)
THEOREM LiveWhileOrderlyHolds == Spec => []LiveWhileOrderly
  <1>1. Init => TypeOK /\ CountIs /\ HeldInv
    BY InitType, InitCount DEF Init, HeldInv
  <1>2. /\ TypeOK /\ CountIs /\ HeldInv /\ [Next]_vars
        => (TypeOK /\ CountIs /\ HeldInv)'
    BY NextType, NextCount, NextHeld
  <1>3. HeldInv => LiveWhileOrderly
    BY DEF HeldInv, LiveWhileOpen, LiveWhileOrderly
  <1> QED
    BY <1>1, <1>2, <1>3, PTL DEF Spec
-----------------------------------------------------------------------------
(* The destroy that brings the count of an orderly client to zero is the   *)
(* one that closes the last handle, and it finds everything in place.      *)
LEMMA NextReleased ==
    ASSUME TypeOK, TypeOK', CountIs', HeldInv, ReleasedOnce, [Next]_vars
    PROVE  ReleasedOnce'
  <1>1. CASE UNCHANGED vars
    BY <1>1 DEF ReleasedOnce, Orderly, vars
  <1>2. ASSUME NEW h \in Handles, InitAgain(h) PROVE ReleasedOnce'
    <2>1. open' # {} /\ misuse' = misuse
      BY <1>2 DEF InitAgain, Success
    <2>2. ASSUME Orderly' PROVE Orderly
      BY <1>2, <2>2, Zenon DEF InitAgain, Orderly
    <2> QED
      BY <2>1, <2>2 DEF ReleasedOnce
  <1>3. ASSUME NEW h \in Handles, InitFirst(h) PROVE ReleasedOnce'
    <2>1. open' # {} /\ misuse' = misuse /\ Orderly' = Orderly
      BY <1>3 DEF InitFirst, Success, Orderly
    <2> QED
      BY <2>1 DEF ReleasedOnce
  <1>4. ASSUME NEW h \in Handles, InitReturnsEarly(h) PROVE ReleasedOnce'
    <2>1. ~initialised' /\ misuse' = misuse /\ Orderly' = Orderly
      BY <1>4 DEF InitReturnsEarly, Orderly
    <2> QED
      BY <2>1 DEF ReleasedOnce
  <1>5. ASSUME NEW h \in Handles, InitFails(h) PROVE ReleasedOnce'
    <2>1. ~Orderly'
      BY <1>5, LifeAssumption DEF InitFails, Orderly, TypeOK
    <2> QED
      BY <2>1 DEF ReleasedOnce
  <1>6. ASSUME NEW h \in Handles, Destroy(h), Orderly'
        PROVE  ~misuse' /\ (initialised' /\ open' = {} => live' = {})
    <2>1. Orderly /\ ~misuse /\ live = Resources /\ pointer = Resources
      BY <1>6 DEF Destroy, Orderly, HeldInv, ReleasedOnce
    <2>2. ~misuse'
      BY <1>6, <2>1, Zenon DEF Destroy, Release
    <2>3. ASSUME open' = {} PROVE live' = {}
      <3>1. fails' = 0 /\ Cardinality(open') = 0
        BY <1>6, <2>3, FS_EmptySet DEF Orderly
      <3>2. refcount' = 0
        BY <3>1, Constants, Reduced DEF CountIs
      <3> QED
        BY <1>6, <2>1, <3>2 DEF Destroy, Release
    <2> QED
      BY <2>2, <2>3
  <1> QED
    BY <1>1, <1>2, <1>3, <1>4, <1>5, <1>6 DEF Next, ReleasedOnce

(* What LostByFailures needs to be inductive: before the init that brings  *)
(* the BPMP up, what the pointers lead to was also left by a failed one.   *)
LostInv ==
    \A r \in Resources :
       lost[r] + (IF ~initialised /\ r \in live THEN 1 ELSE 0) <= early + fails

LEMMA NextLost ==
    ASSUME TypeOK, TypeOK', LostInv, [Next]_vars
    PROVE  LostInv'
  <1> SUFFICES ASSUME NEW r \in Resources
               PROVE  lost'[r] + (IF ~initialised' /\ r \in live' THEN 1 ELSE 0)
                         <= early' + fails'
    BY DEF LostInv
  <1> DEFINE Kept == lost'[r] + (IF ~initialised' /\ r \in live' THEN 1 ELSE 0)
                        <= early' + fails'
  <1>1. PICK n \in Nat : n = lost[r]
    BY DEF TypeOK
  <1>2. /\ early \in Nat /\ fails \in Nat
        /\ n + (IF ~initialised /\ r \in live THEN 1 ELSE 0) <= early + fails
    BY <1>1, LifeAssumption DEF TypeOK, LostInv
  <1>3. \A s : Losing(s)[r] = IF r \in s THEN n + 1 ELSE n
    BY <1>1 DEF Losing
  <1>4. CASE UNCHANGED vars
    BY <1>1, <1>2, <1>4 DEF vars
  <1>5. ASSUME NEW h \in Handles, InitAgain(h) PROVE Kept
    BY <1>1, <1>2, <1>5 DEF InitAgain, Success
  <1>6. ASSUME NEW h \in Handles, InitFirst(h) PROVE Kept
    <2>1. /\ ~initialised /\ initialised' /\ early' = early /\ fails' = fails
          /\ lost'[r] = IF r \in live THEN n + 1 ELSE n
      BY <1>3, <1>6 DEF InitFirst, Success
    <2> QED
      BY <1>2, <2>1
  <1>7. ASSUME NEW h \in Handles, InitReturnsEarly(h) PROVE Kept
    <2>1. PICK step \in EarlyReturns :
             /\ live' = (live \ step.null) \cup step.got
             /\ lost' = Losing((live \cap (step.null \cup step.got)) \cup step.drop)
      BY <1>7 DEF InitReturnsEarly
    <2>2. ~initialised /\ ~initialised' /\ early' = early + 1 /\ fails' = fails
      BY <1>7 DEF InitReturnsEarly
    <2>3. /\ step.null \cap step.got = {}
          /\ step.drop \cap (step.null \cup step.got) = {}
      BY DEF EarlyReturns, Resources
    <2>4. /\ lost'[r] = IF r \in (live \cap (step.null \cup step.got)) \cup step.drop
                        THEN n + 1 ELSE n
      BY <1>3, <2>1
    <2>5. /\ r \in live' => \/ r \in live /\ r \notin step.null
                           \/ r \in step.got
          /\ r \in step.got => r \notin step.drop
      BY <2>1, <2>3
    <2>6. CASE r \in step.drop
      BY <1>2, <2>2, <2>3, <2>4, <2>5, <2>6
    <2>7. CASE r \in step.got
      BY <1>2, <2>2, <2>3, <2>4, <2>5, <2>7
    <2>8. CASE r \notin step.drop /\ r \notin step.got
      BY <1>2, <2>1, <2>2, <2>4, <2>5, <2>8
    <2> QED
      BY <2>6, <2>7, <2>8
  <1>8. ASSUME NEW h \in Handles, InitFails(h) PROVE Kept
    <2>1. /\ ~initialised /\ early' = early /\ fails' = fails + 1
          /\ lost'[r] = IF r \in live THEN n + 1 ELSE n
      BY <1>3, <1>8 DEF InitFails
    <2> QED
      BY <1>2, <2>1
  <1>9. ASSUME NEW h \in Handles, Destroy(h) PROVE Kept
    <2>1. /\ initialised' = initialised /\ lost' = lost /\ early' = early /\ fails' = fails
          /\ live' \subseteq live
      BY <1>9 DEF Destroy, Release
    <2> QED
      BY <1>1, <1>2, <2>1
  <1> QED
    BY <1>4, <1>5, <1>6, <1>7, <1>8, <1>9 DEF Next

(* For any number of handles, early returns and failures: no bpmp_destroy  *)
(* of an orderly client releases anything twice, its last one releases     *)
(* whatever a pointer leads to, and mappings and allocations are lost only *)
(* by inits that fail, at most one of each kind by each.                   *)
THEOREM LifecycleIsSound == Spec => []LifecycleSound
  <1> DEFINE LifeInv == TypeOK /\ CountIs /\ HeldInv /\ ReleasedOnce /\ LostInv
  <1>1. Init => LifeInv
    <2>1. Init => LostInv
      BY DEF Init, LostInv
    <2> QED
      BY <2>1, InitType, InitCount DEF Init, HeldInv, ReleasedOnce
  <1>2. LifeInv /\ [Next]_vars => LifeInv'
    BY NextType, NextCount, NextHeld, NextReleased, NextLost
  <1>3. LifeInv => LifecycleSound
    <2>1. ASSUME TypeOK, LostInv, NEW r \in Resources PROVE lost[r] <= early + fails
      <3>1. lost[r] \in Nat /\ early \in Nat /\ fails \in Nat
        BY <2>1, LifeAssumption DEF TypeOK
      <3> QED
        BY <2>1, <3>1 DEF LostInv
    <2> QED
      BY <2>1 DEF LifecycleSound, LostByFailures
  <1> QED
    BY <1>1, <1>2, <1>3, PTL DEF Spec
-----------------------------------------------------------------------------
(* The inductive invariant.  A request and its response pass through three *)
(* places of one item each: the channel out, the firmware, the channel     *)
(* back.                                                                   *)
Out == Len(q["cpu"])
Back == Len(q["peer"])
InFw == IF serving = 0 THEN 0 ELSE 1
Waits == IF pc = "wait" THEN 1 ELSE 0

\* Requests sent after x.
Age(x) == (sent - x) % Ids

\* Each item is as old as the number of items behind it.
Aged ==
    /\ Out = 1 => q["cpu"][1] = sent
    /\ serving # 0 => Age(serving) = Out
    /\ Back = 1 => Age(q["peer"][1]) = Out + InFw

\* An end of the channel leaves the service for good when it sees a reset.
Protocol ==
    /\ state["cpu"] \in {"established", "ack"}
    /\ state["peer"] \in {"established", "sync"}
    /\ resets = 0 => Established /\ state["peer"] = "established"
    /\ ~Established => pc = "idle" /\ result.answer = 0
    /\ pc = "wait" => sent # 0

\* Both ends are in service.
InService == Established /\ state["peer"] = "established"

CallsInv ==
    /\ CallTypeOK /\ Protocol
    /\ InService => Aged /\ Out + Back + InFw <= timeouts + Waits
    /\ pc = "idle" /\ result.answer # 0 => Age(result.answer) <= timeouts
-----------------------------------------------------------------------------
(* Numbers of requests.                                                    *)

LEMMA ReducedIds ==
    ASSUME NEW d \in Int, 0 - Ids <= d, d < Ids
    PROVE  /\ d >= 0 => d % Ids = d
           /\ d < 0 => d % Ids = d + Ids
  BY BoundsAssumption

LEMMA IdsNat == Ids \in Nat /\ Ids > 4
  BY BoundsAssumption

LEMMA NextIdValue ==
    ASSUME sent \in 0..Ids
    PROVE  /\ NextId \in 1..Ids
           /\ sent < Ids => NextId = sent + 1
           /\ sent = Ids => NextId = 1
  <1>1. CASE sent < Ids
    BY <1>1, IdsNat, ReducedIds DEF NextId
  <1>2. CASE sent = Ids
    <2>1. Ids % Ids = 0
      BY IdsNat
    <2> QED
      BY <1>2, <2>1, IdsNat DEF NextId
  <1> QED
    BY <1>1, <1>2, IdsNat

\* A request behind which another one is sent is one older.
LEMMA OneOlder ==
    ASSUME NEW s \in 0..Ids, NEW n \in 1..Ids, NEW x \in 1..Ids,
           s < Ids => n = s + 1, s = Ids => n = 1,
           NEW k \in 0..2, (s - x) % Ids = k
    PROVE  (n - x) % Ids = k + 1
  <1>1. /\ s - x >= 0 => s - x = k
        /\ s - x < 0 => s - x + Ids = k
    BY IdsNat, ReducedIds
  <1>2. /\ n - x >= 0 => (n - x) % Ids = n - x
        /\ n - x < 0 => (n - x) % Ids = n - x + Ids
    BY IdsNat, ReducedIds
  <1> QED
    BY <1>1, <1>2, IdsNat

LEMMA AgeZero ==
    ASSUME NEW s \in 1..Ids, NEW x \in 1..Ids
    PROVE  (s - x) % Ids = 0 <=> x = s
  <1>1. /\ s - x >= 0 => (s - x) % Ids = s - x
        /\ s - x < 0 => (s - x) % Ids = s - x + Ids
    BY IdsNat, ReducedIds
  <1> QED
    BY <1>1, IdsNat

\* A queue of at most one frame.
LEMMA OneFrame ==
    ASSUME NEW S, NEW s \in Seq(S), Len(s) <= 1
    PROVE  /\ Len(s) \in {0, 1}
           /\ Len(s) = 0 <=> s = <<>>
           /\ s # <<>> => Head(s) = s[1] /\ s[1] \in S /\ Tail(s) = <<>>
  <1>1. Len(s) \in {0, 1} /\ (Len(s) = 0 <=> s = <<>>)
    <2>1. Len(s) \in {0, 1}
      <3>1. PICK n \in Nat : n = Len(s)
        BY LenProperties
      <3>2. n \in {0, 1}
        BY <3>1
      <3> QED
        BY <3>1, <3>2
    <2>2. Len(s) = 0 <=> s = <<>>
      BY EmptySeq
    <2> QED
      BY <2>1, <2>2
  <1>2. ASSUME s # <<>> PROVE Head(s) = s[1] /\ s[1] \in S /\ Tail(s) = <<>>
    <2>1. Len(s) = 1 /\ Tail(s) \in Seq(S) /\ Len(Tail(s)) = 0
      BY <1>1, <1>2, HeadTailProperties
    <2>2. Tail(s) = <<>>
      BY <2>1, EmptySeq
    <2>3. s[1] \in S
      BY <2>1, ElementOfSeq
    <2>4. Head(s) = s[1]
      BY <1>2
    <2> QED
      BY <2>2, <2>3, <2>4
  <1> QED
    BY <1>1, <1>2

LEMMA AppendOne ==
    ASSUME NEW s \in Seq(1..Ids), Len(s) < 1, NEW x \in 1..Ids
    PROVE  Append(s, x) \in Seq(1..Ids) /\ Len(Append(s, x)) = 1 /\ Append(s, x)[1] = x
  OBVIOUS
-----------------------------------------------------------------------------
(* What the invariant says of the two queues.                              *)
Queues ==
    /\ q \in [Ends -> Seq(1..Ids)]
    /\ Out \in {0, 1} /\ Back \in {0, 1}

LEMMA TypesAndQueues ==
    ASSUME CallsInv
    PROVE  /\ Queues
           /\ Out = 0 <=> q["cpu"] = <<>>
           /\ Back = 0 <=> q["peer"] = <<>>
           /\ q["cpu"] # <<>> => /\ Head(q["cpu"]) = q["cpu"][1]
                                /\ q["cpu"][1] \in 1..Ids /\ Tail(q["cpu"]) = <<>>
           /\ q["peer"] # <<>> => /\ Head(q["peer"]) = q["peer"][1]
                                 /\ q["peer"][1] \in 1..Ids /\ Tail(q["peer"]) = <<>>
  BY OneFrame DEF CallsInv, CallTypeOK, Queues, Out, Back, Ends, FrameCount

LEMMA CallsInitEstablishes ==
    ASSUME CallInit
    PROVE  CallsInv
  <1>1. CallTypeOK /\ Protocol
    BY BoundsAssumption
    DEF CallInit, CallTypeOK, Protocol, Established, Failed, Ends, States, FrameCount
  <1>2. Aged /\ Out + Back + InFw <= timeouts + Waits
    BY DEF CallInit, Aged, Out, Back, InFw, Waits, Ends
  <1> QED
    BY <1>1, <1>2 DEF CallsInv, CallInit, Failed

LEMMA CallRefusedKeeps ==
    ASSUME CallsInv, CallRefused
    PROVE  CallsInv'
  <1>1. /\ pc = "idle" /\ UNCHANGED <<state, q, pc, sent, timeouts, serving, resets>>
        /\ \E err \in {"ECONNRESET", "ENOMEM"} : result' = Failed(err)
    BY DEF CallRefused
  <1>2. result'.answer = 0 /\ result' \in
           [err : {"none", "ok", "EIO", "ECONNRESET", "ENOMEM", "EAGAIN", "ETIMEDOUT"},
            answer : 0..Ids]
    BY <1>1, IdsNat DEF Failed
  <1>3. CallTypeOK' /\ Protocol'
    BY <1>1, <1>2 DEF CallsInv, CallTypeOK, Protocol, Established
  <1> QED
    BY <1>1, <1>2, <1>3
    DEF CallsInv, InService, Aged, Established, Out, Back, InFw, Waits, Age

LEMMA CallSendKeeps ==
    ASSUME CallsInv, CallSend
    PROVE  CallsInv'
  <1>1. /\ pc = "idle" /\ pc' = "wait" /\ Established /\ Out = 0
        /\ UNCHANGED <<state, result, timeouts, serving, resets>>
    BY TypesAndQueues DEF CallSend, FrameCount, Out, Queues
  <1>2. PICK n \in 1..Ids : n = NextId /\ (sent < Ids => n = sent + 1)
                            /\ (sent = Ids => n = 1)
    BY NextIdValue DEF CallsInv, CallTypeOK
  <1>3. sent' = n /\ q' = [q EXCEPT !["cpu"] = Append(q["cpu"], n)]
    BY <1>2 DEF CallSend
  <1>4. /\ q'["cpu"] \in Seq(1..Ids) /\ Out' = 1 /\ q'["cpu"][1] = n
        /\ q'["peer"] = q["peer"] /\ Back' = Back /\ q' \in [Ends -> Seq(1..Ids)]
    BY <1>1, <1>3, AppendOne, TypesAndQueues DEF Queues, Out, Back, Ends
  <1>5. CallTypeOK'
    BY <1>1, <1>3, <1>4, TypesAndQueues
    DEF CallsInv, CallTypeOK, Out, Back, Queues, FrameCount, Ends
  <1>6. Protocol'
    BY <1>1, <1>3, IdsNat DEF CallsInv, Protocol, Established
  <1>7. sent \in 0..Ids /\ serving \in 0..Ids /\ timeouts \in Nat
    BY IdsNat, BoundsAssumption DEF CallsInv, CallTypeOK
  <1>8. ASSUME InService PROVE Aged'
    <2>1. Aged
      BY <1>1, <1>8 DEF CallsInv
    <2>2. serving # 0 => Age(serving)' = 1
      BY <1>1, <1>2, <1>3, <1>7, <2>1, OneOlder DEF Aged, Age
    <2>3. Back = 1 => (n - q["peer"][1]) % Ids = InFw + 1
      <3>1. Back = 1 => (sent - q["peer"][1]) % Ids = InFw /\ InFw \in 0..2
        BY <1>1, <2>1 DEF Aged, Age, InFw
      <3> QED
        BY <1>2, <1>7, <3>1, OneOlder, TypesAndQueues
    <2>4. InFw' = InFw /\ InFw \in {0, 1}
      BY <1>1 DEF InFw
    <2> QED
      BY <1>1, <1>3, <1>4, <2>2, <2>3, <2>4 DEF Aged, Age
  <1>9. Waits = 0 /\ Waits' = 1 /\ InFw' = InFw
    BY <1>1 DEF Waits, InFw
  <1> QED
    <2>1. InService => Out + Back + InFw <= timeouts
      BY <1>1, <1>7, <1>9 DEF CallsInv
    <2>2. Back \in {0, 1} /\ InFw \in {0, 1}
      BY TypesAndQueues DEF Queues, InFw
    <2>3. InService' = InService
      BY <1>1 DEF InService, Established
    <2>4. InService => Out' + Back' + InFw' <= timeouts' + Waits'
      BY <1>1, <1>4, <1>7, <1>9, <2>1, <2>2
    <2> QED
      BY <1>1, <1>5, <1>6, <1>8, <2>3, <2>4 DEF CallsInv

\* A notification that makes an end clear its counters.
LEMMA FollowClears ==
    ASSUME NEW e, NEW s, Follow(e),
           Reaction(state[e], state[Peer(e)]) = <<"clearW", s>>
    PROVE  /\ state' = [state EXCEPT ![e] = s]
           /\ q' = [q EXCEPT ![e] = <<>>]
  <1>1. PICK r : r = Reaction(state[e], state[Peer(e)])
    OBVIOUS
  <1>2. r[1] = "clearW" /\ r[2] = s
    BY <1>1
  <1>3. /\ state' = [state EXCEPT ![e] = r[2]]
        /\ q' = IF r[1] = "clearW" THEN [q EXCEPT ![e] = <<>>] ELSE q
    BY <1>1, Zenon DEF Follow
  <1> QED
    BY <1>2, <1>3

\* What Follow does to the end of the driver, in the states it meets.
LEMMA FollowCpu ==
    ASSUME CallsInv, Follow("cpu"), state'["cpu"] # "established", Established
    PROVE  /\ state' = [state EXCEPT !["cpu"] = "ack"]
           /\ state["peer"] = "sync"
           /\ q' = [q EXCEPT !["cpu"] = <<>>]
  <1>1. state["cpu"] = "established" /\ state["peer"] \in {"established", "sync"}
        /\ state \in [Ends -> States]
    BY DEF CallsInv, Protocol, Established, CallTypeOK
  <1>2. CASE state["peer"] = "established"
    <2>1. Reaction("established", "established") = <<"idle", "established">>
      BY DEF Reaction
    <2>2. state' = [state EXCEPT !["cpu"] = "established"]
      BY <1>1, <1>2, <2>1 DEF Follow, Peer
    <2> QED
      BY <1>1, <2>2 DEF Ends
  <1>3. CASE state["peer"] = "sync"
    <2>1. Reaction("established", "sync") = <<"clearW", "ack">>
      BY DEF Reaction
    <2> QED
      BY <1>1, <1>3, <2>1, FollowClears DEF Peer
  <1> QED
    BY <1>1, <1>2, <1>3

LEMMA PollResetKeeps ==
    ASSUME CallsInv, PollReset
    PROVE  CallsInv'
  <1>1. /\ pc = "wait" /\ pc' = "idle" /\ result' = Failed("EAGAIN")
        /\ UNCHANGED <<sent, timeouts, serving, resets>>
        /\ Follow("cpu") /\ state'["cpu"] # "established"
    BY DEF PollReset
  <1>2. Established
    BY <1>1 DEF CallsInv, Protocol
  <1>3. /\ state' = [state EXCEPT !["cpu"] = "ack"] /\ state["peer"] = "sync"
        /\ q' = [q EXCEPT !["cpu"] = <<>>]
    BY <1>1, <1>2, FollowCpu
  <1>4. state \in [Ends -> States] /\ state["peer"] \in {"established", "sync"}
        /\ resets # 0
    BY <1>3 DEF CallsInv, CallTypeOK, Protocol
  <1>5. /\ state' \in [Ends -> States] /\ state'["cpu"] = "ack"
        /\ state'["peer"] = "sync" /\ ~Established'
    BY <1>3, <1>4 DEF Ends, States, Established
  <1>6. result'.answer = 0 /\ result' \in
           [err : {"none", "ok", "EIO", "ECONNRESET", "ENOMEM", "EAGAIN", "ETIMEDOUT"},
            answer : 0..Ids]
    BY <1>1, IdsNat DEF Failed
  <1>7. q' \in [Ends -> Seq(1..Ids)] /\ \A e \in Ends : Len(q'[e]) <= FrameCount
    BY <1>3 DEF CallsInv, CallTypeOK, Ends, FrameCount
  <1>8. CallTypeOK'
    BY <1>1, <1>5, <1>6, <1>7 DEF CallsInv, CallTypeOK
  <1>9. Protocol'
    BY <1>1, <1>4, <1>5, <1>6 DEF Protocol
  <1> QED
    BY <1>1, <1>4, <1>5, <1>6, <1>8, <1>9 DEF CallsInv, InService

LEMMA PollResponseKeeps ==
    ASSUME CallsInv, PollResponse
    PROVE  CallsInv'
  <1>1. /\ pc = "wait" /\ pc' = "idle" /\ state["peer"] # "sync"
        /\ q["peer"] # <<>> /\ q' = [q EXCEPT !["peer"] = Tail(q["peer"])]
        /\ UNCHANGED <<state, sent, timeouts, serving, resets>>
    BY DEF PollResponse
  <1>2. PICK x \in 1..Ids : x = q["peer"][1] /\ x = Head(q["peer"])
    BY <1>1, TypesAndQueues
  <1>3. PICK err \in {"ok", "EIO"} : result' = [err |-> err, answer |-> x]
    BY <1>2 DEF PollResponse
  <1>4. /\ q' \in [Ends -> Seq(1..Ids)] /\ q'["cpu"] = q["cpu"] /\ q'["peer"] = <<>>
        /\ Out' = Out /\ Back' = 0 /\ Back = 1 /\ Out \in {0, 1}
    BY <1>1, TypesAndQueues DEF Queues, Out, Back, Ends
  <1>5. result'.answer = x /\ result' \in
           [err : {"none", "ok", "EIO", "ECONNRESET", "ENOMEM", "EAGAIN", "ETIMEDOUT"},
            answer : 0..Ids]
    BY <1>3, IdsNat
  <1>6. CallTypeOK'
    BY <1>1, <1>4, <1>5 DEF CallsInv, CallTypeOK, Out, Back, FrameCount, Ends
  <1>7. Established /\ sent \in 1..Ids /\ timeouts \in Nat
    BY <1>1, BoundsAssumption DEF CallsInv, Protocol, CallTypeOK
  <1>8. Protocol'
    BY <1>1, <1>7 DEF CallsInv, Protocol, Established
  <1>9. InFw' = InFw /\ InFw \in {0, 1} /\ Waits = 1 /\ Waits' = 0
    BY <1>1 DEF InFw, Waits
  <1>10. InService /\ InService'
    <2>1. state["peer"] = "established"
      BY <1>1 DEF CallsInv, Protocol
    <2> QED
      BY <1>1, <1>7, <2>1 DEF InService, Established
  <1>11. Age(x) = Out + InFw /\ Aged'
    BY <1>1, <1>2, <1>4, <1>9, <1>10 DEF CallsInv, Aged, Age
  <1>12. Out + InFw <= timeouts
    BY <1>4, <1>7, <1>9, <1>10 DEF CallsInv
  <1> QED
    <2>1. Age(result.answer)' <= timeouts'
      BY <1>1, <1>5, <1>11, <1>12 DEF Age
    <2>2. Out' + Back' + InFw' <= timeouts' + Waits'
      BY <1>1, <1>4, <1>7, <1>9, <1>12
    <2> QED
      BY <1>6, <1>8, <1>11, <2>1, <2>2 DEF CallsInv

LEMMA PollTimeoutKeeps ==
    ASSUME CallsInv, PollTimeout
    PROVE  CallsInv'
  <1>1. /\ pc = "wait" /\ pc' = "idle" /\ timeouts < MaxTimeouts
        /\ timeouts' = timeouts + 1 /\ result' = Failed("ETIMEDOUT")
        /\ UNCHANGED <<state, q, sent, serving, resets>>
    BY DEF PollTimeout
  <1>2. result'.answer = 0 /\ result' \in
           [err : {"none", "ok", "EIO", "ECONNRESET", "ENOMEM", "EAGAIN", "ETIMEDOUT"},
            answer : 0..Ids]
    BY <1>1, IdsNat DEF Failed
  <1>3. timeouts \in Nat /\ timeouts' \in 0..MaxTimeouts /\ timeouts' # 0
    BY <1>1, BoundsAssumption DEF CallsInv, CallTypeOK
  <1>4. CallTypeOK' /\ Protocol'
    BY <1>1, <1>2, <1>3 DEF CallsInv, CallTypeOK, Protocol, Established
  <1>5. Out' = Out /\ Back' = Back /\ InFw' = InFw /\ Waits = 1 /\ Waits' = 0
    BY <1>1 DEF Out, Back, InFw, Waits
  <1>6. Aged => Aged'
    BY <1>1, <1>5 DEF Aged, Age
  <1>7. InService => Out' + Back' + InFw' <= timeouts' + Waits'
    <2>1. Out \in {0, 1} /\ Back \in {0, 1} /\ InFw \in {0, 1}
      BY TypesAndQueues DEF Queues, InFw
    <2> QED
      BY <1>1, <1>3, <1>5, <2>1 DEF CallsInv
  <1>8. InService' = InService
    BY <1>1 DEF InService, Established
  <1> QED
    BY <1>1, <1>2, <1>4, <1>6, <1>7, <1>8 DEF CallsInv

LEMMA FwTakeKeeps ==
    ASSUME CallsInv, FwTake
    PROVE  CallsInv'
  <1>1. /\ state["peer"] = "established" /\ serving = 0 /\ q["cpu"] # <<>>
        /\ serving' = q["cpu"][1] /\ q' = [q EXCEPT !["cpu"] = <<>>]
        /\ q["cpu"][1] \in 1..Ids
        /\ UNCHANGED <<state, pc, sent, result, timeouts, resets>>
    BY TypesAndQueues DEF FwTake
  <1>2. /\ q' \in [Ends -> Seq(1..Ids)] /\ q'["peer"] = q["peer"] /\ q'["cpu"] = <<>>
        /\ Out = 1 /\ Out' = 0 /\ Back' = Back /\ Back \in {0, 1}
    BY <1>1, TypesAndQueues DEF Queues, Out, Back, Ends
  <1>3. InFw = 0 /\ InFw' = 1 /\ serving' \in 1..Ids /\ Waits' = Waits
    BY <1>1, IdsNat DEF InFw, Waits
  <1>4. CallTypeOK'
    BY <1>1, <1>2, <1>3, IdsNat DEF CallsInv, CallTypeOK, Out, Back, FrameCount, Ends
  <1>5. Protocol'
    BY <1>1 DEF CallsInv, Protocol, Established
  <1>6. sent \in 0..Ids /\ (sent - sent) % Ids = 0
    BY IdsNat DEF CallsInv, CallTypeOK
  <1>7. Aged => Aged'
    BY <1>1, <1>2, <1>3, <1>6 DEF Aged, Age
  <1>8. Out' + Back' + InFw' = Out + Back + InFw
    BY <1>2, <1>3
  <1> QED
    BY <1>1, <1>3, <1>4, <1>5, <1>7, <1>8 DEF CallsInv, InService, Established, Age

LEMMA FwReplyKeeps ==
    ASSUME CallsInv, FwReply
    PROVE  CallsInv'
  <1>1. /\ state["peer"] = "established" /\ serving # 0 /\ Len(q["peer"]) < 1
        /\ serving' = 0 /\ q' = [q EXCEPT !["peer"] = Append(q["peer"], serving)]
        /\ UNCHANGED <<state, pc, sent, result, timeouts, resets>>
    BY DEF FwReply, FrameCount
  <1>2. serving \in 1..Ids
    BY <1>1, IdsNat DEF CallsInv, CallTypeOK
  <1>3. /\ q' \in [Ends -> Seq(1..Ids)] /\ q'["cpu"] = q["cpu"]
        /\ q'["peer"][1] = serving
        /\ Out' = Out /\ Back = 0 /\ Back' = 1 /\ Out \in {0, 1}
    BY <1>1, <1>2, AppendOne, TypesAndQueues DEF Queues, Out, Back, Ends
  <1>4. InFw = 1 /\ InFw' = 0 /\ Waits' = Waits
    BY <1>1 DEF InFw, Waits
  <1>5. CallTypeOK'
    BY <1>1, <1>3, IdsNat DEF CallsInv, CallTypeOK, Out, Back, FrameCount, Ends
  <1>6. Protocol'
    BY <1>1 DEF CallsInv, Protocol, Established
  <1>7. Aged => Aged'
    BY <1>1, <1>3, <1>4 DEF Aged, Age
  <1>8. Out' + Back' + InFw' = Out + Back + InFw
    BY <1>3, <1>4
  <1> QED
    BY <1>1, <1>4, <1>5, <1>6, <1>7, <1>8 DEF CallsInv, InService, Established, Age

LEMMA FwResetKeeps ==
    ASSUME CallsInv, FwReset
    PROVE  CallsInv'
  <1>1. /\ resets < MaxResets /\ resets' = resets + 1
        /\ state' = [state EXCEPT !["peer"] = "sync"] /\ serving' = 0
        /\ UNCHANGED <<q, pc, sent, result, timeouts>>
    BY DEF FwReset
  <1>2. resets' \in 0..MaxResets /\ resets' # 0
    BY <1>1, BoundsAssumption DEF CallsInv, CallTypeOK
  <1>3. state' \in [Ends -> States] /\ state'["cpu"] = state["cpu"]
        /\ state'["peer"] = "sync" /\ (Established' <=> Established)
    BY <1>1 DEF CallsInv, CallTypeOK, Ends, States, Established
  <1>4. CallTypeOK'
    BY <1>1, <1>2, <1>3, IdsNat DEF CallsInv, CallTypeOK
  <1>5. Protocol'
    BY <1>1, <1>2, <1>3 DEF CallsInv, Protocol
  <1> QED
    BY <1>1, <1>3, <1>4, <1>5 DEF CallsInv, InService, Age

LEMMA FwNotifiedKeeps ==
    ASSUME CallsInv, FwNotified
    PROVE  CallsInv'
  <1>1. /\ Reaction(state["peer"], state["cpu"])[1] # "idle" /\ Follow("peer")
        /\ UNCHANGED <<pc, sent, result, timeouts, serving, resets>>
        /\ state["cpu"] \in {"established", "ack"}
        /\ state["peer"] \in {"established", "sync"}
        /\ state \in [Ends -> States]
    BY DEF FwNotified, CallsInv, Protocol, CallTypeOK
  <1>2. /\ Reaction("established", "established") = <<"idle", "established">>
        /\ Reaction("established", "ack") = <<"idle", "established">>
        /\ Reaction("sync", "established") = <<"idle", "sync">>
        /\ Reaction("sync", "ack") = <<"clearW", "established">>
    BY DEF Reaction
  <1>3. state["cpu"] = "ack" /\ state["peer"] = "sync"
    BY <1>1, <1>2
  <1>4. /\ state' = [state EXCEPT !["peer"] = "established"]
        /\ q' = [q EXCEPT !["peer"] = <<>>]
    BY <1>1, <1>2, <1>3, FollowClears DEF Peer
  <1>5. /\ ~Established /\ ~Established' /\ resets # 0
        /\ state' \in [Ends -> States] /\ state'["peer"] = "established"
        /\ state'["cpu"] = "ack"
    BY <1>1, <1>3, <1>4 DEF Established, CallsInv, Protocol, Ends, States
  <1>6. q' \in [Ends -> Seq(1..Ids)] /\ \A e \in Ends : Len(q'[e]) <= FrameCount
    BY <1>4 DEF CallsInv, CallTypeOK, Ends, FrameCount
  <1>7. CallTypeOK' /\ Protocol'
    BY <1>1, <1>5, <1>6 DEF CallsInv, CallTypeOK, Protocol
  <1> QED
    BY <1>1, <1>5, <1>7 DEF CallsInv, InService, Age

LEMMA CallsUnchangedKeeps ==
    ASSUME CallsInv, UNCHANGED callVars
    PROVE  CallsInv'
  BY DEF callVars, CallsInv, CallTypeOK, Protocol, InService, Aged, Established, Out,
         Back, InFw, Waits, Age

(* For any number of timeouts, resets and requests: a response that        *)
(* bpmp_call returns answers its own request or one of as many before it   *)
(* as calls have timed out.  Without a timeout it is its own.              *)
THEOREM CallsAreSound == CallSpec => []CallsSound
  <1>1. CallInit => CallsInv
    BY CallsInitEstablishes
  <1>2. CallsInv /\ [CallNext]_callVars => CallsInv'
    BY CallRefusedKeeps, CallSendKeeps, PollResetKeeps, PollResponseKeeps,
       PollTimeoutKeeps, FwTakeKeeps, FwReplyKeeps, FwResetKeeps,
       FwNotifiedKeeps, CallsUnchangedKeeps
    DEF CallNext, Call, Poll, Firmware
  <1>3. CallsInv => CallsSound
    BY DEF CallsInv, CallsSound, AnswerAge, Age
  <1> QED
    BY <1>1, <1>2, <1>3, PTL DEF CallSpec
-----------------------------------------------------------------------------
(* The composition: an init or a destroy leaves the calls alone, and a     *)
(* step of a call or of the firmware leaves the handles alone.             *)
LEMMA StepsApart ==
    ASSUME [BpmpNext]_bpmpVars
    PROVE  [Next]_vars /\ [CallNext]_callVars
  BY DEF BpmpNext, bpmpVars, Manage, Use, Serve, CallNext, Firmware

(* bpmp.c as a whole, where calls are made between the inits and destroys  *)
(* of other handles: count, mappings and answers are as each part has them *)
(* alone.                                                                  *)
THEOREM BpmpIsSound ==
    BpmpSpec => [](CountTracks /\ LiveWhileOrderly /\ LifecycleSound /\ CallsSound)
  <1>1. [BpmpNext]_bpmpVars => [Next]_vars /\ [CallNext]_callVars
    BY StepsApart
  <1>2. BpmpInit => Init /\ CallInit
    BY DEF BpmpInit
  <1>3. BpmpSpec => Spec /\ CallSpec
    BY <1>1, <1>2, PTL DEF BpmpSpec, Spec, CallSpec
  <1> QED
    BY <1>3, CountAlwaysTracks, LiveWhileOrderlyHolds, LifecycleIsSound, CallsAreSound, PTL
=============================================================================
