---------------------------- MODULE FdtGenProofs ----------------------------
(***************************************************************************)
(* FdtGen for every tree, every set of dependencies and every sequence of  *)
(* calls: what is listed is the closure of what was asked for, and the     *)
(* tree is cut to it.                                                      *)
(***************************************************************************)
EXTENDS FdtGen, FiniteSetTheorems, SequenceTheorems, WellFoundedInduction, TLAPS

Kept == (Listed \cap Nodes) \ {Root}
Frames == ToSet(stack)

(* The tree: parents come before their children.                           *)
TreeInv ==
    /\ parent \in [Nodes \ {Root} -> Nodes]
    /\ \A n \in Nodes \ {Root} : parent[n] < n
    /\ deps \in [Nodes \ {Root} -> Seq(Nodes)]

(* The calls in progress are those of the phase, and the iteration goes on *)
(* to an entry that exists.                                                *)
CallsInv ==
    /\ keeps \in Nat /\ generates \in Nat
    /\ phase \in {"open", "freed"} => stack = <<>>
    /\ phase \in {"resolve", "trim"} => generates > 0
    /\ phase = "resolve" /\ it.more => it.pos + 1 <= Len(order)
    /\ phase = "trim" => \A f \in Frames : f.call = "trim"
    /\ phase = "resolve" => \A f \in Frames :
          /\ f.node # Root
          /\ \/ f.call = "register" /\ f.arg \in ToSet(deps[f.node])
             \/ f.call = "keep" /\ f.arg = parent[f.node]

TypeInv == TypeOK /\ TreeInv /\ CallsInv

(* An offset is the node's own, or its parent's if the node was listed as  *)
(* a dependency; that of a name that is no node is never written.          *)
OffsetsInv ==
    \A x \in Listed :
        LET o == entry[x].offset
        IN  /\ x \notin Nodes => o = NoOffset
            /\ x = Root => o \in {NoOffset, Root}
            /\ x \in Kept => o \in {NoOffset, x, parent[x]}
            /\ x \in Kept /\ phase \in {"resolve", "trim"} => o # NoOffset

(* A recorded node has its dependencies recorded or still to register; a   *)
(* recorded dependency is listed or still to keep.                         *)
RecordedInv ==
    \A n \in DOMAIN to_list :
        /\ \A t \in ToSet(deps[n]) :
              t = n \/ t \in to_list[n] \/ Register(n, t) \in Frames
        /\ \A t \in to_list[n] \ {Root} : t \in Listed \/ Keep(t) \in Frames

(* The properties of a node that is not recorded are registered together.  *)
Batched(n) == \A t \in ToSet(deps[n]) : Register(n, t) \in Frames
BatchInv ==
    phase = "resolve" => \A f \in Frames :
        f.call = "register" /\ f.node \notin DOMAIN to_list => Batched(f.node)

(* While and after dependencies are resolved: a listed node has its parent *)
(* listed or still to keep, and its dependencies recorded, or still to     *)
(* register, or the iteration is still to come to it.                      *)
Ahead(n) ==
    /\ phase = "resolve" /\ it.more /\ entry[n].offset = n
    /\ \E i \in DOMAIN order : i > it.pos /\ order[i] = n
ListedInv ==
    phase \in {"resolve", "trim"} => \A n \in Kept :
        /\ parent[n] \in Listed \cup {Root} \/ Keep(parent[n]) \in Frames
        /\ n \in DOMAIN to_list \/ Batched(n) \/ Ahead(n)

(* What was asked for is listed.  What is listed, or about to be, is       *)
(* needed, unless an offset was not written.                               *)
Stray == \E x \in Listed : x \notin Nodes \ {Root} /\ entry[x].offset = NoOffset
NeedsInv ==
    phase # "freed" =>
        /\ asked \ {Root} \subseteq Listed
        /\ Stray \/ /\ Kept \subseteq Needs(asked)
                    /\ phase = "resolve" => \A f \in Frames : f.node \in Needs(asked)

(* The walk.  A node below which all is done: what is alive there is       *)
(* listed and was visited.  The frames are a path from the root, and of    *)
(* the children a frame has passed only the one the walk is in is not done.*)
Done(m) == \A d \in alive : m \in Above(parent, d) => d \in Listed /\ entry[d].cnt > 0
AliveInv ==
    /\ phase = "resolve" => alive = Nodes /\ disabled = {}
    /\ phase = "trim" => /\ Root \in alive /\ Kept \subseteq alive
                         /\ \A d \in alive \ {Root} : parent[d] \in alive
WalkInv ==
    phase = "trim" =>
        /\ stack = <<>> => Done(Root)
        /\ stack # <<>> => stack[Len(stack)].node = Root
        /\ \A i \in DOMAIN stack : \A c \in Children(stack[i].node) \cap alive :
              c <= stack[i].arg =>
                  /\ c \in Listed /\ entry[c].cnt > 0
                  /\ Done(c) \/ (i > 1 /\ stack[i - 1].node = c)

(* The visits of a context that has generated once or not at all, and      *)
(* between generations.                                                    *)
DisableInv ==
    /\ generates = 0 \/ (generates = 1 /\ phase = "resolve") =>
          \A x \in Listed : entry[x].cnt = 0
    /\ phase = "trim" =>
          /\ \A n \in disabled : n \in Kept /\ entry[n].flag = "disable"
          /\ generates = 1 => \A n \in Kept :
                entry[n].flag = "disable" /\ entry[n].cnt > 0 => n \in disabled
    /\ phase = "open" /\ generates > 0 =>
          /\ alive \ {Root} \subseteq Listed
          /\ \A x \in Kept : IF x \in alive THEN entry[x].cnt > 0 ELSE x \in asked

GenInv ==
    /\ TypeInv /\ OffsetsInv /\ RecordedInv /\ BatchInv /\ ListedInv /\ NeedsInv
    /\ AliveInv /\ WalkInv /\ DisableInv /\ ReportsMissing
-----------------------------------------------------------------------------
(***************************************************************************)
(* Numbers and sequences.                                                  *)
(***************************************************************************)

(* Every set of natural numbers has a least element.                       *)
LEMMA LeastElement ==
    ASSUME NEW S \in SUBSET Nat, S # {}
    PROVE  \E x \in S : \A y \in S : x <= y
  <1>1. PICK R : R = OpToRel(<, Nat)
    OBVIOUS
  <1>2. IsWellFoundedOn(R, Nat)
    BY <1>1, NatLessThanWellFounded
  <1>3. PICK x \in S : \A y \in S : ~ (<<y, x>> \in R)
    BY <1>2, WFMin
  <1>4. \A y, z \in Nat : y < z => <<y, z>> \in R
    BY <1>1 DEF OpToRel
  <1>5. \A y \in S : ~(y < x)
    BY <1>3, <1>4
  <1> QED
    BY <1>3, <1>5

LEMMA MinIn ==
    ASSUME NEW S \in SUBSET Nat, S # {}
    PROVE  Min(S) \in S /\ \A y \in S : Min(S) <= y
  <1>1. \E x \in S : \A y \in S : x <= y
    BY LeastElement
  <1> QED
    BY <1>1 DEF Min

LEMMA ToSetIs ==
    ASSUME NEW S, NEW s \in Seq(S)
    PROVE  /\ ToSet(s) \subseteq S /\ DOMAIN s = 1..Len(s)
           /\ \A i \in 1..Len(s) : s[i] \in ToSet(s)
           /\ \A x \in ToSet(s) : \E i \in 1..Len(s) : s[i] = x
           /\ s = <<>> <=> ToSet(s) = {}
  <1>1. DOMAIN s = 1..Len(s) /\ Len(s) \in Nat
    OBVIOUS
  <1>2. ToSet(s) = {s[i] : i \in 1..Len(s)}
    BY <1>1 DEF ToSet
  <1>3. s = <<>> <=> Len(s) = 0
    OBVIOUS
  <1>4. ToSet(s) = {} <=> Len(s) = 0
    <2>1. ASSUME Len(s) # 0 PROVE s[1] \in ToSet(s)
      BY <1>1, <1>2, <2>1
    <2>2. ASSUME Len(s) = 0 PROVE ToSet(s) = {}
      BY <1>2, <2>2
    <2> QED
      BY <2>1, <2>2
  <1>5. \A i \in 1..Len(s) : s[i] \in S
    OBVIOUS
  <1> QED
    BY <1>1, <1>2, <1>3, <1>4, <1>5

LEMMA ToSetCat ==
    ASSUME NEW S, NEW s \in Seq(S), NEW t \in Seq(S)
    PROVE  s \o t \in Seq(S) /\ ToSet(s \o t) = ToSet(s) \cup ToSet(t)
  <1>1. s \o t \in Seq(S) /\ Len(s \o t) = Len(s) + Len(t)
    OBVIOUS
  <1>2. ASSUME NEW i \in 1..(Len(s) + Len(t))
        PROVE  (s \o t)[i] = IF i <= Len(s) THEN s[i] ELSE t[i - Len(s)]
    OBVIOUS
  <1>3. ASSUME NEW x \in ToSet(s \o t) PROVE x \in ToSet(s) \cup ToSet(t)
    <2>1. PICK i \in 1..(Len(s) + Len(t)) : (s \o t)[i] = x
      BY <1>1, <1>3, ToSetIs
    <2>2. CASE i <= Len(s)
      BY <1>2, <2>1, <2>2, ToSetIs
    <2>3. CASE i > Len(s)
      <3>1. i - Len(s) \in 1..Len(t) /\ x = t[i - Len(s)]
        BY <1>2, <2>1, <2>3
      <3> QED
        BY <3>1, ToSetIs
    <2> QED
      BY <2>2, <2>3
  <1>4. ASSUME NEW x \in ToSet(s) PROVE x \in ToSet(s \o t)
    <2>1. PICK i \in 1..Len(s) : s[i] = x
      BY <1>4, ToSetIs
    <2>2. i \in 1..Len(s \o t) /\ (s \o t)[i] = x
      BY <1>1, <1>2, <2>1
    <2> QED
      BY <1>1, <2>2, ToSetIs
  <1>5. ASSUME NEW x \in ToSet(t) PROVE x \in ToSet(s \o t)
    <2>1. PICK i \in 1..Len(t) : t[i] = x
      BY <1>5, ToSetIs
    <2>2. Len(s) + i \in 1..Len(s \o t) /\ (s \o t)[Len(s) + i] = x
      BY <1>1, <1>2, <2>1
    <2> QED
      BY <1>1, <2>2, ToSetIs
  <1> QED
    BY <1>1, <1>3, <1>4, <1>5

LEMMA ToSetOne ==
    ASSUME NEW S, NEW x \in S
    PROVE  <<x>> \in Seq(S) /\ ToSet(<<x>>) = {x}
  BY DEF ToSet

LEMMA ToSetNone ==
    ASSUME NEW S PROVE <<>> \in Seq(S) /\ ToSet(<<>>) = {}
  BY DEF ToSet

LEMMA ToSetAppend ==
    ASSUME NEW S, NEW s \in Seq(S), NEW x \in S
    PROVE  Append(s, x) \in Seq(S) /\ ToSet(Append(s, x)) = ToSet(s) \cup {x}
  <1>1. PICK u : u = <<x>>
    OBVIOUS
  <1>2. u \in Seq(S) /\ ToSet(u) = {x}
    BY <1>1, ToSetOne
  <1>3. s \o u \in Seq(S) /\ ToSet(s \o u) = ToSet(s) \cup {x}
    BY <1>2, ToSetCat
  <1>4. Append(s, x) = s \o u
    BY <1>1
  <1> QED
    BY <1>3, <1>4

LEMMA ToSetTail ==
    ASSUME NEW S, NEW s \in Seq(S), s # <<>>
    PROVE  /\ Head(s) \in S /\ Tail(s) \in Seq(S)
           /\ s = <<Head(s)>> \o Tail(s)
           /\ ToSet(s) = {Head(s)} \cup ToSet(Tail(s))
  <1>1. Head(s) \in S /\ Tail(s) \in Seq(S) /\ s = <<Head(s)>> \o Tail(s)
    OBVIOUS
  <1>2. PICK u, v : u = <<Head(s)>> /\ v = Tail(s)
    OBVIOUS
  <1>3. u \in Seq(S) /\ v \in Seq(S) /\ ToSet(u) = {Head(s)}
    BY <1>1, <1>2, ToSetOne
  <1>4. ToSet(u \o v) = {Head(s)} \cup ToSet(v)
    BY <1>3, ToSetCat
  <1>5. s = u \o v
    BY <1>1, <1>2
  <1>6. ToSet(s) = {Head(s)} \cup ToSet(v)
    BY <1>4, <1>5
  <1> QED
    BY <1>1, <1>2, <1>6

(* An order of a finite set is a sequence of its members.                  *)
LEMMA OrdersAre ==
    ASSUME NEW S, IsFiniteSet(S), NEW q \in Orders(S)
    PROVE  q \in Seq(S) /\ ToSet(q) = S
  <1>1. Cardinality(S) \in Nat
    BY FS_CardinalityType
  <1> QED
    BY <1>1 DEF Orders
-----------------------------------------------------------------------------
(***************************************************************************)
(* The tree.                                                               *)
(***************************************************************************)

Trees == [Nodes \ {Root} -> Nodes]

LEMMA RootIsNode == Root \in Nodes /\ Nodes \subseteq Nat /\ IsFiniteSet(Nodes)
  <1>1. Root \in Nodes /\ Nodes \subseteq Nat /\ N - 1 \in Int
    BY BoundsAssumption DEF Root, Nodes
  <1>2. IsFiniteSet(0..(N - 1))
    BY <1>1, FS_Interval
  <1> QED
    BY <1>1, <1>2 DEF Nodes

(* A set with the parents of its members that has the parent of n has the  *)
(* ancestors of n.                                                         *)
LEMMA AboveWithin ==
    ASSUME NEW p \in Trees, NEW n \in Nodes, NEW s \in SUBSET Nodes,
           \A k \in s \ {Root} : p[k] \in s, n # Root => p[n] \in s
    PROVE  Above(p, n) \subseteq s
  BY DEF Above, Upward

LEMMA AboveRoot ==
    ASSUME NEW p \in Trees PROVE Above(p, Root) = {}
  <1>1. PICK s : s = {}
    OBVIOUS
  <1>2. s \in SUBSET Nodes /\ (\A k \in s \ {Root} : p[k] \in s) /\ Root \in Nodes
    BY <1>1, RootIsNode
  <1>3. Above(p, Root) \subseteq s
    BY <1>2, AboveWithin
  <1> QED
    BY <1>1, <1>3

LEMMA AboveParents ==
    ASSUME NEW p \in Trees, NEW n \in Nodes
    PROVE  /\ Above(p, n) \subseteq Nodes
           /\ n # Root => p[n] \in Above(p, n)
           /\ \A a \in Above(p, n) \ {Root} : p[a] \in Above(p, n)
  <1>1. Above(p, n) \subseteq Nodes
    BY DEF Above
  <1>2. ASSUME n # Root PROVE p[n] \in Above(p, n)
    BY <1>2 DEF Above, Trees
  <1>3. ASSUME NEW a \in Above(p, n) \ {Root} PROVE p[a] \in Above(p, n)
    <2>1. p[a] \in Nodes
      BY <1>1, <1>3 DEF Trees
    <2>2. ASSUME NEW s \in Upward(p), n # Root => p[n] \in s PROVE p[a] \in s
      <3>1. a \in s
        BY <1>3, <2>2 DEF Above
      <3> QED
        BY <1>3, <2>2, <3>1 DEF Upward
    <2> QED
      BY <2>1, <2>2 DEF Above
  <1> QED
    BY <1>1, <1>2, <1>3

(* The ancestors of the parent.                                            *)
LEMMA AboveStep ==
    ASSUME NEW p \in Trees, NEW n \in Nodes \ {Root}
    PROVE  Above(p, p[n]) \subseteq Above(p, n)
  <1>1. p[n] \in Nodes /\ p[n] \in Above(p, n)
    BY AboveParents DEF Trees
  <1>2. p[n] # Root => p[p[n]] \in Above(p, n)
    BY <1>1, AboveParents
  <1>3. Above(p, n) \in SUBSET Nodes /\ \A k \in Above(p, n) \ {Root} : p[k] \in Above(p, n)
    BY AboveParents
  <1> QED
    BY <1>1, <1>2, <1>3, AboveWithin

(* Below an ancestor is a child of it on the way to the node.              *)
LEMMA ChildBetween ==
    ASSUME NEW p \in Trees, NEW d \in Nodes, NEW a \in Above(p, d)
    PROVE  \E c \in Nodes \ {Root} : p[c] = a /\ (c = d \/ c \in Above(p, d))
  <1> DEFINE way == {d} \cup Above(p, d)
             s == {x \in Nodes : \E c \in way \ {Root} : p[c] = x}
  <1>1. way \subseteq Nodes
    BY AboveParents
  <1>2. d # Root => p[d] \in s
    BY DEF Trees
  <1>3. ASSUME NEW k \in s \ {Root} PROVE p[k] \in s
    <2>1. PICK c \in way \ {Root} : p[c] = k
      OBVIOUS
    <2>2. k \in Above(p, d)
      BY <2>1, AboveParents
    <2> QED
      BY <1>1, <1>3, <2>2 DEF Trees
  <1>4. a \in s
    <2> HIDE DEF s
    <2>1. s \in SUBSET Nodes
      BY DEF s
    <2> QED
      BY <1>2, <1>3, <2>1, AboveWithin
  <1> QED
    BY <1>1, <1>4

(* Parents come before children, in the order of the flattened tree.       *)
LEMMA TreeDown ==
    ASSUME NEW p \in Trees,
           \A n \in Nodes \ {Root} : p[n] = n - 1 \/ p[n] \in Above(p, n - 1)
    PROVE  \A n \in Nodes \ {Root} : p[n] < n
  <1> DEFINE bad == {n \in Nodes \ {Root} : ~(p[n] < n)}
  <1> SUFFICES ASSUME bad # {} PROVE FALSE
    OBVIOUS
  <1>1. PICK n \in bad : \A m \in bad : n <= m
    <2>1. bad \in SUBSET Nat
      BY RootIsNode
    <2> HIDE DEF bad
    <2> QED
      BY <2>1, LeastElement
  <1>2. n \in Nodes \ {Root} /\ n \in Nat /\ n > 0 /\ p[n] \in Nodes /\ p[n] >= n
    BY RootIsNode DEF Trees, Root, Nodes
  <1>3. n - 1 \in Nodes /\ p[n] \in Above(p, n - 1)
    <2>1. PICK x \in Nat : x = p[n]
      BY <1>2, RootIsNode
    <2>2. x >= n
      BY <1>2, <2>1
    <2>3. x # n - 1
      BY <1>2, <2>1, <2>2
    <2> QED
      BY <1>2, <2>1, <2>3, BoundsAssumption DEF Nodes
  <1> DEFINE s == 0..(n - 1)
  <1>4. s \in SUBSET Nodes
    BY <1>2, BoundsAssumption DEF Nodes
  <1>5. ASSUME NEW k \in s \ {Root} PROVE p[k] \in s
    <2>1. k \in Nodes \ {Root} /\ k \notin bad
      BY <1>1, <1>2, <1>4, <1>5
    <2>2. p[k] < k /\ p[k] \in Nat
      BY <2>1, RootIsNode DEF Trees
    <2> QED
      BY <1>2, <1>5, <2>2
  <1>6. n - 1 # Root => p[n - 1] \in s
    BY <1>2, <1>5
  <1>7. Above(p, n - 1) \subseteq s
    <2> HIDE DEF s
    <2> QED
      BY <1>3, <1>4, <1>5, <1>6, AboveWithin
  <1> QED
    BY <1>2, <1>3, <1>7

(* Every way up ends at the root.                                          *)
LEMMA RootAbove ==
    ASSUME NEW p \in Trees, \A n \in Nodes \ {Root} : p[n] < n,
           NEW n \in Nodes \ {Root}
    PROVE  Root \in Above(p, n)
  <1>1. Above(p, n) \in SUBSET Nat /\ Above(p, n) # {}
    BY RootIsNode, AboveParents
  <1>2. PICK a \in Above(p, n) : \A b \in Above(p, n) : a <= b
    BY <1>1, LeastElement
  <1>3. ASSUME a # Root PROVE FALSE
    <2>1. p[a] \in Above(p, n) /\ a \in Nodes \ {Root}
      BY <1>3, AboveParents
    <2>2. p[a] < a /\ a \in Nat /\ p[a] \in Nat /\ a <= p[a]
      BY <1>1, <1>2, <2>1
    <2> QED
      BY <2>2
  <1> QED
    BY <1>2, <1>3

(* A set of nodes, without the root, that has the parents of its members   *)
(* has their ancestors.                                                    *)
LEMMA ChainWithin ==
    ASSUME NEW p \in Trees, NEW s \in SUBSET (Nodes \ {Root}),
           \A k \in s : p[k] \in s \cup {Root}, NEW n \in s
    PROVE  ({n} \cup Above(p, n)) \ {Root} \subseteq s
  <1>1. PICK u : u = s \cup {Root}
    OBVIOUS
  <1>2. u \in SUBSET Nodes /\ (\A k \in u \ {Root} : p[k] \in u) /\ n \in Nodes /\ p[n] \in u
    BY <1>1, RootIsNode
  <1>3. Above(p, n) \subseteq u
    BY <1>2, AboveWithin
  <1> QED
    BY <1>1, <1>3
-----------------------------------------------------------------------------
(***************************************************************************)
(* What is needed.                                                         *)
(***************************************************************************)

Depends == [Nodes \ {Root} -> Seq(Nodes)]
Closed(p, d, s) ==
    \A n \in s : (({n} \cup Above(p, n)) \ {Root}) \cup (ToSet(d[n]) \ {Root}) \subseteq s
Closures(p, d, a) == {s \in SUBSET (Nodes \ {Root}) : a \ {Root} \subseteq s /\ Closed(p, d, s)}
Least(p, d, a) == CHOOSE s \in Closures(p, d, a) : \A u \in Closures(p, d, a) : s \subseteq u

LEMMA NeedsIs == Needs(asked) = Least(parent, deps, asked)
  BY DEF Needs, Complete, Least, Closures, Closed, Chain

LEMMA NeedsPrime == Needs(asked)' = Least(parent', deps', asked')
  BY DEF Needs, Complete, Least, Closures, Closed, Chain

(* There is a least closed set.                                            *)
LEMMA LeastIs ==
    ASSUME NEW p \in Trees, NEW d \in Depends, NEW a \in SUBSET Nodes
    PROVE  /\ Least(p, d, a) \in Closures(p, d, a)
           /\ \A u \in Closures(p, d, a) : Least(p, d, a) \subseteq u
  <1> DEFINE C == Closures(p, d, a)
             m == {x \in Nodes \ {Root} : \A u \in C : x \in u}
  <1>1. m \in SUBSET (Nodes \ {Root}) /\ a \ {Root} \subseteq m
    BY DEF Closures
  <1>2. ASSUME NEW n \in m, NEW x \in (({n} \cup Above(p, n)) \ {Root}) \cup (ToSet(d[n]) \ {Root})
        PROVE  x \in m
    <2>1. x \in Nodes \ {Root}
      <3>1. n \in Nodes \ {Root} /\ d[n] \in Seq(Nodes)
        BY <1>2 DEF Depends
      <3>2. ToSet(d[n]) \subseteq Nodes
        BY <3>1, ToSetIs
      <3>3. Above(p, n) \subseteq Nodes
        BY <3>1, AboveParents
      <3> QED
        BY <1>2, <3>1, <3>2, <3>3
    <2>2. ASSUME NEW u \in C PROVE x \in u
      <3>1. n \in u /\ Closed(p, d, u)
        BY <1>2, <2>2 DEF Closures
      <3> QED
        BY <1>2, <3>1 DEF Closed
    <2> QED
      BY <2>1, <2>2
  <1>3. m \in C
    <2>1. Closed(p, d, m)
      BY <1>2 DEF Closed
    <2> HIDE DEF m
    <2> QED
      BY <1>1, <2>1 DEF Closures
  <1>4. \A u \in C : m \subseteq u
    OBVIOUS
  <1>5. \E s \in C : \A u \in C : s \subseteq u
    <2> HIDE DEF m, C
    <2> QED
      BY <1>3, <1>4
  <1> HIDE DEF m
  <1> QED
    BY <1>5 DEF Least

LEMMA LeastMonotone ==
    ASSUME NEW p \in Trees, NEW d \in Depends,
           NEW b \in SUBSET Nodes, NEW a \in SUBSET b
    PROVE  Least(p, d, a) \subseteq Least(p, d, b)
  <1>1. Least(p, d, b) \in Closures(p, d, b)
    BY LeastIs
  <1>2. Least(p, d, b) \in Closures(p, d, a)
    BY <1>1 DEF Closures
  <1>3. a \in SUBSET Nodes
    OBVIOUS
  <1> QED
    BY <1>2, <1>3, LeastIs

(* What a needed node has as parent or dependency is needed.               *)
LEMMA LeastClosed ==
    ASSUME NEW p \in Trees, NEW d \in Depends, NEW a \in SUBSET Nodes,
           NEW n \in Least(p, d, a)
    PROVE  /\ n \in Nodes \ {Root}
           /\ p[n] \in Least(p, d, a) \cup {Root}
           /\ ToSet(d[n]) \subseteq Least(p, d, a) \cup {Root}
           /\ ({n} \cup Above(p, n)) \ {Root} \subseteq Least(p, d, a)
  <1>1. Least(p, d, a) \in SUBSET (Nodes \ {Root}) /\ Closed(p, d, Least(p, d, a))
    BY LeastIs DEF Closures
  <1>2. p[n] \in Above(p, n)
    BY <1>1, AboveParents
  <1> QED
    BY <1>1, <1>2 DEF Closed
-----------------------------------------------------------------------------
(***************************************************************************)
(* The types.                                                              *)
(***************************************************************************)

Call == [call : {"register", "keep", "trim"}, node : Nodes, arg : Nodes]
Entry == [offset : Nodes \cup {NoOffset}, flag : Flags, cnt : Nat]

LEMMA NamesAre ==
    /\ Nodes \subseteq Names /\ Names \subseteq Nat
    /\ \A n \in Nodes : Missing(n) \in Names \ Nodes
    /\ NoOffset \notin Nodes
  BY BoundsAssumption DEF Nodes, Names, Missing, NoOffset

LEMMA TypesGive ==
    ASSUME TypeInv
    PROVE  /\ parent \in Trees /\ deps \in Depends
           /\ order \in Seq(Names) /\ Listed \subseteq Names /\ DOMAIN entry = Listed
           /\ \A x \in Listed : entry[x] \in Entry
           /\ stack \in Seq(Call) /\ Frames \subseteq Call
           /\ Kept \subseteq Nodes \ {Root} /\ Kept \subseteq Listed
           /\ \A n \in Nodes \ {Root} : parent[n] \in Nodes /\ deps[n] \in Seq(Nodes)
                                        /\ ToSet(deps[n]) \subseteq Nodes
  <1>1. parent \in Trees /\ deps \in Depends /\ order \in Seq(Names) /\ stack \in Seq(Call)
        /\ DOMAIN entry = Listed /\ \A x \in Listed : entry[x] \in Entry
    BY DEF TypeInv, TypeOK, TreeInv, Trees, Depends, Call, Entry
  <1>2. Listed \subseteq Names /\ Frames \subseteq Call
    BY <1>1, ToSetIs DEF Listed, Frames
  <1>3. ASSUME NEW n \in Nodes \ {Root}
        PROVE  parent[n] \in Nodes /\ deps[n] \in Seq(Nodes) /\ ToSet(deps[n]) \subseteq Nodes
    <2>1. parent[n] \in Nodes /\ deps[n] \in Seq(Nodes)
      BY <1>1 DEF Trees, Depends
    <2> QED
      BY <2>1, ToSetIs
  <1> QED
    BY <1>1, <1>2, <1>3 DEF Kept

LEMMA RegisterCallIs ==
    ASSUME TypeInv, NEW n \in Nodes \cup {NoOffset}
    PROVE  /\ RegisterCall(n) \in Seq(Call)
           /\ n \in Nodes \ {Root} =>
                 ToSet(RegisterCall(n)) = {Register(n, t) : t \in ToSet(deps[n])}
           /\ n \notin Nodes \ {Root} => ToSet(RegisterCall(n)) = {}
  <1>1. CASE n \in Nodes \ {Root}
    <2>1. PICK s \in Seq(Nodes) : s = deps[n]
      BY <1>1, TypesGive
    <2>2. RegisterCall(n) = [i \in DOMAIN s |-> Register(n, s[i])]
      BY <1>1, <2>1 DEF RegisterCall
    <2>3. DOMAIN s = 1..Len(s) /\ Len(s) \in Nat /\ \A i \in 1..Len(s) : s[i] \in Nodes
      OBVIOUS
    <2>4. \A t \in Nodes : Register(n, t) \in Call
      BY <1>1 DEF Register, Call
    <2>5. RegisterCall(n) \in [1..Len(s) -> Call]
      BY <2>2, <2>3, <2>4
    <2>6. RegisterCall(n) \in Seq(Call)
      BY <2>3, <2>5
    <2>7. ToSet(RegisterCall(n)) = {Register(n, s[i]) : i \in 1..Len(s)}
      BY <2>2, <2>3 DEF ToSet
    <2>8. ToSet(s) = {s[i] : i \in 1..Len(s)}
      BY <2>3 DEF ToSet
    <2>9. ToSet(RegisterCall(n)) = {Register(n, t) : t \in ToSet(s)}
      BY <2>7, <2>8
    <2> QED
      BY <1>1, <2>1, <2>6, <2>9
  <1>2. CASE n \notin Nodes \ {Root}
    BY <1>2, ToSetNone DEF RegisterCall
  <1> QED
    BY <1>1, <1>2

LEMMA KeepIs ==
    ASSUME TypeInv, NEW n \in Nodes \ {Root}
    PROVE  Keep(n) \in Call /\ Keep(n).call = "keep" /\ Keep(n).node = n /\ Keep(n).arg = parent[n]
  BY TypesGive DEF Keep, Call

LEMMA RegisterIs ==
    ASSUME NEW n \in Nodes, NEW t \in Nodes
    PROVE  /\ Register(n, t) \in Call /\ Register(n, t).call = "register"
           /\ Register(n, t).node = n /\ Register(n, t).arg = t
  BY DEF Register, Call

(* Entering names.                                                         *)
LEMMA EnterIs ==
    ASSUME TypeInv, NEW names \in SUBSET Names, NEW flag \in Flags, Enter(names, flag)
    PROVE  /\ order' \in Seq(Names) /\ Listed' = Listed \cup names
           /\ DOMAIN entry' = Listed' /\ \A x \in Listed' : entry'[x] \in Entry
           /\ \A x \in Listed' :
                 /\ x \notin Listed => entry'[x] = New(NoOffset, flag)
                 /\ x \in Listed => /\ entry'[x].offset = entry[x].offset
                                    /\ entry'[x].cnt = entry[x].cnt
  <1>1. IsFiniteSet(names \ Listed)
    <2>1. IsFiniteSet(Names)
      <3>1. 2 * N - 1 \in Int
        BY BoundsAssumption
      <3> QED
        BY <3>1, FS_Interval DEF Names
    <2> QED
      BY <2>1, FS_Subset
  <1>2. PICK q \in Orders(names \ Listed) : order' = order \o q
    BY DEF Enter
  <1>3. q \in Seq(names \ Listed) /\ ToSet(q) = names \ Listed
    BY <1>1, OrdersAre
  <1>4. q \in Seq(Names) /\ order \in Seq(Names)
    BY <1>3, TypesGive
  <1>5. order' \in Seq(Names) /\ Listed' = Listed \cup names
    <2>1. order \o q \in Seq(Names) /\ ToSet(order \o q) = ToSet(order) \cup ToSet(q)
      BY <1>4, ToSetCat
    <2> QED
      BY <1>2, <1>3, <2>1 DEF Listed
  <1>6. entry' = [x \in Listed \cup names |->
                   IF x \notin Listed THEN New(NoOffset, flag)
                   ELSE IF x \in names THEN [entry[x] EXCEPT !.flag = flag]
                   ELSE entry[x]]
    BY DEF Enter
  <1>7. ASSUME NEW x \in Listed' 
        PROVE  /\ entry'[x] \in Entry
               /\ x \notin Listed => entry'[x] = New(NoOffset, flag)
               /\ x \in Listed => /\ entry'[x].offset = entry[x].offset
                                  /\ entry'[x].cnt = entry[x].cnt
    <2>1. x \in Listed => entry[x] \in Entry
      BY TypesGive
    <2>2. New(NoOffset, flag) \in Entry
      BY DEF New, Entry
    <2>3. x \in Listed => [entry[x] EXCEPT !.flag = flag] \in Entry
      BY <2>1 DEF Entry
    <2> QED
      BY <1>5, <1>6, <1>7, <2>1, <2>2, <2>3 DEF Entry
  <1> QED
    BY <1>5, <1>6, <1>7
-----------------------------------------------------------------------------
(***************************************************************************)
(* The invariant at the start, and when a client asks for nodes.           *)
(***************************************************************************)

LEMMA InitHolds == ASSUME Init PROVE GenInv
  <1>0. /\ order = <<>> /\ entry = <<>> /\ to_list = <<>> /\ stack = <<>>
        /\ it = [pos |-> 0, more |-> FALSE] /\ phase = "open" /\ keeps = 0 /\ generates = 0
        /\ alive = Nodes /\ disabled = {} /\ asked = {} /\ reported = {}
    BY Zenon DEF Init
  <1>1. Listed = {} /\ Frames = {} /\ Kept = {} /\ DOMAIN entry = {} /\ DOMAIN to_list = {}
    BY <1>0 DEF Listed, Frames, Kept, ToSet
  <1>2. TreeInv
    <2>1. parent \in Trees
      BY DEF Init, Trees
    <2>2. \A n \in Nodes \ {Root} : parent[n] = n - 1 \/ parent[n] \in Above(parent, n - 1)
      BY DEF Init
    <2>3. \A n \in Nodes \ {Root} : parent[n] < n
      BY <2>1, <2>2, TreeDown
    <2>4. deps \in [Nodes \ {Root} -> SeqOf(Nodes, MaxDeps)]
      BY DEF Init
    <2>5. SeqOf(Nodes, MaxDeps) \subseteq Seq(Nodes)
      BY BoundsAssumption DEF SeqOf
    <2>6. deps \in [Nodes \ {Root} -> Seq(Nodes)]
      BY <2>4, <2>5
    <2> QED
      BY <2>1, <2>3, <2>6 DEF TreeInv, Trees
  <1>3. CallsInv
    BY <1>0 DEF CallsInv
  <1>4. TypeOK
    <2>1. order \in Seq(Names) /\ stack \in Seq([call : {"register", "keep", "trim"}, node : Nodes, arg : Nodes])
      BY <1>0
    <2> QED
      BY <1>0, <1>1, <2>1 DEF TypeOK
  <1>5. phase = "open" /\ generates = 0 /\ asked = {}
    BY <1>0
  <1>6. OffsetsInv /\ RecordedInv /\ BatchInv /\ ListedInv
    BY <1>1, <1>5 DEF OffsetsInv, RecordedInv, BatchInv, ListedInv
  <1>7. NeedsInv
    BY <1>1, <1>5 DEF NeedsInv
  <1>8. AliveInv /\ WalkInv /\ DisableInv /\ ReportsMissing
    BY <1>1, <1>5 DEF AliveInv, WalkInv, DisableInv, ReportsMissing
  <1> QED
    BY <1>2, <1>3, <1>4, <1>6, <1>7, <1>8 DEF GenInv, TypeInv

(* What a call of the client enters and what it asks for: the same nodes.  *)
Ask(names, nodes, flag) ==
    /\ Asking /\ Enter(names, flag) /\ asked' = asked \cup nodes
    /\ names \subseteq Names /\ nodes \subseteq Nodes
    /\ nodes \subseteq names /\ (names \cap Nodes) \ {Root} \subseteq nodes

LEMMA KeepNodeAsks ==
    ASSUME TypeInv, NEW name \in Wanted, NEW flag \in Flags, KeepNode(name, flag)
    PROVE  Ask({name}, {name} \cap Nodes, flag)
  BY BoundsAssumption DEF KeepNode, Ask, Names

LEMMA KeepSubtreeAsks ==
    ASSUME TypeInv, NEW n \in Nodes, NEW flag \in Flags, KeepSubtree(n, flag)
    PROVE  \E names, nodes : Ask(names, nodes, flag)
  <1>1. CASE n = Root
    <2> DEFINE names == {Root} \cup {Missing(d) : d \in Nodes \ {Root}}
    <2>1. names \subseteq Names /\ (names \cap Nodes) \ {Root} = {}
      BY NamesAre, RootIsNode
    <2>2. Asking /\ Enter(names, flag) /\ asked' = asked \cup {}
      BY <1>1 DEF KeepSubtree
    <2>3. Ask(names, {}, flag)
      <3> HIDE DEF names
      <3> QED
        BY <2>1, <2>2 DEF Ask
    <2> QED
      BY <2>3
  <1>2. CASE n # Root
    <2>1. Subtree(n) \subseteq Nodes /\ Subtree(n) \subseteq Names
      BY NamesAre DEF Subtree
    <2>2. Asking /\ Enter(Subtree(n), flag) /\ asked' = asked \cup Subtree(n)
      BY <1>2 DEF KeepSubtree
    <2>3. Ask(Subtree(n), Subtree(n), flag)
      BY <2>1, <2>2 DEF Ask
    <2> QED
      BY <2>3
  <1> QED
    BY <1>1, <1>2

LEMMA AskKeeps ==
    ASSUME GenInv, NEW names, NEW nodes, NEW flag \in Flags, Ask(names, nodes, flag)
    PROVE  GenInv'
  <1>1. /\ phase = "open" /\ keeps' = keeps + 1
        /\ UNCHANGED <<parent, deps, to_list, it, stack, phase, generates, alive, disabled, reported>>
    BY DEF Ask, Asking, tree
  <1>2. /\ order' \in Seq(Names) /\ Listed' = Listed \cup names
        /\ DOMAIN entry' = Listed' /\ \A x \in Listed' : entry'[x] \in Entry
        /\ \A x \in Listed' :
              /\ x \notin Listed => entry'[x] = New(NoOffset, flag)
              /\ x \in Listed => /\ entry'[x].offset = entry[x].offset
                                 /\ entry'[x].cnt = entry[x].cnt
    BY EnterIs DEF Ask, GenInv
  <1>3. asked' = asked \cup nodes /\ nodes \subseteq Nodes /\ nodes \subseteq names
        /\ (names \cap Nodes) \ {Root} \subseteq nodes
    BY DEF Ask
  <1>4. stack = <<>> /\ Frames = {} /\ Frames' = {}
    BY <1>1 DEF GenInv, TypeInv, CallsInv, Frames, ToSet
  <1>5. Kept' = Kept \cup ((names \cap Nodes) \ {Root}) /\ Kept \subseteq Listed
    BY <1>2 DEF Kept
  <1>6. \A x \in Listed' \ Listed : entry'[x].offset = NoOffset /\ entry'[x].cnt = 0
    BY <1>2 DEF New
  <1>7. TypeInv'
    <2>1. TypeOK'
      <3>1. asked' \subseteq Nodes
        BY <1>3 DEF GenInv, TypeInv, TypeOK
      <3> QED
        BY <1>1, <1>2, <3>1 DEF GenInv, TypeInv, TypeOK, Entry
    <2>2. TreeInv'
      BY <1>1 DEF GenInv, TypeInv, TreeInv
    <2>3. CallsInv'
      <3>1. keeps' \in Nat /\ generates' \in Nat
        BY <1>1 DEF GenInv, TypeInv, CallsInv
      <3> QED
        BY <1>1, <1>4, <3>1 DEF CallsInv
    <2> QED
      BY <2>1, <2>2, <2>3 DEF TypeInv
  <1>8. OffsetsInv'
    <2> SUFFICES ASSUME NEW x \in Listed'
                 PROVE  /\ x \notin Nodes => entry'[x].offset = NoOffset
                        /\ x = Root => entry'[x].offset \in {NoOffset, Root}
                        /\ x \in Kept' => entry'[x].offset \in {NoOffset, x, parent[x]}
      BY <1>1 DEF OffsetsInv
    <2>1. CASE x \in Listed
      <3>1. entry'[x].offset = entry[x].offset
        BY <1>2, <2>1
      <3>2. x \in Kept' => x \in Kept
        BY <2>1 DEF Kept
      <3> QED
        BY <2>1, <3>1, <3>2 DEF GenInv, OffsetsInv
    <2>2. CASE x \notin Listed
      BY <1>6, <2>2
    <2> QED
      BY <2>1, <2>2
  <1>9. RecordedInv'
    BY <1>1, <1>2, <1>4 DEF GenInv, RecordedInv, Keep, Register
  <1>10. BatchInv' /\ ListedInv' /\ AliveInv' /\ WalkInv'
    BY <1>1 DEF BatchInv, ListedInv, AliveInv, WalkInv
  <1>11. NeedsInv'
    <2>1. asked' \ {Root} \subseteq Listed'
      BY <1>1, <1>2, <1>3 DEF GenInv, NeedsInv
    <2>2. CASE Stray
      <3>1. PICK x \in Listed : x \notin Nodes \ {Root} /\ entry[x].offset = NoOffset
        BY <2>2 DEF Stray
      <3>2. Stray'
        BY <1>2, <3>1 DEF Stray
      <3> QED
        BY <1>1, <2>1, <3>2 DEF NeedsInv
    <2>3. CASE ~Stray
      <3>1. Kept \subseteq Least(parent, deps, asked)
        BY <1>1, <2>3, NeedsIs DEF GenInv, NeedsInv
      <3>2. parent \in Trees /\ deps \in Depends /\ asked \subseteq Nodes
        BY TypesGive DEF GenInv, TypeInv, TypeOK
      <3>3. asked' \in SUBSET Nodes /\ asked \in SUBSET asked'
        BY <1>3, <3>2
      <3>4. Least(parent, deps, asked) \subseteq Least(parent, deps, asked')
        BY <3>2, <3>3, LeastMonotone
      <3>5. asked' \ {Root} \subseteq Least(parent, deps, asked')
        BY <3>2, <3>3, LeastIs DEF Closures
      <3>6. Kept' \subseteq Least(parent, deps, asked')
        BY <1>3, <1>5, <3>1, <3>4, <3>5
      <3>7. Needs(asked)' = Least(parent, deps, asked')
        BY <1>1, NeedsPrime
      <3> QED
        BY <1>1, <2>1, <3>6, <3>7 DEF NeedsInv
    <2> QED
      BY <2>2, <2>3
  <1>12. DisableInv'
    <2>1. ASSUME generates = 0, NEW x \in Listed' PROVE entry'[x].cnt = 0
      BY <1>2, <1>6, <2>1 DEF GenInv, DisableInv
    <2>2. ASSUME generates > 0 PROVE alive' \ {Root} \subseteq Listed'
      BY <1>1, <1>2, <2>2 DEF GenInv, DisableInv
    <2>3. ASSUME generates > 0, NEW x \in Kept'
          PROVE  IF x \in alive' THEN entry'[x].cnt > 0 ELSE x \in asked'
      <3>1. CASE x \in Kept
        <4>1. IF x \in alive THEN entry[x].cnt > 0 ELSE x \in asked
          BY <1>1, <2>3, <3>1 DEF GenInv, DisableInv
        <4>2. entry'[x].cnt = entry[x].cnt
          BY <1>2, <1>5, <3>1
        <4> QED
          BY <1>1, <1>3, <4>1, <4>2
      <3>2. CASE x \notin Kept
        <4>1. x \in nodes /\ x \notin Listed /\ x # Root
          BY <1>3, <1>5, <2>3, <3>2 DEF Kept
        <4>2. x \notin alive
          BY <1>1, <2>3, <4>1 DEF GenInv, DisableInv
        <4> QED
          BY <1>1, <1>3, <4>1, <4>2
      <3> QED
        BY <3>1, <3>2
    <2>4. generates' = generates /\ phase' = "open"
      BY <1>1
    <2> QED
      BY <2>1, <2>2, <2>3, <2>4 DEF DisableInv
  <1>13. ReportsMissing'
    BY <1>1 DEF ReportsMissing
  <1> QED
    BY <1>7, <1>8, <1>9, <1>10, <1>11, <1>12, <1>13 DEF GenInv
-----------------------------------------------------------------------------
(***************************************************************************)
(* find_nodes_to_keep.                                                     *)
(***************************************************************************)

LEMMA FoundIs ==
    ASSUME TypeInv
    PROVE  /\ Found \subseteq Nodes \ {Root} /\ Kept \subseteq Found
           /\ \A n \in Found : parent[n] \in Found \cup {Root}
           /\ \A x \in Found : \E n \in Kept : x \in ({n} \cup Above(parent, n)) \ {Root}
  <1>1. parent \in Trees /\ Kept \subseteq Nodes \ {Root}
    BY TypesGive
  <1>2. \A x : x \in Found <=> \E n \in Kept : x \in ({n} \cup Above(parent, n)) \ {Root}
    BY DEF Found, Kept, Chain
  <1>3. ASSUME NEW n \in Kept
        PROVE  n \in Nodes \ {Root} /\ Above(parent, n) \subseteq Nodes
    BY <1>1, AboveParents
  <1>4. ASSUME NEW x \in Found PROVE parent[x] \in Found \cup {Root}
    <2>1. PICK n \in Kept : x \in ({n} \cup Above(parent, n)) \ {Root}
      BY <1>2
    <2>2. n \in Nodes /\ n # Root
      BY <1>3
    <2>3. parent[x] \in Above(parent, n)
      BY <1>1, <2>1, <2>2, AboveParents
    <2> QED
      BY <1>2, <2>3
  <1> QED
    BY <1>2, <1>3, <1>4

LEMMA FindKeeps ==
    ASSUME GenInv, FindNodesToKeep
    PROVE  GenInv'
  <1> USE DEF GenInv
  <1>1. /\ phase = "open" /\ phase' = "resolve" /\ generates' = generates + 1
        /\ it' = [pos |-> 0, more |-> order # <<>>] /\ alive' = Nodes /\ disabled' = {}
        /\ UNCHANGED <<parent, deps, to_list, stack, keeps, asked, reported>>
    BY DEF FindNodesToKeep, tree, history
  <1>2. /\ Found \subseteq Nodes \ {Root} /\ Kept \subseteq Found
        /\ \A n \in Found : parent[n] \in Found \cup {Root}
        /\ \A x \in Found : \E n \in Kept : x \in ({n} \cup Above(parent, n)) \ {Root}
    BY FoundIs
  <1>3. order' \in Seq(Names) /\ Listed' = Listed \cup Found
    <2>1. IsFiniteSet(Found \ Listed)
      BY <1>2, RootIsNode, FS_Subset
    <2>2. PICK q \in Orders(Found \ Listed) : order' = order \o q
      BY DEF FindNodesToKeep
    <2>3. q \in Seq(Found \ Listed) /\ ToSet(q) = Found \ Listed
      BY <2>1, OrdersAre
    <2>4. q \in Seq(Names) /\ order \in Seq(Names)
      <3>1. Found \ Listed \subseteq Names
        BY <1>2, NamesAre
      <3> QED
        BY <2>3, <3>1, TypesGive
    <2>5. order \o q \in Seq(Names) /\ ToSet(order \o q) = ToSet(order) \cup ToSet(q)
      BY <2>4, ToSetCat
    <2> QED
      BY <2>2, <2>3, <2>5 DEF Listed
  <1>4. Kept' = Found
    BY <1>2, <1>3 DEF Kept
  <1>5. entry' = [x \in Listed \cup Found |->
                   IF x \notin Listed THEN New(x, "keep")
                   ELSE IF x \in Found THEN [entry[x] EXCEPT !.offset = x]
                   ELSE entry[x]]
    BY DEF FindNodesToKeep
  <1>6. \A x \in Listed : entry[x] \in Entry
    BY TypesGive
  <1>7. /\ DOMAIN entry' = Listed'
        /\ \A x \in Listed' : entry'[x] \in Entry
        /\ \A x \in Found : entry'[x].offset = x
        /\ \A x \in Listed \ Found : entry'[x] = entry[x]
        /\ \A x \in Listed : entry'[x].cnt = entry[x].cnt
        /\ \A x \in Listed' \ Listed : entry'[x].cnt = 0
    <2>1. \A x \in Found : New(x, "keep") \in Entry /\ New(x, "keep").offset = x
                           /\ New(x, "keep").cnt = 0
      BY <1>2 DEF New, Entry, Flags
    <2>2. \A x \in Listed \cap Found :
             LET e == [entry[x] EXCEPT !.offset = x]
             IN  e \in Entry /\ e.offset = x /\ e.cnt = entry[x].cnt
      BY <1>2, <1>6 DEF Entry
    <2> QED
      BY <1>3, <1>5, <1>6, <2>1, <2>2
  <1>8. stack = <<>> /\ Frames = {} /\ Frames' = {}
    BY <1>1 DEF TypeInv, CallsInv, Frames, ToSet
  <1>9. TypeInv'
    <2>1. TypeOK'
      <3>1. it' \in [pos : Nat, more : BOOLEAN]
        BY <1>1
      <3> QED
        BY <1>1, <1>3, <1>7, <3>1 DEF TypeInv, TypeOK, Entry
    <2>2. TreeInv'
      BY <1>1 DEF TypeInv, TreeInv
    <2>3. CallsInv'
      <3>1. keeps' \in Nat /\ generates' \in Nat /\ generates' > 0
        BY <1>1 DEF TypeInv, CallsInv
      <3>2. ASSUME it'.more PROVE it'.pos + 1 <= Len(order')
        <4>0. it'.more = (order # <<>>) /\ it'.pos = 0
          BY <1>1
        <4>3. order # <<>>
          BY <3>2, <4>0, Zenon
        <4>1. Listed # {} /\ it'.pos = 0
          BY <4>0, <4>3, TypesGive, ToSetIs DEF Listed
        <4>2. order' # <<>>
          BY <1>3, <4>1, ToSetIs DEF Listed
        <4> QED
          BY <1>3, <4>1, <4>2
      <3> QED
        BY <1>1, <1>8, <3>1, <3>2 DEF CallsInv
    <2> QED
      BY <2>1, <2>2, <2>3 DEF TypeInv
  <1>10. OffsetsInv'
    <2> SUFFICES ASSUME NEW x \in Listed'
                 PROVE  /\ x \notin Nodes => entry'[x].offset = NoOffset
                        /\ x = Root => entry'[x].offset \in {NoOffset, Root}
                        /\ x \in Kept' => entry'[x].offset \in {NoOffset, x, parent[x]}
                        /\ x \in Kept' => entry'[x].offset # NoOffset
      BY <1>1 DEF OffsetsInv
    <2>1. CASE x \in Found
      BY <1>2, <1>7, <2>1, NamesAre
    <2>2. CASE x \notin Found
      BY <1>3, <1>4, <1>7, <2>2 DEF OffsetsInv
    <2> QED
      BY <2>1, <2>2
  <1>11. RecordedInv'
    BY <1>1, <1>3, <1>8 DEF RecordedInv, Keep, Register
  <1>12. BatchInv'
    BY <1>8 DEF BatchInv
  <1>13. ListedInv'
    <2> SUFFICES ASSUME NEW n \in Found
                 PROVE  parent'[n] \in Listed' \cup {Root} /\ Ahead(n)'
      BY <1>4 DEF ListedInv
    <2>1. order # <<>>
      <3>1. Listed # {}
        BY <1>2 DEF Kept
      <3> QED
        BY <3>1, TypesGive, ToSetIs DEF Listed
    <2>2. PICK i \in DOMAIN order' : order'[i] = n
      BY <1>3 DEF Listed, ToSet
    <2>3. i > 0
      BY <1>3, <2>2
    <2> QED
      BY <1>1, <1>2, <1>3, <1>7, <2>1, <2>2, <2>3 DEF Ahead
  <1>14. NeedsInv'
    <2>1. asked' \ {Root} \subseteq Listed'
      BY <1>1, <1>3 DEF NeedsInv
    <2>2. CASE Stray
      <3>1. PICK x \in Listed : x \notin Nodes \ {Root} /\ entry[x].offset = NoOffset
        BY <2>2 DEF Stray
      <3>2. Stray'
        BY <1>2, <1>3, <1>7, <3>1 DEF Stray
      <3> QED
        BY <1>1, <2>1, <3>2 DEF NeedsInv
    <2>3. CASE ~Stray
      <3>1. Kept \subseteq Least(parent, deps, asked)
        BY <1>1, <2>3, NeedsIs DEF NeedsInv
      <3>2. parent \in Trees /\ deps \in Depends /\ asked \in SUBSET Nodes
        BY TypesGive DEF TypeInv, TypeOK
      <3>3. ASSUME NEW x \in Found PROVE x \in Least(parent, deps, asked)
        <4>1. PICK n \in Kept : x \in ({n} \cup Above(parent, n)) \ {Root}
          BY <1>2
        <4> QED
          BY <3>1, <3>2, <4>1, LeastClosed
      <3>4. Needs(asked)' = Least(parent, deps, asked)
        BY <1>1, NeedsPrime
      <3> QED
        BY <1>4, <1>8, <2>1, <3>3, <3>4 DEF NeedsInv
    <2> QED
      BY <2>2, <2>3
  <1>15. AliveInv' /\ WalkInv' /\ ReportsMissing'
    BY <1>1 DEF AliveInv, WalkInv, ReportsMissing
  <1>16. DisableInv'
    <2>1. ASSUME generates' = 1, NEW x \in Listed' PROVE entry'[x].cnt = 0
      <3>1. generates = 0
        BY <1>1, <2>1 DEF TypeInv, CallsInv
      <3> QED
        BY <1>7, <3>1 DEF DisableInv
    <2>2. generates' # 0
      BY <1>1 DEF TypeInv, CallsInv
    <2> QED
      BY <1>1, <2>1, <2>2 DEF DisableInv
  <1> QED
    BY <1>9, <1>10, <1>11, <1>12, <1>13, <1>14, <1>15, <1>16
-----------------------------------------------------------------------------
(***************************************************************************)
(* resolve_all_dependencies.                                               *)
(***************************************************************************)

(* The parts that only the trimming and the client change.                 *)
LEMMA ResolveLeaves ==
    ASSUME GenInv, phase = "resolve", phase' = "resolve",
           UNCHANGED <<generates, alive, disabled, reported, asked>>,
           \A x \in Listed' : x \notin Listed => entry'[x].cnt = 0,
           \A x \in Listed' : x \in Listed => entry'[x] = entry[x]
    PROVE  AliveInv' /\ WalkInv' /\ DisableInv' /\ ReportsMissing'
  <1>1. AliveInv'
    BY DEF GenInv, AliveInv
  <1>2. WalkInv' /\ ReportsMissing'
    BY DEF WalkInv, ReportsMissing
  <1>3. DisableInv'
    <2>1. generates' # 0
      BY DEF GenInv, TypeInv, CallsInv
    <2>2. ASSUME generates' = 1, NEW x \in Listed' PROVE entry'[x].cnt = 0
      <3>1. x \in Listed => entry[x].cnt = 0
        BY <2>2 DEF GenInv, DisableInv
      <3> QED
        BY <3>1
    <2> QED
      BY <2>1, <2>2 DEF DisableInv
  <1> QED
    BY <1>1, <1>2, <1>3

(* While the table stays as it is, so do the offsets and what is stray.    *)
LEMMA TableStays ==
    ASSUME GenInv, UNCHANGED <<order, entry, parent, deps>>
    PROVE  /\ Listed' = Listed /\ Kept' = Kept /\ (Stray <=> Stray')
           /\ phase = "resolve" /\ phase' \in {"resolve", "trim"} => OffsetsInv'
  <1>1. Listed' = Listed
    BY DEF Listed
  <1>2. Kept' = Kept
    BY <1>1 DEF Kept
  <1>3. Stray <=> Stray'
    BY <1>1 DEF Stray
  <1>4. ASSUME phase = "resolve" PROVE OffsetsInv'
    BY <1>1, <1>2, <1>4 DEF GenInv, OffsetsInv
  <1> QED
    BY <1>1, <1>2, <1>3, <1>4

LEMMA ResolveEntryKeeps ==
    ASSUME GenInv, ResolveEntry
    PROVE  GenInv'
  <1> USE DEF GenInv
  <1>1. /\ phase = "resolve" /\ stack = <<>> /\ it.more
        /\ it' = [pos |-> it.pos + 1, more |-> it.pos + 2 <= Len(order)]
        /\ UNCHANGED <<parent, deps, order, entry, to_list, phase, keeps, generates, alive,
                       disabled, asked, reported>>
    BY DEF ResolveEntry, tree, table, history
  <1>0. it'.pos = it.pos + 1 /\ (it'.more <=> it.pos + 2 <= Len(order))
    <2>1. it'.pos = it.pos + 1 /\ it'.more = (it.pos + 2 <= Len(order))
      BY <1>1
    <2> QED
      BY <2>1, Zenon
  <1>2. PICK x : x = order[it.pos + 1]
    OBVIOUS
  <1>3. x \in Listed /\ it.pos \in Nat /\ it.pos + 1 \in 1..Len(order) /\ order \in Seq(Names)
    <2>1. order \in Seq(Names) /\ it.pos \in Nat /\ it.pos + 1 <= Len(order)
      BY <1>1, TypesGive DEF TypeInv, TypeOK, CallsInv
    <2> QED
      BY <1>2, <2>1, ToSetIs DEF Listed
  <1>4. PICK o : /\ o \in IF entry[x].offset = NoOffset THEN Nodes \cup {NoOffset}
                          ELSE {entry[x].offset}
                 /\ stack' = RegisterCall(o)
    BY <1>2 DEF ResolveEntry
  <1>5. o \in Nodes \cup {NoOffset}
    BY <1>3, <1>4, TypesGive DEF Entry
  <1>6. /\ stack' \in Seq(Call)
        /\ o \in Nodes \ {Root} => Frames' = {Register(o, t) : t \in ToSet(deps[o])}
        /\ o \notin Nodes \ {Root} => Frames' = {}
    BY <1>4, <1>5, RegisterCallIs DEF Frames
  <1>7. ASSUME NEW f \in Frames'
        PROVE  /\ o \in Nodes \ {Root} /\ f.node = o /\ f.call = "register"
               /\ f.arg \in ToSet(deps[o])
    <2>1. o \in Nodes \ {Root}
      BY <1>6, <1>7
    <2>2. PICK t \in ToSet(deps[o]) : f = Register(o, t)
      BY <1>6, <1>7, <2>1
    <2>3. t \in Nodes
      BY <2>1, <2>2, TypesGive
    <2> QED
      BY <2>1, <2>2, <2>3, RegisterIs
  <1>8. Frames = {}
    BY <1>1 DEF Frames, ToSet
  <1>9. Listed' = Listed /\ Kept' = Kept /\ (Stray <=> Stray') /\ OffsetsInv'
    BY <1>1, TableStays
  <1>10. TypeInv'
    <2>1. TypeOK'
      <3>1. it' \in [pos : Nat, more : BOOLEAN]
        BY <1>1, <1>3
      <3> QED
        BY <1>1, <1>6, <1>9, <3>1 DEF TypeInv, TypeOK, Call
    <2>2. TreeInv'
      BY <1>1 DEF TypeInv, TreeInv
    <2>3. CallsInv'
      <3>1. it'.more => it'.pos + 1 <= Len(order')
        BY <1>0, <1>1, <1>3
      <3> QED
        BY <1>1, <1>7, <3>1 DEF TypeInv, CallsInv
    <2> QED
      BY <2>1, <2>2, <2>3 DEF TypeInv
  <1>11. RecordedInv'
    <2> SUFFICES ASSUME NEW n \in DOMAIN to_list
                 PROVE  /\ \A t \in ToSet(deps[n]) : t = n \/ t \in to_list[n]
                        /\ \A t \in to_list[n] \ {Root} : t \in Listed'
      BY <1>1 DEF RecordedInv
    <2> QED
      BY <1>8, <1>9 DEF RecordedInv
  <1>12. BatchInv'
    <2> SUFFICES ASSUME NEW f \in Frames', NEW t \in ToSet(deps'[f.node])
                 PROVE  Register(f.node, t) \in Frames'
      BY DEF BatchInv, Batched, Register
    <2> QED
      BY <1>1, <1>6, <1>7
  <1>13. ListedInv'
    <2> SUFFICES ASSUME NEW n \in Kept
                 PROVE  /\ parent[n] \in Listed \cup {Root}
                        /\ n \in DOMAIN to_list' \/ Batched(n)' \/ Ahead(n)'
      BY <1>1, <1>9 DEF ListedInv
    <2>1. /\ parent[n] \in Listed \cup {Root}
          /\ n \in DOMAIN to_list \/ Batched(n) \/ Ahead(n)
      BY <1>1, <1>8 DEF ListedInv
    <2>2. CASE Batched(n)
      BY <1>1, <1>8, <2>1, <2>2 DEF Batched
    <2>3. CASE Ahead(n)
      <3>1. PICK i \in DOMAIN order : i > it.pos /\ order[i] = n
        BY <2>3 DEF Ahead
      <3>2. i \in Nat /\ i <= Len(order)
        BY <1>3
      <3>3. CASE i = it.pos + 1
        <4>1. n = x /\ entry[x].offset = n /\ n \in Nodes \ {Root}
          BY <1>2, <2>3, <3>1, <3>3, TypesGive DEF Ahead
        <4>2. o = n
          BY <1>4, <4>1, NamesAre
        <4>3. Batched(n)'
          BY <1>1, <1>6, <4>1, <4>2 DEF Batched, Register
        <4> QED
          BY <2>1, <4>3
      <3>4. CASE i > it.pos + 1
        <4>1. it'.more /\ i > it'.pos
          BY <1>0, <1>3, <3>2, <3>4
        <4>2. Ahead(n)'
          BY <1>1, <2>3, <3>1, <4>1 DEF Ahead
        <4> QED
          BY <2>1, <4>2
      <3> QED
        BY <1>3, <3>1, <3>2, <3>3, <3>4
    <2> QED
      BY <1>1, <2>1, <2>2, <2>3
  <1>14. NeedsInv'
    <2>1. Needs(asked)' = Needs(asked) /\ Needs(asked) = Least(parent, deps, asked)
      BY <1>1, NeedsPrime, NeedsIs
    <2>2. ASSUME ~Stray, NEW f \in Frames' PROVE f.node \in Needs(asked)
      <3>1. o \in Nodes \ {Root} /\ f.node = o
        BY <1>7, <2>2
      <3>2. parent \in Trees /\ deps \in Depends /\ asked \in SUBSET Nodes
        BY TypesGive DEF TypeInv, TypeOK
      <3>3. CASE x \in Kept
        <4>1. x \in Needs(asked) /\ entry[x].offset \in {x, parent[x]}
          BY <1>1, <2>2, <3>3, TypesGive DEF NeedsInv, OffsetsInv
        <4>2. o \in {x, parent[x]}
          BY <1>4, <4>1, <1>3, <3>3, <1>1 DEF OffsetsInv
        <4> QED
          BY <2>1, <3>1, <3>2, <4>1, <4>2, LeastClosed
      <3>4. CASE x \notin Kept
        <4>1. x \notin Nodes \ {Root}
          BY <1>3, <3>4 DEF Kept
        <4>2. entry[x].offset # NoOffset
          BY <1>3, <2>2, <4>1 DEF Stray
        <4>3. entry[x].offset = Root
          BY <1>3, <4>1, <4>2 DEF OffsetsInv
        <4> QED
          BY <1>4, <3>1, <4>2, <4>3
      <3> QED
        BY <3>3, <3>4
    <2> QED
      BY <1>1, <1>9, <2>1, <2>2 DEF NeedsInv
  <1>15. AliveInv' /\ WalkInv' /\ DisableInv' /\ ReportsMissing'
    BY <1>1, <1>9, ResolveLeaves
  <1> QED
    BY <1>9, <1>10, <1>11, <1>12, <1>13, <1>14, <1>15

(* The innermost call.                                                     *)
LEMMA TopIs ==
    ASSUME GenInv, phase = "resolve", stack # <<>>
    PROVE  /\ Top \in Call /\ Tail(stack) \in Seq(Call)
           /\ Frames = {Top} \cup ToSet(Tail(stack))
           /\ Top.node \in Nodes \ {Root} /\ Top.arg \in Nodes
           /\ Top.call = "register" => /\ Top.arg \in ToSet(deps[Top.node])
                                       /\ Top = Register(Top.node, Top.arg)
           /\ Top.call = "keep" => Top.arg = parent[Top.node] /\ Top = Keep(Top.node)
  <1>1. Top \in Call /\ Tail(stack) \in Seq(Call) /\ Frames = {Top} \cup ToSet(Tail(stack))
    BY TypesGive, ToSetTail DEF GenInv, Frames, Top
  <1>2. Top \in Frames
    BY <1>1
  <1>3. /\ Top.node # Root
        /\ Top.call = "register" => Top.arg \in ToSet(deps[Top.node])
        /\ Top.call = "keep" => Top.arg = parent[Top.node]
    BY <1>2 DEF GenInv, TypeInv, CallsInv
  <1>4. Top = [call |-> Top.call, node |-> Top.node, arg |-> Top.arg]
        /\ Top.node \in Nodes /\ Top.arg \in Nodes
    BY <1>1 DEF Call
  <1> QED
    BY <1>1, <1>3, <1>4 DEF Register, Keep

LEMMA RegisterDependencyKeeps ==
    ASSUME GenInv, RegisterDependency
    PROVE  GenInv'
  <1> USE DEF GenInv
  <1> DEFINE n == Top.node
             t == Top.arg
             rest == ToSet(Tail(stack))
             new == t # n /\ t \notin Recorded(n)
             add == IF new THEN {t} ELSE {}
  <1>1. /\ phase = "resolve" /\ stack # <<>> /\ Top.call = "register"
        /\ to_list' = Record(n, add)
        /\ stack' = IF new THEN Follow(t) ELSE Tail(stack)
        /\ UNCHANGED <<parent, deps, order, entry, it, phase, keeps, generates, alive,
                       disabled, asked, reported>>
    BY DEF RegisterDependency, Working, tree, table, history
  <1>2. /\ Top \in Call /\ Tail(stack) \in Seq(Call) /\ Frames = {Top} \cup rest
        /\ n \in Nodes \ {Root} /\ t \in Nodes /\ t \in ToSet(deps[n]) /\ Top = Register(n, t)
    BY <1>1, TopIs
  <1>3. /\ DOMAIN to_list' = DOMAIN to_list \cup {n}
        /\ to_list'[n] = Recorded(n) \cup add
        /\ \A m \in DOMAIN to_list : m # n => to_list'[m] = to_list[m]
        /\ n \in DOMAIN to_list => Recorded(n) = to_list[n]
        /\ n \notin DOMAIN to_list => Recorded(n) = {}
    <2> HIDE DEF n, add
    <2> QED
      BY <1>1 DEF Record, Recorded
  <1>4. /\ stack' \in Seq(Call) /\ rest \subseteq Frames'
        /\ new /\ t # Root => /\ Keep(t) \in Frames'
                              /\ \A u \in ToSet(deps[t]) : Register(t, u) \in Frames'
        /\ \A f \in Frames' : \/ f \in rest
                              \/ new /\ t # Root /\ f = Keep(t)
                              \/ new /\ t # Root /\ \E u \in ToSet(deps[t]) : f = Register(t, u)
    <2>1. CASE ~new
      <3>1. stack' = Tail(stack)
        BY <1>1, <2>1
      <3>2. Frames' = rest
        BY <3>1 DEF Frames
      <3> QED
        BY <1>2, <2>1, <3>1, <3>2
    <2>2. CASE new
      <3> DEFINE up == IF t = Root THEN <<>> ELSE <<Keep(t)>>
      <3>1. up \in Seq(Call) /\ ToSet(up) = IF t = Root THEN {} ELSE {Keep(t)}
        <4>1. CASE t = Root
          BY <4>1, ToSetNone
        <4>2. CASE t # Root
          <5>1. Keep(t) \in Call
            BY <1>2, <4>2, KeepIs
          <5> QED
            BY <4>2, <5>1, ToSetOne
        <4> QED
          BY <4>1, <4>2
      <3>2. /\ RegisterCall(t) \in Seq(Call)
            /\ t # Root => ToSet(RegisterCall(t)) = {Register(t, u) : u \in ToSet(deps[t])}
            /\ t = Root => ToSet(RegisterCall(t)) = {}
        BY <1>2, RegisterCallIs
      <3>3. stack' = (up \o RegisterCall(t)) \o Tail(stack)
        BY <1>1, <2>2 DEF Follow
      <3> HIDE DEF up
      <3>4. /\ up \o RegisterCall(t) \in Seq(Call)
            /\ ToSet(up \o RegisterCall(t)) = ToSet(up) \cup ToSet(RegisterCall(t))
        BY <3>1, <3>2, ToSetCat
      <3>5. stack' \in Seq(Call) /\ Frames' = (ToSet(up) \cup ToSet(RegisterCall(t))) \cup rest
        <4>1. PICK a, b : a = up \o RegisterCall(t) /\ b = Tail(stack)
          OBVIOUS
        <4>2. a \in Seq(Call) /\ b \in Seq(Call) /\ ToSet(b) = rest
              /\ ToSet(a) = ToSet(up) \cup ToSet(RegisterCall(t))
          BY <1>2, <3>4, <4>1
        <4>3. a \o b \in Seq(Call) /\ ToSet(a \o b) = ToSet(a) \cup ToSet(b)
          BY <4>2, ToSetCat
        <4>4. stack' = a \o b
          BY <3>3, <4>1
        <4>5. Frames' = ToSet(a \o b)
          BY <4>4 DEF Frames
        <4> QED
          BY <4>2, <4>3, <4>4, <4>5
      <3> QED
        BY <2>2, <3>1, <3>2, <3>5
    <2> QED
      BY <2>1, <2>2
  <1>5. Listed' = Listed /\ Kept' = Kept /\ (Stray <=> Stray') /\ OffsetsInv'
    BY <1>1, TableStays
  <1>6. \A m, u \in Nodes : Register(m, u) \in Frames => (m = n /\ u = t) \/ Register(m, u) \in rest
    <2>1. ASSUME NEW m \in Nodes, NEW u \in Nodes, Register(m, u) = Top PROVE m = n /\ u = t
      BY <2>1, <1>2, RegisterIs
    <2> QED
      BY <1>2, <2>1
  <1>7. \A u \in Nodes \ {Root} : Keep(u) \in Frames => Keep(u) \in rest
    BY <1>1, <1>2, KeepIs
  <1>8. Frames' \subseteq Call
    BY <1>4, ToSetIs DEF Frames
  <1>9. ASSUME NEW f \in Frames'
        PROVE  \/ f \in rest /\ f \in Frames
               \/ new /\ f.node = t /\ t \in Nodes \ {Root} /\ f.call = "keep" /\ f.arg = parent[t]
               \/ new /\ f.node = t /\ t \in Nodes \ {Root} /\ f.call = "register"
                  /\ f.arg \in ToSet(deps[t])
    <2>1. CASE f \in rest
      BY <1>2, <2>1
    <2>2. CASE new /\ t # Root /\ f = Keep(t)
      BY <1>2, <2>2, KeepIs
    <2>3. CASE new /\ t # Root /\ \E u \in ToSet(deps[t]) : f = Register(t, u)
      <3>1. PICK u \in ToSet(deps[t]) : f = Register(t, u)
        BY <2>3
      <3>2. u \in Nodes /\ t \in Nodes \ {Root}
        BY <1>2, <2>3, <3>1, TypesGive
      <3> QED
        BY <2>3, <3>1, <3>2, RegisterIs
    <2> QED
      BY <1>4, <1>9, <2>1, <2>2, <2>3
  <1> HIDE DEF n, t, rest, new, add
  <1>10. DOMAIN to_list \subseteq Nodes \ {Root} /\ \A m \in DOMAIN to_list : to_list[m] \subseteq Nodes
    BY DEF TypeInv, TypeOK
  <1>11. add \subseteq {t} /\ (t = n \/ t \in Recorded(n) \/ t \in add) /\ (t \in add => new)
    BY DEF add, new
  <1>12. TypeInv'
    <2>1. TypeOK'
      <3>1. DOMAIN to_list' \subseteq Nodes \ {Root}
        BY <1>2, <1>3, <1>10
      <3>2. \A m \in DOMAIN to_list' : to_list'[m] \subseteq Nodes
        BY <1>2, <1>3, <1>10, <1>11
      <3> QED
        BY <1>1, <1>4, <1>5, <3>1, <3>2 DEF TypeInv, TypeOK, Call
    <2>2. TreeInv'
      BY <1>1 DEF TypeInv, TreeInv
    <2>3. CallsInv'
      <3>1. ASSUME NEW f \in Frames'
            PROVE  /\ f.node # Root
                   /\ \/ f.call = "register" /\ f.arg \in ToSet(deps[f.node])
                      \/ f.call = "keep" /\ f.arg = parent[f.node]
        BY <1>1, <1>9 DEF TypeInv, CallsInv
      <3> QED
        BY <1>1, <3>1 DEF TypeInv, CallsInv
    <2> QED
      BY <2>1, <2>2, <2>3 DEF TypeInv
  <1>13. RecordedInv'
    <2>1. ASSUME NEW m \in DOMAIN to_list', NEW u \in ToSet(deps[m])
          PROVE  u = m \/ u \in to_list'[m] \/ Register(m, u) \in Frames'
      <3>1. m \in Nodes \ {Root} /\ u \in Nodes
        <4>1. m \in Nodes \ {Root}
          BY <1>2, <1>3, <1>10
        <4> QED
          BY <2>1, <4>1, TypesGive
      <3>2. u = m \/ (m \in DOMAIN to_list /\ u \in to_list[m]) \/ Register(m, u) \in Frames
        <4>1. CASE m \in DOMAIN to_list
          BY <2>1, <4>1 DEF RecordedInv
        <4>2. CASE m \notin DOMAIN to_list
          <5>1. m = n
            BY <1>3, <4>2
          <5>2. Batched(n)
            BY <1>1, <1>2, <4>2, <5>1 DEF BatchInv, n
          <5> QED
            BY <2>1, <5>1, <5>2 DEF Batched
        <4> QED
          BY <4>1, <4>2
      <3>3. CASE Register(m, u) \in Frames
        <4>1. CASE m = n /\ u = t
          BY <1>3, <1>11, <4>1
        <4>2. CASE Register(m, u) \in rest
          BY <1>4, <4>2
        <4> QED
          BY <1>6, <3>1, <3>3, <4>1, <4>2
      <3>4. CASE m \in DOMAIN to_list /\ u \in to_list[m]
        BY <1>3, <3>4
      <3> QED
        BY <3>2, <3>3, <3>4
    <2>2. ASSUME NEW m \in DOMAIN to_list', NEW u \in to_list'[m] \ {Root}
          PROVE  u \in Listed \/ Keep(u) \in Frames'
      <3>1. CASE m \in DOMAIN to_list /\ u \in to_list[m]
        <4>1. u \in Listed \/ Keep(u) \in Frames
          BY <2>2, <3>1 DEF RecordedInv
        <4>2. u \in Nodes \ {Root}
          BY <1>10, <2>2, <3>1
        <4> QED
          BY <1>4, <1>7, <4>1, <4>2
      <3>2. CASE ~(m \in DOMAIN to_list /\ u \in to_list[m])
        <4>1. u = t /\ new
          BY <1>3, <1>11, <2>2, <3>2
        <4> QED
          BY <1>4, <2>2, <4>1
      <3> QED
        BY <3>1, <3>2
    <2> QED
      BY <1>1, <1>5, <2>1, <2>2 DEF RecordedInv, Keep, Register
  <1>14. BatchInv'
    <2> SUFFICES ASSUME NEW f \in Frames', f.call = "register", f.node \notin DOMAIN to_list',
                        NEW u \in ToSet(deps[f.node])
                 PROVE  Register(f.node, u) \in Frames'
      BY <1>1 DEF BatchInv, Batched, Register
    <2>1. CASE f \in rest /\ f \in Frames
      <3>1. f.node \in Nodes \ {Root} /\ f.node # n /\ f.node \notin DOMAIN to_list
        BY <1>1, <1>3, <1>8, <2>1 DEF Call, TypeInv, CallsInv
      <3>2. Register(f.node, u) \in Frames
        BY <1>1, <2>1, <3>1 DEF BatchInv, Batched
      <3>3. u \in Nodes
        BY <3>1, TypesGive
      <3> QED
        BY <1>4, <1>6, <3>1, <3>2, <3>3
    <2>2. CASE new /\ f.node = t /\ t \in Nodes \ {Root}
      BY <1>4, <2>2
    <2> QED
      BY <1>9, <2>1, <2>2
  <1>15. ListedInv'
    <2> SUFFICES ASSUME NEW k \in Kept
                 PROVE  /\ parent[k] \in Listed \cup {Root} \/ Keep(parent[k]) \in Frames'
                        /\ k \in DOMAIN to_list' \/ Batched(k)' \/ Ahead(k)'
      BY <1>1, <1>5 DEF ListedInv, Keep
    <2>1. /\ parent[k] \in Listed \cup {Root} \/ Keep(parent[k]) \in Frames
          /\ k \in DOMAIN to_list \/ Batched(k) \/ Ahead(k)
      BY <1>1 DEF ListedInv
    <2>2. k \in Nodes \ {Root} /\ parent[k] \in Nodes
      BY TypesGive
    <2>3. parent[k] \in Listed \cup {Root} \/ Keep(parent[k]) \in Frames'
      BY <1>4, <1>7, <2>1, <2>2
    <2>4. ASSUME Batched(k), k # n PROVE Batched(k)'
      <3> SUFFICES ASSUME NEW u \in ToSet(deps[k]) PROVE Register(k, u) \in Frames'
        BY <1>1 DEF Batched, Register
      <3>1. u \in Nodes /\ Register(k, u) \in Frames
        BY <2>2, <2>4, TypesGive DEF Batched
      <3> QED
        BY <1>4, <1>6, <2>2, <2>4, <3>1
    <2>5. ASSUME Ahead(k) PROVE Ahead(k)'
      BY <1>1, <2>5 DEF Ahead
    <2> QED
      BY <1>3, <2>1, <2>3, <2>4, <2>5
  <1>16. NeedsInv'
    <2>1. Needs(asked)' = Needs(asked) /\ Needs(asked) = Least(parent, deps, asked)
      BY <1>1, NeedsPrime, NeedsIs
    <2>2. ASSUME ~Stray, NEW f \in Frames' PROVE f.node \in Needs(asked)
      <3>1. parent \in Trees /\ deps \in Depends /\ asked \in SUBSET Nodes
        BY TypesGive DEF TypeInv, TypeOK
      <3>2. n \in Needs(asked) /\ (f \in Frames => f.node \in Needs(asked))
        BY <1>1, <1>2, <2>2 DEF NeedsInv, n
      <3>3. t \in Needs(asked) \cup {Root}
        BY <1>2, <2>1, <3>1, <3>2, LeastClosed
      <3> QED
        BY <1>9, <2>2, <3>2, <3>3
    <2> QED
      BY <1>1, <1>5, <2>1, <2>2 DEF NeedsInv
  <1>17. AliveInv' /\ WalkInv' /\ DisableInv' /\ ReportsMissing'
    BY <1>1, <1>5, ResolveLeaves
  <1> QED
    BY <1>5, <1>12, <1>13, <1>14, <1>15, <1>16, <1>17

LEMMA KeepNodeAndParentsKeeps ==
    ASSUME GenInv, KeepNodeAndParents
    PROVE  GenInv'
  <1> USE DEF GenInv
  <1> DEFINE n == Top.node
             a == Top.arg
             rest == ToSet(Tail(stack))
             calls == IF n \in DOMAIN to_list THEN <<>> ELSE RegisterCall(n)
             up == IF a = Root THEN <<>> ELSE <<Keep(a)>>
  <1>1. /\ phase = "resolve" /\ stack # <<>> /\ Top.call = "keep"
        /\ order' = IF n \in Listed THEN order ELSE Append(order, n)
        /\ entry' = IF n \in Listed THEN entry
                    ELSE [x \in Listed \cup {n} |->
                            IF x = n THEN New(a, "keep") ELSE entry[x]]
        /\ stack' = (calls \o up) \o Tail(stack)
        /\ UNCHANGED <<parent, deps, to_list, it, phase, keeps, generates, alive,
                       disabled, asked, reported>>
    BY DEF KeepNodeAndParents, Return, Working, tree, history
  <1>2. /\ Top \in Call /\ Tail(stack) \in Seq(Call) /\ Frames = {Top} \cup rest
        /\ n \in Nodes \ {Root} /\ a \in Nodes /\ a = parent[n] /\ Top = Keep(n)
    BY <1>1, TopIs
  <1>3. /\ calls \in Seq(Call)
        /\ n \in DOMAIN to_list => ToSet(calls) = {}
        /\ n \notin DOMAIN to_list => ToSet(calls) = {Register(n, u) : u \in ToSet(deps[n])}
    BY <1>2, RegisterCallIs, ToSetNone
  <1>4. up \in Seq(Call) /\ ToSet(up) = IF a = Root THEN {} ELSE {Keep(a)}
    <2>1. CASE a = Root
      BY <2>1, ToSetNone
    <2>2. CASE a # Root
      <3>1. Keep(a) \in Call
        BY <1>2, <2>2, KeepIs
      <3> QED
        BY <2>2, <3>1, ToSetOne
    <2> QED
      BY <2>1, <2>2
  <1>5. stack' \in Seq(Call) /\ Frames' = (ToSet(calls) \cup ToSet(up)) \cup rest
    <2>1. PICK b, c, d : b = calls /\ c = up /\ d = Tail(stack)
      OBVIOUS
    <2>2. /\ b \in Seq(Call) /\ c \in Seq(Call) /\ d \in Seq(Call)
          /\ ToSet(b) = ToSet(calls) /\ ToSet(c) = ToSet(up) /\ ToSet(d) = rest
      BY <1>2, <1>3, <1>4, <2>1
    <2>3. b \o c \in Seq(Call) /\ ToSet(b \o c) = ToSet(b) \cup ToSet(c)
      BY <2>2, ToSetCat
    <2>4. PICK e : e = b \o c
      OBVIOUS
    <2>8. e \in Seq(Call) /\ ToSet(e) = ToSet(b) \cup ToSet(c)
      BY <2>3, <2>4
    <2>9. e \o d \in Seq(Call) /\ ToSet(e \o d) = ToSet(e) \cup ToSet(d)
      BY <2>2, <2>8, ToSetCat
    <2>5. e \o d \in Seq(Call) /\ ToSet(e \o d) = (ToSet(b) \cup ToSet(c)) \cup ToSet(d)
      BY <2>8, <2>9
    <2>6. stack' = e \o d
      BY <1>1, <2>1, <2>4
    <2>7. Frames' = ToSet(e \o d)
      BY <2>6 DEF Frames
    <2> QED
      BY <2>2, <2>5, <2>6, <2>7
  <1> HIDE DEF calls, up
  <1>6. /\ order' \in Seq(Names) /\ Listed' = Listed \cup {n}
        /\ \A i \in DOMAIN order : i \in DOMAIN order' /\ order'[i] = order[i]
        /\ Len(order) <= Len(order')
    <2>1. order \in Seq(Names) /\ n \in Names
      BY <1>2, TypesGive, NamesAre
    <2>2. CASE n \in Listed
      BY <1>1, <2>1, <2>2 DEF Listed
    <2>3. CASE n \notin Listed
      <3>1. order' = Append(order, n)
        BY <1>1, <2>3
      <3>2. order' \in Seq(Names) /\ Listed' = Listed \cup {n}
        BY <2>1, <3>1, ToSetAppend DEF Listed
      <3> HIDE DEF n
      <3> QED
        BY <2>1, <3>1, <3>2
    <2> QED
      BY <2>2, <2>3
  <1>7. /\ DOMAIN entry' = Listed' /\ \A x \in Listed' : entry'[x] \in Entry
        /\ \A x \in Listed : entry'[x] = entry[x]
        /\ n \notin Listed => entry'[n] = New(a, "keep")
    <2>1. New(a, "keep") \in Entry
      BY <1>2 DEF New, Entry, Flags
    <2>2. DOMAIN entry = Listed /\ \A x \in Listed : entry[x] \in Entry
      BY TypesGive
    <2> HIDE DEF n, a
    <2> QED
      BY <1>1, <1>6, <2>1, <2>2
  <1>8. Kept' = Kept \cup {n} /\ Kept \subseteq Listed
    BY <1>2, <1>6 DEF Kept
  <1>9. \A m, u \in Nodes : Register(m, u) \in Frames => Register(m, u) \in rest
    <2>1. \A m, u \in Nodes : Register(m, u) # Top
      BY <1>1, RegisterIs
    <2> QED
      BY <1>2, <2>1
  <1>10. \A u \in Nodes \ {Root} : Keep(u) \in Frames => u = n \/ Keep(u) \in rest
    <2>1. ASSUME NEW u \in Nodes \ {Root}, Keep(u) = Top PROVE u = n
      BY <2>1, KeepIs
    <2> QED
      BY <1>2, <2>1
  <1>11. rest \subseteq Frames' /\ (a # Root => Keep(a) \in Frames')
         /\ (n \notin DOMAIN to_list => \A u \in ToSet(deps[n]) : Register(n, u) \in Frames')
    BY <1>3, <1>4, <1>5
  <1>12. ASSUME NEW f \in Frames'
         PROVE  \/ f \in rest /\ f \in Frames
                \/ f.node = a /\ a # Root /\ f.call = "keep" /\ f.arg = parent[a]
                \/ f.node = n /\ f.call = "register" /\ f.arg \in ToSet(deps[n])
                   /\ n \notin DOMAIN to_list
    <2>1. CASE f \in rest
      BY <1>2, <2>1
    <2>2. CASE f \in ToSet(up)
      <3>1. a # Root /\ f = Keep(a)
        BY <1>4, <2>2
      <3> QED
        BY <1>2, <3>1, KeepIs
    <2>3. CASE f \in ToSet(calls)
      <3>1. n \notin DOMAIN to_list
        BY <1>3, <2>3
      <3>2. PICK u \in ToSet(deps[n]) : f = Register(n, u)
        BY <1>3, <2>3, <3>1
      <3>3. u \in Nodes /\ n \in Nodes
        BY <1>2, <3>2, TypesGive
      <3> QED
        BY <3>1, <3>2, <3>3, RegisterIs
    <2> QED
      BY <1>5, <1>12, <2>1, <2>2, <2>3
  <1>13. Frames' \subseteq Call
    BY <1>5, ToSetIs DEF Frames
  <1> HIDE DEF n, a, rest
  <1>14. TypeInv'
    <2>1. TypeOK'
      BY <1>1, <1>5, <1>6, <1>7 DEF TypeInv, TypeOK, Call, Entry
    <2>2. TreeInv'
      BY <1>1 DEF TypeInv, TreeInv
    <2>3. CallsInv'
      <3>1. ASSUME NEW f \in Frames'
            PROVE  /\ f.node # Root
                   /\ \/ f.call = "register" /\ f.arg \in ToSet(deps[f.node])
                      \/ f.call = "keep" /\ f.arg = parent[f.node]
        BY <1>1, <1>2, <1>12 DEF TypeInv, CallsInv
      <3>2. it.more => it.pos + 1 <= Len(order')
        <4>1. it.more => it.pos + 1 <= Len(order)
          BY <1>1 DEF TypeInv, CallsInv
        <4>2. it.pos \in Nat /\ Len(order) \in Nat /\ Len(order') \in Nat
          BY <1>6, TypesGive DEF TypeInv, TypeOK
        <4> QED
          BY <1>6, <4>1, <4>2
      <3> QED
        BY <1>1, <3>1, <3>2 DEF TypeInv, CallsInv
    <2> QED
      BY <2>1, <2>2, <2>3 DEF TypeInv
  <1>15. OffsetsInv'
    <2> SUFFICES ASSUME NEW x \in Listed'
                 PROVE  /\ x \notin Nodes => entry'[x].offset = NoOffset
                        /\ x = Root => entry'[x].offset \in {NoOffset, Root}
                        /\ x \in Kept' => entry'[x].offset \in {NoOffset, x, parent[x]}
                        /\ x \in Kept' => entry'[x].offset # NoOffset
      BY <1>1 DEF OffsetsInv
    <2>1. CASE x \in Listed
      <3>1. entry'[x] = entry[x] /\ (x \in Kept' => x \in Kept)
        BY <1>7, <2>1 DEF Kept
      <3> QED
        BY <1>1, <2>1, <3>1 DEF OffsetsInv
    <2>2. CASE x \notin Listed
      <3>1. x = n /\ entry'[x].offset = parent[n]
        BY <1>2, <1>6, <1>7, <2>2 DEF New
      <3> QED
        BY <1>2, <3>1, NamesAre
    <2> QED
      BY <2>1, <2>2
  <1>16. DOMAIN to_list \subseteq Nodes \ {Root} /\ \A m \in DOMAIN to_list : to_list[m] \subseteq Nodes
    BY DEF TypeInv, TypeOK
  <1>17. RecordedInv'
    <2>1. ASSUME NEW m \in DOMAIN to_list, NEW u \in ToSet(deps[m])
          PROVE  u = m \/ u \in to_list[m] \/ Register(m, u) \in Frames'
      <3>1. m \in Nodes \ {Root}
        BY <1>16
      <3>2. u \in Nodes
        BY <3>1, TypesGive
      <3> QED
        BY <1>9, <1>11, <3>1, <3>2 DEF RecordedInv
    <2>2. ASSUME NEW m \in DOMAIN to_list, NEW u \in to_list[m] \ {Root}
          PROVE  u \in Listed' \/ Keep(u) \in Frames'
      <3>1. u \in Nodes \ {Root}
        BY <1>16
      <3>2. u \in Listed \/ Keep(u) \in Frames
        BY DEF RecordedInv
      <3> QED
        BY <1>6, <1>10, <1>11, <3>1, <3>2
    <2> QED
      BY <1>1, <2>1, <2>2 DEF RecordedInv, Keep, Register
  <1>18. BatchInv'
    <2> SUFFICES ASSUME NEW f \in Frames', f.call = "register", f.node \notin DOMAIN to_list,
                        NEW u \in ToSet(deps[f.node])
                 PROVE  Register(f.node, u) \in Frames'
      BY <1>1 DEF BatchInv, Batched, Register
    <2>1. CASE f \in rest /\ f \in Frames
      <3>1. f.node \in Nodes \ {Root}
        BY <1>1, <1>13, <2>1 DEF Call, TypeInv, CallsInv
      <3>2. Register(f.node, u) \in Frames
        BY <1>1, <2>1, <3>1 DEF BatchInv, Batched
      <3>3. u \in Nodes
        BY <3>1, TypesGive
      <3> QED
        BY <1>9, <1>11, <3>1, <3>2, <3>3
    <2>2. CASE f.node = n /\ n \notin DOMAIN to_list
      BY <1>11, <2>2
    <2> QED
      BY <1>12, <2>1, <2>2
  <1>19. ListedInv'
    <2> SUFFICES ASSUME NEW k \in Kept'
                 PROVE  /\ parent[k] \in Listed' \cup {Root} \/ Keep(parent[k]) \in Frames'
                        /\ k \in DOMAIN to_list \/ Batched(k)' \/ Ahead(k)'
      BY <1>1 DEF ListedInv, Keep
    <2>1. CASE k = n
      BY <1>1, <1>2, <1>11, <2>1 DEF Batched, Register
    <2>2. CASE k \in Kept
      <3>1. /\ parent[k] \in Listed \cup {Root} \/ Keep(parent[k]) \in Frames
            /\ k \in DOMAIN to_list \/ Batched(k) \/ Ahead(k)
        BY <1>1, <2>2 DEF ListedInv
      <3>2. k \in Nodes \ {Root} /\ parent[k] \in Nodes
        BY <2>2, TypesGive
      <3>3. parent[k] \in Listed' \cup {Root} \/ Keep(parent[k]) \in Frames'
        BY <1>6, <1>10, <1>11, <3>1, <3>2
      <3>4. ASSUME Batched(k) PROVE Batched(k)'
        <4> SUFFICES ASSUME NEW u \in ToSet(deps[k]) PROVE Register(k, u) \in Frames'
          BY <1>1 DEF Batched, Register
        <4>1. u \in Nodes /\ Register(k, u) \in Frames
          BY <3>2, <3>4, TypesGive DEF Batched
        <4> QED
          BY <1>9, <1>11, <3>2, <4>1
      <3>5. ASSUME Ahead(k) PROVE Ahead(k)'
        <4>1. entry'[k] = entry[k]
          BY <1>7, <1>8, <2>2
        <4> QED
          BY <1>1, <1>6, <3>5, <4>1 DEF Ahead
      <3> QED
        BY <3>1, <3>3, <3>4, <3>5
    <2> QED
      BY <1>8, <2>1, <2>2
  <1>20. NeedsInv'
    <2>1. Needs(asked)' = Needs(asked) /\ Needs(asked) = Least(parent, deps, asked)
      BY <1>1, NeedsPrime, NeedsIs
    <2>2. Stray => Stray'
      BY <1>6, <1>7 DEF Stray
    <2>3. ASSUME ~Stray
          PROVE  Kept' \subseteq Needs(asked) /\ \A f \in Frames' : f.node \in Needs(asked)
      <3>1. parent \in Trees /\ deps \in Depends /\ asked \in SUBSET Nodes
        BY TypesGive DEF TypeInv, TypeOK
      <3>2. n \in Needs(asked) /\ (\A f \in Frames : f.node \in Needs(asked))
            /\ Kept \subseteq Needs(asked)
        BY <1>1, <1>2, <2>3 DEF NeedsInv, n
      <3>3. a \in Needs(asked) \cup {Root}
        BY <1>2, <2>1, <3>1, <3>2, LeastClosed
      <3> QED
        BY <1>8, <1>12, <3>2, <3>3
    <2>4. asked' \ {Root} \subseteq Listed'
      BY <1>1, <1>6 DEF NeedsInv
    <2> QED
      BY <1>1, <2>1, <2>2, <2>3, <2>4 DEF NeedsInv
  <1>21. AliveInv' /\ WalkInv' /\ DisableInv' /\ ReportsMissing'
    <2>1. \A x \in Listed' : x \notin Listed => entry'[x].cnt = 0
      BY <1>6, <1>7 DEF New
    <2> QED
      BY <1>1, <1>7, <2>1, ResolveLeaves
  <1> QED
    BY <1>14, <1>15, <1>17, <1>18, <1>19, <1>20, <1>21
-----------------------------------------------------------------------------
(***************************************************************************)
(* trim_tree.                                                              *)
(***************************************************************************)

(* When all is resolved, parents and dependencies of what is listed are    *)
(* listed.                                                                 *)
LEMMA ResolvedIsClosed ==
    ASSUME GenInv, \/ phase = "resolve" /\ stack = <<>> /\ ~it.more
                   \/ phase = "trim"
    PROVE  /\ \A n \in DOMAIN to_list : \A t \in ToSet(deps[n]) : t = n \/ t \in to_list[n]
           /\ \A n \in DOMAIN to_list : to_list[n] \ {Root} \subseteq Listed
           /\ \A n \in Kept : parent[n] \in Kept \cup {Root}
           /\ \A n \in Kept : n \in DOMAIN to_list \/ ToSet(deps[n]) = {}
           /\ \A n \in Kept : ToSet(deps[n]) \subseteq Kept \cup {Root}
  <1> USE DEF GenInv
  <1>1. \A f \in Frames : f.call = "trim"
    <2>1. CASE phase = "trim"
      BY <2>1 DEF TypeInv, CallsInv
    <2>2. CASE stack = <<>>
      BY <2>2 DEF Frames, ToSet
    <2> QED
      BY <2>1, <2>2
  <1>2. \A n, t \in Nodes : Register(n, t) \notin Frames
    BY <1>1, RegisterIs
  <1>3. \A n \in Nodes \ {Root} : Keep(n) \notin Frames
    BY <1>1, KeepIs
  <1>4. DOMAIN to_list \subseteq Nodes \ {Root} /\ \A m \in DOMAIN to_list : to_list[m] \subseteq Nodes
    BY DEF TypeInv, TypeOK
  <1>5. ASSUME NEW n \in DOMAIN to_list, NEW t \in ToSet(deps[n]) PROVE t = n \/ t \in to_list[n]
    <2>1. n \in Nodes \ {Root}
      BY <1>4
    <2>2. t \in Nodes
      BY <1>5, <2>1, TypesGive
    <2> QED
      BY <1>2, <1>5, <2>1, <2>2 DEF RecordedInv
  <1>6. ASSUME NEW n \in DOMAIN to_list, NEW t \in to_list[n] \ {Root} PROVE t \in Listed
    BY <1>3, <1>4 DEF RecordedInv
  <1>7. ASSUME NEW n \in Kept
        PROVE  /\ parent[n] \in Kept \cup {Root}
               /\ n \in DOMAIN to_list \/ ToSet(deps[n]) = {}
               /\ ToSet(deps[n]) \subseteq Kept \cup {Root}
    <2>1. /\ parent[n] \in Listed \cup {Root} \/ Keep(parent[n]) \in Frames
          /\ n \in DOMAIN to_list \/ Batched(n) \/ Ahead(n)
      BY DEF ListedInv
    <2>2. n \in Nodes \ {Root} /\ parent[n] \in Nodes /\ ToSet(deps[n]) \subseteq Nodes
      BY TypesGive
    <2>3. parent[n] \in Kept \cup {Root}
      BY <1>3, <2>1, <2>2 DEF Kept
    <2>4. n \in DOMAIN to_list \/ ToSet(deps[n]) = {}
      BY <1>2, <2>1, <2>2 DEF Batched, Ahead
    <2>5. ASSUME NEW t \in ToSet(deps[n]) PROVE t \in Kept \cup {Root}
      <3>1. n \in DOMAIN to_list
        BY <2>4
      <3>2. t = n \/ t \in to_list[n]
        BY <1>5, <2>5, <3>1
      <3> QED
        BY <1>6, <2>2, <3>1, <3>2 DEF Kept
    <2> QED
      BY <2>3, <2>4, <2>5
  <1> QED
    BY <1>5, <1>6, <1>7

LEMMA TrimIs ==
    ASSUME NEW n \in Nodes, NEW a \in Nodes
    PROVE  /\ Trim(n, a) \in Call /\ Trim(n, a).call = "trim"
           /\ Trim(n, a).node = n /\ Trim(n, a).arg = a
  BY DEF Trim, Call

(* A frame that starts has passed no child.                                *)
LEMMA ChildrenLater == \A n : \A c \in Children(n) : ~(c <= Root) /\ c \in Nodes \ {Root}
  BY RootIsNode DEF Children, Root

LEMMA TrimStartKeeps ==
    ASSUME GenInv, TrimStart
    PROVE  GenInv'
  <1> USE DEF GenInv
  <1>1. /\ phase = "resolve" /\ stack = <<>> /\ ~it.more /\ phase' = "trim"
        /\ stack' = <<Trim(Root, Root)>> /\ order' = Append(order, Root)
        /\ entry' = [x \in Listed \cup {Root} |->
                   IF x \in Listed THEN entry[x] ELSE [New(Root, "keep") EXCEPT !.cnt = 1]]
        /\ UNCHANGED <<parent, deps, to_list, it, keeps, generates, alive, disabled, asked, reported>>
    BY DEF TrimStart, tree, history
  <1>2. order' \in Seq(Names) /\ Listed' = Listed \cup {Root}
    BY <1>1, TypesGive, RootIsNode, NamesAre, ToSetAppend DEF Listed
  <1>3. Kept' = Kept /\ Kept \subseteq Listed
    BY <1>2 DEF Kept
  <1>4. /\ DOMAIN entry' = Listed' /\ \A x \in Listed' : entry'[x] \in Entry
        /\ \A x \in Listed : entry'[x] = entry[x]
        /\ Root \notin Listed => entry'[Root].offset = Root
    <2>1. PICK e : e = [New(Root, "keep") EXCEPT !.cnt = 1]
      OBVIOUS
    <2>2. e \in Entry /\ e.offset = Root
      BY <2>1, RootIsNode DEF New, Entry, Flags
    <2>3. \A x \in Listed : entry[x] \in Entry
      BY TypesGive
    <2> QED
      BY <1>1, <1>2, <2>1, <2>2, <2>3
  <1>5. Frames = {} /\ Frames' = {Trim(Root, Root)} /\ stack' \in Seq(Call)
    BY <1>1, RootIsNode, TrimIs, ToSetOne, ToSetNone DEF Frames
  <1>6. /\ \A n \in DOMAIN to_list : \A t \in ToSet(deps[n]) : t = n \/ t \in to_list[n]
        /\ \A n \in DOMAIN to_list : to_list[n] \ {Root} \subseteq Listed
        /\ \A n \in Kept : parent[n] \in Kept \cup {Root}
        /\ \A n \in Kept : n \in DOMAIN to_list \/ ToSet(deps[n]) = {}
    BY <1>1, ResolvedIsClosed
  <1>7. TypeInv'
    <2>1. TypeOK'
      BY <1>1, <1>2, <1>4, <1>5 DEF TypeInv, TypeOK, Call, Entry
    <2>2. TreeInv'
      BY <1>1 DEF TypeInv, TreeInv
    <2>3. CallsInv'
      <3>1. \A f \in Frames' : f.call = "trim"
        BY <1>5, RootIsNode, TrimIs
      <3> QED
        BY <1>1, <3>1 DEF TypeInv, CallsInv
    <2> QED
      BY <2>1, <2>2, <2>3 DEF TypeInv
  <1>8. OffsetsInv'
    <2> SUFFICES ASSUME NEW x \in Listed'
                 PROVE  /\ x \notin Nodes => entry'[x].offset = NoOffset
                        /\ x = Root => entry'[x].offset \in {NoOffset, Root}
                        /\ x \in Kept => entry'[x].offset \in {NoOffset, x, parent[x]}
                        /\ x \in Kept => entry'[x].offset # NoOffset
      BY <1>1, <1>3 DEF OffsetsInv
    <2>1. CASE x \in Listed
      BY <1>1, <1>4, <2>1 DEF OffsetsInv
    <2>2. CASE x \notin Listed
      BY <1>2, <1>3, <1>4, <2>2, RootIsNode
    <2> QED
      BY <2>1, <2>2
  <1>9. RecordedInv'
    BY <1>1, <1>2, <1>6 DEF RecordedInv
  <1>10. BatchInv' /\ ReportsMissing'
    BY <1>1 DEF BatchInv, ReportsMissing
  <1>11. ListedInv'
    BY <1>1, <1>2, <1>3, <1>6 DEF ListedInv, Batched
  <1>12. NeedsInv'
    <2>1. Needs(asked)' = Needs(asked)
      BY <1>1, NeedsPrime, NeedsIs
    <2>2. Stray => Stray'
      BY <1>2, <1>4 DEF Stray
    <2>3. ~Stray => Kept \subseteq Needs(asked)
      BY <1>1 DEF NeedsInv
    <2>4. asked' \ {Root} \subseteq Listed'
      BY <1>1, <1>2 DEF NeedsInv
    <2> QED
      BY <1>1, <1>3, <2>1, <2>2, <2>3, <2>4 DEF NeedsInv
  <1>13. AliveInv'
    <2>1. alive = Nodes
      BY <1>1 DEF AliveInv
    <2> QED
      BY <1>1, <1>3, <2>1, RootIsNode, TypesGive DEF AliveInv
  <1>14. WalkInv'
    <2>1. DOMAIN stack' = {1} /\ Len(stack') = 1 /\ stack' # <<>> /\ stack'[1] = Trim(Root, Root)
      BY <1>1
    <2>2. stack'[1].node = Root /\ stack'[1].arg = Root
      BY <2>1, RootIsNode, TrimIs
    <2>3. \A c \in (Children(stack[1].node) \cap alive)' : ~(c <= Root)
      BY RootIsNode DEF Children, Root
    <2> QED
      BY <2>1, <2>2, <2>3 DEF WalkInv
  <1>15. DisableInv'
    <2>1. generates' # 0 /\ disabled' = {}
      BY <1>1 DEF TypeInv, CallsInv, AliveInv
    <2>2. ASSUME generates' = 1, NEW n \in Kept PROVE ~(entry'[n].cnt > 0)
      <3>1. entry'[n] = entry[n] /\ entry[n].cnt = 0
        BY <1>1, <1>3, <1>4, <2>2 DEF DisableInv
      <3> QED
        BY <3>1
    <2> QED
      BY <1>1, <1>3, <2>1, <2>2 DEF DisableInv
  <1> QED
    BY <1>7, <1>8, <1>9, <1>10, <1>11, <1>12, <1>13, <1>14, <1>15

(* What a step of the walk leaves alone.                                   *)
LEMMA TrimLeaves ==
    ASSUME GenInv, phase = "trim", phase' \in {"trim", "open"},
           UNCHANGED <<parent, deps, order, to_list, it, keeps, generates, asked, reported>>,
           stack' \in Seq(Call), \A f \in Frames' : f.call = "trim",
           phase' = "open" => stack' = <<>>,
           alive' \subseteq Nodes, disabled' \subseteq Nodes,
           DOMAIN entry' = Listed, \A x \in Listed : entry'[x] \in Entry,
           \A x \in Listed : entry'[x].offset = entry[x].offset
    PROVE  /\ Listed' = Listed /\ Kept' = Kept
           /\ TypeInv' /\ OffsetsInv' /\ RecordedInv' /\ BatchInv' /\ ListedInv' /\ NeedsInv'
           /\ ReportsMissing'
  <1> USE DEF GenInv
  <1>1. Listed' = Listed
    BY DEF Listed
  <1>2. Kept' = Kept /\ Kept \subseteq Listed
    BY <1>1 DEF Kept
  <1>3. TypeInv'
    <2>1. TypeOK'
      BY <1>1 DEF TypeInv, TypeOK, Call, Entry
    <2>2. TreeInv'
      BY DEF TypeInv, TreeInv
    <2>3. CallsInv'
      BY DEF TypeInv, CallsInv
    <2> QED
      BY <2>1, <2>2, <2>3 DEF TypeInv
  <1>4. OffsetsInv'
    BY <1>1, <1>2 DEF OffsetsInv
  <1>5. /\ \A n \in DOMAIN to_list : \A t \in ToSet(deps[n]) : t = n \/ t \in to_list[n]
        /\ \A n \in DOMAIN to_list : to_list[n] \ {Root} \subseteq Listed
        /\ \A n \in Kept : parent[n] \in Kept \cup {Root}
        /\ \A n \in Kept : n \in DOMAIN to_list \/ ToSet(deps[n]) = {}
    BY ResolvedIsClosed
  <1>6. RecordedInv'
    BY <1>1, <1>5 DEF RecordedInv
  <1>7. ListedInv'
    BY <1>1, <1>2, <1>5 DEF ListedInv, Batched
  <1>8. NeedsInv'
    <2>1. Needs(asked)' = Needs(asked)
      BY NeedsPrime, NeedsIs
    <2>2. Stray => Stray'
      BY <1>1 DEF Stray
    <2>3. ~Stray => Kept \subseteq Needs(asked)
      BY DEF NeedsInv
    <2>4. asked' \ {Root} \subseteq Listed'
      BY <1>1 DEF NeedsInv
    <2> QED
      BY <1>2, <2>1, <2>2, <2>3, <2>4 DEF NeedsInv
  <1>9. BatchInv' /\ ReportsMissing'
    BY DEF BatchInv, ReportsMissing
  <1> QED
    BY <1>1, <1>2, <1>3, <1>4, <1>6, <1>7, <1>8, <1>9

(* What is done stays done.                                                *)
LEMMA DoneStays ==
    ASSUME GenInv, parent' = parent, Listed' = Listed, alive' \subseteq alive,
           \A x \in Listed : entry'[x].cnt >= entry[x].cnt /\ entry'[x].cnt \in Nat,
           NEW m, Done(m)
    PROVE  Done(m)'
  <1> SUFFICES ASSUME NEW d \in alive', m \in Above(parent, d)
               PROVE  d \in Listed /\ entry'[d].cnt > 0
    BY DEF Done
  <1>1. d \in Listed /\ entry[d].cnt > 0
    BY DEF Done
  <1>2. entry[d].cnt \in Nat
    BY <1>1, TypesGive DEF GenInv, Entry
  <1> QED
    BY <1>1, <1>2

(* A node whose children have all been passed is done.                     *)
LEMMA ChildrenDone ==
    ASSUME GenInv, phase = "trim", NEW m \in Nodes,
           \A c \in Children(m) \cap alive : c \in Listed /\ entry[c].cnt > 0 /\ Done(c)
    PROVE  Done(m)
  <1> SUFFICES ASSUME NEW d \in alive, m \in Above(parent, d)
               PROVE  d \in Listed /\ entry[d].cnt > 0
    BY DEF Done
  <1>1. parent \in Trees /\ alive \subseteq Nodes /\ d \in Nodes
    BY TypesGive DEF GenInv, TypeInv, TypeOK
  <1>2. PICK c \in Nodes \ {Root} : parent[c] = m /\ (c = d \/ c \in Above(parent, d))
    BY <1>1, ChildBetween
  <1>3. c \in alive
    <2>1. CASE c = d
      BY <2>1
    <2>2. CASE c \in Above(parent, d)
      <3>1. d # Root
        BY <1>1, <2>2, AboveRoot
      <3>2. parent[d] \in alive /\ \A k \in alive \ {Root} : parent[k] \in alive
        BY <3>1 DEF GenInv, AliveInv
      <3>3. Above(parent, d) \subseteq alive
        BY <1>1, <3>2, AboveWithin
      <3> QED
        BY <2>2, <3>3
    <2> QED
      BY <1>2, <2>1, <2>2
  <1>4. c \in Listed /\ entry[c].cnt > 0 /\ Done(c)
    BY <1>2, <1>3 DEF Children
  <1> QED
    BY <1>2, <1>4 DEF Done

LEMMA TrimReturnKeeps ==
    ASSUME GenInv, TrimReturn
    PROVE  GenInv'
  <1> USE DEF GenInv
  <1>1. /\ phase = "trim" /\ stack # <<>> /\ Later = {} /\ stack' = Tail(stack)
        /\ UNCHANGED <<parent, deps, order, entry, to_list, it, phase, keeps, generates,
                       alive, disabled, asked, reported>>
    BY DEF TrimReturn, tree, table, history
  <1>2. /\ stack \in Seq(Call) /\ Top \in Call /\ stack' \in Seq(Call) /\ Frames' \subseteq Frames
        /\ Top = stack[1]
    <2>1. stack \in Seq(Call) /\ Top \in Call /\ stack' \in Seq(Call)
          /\ Frames = {Top} \cup ToSet(stack')
      BY <1>1, TypesGive, ToSetTail DEF Frames, Top
    <2> QED
      BY <1>1, <2>1 DEF Frames, Top
  <1>3. /\ Listed' = Listed /\ Kept' = Kept
        /\ TypeInv' /\ OffsetsInv' /\ RecordedInv' /\ BatchInv' /\ ListedInv' /\ NeedsInv'
        /\ ReportsMissing'
    <2>1. \A f \in Frames' : f.call = "trim"
      BY <1>1, <1>2 DEF TypeInv, CallsInv
    <2>2. alive \subseteq Nodes /\ disabled \subseteq Nodes /\ DOMAIN entry = Listed
          /\ \A x \in Listed : entry[x] \in Entry
      BY TypesGive DEF TypeInv, TypeOK
    <2> QED
      BY <1>1, <1>2, <2>1, <2>2, TrimLeaves
  <1>4. AliveInv' /\ DisableInv'
    BY <1>1, <1>3 DEF AliveInv, DisableInv
  <1>5. \A m : Done(m) => Done(m)'
    BY <1>1, <1>3 DEF Done
  <1>6. Done(Top.node)
    <2>1. ASSUME NEW c \in Children(Top.node) \cap alive
          PROVE  c \in Listed /\ entry[c].cnt > 0 /\ Done(c)
      <3>1. c \notin Later
        BY <1>1
      <3>2. c \in Nat /\ Top.arg \in Nat
        BY <1>2, <2>1, RootIsNode DEF Call, Children
      <3>3. c <= Top.arg
        BY <2>1, <3>1, <3>2 DEF Later
      <3>4. 1 \in DOMAIN stack
        BY <1>1, <1>2
      <3>5. /\ c \in Listed /\ entry[c].cnt > 0
            /\ Done(c) \/ (1 > 1 /\ stack[1 - 1].node = c)
        BY <1>1, <1>2, <2>1, <3>3, <3>4 DEF WalkInv
      <3> QED
        BY <3>5
    <2>2. Top.node \in Nodes
      BY <1>2 DEF Call
    <2> QED
      BY <1>1, <2>1, <2>2, ChildrenDone
  <1>7. WalkInv'
    <2>1. /\ Len(stack') = Len(stack) - 1 /\ DOMAIN stack' = 1..Len(stack')
          /\ \A i \in 1..Len(stack') : stack'[i] = stack[i + 1]
          /\ Len(stack) \in Nat /\ Len(stack) > 0
      BY <1>1, <1>2
    <2>2. stack[Len(stack)].node = Root
      BY <1>1 DEF WalkInv
    <2>3. ASSUME stack' = <<>> PROVE Done(Root)'
      <3>1. Len(stack) = 1
        BY <2>1, <2>3
      <3> QED
        BY <1>2, <1>5, <1>6, <2>2, <3>1
    <2>4. ASSUME stack' # <<>> PROVE stack'[Len(stack')].node = Root
      <3>1. Len(stack') \in 1..Len(stack')
        BY <1>2, <2>1, <2>4
      <3> QED
        BY <2>1, <2>2, <3>1
    <2>5. ASSUME NEW i \in DOMAIN stack', NEW c \in Children(stack'[i].node) \cap alive,
                 c <= stack'[i].arg
          PROVE  /\ c \in Listed /\ entry[c].cnt > 0
                 /\ Done(c) \/ (i > 1 /\ stack'[i - 1].node = c)
      <3>1. i + 1 \in DOMAIN stack /\ stack'[i] = stack[i + 1] /\ i \in Nat /\ i > 0
        BY <1>2, <2>1, <2>5
      <3>2. /\ c \in Listed /\ entry[c].cnt > 0
            /\ Done(c) \/ (i + 1 > 1 /\ stack[i + 1 - 1].node = c)
        BY <1>1, <2>5, <3>1 DEF WalkInv
      <3>3. i + 1 - 1 = i
        BY <3>1
      <3>4. CASE i = 1
        BY <1>2, <1>6, <3>2, <3>3, <3>4
      <3>5. CASE i > 1
        <4>1. i - 1 \in 1..Len(stack') /\ (i - 1) + 1 = i
          BY <2>1, <2>5, <3>1, <3>5
        <4>2. stack'[i - 1] = stack[i]
          BY <2>1, <4>1
        <4> QED
          BY <3>2, <3>3, <3>5, <4>2
      <3> QED
        BY <3>1, <3>4, <3>5
    <2>6. \A i \in DOMAIN stack' : \A c \in (Children(stack[i].node) \cap alive)' :
              c <= stack'[i].arg =>
                  /\ c \in Listed' /\ entry'[c].cnt > 0
                  /\ Done(c)' \/ (i > 1 /\ stack'[i - 1].node = c)
      BY <1>1, <1>3, <1>5, <2>5 DEF Children
    <2> QED
      BY <1>1, <2>3, <2>4, <2>6 DEF WalkInv
  <1> QED
    BY <1>3, <1>4, <1>7

(* At the end of the walk what is alive is listed and was visited.         *)
LEMMA FinishedIs ==
    ASSUME GenInv, phase = "trim", stack = <<>>
    PROVE  /\ alive = Kept \cup {Root}
           /\ \A n \in Kept : entry[n].cnt > 0
  <1> USE DEF GenInv
  <1>1. Done(Root) /\ Root \in alive /\ Kept \subseteq alive /\ alive \subseteq Nodes
    BY DEF WalkInv, AliveInv, TypeInv, TypeOK
  <1>2. parent \in Trees /\ \A n \in Nodes \ {Root} : parent[n] < n
    BY TypesGive DEF TypeInv, TreeInv
  <1>3. ASSUME NEW d \in alive \ {Root} PROVE d \in Listed /\ entry[d].cnt > 0
    <2>1. d \in Nodes \ {Root}
      BY <1>1
    <2>2. Root \in Above(parent, d)
      BY <1>2, <2>1, RootAbove
    <2> QED
      BY <1>1, <2>2 DEF Done
  <1>4. Kept \subseteq Nodes \ {Root}
    BY TypesGive
  <1> QED
    BY <1>1, <1>3, <1>4 DEF Kept

LEMMA GenerateEndKeeps ==
    ASSUME GenInv, GenerateEnd
    PROVE  GenInv'
  <1> USE DEF GenInv
  <1>1. /\ phase = "trim" /\ stack = <<>> /\ phase' = "open"
        /\ UNCHANGED <<parent, deps, order, entry, to_list, it, stack, keeps, generates,
                       alive, disabled, asked, reported>>
    BY DEF GenerateEnd, tree, table, history
  <1>2. alive = Kept \cup {Root} /\ \A n \in Kept : entry[n].cnt > 0
    BY <1>1, FinishedIs
  <1>3. /\ Listed' = Listed /\ Kept' = Kept
        /\ TypeInv' /\ OffsetsInv' /\ RecordedInv' /\ BatchInv' /\ ListedInv' /\ NeedsInv'
        /\ ReportsMissing'
    <2>1. stack' \in Seq(Call) /\ \A f \in Frames' : f.call = "trim"
      BY <1>1, ToSetNone DEF Frames
    <2>2. alive \subseteq Nodes /\ disabled \subseteq Nodes /\ DOMAIN entry = Listed
          /\ \A x \in Listed : entry[x] \in Entry
      BY TypesGive DEF TypeInv, TypeOK
    <2> QED
      BY <1>1, <2>1, <2>2, TrimLeaves
  <1>4. AliveInv' /\ WalkInv'
    BY <1>1 DEF AliveInv, WalkInv
  <1>5. DisableInv'
    <2>1. generates' # 0
      BY <1>1 DEF TypeInv, CallsInv
    <2>2. Kept \subseteq Listed
      BY DEF Kept
    <2> QED
      BY <1>1, <1>2, <1>3, <2>1, <2>2 DEF DisableInv
  <1> QED
    BY <1>3, <1>4, <1>5

LEMMA FreeContextKeeps ==
    ASSUME GenInv, FreeContext
    PROVE  GenInv'
  <1> USE DEF GenInv
  <1>1. /\ phase = "open" /\ phase' = "freed" /\ reported' = {x \in Listed : entry[x].cnt = 0}
        /\ order' = <<>> /\ entry' = <<>> /\ to_list' = <<>>
        /\ UNCHANGED <<parent, deps, it, stack, keeps, generates, alive, disabled, asked>>
    BY DEF FreeContext, tree
  <1>2. order' \in Seq(Names) /\ Listed' = {} /\ Kept' = {} /\ DOMAIN entry' = {}
        /\ DOMAIN to_list' = {}
    BY <1>1, ToSetNone DEF Listed, Kept
  <1>3. TypeInv'
    <2>1. reported' \subseteq Names
      BY <1>1, TypesGive
    <2>2. TypeOK'
      BY <1>1, <1>2, <2>1 DEF TypeInv, TypeOK
    <2>3. TreeInv'
      BY <1>1 DEF TypeInv, TreeInv
    <2>4. CallsInv'
      BY <1>1 DEF TypeInv, CallsInv
    <2> QED
      BY <2>2, <2>3, <2>4 DEF TypeInv
  <1>4. OffsetsInv' /\ RecordedInv' /\ BatchInv' /\ ListedInv' /\ NeedsInv'
    BY <1>1, <1>2 DEF OffsetsInv, RecordedInv, BatchInv, ListedInv, NeedsInv
  <1>5. AliveInv' /\ WalkInv' /\ DisableInv'
    BY <1>1, <1>2 DEF AliveInv, WalkInv, DisableInv
  <1>6. ReportsMissing'
    <2>1. ASSUME generates > 0, NEW x \in reported', x \in Nodes \ {Root}
          PROVE  x \in asked /\ x \notin alive
      <3>1. x \in Kept /\ entry[x].cnt = 0
        BY <1>1, <2>1 DEF Kept
      <3>2. IF x \in alive THEN entry[x].cnt > 0 ELSE x \in asked
        BY <1>1, <2>1, <3>1 DEF DisableInv
      <3> QED
        BY <3>1, <3>2
    <2>2. ASSUME generates > 0, asked \ {Root} \subseteq alive
          PROVE  reported' \cap Nodes \subseteq {Root}
      BY <2>1, <2>2
    <2> QED
      BY <1>1, <2>1, <2>2 DEF ReportsMissing
  <1> QED
    BY <1>3, <1>4, <1>5, <1>6

(* The walk goes on: the innermost frame stays with its node, perhaps with *)
(* a new one (k = 1) within it, and passes only children that are done, or *)
(* the one it goes into.                                                   *)
LEMMA WalkGoesOn ==
    ASSUME GenInv, phase = "trim", phase' = "trim", stack # <<>>, parent' = parent,
           Listed' = Listed, alive' \subseteq alive,
           \A x \in Listed : entry'[x].cnt >= entry[x].cnt /\ entry'[x].cnt \in Nat,
           stack' \in Seq(Call), NEW k \in {0, 1}, Len(stack') = Len(stack) + k,
           \A i \in 1..Len(stack) : stack'[i + k].node = stack[i].node,
           \A i \in 2..Len(stack) : stack'[i + k].arg = stack[i].arg,
           k = 1 => stack'[1].arg = Root,
           \A c \in Children(stack[1].node) \cap alive' : c <= stack'[1 + k].arg =>
               /\ c \in Listed /\ entry'[c].cnt > 0
               /\ Done(c)' \/ (k = 1 /\ stack'[1].node = c)
    PROVE  WalkInv'
  <1> USE DEF GenInv
  <1>1. /\ stack \in Seq(Call) /\ Len(stack) \in Nat /\ Len(stack) > 0
        /\ DOMAIN stack = 1..Len(stack) /\ DOMAIN stack' = 1..Len(stack') /\ stack' # <<>>
    <2>1. stack \in Seq(Call)
      BY TypesGive
    <2> QED
      BY <2>1
  <1>2. stack'[Len(stack')].node = Root
    <2>1. stack[Len(stack)].node = Root /\ Len(stack) \in 1..Len(stack)
      BY <1>1 DEF WalkInv
    <2> QED
      BY <2>1
  <1>3. ASSUME NEW m, Done(m) PROVE Done(m)'
    BY <1>3, DoneStays
  <1>4. ASSUME NEW i \in DOMAIN stack', NEW c \in Children(stack'[i].node) \cap alive',
               c <= stack'[i].arg
        PROVE  /\ c \in Listed /\ entry'[c].cnt > 0
               /\ Done(c)' \/ (i > 1 /\ stack'[i - 1].node = c)
    <2>1. CASE k = 1 /\ i = 1
      BY <1>4, <2>1, ChildrenLater
    <2>2. CASE i = 1 + k
      <3>1. stack'[i].node = stack[1].node
        BY <1>1, <2>2
      <3>2. /\ c \in Listed /\ entry'[c].cnt > 0
            /\ Done(c)' \/ (k = 1 /\ stack'[1].node = c)
        BY <1>4, <2>2, <3>1
      <3>3. k = 1 => i > 1 /\ i - 1 = 1
        BY <2>2
      <3> QED
        BY <3>2, <3>3
    <2>3. CASE i > 1 + k
      <3>1. PICK j \in 2..Len(stack) : i = j + k
        <4>1. i \in 1..(Len(stack) + k)
          BY <1>1, <1>4
        <4>2. i - k \in 2..Len(stack) /\ i = (i - k) + k
          BY <1>1, <2>3, <4>1
        <4> QED
          BY <4>2
      <3>2. /\ stack'[i].node = stack[j].node /\ stack'[i].arg = stack[j].arg
            /\ j \in DOMAIN stack /\ j - 1 \in 1..Len(stack)
        BY <1>1, <3>1
      <3>3. stack'[(j - 1) + k].node = stack[j - 1].node /\ (j - 1) + k = i - 1 /\ i > 1
        BY <3>1, <3>2
      <3>4. /\ c \in Listed /\ entry[c].cnt > 0
            /\ Done(c) \/ (j > 1 /\ stack[j - 1].node = c)
        BY <1>4, <3>2 DEF WalkInv
      <3>5. entry'[c].cnt > 0
        <4>1. entry[c].cnt \in Nat
          BY <3>4, TypesGive DEF Entry
        <4> QED
          BY <3>4, <4>1
      <3> QED
        BY <1>3, <3>3, <3>4, <3>5
    <2>4. (k = 1 /\ i = 1) \/ i = 1 + k \/ i > 1 + k
      <3>1. i \in Nat /\ i > 0 /\ k \in {0, 1}
        BY <1>1, <1>4
      <3> QED
        BY <3>1
    <2> QED
      BY <2>1, <2>2, <2>3, <2>4
  <1>5. \A i \in DOMAIN stack' : \A c \in (Children(stack[i].node) \cap alive)' :
              c <= stack'[i].arg =>
                  /\ c \in Listed' /\ entry'[c].cnt > 0
                  /\ Done(c)' \/ (i > 1 /\ stack'[i - 1].node = c)
    BY <1>4 DEF Children
  <1> QED
    BY <1>1, <1>2, <1>5 DEF WalkInv

(* A sequence with a new head, or two.                                     *)
LEMMA NewHead ==
    ASSUME NEW S, NEW s \in Seq(S), s # <<>>, NEW f \in S
    PROVE  LET u == <<f>> \o Tail(s)
           IN  /\ u \in Seq(S) /\ Len(u) = Len(s) /\ u[1] = f
               /\ \A i \in 2..Len(s) : u[i] = s[i]
               /\ ToSet(u) \subseteq {f} \cup ToSet(s)
  <1>1. PICK u : u = <<f>> \o Tail(s)
    OBVIOUS
  <1>2. u \in Seq(S) /\ Len(u) = Len(s) /\ u[1] = f /\ \A i \in 2..Len(s) : u[i] = s[i]
    BY <1>1
  <1>3. ToSet(u) \subseteq {f} \cup ToSet(s)
    <2> SUFFICES ASSUME NEW x \in ToSet(u), x # f PROVE x \in ToSet(s)
      OBVIOUS
    <2>1. PICK i \in 1..Len(u) : u[i] = x
      BY <1>2, ToSetIs
    <2>2. i \in 2..Len(s)
      BY <1>2, <2>1
    <2>3. i \in 1..Len(s) /\ s[i] = x
      BY <1>2, <2>1, <2>2
    <2> QED
      BY <2>3, ToSetIs
  <1> QED
    BY <1>1, <1>2, <1>3

LEMMA NewFirst ==
    ASSUME NEW S, NEW s \in Seq(S), NEW f \in S
    PROVE  LET u == <<f>> \o s
           IN  /\ u \in Seq(S) /\ Len(u) = Len(s) + 1 /\ u[1] = f
               /\ \A i \in 1..Len(s) : u[i + 1] = s[i]
               /\ ToSet(u) = {f} \cup ToSet(s)
  <1>1. PICK a, u : a = <<f>> /\ u = a \o s
    OBVIOUS
  <1>2. u \in Seq(S) /\ Len(u) = Len(s) + 1 /\ u[1] = f /\ \A i \in 1..Len(s) : u[i + 1] = s[i]
    BY <1>1
  <1>3. a \in Seq(S) /\ ToSet(a) = {f}
    BY <1>1, ToSetOne
  <1>4. ToSet(u) = {f} \cup ToSet(s)
    <2>1. ToSet(a \o s) = ToSet(a) \cup ToSet(s)
      BY <1>3, ToSetCat
    <2>2. u = a \o s
      BY <1>1
    <2> QED
      BY <1>3, <2>1, <2>2
  <1> QED
    BY <1>1, <1>2, <1>4

(* The next child of the innermost frame.                                  *)
LEMMA NextChild ==
    ASSUME GenInv, phase = "trim", stack # <<>>, Later # {}
    PROVE  /\ stack \in Seq(Call) /\ Top \in Call /\ Top = stack[1] /\ 1 \in DOMAIN stack
           /\ Min(Later) \in Children(Top.node) \cap alive
           /\ Min(Later) \in Nodes \ {Root} /\ Min(Later) > Top.arg
           /\ \A c \in Children(Top.node) \cap alive :
                 c <= Min(Later) => c = Min(Later) \/ c <= Top.arg
  <1>1. stack \in Seq(Call) /\ Top \in Call /\ Top = stack[1] /\ 1 \in DOMAIN stack
    <2>1. stack \in Seq(Call)
      BY TypesGive DEF GenInv
    <2> QED
      BY <2>1 DEF Top
  <1>2. Later \in SUBSET Nat
    BY RootIsNode DEF Later, Children
  <1>3. Min(Later) \in Later /\ \A y \in Later : Min(Later) <= y
    BY <1>2, MinIn
  <1>4. Top.arg \in Nat
    BY <1>1, RootIsNode DEF Call
  <1>5. ASSUME NEW c \in Children(Top.node) \cap alive, c <= Min(Later), c # Min(Later)
        PROVE  c <= Top.arg
    <2>1. c \in Nat /\ Min(Later) \in Nat
      BY <1>2, <1>3, RootIsNode DEF Children
    <2>2. c \notin Later
      BY <1>3, <1>5, <2>1
    <2> QED
      BY <1>4, <1>5, <2>1, <2>2 DEF Later
  <1> QED
    BY <1>1, <1>3, <1>5 DEF Later, Children

LEMMA TrimDelete ==
    ASSUME GenInv, phase = "trim", NEW c \in Nodes \ {Root}, c \notin Listed,
           phase' = "trim", alive' = alive \ Subtree(c), Kept' = Kept, parent' = parent
    PROVE  AliveInv'
  <1> USE DEF GenInv
  <1>1. parent \in Trees /\ Kept \in SUBSET (Nodes \ {Root}) /\ alive \subseteq Nodes
    BY TypesGive DEF TypeInv, TypeOK
  <1>2. \A d \in Nodes : d \in Subtree(c) <=> (d = c \/ c \in Above(parent, d))
    BY DEF Subtree, Chain
  <1>3. Root \in alive'
    BY <1>1, <1>2, AboveRoot, RootIsNode DEF AliveInv
  <1>4. ASSUME NEW n \in Kept PROVE n \in alive'
    <2>1. \A k \in Kept : parent[k] \in Kept \cup {Root}
      BY ResolvedIsClosed
    <2>2. ({n} \cup Above(parent, n)) \ {Root} \subseteq Kept
      BY <1>1, <2>1, ChainWithin
    <2>3. c \notin Kept
      BY DEF Kept
    <2> QED
      BY <1>1, <1>2, <2>2, <2>3 DEF AliveInv
  <1>5. ASSUME NEW d \in alive' \ {Root} PROVE parent[d] \in alive'
    <2>1. d \in alive \ {Root} /\ d \in Nodes \ {Root} /\ c \notin Above(parent, d)
      BY <1>1, <1>2, <1>5
    <2>2. parent[d] \in alive /\ parent[d] \in Nodes /\ parent[d] \in Above(parent, d)
      BY <1>1, <2>1, AboveParents DEF AliveInv
    <2>3. Above(parent, parent[d]) \subseteq Above(parent, d)
      BY <1>1, <2>1, AboveStep
    <2> QED
      BY <1>2, <2>1, <2>2, <2>3
  <1> QED
    BY <1>3, <1>4, <1>5 DEF AliveInv

(* A visit counts, and changes nothing else of an entry.                   *)
LEMMA VisitIs ==
    ASSUME TypeInv, NEW c \in Listed, entry' = [entry EXCEPT ![c].cnt = @ + 1]
    PROVE  /\ DOMAIN entry' = Listed /\ \A x \in Listed : entry'[x] \in Entry
           /\ \A x \in Listed : /\ entry'[x].offset = entry[x].offset
                                /\ entry'[x].flag = entry[x].flag
                                /\ entry'[x].cnt >= entry[x].cnt /\ entry'[x].cnt \in Nat
           /\ entry'[c].cnt > 0
           /\ \A x \in Listed : x # c => entry'[x] = entry[x]
  <1>1. DOMAIN entry = Listed /\ \A x \in Listed : entry[x] \in Entry
    BY TypesGive
  <1>2. /\ DOMAIN entry' = Listed /\ \A x \in Listed : x # c => entry'[x] = entry[x]
        /\ entry'[c] = [entry[c] EXCEPT !.cnt = @ + 1]
    BY <1>1
  <1>3. /\ entry'[c] \in Entry /\ entry'[c].offset = entry[c].offset
        /\ entry'[c].flag = entry[c].flag /\ entry'[c].cnt = entry[c].cnt + 1
        /\ entry[c].cnt \in Nat
    BY <1>1, <1>2 DEF Entry
  <1>4. ASSUME NEW x \in Listed
        PROVE  /\ entry'[x] \in Entry /\ entry'[x].offset = entry[x].offset
               /\ entry'[x].flag = entry[x].flag
               /\ entry'[x].cnt >= entry[x].cnt /\ entry'[x].cnt \in Nat
    <2>1. CASE x = c
      BY <1>3, <2>1
    <2>2. CASE x # c
      <3>1. entry'[x] = entry[x] /\ entry[x] \in Entry /\ entry[x].cnt \in Nat
        BY <1>1, <1>2, <2>2 DEF Entry
      <3> QED
        BY <3>1
    <2> QED
      BY <2>1, <2>2
  <1> QED
    BY <1>2, <1>3, <1>4

(* The walk of a node goes on, or starts again, with a frame of its own    *)
(* for a child it goes into.                                               *)
LEMMA FrameIs ==
    ASSUME GenInv, phase = "trim", stack # <<>>, NEW a \in Nodes
    PROVE  LET s == <<Trim(Top.node, a)>> \o Tail(stack)
           IN  /\ s \in Seq(Call) /\ Len(s) = Len(stack)
               /\ \A i \in 1..Len(stack) : s[i].node = stack[i].node
               /\ \A i \in 2..Len(stack) : s[i].arg = stack[i].arg
               /\ s[1].arg = a /\ \A f \in ToSet(s) : f.call = "trim"
  <1>1. stack \in Seq(Call) /\ Top \in Call /\ Top = stack[1] /\ Top.node \in Nodes
    <2>1. stack \in Seq(Call)
      BY TypesGive DEF GenInv
    <2>2. Top \in Call /\ Top = stack[1]
      BY <2>1 DEF Top
    <2> QED
      BY <2>1, <2>2 DEF Call
  <1>2. PICK f, s : f = Trim(Top.node, a) /\ s = <<f>> \o Tail(stack)
    OBVIOUS
  <1>3. f \in Call /\ f.call = "trim" /\ f.node = Top.node /\ f.arg = a
    BY <1>1, <1>2, TrimIs
  <1>4. /\ s \in Seq(Call) /\ Len(s) = Len(stack) /\ s[1] = f
        /\ \A i \in 2..Len(stack) : s[i] = stack[i]
        /\ ToSet(s) \subseteq {f} \cup ToSet(stack)
    BY <1>1, <1>2, <1>3, NewHead
  <1>5. \A g \in ToSet(s) : g.call = "trim"
    BY <1>3, <1>4 DEF GenInv, TypeInv, CallsInv, Frames
  <1>6. \A i \in 1..Len(stack) : s[i].node = stack[i].node
    <2> SUFFICES ASSUME NEW i \in 1..Len(stack) PROVE s[i].node = stack[i].node
      OBVIOUS
    <2>1. CASE i = 1
      BY <1>1, <1>3, <1>4, <2>1
    <2>2. CASE i # 1
      <3>1. i \in 2..Len(stack)
        BY <1>1, <2>2
      <3> QED
        BY <1>4, <3>1
    <2> QED
      BY <2>1, <2>2
  <1> QED
    BY <1>2, <1>3, <1>4, <1>5, <1>6

LEMMA TrimChildKeeps ==
    ASSUME GenInv, TrimChild
    PROVE  GenInv'
  <1> USE DEF GenInv
  <1>0. PICK c : c = Min(Later)
    OBVIOUS
  <1> DEFINE m == Top.node
             again == <<Trim(m, Root)>> \o Tail(stack)
             onward == <<Trim(m, c)>> \o Tail(stack)
  <1>1. /\ phase = "trim" /\ phase' = "trim" /\ stack # <<>> /\ Later # {}
        /\ IF c \notin Listed
           THEN alive' = alive \ Subtree(c) /\ stack' = again /\ UNCHANGED <<entry, disabled>>
           ELSE /\ entry' = [entry EXCEPT ![c].cnt = @ + 1] /\ alive' = alive
                /\ IF entry[c].flag = "disable" /\ entry[c].cnt = 0
                   THEN disabled' = disabled \cup {c} /\ stack' = again
                   ELSE stack' = Walk(c) \o onward /\ disabled' = disabled
        /\ UNCHANGED <<parent, deps, order, to_list, it, keeps, generates, asked, reported>>
    BY <1>0 DEF TrimChild, tree, history
  <1>2. /\ stack \in Seq(Call) /\ Top \in Call /\ Top = stack[1] /\ 1 \in DOMAIN stack
        /\ c \in Children(m) \cap alive /\ c \in Nodes \ {Root} /\ c > Top.arg
        /\ \A k \in Children(m) \cap alive : k <= c => k = c \/ k <= Top.arg
    BY <1>0, <1>1, NextChild
  <1>3. /\ alive \subseteq Nodes /\ disabled \subseteq Nodes /\ DOMAIN entry = Listed
        /\ \A x \in Listed : entry[x] \in Entry /\ entry[x].cnt \in Nat
        /\ parent \in Trees /\ generates # 0 /\ Listed' = Listed
    <2>1. generates # 0
      BY <1>1 DEF TypeInv, CallsInv
    <2>2. Listed' = Listed
      BY <1>1 DEF Listed
    <2> QED
      BY <2>1, <2>2, TypesGive DEF TypeInv, TypeOK, Entry
  <1>4. /\ again \in Seq(Call) /\ Len(again) = Len(stack)
        /\ \A i \in 1..Len(stack) : again[i].node = stack[i].node
        /\ \A i \in 2..Len(stack) : again[i].arg = stack[i].arg
        /\ again[1].arg = Root /\ \A f \in ToSet(again) : f.call = "trim"
    BY <1>1, RootIsNode, FrameIs
  <1>5. /\ onward \in Seq(Call) /\ Len(onward) = Len(stack)
        /\ \A i \in 1..Len(stack) : onward[i].node = stack[i].node
        /\ \A i \in 2..Len(stack) : onward[i].arg = stack[i].arg
        /\ onward[1].arg = c /\ \A f \in ToSet(onward) : f.call = "trim"
    BY <1>1, <1>2, FrameIs
  <1> HIDE DEF m, again, onward
  <1>6. ASSUME stack' = again, alive' \subseteq alive,
               \A x \in Listed : entry'[x].cnt >= entry[x].cnt /\ entry'[x].cnt \in Nat
        PROVE  WalkInv'
    <2>1. \A k \in Children(stack[1].node) \cap alive' : ~(k <= stack'[1 + 0].arg)
      <3>1. stack'[1 + 0].arg = Root
        BY <1>4, <1>6
      <3> QED
        BY <3>1, ChildrenLater
    <2>2. /\ stack' \in Seq(Call) /\ Len(stack') = Len(stack) + 0
          /\ \A i \in 1..Len(stack) : stack'[i + 0].node = stack[i].node
          /\ \A i \in 2..Len(stack) : stack'[i + 0].arg = stack[i].arg
      BY <1>2, <1>4, <1>6
    <2>3. 0 \in {0, 1} /\ ~(0 = 1)
      OBVIOUS
    <2> QED
      BY <1>1, <1>3, <1>6, <2>1, <2>2, <2>3, WalkGoesOn
  <1>7. CASE c \notin Listed
    <2>1. alive' = alive \ Subtree(c) /\ stack' = again /\ entry' = entry /\ disabled' = disabled
      BY <1>1, <1>7
    <2>2. \A f \in Frames' : f.call = "trim"
      BY <1>4, <2>1 DEF Frames
    <2>3. /\ Listed' = Listed /\ Kept' = Kept
          /\ TypeInv' /\ OffsetsInv' /\ RecordedInv' /\ BatchInv' /\ ListedInv' /\ NeedsInv'
          /\ ReportsMissing'
      BY <1>1, <1>3, <1>4, <2>1, <2>2, TrimLeaves
    <2>4. AliveInv'
      BY <1>1, <1>2, <1>7, <2>1, <2>3, TrimDelete
    <2>5. WalkInv'
      <3>1. \A x \in Listed : entry'[x].cnt >= entry[x].cnt /\ entry'[x].cnt \in Nat
        BY <1>3, <2>1
      <3> QED
        BY <1>6, <2>1, <3>1
    <2>6. DisableInv'
      BY <1>1, <1>3, <2>1, <2>3 DEF DisableInv
    <2> QED
      BY <2>3, <2>4, <2>5, <2>6
  <1>8. CASE c \in Listed
    <2>1. entry' = [entry EXCEPT ![c].cnt = @ + 1] /\ alive' = alive
      BY <1>1, <1>8
    <2>2. /\ DOMAIN entry' = Listed /\ \A x \in Listed : entry'[x] \in Entry
          /\ \A x \in Listed : /\ entry'[x].offset = entry[x].offset
                               /\ entry'[x].flag = entry[x].flag
                               /\ entry'[x].cnt >= entry[x].cnt /\ entry'[x].cnt \in Nat
          /\ entry'[c].cnt > 0
          /\ \A x \in Listed : x # c => entry'[x] = entry[x]
      BY <1>8, <2>1, VisitIs
    <2>3. c \in Kept /\ Kept \subseteq Listed
      BY <1>2, <1>8 DEF Kept
    <2>4. ASSUME stack' \in Seq(Call), \A f \in ToSet(stack') : f.call = "trim",
                 disabled' \subseteq Nodes
          PROVE  /\ Listed' = Listed /\ Kept' = Kept
                 /\ TypeInv' /\ OffsetsInv' /\ RecordedInv' /\ BatchInv' /\ ListedInv' /\ NeedsInv'
                 /\ ReportsMissing' /\ AliveInv'
      <3>1. \A f \in Frames' : f.call = "trim"
        BY <2>4 DEF Frames
      <3>2. /\ Listed' = Listed /\ Kept' = Kept
            /\ TypeInv' /\ OffsetsInv' /\ RecordedInv' /\ BatchInv' /\ ListedInv' /\ NeedsInv'
            /\ ReportsMissing'
        BY <1>1, <1>3, <2>1, <2>2, <2>4, <3>1, TrimLeaves
      <3>3. AliveInv'
        BY <1>1, <2>1, <3>2 DEF AliveInv
      <3> QED
        BY <3>2, <3>3
    <2>5. CASE entry[c].flag = "disable" /\ entry[c].cnt = 0
      <3>1. disabled' = disabled \cup {c} /\ stack' = again
        BY <1>1, <1>8, <2>5
      <3>2. disabled' \subseteq Nodes
        BY <1>2, <1>3, <3>1
      <3>3. /\ Kept' = Kept
            /\ TypeInv' /\ OffsetsInv' /\ RecordedInv' /\ BatchInv' /\ ListedInv' /\ NeedsInv'
            /\ ReportsMissing' /\ AliveInv'
        BY <1>4, <2>4, <3>1, <3>2
      <3>4. WalkInv'
        BY <1>6, <2>1, <2>2, <3>1
      <3>5. DisableInv'
        <4>1. \A n \in disabled' : n \in Kept /\ entry'[n].flag = "disable"
          BY <1>1, <2>2, <2>3, <2>5, <3>1 DEF DisableInv
        <4>2. generates = 1 => \A n \in Kept :
                  entry'[n].flag = "disable" /\ entry'[n].cnt > 0 => n \in disabled'
          BY <1>1, <2>2, <2>3, <3>1 DEF DisableInv
        <4> QED
          BY <1>1, <1>3, <3>3, <4>1, <4>2 DEF DisableInv
      <3> QED
        BY <3>3, <3>4, <3>5
    <2>6. CASE ~(entry[c].flag = "disable" /\ entry[c].cnt = 0)
      <3>1. stack' = Walk(c) \o onward /\ disabled' = disabled
        BY <1>1, <1>8, <2>6
      <3>2. ASSUME NEW k \in Children(stack[1].node) \cap alive', k <= c
            PROVE  k \in Listed /\ entry'[k].cnt > 0 /\ (k = c \/ Done(k)')
        <4>1. k \in Children(m) \cap alive /\ (k = c \/ k <= Top.arg)
          BY <1>2, <2>1, <3>2 DEF m
        <4>2. CASE k = c
          BY <1>8, <2>2, <4>2
        <4>3. CASE k <= Top.arg
          <5>1. /\ k \in Listed /\ entry[k].cnt > 0
                /\ Done(k) \/ (1 > 1 /\ stack[1 - 1].node = k)
            BY <1>1, <1>2, <3>2, <4>1, <4>3 DEF WalkInv
          <5>2. Done(k)'
            BY <1>1, <1>3, <2>1, <2>2, <5>1, DoneStays
          <5>3. entry'[k].cnt > 0
            BY <1>3, <2>2, <5>1
          <5> QED
            BY <5>1, <5>2, <5>3
        <4> QED
          BY <4>1, <4>2, <4>3
      <3>3. ASSUME Children(c) = {}
            PROVE  stack' \in Seq(Call) /\ (\A f \in ToSet(stack') : f.call = "trim") /\ WalkInv'
        <4>1. stack' = onward
          <5>1. Walk(c) = <<>>
            BY <3>3 DEF Walk
          <5> QED
            BY <1>5, <3>1, <5>1
        <4>2. Done(c)'
          <5> SUFFICES ASSUME NEW d \in alive, c \in Above(parent, d) PROVE FALSE
            BY <1>1, <2>1 DEF Done
          <5>1. \E k \in Nodes \ {Root} : parent[k] = c /\ (k = d \/ k \in Above(parent, d))
            BY <1>3, ChildBetween
          <5> QED
            BY <3>3, <5>1 DEF Children
        <4>3. /\ stack' \in Seq(Call) /\ Len(stack') = Len(stack) + 0
              /\ \A i \in 1..Len(stack) : stack'[i + 0].node = stack[i].node
              /\ \A i \in 2..Len(stack) : stack'[i + 0].arg = stack[i].arg
              /\ stack'[1 + 0].arg = c
          BY <1>2, <1>5, <4>1
        <4>4. \A k \in Children(stack[1].node) \cap alive' : k <= stack'[1 + 0].arg =>
                  /\ k \in Listed /\ entry'[k].cnt > 0
                  /\ Done(k)' \/ (0 = 1 /\ stack'[1].node = k)
          BY <3>2, <4>2, <4>3
        <4>5. WalkInv'
          <5>1. 0 \in {0, 1} /\ ~(0 = 1)
            OBVIOUS
          <5>2. alive' \subseteq alive
            BY <2>1
          <5> QED
            BY <1>1, <1>3, <2>2, <4>3, <4>4, <5>1, <5>2, WalkGoesOn
        <4> QED
          BY <1>5, <4>1, <4>5
      <3>4. ASSUME Children(c) # {}
            PROVE  stack' \in Seq(Call) /\ (\A f \in ToSet(stack') : f.call = "trim") /\ WalkInv'
        <4>1. PICK f : f = Trim(c, Root)
          OBVIOUS
        <4>2. f \in Call /\ f.call = "trim" /\ f.node = c /\ f.arg = Root
          BY <1>2, <4>1, RootIsNode, TrimIs
        <4>3. stack' = <<f>> \o onward
          BY <3>1, <3>4, <4>1 DEF Walk
        <4>4. /\ stack' \in Seq(Call) /\ Len(stack') = Len(onward) + 1 /\ stack'[1] = f
              /\ \A i \in 1..Len(onward) : stack'[i + 1] = onward[i]
              /\ ToSet(stack') = {f} \cup ToSet(onward)
          BY <1>5, <4>2, <4>3, NewFirst
        <4>5. /\ stack' \in Seq(Call) /\ Len(stack') = Len(stack) + 1
              /\ \A i \in 1..Len(stack) : stack'[i + 1].node = stack[i].node
              /\ \A i \in 2..Len(stack) : stack'[i + 1].arg = stack[i].arg
              /\ stack'[1 + 1].arg = c /\ stack'[1].arg = Root /\ stack'[1].node = c
          <5>1. Len(stack) \in Nat /\ 1 \in 1..Len(stack)
            BY <1>2
          <5> QED
            BY <1>5, <4>2, <4>4, <5>1
        <4>6. \A k \in Children(stack[1].node) \cap alive' : k <= stack'[1 + 1].arg =>
                  /\ k \in Listed /\ entry'[k].cnt > 0
                  /\ Done(k)' \/ (1 = 1 /\ stack'[1].node = k)
          BY <3>2, <4>5
        <4>7. WalkInv'
          <5>1. 1 \in {0, 1}
            OBVIOUS
          <5>2. alive' \subseteq alive
            BY <2>1
          <5> QED
            BY <1>1, <1>3, <2>2, <4>5, <4>6, <5>1, <5>2, WalkGoesOn
        <4>8. \A g \in ToSet(stack') : g.call = "trim"
          BY <1>5, <4>2, <4>4
        <4> QED
          BY <4>4, <4>7, <4>8
      <3>5. stack' \in Seq(Call) /\ (\A f \in ToSet(stack') : f.call = "trim") /\ WalkInv'
        BY <3>3, <3>4
      <3>6. /\ Kept' = Kept
            /\ TypeInv' /\ OffsetsInv' /\ RecordedInv' /\ BatchInv' /\ ListedInv' /\ NeedsInv'
            /\ ReportsMissing' /\ AliveInv'
        BY <1>3, <2>4, <3>1, <3>5
      <3>7. DisableInv'
        <4>1. \A n \in disabled' : n \in Kept /\ entry'[n].flag = "disable"
          BY <1>1, <2>2, <2>3, <3>1 DEF DisableInv
        <4>2. ASSUME generates = 1, NEW n \in Kept, entry'[n].flag = "disable", entry'[n].cnt > 0
              PROVE  n \in disabled'
          <5>1. entry[n].flag = "disable" /\ n \in Listed
            BY <2>2, <2>3, <4>2
          <5>2. entry[n].cnt > 0
            BY <1>3, <2>2, <2>6, <4>2, <5>1
          <5> QED
            BY <1>1, <3>1, <4>2, <5>1, <5>2 DEF DisableInv
        <4> QED
          BY <1>1, <1>3, <3>6, <4>1, <4>2 DEF DisableInv
      <3> QED
        BY <3>5, <3>6, <3>7
    <2> QED
      BY <2>5, <2>6
  <1> QED
    BY <1>7, <1>8
-----------------------------------------------------------------------------
(***************************************************************************)
(* The theorems.                                                           *)
(***************************************************************************)

LEMMA NextKeeps == ASSUME GenInv, [Next]_vars PROVE GenInv'
  <1>1. ASSUME NEW flag \in Flags, NEW name \in Wanted, KeepNode(name, flag) PROVE GenInv'
    <2>1. Ask({name}, {name} \cap Nodes, flag)
      BY <1>1, KeepNodeAsks DEF GenInv
    <2> QED
      BY <2>1, AskKeeps
  <1>2. ASSUME NEW flag \in Flags, NEW n \in Whole, KeepSubtree(n, flag)
        PROVE  GenInv'
    <2>1. n \in Nodes
      BY BoundsAssumption DEF Nodes
    <2>2. PICK names, nodes : Ask(names, nodes, flag)
      BY <1>2, <2>1, KeepSubtreeAsks DEF GenInv
    <2> QED
      BY <2>2, AskKeeps
  <1>3. CASE FindNodesToKeep
    BY <1>3, FindKeeps
  <1>4. CASE ResolveEntry
    BY <1>4, ResolveEntryKeeps
  <1>5. CASE RegisterDependency
    BY <1>5, RegisterDependencyKeeps
  <1>6. CASE KeepNodeAndParents
    BY <1>6, KeepNodeAndParentsKeeps
  <1>7. CASE TrimStart
    BY <1>7, TrimStartKeeps
  <1>8. CASE TrimChild
    BY <1>8, TrimChildKeeps
  <1>9. CASE TrimReturn
    BY <1>9, TrimReturnKeeps
  <1>10. CASE GenerateEnd
    BY <1>10, GenerateEndKeeps
  <1>11. CASE FreeContext
    BY <1>11, FreeContextKeeps
  <1>12. CASE UNCHANGED vars
    <2>1. UNCHANGED <<parent, deps, order, entry, to_list, it, stack, phase, keeps, generates,
                      alive, disabled, asked, reported>>
      BY <1>12 DEF vars, tree, table, history
    <2>2. Listed' = Listed /\ Frames' = Frames
      BY <2>1 DEF Listed, Frames
    <2>3. Kept' = Kept
      BY <2>2 DEF Kept
    <2>4. TypeInv'
      BY <2>1, <2>2 DEF GenInv, TypeInv, TypeOK, TreeInv, CallsInv
    <2>5. OffsetsInv'
      BY <2>1, <2>2, <2>3 DEF GenInv, OffsetsInv
    <2>6. RecordedInv' /\ BatchInv'
      BY <2>1, <2>2 DEF GenInv, RecordedInv, BatchInv, Batched, Register, Keep
    <2>7. ListedInv'
      BY <2>1, <2>2, <2>3 DEF GenInv, ListedInv, Batched, Ahead, Register, Keep
    <2>8. NeedsInv'
      <3>1. Needs(asked)' = Needs(asked)
        BY <2>1, NeedsPrime, NeedsIs
      <3>2. Stray => Stray'
        BY <2>1, <2>2 DEF Stray
      <3> QED
        BY <2>1, <2>2, <2>3, <3>1, <3>2 DEF GenInv, NeedsInv
    <2>9. \A m : Done(m) => Done(m)'
      BY <2>1, <2>2 DEF Done
    <2>10. AliveInv' /\ DisableInv' /\ ReportsMissing'
      BY <2>1, <2>2, <2>3 DEF GenInv, AliveInv, DisableInv, ReportsMissing
    <2>11. WalkInv'
      BY <2>1, <2>2, <2>9 DEF GenInv, WalkInv, Children
    <2> QED
      BY <2>4, <2>5, <2>6, <2>7, <2>8, <2>10, <2>11 DEF GenInv
  <1> QED
    BY <1>1, <1>2, <1>3, <1>4, <1>5, <1>6, <1>7, <1>8, <1>9, <1>10, <1>11, <1>12
    DEF Next, Generate

LEMMA InvariantHolds == Spec => []GenInv
  <1>1. Init => GenInv
    BY InitHolds
  <1>2. GenInv /\ [Next]_vars => GenInv'
    BY NextKeeps
  <1> QED
    BY <1>1, <1>2, PTL DEF Spec

(* The paths no node has are the listed names that are no nodes, and the   *)
(* walk visits none of them.                                               *)
WrongInv ==
    /\ phase # "freed" => /\ wrong = Listed \ Nodes
                          /\ \A x \in Listed \ Nodes : entry[x].cnt = 0
    /\ ReportsWrong

LEMMA WrongNext == ASSUME GenInv, WrongInv, [Next]_vars PROVE WrongInv'
  <1>0. TypeInv /\ DOMAIN entry = Listed
    BY DEF GenInv, TypeInv, TypeOK
  <1>1. ASSUME NEW names, NEW flag \in Flags, NEW none, Asking, Enter(names, flag),
               names \subseteq Names, names \ Nodes = none, wrong' = wrong \cup none
        PROVE  WrongInv'
    <2>1. /\ Listed' = Listed \cup names
          /\ \A x \in Listed' :
                /\ x \notin Listed => entry'[x] = New(NoOffset, flag)
                /\ x \in Listed => entry'[x].cnt = entry[x].cnt
      BY <1>0, <1>1, EnterIs
    <2>2. \A x \in Listed' \ Listed : entry'[x].cnt = 0
      BY <2>1 DEF New
    <2>3. phase = "open" /\ phase' = "open"
      BY <1>1 DEF Asking
    <2> QED
      BY <1>1, <2>1, <2>2, <2>3 DEF WrongInv, ReportsWrong
  <1>2. ASSUME NEW flag \in Flags, NEW name \in Wanted, KeepNode(name, flag) PROVE WrongInv'
    <2>1. {name} \subseteq Names
      BY BoundsAssumption DEF Names
    <2> QED
      BY <1>1, <1>2, <2>1 DEF KeepNode
  <1>3. ASSUME NEW flag \in Flags, NEW n \in Whole, KeepSubtree(n, flag) PROVE WrongInv'
    <2>1. CASE n = Root
      <3> DEFINE none == {Missing(d) : d \in Nodes \ {Root}}
      <3>1. none \subseteq Names /\ none \cap Nodes = {} /\ {Root} \cup none \subseteq Names
            /\ ({Root} \cup none) \ Nodes = none
        BY NamesAre, RootIsNode
      <3>2. Asking /\ Enter({Root} \cup none, flag) /\ wrong' = wrong \cup none
        BY <1>3, <2>1 DEF KeepSubtree
      <3> HIDE DEF none
      <3> QED
        BY <1>1, <3>1, <3>2
    <2>2. CASE n # Root
      <3>1. Subtree(n) \subseteq Names /\ Subtree(n) \ Nodes = {}
        BY NamesAre DEF Subtree
      <3>2. Asking /\ Enter(Subtree(n), flag) /\ wrong' = wrong \cup {}
        BY <1>3, <2>2 DEF KeepSubtree
      <3> QED
        BY <1>1, <3>1, <3>2
    <2> QED
      BY <2>1, <2>2
  <1>4. ASSUME phase # "freed", phase' # "freed", wrong' = wrong,
               Listed' \ Nodes = Listed \ Nodes,
               \A x \in Listed \ Nodes : entry'[x].cnt = entry[x].cnt
        PROVE  WrongInv'
    BY <1>4 DEF WrongInv, ReportsWrong
  <1>5. CASE FindNodesToKeep
    <2>1. /\ phase = "open" /\ phase' = "resolve" /\ wrong' = wrong
          /\ entry' = [x \in Listed \cup Found |->
                   IF x \notin Listed THEN New(x, "keep")
                   ELSE IF x \in Found THEN [entry[x] EXCEPT !.offset = x]
                   ELSE entry[x]]
      BY <1>5 DEF FindNodesToKeep, history
    <2>2. Found \subseteq Nodes \ {Root}
      BY <1>0, FoundIs
    <2>3. PICK q \in Orders(Found \ Listed) : order' = order \o q
      BY <1>5 DEF FindNodesToKeep
    <2>4. IsFiniteSet(Found \ Listed)
      BY <2>2, RootIsNode, FS_Subset
    <2>5. q \in Seq(Found \ Listed) /\ ToSet(q) = Found \ Listed
      BY <2>4, OrdersAre
    <2>6. q \in Seq(Names) /\ order \in Seq(Names)
      <3>1. Found \ Listed \subseteq Names
        BY <2>2, NamesAre
      <3> QED
        BY <1>0, <2>5, <3>1, TypesGive
    <2>7. ToSet(order \o q) = ToSet(order) \cup ToSet(q)
      BY <2>6, ToSetCat
    <2>8. Listed' = Listed \cup Found
      BY <2>3, <2>5, <2>7 DEF Listed
    <2>9. \A x \in Listed \ Nodes : entry'[x] = entry[x]
      BY <2>1, <2>2
    <2> QED
      BY <1>4, <2>1, <2>2, <2>8, <2>9
  <1>6. CASE ResolveEntry \/ RegisterDependency
    <2>1. phase = "resolve" /\ UNCHANGED <<phase, wrong, order, entry>>
      BY <1>6 DEF ResolveEntry, RegisterDependency, Working, table, history
    <2>2. Listed' = Listed
      BY <2>1 DEF Listed
    <2> QED
      BY <1>4, <2>1, <2>2
  <1>7. CASE KeepNodeAndParents
    <2>1. PICK n, a : n = Top.node /\ a = Top.arg
      OBVIOUS
    <2>2. /\ phase = "resolve" /\ phase' = phase /\ wrong' = wrong
          /\ order' = IF n \in Listed THEN order ELSE Append(order, n)
          /\ entry' = IF n \in Listed THEN entry
                      ELSE [x \in Listed \cup {n} |->
                              IF x = n THEN New(a, "keep") ELSE entry[x]]
      BY <1>7, <2>1 DEF KeepNodeAndParents, Return, Working, history
    <2>3. n \in Nodes /\ n \in Names /\ order \in Seq(Names)
      <3>1. Working("keep")
        BY <1>7 DEF KeepNodeAndParents
      <3>2. n \in Nodes \ {Root}
        BY <1>0, <2>1, <3>1, TopIs DEF Working, GenInv
      <3> QED
        BY <1>0, <3>2, NamesAre, TypesGive
    <2>4. Listed' \ Nodes = Listed \ Nodes
      <3>1. CASE n \in Listed
        BY <2>2, <3>1 DEF Listed
      <3>2. CASE n \notin Listed
        <4>1. order' = Append(order, n)
          BY <2>2, <3>2
        <4>2. Listed' = Listed \cup {n}
          BY <2>3, <4>1, ToSetAppend DEF Listed
        <4> QED
          BY <2>3, <4>2
      <3> QED
        BY <3>1, <3>2
    <2>5. \A x \in Listed \ Nodes : entry'[x] = entry[x]
      BY <2>2, <2>3
    <2> QED
      BY <1>4, <2>2, <2>4, <2>5
  <1>8. CASE TrimStart
    <2>1. /\ phase = "resolve" /\ phase' = "trim" /\ wrong' = wrong /\ order' = Append(order, Root)
          /\ entry' = [x \in Listed \cup {Root} |->
                   IF x \in Listed THEN entry[x] ELSE [New(Root, "keep") EXCEPT !.cnt = 1]]
      BY <1>8 DEF TrimStart, history
    <2>2. Listed' = Listed \cup {Root}
      BY <1>0, <2>1, TypesGive, RootIsNode, NamesAre, ToSetAppend DEF Listed
    <2>3. \A x \in Listed \ Nodes : entry'[x] = entry[x]
      BY <2>1
    <2> QED
      BY <1>4, <2>1, <2>2, <2>3, RootIsNode
  <1>9. CASE TrimChild
    <2>1. PICK c : c = Min(Later)
      OBVIOUS
    <2>2. /\ phase = "trim" /\ phase' = "trim" /\ wrong' = wrong /\ order' = order
          /\ stack # <<>> /\ Later # {}
          /\ entry' = entry \/ (c \in Listed /\ entry' = [entry EXCEPT ![c].cnt = @ + 1])
      BY <1>9, <2>1 DEF TrimChild, history
    <2>3. c \in Nodes
      BY <2>1, <2>2, NextChild
    <2>4. Listed' = Listed
      BY <2>2 DEF Listed
    <2>5. \A x \in Listed \ Nodes : entry'[x] = entry[x]
      BY <1>0, <2>2, <2>3
    <2> QED
      BY <1>4, <2>2, <2>4, <2>5
  <1>10. CASE TrimReturn \/ GenerateEnd
    <2>1. phase = "trim" /\ phase' # "freed" /\ UNCHANGED <<wrong, order, entry>>
      BY <1>10 DEF TrimReturn, GenerateEnd, table, history
    <2>2. Listed' = Listed
      BY <2>1 DEF Listed
    <2> QED
      BY <1>4, <2>1, <2>2
  <1>11. CASE FreeContext
    <2>1. /\ phase = "open" /\ phase' = "freed" /\ wrong' = wrong
          /\ reported' = {x \in Listed : entry[x].cnt = 0}
      BY <1>11 DEF FreeContext
    <2> QED
      BY <2>1 DEF WrongInv, ReportsWrong
  <1>12. CASE UNCHANGED vars
    <2>1. UNCHANGED <<phase, wrong, reported, order, entry>>
      BY <1>12 DEF vars, table, history
    <2>2. Listed' = Listed
      BY <2>1 DEF Listed
    <2> QED
      BY <2>1, <2>2 DEF WrongInv, ReportsWrong
  <1> QED
    BY <1>2, <1>3, <1>5, <1>6, <1>7, <1>8, <1>9, <1>10, <1>11, <1>12 DEF Next, Generate

LEMMA WrongHolds == Spec => []WrongInv
  <1>1. Init => WrongInv
    <2>1. ASSUME Init PROVE WrongInv
      <3>1. order = <<>> /\ phase = "open" /\ wrong = {}
        BY <2>1, Zenon DEF Init
      <3>2. Listed = {}
        BY <3>1 DEF Listed, ToSet
      <3> QED
        BY <3>1, <3>2 DEF WrongInv, ReportsWrong
    <2> QED
      BY <2>1
  <1>2. GenInv /\ WrongInv /\ [Next]_vars => WrongInv'
    BY WrongNext
  <1> QED
    BY <1>1, <1>2, InvariantHolds, PTL DEF Spec

(* The invariant says what is listed when the walk starts.                 *)
LEMMA KeptIsNeeded ==
    ASSUME GenInv
    PROVE  ListsTheNeeds
  <1> SUFFICES ASSUME phase = "trim"
               PROVE  /\ Needs(asked) \subseteq Kept
                      /\ Unwritten \/ Kept = Needs(asked)
                      /\ Complete(Kept)
    BY DEF ListsTheNeeds, Kept
  <1>1. /\ parent \in Trees /\ deps \in Depends /\ asked \in SUBSET Nodes
        /\ Kept \in SUBSET (Nodes \ {Root}) /\ Kept \in SUBSET Nodes
    BY TypesGive DEF GenInv, TypeInv, TypeOK
  <1>2. /\ \A n \in Kept : parent[n] \in Kept \cup {Root}
        /\ \A n \in Kept : ToSet(deps[n]) \subseteq Kept \cup {Root}
    BY ResolvedIsClosed
  <1>3. Closed(parent, deps, Kept)
    <2> SUFFICES ASSUME NEW n \in Kept
                 PROVE  /\ ({n} \cup Above(parent, n)) \ {Root} \subseteq Kept
                        /\ ToSet(deps[n]) \ {Root} \subseteq Kept
      BY DEF Closed
    <2>1. ({n} \cup Above(parent, n)) \ {Root} \subseteq Kept
      BY <1>1, <1>2, ChainWithin
    <2> QED
      BY <1>2, <2>1
  <1>4. asked \ {Root} \subseteq Kept
    BY <1>1 DEF GenInv, NeedsInv, Kept
  <1>5. Kept \in Closures(parent, deps, asked)
    BY <1>1, <1>3, <1>4 DEF Closures
  <1>6. Needs(asked) \subseteq Kept
    BY <1>1, <1>5, LeastIs, NeedsIs
  <1>7. Complete(Kept)
    BY <1>3 DEF Complete, Closed, Chain
  <1>8. ASSUME ~Unwritten PROVE Kept \subseteq Needs(asked)
    <2>1. ~Stray
      BY <1>8 DEF Unwritten, Stray
    <2> QED
      BY <2>1 DEF GenInv, NeedsInv
  <1> QED
    BY <1>6, <1>7, <1>8

(* resolve_all_dependencies lists all that the nodes asked for need, what  *)
(* it lists is closed under needs, and is no more than that unless an      *)
(* offset was left unwritten: in every tree, with every cycle of           *)
(* dependencies, for every sequence of calls.                              *)
THEOREM AlwaysListsTheNeeds == Spec => []ListsTheNeeds
  <1>1. GenInv => ListsTheNeeds
    BY KeptIsNeeded
  <1> QED
    BY <1>1, InvariantHolds, PTL

(* The invariant says what a generation leaves.                            *)
LEMMA GenerationIsRight ==
    ASSUME GenInv, WrongInv
    PROVE  GeneratesRight
  <1>1. TypeOK /\ ReportsMissing /\ ReportsWrong
    BY DEF GenInv, TypeInv, WrongInv
  <1>2. CutExactly
    <2>1. ASSUME Finished PROVE alive = (Listed \cap Nodes) \cup {Root}
      <3>1. alive = Kept \cup {Root}
        BY <2>1, FinishedIs DEF Finished
      <3> QED
        BY <3>1 DEF Kept
    <2> QED
      BY <2>1 DEF CutExactly
  <1>3. DisablesAsAsked
    <2> DEFINE flagged == {n \in Listed \cap Nodes : n # Root /\ entry[n].flag = "disable"}
    <2>1. flagged = {n \in Kept : entry[n].flag = "disable"}
      BY DEF Kept
    <2>2. ASSUME phase = "trim" PROVE disabled \subseteq flagged \cap alive
      BY <2>1, <2>2 DEF GenInv, DisableInv, AliveInv
    <2>3. ASSUME Finished, generates = 1 PROVE flagged \subseteq disabled
      <3>1. phase = "trim" /\ \A n \in Kept : entry[n].cnt > 0
        BY <2>3, FinishedIs DEF Finished
      <3> QED
        BY <2>1, <2>3, <3>1 DEF GenInv, DisableInv
    <2> HIDE DEF flagged
    <2>4. phase = "trim" => /\ disabled \subseteq flagged \cap alive
                            /\ Finished /\ generates = 1 => disabled = flagged
      BY <2>2, <2>3
    <2> QED
      BY <2>4 DEF DisablesAsAsked, flagged
  <1> QED
    BY <1>1, <1>2, <1>3 DEF GeneratesRight

(* trim_tree leaves the listed nodes and the root and nothing else, though *)
(* it starts over after every change; what it disables was asked to be     *)
(* disabled, and all of that in a first generation; clean_up reports every *)
(* path no node has and, but for the root, no node of the generated tree.  *)
THEOREM AlwaysGeneratesRight == Spec => []GeneratesRight
  <1>1. GenInv /\ WrongInv => GeneratesRight
    BY GenerationIsRight
  <1> QED
    BY <1>1, InvariantHolds, WrongHolds, PTL
=============================================================================
