------------------------------- MODULE FdtGen -------------------------------
(***************************************************************************)
(* libfdtgen: a device tree is cut down to the nodes a client asks to      *)
(* keep, their ancestors, and the nodes all of these depend on.            *)
(*                                                                         *)
(* Nodes are numbered in the order of the flattened tree (a node's number  *)
(* stands for its offset and for its path), 0 is the root.  A dependency   *)
(* is a property that names the phandle of another node.  A name from N on *)
(* is a path that no node of the tree has.                                 *)
(*                                                                         *)
(* The mutual recursion of keep_node_and_parents and                       *)
(* register_node_dependencies, and that of trim_tree, run on an explicit   *)
(* stack, one step per call or return.                                     *)
(***************************************************************************)
EXTENDS Integers, Sequences, FiniteSets, SequencesExt, FiniteSetsExt

CONSTANTS
    N,            \* number of nodes
    Wanted,       \* names a client may pass: nodes, or the path of none
    Whole,        \* nodes whose subtree a client may ask for
    MaxDeps,      \* dependencies in the whole tree
    MaxCalls      \* calls of a client for one context

ASSUME BoundsAssumption ==
    N \in Nat \ {0} /\ Wanted \subseteq 0..(2 * N - 1) /\ Whole \subseteq 0..(N - 1)
    /\ MaxDeps \in Nat /\ MaxCalls \in Nat

VARIABLES
    parent, deps,   \* the original tree: parent of a node, dependencies in order
    order,          \* nodes_table: the names in it, in order of insertion
    entry,          \* nodes_table: offset, flag and visits of a name in order
    to_list,        \* dep_table: the recorded dependencies of a node
    it,             \* HASH_ITER of resolve_all_dependencies: position, and
                    \* whether there was a next entry when it was reached
    stack,          \* calls in progress, the innermost first
    phase, keeps, generates,
    alive, disabled, \* the generated tree
    asked,          \* history: the nodes a client asked to keep
    wrong,          \* history: the paths it was given that no node has
    reported        \* the names clean_up says do not exist

tree == <<parent, deps>>
table == <<order, entry>>
history == <<asked, wrong, reported>>
vars == <<tree, table, to_list, it, stack, phase, keeps, generates,
          alive, disabled, history>>

Root == 0
Nodes == 0..(N - 1)
Missing(n) == N + n               \* a path built from n's name that is wrong
Names == 0..(2 * N - 1)
NoOffset == -1                   \* an offset field that was never written
Flags == {"keep", "disable"}

Listed == ToSet(order)
Children(n) == {c \in Nodes \ {Root} : parent[c] = n}
\* Sets of nodes with the parents of their members, and the ancestors of n:
\* what is in all of these that have its parent.
Upward(p) == {s \in SUBSET Nodes : \A k \in s \ {Root} : p[k] \in s}
Above(p, n) ==
    {a \in Nodes : \A s \in Upward(p) : (n # Root => p[n] \in s) => a \in s}
Chain(n) == ({n} \cup Above(parent, n)) \ {Root}
Subtree(n) == {d \in Nodes : n \in Chain(d) \cup {Root}}

Init ==
    /\ parent \in {p \in [Nodes \ {Root} -> Nodes] :
                     \A n \in Nodes \ {Root} : p[n] = n - 1 \/ p[n] \in Above(p, n - 1)}
    /\ deps \in {d \in [Nodes \ {Root} -> SeqOf(Nodes, MaxDeps)] :
                   /\ MapThenSumSet(LAMBDA n : Len(d[n]), Nodes \ {Root}) <= MaxDeps
                   /\ \A n \in Nodes \ {Root} : IsInjective(d[n])}
    /\ order = <<>> /\ entry = <<>> /\ to_list = <<>>
    /\ it = [pos |-> 0, more |-> FALSE]
    /\ stack = <<>>
    /\ phase = "open" /\ keeps = 0 /\ generates = 0
    /\ alive = Nodes /\ disabled = {}
    /\ asked = {} /\ wrong = {} /\ reported = {}
-----------------------------------------------------------------------------
(* The client names what to keep.                                          *)

New(offset, flag) == [offset |-> offset, flag |-> flag, cnt |-> 0]

\* The sequences that have every member of a set once.
Orders(set) == {q \in [1..Cardinality(set) -> set] : ToSet(q) = set}

\* HASH_FIND and then HASH_ADD or an update of the flag, for names in order
Enter(names, flag) ==
    /\ \E q \in Orders(names \ Listed) :
          /\ \A i, j \in DOMAIN q : i < j => q[i] < q[j]
          /\ order' = order \o q
    /\ entry' = [x \in Listed \cup names |->
                   IF x \notin Listed THEN New(NoOffset, flag)
                   ELSE IF x \in names THEN [entry[x] EXCEPT !.flag = flag]
                   ELSE entry[x]]

Asking ==
    /\ phase = "open" /\ keeps + generates < MaxCalls
    /\ keeps' = keeps + 1
    /\ UNCHANGED <<tree, to_list, it, stack, phase, generates, alive, disabled, reported>>

\* fdtgen_keep_nodes, fdtgen_keep_nodes_and_disable
KeepNode(name, flag) ==
    /\ Asking
    /\ Enter({name}, flag)
    /\ asked' = asked \cup ({name} \cap Nodes)
    /\ wrong' = wrong \cup ({name} \ Nodes)

\* fdtgen_keep_node_subtree, ..._disable.  The path of a child is put together
\* from the path of the node, a slash and its name: below the root that gives
\* two slashes, and no node has such a path.
KeepSubtree(n, flag) ==
    LET none == IF n = Root THEN {Missing(d) : d \in Nodes \ {Root}} ELSE {}
    IN  /\ Asking
        /\ Enter(IF n = Root THEN {Root} \cup none ELSE Subtree(n), flag)
        /\ asked' = asked \cup (IF n = Root THEN {} ELSE Subtree(n))
        /\ wrong' = wrong \cup none
-----------------------------------------------------------------------------
(* fdtgen_generate.                                                        *)

\* find_nodes_to_keep: the ancestors of listed nodes are listed too, in
\* postorder, and every listed node gets its offset.
Found == UNION {Chain(n) : n \in Listed \cap (Nodes \ {Root})}
Postorder(a, b) == a \in Subtree(b) \/ (a < b /\ b \notin Subtree(a))

FindNodesToKeep ==
    /\ phase = "open" /\ keeps + generates < MaxCalls
    /\ \E q \in Orders(Found \ Listed) :
          /\ \A i, j \in DOMAIN q : i < j => Postorder(q[i], q[j])
          /\ order' = order \o q
    /\ entry' = [x \in Listed \cup Found |->
                   IF x \notin Listed THEN New(x, "keep")
                   ELSE IF x \in Found THEN [entry[x] EXCEPT !.offset = x]
                   ELSE entry[x]]
    /\ it' = [pos |-> 0, more |-> order # <<>>]
    /\ phase' = "resolve" /\ generates' = generates + 1
    /\ alive' = Nodes /\ disabled' = {}
    /\ UNCHANGED <<tree, to_list, stack, keeps, history>>

\* A property of n that names t is still to be registered, by a call of
\* register_node_dependencies; keep_node_and_parents is to return through n.
Register(n, t) == [call |-> "register", node |-> n, arg |-> t]
Keep(n) == [call |-> "keep", node |-> n, arg |-> parent[n]]

\* register_node_dependencies returns at once for the root, and finds nothing
\* at an offset where there is no node.
RegisterCall(n) ==
    IF n \in Nodes \ {Root} THEN [i \in DOMAIN deps[n] |-> Register(n, deps[n][i])] ELSE <<>>

\* resolve_all_dependencies: HASH_ITER goes on to the entry it saw when it
\* reached the one before.  An offset that was never written may be anything.
ResolveEntry ==
    /\ phase = "resolve" /\ stack = <<>> /\ it.more
    /\ it' = [pos |-> it.pos + 1, more |-> it.pos + 2 <= Len(order)]
    /\ LET offset == entry[order[it.pos + 1]].offset
       IN  \E o \in IF offset = NoOffset THEN Nodes \cup {NoOffset} ELSE {offset} :
              stack' = RegisterCall(o)
    /\ UNCHANGED <<tree, table, to_list, phase, keeps, generates, alive, disabled, history>>

Top == Head(stack)
Working(call) == phase = "resolve" /\ stack # <<>> /\ Top.call = call
Recorded(n) == IF n \in DOMAIN to_list THEN to_list[n] ELSE {}
Record(n, ts) == [m \in DOMAIN to_list \cup {n} |->
                    IF m = n THEN Recorded(n) \cup ts ELSE to_list[m]]
Follow(t) == (IF t = Root THEN <<>> ELSE <<Keep(t)>>) \o RegisterCall(t) \o Tail(stack)

\* Mutant: a dependency is followed whether or not it was seen before, and a
\* cycle of them runs out of stack.
MutRegisterDependency ==
    /\ Working("register")
    /\ to_list' = Record(Top.node, {Top.arg})
    /\ stack' = IF Len(stack) > 4 * N THEN stack
                ELSE IF Top.arg = Top.node THEN Tail(stack) ELSE Follow(Top.arg)
    /\ UNCHANGED <<tree, table, it, phase, keeps, generates, alive, disabled, history>>

\* register_node_dependency and register_single_dependency: unless the
\* property names the node itself or what is recorded, its target and the
\* ancestors of that are kept, and then its dependencies registered.
RegisterDependency ==
    /\ Working("register")
    /\ LET new == Top.arg # Top.node /\ Top.arg \notin Recorded(Top.node)
       IN  /\ to_list' = Record(Top.node, IF new THEN {Top.arg} ELSE {})
           /\ stack' = IF new THEN Follow(Top.arg) ELSE Tail(stack)
    /\ UNCHANGED <<tree, table, it, phase, keeps, generates, alive, disabled, history>>

\* keep_node_and_parents returns through n: n is listed (with the offset of its
\* parent), and its dependencies are registered unless some are recorded.
Return(calls) ==
    LET n == Top.node
        up == IF Top.arg = Root THEN <<>> ELSE <<Keep(Top.arg)>>
    IN  /\ order' = IF n \in Listed THEN order ELSE Append(order, n)
        /\ entry' = IF n \in Listed THEN entry
                    ELSE [x \in Listed \cup {n} |->
                            IF x = n THEN New(Top.arg, "keep") ELSE entry[x]]
        /\ stack' = calls \o up \o Tail(stack)
        /\ UNCHANGED <<tree, to_list, it, phase, keeps, generates, alive, disabled, history>>

\* Mutant: the dependencies of the ancestors of a dependency are left out.
MutKeepNodeAndParents == Working("keep") /\ Return(<<>>)

KeepNodeAndParents ==
    /\ Working("keep")
    /\ Return(IF Top.node \in DOMAIN to_list THEN <<>> ELSE RegisterCall(Top.node))
-----------------------------------------------------------------------------
(* trim_tree.                                                              *)

Trim(n, after) == [call |-> "trim", node |-> n, arg |-> after]

\* The root is listed (again, if it was), and the walk starts there.
TrimStart ==
    /\ phase = "resolve" /\ stack = <<>> /\ ~it.more
    /\ phase' = "trim"
    /\ stack' = <<Trim(Root, Root)>>
    /\ order' = Append(order, Root)
    /\ entry' = [x \in Listed \cup {Root} |->
                   IF x \in Listed THEN entry[x] ELSE [New(Root, "keep") EXCEPT !.cnt = 1]]
    /\ UNCHANGED <<tree, to_list, it, keeps, generates, alive, disabled, history>>

Later == {c \in Children(Top.node) \cap alive : c > Top.arg}

Walk(n) == IF Children(n) = {} THEN <<>> ELSE <<Trim(n, Root)>>

\* Mutant: after a deletion the walk goes on from the next child of the old tree.
MutTrimChild ==
    /\ phase = "trim" /\ stack # <<>> /\ Later # {}
    /\ LET c == Min(Later)
           onward == <<Trim(Top.node, c)>> \o Tail(stack)
       IN  IF c \notin Listed
           THEN /\ alive' = alive \ Subtree(c)
                /\ stack' = <<Trim(Top.node, Min({c + 1, N - 1}))>> \o Tail(stack)
                /\ UNCHANGED <<entry, disabled>>
           ELSE /\ entry' = [entry EXCEPT ![c].cnt = @ + 1]
                /\ IF entry[c].flag = "disable" /\ entry[c].cnt = 0
                   THEN /\ disabled' = disabled \cup {c}
                        /\ stack' = <<Trim(Top.node, Root)>> \o Tail(stack)
                   ELSE stack' = Walk(c) \o onward /\ UNCHANGED disabled
                /\ UNCHANGED alive
    /\ UNCHANGED <<tree, order, to_list, it, phase, keeps, generates, history>>

\* The next child of the node being walked.  A change to the tree (a deleted
\* node, a status property) invalidates offsets: the walk of that node starts
\* again.
TrimChild ==
    /\ phase = "trim" /\ stack # <<>> /\ Later # {}
    /\ LET c == Min(Later)
           again == <<Trim(Top.node, Root)>> \o Tail(stack)
           onward == <<Trim(Top.node, c)>> \o Tail(stack)
       IN  IF c \notin Listed
           THEN /\ alive' = alive \ Subtree(c)
                /\ stack' = again
                /\ UNCHANGED <<entry, disabled>>
           ELSE /\ entry' = [entry EXCEPT ![c].cnt = @ + 1]
                /\ IF entry[c].flag = "disable" /\ entry[c].cnt = 0
                   THEN disabled' = disabled \cup {c} /\ stack' = again
                   ELSE stack' = Walk(c) \o onward /\ UNCHANGED disabled
                /\ UNCHANGED alive
    /\ UNCHANGED <<tree, order, to_list, it, phase, keeps, generates, history>>

TrimReturn ==
    /\ phase = "trim" /\ stack # <<>> /\ Later = {}
    /\ stack' = Tail(stack)
    /\ UNCHANGED <<tree, table, to_list, it, phase, keeps, generates, alive, disabled, history>>

\* fdtgen_generate returns.  The context may be used again.
GenerateEnd ==
    /\ phase = "trim" /\ stack = <<>>
    /\ phase' = "open"
    /\ UNCHANGED <<tree, table, to_list, it, stack, keeps, generates,
                   alive, disabled, history>>

\* fdtgen_free_context: clean_up reports the names that were never visited.
FreeContext ==
    /\ phase = "open"
    /\ phase' = "freed"
    /\ reported' = {x \in Listed : entry[x].cnt = 0}
    /\ order' = <<>> /\ entry' = <<>> /\ to_list' = <<>>
    /\ UNCHANGED <<tree, it, stack, keeps, generates, alive, disabled, asked, wrong>>

Generate ==
    \/ ResolveEntry \/ RegisterDependency \/ KeepNodeAndParents
    \/ TrimStart \/ TrimChild \/ TrimReturn \/ GenerateEnd

Next ==
    \/ \E flag \in Flags :
          \/ \E name \in Wanted : KeepNode(name, flag)
          \/ \E n \in Whole : KeepSubtree(n, flag)
    \/ FindNodesToKeep
    \/ Generate
    \/ FreeContext

\* A call of fdtgen_generate runs to its end.
Spec == Init /\ [][Next]_vars /\ WF_vars(Generate)
-----------------------------------------------------------------------------
(* Properties.                                                             *)

\* The state has its types.
TypeOK ==
    /\ order \in Seq(Names) /\ DOMAIN entry = Listed
    /\ \A x \in Listed : entry[x] \in [offset : Nodes \cup {NoOffset}, flag : Flags, cnt : Nat]
    /\ DOMAIN to_list \subseteq Nodes \ {Root}
    /\ \A n \in DOMAIN to_list : to_list[n] \subseteq Nodes
    /\ it \in [pos : Nat, more : BOOLEAN]
    /\ stack \in Seq([call : {"register", "keep", "trim"}, node : Nodes, arg : Nodes])
    /\ phase \in {"open", "resolve", "trim", "freed"}
    /\ alive \subseteq Nodes /\ disabled \subseteq Nodes
    /\ asked \subseteq Nodes /\ reported \subseteq Names

\* What a set of nodes needs: their ancestors, and whatever any of these names
\* in a property.  The root stays anyway and its own properties are not read.
Complete(s) == \A n \in s : Chain(n) \cup (ToSet(deps[n]) \ {Root}) \subseteq s
Needs(nodes) ==
    LET closed == {s \in SUBSET (Nodes \ {Root}) : nodes \ {Root} \subseteq s /\ Complete(s)}
    IN  CHOOSE s \in closed : \A u \in closed : s \subseteq u

\* A name that no node has leaves an offset unwritten, and whatever is there
\* is resolved.
Unwritten == \E x \in Listed : entry[x].offset = NoOffset

\* resolve_all_dependencies lists all that is needed, though it iterates over
\* the table it adds to and skips what it has recorded; it lists nothing else,
\* unless an unwritten offset was resolved.
ListsTheNeeds ==
    phase = "trim" =>
        LET kept == (Listed \cap Nodes) \ {Root}
            needed == Needs(asked)
        IN  /\ needed \subseteq kept
            /\ Unwritten \/ kept = needed
            /\ Complete(kept)

Finished == phase = "trim" /\ stack = <<>>

\* trim_tree, which starts over after every change to the tree, leaves the
\* listed nodes and nothing else.
CutExactly == Finished => alive = (Listed \cap Nodes) \cup {Root}

\* What it disables was asked for; the first generation of a context disables
\* all of it.  (The visit count is never reset: a node that was in a generated
\* tree is not disabled in the next one.)
DisablesAsAsked ==
    LET flagged == {n \in Listed \cap Nodes : n # Root /\ entry[n].flag = "disable"}
    IN  phase = "trim" => /\ disabled \subseteq flagged \cap alive
                          /\ Finished /\ generates = 1 => disabled = flagged

\* Of the nodes, clean_up reports only ones that were named after the last
\* generation.  (The root has no visits.)
ReportsMissing ==
    phase = "freed" /\ generates > 0 =>
        /\ \A x \in reported : x \in Nodes \ {Root} => x \in asked \ alive
        /\ (asked \ {Root} \subseteq alive) => reported \cap Nodes \subseteq {Root}

\* It reports every path that no node has, whatever was generated before and
\* however the tables grew and the visits were counted.
ReportsWrong == phase = "freed" => reported \ Nodes = wrong

\* A generation leaves the tree that was asked for: cut to the listed nodes,
\* with the right ones disabled, and the names that were not met reported.
GeneratesRight ==
    TypeOK /\ CutExactly /\ DisablesAsAsked /\ ReportsMissing /\ ReportsWrong

\* A generation ends, whatever cycles the dependencies have.
GenerateTerminates ==
    phase \in {"resolve", "trim"} ~> phase = "open"
=============================================================================
