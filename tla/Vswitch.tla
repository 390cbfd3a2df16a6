------------------------------ MODULE Vswitch -------------------------------
(***************************************************************************)
(* libvswitch: a table of VSWITCH_NUM_NODES routes, from the MAC address   *)
(* of a node to the virtqueues that lead to it.  A free slot is one with   *)
(* the null address, and n_connected counts the connect calls.             *)
(***************************************************************************)
EXTENDS Integers, Sequences, FiniteSets

CONSTANTS
    NumNodes,   \* VSWITCH_NUM_NODES
    Macs,       \* addresses that clients connect
    Lookups,    \* addresses that are looked up
    NullMac,    \* null_macaddr
    Queues,     \* pairs of a send and a receive virtqueue
    NoQueue     \* null pointers

ASSUME NodesAssumption == NumNodes \in Nat \ {0}
ASSUME QueuesAssumption == NoQueue \notin Queues

VARIABLES
    nConnected,  \* n_connected
    nodes,       \* nodes[]: the address and the virtqueues of each slot
    routes       \* history: the connects that returned 0, in order

switchVars == <<nConnected, nodes, routes>>

Slots == 0..(NumNodes - 1)
FreeNode == [addr |-> NullMac, queue |-> NoQueue]

\* vswitch_init
SwitchInit ==
    /\ nConnected = 0
    /\ nodes = [i \in Slots |-> FreeNode]
    /\ routes = <<>>

\* vswitch_get_destnode_index_by_macaddr: the first slot with an address, -1 if
\* there is none
FirstWith(mac) ==
    LET hits == {i \in Slots : nodes[i].addr = mac}
    IN  IF hits = {} THEN -1 ELSE CHOOSE i \in hits : \A j \in hits : i <= j

\* vswitch_find_free_slot, the same loop for the null address
FindFreeSlot == FirstWith(NullMac)

\* Mutant: a later connect replaces the route of the same address.
MutConnect(mac, queue) ==
    LET slot == IF FirstWith(mac) >= 0 THEN FirstWith(mac) ELSE FindFreeSlot
    IN  /\ nConnected < NumNodes
        /\ slot >= 0
        /\ nodes' = [nodes EXCEPT ![slot] = [addr |-> mac, queue |-> queue]]
        /\ nConnected' = nConnected + 1
        /\ routes' = Append(routes, [addr |-> mac, queue |-> queue])

Connect(mac, queue) ==
    LET slot == FindFreeSlot
    IN  /\ nConnected < NumNodes
        /\ slot >= 0
        /\ nodes' = [nodes EXCEPT ![slot] = [addr |-> mac, queue |-> queue]]
        /\ nConnected' = nConnected + 1
        /\ routes' = Append(routes, [addr |-> mac, queue |-> queue])

\* vswitch_connect returns -1 and changes nothing.
ConnectFails ==
    /\ nConnected = NumNodes \/ FindFreeSlot < 0
    /\ UNCHANGED switchVars

SwitchNext ==
    \/ \E mac \in Macs, queue \in Queues : Connect(mac, queue)
    \/ ConnectFails

SwitchSpec == SwitchInit /\ [][SwitchNext]_switchVars
-----------------------------------------------------------------------------
\* vswitch_get_destnode_by_index, for an index in range: NULL is FreeNode
DestnodeByIndex(i) == IF nodes[i].addr = NullMac THEN FreeNode ELSE nodes[i]

\* vswitch_get_destnode_by_macaddr
DestnodeByMacaddr(mac) ==
    IF FirstWith(mac) < 0 THEN FreeNode ELSE DestnodeByIndex(FirstWith(mac))

\* The first connect of an address
FirstConnect(mac, i) ==
    /\ i \in DOMAIN routes /\ routes[i].addr = mac
    /\ \A j \in 1..(i - 1) : routes[j].addr # mac

Registered(mac) == \E i \in DOMAIN routes : routes[i].addr = mac

SwitchTypeOK ==
    /\ nConnected \in 0..NumNodes
    /\ nodes \in [Slots -> [addr : Macs \cup {NullMac}, queue : Queues \cup {NoQueue}]]
    /\ routes \in Seq([addr : Macs, queue : Queues])

(* The first connect of an address wins and keeps its route: it is never   *)
(* lost, moved or taken over, however many nodes connect after it; an      *)
(* address nobody connected, and the null address always, leads nowhere.   *)
FirstRouteWins ==
    \A mac \in Lookups :
       IF mac # NullMac /\ Registered(mac)
       THEN \E i \in DOMAIN routes :
               FirstConnect(mac, i) /\ DestnodeByMacaddr(mac) = routes[i]
       ELSE DestnodeByMacaddr(mac) = FreeNode

(* The assertion at the head of vswitch_connect, and why the search for a  *)
(* slot that follows it cannot fail: n_connected is at least the number of *)
(* occupied slots (exactly that, unless a node connects the null address). *)
SlotsCounted ==
    LET occupied == Cardinality({i \in Slots : nodes[i].addr # NullMac})
    IN  /\ occupied <= nConnected
        /\ NullMac \notin Macs => occupied = nConnected

(* The table routes by the first connect, and its count covers its slots.  *)
RoutesSound == SwitchTypeOK /\ FirstRouteWins /\ SlotsCounted
=============================================================================
