-------------------------------- MODULE Usb ---------------------------------
(***************************************************************************)
(* libusbdrivers: the devices of a bus that is plugged while it runs.      *)
(* usb.c keeps the list of devices and their addresses, drivers/usbhub.c   *)
(* follows the ports of the hubs, ehci/hub.c gives the controller's own    *)
(* ports the shape of a hub, and interrupt endpoints are on the periodic   *)
(* schedule of EhciPeriodic.                                               *)
(*                                                                         *)
(* One thread runs ehci_handle_irq and, in it, everything here but the     *)
(* binding of a class driver.  Between any two of its transactions the     *)
(* user may plug or unplug a device.  A blocking transaction that fails    *)
(* leaves its descriptor in the queue: the next one on that endpoint waits *)
(* for it forever (see EhciAsync).  Hubs are plugged into the root hub.    *)
(***************************************************************************)
EXTENDS EhciPeriodic, FiniteSets, FiniteSetsExt

CONSTANTS
    Things,      \* what can be plugged in
    RootSockets, \* the ports of the root hub
    HubSockets,  \* a function from the hubs among Things to their ports
    Fits,        \* pairs of a thing and a socket the user plugs it into
    Interval,    \* the rate of each thing's interrupt endpoint
    Empty,       \* nothing is plugged in
    MaxDevs,     \* structures usb_dev that are allocated
    NumDevices,  \* NUM_DEVICES
    MaxPlugs,    \* times something is plugged in or unplugged
    MaxFaults    \* transactions that fail for another reason

Hubs == DOMAIN HubSockets
Sockets == RootSockets \cup UNION {HubSockets[h] : h \in Hubs}

ASSUME UsbAssumption ==
    /\ Hubs \subseteq Things /\ Empty \notin Things /\ NoQh \notin Nat
    /\ Sockets \subseteq Nat
    /\ \A h \in Hubs : HubSockets[h] \cap RootSockets = {}
    /\ \A g, h \in Hubs : g # h => HubSockets[g] \cap HubSockets[h] = {}
    /\ Interval \in [Things -> Nat \ {0}]
    /\ NumDevices \in Nat \ 0..2
    /\ Fits \subseteq Things \X Sockets
    /\ \A f \in Fits : f[1] \in Hubs => f[2] \in RootSockets
ASSUME UsbBounds ==
    MaxDevs \in Nat \ {0} /\ MaxPlugs \in Nat /\ MaxFaults \in Nat

VARIABLES
    \* The bus.
    plug,      \* what is plugged into each socket
    chg,       \* sockets whose connection change bit is set
    enC,       \* sockets whose enable change bit is set
    bus,       \* the address each thing answers, Off before a reset
    plugs, faults,
    \* The controller.
    intr,      \* USBSTS: "INT" and "PCD"
    td,        \* each hub's interrupt transfer: "none", "active" or "done"
    intbm,     \* the ports it has reported
    \* The driver.
    irq,       \* the thread in ehci_handle_irq
    dev,       \* the structures usb_dev
    port,      \* port[].udev of each hub
    devlist, addrbm, nextAddr,
    sched,     \* the periodic schedule
    halted,    \* devices with a failed transaction in their control queue
    \* History.
    marks      \* what has gone wrong

world == <<plug, chg, enC, bus, plugs>>
hc == <<intr, td, intbm>>
core == <<dev, port, devlist, addrbm, nextAddr>>
vars == <<world, faults, hc, irq, core, sched, halted, marks>>

Ids == 1..MaxDevs
Root == 0
Null == -1
Off == -1

Idle == [at |-> "idle", sts |-> {}, cur |-> NoQh, hub |-> Root, bm |-> {},
         port |-> Null, conn |-> FALSE, en |-> FALSE, new |-> Null]
NoDev == [st |-> "none", thing |-> Empty, hub |-> Root, socket |-> Null,
          addr |-> 0, data |-> "none"]

IsHub(t) == t \in Hubs
Owned(h) == IF h = Root THEN RootSockets ELSE HubSockets[dev[h].thing]
Below(t) == IF IsHub(t) THEN HubSockets[t] ELSE {}
Rate == [u \in Ids |-> IF dev[u].thing = Empty THEN 1 ELSE Interval[dev[u].thing]]
Answering(addr) == {t \in Things : bus[t] = addr}

(* usb_init has bound the root hub at address 1.  A hub is plugged in and  *)
(* bound, as the structure 1, at the last address: devices before it have  *)
(* come and gone.                                                          *)
InitBus(t, s) ==
    /\ plug = [r \in Sockets |-> IF r = s THEN t ELSE Empty]
    /\ bus = [v \in Things |-> IF v = t THEN NumDevices - 1 ELSE Off]
    /\ td = [v \in Ids |-> IF v = 1 THEN "active" ELSE "none"]
    /\ dev = [v \in Ids |-> IF v # 1 THEN NoDev ELSE
                 [st |-> "live", thing |-> t, hub |-> Root, socket |-> s,
                  addr |-> NumDevices - 1, data |-> "hub"]]
    /\ port = [p \in Ids \cup {Root} |-> [r \in Sockets |->
                 IF p = Root /\ r = s THEN 1 ELSE Null]]
    /\ sched = AddQhn(EmptySchedule, 1, [v \in {1} |-> Interval[t]])
Init ==
    /\ \E f \in Fits : IsHub(f[1]) /\ InitBus(f[1], f[2])
    /\ devlist = {1} /\ addrbm = {0, 1, NumDevices - 1} /\ nextAddr = 1
    /\ chg = {} /\ enC = {} /\ plugs = 0 /\ faults = 0
    /\ intr = {} /\ intbm = [u \in Ids |-> {}] /\ irq = Idle
    /\ halted = {} /\ marks = {}
-----------------------------------------------------------------------------
\* The user and the hardware (external).

\* The socket has power and a way to the controller.
Wired(s) == s \in RootSockets \/ \E r \in RootSockets : s \in Below(plug[r])

Raise(s) ==
    /\ chg' = chg \cup {s}
    /\ intr' = IF s \in RootSockets THEN intr \cup {"PCD"} ELSE intr

\* A hub that has no power yet reports its ports when it gets it.
PlugIn(t, s) ==
    /\ plugs < MaxPlugs /\ plugs' = plugs + 1
    /\ plug[s] = Empty /\ \A r \in Sockets : plug[r] # t
    /\ plug' = [plug EXCEPT ![s] = t]
    /\ IF Wired(s) THEN Raise(s) ELSE UNCHANGED <<chg, intr>>
    /\ UNCHANGED <<enC, bus, faults, td, intbm, irq, core, sched, halted, marks>>

\* What hangs on a hub goes with it.
Unplug(s) ==
    LET t == plug[s]
        lost == {t} \cup {plug[r] : r \in Below(t)}
    IN  /\ plugs < MaxPlugs /\ plugs' = plugs + 1
        /\ t # Empty
        /\ plug' = [plug EXCEPT ![s] = Empty]
        /\ bus' = [u \in Things |-> IF u \in lost THEN Off ELSE bus[u]]
        /\ chg' = IF Wired(s) THEN (chg \ Below(t)) \cup {s} ELSE chg
        /\ intr' = IF s \in RootSockets THEN intr \cup {"PCD"} ELSE intr
        /\ UNCHANGED <<enC, faults, td, intbm, irq, core, sched, halted, marks>>

\* A hub's interrupt endpoint is visited while a port has a change to report.
HubReports(u) ==
    /\ td[u] = "active" /\ IsHub(dev[u].thing)
    /\ \E i \in 1..Frames : u \in Visited(sched, i)
    /\ \E t \in Answering(dev[u].addr) :
          /\ Below(t) \cap chg # {}
          /\ intbm' = [intbm EXCEPT ![u] = Below(t) \cap chg]
    /\ td' = [td EXCEPT ![u] = "done"]
    /\ intr' = intr \cup {"INT"}
    /\ UNCHANGED <<world, faults, irq, core, sched, halted, marks>>

(* The outcome of a blocking transaction, and the marks it leaves.  Two    *)
(* things that answer one address may or may not get through.              *)
Xact(addr, ok, m) ==
    \/ /\ ok = (Answering(addr) # {}) /\ m = {}
       /\ UNCHANGED faults
    \/ /\ Cardinality(Answering(addr)) > 1 /\ ~ok /\ m = {}
       /\ UNCHANGED faults
    \/ /\ Answering(addr) # {} /\ ~ok /\ m = {"fault"}
       /\ faults < MaxFaults /\ faults' = faults + 1

\* usbdev_schedule_xact on the control endpoint of u, which may be the root's.
Control(u, ok, m) ==
    /\ u \notin halted
    /\ IF u = Root THEN ok /\ m = {} /\ UNCHANGED faults
       ELSE Xact(dev[u].addr, ok, m)
    /\ halted' = IF ok THEN halted ELSE halted \cup {u}
Outcomes == BOOLEAN \X SUBSET {"fault"}
-----------------------------------------------------------------------------
\* ehci_handle_irq reads the status and starts with the periodic schedule.
HandleIrq ==
    /\ irq.at = "idle" /\ intr # {}
    /\ irq' = [Idle EXCEPT !.sts = intr,
          !.at = IF "INT" \in intr THEN "walk" ELSE "root",
          !.cur = IF sched.list = <<>> THEN NoQh ELSE Head(sched.list)]
    /\ UNCHANGED <<world, faults, hc, core, sched, halted, marks>>

\* hub_irq_handler: the ports of the bit map, one after the other.
StartHub(h, bm) ==
    [irq EXCEPT !.hub = h, !.bm = bm, !.conn = FALSE, !.en = FALSE, !.new = Null,
                !.at = IF bm = {} THEN "resched" ELSE "status",
                !.port = IF bm = {} THEN Null ELSE Min(bm)]

(* ehci_periodic_complete: one queue head of the walk.  A transfer that is *)
(* done is taken off it before its callback runs.                          *)
PeriodicComplete ==
    /\ irq.at = "walk"
    /\ IF irq.cur = NoQh
       THEN /\ irq' = [irq EXCEPT !.at = IF "PCD" \in irq.sts THEN "root"
                                        ELSE "ack"]
            /\ UNCHANGED <<td, intbm>>
       ELSE IF td[irq.cur] = "done"
       THEN /\ irq' = StartHub(irq.cur, intbm[irq.cur])
            /\ td' = [td EXCEPT ![irq.cur] = "none"]
            /\ intbm' = [intbm EXCEPT ![irq.cur] = {}]
       ELSE /\ irq' = [irq EXCEPT !.cur = Follower(sched.list, irq.cur)]
            /\ UNCHANGED <<td, intbm>>
    /\ UNCHANGED <<world, faults, intr, core, sched, halted, marks>>

\* _root_irq: the ports with a change.
RootIrq ==
    /\ irq.at = "root"
    /\ irq' = IF "PCD" \in irq.sts
              THEN StartHub(Root, (chg \cup enC) \cap RootSockets)
              ELSE [irq EXCEPT !.at = "ack"]
    /\ UNCHANGED <<world, faults, hc, core, sched, halted, marks>>

(* The next port, or the interrupt transfer is queued again and the walk   *)
(* goes on from where it was.                                              *)
NextPort ==
    /\ irq.at = "next"
    /\ irq' = StartHub(irq.hub, irq.bm \ {irq.port})
    /\ UNCHANGED <<world, faults, hc, core, sched, halted, marks>>

Reschedule ==
    /\ irq.at = "resched"
    /\ IF irq.hub = Root
       THEN irq' = [irq EXCEPT !.at = "ack"] /\ UNCHANGED td
       ELSE /\ td' = [td EXCEPT ![irq.hub] = "active"]
            /\ irq' = [irq EXCEPT !.at = "walk",
                                  !.cur = Follower(sched.list, irq.cur)]
    /\ UNCHANGED <<world, faults, intr, intbm, core, sched, halted, marks>>

\* Something the status bits stand for is still to be done.
Outstanding(sts) ==
    \/ "PCD" \in sts /\ chg \cap RootSockets # {}
    \/ "INT" \in sts /\ \E u \in Ids : td[u] = "done" /\ dev[u].st = "live"

\* Mutant: every bit is cleared, the ones that were not read too.
MutAcknowledge ==
    /\ irq.at = "ack"
    /\ intr' = {}
    /\ irq' = Idle
    /\ marks' = marks \cup (IF Outstanding(irq.sts) THEN {"missed"} ELSE {})
    /\ UNCHANGED <<world, faults, td, intbm, core, sched, halted>>

\* Write to clear what was read, a bit raised again since then too.
Acknowledge ==
    /\ irq.at = "ack"
    /\ intr' = intr \ irq.sts
    /\ irq' = Idle
    /\ marks' = marks \cup (IF Outstanding(irq.sts) THEN {"missed"} ELSE {})
    /\ UNCHANGED <<world, faults, td, intbm, core, sched, halted>>
-----------------------------------------------------------------------------
\* A step of _handle_port_change that makes one transaction with the hub.
HubStep(step, ok, m) == irq.at = step /\ Control(irq.hub, ok, m)

(* The status of the port; when the transaction fails, what the buffer     *)
(* held.                                                                   *)
PortStatus ==
    \E o \in Outcomes, conn, change, en \in BOOLEAN :
        /\ HubStep("status", o[1], o[2])
        /\ o[1] => /\ conn = (plug[irq.port] # Empty)
                   /\ change = (irq.port \in chg)
                   /\ en = (irq.port \in enC)
        /\ irq' = [irq EXCEPT !.conn = conn, !.en = en,
                              !.at = IF change THEN "clear" ELSE "enable"]
        /\ marks' = marks \cup o[2]
        /\ UNCHANGED <<world, hc, core, sched>>

(* Clear the connection change.  What happened to the port since its       *)
(* status was read goes with it.                                           *)
ClearConnection ==
    \E o \in Outcomes :
        /\ HubStep("clear", o[1], o[2])
        /\ chg' = IF o[1] THEN chg \ {irq.port} ELSE chg
        /\ irq' = [irq EXCEPT !.at = IF irq.conn THEN "reset" ELSE "suspend"]
        /\ marks' = marks \cup o[2] \cup
               (IF irq.conn # (plug[irq.port] # Empty) THEN {"raced"} ELSE {})
        /\ UNCHANGED <<plug, enC, bus, plugs, hc, core, sched>>

\* A port reset: what is there answers address 0.
ResetPort(ok) ==
    /\ bus' = [t \in Things |-> IF ok /\ t = plug[irq.port] THEN 0 ELSE bus[t]]
    /\ \/ UNCHANGED enC
       \/ /\ ok /\ irq.port \in RootSockets /\ plug[irq.port] # Empty
          /\ enC' = enC \cup {irq.port}
    /\ UNCHANGED <<plug, chg, plugs>>

\* The port is reset for a new device, or again after one has failed.
Reset ==
    \E o \in Outcomes, step \in {"reset", "again"} :
        /\ HubStep(step, o[1], o[2])
        /\ ResetPort(o[1])
        /\ irq' = [irq EXCEPT !.at = IF step = "reset" THEN "settle"
                                     ELSE "enable"]
        /\ marks' = marks \cup o[2] \cup
               (IF step = "again" /\ plug[irq.port] # Empty THEN {"stray"}
                ELSE {})
        /\ UNCHANGED <<hc, core, sched>>

\* The reset is over, and its change bit is cleared.
Settle ==
    \E o \in Outcomes :
        /\ HubStep("settle", o[1], o[2])
        /\ irq' = [irq EXCEPT !.at = "desc8"]
        /\ marks' = marks \cup o[2]
        /\ UNCHANGED <<world, hc, core, sched>>

(* "Port enable": a change of the enable bit clears the connection change, *)
(* whatever has set it since.  Other changes are cleared behind it: see    *)
(* Another.                                                                *)
PortEnable ==
    /\ irq.at = "enable"
    /\ irq' = [irq EXCEPT !.at = "next"]
    /\ IF irq.en
       THEN \E o \in Outcomes :
                /\ Control(irq.hub, o[1], o[2])
                /\ chg' = IF o[1] THEN chg \ {irq.port} ELSE chg
                /\ marks' = marks \cup o[2] \cup
                       (IF irq.port \in chg THEN {"wiped"} ELSE {})
       ELSE UNCHANGED <<chg, faults, halted, marks>>
    /\ UNCHANGED <<plug, enC, bus, plugs, hc, core, sched>>
-----------------------------------------------------------------------------
\* Free the structure, and leave the list as it is.
Free(d) == [NoDev EXCEPT !.st = "freed", !.thing = d.thing]
Freed(u) == dev' = [dev EXCEPT ![u] = Free(@)]

(* usb_new_device_with_host: a structure with address 0, and the first     *)
(* bytes of the descriptor.                                                *)
NewDevice ==
    /\ irq.at = "desc8"
    /\ \E u \in Ids, o \in Outcomes :
        /\ dev[u].st = "none" /\ \A v \in 1..(u - 1) : dev[v].st # "none"
        /\ Xact(0, o[1], o[2])
        /\ dev' = [dev EXCEPT ![u] = [NoDev EXCEPT
                      !.st = IF o[1] THEN "live" ELSE "freed",
                      !.hub = irq.hub, !.socket = irq.port]]
        /\ irq' = [irq EXCEPT !.new = u, !.at = IF o[1] THEN "address"
                                                ELSE "again"]
        /\ marks' = marks \cup o[2]
    /\ UNCHANGED <<world, hc, port, devlist, addrbm, nextAddr, sched, halted>>

(* The addresses devlist_insert may find, from where the last search       *)
(* stopped.  Past the last one it shifts by the width of the bit map,      *)
(* which gives a free bit on some machines and bit 0 on others.            *)
FreeFrom(i) == {a \in i..(NumDevices - 1) : a \notin addrbm}
SearchAddr ==
    CASE nextAddr >= NumDevices -> {nextAddr}
      [] FreeFrom(nextAddr) # {} -> {Min(FreeFrom(nextAddr))}
      [] OTHER -> {NumDevices, Min(FreeFrom(1))}

DevlistInsert(u, a) ==
    /\ devlist' = devlist \cup {u}
    /\ addrbm' = IF a < NumDevices THEN addrbm \cup {a} ELSE addrbm
    /\ nextAddr' = IF a + 1 = NumDevices THEN 1 ELSE a + 1

\* An address is taken and sent; a device that fails from here on stays listed.
SetAddress ==
    /\ irq.at = "address"
    /\ IF addrbm = 0..(NumDevices - 1)
       THEN /\ Freed(irq.new)
            /\ irq' = [irq EXCEPT !.at = "again"]
            /\ UNCHANGED <<bus, faults, devlist, addrbm, nextAddr, marks>>
       ELSE \E a \in SearchAddr, o \in Outcomes :
            /\ DevlistInsert(irq.new, a)
            /\ Xact(0, o[1], o[2])
            /\ IF o[1] THEN dev' = [dev EXCEPT ![irq.new].addr = a]
               ELSE Freed(irq.new)
            /\ bus' = [t \in Things |-> IF o[1] /\ bus[t] = 0 THEN a ELSE bus[t]]
            /\ irq' = [irq EXCEPT !.at = IF o[1] THEN "desc" ELSE "again"]
            /\ marks' = marks \cup o[2] \cup (IF o[1] THEN {} ELSE {"listed"})
                              \cup (IF a >= NumDevices THEN {"wild"} ELSE {})
    /\ UNCHANGED <<plug, chg, enC, plugs, hc, port, sched, halted>>

\* The whole descriptor, from which the class is known.
GetDescriptor ==
    /\ irq.at = "desc"
    /\ \E o \in Outcomes :
        /\ Xact(dev[irq.new].addr, o[1], o[2])
        /\ IF o[1] THEN \E t \in Answering(dev[irq.new].addr) :
                            dev' = [dev EXCEPT ![irq.new].thing = t]
           ELSE Freed(irq.new)
        /\ irq' = [irq EXCEPT !.at = IF o[1] THEN "strings" ELSE "again"]
        /\ marks' = marks \cup o[2] \cup (IF o[1] THEN {} ELSE {"listed"})
    /\ UNCHANGED <<world, hc, port, devlist, addrbm, nextAddr, sched, halted>>

(* The strings are fetched for the log, with up to four transactions       *)
(* (Another) whose outcome is ignored.  Then the port gets the device,     *)
(* whatever it had, and a hub is bound.                                    *)
Strings ==
    /\ irq.at = "strings"
    /\ port' = [port EXCEPT ![irq.hub][irq.port] = irq.new]
    /\ irq' = [irq EXCEPT !.at = IF IsHub(dev[irq.new].thing) THEN "bind"
                                 ELSE "enable"]
    /\ marks' = marks \cup
           (IF port[irq.hub][irq.port] # Null THEN {"replug"} ELSE {})
    /\ UNCHANGED <<world, faults, hc, dev, devlist, addrbm, nextAddr, sched, halted>>

(* usb_hub_driver_bind: the hub's descriptor, then its configuration.  Any *)
(* transaction that fails ends it and frees the hub's structure, which     *)
(* dev_data still points to; one that does not leaves all as it is.        *)
BindHub ==
    \E o \in Outcomes, step \in {"bind", "config"} :
        /\ irq.at = step
        /\ Control(irq.new, o[1], o[2])
        /\ dev' = [dev EXCEPT ![irq.new].data = IF o[1] THEN "hub"
                                                ELSE "dangling"]
        /\ irq' = [irq EXCEPT !.at = IF ~o[1] THEN "enable"
                                     ELSE IF step = "bind" THEN "config"
                                     ELSE "power"]
        /\ marks' = marks \cup o[2] \cup (IF o[1] THEN {} ELSE {"unbound"})
        /\ UNCHANGED <<world, hc, port, devlist, addrbm, nextAddr, sched>>

MarkSort(s) == IF Sorted(s.list, Rate) THEN {} ELSE {"unsorted"}

\* The last port gets power, and the interrupt transfer is scheduled: only now
\* the hub can report on any of its ports.
PowerPorts ==
    /\ irq.at = "power"
    /\ sched' = AddQhn(sched, irq.new, Rate)
    /\ \E o \in Outcomes :
        /\ Control(irq.new, o[1], o[2])
        /\ chg' = IF o[1] THEN chg \cup {s \in Owned(irq.new) : plug[s] # Empty}
                  ELSE chg
        /\ marks' = marks \cup o[2] \cup MarkSort(sched')
    /\ td' = [td EXCEPT ![irq.new] = "active"]
    /\ irq' = [irq EXCEPT !.at = "enable"]
    /\ UNCHANGED <<plug, enC, bus, plugs, intr, intbm, core>>

\* A class driver, in the client, takes a device and schedules its endpoint.
BindDriver(u) ==
    /\ u \in devlist /\ dev[u].st = "live" /\ dev[u].addr # 0
    /\ dev[u].thing # Empty /\ ~IsHub(dev[u].thing)
    /\ u \notin ToSet(sched.list) /\ td[u] = "none"
    /\ sched' = AddQhn(sched, u, Rate)
    /\ td' = [td EXCEPT ![u] = "active"]
    /\ marks' = marks \cup MarkSort(sched')
    /\ UNCHANGED <<world, faults, intr, intbm, irq, core, halted>>
-----------------------------------------------------------------------------
\* The devices a hub's structure has on its ports.
Children(u) ==
    IF dev[u].data = "hub" THEN {port[u][s] : s \in Sockets} \ {Null} ELSE {}

\* usbdev_disconnect of u takes the devices behind it along.
Gone(u) ==
    LET Closed(us) == u \in us /\ \A v \in us : Children(v) \subseteq us
    IN  {v \in Ids : \A us \in SUBSET Ids : Closed(us) => v \in us}

\* The schedule without the queue heads of some devices, the last ones first:
\* those behind a hub came after it.
Cancelled(s, us) ==
    LET del[n \in 0..MaxDevs] ==
            IF n = 0 THEN s
            ELSE LET u == MaxDevs + 1 - n
                     r == del[n - 1]
                 IN  IF u \in us /\ u \in ToSet(r.list) THEN DelQhn(r, u, Rate) ELSE r
    IN  del[MaxDevs]

\* Mutant: the address stays taken.
MutReleased(us) == {}

\* The addresses devlist_remove returns.
Released(us) == {dev[u].addr : u \in us}

(* usbdev_disconnect: cancel the endpoints, remove the devices from the    *)
(* list and free them.  It reads the structure of a hub, and the list.     *)
Disconnect(u, m) ==
    \E us \in {Gone(u)} :
        /\ sched' = Cancelled(sched, us)
        /\ td' = [v \in Ids |-> IF v \in us THEN "none" ELSE td[v]]
        /\ devlist' = devlist \ us
        /\ addrbm' = addrbm \ Released(us)
        /\ dev' = [v \in Ids |-> IF v \in us THEN Free(dev[v]) ELSE dev[v]]
        /\ marks' = marks \cup m \cup
               (IF dev[u].data = "dangling"
                   \/ \E v \in us \cup devlist : dev[v].st # "live"
                THEN {"bad"} ELSE {})

\* Mutant: the port still points to the device.
MutVacated == port

\* The port without its device.
Vacated == [port EXCEPT ![irq.hub][irq.port] = Null]

(* The port is suspended and the device that was on it, if there was one,  *)
(* disconnected.                                                           *)
Suspend ==
    \E o \in Outcomes :
        LET u == port[irq.hub][irq.port]
        IN  /\ HubStep("suspend", o[1], o[2])
            /\ IF u = Null
               THEN /\ marks' = marks \cup o[2]
                    /\ UNCHANGED <<dev, devlist, addrbm, port, sched, td>>
               ELSE /\ Disconnect(u, o[2])
                    /\ port' = Vacated
            /\ irq' = [irq EXCEPT !.at = "enable"]
            /\ UNCHANGED <<world, intr, intbm, nextAddr>>

(* One of several transactions, which is not the last: of the strings of a *)
(* device, of the power of a hub's ports, of the wait for the end of a     *)
(* reset, and of the changes by suspend, over-current and reset, of which  *)
(* a port may have some.  The handler goes on with the next one whether or *)
(* not it fails.                                                           *)
Another ==
    /\ irq.at \in {"settle", "next", "strings", "power"}
    /\ \E o \in Outcomes :
        /\ Control(IF irq.at \in {"settle", "next"} THEN irq.hub ELSE irq.new, o[1], o[2])
        /\ marks' = marks \cup o[2]
    /\ UNCHANGED <<world, hc, irq, core, sched>>

(* A transaction on an endpoint with a failed one in its queue waits for   *)
(* it to be taken off.                                                     *)
HubSteps == {"status", "clear", "reset", "settle", "again", "suspend"}
Hang ==
    /\ \/ irq.at \in HubSteps \cup {"next"} /\ irq.hub \in halted
       \/ irq.at = "enable" /\ irq.en /\ irq.hub \in halted
       \/ irq.at \in {"strings", "bind", "config", "power"} /\ irq.new \in halted
    /\ irq' = [irq EXCEPT !.at = "hung"]
    /\ UNCHANGED <<world, faults, hc, core, sched, halted, marks>>

Handler ==
    \/ HandleIrq \/ PeriodicComplete \/ RootIrq \/ NextPort \/ Reschedule
    \/ Acknowledge \/ PortStatus \/ ClearConnection \/ Reset \/ Settle
    \/ PortEnable \/ NewDevice \/ SetAddress \/ GetDescriptor \/ Strings
    \/ BindHub \/ PowerPorts \/ Suspend \/ Another \/ Hang

Next ==
    \/ Handler
    \/ \E f \in Fits : PlugIn(f[1], f[2])
    \/ \E s \in Sockets : Unplug(s)
    \/ \E u \in Ids : HubReports(u) \/ BindDriver(u)

(* The interrupt is served while it is pending, and the controller visits  *)
(* what is scheduled.                                                      *)
Spec ==
    /\ Init /\ [][Next]_vars
    /\ WF_vars(Handler) /\ \A u \in Ids : WF_vars(HubReports(u))
-----------------------------------------------------------------------------
Marks == {"fault", "missed", "raced", "wiped", "listed", "wild",
          "replug", "unbound", "unsorted", "stray", "bad"}

\* Types of the variables.
TypeOK ==
    /\ plug \in [Sockets -> Things \cup {Empty}]
    /\ chg \subseteq Sockets /\ enC \subseteq RootSockets
    /\ bus \in [Things -> {Off} \cup 0..(NumDevices + MaxDevs)]
    /\ plugs \in 0..MaxPlugs /\ faults \in 0..MaxFaults
    /\ intr \subseteq {"INT", "PCD"}
    /\ td \in [Ids -> {"none", "active", "done"}]
    /\ intbm \in [Ids -> SUBSET Sockets]
    /\ irq.cur \in Ids \cup {NoQh} /\ irq.hub \in Ids \cup {Root}
    /\ irq.bm \subseteq Sockets /\ irq.port \in Sockets \cup {Null}
    /\ \A u \in Ids : dev[u].st \in {"none", "live", "freed"}
    /\ port \in [Ids \cup {Root} -> [Sockets -> Ids \cup {Null}]]
    /\ devlist \subseteq Ids /\ addrbm \subseteq 0..(NumDevices - 1)
    /\ halted \subseteq Ids /\ marks \subseteq Marks

Live == {u \in Ids : dev[u].st = "live"}
Settled == irq.at \in {"idle", "walk", "root", "ack", "next"}

(* Every device on the list is alive and holds an address of its own that  *)
(* the map has taken, and no other address is taken: as long as no device  *)
(* failed after it was listed and the search stayed inside the map.        *)
ListSound ==
    marks \cap {"listed", "wild"} = {} /\ Settled =>
        /\ devlist = Live
        /\ addrbm = {0, 1} \cup {dev[u].addr : u \in Live}
        /\ \A u, v \in Live : dev[u].addr = dev[v].addr => u = v

(* A live device is the one its port points to, and the hub it is on is    *)
(* alive, unless a device was plugged in again before the hub was asked.   *)
DevicesOwned ==
    "replug" \notin marks /\ Settled =>
        \A u \in Live : /\ port[dev[u].hub][dev[u].socket] = u
                        /\ dev[u].hub = Root \/ dev[u].hub \in Live

(* The schedule refers to live devices only, and the controller visits     *)
(* each exactly in the frames that are due: unless the list was ever out   *)
(* of order, which its head can be.                                        *)
ScheduleSound ==
    "unsorted" \notin marks =>
        /\ ToSet(sched.list) \subseteq Live
        /\ \A i \in 1..Frames : Visited(sched, i) = Due(sched, i, Rate)

(* No two things answer the same address, 0 included: unless the reset     *)
(* after a failed device has left something on the bus at address 0.       *)
AddressesApart ==
    "stray" \notin marks =>
        \A t, u \in Things : bus[t] = bus[u] /\ bus[t] # Off => t = u

(* The tree of devices is consistent: in the list, in the address map, on  *)
(* the ports and on the bus.                                               *)
DevicesSound == TypeOK /\ ListSound /\ DevicesOwned /\ AddressesApart

(* Disconnecting a device touches nothing that has been freed, unless it   *)
(* is a hub that could not be bound or a device failed after it was listed. *)
DisconnectSafe ==
    "bad" \in marks => marks \cap {"listed", "unbound"} # {}

\* The hubs that are bound, and that their own port still points to.
Following == {Root} \cup
    {h \in Live : dev[h].data = "hub" /\ port[dev[h].hub][dev[h].socket] = h}

\* What the ports show agrees with what is plugged in.
Agrees ==
    \A h \in Following :
        \A s \in Owned(h) :
            IF plug[s] = Empty THEN port[h][s] = Null
            ELSE port[h][s] \in Live /\ dev[port[h][s]].thing = plug[s]

(* Once nobody plugs any more, the ports come to agree with what is        *)
(* plugged in, unless an event was lost, a transaction failed for its own  *)
(* reasons, or the handler waits for a transaction that had failed.        *)
ComesToAgree ==
    <>[](\/ Agrees
         \/ marks \cap {"missed", "raced", "wiped", "fault", "stray"} # {}
         \/ irq.at = "hung")
=============================================================================
