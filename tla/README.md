# A verification project for seL4/projects_libs

projects_libs is a collection of user-level libraries for seL4 systems. This
directory holds TLA+ models of the libraries that carry protocols and shared
state, the TLC configurations that check them, and proofs that TLAPS checks.
`PROJECT.json` lists the components, runs, mutants, hazards and theorems, and
maps every definition that models code to its lines.

## 1. Inventory

| Component | State | Operations | What is hard | Properties that make it correct |
|---|---|---|---|---|
| libvirtqueue | descriptor table, available and used ring in shared memory; private cursors, free list head, ring objects | init, add buffer, get used, gather used (driver); get available, gather available, add used (device) | two sides interleave at every access; index wrap; an entry is published before it is complete; no ring-full test | no entry or descriptor lost, shared or forged; lists intact; FIFO; entries come back |
| libringbuffer | a zero-terminated byte region and one private offset per side | transmit byte/block/string, poll, receive, has_data | order of two stores, double load, wrap, no flow control by design | region spells the unread bytes; bytes arrive in order and eventually |
| libtx2bpmp, IVC | per channel: w_count, r_count, state, frames; private positions | reset, notified, write/read get_next_frame and advance | resets at any time by either end, crashes, counter wrap, notifications only on the edges | counters agree while established; no frame lost, repeated or overwritten; channel comes up; no lost wake-up |
| libtx2bpmp, BPMP calls | one frame each way, a call in progress | bpmp_call | timeout against late response, reset during a call | a call returns, with the response to its own request |
| libtx2bpmp, lifecycle | initialised flag, reference count, mappings | init, destroy | failure half-way, several handles, reopening | resources live while a handle is open, released once |
| libtx2bpmp, HSP | doorbell registers | ring, check | read-modify-write of the pending register | (only as the doorbell of IVC) |
| libvswitch | route table, connect count | connect, lookups | limit against free slots, null and duplicate addresses | first route of an address stays; count covers slots |
| libsdhcdrivers, SDHC | linked list of commands, INT_STATUS, blocks remaining | send (blocking or with callback), interrupt handler, issue next | events latched while older ones are handled, errors with completions, callbacks that send | list intact, command and controller in step, true results, every command ends |
| libsdhcdrivers, MMC | card structure, the response of the last command, CSD; a command, its data and a token per transfer | mmc_init, block read/write and their completion | unbounded polling, ignored results and stale responses, partial allocation | a card that comes up is known for what it is, the CSD is the card's, transfers address the right block and leak nothing |
| libusbdrivers, core | device list, address map, per-device structures | new device, disconnect, transactions | failure half-way through enumeration, the address search at its limit, disconnect of a hub with devices | unique live addresses, no freed device in the list, ports agree with what is plugged in |
| libusbdrivers, EHCI | asynchronous ring of queue heads with queues of descriptors, doorbell and pending removals, periodic list and frame list, status register | schedule (blocking or with callback), cancel, interrupt handler, doorbell | client, handler and controller walk and change the same lists; memory freed by count of doorbell answers; status cleared late | nothing freed while it may be used, transfers reported once, in order and in the end; every due endpoint visited |
| libusbdrivers, hub driver | port devices, interrupt transfer | bind, interrupt handler, port change | the port changes between any two transactions | state follows the port |
| libusbdrivers, class drivers | storage tags, key queues, network buffers | bind, requests, callbacks | protocol order, lost reports | one request at a time |
| libusbdrivers, OTG | endpoint queues | primes, completions, setup | setup during a transfer | each buffer completes once |
| libfdtgen | table of names with flags and visits, recorded dependencies | keep nodes, keep subtree, generate, free | cyclic dependencies, a table iterated while it grows, offsets that change under the walk, reuse of a context | the generated tree is the closure of what was asked under parents and phandles |
| libplatsupportports | tables over BPMP calls | clock, reset, mux, gpio | partial failure | requests match the tables |
| libjansson, libmsgpack, libnfs | | | | third-party code |

How they interact: libvswitch hands out virtqueues; BPMP calls use an IVC
channel whose notifications ring an HSP doorbell; the TX2 clock and reset
drivers make BPMP calls; MMC sends commands through the SDHC queue; the USB
class drivers and the hub driver use the USB core, which schedules transactions
on EHCI. EHCI's interrupt handler calls the callbacks of finished transfers, and
through the hub driver's callback enumerates and disconnects devices, with
blocking transactions of its own.

## 2. Modules

One action is one operation, or one step of it between two accesses that
another actor can observe. Private work rides on the step it follows.

* `Virtqueue` - both sides of libvirtqueue. The driver's call
  `virtqueue_add_available_buf` is `AddDesc`, then `LinkDesc` (a later buffer)
  or `AvailSlot` and `AvailPublish` (the first). `GetUsedPoll`/`GetUsedTake`,
  `GatherUsed`/`GatherUsedEnd` pop; `GetAvailPoll`/`GetAvailTake`,
  `GatherAvailable`, `AddUsedSlot`/`AddUsedPublish` are the device. The history
  variables `free`, `chain` and `popping` record what the driver meant; no guard
  of a library step reads them (the client's choices may).
  `AbstractVirtqueue` is the promise: two FIFO queues of entries.
  `MCVirtqueue` adds symmetry and a view without dead ring slots.
* `Ringbuffer` - transmitter and receiver, one step per store and per load.
* `IvcStates`, `Ivc` - the reset protocol's table, and both ends running the
  whole of ivc.c. A step is one store with the loads that decide it. The peer
  is firmware outside the repository, modelled by the same, symmetric code.
  `AbstractIvc` is the promise: a bounded in-order link that may go down.
  A reset may come at any step of the peer; `overtaken` records one that falls
  into the peer's tegra_ivc_channel_notified.
* `BpmpCall` - bpmp_call over that link with one frame each way; the reset
  states are those of `IvcStates`.
* `BpmpLifecycle` - init and destroy of the shared handle; one step per outcome.
  `lost` counts the mappings that exist and that no pointer leads to any more.
* `Bpmp` - composes the two: calls on open handles, between inits and destroys.
* `Vswitch` - the route table.
* `Sdhc` - the command list, sdhc_handle_irq in four steps (read INT_STATUS,
  act, clear, finish), blocking and asynchronous sends, callbacks that may send,
  and the controller beside it. The controller (`Hw...`) is external: it latches
  events, runs one command at a time, and after an error is idle.
* `Mmc` - mmc_init, one step per command it sends, with the card as an external
  state machine that keeps silent when a command is not legal in its state. A
  fault loses a command or its answer. A response is the set of its bits that
  are 1, so that shifting, slicing and reading an old response are what they are
  in the code. Then transfer_data, allocation by allocation, and its callback;
  the queue between the two is `Sdhc`. `MCMmc` gives the cards.
* `FdtGen` - libfdtgen. Nodes are numbered in the order of the flattened tree,
  and the mutual recursion of the dependency walk and that of trim_tree run on
  an explicit stack. `Needs` is the reference: the least closed set. The
  ancestors of a node (`Above`) are a least closed set too, and what a call
  enters into the table is a set together with an order of it (`Orders`).
* `EhciAsync` - the asynchronous schedule: a client in ehci_schedule_xact, the
  thread in ehci_handle_irq, and the controller (`Hw...`, external) with one
  link read ahead. A call is cut wherever the other thread or the controller can
  see the difference: the stores of ehci_add_qhn_async one by one (`Submit` with
  `AddLink`, then `AddHw`, `AddSw`, `AddSplice`, `AddTail`), test, lock, link,
  activate, read the link, poll, walk. So is ehci_del_qhn_async: `Cancel`,
  `Halt` for each descriptor, `Search`, `Cut`, `Unlink`, `Retail`, `Pend`. Three
  things are one step: the search of a list (`Search`, from the tail, whose
  links change only next to the tail or by this thread itself), the work on one
  queue under its lock, and adding the first queue head of all, when no other
  thread has anything to look at. `slips` is a history of what the environment
  or a race did, `fault` the memory error it led to; no guard of the driver
  reads them, and a memory error stops the run. `MCEhciAsync` gives the
  instances.
* `EhciPeriodic` - the periodic schedule as operators on the list and the
  frames.
* `Usb` - composes `EhciPeriodic` with the device list of usb.c, the port
  handling of usbhub.c and the root hub of ehci/hub.c, in the one thread that
  runs ehci_handle_irq; between two of its transactions the user may plug or
  unplug. A step is one transaction with what follows up to the next; those that
  only repeat or whose outcome is ignored (strings, port power, waiting for a
  reset, clearing of suspend, over-current and reset changes) are `Another`. The
  fate of a failed transaction in a control queue is taken from `EhciAsync`: the
  next blocking one on that endpoint waits for ever (`Hang`). `marks` is a
  history of what has gone wrong, read by no guard. `Gone` is what
  usbdev_disconnect of a hub takes along, `Cancelled` the schedule it leaves,
  those behind the hub first. `MCUsb` gives the bus.
* `VirtqueueProofs` (Virtqueue, Vswitch and Ringbuffer), `IvcProofs`,
  `BpmpProofs` (BpmpCall, BpmpLifecycle and Bpmp), `SdhcProofs`, `MmcProofs`,
  `EhciProofs`, `UsbProofs`, `FdtGenProofs` - theorems (section 4). Where two
  models share a proof module, one of them has names of its own for its
  specification: `SwitchSpec`, `RbSpec`, `CallSpec`.

Assumptions on clients and environment, all visible as constants or guards: the
driver's client keeps at most `MaxInFlight` entries (the library has no test)
and the device, unless `Eager`, waits for the notification of a complete entry;
the ring buffer's client keeps fewer than `Size` bytes unread (`MaxUnread`), as
the header asks; BPMP calls are made one at a time; SDHC callbacks do not send
blocking commands; no call on an asynchronous USB endpoint starts after its
device was unplugged, though one may be under way, and a freed descriptor keeps
its link until the call that freed it ends (`EhciAsync`); hubs are plugged into
the root hub (`Usb`). Interleaving is sequentially consistent: libvirtqueue and
libringbuffer have no barriers of their own, ivc.c has them between the accesses
that are separate steps here.

## 3. Runs

Passing runs (bounds in the `.cfg`):

| Run | Shows | Bounds and why they are enough |
|---|---|---|
| Virtqueue | conservation of entries and descriptors, intact lists, the device's iterator inside its entry, complete returns, the rings implement `AbstractVirtqueue` | ring of 4 with entries of 1 and 2 buffers, two entries built and two served at a time: the rings wrap, the table fills in mid-entry, entries return out of order |
| VirtqueueLive | every entry returns | two entries in flight in a ring of 4; no symmetry, no view |
| Ringbuffer | region spells the queue, in-order and eventual receipt | 4 slots, at most 3 unread: the offsets wrap without end and the region is full |
| Ivc | until a reset overtakes the peer: agreement of counters, an advance after a grant succeeds, oldest frame read, refinement of `AbstractIvc`; with any reset: establishment, no stranded frame | 2 frames, counters modulo 4 so that they wrap, one reset or crash of either end at any step besides the initial one; a polling CPU that writes and a doorbell-driven peer that reads |
| Bpmp | the count, until the first failure or reopening the resources, what is lost; age of answers, calls return | 3 handles, 2 early returns and 1 failure in any order, reopening; 4 timeouts, of which 3 fill the pipeline, and one reset |
| Vswitch | routes and count | connects of distinct, equal and null addresses beyond the limit |
| Sdhc | list intact; controller, completions and results in step; every command ends | 4 command structures (asynchronous by DMA and by the data port, blocking with and without data) reused without limit, of 1 and of 2 blocks, one error, one removal |
| Mmc | class and readiness of a card that came up, its address and CSD, when the assertion fails, the argument of a transfer, no leak; initialisation ends | SD cards of both classes and versions and an MMC card, three CSD structures with bit patterns of different periods, 2 polls, 2 faults (one to lose, one more while recovering); 2 transfers at once; arguments modulo 16 and blocks of 2, so that one start fits and one wraps |
| FdtGen | the listed nodes are the closure, the tree is cut to them, what is disabled, which nodes and which paths without a node are reported; a generation ends | all trees of 4 nodes, all pairs of dependencies (self, mutual, to an ancestor or the root), 3 calls in any order, for one node, the subtree of another and that of the root (which gives paths that no node has), so that a context generates twice and after new requests |
| EhciAsync | both rings agree, no freed memory used by controller or threads, one report per transfer, order; transfers heard of, calls end, removed heads recycled | five instances: 2 descriptors on two endpoints from an empty ring; 2 on one that is unplugged; a first transfer on a third endpoint while one of two others is removed, and on a second while the only other is; three idle endpoints of which 2 are unplugged. 1 transaction error and timeouts |
| Usb | list, address map, ports, schedule and bus agree, disconnect touches nothing freed; ports come to agree with the sockets | a hub with one port and two devices of different rates, 4 plugs or unplugs, 1 failing transaction, 5 addresses of which the hub has the last, so that the search wraps; 4 frames and rates 4, 2, 1 |

`BpmpStale` is expected to fail. It checks `AnswerMatches`, which says of
bpmp_call what bpmp.h:87 does of its parameter rx_msg: "A buffer to hold the
response of the request". After one timeout (bpmp.c:93) the next call returns
the late response to the request before it. `CallsSound` says how old an answer
can be; it is a bound on that defect and no promise of the library.

The runs have between 100 and a million states; FdtGen, EhciAsync and Usb take
one to three minutes, the others less than one.

`CHECK_DEADLOCK FALSE` appears where the system may stop: after a failed
assertion in Sdhc, a failed mmc_init, a memory error in EhciAsync, a freed
context in FdtGen, and in Usb when the handler waits for ever or nobody plugs.

Properties about one subject are conjunctions of named parts, which are defined
before them in the module: a run checks the conjunction, and the text below and
the proofs refer to the parts.

| Property | Module | Its parts |
|---|---|---|
| `Conservation` | Virtqueue | `EntryConservation`, `DescriptorPartition`, `ListsIntact` |
| `ServedWhole` | Virtqueue | `IteratorInside`, `SizeRight`, `UsedComplete` |
| `ChannelSound` | Ivc | `TypeOK`, `EstablishedAgree`, `AdvanceSucceeds`, `ReadsOldest` |
| `CallsSound` | BpmpCall | `CallTypeOK`, `AnswerAge` |
| `LifecycleSound` | BpmpLifecycle | `TypeOK`, `ReleasedOnce`, `LostByFailures` |
| `RoutesSound` | Vswitch | `TypeOK`, `FirstRouteWins`, `SlotsCounted` |
| `ListSound` | Sdhc | `TypeOK`, `QueueSpelled` |
| `InStep` | Sdhc | `ControllerServesHead`, `AssertionsHold` |
| `ToldTheTruth` | Sdhc | `AcceptedUnlessRemoved`, `BlockingTold`, `CallbackTold` |
| `GeneratesRight` | FdtGen | `TypeOK`, `CutExactly`, `DisablesAsAsked`, `ReportsMissing`, `ReportsWrong` |
| `ScheduleSafe` | EhciAsync | `TypeOK`, `RingsAgree`, `ControllerSafe` |
| `TransfersRight` | EhciAsync | `ToldOnce`, `InOrder` |
| `Finishes` | EhciAsync | `CallEnds`, `Recycled` |
| `InitSound` | Mmc | `TypeOK`, `ClassRight`, `CardReady`, `CsdRight`, `AssertsOnFault` |
| `TransfersSound` | Mmc | `AddressRight`, `NothingLeaks` |
| `DevicesSound` | Usb | `TypeOK`, `ListSound`, `DevicesOwned`, `AddressesApart` |

Many properties name the cases in which they do not hold (`Orderly`, `Clean`,
`marks`, `Unanswerable`, `failed`, `overtaken`, `Overwrites`). Each of these
exceptions was needed: without it TLC finds the behaviour of the code described
below. A property does not catch what it excepts: it shows that nothing else
breaks the promise. The hazards in `PROJECT.json` have a note where this is so.

Met while modelling. Where a sentence of the repository says otherwise it is
quoted; the property that says how far the promise goes is in brackets.

* ivc.c:322: tegra_ivc_channel_notified loads its peer's state and stores its
  own several steps later. If the peer resets again in between, an end answers a
  state that is gone and clears counters that its peer is using, against
  ivc.c:367, "won't make progress until we change our state, so the counters are
  not in use at this time". From then on (`overtaken`) neither the counters nor
  the order of frames are promised; the channel still comes up.
* bpmp.c:95: a call that times out leaves its request outstanding, and the next
  call returns the late response, against bpmp.h:87, "A buffer to hold the
  response of the request" (the run `BpmpStale`; `AnswerAge`).
* bpmp.c:263: a failed tx2_bpmp_init calls bpmp_destroy, which gives back a
  reference that was not taken; a later destroy unmaps what another handle uses,
  against bpmp.c:135, "Only cleanup the BPMP structure if there are no more
  references that are valid." (`LiveWhileOpen`; `LiveWhileOrderly`).
* bpmp.c:196-222: an init that returns early keeps its mappings and the HSP, and
  the next init maps again and stores over the pointers, so that the first
  mappings can never be unmapped (`LostByFailures`).
* sdhc.c:515: after a card removal ended a command early, its late
  transfer-complete event completes the next command, against sdio.h:52, "called
  onces the command has been accepted by the connected device"
  (`AcceptedByDevice`; `AcceptedUnlessRemoved`).
* virtqueue.c:130 has no test for a full ring. With `QueueLen` entries in flight
  the index comes round to the reader's cursor and all entries seem gone,
  against "0 on failure (ring full)" in virtqueue.h. `MaxInFlight = QueueLen`
  in a run shows it; the proof of `AcceptedVisible` assumes less.
* virtqueue.c:130 publishes an entry with its first buffer. A device that polls
  (`Eager = TRUE`) can return a truncated chain (`UsedComplete` fails).
* rb_has_data (ringbuffer.c:33) returns true when there is nothing to read, and
  rb_transmit, rb_receive_string and rb_receive_data return 0 instead of counts.
* A bpmp_call refused at bpmp.c:64 does not run tegra_ivc_channel_notified: once
  a call has acknowledged a reset of the firmware, no later call completes it,
  although ivc.h:150 asks for channel_notified after every notification. All
  calls still return.
* bpmp_destroy leaves bpmp_initialised set, so an init after the last destroy
  (`Reopen = TRUE`) succeeds with the unmapped channel.
* The lookup of the null address in libvswitch finds a free slot.
* sdhc_handle_irq reads INT_STATUS once: an error together with a buffer-ready
  bit meets an assertion that fails (`AssertionsHold` names the case). It calls
  the callback with status 0 for a failed command (`CallbackTold`). It copies
  every block through the data port from or to the start of the buffer, so that
  the blocks of a longer transfer overwrite one another (sdhc.c:481,
  `Overwrites`). And the
  buffer-ready event of a block that becomes ready between the copy of the one
  before and the clear at sdhc.c:504 is lost (`Stranded`).
* mmc.c:311 polls with ACMD41 whatever the card, so an MMC card never comes up;
  the loop also never ends for a high-capacity card that missed CMD8 or was not
  offered the capacity bit, and after a lost answer that said ready
  (`InitEnds`). A transient error on the first CMD55 makes an SD card an MMC
  card, and the assertion at mmc.c:297 fails (`AssertsOnFault`). The results of
  all commands after the identification are ignored, so that mmc_init succeeds
  with an address, CSD or bus width the card does not have (`CardReady`,
  `CsdRight`). A start beyond 2^32 bytes wraps (`AddressRight`).
* fdtgen.c: the root's own properties are not followed; a subtree kept from "/"
  gives paths with two slashes that match nothing; a name without a node has an
  offset that is never written and is resolved all the same (`Unwritten`);
  fdtgen.c:120 stores the parent's offset; the visits (fdtgen.c:332) are never
  reset, so a second generation does not disable what the first one visited
  (`DisablesAsAsked`) and nodes named after the last one are reported missing
  (`ReportsMissing`), as is the root.
* hcd.c:231 clears at its end the status bits it read at its start: a
  completion, doorbell answer or port change in between is lost if its bit was
  set before ("missed", "unanswered", "unseen" in `EhciAsync`, "missed" in
  `Usb`).
* hcd.c:171: a failed descriptor is never taken off its queue or reported, and
  the next blocking call on the endpoint spins for ever; the enumeration in the
  interrupt handler does so too (`CallEnds`, `ComesToAgree`).
* async.c:547: removing the only queue head leaves the tail and the controller
  on it ("emptied"). async.c:623 counts doorbell answers, also one that was
  under way when the queue head was removed ("early"), as when usbdev_disconnect
  cancels several endpoints in a row.
* async.c:359 tests the queue without the lock, async.c:387 reads a link and
  async.c:576 a token of a descriptor that the handler may have freed
  ("crossed"); an unplug in the middle of a call takes away what that call works
  on ("crossed" too). async.c:457 and 466 read the link of a descriptor just
  freed, for every transfer that completes ("reread"): `MemorySafe` is about
  memory that another thread has freed, and counts this as no fault as long as
  the allocator leaves the link alone.
* async.c:474-494 and 496-566 change the ring store by store and without a lock.
  If the handler removes the successor of the tail between the client's stores
  at async.c:480 and 484, line 544 takes the new queue head out of the
  controller's ring while it stays in the driver's, and it is never served
  ("torn"; likewise when the tail itself is removed). A queue head added during
  a walk ends that walk early. ehci_cancel_xact leaves hcpriv set.
* periodic.c:66 never compares the head of the list, so a slower queue head goes
  behind a faster one ("unsorted"): it is then polled too often, the other is
  missed in some frames, and after deletions frames lead to freed queue heads.
  periodic.c:104 dereferences tdns, which is NULL when no transfer is queued.
* usb.c:119 shifts by 32 past the end of the map, which is undefined: on
  machines that give 0 the address 32 is handed out and never marked ("wild").
  usb.c:725 and 741 free a device that stays on the list ("listed").
* usbhub.c:212 and 309 clear a connection change that may be newer than the
  status read; 309 does so for an enable change ("raced", "wiped"). usbhub.c:287
  overwrites the device of a port that was replugged, which then stays in the
  list and the schedule ("replug"). usbhub.c:275 resets a port after a failure
  and leaves a device at address 0 ("stray"). usbhub.c:468 frees a hub's
  structure that usb.c:909 reads at the disconnect ("unbound").

Fairness. Virtqueue: a call once begun finishes (weak), and each side comes back
to its other work (strong, since each side is one thread whose other calls
disable it for a while); nobody must submit. Ringbuffer: the receiver's loop
runs. Ivc: calls finish, a rung doorbell is served, an awake reader reads and an
end that starts resets. Bpmp: a call that has begun polls on and the firmware
serves; calls, inits, timeouts and resets are free. Sdhc: the controller ends
what it is given, the handler runs when a status bit is set (interrupt or
waiting loop); nobody must send. Mmc: the thread in mmc_init runs on; cards may
lose every command the bound allows. FdtGen: a call of fdtgen_generate runs on.
EhciAsync: both threads are scheduled, the controller keeps going round (weak)
and ends every descriptor it has begun, with success or an error (strong for
each queue head, as it leaves a queue head between its visits); nobody must
submit or unplug. Usb: the handler runs while it can, and the controller visits
what is scheduled; nobody must plug or bind.

## 4. Proofs

* `VirtqueueProofs!TypeCorrect`: `TypeOK` is invariant for every ring length,
  buffer set and number of objects. It says that no unchecked array access
  leaves the table. It is inductive once the ring objects of the
  driver are typed together with the step in progress.
* `VirtqueueProofs!AcceptedIsVisible`: if `MaxInFlight < QueueLen`, the rings,
  the device and the driver account for all entries in flight. The inductive
  invariant is the count itself with `TypeOK` and the steps in progress; modular
  lemmas say what moving an index does to the number of pending entries. With
  `MaxInFlight = QueueLen` TLC finds a counterexample.
* `VirtqueueProofs!EntriesAreConserved` (`Conservation`), `RefinesTheQueue`
  (`RefinesQueue`), `EntriesAreServedWhole` (`ServedWhole`): for every ring
  length, chain bound and number of objects, if
  `MaxInFlight < QueueLen` and `~Eager`; TLC refutes them when the device polls
  an entry that is still being built. The inductive invariant `FlowInv` has four
  parts. `Owned`: every descriptor has one owner among the free list, the
  chains, the entry being popped and the call that adds it. `ListsInv`: no list
  has one twice, and the next fields spell the lists. `EntryInv`: each chain's
  head is in exactly one slot of a reader's window or in one ring object, and
  the slot behind the used ring's window holds what the device is about to
  publish. `OpenInv`: an entry still being built is in the available ring and
  not about to be taken, so LinkDesc never lengthens a list the device walks.
  No part is inductive without the others.
  Lemmas about modular windows (`AfterStep`, `Window`, `AvailAdded`,
  `UsedDropped`, ...) say that a writer's step adds one entry behind the others
  and a reader's drops the first; the refinement maps these four steps to
  Submit, Return, Take and Collect, LinkDesc to Chain and every other step to
  none. `ServeInv` adds where the device's iterator stands. That the recursive
  walk of virtqueue_scattered_available_size sums the whole chain (`SizeRight`)
  follows from the existence of the sequence of its partial sums, by a least
  counterexample.
* `VirtqueueProofs!RegionAlwaysSpellsQueue`, `AlwaysReceivesInOrder`: if
  `MaxUnread < Size`, the region spells the unread bytes and a zero, so every
  load of the receiver is the head of the queue. The strengthening says where
  each offset is and what the slot being written holds between the two stores.
* `IvcProofs!ChannelIsSound`, `RefinesTheLink`: for any number of frames, any
  counter width beyond it, any resets and crashes, and both ends writing, up to
  the first reset that falls into the peer's tegra_ivc_channel_notified
  (`overtaken`); from there on TLC refutes what they say. The
  inductive invariant has five parts for each end. `Handshake` carries the load
  at the top of tegra_ivc_channel_notified to the store at its end: what the
  peer's state can be in between. `Cleared` says that an end in ack has all its
  counters at zero. `Joined`: while neither end is in sync, both channels are
  counted, readable and in place, except for the positions a crashed end has
  lost. `Parted`: when the peer has gone to sync and an end has not noticed,
  what that end knows is still true. `Granted`: a frame or room that a client
  was given is still there. The refinement maps the state stores to Up and Down,
  the clearing of w_count to Drop (or to nothing, when the peer is up, since the
  wire is then empty by `Handshake` and `Cleared`) and the advances to Write and
  Read.
* `BpmpProofs!CallsAreSound`: a request and its response pass three places
  of one item each; an item is as old as the number of items behind it (`Aged`),
  and without a reset there are as many items as timeouts, and one more during a
  call. `AnswerAge` follows for any number of timeouts.
* `BpmpProofs!CountAlwaysTracks`: the reference count is the number of open
  handles as long as no init goes to fail, for any number of handles; inductive
  is the exact count with the failures (`CountIs`). `LiveWhileOrderlyHolds`:
  until an init fails after the mappings or follows the last destroy, an open
  handle has its resources; the inductive invariant adds that the pointers are
  set and that nothing is open before the first init, and uses the exact count.
  `LifecycleIsSound`: what a pointer leads to is released once, from the same
  invariant; and what is lost is bounded by the inits that did not succeed,
  which is inductive together with what is mapped before the first success
  (`LostInv`). `BpmpIsSound`: the two parts together, since a step of one leaves
  the variables of the other alone.
* `VirtqueueProofs!RoutesAreSound`: for any table and any addresses. The slots
  fill without a gap, all that are filled are counted (`Filled`), and the first
  slot of an address holds what its first successful connect asked for
  (`Routed`).
* `SdhcProofs!ListIsSound`: for any set of commands, errors and removals, the
  linked list spells the commands in flight; the strengthening says what the
  handler holds between its steps. `StaysInStep`, `ToldIsTrue`: as long as no
  card was removed (`Calm`) each bit of INT_STATUS is about the head of the
  list, the handler's copy of it is still set, the controller's progress agrees
  with the block count, and a command is complete exactly as the controller
  ended it, its blocks copied in order, each to its own place but for the long
  transfers through the data port.
* `MmcProofs!InitIsSound`: for any card, any number of polls and faults. Each
  part of the invariant names the commands whose loss would break it (`Polling`,
  `Probing`, `Following`, `CsdRead`). `TransfersAreSound`: the argument of every
  transfer, and exactly the blocks of queued transfers and of the call in
  progress are allocated.

* `EhciProofs!ScheduleIsSafe`, `MemoryIsSafe`, `TransfersAreRight`: for any
  number of queue heads, TDs, unplugs and errors, with every store of adding and
  removing a queue head a step of its own. Up to the moment the ring is emptied
  or torn the queue heads in it are a permutation under both links, up to the
  links that a change in progress has not stored yet, which the invariant gives
  for every stage of the client and of the handler; changes at different places
  do not disturb one another. A removed queue head leads back to the ring by way
  of others removed no earlier; that is why the order of `db_pending`
  (`Removed`) belongs to the invariant. `Doorbells` says what the two answers
  are for: after the first the controller may still hold the removed queue head,
  after the second it does not. `HandlerInv` keeps the status bits the handler
  has read. `Owned`: the TDs of the queues are apart, chained and not freed.
  `Working`: of each queue the controller has finished a prefix, and its overlay
  leads to the next TD or to the one the client is about to link. `ClientInv`:
  what the client has in hand between its steps, up to the race "crossed".
  `Telling`: a callback has been called exactly if its TD was freed.
* `UsbProofs!DisconnectingIsSafe`, `ScheduleIsSound`, `DevicesAreSound`: for any
  devices, hubs, sockets, addresses, plugs and faults. `Base` is about the
  structures: they are used in the order of their numbers (`Unused`), a device
  comes after the hub it is on (`Tree`), endpoints are those of live devices
  (`Endpoints`), the device being set up is the newest (`Newest`), and what a
  port points to is live and points back (`PortsSound`). `DisconnectSafe`
  follows from it alone. `ScheduleSound` needs `InOrder`: every frame is entered
  at the first queue head of the sorted list that is due in it. This is
  preserved under the hypothesis `Multiples`: of two rates the larger is a
  multiple of the smaller. hcd.c:131-147 makes every rate a power of two; with
  rates such as 3 and 2 a frame that is due for the slower one only would lead
  on to the faster one. `DevicesSound` adds the addresses (`Names`: live devices
  have different ones, taken in the map or found past its end), the list and the
  ports (`Kin`), and the bus (`BusSound`: what answers address 0 is on the port
  that was reset, what answers another address is the device of that address on
  its socket, behind a hub that answers, and what the handler finds disconnected
  does not answer). Each part names the marks it ends with.
* `FdtGenProofs!AlwaysListsTheNeeds`, `AlwaysGeneratesRight`: for every tree,
  every set of dependencies, whatever its cycles, and every sequence of calls.
  While dependencies are resolved, each duty is somewhere: the parent of a
  listed node is listed or a `Keep` frame is on the stack (`ListedInv`), the
  dependencies of a recorded node are recorded or `Register` frames are on the
  stack (`RecordedInv`), the frames of a node that is not yet recorded are there
  together (`BatchInv`), and a node that is neither recorded nor on the stack is
  still ahead of the iteration, with its own offset. With the stack empty and
  the iteration at its end what is listed is therefore closed; that it is
  least is `NeedsInv`. For trim_tree, `WalkInv` says that the frames begin at
  the root and that of the children a frame has passed all but the one the walk
  is in are done: what is alive below them is listed and was visited. Starting
  over passes no child, and deleting a subtree takes nothing listed away,
  because the listed nodes are closed under parents (`AliveInv`). `DisableInv`
  relates visits, flags and the nodes disabled, and `WrongInv` says that a path
  without a node is in the table and never visited.

Assumptions are those named in the modules (`...Assumption`); TLC evaluates them
in the runs. Each inductive invariant was checked with TLC before it was proved.
Facts about recursive functions and least sets that would need induction over
data are proved with the least element of a set of numbers (`WFMin` of
`WellFoundedInduction`), on which the installed provers can work.

Every safety property that a run checks is proved, the two refinements included,
with the exceptions it names. Only model-checked are the liveness properties,
since TLAPS does not treat fairness and ENABLED: `EveryEntryReturns`,
`EveryByteReceived`, `EventuallyEstablished`, `FramesMove`, `EveryCallReturns`,
`EveryCommandEnds`, `InitEnds`, `GenerateTerminates`, `Heard`, `Finishes` and
`ComesToAgree`. The theorems quantify over the constants; the bounds on faults,
plugs or calls that keep the runs finite are among them, so they hold for every
bound.

## 5. Not modelled

* Weak memory; buffer contents, addresses and lengths; register programming of
  SDHC clocks and reset and of the EHCI start; HSP registers, whose check
  function has no caller; board support.
* USB class drivers (storage, keyboard, mouse, serial, network): sequences of
  transactions over the modelled core with little state of their own. They
  appear as the client of `EhciAsync` and as `BindDriver` of `Usb`, where the
  bind is one step although the code takes no lock. usb_lsusb and
  usb_probe_device parse and print descriptors; they also create endpoints anew,
  losing hcpriv. The H bit of the asynchronous ring (async.c:534) is left out.
  The emulation of the root hub's requests, the reset-change bits of ehci/hub.c
  and transaction translators are left out; a transaction with the root hub
  succeeds.
* Blocking transfers made by the interrupt thread while a client uses the same
  ring are in `Usb`, without the ring, and not in `EhciAsync`; descriptors are
  never reused there.
* OTG: ehci_otg_init (otg-imx6.c:726) returns -1 exactly when its allocation
  succeeds, so no state of the component can be reached.
* libplatsupportports: constant tables with one BPMP call or register access per
  operation. (gpio set_level ignores its argument for the level.)
* libfdt under FdtGen: copying, checking and a buffer that is too small;
  dangling phandles.
* libjansson, libmsgpack, libnfs: third-party libraries, vendored or built from
  elsewhere. They are by far most of the lines in the repository, so the share
  of all lines that the map covers stays small.

## 6. Plan

The safety properties are proved; what is left is to model more: the class
drivers over `EhciAsync`, the mass storage driver's bulk-only protocol first.
