# Verification of the iomemory-vsl porting layer for FreeBSD

The repository is the part of the Fusion-io (ioDrive, ioScale) driver that comes as source:
the layer between the FreeBSD kernel and a driver core that is shipped as a binary
(`driver/kfio/amd64_cc42_libkfio.o_shipped`). This directory holds TLA+ models of that layer,
TLC configurations that check them on small instances, and proofs, checked by TLAPS, of their
safety properties for every value of the constants.

Paths below are relative to `src/`. To run: `tlc -config X.cfg MCm` for a row of the table of
runs, `tlapm mProofs.tla` for a proof module.

## 1. The system

Four parties act concurrently: **GEOM threads** hand in block I/O; the **core** (threads,
interrupts and timers of the binary) takes requests, drives the cards and calls back;
**applications** use the control device and sysctl; **newbus and the module loader** attach,
detach, load and unload. The layer's code runs in the context of whoever calls it.

| Component (source) | State it keeps | Operations | Modules |
|---|---|---|---|
| Block device (`driver/kblock.c`) | the bio queue in the softc, `bio_lock`, `bio_cv`, `dev_state`, bounce buffers hung on bios | strategy, dequeue, completor; create, expose, destroy | `BlockQueue`, `BioService` |
| State variable (`driver/state.c`, `state.h`) | a `uint32_t`, a lock, a condition variable | set, move, up, down, compare, transition along an arc, wait | `FioState`, `StateCell`, `StateOperations` |
| Scatter-gather lists and DMA maps (`driver/kscatter.c`) | the iovecs, their bus_dma tag, map and segments; maps of a range | alloc, add, load, unload, reset, destroy, slice, enumerate | `SgParameters`, `ListState`, `SliceState`, `SgList`, `DmaSlice`, `ScatterGather` |
| Control device (`driver/cdev.c`) | `cdev`, `si_drv1`, the selinfo | create, destroy, open, close, ioctl, poll, wake | `ControlDevice` |
| Module and device life (`driver/main.c`, `pci.c`) | the softc's resources, `fusion_init_failed` | load, unload, probe, attach, start-up, interrupts, detach, shutdown | `DriverLifecycle` |
| Locks, condition variables, threads (`driver/kcondvar.c`, `kfio.c`) | the kernel's | take, try, give back, to read or to write; wait, timed wait, signal, broadcast; create | `Synchronization`, `Monitor`; what they promise is used by `BlockQueue`, `FioState`, `ObjectCache` |
| Information tree (`driver/kinfo.c`) | a sysctl oid per node | create, remove, read, write, text, sequence | `InfoTree` |
| Memory (`driver/kmem.c`) | coherent DMA memory, wired user pages | alloc, free, get and put user pages | `DeviceMemory` |
| Object caches (`driver/kcache.c`, `kcache.h`) | a uma zone, a reserve under a spin lock | create, alloc, free, reserve, unreserve, destroy | `ObjectCache` |
| Lists (`list.h`, `atomic_list.h`) | links | add, delete, move, join, splice, loops; lock-free add and take-all | `ListOperations`, `LinkedLists`, `HashLists`, `SequenceLists`; `AtomicList`, `TakeAllStack` |
| Timers and deferred work (`driver/ktime.c`, `sched.c`) | a callout, a task | set up, set, delete; schedule, schedule with a delay | `DeferredState`, `Deferred` |
| Atomic words and bits (`include/fio/port/arch/`) | a word | add, exchange, compare and exchange, set and clear bits | `WordOperations`, `WordState`, `WordCell`, `AtomicWord` |
| Kernel services (`driver/kfio.c`), error numbers (`errno.c`), times (`ktime.h`) | none | numbers and strings, the PCI routing table, configuration space, user words, messages, comparisons of times | `PortAlgorithms` |
| Bits, byte order, registers (`bitops.h`, `byteswap.h`, `kcsr.c`) | none | counts and searches of bits, swaps, fields | `BitAlgorithms` |
| Parameters, debug flags, tracing | none of their own | tunables, printing | none, see section 8 |
| Core, utilities, libraries | binaries | | external |

How they interact:

- `freebsd_disk_strategy` sorts a bio into `pdev->bioq` under `bio_lock` and broadcasts on
  `bio_cv`. The core's submit thread holds `bio_lock`, calls `kfio_block_dequeue_bio`, which
  drops and retakes the lock in its middle, and waits on `bio_cv` when there is nothing. The
  core calls `freebsd_bio_completor` when a request is done. `kfio_block_dequeue_bio` maps the
  buffer with `kfio_sgl_map_bytes` and `kfio_sgl_dma_map` (kscatter).
- The core maps the pages of an ioctl with `kfio_sgl_map_user_pages`, loads a list, slices it and
  enumerates the slices to build descriptors.
- The core sequences its own work (attach, scan, detach) with state variables.
- `kblock.c` sets `p_fio_device` in the softc, `freebsd_detach` and `freebsd_shutdown` read and
  clear it. The core tells the layer of a driven card through `kfio_pci_set_drvdata` (`prv`).
- The core creates a control device per card, sets alerts and calls `kfio_poll_wake`.
- The core makes an information node per value it shows; users' sysctl requests run the layer's
  handlers while the core may be removing the node.
- The core builds the rest of itself from the layer's locks, threads, timers, lists, caches and
  atomic words. These parts do not call each other, but for `kcache.h`, which links its reserve
  through `list.h` under a spin lock, and for `sched.c`, whose delayed work is scheduled as any
  other when its timeout comes.

What is hard here: requests handed over under one lock that one function drops half way; a queue
that outlives its disk, flushed without the lock; failures in the middle of multi-step setup with
hand-written unwinding; sleeping and waking; a state machine whose compare functions sometimes
lock and sometimes do not; index arithmetic over DMA segments with a loop that runs one turn
further than the array; polling that races with alerts; destruction under callers; loops without a
lock over words and lists that are changed, and changed back, meanwhile; timers deleted while they
fire; timeouts that race signals; handlers in nodes being removed. `PROJECT.json`
lists each hazard at its line, with the property that would catch it or the reason why none does.

What makes the components correct:

- **Block device**: a bio is in one place at a time; it is answered once, honestly, and not
  touched afterwards; nothing is left behind when the disk goes; buffers and fbios come back on
  every error path; no wake-up is lost; destruction ends; every accepted bio is answered.
- **State variable**: no update is lost; a wait returns in a state it waited for and keeps it
  until released; a waiter does not sleep through its state; every operation acts at one moment.
- **Scatter-gather**: a list never mixes address spaces; pages tile the user's range; bus
  objects never leak; a slice reads inside the segments and describes exactly its range; an
  enumeration yields exactly those bytes; nothing leaves a list under a live mapping.
- **Control device**: a call always has a device behind it; a poller learns of an alert.
- **Life**: what a failed or finished attach took is given back once; the core lets go of a card
  before its registers go; a driver that failed to initialise takes no card.
- **Library**: lists stay sequences, linked alike both ways, and the lock-free one a stack; an
  object is never in two hands; a request, an allocation or a reservation that fails gives back
  what it took; no handler runs in a removed node; numeric functions agree with their definitions.
- **Processor, clock and scheduler**: a call on a word acts once, at once; a deleted timer stays
  quiet; scheduled work runs; a writer is alone by whichever wrapper; a timed wait ends and tells
  a timeout from a signal.

## 2. Plan

Order of work, the most important behaviour first. Items 1 to 12 are done.

1. `BioService` (abstract) and `BlockQueue`, with refinement, liveness and proofs.
2. `StateCell` (abstract) and `FioState`, with refinement, liveness and proofs.
3. `SgList` and `DmaSlice`, with proofs.
4. `ScatterGather`, which composes the two and refines each, with proofs.
5. `ControlDevice`, with proofs.
6. `DriverLifecycle`, with proofs.
7. `InfoTree`: sysctl nodes under parents, removed while handlers run; requests with each failure.
8. `Deferred`: timers and delayed work, with a proof; `Monitor` (abstract) and `Synchronization`:
   locks, condition variables and threads.
9. `TakeAllStack` (abstract) and `AtomicList`; `SequenceLists` (abstract), `LinkedLists` and
   `HashLists`; `WordCell` (abstract) and `AtomicWord`, with a proof of the refinement.
10. `DeviceMemory` and `ObjectCache`.
11. `PortAlgorithms` and `BitAlgorithms` against reference definitions.
12. Proofs about the services and the library: `PortServicesProofs`, `ObjectCacheProofs`,
    `PortLibraryProofs`.
13. Proofs of the list refinements (`ImplementsSequences`, `ImplementsStack`), in
    `PortLibraryProofs`.
14. Left: a composition of `BlockQueue` with `ScatterGather` (a request's list is loaded exactly
    while its fbio is at the device) and of `BlockQueue` with `DriverLifecycle` (`p_fio_device`).

## 3. The modules and the code

Every definition that models code is in `PROJECT.json` under `map` with its lines. In general an
action is the code between two points where somebody else can see or change what it works on;
where one caller owns the data, an action is a whole call or one turn of its loop. Definitions
whose name has a suffix (`Lock_Busy`) and whose comment begins with "Mutation" are not part of a
specification: each is a plausible bug, put in place of the definition before the underscore to
see that a property notices.

**`BlockQueue`** (`driver/kblock.c`). A bio is a request with a GEOM thread of its own. `where[b]`
says who is responsible for it: the strategy routine (`strategy`, `check` and `admit`, the last two
under the lock), the queue, the submit thread (`held`), the device, or its issuer (`done`); a call
that was overtaken by `disk_destroy` is `wild`. `bounce`, `fbio` and `moved` are what hangs on a
bio and what data has really moved. `submit` is the submit thread's place; `DequeueTake`,
`DequeueAlloc(Fails)`, `DequeueUnsupported`, `DequeueMapFails`, `DequeueReturn`, `DequeueUndo` and
`DequeueRelock` are the pieces of `kfio_block_dequeue_bio` between the points where it releases the
lock, calls out, or takes the lock again. `Completor` is `freebsd_bio_completor`. `DestroyBegin`,
`Mark`, `Flush`, `Kill` and `Free` are `kfio_block_destroy_device`; `bioq_flush` runs without
`bio_lock`, as in the code. Data sizes are abstracted to small numbers, buffers to "raw" and "copy".

**`BioService`** is what GEOM is promised: refused or accepted, accepted means answered exactly
once, never taken down owing an answer. `BlockQueue` implements it with `Phase` and `Verdict`.

**`FioState`** (`driver/state.c`, `state.h`). Any number of threads run any operation; `pc` is
the place between lock, read, write, an arc's action, sleep and wake-up. `effect` is the state the
actions of arcs have caught up with. **`StateCell`** does every operation in one step; a thread
back from a wait, or inside an arc's action, is a *holder*, and the state stays until it lets go.
An answer is the value returned and, of `fio_transition_state_va`, what `*old_state` is told. Of
`fio_state_transition` with a handler the value is what the handler makes of the arc's number
(`Handled`, one of a set of results per number), not the number.
`StateOperations` holds what both need: what an operation asks for and which arcs match.

Where a module is composed with others, the variables and the properties are in a module of their
own (`ListState`, `SliceState`, `WordState`, `DeferredState`), which the part and the composition
both extend: the run of the composition checks the very formula the part's theorem proves.

**`SgList`** is the list of buffers and its bus objects: `sgl` is how far allocation has come
(`tagless`, `mapless`, `ready`, or `bail` on the way out), `dma_tag` and `seg_ptr` what the list
says, `tags`, `maps` and `loaded` what the bus has made and holds for it. The first two are counts,
of what was made less what was given back, so that what is given back without having been made shows
too: `kfio_sgl_destroy` looks at `dma_tag` alone. Memory from `malloc` is not cleared, and neither
are `uio_segflg` and `uio_td` in the model. `kfio_sgl_map_user_pages` is one action per page, since
a failure half way leaves what was added; `uio_size` wraps at `WordSize` as the C type does at 2^32.

**`DmaSlice`** is what the device sees. An address is abstracted to the byte of the list it leads
to, so that exactness can be stated with plain numbers. `Slice`, `SeekPast`, `SeekFound`, `Extend`,
`Truncate` are the two loops of `kfio_sgl_dma_slice`; the `Map` and `Phys` actions are the
enumerations. **`ScatterGather`** joins both over `seg_ptr`: the calls that load, unload, reset
and destroy a list are steps of both.

**`ControlDevice`** (`driver/cdev.c`). `life` is how far the core has come with the device;
between `MakeDev` and `SetDrv1` the node exists and is not ready. `Poll`, `PollReady`,
`PollNotReady` and `Selrecord` are the pieces of `freebsd_char_poll`, with `SetAlert` and `Wake`
free to come between them. `missed` is a history variable: an alert was set after this thread had
looked and before it was recorded. A thread left on the selinfo of a device whose memory is gone is
`stranded`. (In the shipped object only `kfio_poll_init` is referenced, not `kfio_poll_wake`; the
model takes the header's word that the core calls it.)

**`DriverLifecycle`** (`driver/main.c`, `pci.c`). For each card `held` counts what the bus has
given out and the other variables are the softc's pointers, so that what is forgotten and what is
released twice both show. Each failure of `iodrive_pci_probe` is an action. `StartupFails` leaves
the card attached and undriven, as the comment in `iodrive_pci_startup` says. `Load(n)` is an
initialisation that comes as far as part `n`; newbus adds the driver to the bus even if that is
not far enough, which is why `freebsd_probe` asks `fusion_init_failed`.

**The library** (`MCPortLibrary`): parts that do not interact, so `part` says which one runs, and
the others stay as they began. One run then checks each part on all its behaviours.

- `ListOperations` has each function of `list.h` as an operator from memory to memory, with the
  assignments in the order of the code. `LinkedLists` calls them on two lists, with the loops of
  the header, the safe ones with a body that deletes; `HashLists` is the same for hash lists, whose
  fields, not nodes, are pointed back to. Both implement `SequenceLists`: every call does to
  sequences what its name says.
- `AtomicList` has the lock-free list at the grain of its loads and exchanges, with entries that
  are added again by the loop that meets them. It implements `TakeAllStack`.
- `ObjectCache` is `kcache.h` with the reserve at the grain of its lock and its calls to the zone;
  a free object is linked through the caller's own bytes, which the caller has overwritten.
- `InfoTree` removes a node in the code's order while a request may be anywhere in its handler. A
  request on a text or a sequence takes its buffer, handle and position step by step, each of which
  may fail; sizes count to `MaxText`.
- `DeviceMemory` has the three steps of a coherent allocation with each failure, and `vslock` of a
  range against a `vsunlock` of what runs of pages the array of a caller still has.
- `PortAlgorithms` and `BitAlgorithms` have no state but an input: each function next to a
  definition of what it should return, for all inputs of the bounds. Configuration space is an
  array of digits to `ByteBase`, so that all accesses of 1, 2 and 4 bytes can be enumerated.

**The services** (`MCPortServices`), composed the same way.

- `WordOperations` says what a call makes of a word and answers, with its width. `AtomicWord` has a
  call as one instruction or as a loop of load, computation and compare-exchange, according to what
  the headers under `arch/` use on some processor; `WordCell` in one step. The FreeBSD build takes
  the x86 headers (`bitops.h` 86-89), where every call is one instruction: the loops, and with them
  `CallsReturn` of words, are about the ia64 headers that the porting layer has beside them.
- `Deferred` has a timer's callout through its firing, the function's end and the draining in
  `fusion_del_timer`; work goes to the task queue at once or after a timeout.
- `Synchronization` has the four sorts of lock as what each wrapper does to the kernel's lock,
  condition variables with timeouts, and threads that copy and free what they were made with. It
  implements `Monitor`. A `kthread_create` the kernel refuses leaves no thread and tells nobody
  (`NotMade`), as the code does.

## 4. The runs

| Run | Question | Properties |
|---|---|---|
| `block_queue` | Do queue, buffers and answers stay consistent in every interleaving and on every error path? | `IInv`, `OneOwner`, `NothingLeftBehind`, `NothingLeaks`, `HonestAnswer`, `ImplementsService` |
| `block_queue_live` | Does destruction end, and is every accepted bio answered? | `DestroyEnds`, `ImplementsFairService` |
| `block_queue_shortage` | Is a request that met a shortage of memory tried again? **Violated** | `ShortageIsRetried` |
| `fio_state` | Does every operation act on the state at one moment, do waits return right, and does a wait for a state that came to stay end? | `IInv`, `LockedComparesInStep`, `ImplementsCell`, `WaitEnds` |
| `fio_state_compare` | Are the comparisons documented as locked in step with the arcs' actions? **Violated** | `ComparesInStep` |
| `scatter_gather` | Are entries, space and bus objects right after any calls and failures, is every slice of every load exact, does the device never reach what has left the list, and is what was made given back once? | `MappedIsListed`, `OneSpace`, `NothingLeaks`, `PagesTile`, `ReadsInside`, `MapIsExact`, `WalkIsExact`, `GivenBackOnce` |
| `control_device` | Has every call a device, and is the known race the only way to miss an alert? | `CallsAreBacked`, `OnlyTheRaceIsMissed` |
| `control_device_notified` | Is a poller always notified? **Violated** | `Notified` |
| `driver_lifecycle` | Is everything taken given back once, in a safe order, and no card taken by a half-initialised driver? | `IInv`, `LeavesNothing`, `CoreIsBacked`, `DriverIsUp` |
| `port_library` | Are lists sequences and the lock-free one a stack, does a failure keep nothing, is no handler in a node that is gone, do the algorithms agree with their definitions? | `LibraryTypes`, `LinksAgree`, `NoHandlerOnGone`, `SizeTold`, `NothingKept`, `AlgorithmsAgree`, `ImplementsStack`, `ImplementsSequences` |
| `info_tree_mode` | Is a read-only node not written? **Violated** | `ModeIsSimulated` |
| `port_services` | Does a call on a word act at once, is a deleted timer quiet, does work run, do locks and conditions keep their promise and timed waits end? | `ServiceTypes`, `DelIsFinal`, `ImplementsCell`, `ImplementsMonitor`, `CallsReturn`, `WorkIsServed` |

The four violated runs are disagreements between the code and its comments:

- `driver/kblock.c:408` retries a request if `error == ENOMEM`, but the mapping functions report
  `-ENOMEM`: a request that ran short there is answered with `ENOMEM`, although the comment above
  says it is left for another try. Only a shortage of fbios is retried.
- `driver/state.c:86` and `state.h:180` read the state without the lock their comments ("lock,
  compare, unlock") mention, and so see a state whose arc's action is still to run.
- `driver/cdev.c:188`: an alert and its wake-up between the check and `selrecord` leave the poller
  asleep. The code's own comment ("XXXKAN: Race") knows; `OnlyTheRaceIsMissed` adds that there is
  no other way to miss one.
- `driver/kinfo.c:267` says that a node's access mode is simulated; the mode is computed and not
  used: a 32-bit integer can be written whatever its mode, and nothing else can.

Seen while modelling, without a run: the comment at `driver/kscatter.c:531` gives the size of
`kfio_sgl_map_user_pages` in pages, the loop takes it in bytes (and so does the model); a failed
initialisation is not unwound; `intr_resource` stays set after `bus_setup_intr` failed, and is
harmless because `kfio_free_irq` goes by the cookie; when `bus_dmamap_create` fails
(`driver/kscatter.c:104`), the way out by `kfio_sgl_destroy` calls `bus_dmamap_destroy` (127) for a
map that was never made, with the `NULL` that `dma_map` still is, which is the one exception
`GivenBackOnce` names; `(bcount + 7) & ~8` at `driver/kblock.c:325` does not round up to a multiple
of 8, but is enough for the whole sectors GEOM passes on; `kfio_msleep` (`driver/ktime.c:58`) rounds
down, so that a sleep shorter than a tick asks for 0 ticks, which `tsleep`, of kernels before
FreeBSD 7, takes for no timeout at all; `kfio_malloc_atomic` (`driver/kmem.c:202`) may sleep.

Deadlock is checked in all runs but those of `FioState`, where all threads may wait for a state
nobody sets; `DriverLifecycle`, where the system may be shut down for good; `port_library` and
`info_tree_mode`, where an algorithm has one input and all nodes may be gone; and `port_services`,
where all threads may sleep without a timeout.

## 5. Bounds

| Run | Instance | Why it is enough |
|---|---|---|
| `block_queue` | 3 bios of 6 shapes, 2 fbios, both mapping errors, device errors of both signs | shapes cover both directions through a bounce buffer, straight, no buffer, unsupported and empty; 3 bios over 2 fbios give a queue with an order, a retry at its head while others come, and an empty pool |
| `block_queue_live` | 2 bios, 1 fbio | a second bio takes the lock and the fbio away over and over, the only ways to starve; no symmetry, which liveness does not allow |
| `block_queue_shortage` | as the live one | the counterexample needs one bio |
| `fio_state` | 2 threads, 11 operations, states 0..2 (`Top` = 2), a shift by `Width` = 2 or more undefined | one operation between any two steps of another; a table with two arcs of which several match, one that keeps the state; with a handler, which may pass the number on or make another of it, and without |
| `scatter_gather` | 3 entries, sizes 0 and 3, pages of 2, 2 threads, `WordSize` 5 | a user range spans two pages, with an offset, and runs out of entries half way; a second one wraps the sum; loads of up to 4 bytes in up to 3 segments, so that a slice can begin, end, or lie inside a first, middle or last segment |
| `control_device` | 3 threads, results below, at and above 0 | two pollers woken together while a third is between check and record; the device comes and goes any number of times |
| `driver_lifecycle` | 2 cards | cards interact only through the module's state, so a second one suffices; no bound on how often anything happens |
| `port_library` | 2 threads, 3 entries or objects, 2 lists, 2 nodes, 1 handle, 4 pages; calls for up to `MaxCall` = 2 objects, texts up to `MaxText` = 2, strings up to `MaxString` = 2 | whole calls of one thread between any two steps of another; a list with a middle entry; a directory and a node below it; a text with less, equal and more room than it needs; a range of pages cut and joined both ways. `TimeWidth` = 4: times before, after and across the wrap; `ByteBase` = 4, five bytes in `HighBytes`: carries and signs |
| `info_tree_mode` | 2 nodes, 1 thread | the counterexample needs a directory and a node |
| `port_services` | words of 2 bits, 2 threads; 1 timer, 2 functions, 2 works, delays of less than one tick and of two; 3 threads under a lock | a word is changed and changed back within another's loop; a function replaced, set again and deleted at any point; one thread that wakes, or takes the lock from, two that sleep |

The passing runs fire every action and every disjunct of their next-state relations. The models
have no counters that grow without end; those the constants bound (`MaxCall`, `MaxText`,
`MaxArray`, `MaxWired`) are bounded by guards, so no state constraint is used.

## 6. Fairness

- `BlockQueue!Fairness`: every thread that can run does (weak fairness). Strong fairness for the
  three places where a thread waits for `bio_lock`: the lock is free again and again but not
  continuously, and FreeBSD's mutexes with turnstiles hand it to waiters. The core completes what
  it was given. Nothing makes GEOM issue a bio or the administrator create or destroy a disk.
- `FioState!Fairness`: a running thread gets on, and the lock is handed to whoever waits for it.
  No fairness of calls: states may stay as they are for ever.
- `ControlDevice!Fairness`: a thread inside the driver gets on, and the core calls
  `kfio_poll_wake` after it has set an alert. With that much fairness `Notified` still fails, so
  its counterexample is not a thread that merely stopped.
- `AtomicWord!Fairness`: a thread in a call gets on. `SomeoneReturns` asks no more than that some
  call returns again and again: a single loop may starve, and nothing in the code prevents it.
- `Deferred!Fairness`: the clock ticks, callouts and timeouts that are due fire, the kernel's queue
  thread runs, functions end. No owner has to call anything.
- `Synchronization!Fairness`: who is inside leaves (or waits), timeouts come, and a thread that is
  awake gets the mutex that is free again and again: strong fairness, as above. Nobody is made to
  signal, so only waits with a timeout end for certain.

## 7. What is proved

For every value of the constants that satisfies the named assumptions (any number of bios, threads,
segments, entries; any set of shapes, errors and sizes). Assumptions are only that the "none" values
are not members and that what stands for different things differs, that sizes fit the C type, that
entries and objects are finitely many, that a call's operand fits its word, and what sign errors
have; TLC evaluates them in every run.

- **`BlockQueueProofs`** proves `Spec => []IInv`, and from it type correctness, `Locking`,
  `Ownership`, `NoBufferLeaks`, `NoRequestIsLost`, `AnswersAreHonest`, `AnswersAreFinal`, and
  `Refinement`: every step is a step of `BioService` or a stutter. `OneOwner` alone is not
  inductive: the flush runs without the lock, and is alone only since `dev_state` was set under it
  (`FlushIsAlone`), the submit thread is off, and a strategy call past its check still holds the
  lock (`LockDiscipline`, `LifeState`). Honesty needs to know what buffer a bio at the device has
  (`BufferState`), and the relock what the error path has undone (`SubmitState`).
- **`FioStateProofs`** proves the invariant, `Atomicity`, `Waits`, `ComparisonsWait` and
  `Refinement` of `StateCell`: the operations are linearizable, answers included. The heart is
  `NoUpdateIsLost`: what was read under the lock is still the state when the new one is written.
- **`ControlDeviceProofs`** proves that calls are backed by a device and that the race is the
  only way to miss an alert. `RecordInv` says that a thread about to be recorded looked when there
  was no alert, and that one asleep is recorded; `LifeInv` ties the node's life to `si_drv1`.
- **`DriverLifecycleProofs`** proves the resource discipline for any number of cards. `PointersTell`
  says that the softc's pointers and the bus agree, and ties both to where the card's method
  stands; `CoreOwnsIrq` that past start-up an interrupt is out only for a card the core drives, so
  that `iodrive_pci_detach` gives it back; `LoadedIsUp` that only a complete driver has cards.
- **`ScatterGatherProofs`** proves, of `SgList` (`List!` there), that no call writes past the array,
  that a list is of one space, that no bus object outlives the list (`BusIsClean`), that pages are
  tiled, and that `uio_size` is the sum of the entries (`SizesAdd`). `CallInv` and `KernelInv` carry
  whose pages a call in progress adds; `PhaseInv` says how many bus objects there are at which
  point. Of `DmaSlice` (`Maps!`) it proves that maps and enumerations are exact and that both loops
  of a slice read inside the array. The invariant is the loops' own: `SeekInv` (what is left of the
  offset, counted from the present segment), `ExtendInv` (the length so far ends with the last
  segment), `WalkInv` (the pieces so far end where the cursor's segment does), over `SegsTile`. Of
  the two together it carries the above over, property by property (`OneSpaceHolds`,
  `NothingLeaksHolds`, `PagesTileHolds`, `ReadsInsideHolds`, `MapIsExactHolds`, `WalkIsExactHolds`;
  lemma `PartsAreKept` says that each part keeps its specification), and proves
  `GivenBackOnceHolds`, that the end of a list gives back what was made and, but for the map that
  could not be made, no more, and `MappedHolds`: what a load has mapped is what was listed then.
  What the maps need of the list is that a load is no longer than `uio_size` counts to and that
  segments and mapping come and go together (`ListInv`).
- **`PortServicesProofs`** proves of `AtomicWord` the `Refinement` of `WordCell`, for any word
  width, threads and calls: a loop's last turn finds the word it had loaded, so that what it stores
  is what one step makes of it, whatever happened in between. Of `Deferred` it proves
  `DelIsFinalAlways`: what is set or runs was the timer's function when it was set, and once
  `callout_drain` has returned neither is left. The invariant ties a timer's phase to its callout:
  only a timer in use is set, and one being drained is not set again. Of `Synchronization` it proves
  that locks and condition variables are a monitor (`SyncIsMonitor`). `SyncInv` says of each class
  of lock that its calls to take and to give back agree (`ClassInv`), that whoever is inside has the
  kernel's lock in the way its call takes it, and nobody else has it (`LockKept`), that what a
  thread was made for is in its parameters first and on its stack then (`ErrandKept`), and that a
  woken thread knows why (`WakersTold`), which is what its answer is made from.
  `ServicesTypeCorrect` and `MonitorIsImplemented` say it of the three as they run together; the
  types of words need that bit operations stay in the word, for any width.
- **`ObjectCacheProofs`** is about `ObjectCache` in the library, and about the list operations it is
  made from. The code has no sequence of a list, only links, so the invariant `CacheInv` says that
  there are sequences the links form rings of (`Ring`, `Kept`), one for the reserved list and one
  for each reservation in progress, and the rest is said of those: an object is the zone's,
  reserved, a caller's or in the hands of just one call (`Owned`), and `reserved_count` differs from
  the list's length by what who has the lock has yet to count (`Counted`). The lemmas before it show
  what an add, a deletion, a pop and a splice do to rings, on any memory, and that a walk along
  links meets just the sequence (`WalkMeets`). The difficulty is a reservation that fails: it frees
  the chain it built while walking it, with no list any more, so `ChainHolds` keeps what is left of
  it.
- **`PortLibraryProofs`** proves `Spec => []LibraryInv`, the inductive invariants of all components,
  and from it `LibraryTypes`, `LinksAgree`, `NoHandlerOnGone`, `SizeTold` and `NothingKept`, for any
  nodes, requests, pages, lists, entries, objects and threads. `InfoInv` says that a request's node
  has an oid, or one being removed, as long as the request lasts (`HandlersKnown`), so that a
  removal that has returned has left no handler, and that nothing is told before the end of the
  handler (`NothingToldYet`), and what a request may have taken where it is (`TakenInTurn`), so that
  the releases of its ways out, each on its own, leave nothing. `MemoryInv` ties what the kernel has
  made to where a call is, error paths included.
  - `ImplementsSequences` (`ListsAreSequences`): `LinkedInv` and `HashInv` again say that sequences
    exist the links are those of. Their part that is not about memory is about loops (`LoopHolds`,
    `HashLoopHolds`): a loop has a place in its list (`Placed`), where a safe one goes on was read
    before its body ran, and the body may delete only where the loop is. What it has yet to meet is
    what is behind that place (`Behind`; `WalkIsBehind`), and taking away the entry it is at leaves
    that as it is. Each operation is then one turn of the abstract lists (`SequenceTurn`).
  - `ImplementsStack` (`ListIsStack`): `AtomicInv` says that there is a chain for the shared list
    and one for what each thread has yet to meet (`Lanes`, `ChainsHold`), no entry at two places,
    and that an entry a thread adds or may add is on none and in no other hands (`HandsHold`). A new
    entry must lead to what its thread takes the head for (`AtomicShape`) and nothing else is said
    of it: when the compare finds the head equal, whatever other entries are behind it now, the
    chain grows by one. Each step is one turn of the abstract stack, or none (`StackTurn`,
    `AtomicTurns`).
  - Three algorithms that have no loop are proved for every input and width: comparisons of times
    that wrap (`PeriodsEnd`; that `2 ^ TimeWidth` is twice `Half` is a hypothesis because the
    provers know no exponents, and true of every width there is), messages of error numbers
    (`ErrorsHaveMessages`), and byte order (`BytesTurnRound`, `RegistersKeepOrder`).

Each proof has a lemma per action, or group of actions with the same footprint, and one step per
conjunct the action can disturb. What would be an induction over data (the sum of a list, the bits
of a word, how far a walk along links comes) is stated of a set of numbers instead: a set that has 0
and every successor has them all, since otherwise there were a least one missing
(`NatLessThanWellFounded`; lemma `Induction` of each module that needs it).

## 8. What is only model-checked, and what is not modelled

Only model-checked:

- all liveness properties (`DestroyEnds`, `ImplementsFairService`, `WaitEnds`, `CallsReturn`,
  `WorkIsServed`), which need fairness and ENABLED, beyond the prover used here;
- `AlgorithmsAgree`: every part of it compares an algorithm with a reference on all inputs of a
  small set. But for the three parts named above these are loops over a string's characters, a
  table's entries or a word's bits, whose results for every input only an induction over data could
  prove.

Not modelled, or external:

- The core, the utilities and the libraries are binaries. What the models assume of the core (its
  submit thread's loop, that it stops the thread before it destroys the disk, that it answers what
  it took, when it attaches and detaches) is what the calls and comments in the sources show. In the
  map these definitions are marked external, as are those of GEOM, devfs, bus_dma, poll(2), newbus.
- The `wild` calls of `BlockQueue`: `disk_destroy` does not wait for a strategy call in progress, so
  a call that had read `d_drv1` may reach a freed disk. The model stops following it there.
- Walking a list that was loaded with no segment, and maps used after their list was unmapped: the
  code reads memory that is not its own, and its callers do not do so.
- A card removed while its start-up hook waits during boot: newbus detaches nothing then.
- Parameters (`module_param.c`), debug flags (`dbgset.h`), tracing (`ktr-os.c`), `kmisc.c` and the
  configuration macros (`port_config*.h`): tunables read once, and texts; no state that changes.
- The wrappers of `malloc` and of the page allocator, of memory and string functions, of clocks and
  sleeps, and the identities of a card: single calls of the kernel.
- The barriers around atomic words: the models are sequentially consistent. Of `arch/` the bitmap
  operations of `mips_atomic.h`, macros whose statements have no value, and `fio_clear_bit_64` of
  `x86_64/bits.h`, which nothing in `src/` uses.
- Waiting for the background scan at the end of loading, and assertion failures.
- Narrow corners of C that the models widen: a time in ticks passed as an `int` to `callout_reset`
  (`driver/ktime.c:197`) is one an `int` holds; the subtraction of two `int64_t` times wraps; a
  bit field of 64 bits, whose shift C leaves undefined, has a full mask, and a value is taken to fit
  its field, of which `byteswap.h:143` asserts less; `PERIOD_OVER` counts in the unit of its clock.
- The time `fusion_condvar_timedwait_noload_elapsed` says has passed.
- That a thread was not made: the wrapper's caller cannot tell, and there is no promise to check.
- Work with a delay that outlives the structure it is in: whether the core waits for it is not
  visible in `src/`.
