# WFPDriver: TLA+ models, checks and proofs

WFPDriver captures established TCP/UDP flows (and, with callouts that are
written but not registered, data-link frames) in a Windows Filtering Platform
driver, hands them through shared memory to a client library, and answers the
question "which process owns this ip:port?". This directory holds TLA+ models
of that program, translated from its source, the TLC configurations that check
them and proofs for the TLA+ proof system TLAPS. `PROJECT.json` lists the runs,
the mutants that show each property can fail, the source lines behind every
definition, the findings, the hazards and the theorems.

    tlc -workers 2 -config PendedReads_safety.cfg MCPendedReads
    tlapm PendedReads_proofs.tla

The commands for the other runs and proofs are of the same form: section 3
names each run's configuration, and its module is the one named `MC` and the
part before the underscore.

## 1. Inventory

| Component | Source | State | Operations |
|---|---|---|---|
| Control device, reads | `wfpdriver/devctrl.c` | `g_pendedIoRequests`, `g_sIolock`, `g_ioThreadEvent`, `g_shutdown`, each IRP's cancel flag and routine | `devctrl_read1`, `devctrl_cancelRead`, `devctrl_ioThread`, `devctrl_serviceReads`, `devctrl_free` |
| Capture queue | `devctrl.c`, `establishedctx.c`, `datalinkctx.c` | one packet list per layer, `g_IoQueryHead`, `g_inBuf`, `g_monitorflag` | push, two pops, `devctrl_fillBuffer`, create, openMem, monitor on/off, close |
| WFP callouts | `callouts.c` | callout registrations, GUIDs, lookaside lists, engine session | classify (flow, MAC), `callout_init`, `callout_free` |
| Driver load and unload | `driver.c` | device, symbolic link, subscription to the filtering engine's state | `DriverEntry`, `bfeStateCallback`, `driverUnload` |
| Client start-up and worker | `wfptools/devctrl.cpp`, `wfptools/main.cpp` | device handle, shared buffers, `g_pEventHandler` | `nf_init`, `nf_workThread`, `nf_monitor` |
| Flow table and lookup | `wfptools/main.cpp`, `wfptools/devctrl.cpp` | `flowestablished_map` | parse loop, `establishedPacket`, `nf_getprocessinfo` |
| Path translation | `wfptools/main.cpp` | none | `DeviceDosPathToNtPath` |
| Shared memory | `wfpdriver/devctrl.c` | `g_inBuf`, `g_outBuf`: pages, kernel and user mapping | `devctrl_openMem`, `devctrl_createSharedMemory`, `devctrl_freeSharedMemory` |
| Service set-up | `wfptools/main.cpp` | the Windows service | `GetServicesStatus`, `CreateDriver`, `StartDriver`, `nf_driverInstall`, the first part of `nf_init` |

Not part of the running program: `flowctl.c` and `util.c` (no callers),
`HlprDriverAlpc.c` and `HlprServerAlpc.cpp` (start-up commented out, the server
not in the project file), `eventQueue.h` and `threadpool.h` (never
instantiated). `wfptools_nf` is a test program that calls the library.

**Interaction.** A classify callout copies the packet, links the copy to its
layer's list, pushes a query entry and sets an event. The I/O thread wakes up,
takes one parked read, drains the queries into the shared buffer, and completes
the read with the number of bytes. The client's worker thread walks the buffer,
calls the event handler per record and reads again. Control codes on the same
handle switch the capture on and off. Closing the handle drains everything.

**What is hard.** Cancellation races with parking and servicing, across two
locks of which the driver owns one. The pops release their lock between taking
a packet and putting it back when it does not fit. Callouts test the monitor
flag without a lock while a close drains. One auto-reset event is shared by
reads and pushes. The handle is synchronous, so requests on it wait for each
other. The two sides of the buffer have separate declarations of its records.
The table is read without its mutex. The service manager works asynchronously
and the client polls it with limits. The close frees the buffer the I/O thread
writes to, and the unload deletes lists before it has waited for that thread. `PROJECT.json` lists each of these hazards
with its line and the properties about it.

**What makes each part correct.** Reads: each answered once, by one party, and
none asleep on work. Queue: a packet in one place at a time, nothing freed in
use, no packet without a query to fetch it, no write outside of the buffer.
Client: a device opened only when its driver is up, nobody else's driver
stopped, buffers before reads, batches parsed before they are overwritten, no
half of anything left behind by a failed start, calls that return. Table: what is delivered is found, the newest flow
wins, a lookup returns the flow it asked for, a path its own drive. Driver:
lists that outlive their users, and nothing of it in the engine once it is gone.

## 2. Modules

| Module | Models | Lines of the code |
|---|---|---|
| `ReadRequests` | what the device promises the I/O manager about reads | |
| `PendedReads` | the read side of the device; implements `ReadRequests` | `devctrl.c` 230-304, 440-626, 755-891 |
| `Deliveries` | what the capture path promises its client | |
| `CaptureQueue` | callouts, packet and query lists, pops, buffer, device requests; implements `Deliveries` | `devctrl.c` 42-228, 358-438, 500-860, `establishedctx.c`, `datalinkctx.c`, the classify functions of `callouts.c` |
| `Devctrl` | `PendedReads` and `CaptureQueue` on one query list | the same lines of `devctrl.c` |
| `DriverLifecycle` | `DriverEntry`, the filtering engine's state callback, `callout_init` and `callout_free`, unload | `driver.c`, `callouts.c` 639-728, 820-1169 and the flow classify function, `devctrl.c` 440-543 |
| `ServiceControl` | how `nf_init` gets the driver's service running | `main.cpp` 283-537 and `nf_init` 548-600 |
| `SharedMemory` | the two shared buffers, part by part; extends `ServiceControl` | `devctrl.c` 57-228 |
| `NfClient` | start-up, worker and monitor requests of the client; extends `SharedMemory` | `wfptools/devctrl.cpp`, `nf_init` and `nf_monitor` of `main.cpp` |
| `NtPath` | device paths to drive letters | `main.cpp` 743-786 |
| `FlowTable` | record framing, parse loop, table, lookup; extends `NtPath` | `devctrl.cpp` 214-338, `main.cpp` 26-72 and 653-701 |
| `ListFacts` | lemmas about sequences that the proofs share | |
| `*_proofs` | theorems about `PendedReads`, `CaptureQueue`, `Devctrl`, `NfClient`, `DriverLifecycle`, `FlowTable` | |
| `MC*` | the same modules with model values and symmetry for TLC | |

In each module a section "Plausible mistakes" holds mutated forms of actions;
they are not part of the specification and exist to show, one per property,
that the property notices the mistake.

### PendedReads

One action per step of a thread. `rd[i]`, `cx[i]` and `io` are the program
counters of the thread that dispatches read `i`, of the one that cancels it and
of the I/O thread. `g_sIolock` is a variable because `IoCancelIrp` (modelled
from its use: it sets `irp->Cancel`, then swaps the cancel routine out and
calls it) does not take it, so what happens between two accesses to an IRP
inside a critical section matters. A critical section that touches only
lock-protected state is one action with the guard "lock free". Pops succeed or
fail at will; the packets are in `CaptureQueue`. Classify calls push at any
time, also after `devctrl_free` has drained the query list, since nothing in
`devctrl.c` stops them. `answers[i]` records every
`IoCompleteRequest`, so a double completion is visible and not an error of the
model.

### CaptureQueue

`linked[k]` is a layer's list, `queries` the query list, both with the head
first: the code inserts at the head. A classify call tests the flag, links,
and pushes its query in three actions. `PopFlow` is the critical section that
drains the flow list until a record does not fit; the packet in hand (`back`)
is relinked by `Relink` and its query by `Requeue`, each a critical section of
its own, as in the code. `Fits` is the code's unsigned comparison, modulo
`Wrap`. Closing is one action per list entry, because the code releases the
lock for every entry. A fill starts whenever there are a read and a query;
that this is justified is the subject of `Devctrl`. `brim` records that frames
have filled the buffer to its last byte: then the flow pop's unsigned
`bufferLength - offset - 1` wraps, and the next flow would be written past the
end. `WritesInBounds` excepts exactly that case; it needs the data-link
callouts, which are not registered.

### Devctrl

`PendedReads` and `CaptureQueue` are two views of one file: in the first the
query list is a length and the pops succeed at will, in the second the read is
outstanding or not and is served at will. `Devctrl` instantiates both on the
same `g_IoQueryHead`. A step of the code that both know is the conjunction of
their two actions (`Q!PushQuery(p) /\ P!PushQuery`), so neither module's
guesses remain: a pop succeeds if the list says so, a fill starts if the event,
the scan and the cancel routine say so. `Devctrl` names what each half assumes
of its constants as assumptions of its own, which the run evaluates for this
instance. `ServesReads` is `CaptureQueue`'s
fairness assumption, here checked as a property; `QueuedIsDelivered` is stated
without it.

### ServiceControl, SharedMemory, NfClient

The three modules are one state machine in three files, in the order in which
`nf_init` goes through them. `ServiceControl` has the client's calls and the
service manager's own steps: a start or stop that was accepted completes some
time later, or fails. Other clients (`OtherClient`) create the service, start
it and stop it whenever that is possible and as often as they like, so whatever
the code has learnt of the service may be stale at its next call; `others`
records which of the three they did. The polling loops are counted by `polls`; "sc start" is a
process of its own, with three seconds of head start that guarantee nothing.
`SharedMemory` makes each buffer in three calls, of which the driver remembers
nothing until all three have succeeded (`fields`), and frees what there is.
In `NfClient`, `app` is the program counter of the thread that calls `nf_init`
and `nf_monitor`, `worker` that of `nf_workThread`. The device is opened without
`FILE_FLAG_OVERLAPPED`; for such a handle the I/O manager admits one request at
a time, so `Control` has the guard `worker # "inRead"`. The driver is its flag,
numbers of flows and queries, and the classify calls in progress: the test of
the flag, the linking and the push of the query are steps of their own, so a
flow may be captured after the monitor went off, and a query may be served
with no flow left for it (`ReadAnswered` with an empty batch). Failing calls are
actions. `nf_init` gives up with -1 before its control request and with -2 when
that request is what failed (`ControlFails`); in the second case it leaves the
handle open, the buffers mapped and the worker running, without a handler. The
process ends at a call through the NULL handler. The device can be opened as
soon as the service is starting, because `driver_init` makes it available
before `DriverEntry` returns.

### FlowTable

The driver writes records at multiples of 15 + 1120 bytes, the client looks for
them at multiples of 12 + 1120: `RecordAt` says what it finds. `operator[]` and
`operator=` of the table are separate steps, the latter one per field, because
`nf_getprocessinfo` takes no mutex; a search while a node is being inserted may
miss (`FindFails`). `asked` and `info` are the caller's arguments and result.
`NtPath` says which drives the translation of a path may name: the loop over
the letters, the comparison of the device name with the beginning of the path
(`Begins` relates two device names of which one begins the other, as
`HarddiskVolume1` begins `HarddiskVolume10`), and its two ways to give up.

### DriverLifecycle

`pc["sys"]` is the thread that runs `DriverEntry` and `driverUnload`,
`pc["bfe"]` the filtering engine's notification; both run the steps of
`callout_init` and `callout_free`, which therefore take the thread. Each call
that can fail is a step with a failing twin, so that the engine, the client and
classify calls come in between. The engine's objects are sets of
`<<run, layer>>`, because `callout_init` makes new GUIDs each time; closing the
session, or the end of the engine, removes the filters but not the registered
callouts, which `callout_free` never unregisters: it passes the engine handle
where `FwpsCalloutUnregisterByKey` wants the key. `AsBOOLEAN` is what is left
of an NTSTATUS that is returned as a `BOOLEAN`. `lists` follows the five
lookaside lists; `misused` records each that is deleted or set up in the wrong
state. `device` tells the device object from its symbolic link: when the link
fails, `driver_init` and `DriverEntry` leave the object where it is
(`CreateLinkFails`). Assumed of the outside: an unload is not begun while the device is open,
notifications come one at a time, and unsubscribing waits for one in progress.
A thread handle that was just created can be referenced (`devctrl.c:492`
asserts it).

## 3. Runs

| Run | Instance | Shows |
|---|---|---|
| `PendedReads_safety` | 3 reads at once, each cancellable, 1 push, unload | `OneOwner`, `AnsweredIsGone`, `CancelFindsEntry`, `ThreadHoldsNoEntry`, refinement of `ReadRequests` |
| `PendedReads_live` | 2 reads one after the other, 2 pushes | `NoLostWakeup`; cancelled and serviceable reads are answered; the unload ends |
| `CaptureQueue_mixed` | 3 flows and 2 frames, a buffer that one flow and two frames fill exactly, 1 failure, 2 sessions | `FreedIsGone`, `PacketIsSomewhere`, `WritesInBounds`, `PacketsHaveQueries`, refinement of `Deliveries` |
| `CaptureQueue_paused` | 3 flows | **violated**: `PausedCapturesNothing` |
| `Devctrl_serves` | 2 reads, a flow and a frame that do not fit together, 1 failure, 1 session | `ServesReads`, `QueuedIsDelivered`, `CloseFindsIdle` |
| `NfClient_calls` | every state of the service, other clients, 3 polls, 2 flows and 2 classify calls, 1 failure | `OpensWhenUp`, `StopsOnStaleStatus`, `SetupEnds`, `EarlyFailureIsQuiet`, `FailedInitLeavesNoHalf`, `ReadsAreMapped`, `CrashWindow`, `BatchIsStable`, `PacketsAreFetched`, `RequestWhileOnReturns` |
| `NfClient_blocked` | 1 flow, no failure, 10 polls | **violated**: `CallsReturn` |
| `FlowTable_lookup` | 4 flows, 3 on one port; 4 drives, one whose device name begins two others | `ResultIsOfThePort`, `PathIsOnItsDrive`, `NewestWins`, `NewestIsInTable` |
| `FlowTable_framing` | the same | **violated**: `DeliveredIsDispatched` |
| `FlowTable_address` | the same | **violated**: `LookupMatchesAddress` |
| `DriverLifecycle_unload` | 2 classify calls, 2 layers, 2 starts of the engine, 1 failure | `GoneIsQuiet`, `CallsFindLists`, `ListsPairUp`, `SetUpEnds` |
| `DriverLifecycle_error` | 1 start, 1 failure | **violated**: `CalloutErrorFailsLoad` |

Every passing run but `PendedReads_live` and `Devctrl_serves` also checks its
module's type invariant.

**Findings.** The violated properties quote a comment or a document of the
repository.

1. A classify call that has passed the test of `g_monitorflag` captures after
   `nf_monitor(0)`, or a close, has returned (`callouts.c:155`).
2. `nf_init` may never return: its control request waits for the worker's
   `ReadFile`, which waits for packets that only a monitor that is on captures
   (`devctrl.cpp:89` and `:264`). The same happens to `nf_monitor(1)` after a
   pause. `RequestWhileOnReturns` is the part that holds: while the monitor is on and
   packets come, requests get through.
3. Of a batch only the first record is dispatched, because driver and client
   disagree by three bytes about the record header (`devctrl.cpp:331`).
   `NewestIsInTable` is the part that holds: the first record is the newest flow.
   `NewestWins` holds only because of this: with a common header and the list
   as it is, an older flow of a batch would replace a newer one (its mutant).
4. A lookup ignores the local address (`main.cpp:684`).
5. `callout_init` returns its NTSTATUS as a `BOOLEAN`: `DriverEntry` takes every
   failure for success and never gets to its failure path (`callouts.c:1052`).

The properties of `DriverLifecycle` say exactly when the code keeps a promise,
and except what it does not keep: `ListsPairUp` needs one run of `callout_init`
that does not fail half-way, `GoneIsQuiet` an engine that does not start during
the unload, `CallsFindLists` calls that were not in progress when it began. No
comment or document promises more, so these are hazards and not findings. The
same goes for the device object that a failed symbolic link leaves
(`driver.c:46-49`), which `GoneIsQuiet` excepts.

Likewise in `NfClient`. `StopsOnStaleStatus` says when `nf_init` stops a running
driver, and with it another client's capture: after a failed call, or when
another client created and started the service after `GetServicesStatus` had
found none; in both cases it does happen (`main.cpp:305`). `EarlyFailureIsQuiet`
excepts the status -2, after which `nf_monitor(1)` may start the capture, and
`CrashWindow` names the two ways to the NULL handler: a packet between the last
two calls of `nf_init` (`main.cpp:637` and `:645`), and a packet after an
`nf_init` that returned -2. `PacketsAreFetched` excepts failed calls: after one the driver may
fill up with nobody reading (`devctrl.cpp:72` and `:264`).

**A comment the code does not follow.** Above the computation of the table's key
`main.cpp:32-34` says "TCP - UDP 不同协议相同端口将覆盖，因为需求不需要保存所有的包":
different protocols on the same port overwrite each other, because not every
packet needs to be kept. The code does not: it adds 1000000 to a TCP port and
2000000 to a UDP port, the table keeps both flows, and `nf_getprocessinfo`
searches for the one with the caller's protocol. The model follows the code, and
`ResultIsOfThePort`, which says that protocols are kept apart, contradicts the
comment.

**Bounds, and why they suffice.** Three reads are the least that put one
cancelled IRP before another on the list while a third is being parked or
serviced; each is issued once because nothing about an answered IRP is used
again. Two pushes let a second query arrive while the first is being served.
The
mixed buffer (8 units, records of 4 and 2, where the program has 6553600 bytes
and records of 1135 and 75) overflows on either kind with records already
copied, is filled to the last byte by one flow and two frames, and takes one
flow only where two would need the byte the flow pop keeps free. Two sessions
let the remains of one reach the next, and the second meets queries whose
packets the close has drained. In `Devctrl` the buffer holds one of the two
packets, so a fill fails half-way, and the second read is what fetches the
rest; once all reads are answered, the property asks no more. One
allocation failure is enough, as the code keeps no count of failures. In
`NfClient` two flows and two classify calls make batches that take none, some or
all of the flows, a query pushed after its flow was fetched, and a flow linked
while another is being fetched. Three polls, for the code's ten, let each loop
end early, late and at its limit. One failed call reaches every failure path;
what its properties say of behaviours with failures they say from the first one
on. The theorems hold for every number of polls, flows, calls and failures. In `FlowTable` two flows
share a key, a third differs from them by protocol and a fourth by port; sizes
are those of the program. Of the four drives one is skipped (A:), and the one
whose device name begins others has one of these before it in the list and one
after it. In `DriverLifecycle` a second start of the engine is
the first that runs `callout_init` again, one failure reaches each failure path,
and of two calls one can be overtaken by the unload while another starts late.
Symmetry (reads, flows, frames of one kind) is used
in runs without liveness properties only.

**Fairness.** Threads inside the driver keep running, and the in-stack queued
spin lock is handed over in order of arrival: weak fairness per thread. The
client's worker reads again after every answer. Nobody is obliged to read,
cancel, push, close, switch the monitor or unload. In `Devctrl` each thread
(the dispatch and the cancellation of a read, the I/O thread, each classify
call between link and push, the signal that follows a push) is weakly fair, the
client goes on reading, and nothing one of the two modules does for the other
is assumed. In `NfClient` the calls of
`nf_init` return, so its polling loops advance; the service manager need not
finish anything, and the other clients may go on for ever (`SetupEnds` holds
because of the limits). Flows keep being established while the monitor is on
(that is the premise of its liveness properties), a classify call in progress
goes on, and a control request that finds the file object free again and
again is admitted: strong fairness, as the I/O manager signals the waiting
thread at the end of every request. `NfClient` is checked without deadlock
checking because the program may stop: finding 2, and a crashed process; so is
`DriverLifecycle`, whose driver may be gone for good.

## 4. Proofs

Each `*_proofs` module proves its component's safety properties for every value
of the constants, under the assumptions that the component's module names: sets
of packets, reads, flows and calls of any size, any record and buffer sizes, any
bounds. Each has an inductive invariant `IInv`, a lemma for the initial states,
one lemma or step per action, and theorems that follow from `IInv`. `ListFacts`
holds what the proofs need to know about appending to, prefixing, splitting and
deleting from a sequence.

| Module | Proved of its specification: what the runs check |
|---|---|
| `PendedReads_proofs` | `TypeOK`, `OneOwner`, `AnsweredIsGone`, `CancelFindsEntry`, `ThreadHoldsNoEntry`, `ImplementsReadRequests`; `NoLostWakeup` for one outstanding read |
| `CaptureQueue_proofs` | `TypeOK`, `FreedIsGone`, `PacketIsSomewhere`, `WritesInBounds`, `PacketsHaveQueries`, `ImplementsDeliveries` |
| `Devctrl_proofs` | `CloseFindsIdle`; every behaviour is one of `PendedReads` (with one outstanding read, hence with `NoLostWakeup`) and one of `CaptureQueue` |
| `NfClient_proofs` | `TypeOK`, `OpensWhenUp`, `StopsOnStaleStatus`, `EarlyFailureIsQuiet`, `FailedInitLeavesNoHalf`, `ReadsAreMapped`, `CrashWindow`, `BatchIsStable` |
| `DriverLifecycle_proofs` | `TypeOK`, `GoneIsQuiet`, `CallsFindLists`, `ListsPairUp` |
| `FlowTable_proofs` | `TypeOK`, `ResultIsOfThePort`, `PathIsOnItsDrive`; `NewestWins` and `NewestIsInTable` if the client's record header is shorter than the driver's |

The second table lists theorems that go beyond the runs' properties: the safety
on which the liveness properties rest, and how far each finding reaches. Their
statements are defined next to the theorems.

| Module | Proved besides |
|---|---|
| `PendedReads_proofs` | `LockHasHolder`: the list's lock is never left behind; `CancelledIsAttended`: no cancelled read is parked with no canceller on the way to it; `UnloadIsHeard`: while `devctrl_free` waits, the I/O thread has ended, is looking at `g_shutdown` or has the event |
| `CaptureQueue_proofs` | `LeavesAByte` if every packet is a flow, as in the build whose `callouts.c:868-884` is commented out: no pop's unsigned subtraction wraps; `MacHasPacket`: with no failure and no close a query for a frame finds one |
| `Devctrl_proofs` | `Deliveries` and `ReadRequests` are implemented by the device put together; `WaitsAgree` and `HalvesAgree`: the two halves are at matching places of a read, a fill, a cancellation and a push; `ReadsAreServed`: with a read and a query waiting somebody is on the way to serve |
| `NfClient_proofs` | `WorkerLives`: success means a worker that reads, if no call failed; `Blocked` is for good (finding 2) |
| `DriverLifecycle_proofs` | `LoadedIsReady`: a driver that has loaded has its device, its link, its thread and its lists; `InitAlwaysLoads`: no status of `callout_init` makes `DriverEntry` fail (finding 5) |
| `FlowTable_proofs` | `OnlyFirst`: with headers like the program's exactly the first flow of a batch is ever dispatched, and with equal headers `DeliveredIsDispatched` (finding 3); `LookupMatchesAddress` if no two addresses share a port (finding 4) |

**PendedReads.** `OneOwner` is not inductive, because it does not say which
stages of reader and canceller go together. `IInv` lists, for every read, the
joint stages (`IrpStage`): not yet armed; armed with the lock held; parked with
its routine set; parked with the routine taken by a canceller that is at the
list's door; unlinked by the canceller; taken by the service; answered. It adds
that the list has no duplicates, that the lock is held by one thread at a time,
and that the I/O thread holds an IRP exactly in the stages after the scan. The
refinement follows from it: each action answers one unanswered read
(`CompletionAnswers`), issues or cancels one, or leaves the abstract state alone
(`SilentStutters`). `DeleteIsSafe` needs a second invariant, `UnloadQuiet`: once
the unload has begun no read is unanswered, so the I/O thread never again gets
to a query, whatever classify calls in progress still push. What becomes of
their entries it does not say: the list they allocate from is deleted. `WakeupIsNotLost` needs that the one read is alone on the list
(`HoldingIsAlone`), that the entries a scan has passed are being cancelled
(`ScanPassed`), and that for a read and a query that wait the I/O thread is
looking or will be woken (`Alert`); with two reads outstanding the statement is
false. `CancelledIsAttended` and `UnloadIsHeard` are what `CancelledReadAnswered`
and `UnloadEnds` come down to when fairness is set aside: a cancelled entry on
the list has a thread that will unlink it, and the event of `devctrl_free`
cannot be used up by a turn that misses `g_shutdown`, because the flag is set
before the event (`ShutdownStage`).

**CaptureQueue.** `IInv` says that the lists have no duplicates and only packets
of their kind (`ListsAreSound`); that lists, I/O thread, buffer, client and
dropped packets share none (`PlacesAreApart`); that only used packets are freed;
what the I/O thread holds at each of its stages (`FillStage`, `FillIsRead`); and
that a fill by flows alone leaves a byte of the buffer free (`ByteIsFree`),
which is what keeps the unsigned comparison of the pops exact (`FitsIsExact`)
until frames fill the buffer. The hard step is `PopFlow`, which divides a list
in what is copied, what comes back and what stays (`FlowsDivide`).
`PacketsHaveQueries` (theorem `QueriesSuffice`) is inductive together with
`IInv` once it is known that only finitely many calls are between linking a
packet and pushing its query (`FewPushing`), so that they can be counted: the
queries of a kind are those queued, the one in hand and those about to be pushed
(`SupplyParts`); a quiet step moves them between these places (`QuietSupply`),
a new packet brings its own (`LinkQueries`), and a pop that keeps its query has
what it did not copy in its hands (`PopQueries`). For frames, of which a pop
takes one per query, the count is exact (`MacsMatch`), so the pop of an empty
list is out of reach (`FrameQueryFindsFrame`). `FlowsAreBounded` needs no more
than that only a frame can fill the buffer to the brim (`NoBrim`).

**Devctrl.** Each action of the composition is an action of `PendedReads` or
leaves its variables alone (`StepReads`), and likewise for `CaptureQueue`
(`StepQueues`), so the theorems of both modules hold of the device put
together; those of `PendedReads` are cited through an instance of its proof
module (`R`). `CloseFindsIdle` relates the two halves: `CloseInv` says that an
IRP the driver has and has not answered is one the client waits for
(`ClientWaits`), and that a waiting client is in a running session with its
buffers mapped (`SessionStage`). That the wait ends only with the last
unanswered read (`WaitEndsAnswered`) needs that there is one at a time. A
conjunction of two actions could also be a model that stops where neither half
would: `JointInv` adds `CaptureQueue`'s invariant and that both halves are at
the same place of a fill (`FillsAgree`), from which `HalvesAreInStep` follows,
and with `NoLostWakeup` also `SomebodyServes`.

**NfClient.** One conjunct per module: where the set-up of the service is and
what state it may then be in as long as no call has failed and the other clients
have not created or stopped the service (`SetupStage`), which
parts of which buffer exist at each call (`MemStage`), how start-up and
worker go together and what each failure leaves (`InitStage`, `WorkerStage`),
and that the bounds of the lists hold with the calls in progress
(`QueueStage`). That the service is started and stopped by others need not be
excepted for `StopsOnStaleStatus`: with no failed call and nobody who created
it, `CreateDriver` finds no service at all. `CrashWindow` needs in addition that
a batch comes only once the monitor was on, and when the handler is set
(`HandlerStage`). `BlockedForGood` is a statement
about every behaviour, not only those of a fair one: once the control request
waits behind a parked read with the monitor off, no query and no call in progress, no step of
any process changes that.

**DriverLifecycle.** `SysStage` says what exists at each step of loading and
unloading; `WhoInits` which of the two threads may be inside of `callout_init`;
`SessionStage` that there is at most one session, the one the engine handle
names; `CalloutLists` the state of the five lookaside lists at each of the
same steps; `CallStage` that a call that found the monitor on has a driver
whose lists are set up. `FailureIsIgnored` rests on arithmetic alone: no byte
is negative (`AnyStatusSucceeds`).

**FlowTable.** `TableStage`, `LookupStage` and `DriveStage` give the keys of the
table, the lookup and the translated path. For the order of flows `OrderInv`
adds that the head of the driver's list is the flow captured last
(`QueueStage`), that of a batch only the first, its newest, record is ever
dispatched (`BatchStage`), and that an entry of the table is at least as new as
what was dispatched for its key (`EntryStage`). The assumption about the header
lengths is the divergence of finding 3: with a common header `NewestWins` is
false, as its mutant shows. `FirstStage` turns it into the exact extent of the
finding: before the first record none of a batch was dispatched, after it that
one only. `EqualHeadersLoseNothing` assumes what the program does not have, and
serves to name the cause: with equal lengths, whatever they are, the n-th step
of the worker is at the n-th record (`Reading`), so the difference of the
headers is all that loses flows. `OneAddressMatches` says the same of finding 4:
the wrong answer takes two flows with one port on two addresses.

Of the runs' properties only model-checked: all liveness (`ServesReads`, `QueuedIsDelivered`,
`SetupEnds`, `SetUpEnds`, `PacketsAreFetched`, `RequestWhileOnReturns`,
`CancelledReadAnswered`, `ParkedReadServed`, `UnloadEnds`), which needs fairness
and ENABLED and is out of the prover's reach.

## 5. Not modelled

- Code that nothing calls: `flowctl.c`, `util.c`, `devctrl_read`, the ALPC
  channel (both ends), `eventQueue.h` and `threadpool.h`, `InstallDriver`,
  `StopDriver`, `SplitFilePath`, `FindInMultiSz`, `devctrl_clean` and
  `devctrl_waitSingeObject`. A model of it would have to invent its callers.
- The registration of the data-link and connect-redirect callouts, which is
  commented out. The data-link path itself is modelled.
- The contents of packets, paths and log messages, and which header field a
  callout copies where: the properties do not tell them apart.
- Several clients of the device at once. The device is not exclusive, so a second
  handle would share the buffers and lose them when the first is closed; the
  library opens one handle per process and no document speaks of two. (Other
  clients of the service manager are modelled, in `ServiceControl`.)
- A `DriverEntry` that fails after a client has opened the device: what requests
  on that handle meet then.
- The memory that `devtrl_popFlowestablishedData` leaks. It is visible in the
  model (`freed` grows by the last entry only), but nothing is promised about it.
- The inside of Windows: the I/O manager, the filtering engine and the service
  manager are modelled from how the code uses them, and are marked external.
