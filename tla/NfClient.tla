------------------------------ MODULE NfClient ------------------------------
(***************************************************************************)
(* The client library (wfptools): nf_init brings up the driver, the        *)
(* device, the shared memory, the worker thread, the monitor and the event *)
(* handler, in this order; nf_workThread reads batches and hands them to   *)
(* the handler; nf_monitor switches the capture off and on.                *)
(*                                                                         *)
(* devctrl_opendeviceSylink opens the device without FILE_FLAG_OVERLAPPED. *)
(* The I/O manager then admits one request at a time to the file object:   *)
(* a DeviceIoControl waits until the ReadFile before it is answered,       *)
(* whatever OVERLAPPED structure that ReadFile was given.                  *)
(*                                                                         *)
(* One application thread calls nf_init once and then nf_monitor at will.  *)
(* The driver (modules PendedReads and CaptureQueue) is reduced here to    *)
(* its monitor flag, the classify calls in progress, and how many flows    *)
(* and query entries it holds: a call that saw the flag set links its flow *)
(* and then queues a query, and a read is answered once there is a query.  *)
(***************************************************************************)
EXTENDS SharedMemory

CONSTANTS MaxPending, \* bound: flows, and queries, the driver holds at a time
          MaxCalls    \* classify calls that may be in progress at a time

ASSUME PendingAssumption == MaxPending \in Nat \ {0}
ASSUME CallsAssumption == MaxCalls \in Nat \ {0}

VARIABLES
  (* the driver *)
  monitor,  \* g_monitorflag
  pending,  \* flows on the driver's list
  queries,  \* query entries
  entered,  \* classify calls that saw the flag set and have yet to link a flow
  linked,   \* ... that have linked it and have yet to queue the query
  (* the application thread *)
  app,      \* where it is: in nf_init, between calls, in nf_monitor
  result,   \* what nf_init returned; 0 until then
  request,  \* the flag DeviceIoControl is to set
  handle,   \* g_deviceHandle: "null", "open" or "closed" (and still used)
  handler,  \* g_pEventHandler is set
  (* nf_workThread *)
  worker,   \* "none", "read", "inRead", "parse" or "finished"
  batch,    \* flows of the batch in the shared buffer
  (* the environment *)
  crashed   \* the process called through a NULL g_pEventHandler

serviceVars == <<service, sc, setup, polls, installed, others>>
queueVars  == <<pending, queries, entered, linked>>
driverVars == <<serviceVars, memVars, monitor, queueVars>>
appVars    == <<app, result, request, handle, handler>>
workerVars == <<worker, batch>>
vars == <<failures, driverVars, appVars, workerVars, crashed>>

Init == /\ SetupInit
        /\ MemInit
        /\ monitor = 0
        /\ pending = 0 /\ queries = 0 /\ entered = 0 /\ linked = 0
        /\ app = "service" /\ result = 0 /\ request = 0
        /\ handle = "null" /\ handler = FALSE
        /\ worker = "none" /\ batch = 0
        /\ crashed = FALSE

Running == ~crashed

(* nf_init ends with the given status. *)
Return(status) == app' = "idle" /\ result' = status

-----------------------------------------------------------------------------
(* Plausible mistakes: what some of the actions below would be if the code *)
(* forgot a call or changed their order.  Each breaks one property.        *)

(* nf_init starts the worker before it maps the memory. *)
OpenDevice_StartsThread ==
  /\ Running /\ app = "open" /\ service \in {"running", "startPending"}
  /\ handle' = "open" /\ app' = "mem" /\ worker' = "read"
  /\ UNCHANGED <<driverVars, result, request, handler, batch, crashed,
                 failures>>

(* devctrl_InitshareMem does not close the device when it fails. *)
InitshareMemFails_NoClose ==
  /\ Running /\ app = "mem"
  /\ IF mem = "failed" THEN UNCHANGED failures
                       ELSE mem \in {"none", "opened"} /\ Fail
  /\ Return(-1)
  /\ UNCHANGED <<driverVars, request, handle, handler, workerVars, crashed>>

(* The next read is issued while the batch is still being parsed. *)
ReadFile_BeforeParsing ==
  /\ Running /\ worker \in {"read", "parse"}
  /\ worker' = "inRead"
  /\ UNCHANGED <<driverVars, appVars, batch, crashed, failures>>

(* The short batch that ends the inner loop ends the thread. *)
Parse_Finishes ==
  /\ Running /\ worker = "parse" /\ (handler \/ batch = 0)
  /\ batch' = 0 /\ worker' = "finished"
  /\ UNCHANGED <<driverVars, appVars, crashed, failures>>

(* nf_init forgets nf_setWfpCheckEventHandler. *)
SetHandler_Forgotten ==
  /\ Running /\ app = "handler"
  /\ Return(1)
  /\ UNCHANGED <<driverVars, request, handle, handler, workerVars, crashed,
                 failures>>

(* nf_monitor takes a lock that the worker holds through its loop. *)
Control_UnderLock ==
  /\ Running /\ app \in {"enable", "control"}
  /\ IF app = "enable" THEN worker # "inRead"
                        ELSE worker \in {"none", "finished"}
  /\ monitor' = request
  /\ app' = IF app = "enable" THEN "handler" ELSE "idle"
  /\ UNCHANGED <<serviceVars, memVars, queueVars, result, request, handle,
                 handler, workerVars, crashed, failures>>

(* The pop counts the packet that did not fit as taken. *)
ReadAnswered_MissesOne ==
  /\ Running /\ worker = "inRead" /\ queries > 0
  /\ batch' = pending /\ pending' = pending - batch' - 1 /\ queries' = 0
  /\ worker' = "parse"
  /\ UNCHANGED <<serviceVars, memVars, monitor, entered, linked, appVars,
                 crashed, failures>>

-----------------------------------------------------------------------------
(* nf_init.                                                                *)

(* A step of module ServiceControl.  nf_init goes on to the device, or ends
   where "sc start" did not bring the driver up in three seconds. *)
CheckService ==
  /\ Running /\ app = "service" /\ SetUpService
  /\ CASE setup' = "done"   -> app' = "open" /\ UNCHANGED result
       [] setup' = "failed" -> Return(-1)
       [] OTHER             -> UNCHANGED <<app, result>>
  /\ UNCHANGED <<memVars, monitor, queueVars, request, handle, handler,
                 workerVars, crashed>>

(* The service manager and its other clients, who go on after nf_init has
   gone on.  A driver whose device is open does not unload: it stays on its
   way to be stopped. *)
ManagerStep ==
  /\ Running /\ Manager
  /\ handle = "open" => ~StopCompletes
  /\ UNCHANGED <<memVars, monitor, queueVars, appVars, workerVars, crashed>>

(* devctrl_init and devctrl_opendeviceSylink.  driver_init makes the device
   available while DriverEntry goes on. *)
OpenDevice ==
  /\ Running /\ app = "open" /\ service \in {"running", "startPending"}
  /\ handle' = "open" /\ app' = "mem"
  /\ UNCHANGED <<driverVars, result, request, handler, workerVars, crashed,
                 failures>>

(* There is no such device, or CreateFile fails otherwise. *)
OpenDeviceFails ==
  /\ Running /\ app = "open"
  /\ IF service = "running" THEN Fail ELSE UNCHANGED failures
  /\ Return(-1)
  /\ UNCHANGED <<driverVars, request, handle, handler, workerVars, crashed>>

(* devctrl_InitshareMem: the request makes its way through
   devctrl_openMem, ... *)
MakeBuffersStep ==
  /\ Running /\ app = "mem" /\ MakeBuffers
  /\ UNCHANGED <<serviceVars, monitor, queueVars, appVars, workerVars, crashed>>

(* ... and returns with both buffers, ... *)
InitshareMem ==
  /\ Running /\ app = "mem" /\ mem = "opened"
  /\ app' = "thread"
  /\ UNCHANGED <<driverVars, result, request, handle, handler, workerVars,
                 crashed, failures>>

(* ... or it failed in the driver or outside of it.  The failure paths close
   the device, whose last handle this is (devctrl_close gives the buffers
   back), and leave m_devhandler and g_deviceHandle as they are. *)
InitshareMemFails ==
  /\ Running /\ app = "mem"
  /\ IF mem = "failed" THEN UNCHANGED failures
                       ELSE mem \in {"none", "opened"} /\ Fail
  /\ FreeBoth /\ mem' = "none"
  /\ handle' = "closed"
  /\ Return(-1)
  /\ UNCHANGED <<serviceVars, monitor, queueVars, request, handler, workerVars,
                 crashed>>

(* devctrl_workthread.  When CreateThread fails it returns 0, which nf_init
   does not take for an error. *)
StartWorker ==
  /\ Running /\ app = "thread"
  /\ \/ worker' = "read" /\ UNCHANGED failures
     \/ Fail /\ UNCHANGED worker
  /\ app' = "enable" /\ request' = 1
  /\ UNCHANGED <<driverVars, result, handle, handler, batch, crashed>>

(* nf_setWfpCheckEventHandler, after devctrl_OnMonitor. *)
SetHandler ==
  /\ Running /\ app = "handler"
  /\ handler' = TRUE
  /\ Return(1)
  /\ UNCHANGED <<driverVars, request, handle, workerVars, crashed, failures>>

-----------------------------------------------------------------------------
(* The control requests: devctrl_OnMonitor in nf_init, and nf_monitor.     *)

(* nf_monitor is called; it refuses when there is no handle, and the I/O
   manager refuses a handle that was closed. *)
Monitor(flag) ==
  /\ Running /\ app = "idle" /\ handle = "open"
  /\ app' = "control" /\ request' = flag
  /\ UNCHANGED <<driverVars, result, handle, handler, workerVars, crashed,
                 failures>>

(* DeviceIoControl is admitted to the file object when no ReadFile is in
   progress; devctrl_dispatch sets the flag and completes it at once. *)
Control ==
  /\ Running /\ app \in {"enable", "control"}
  /\ worker # "inRead"
  /\ monitor' = request
  /\ app' = IF app = "enable" THEN "handler" ELSE "idle"
  /\ UNCHANGED <<serviceVars, memVars, queueVars, result, request, handle,
                 handler, workerVars, crashed, failures>>

(* It fails.  nf_init and nf_monitor return -2; nf_init leaves what it has
   set up as it is: the handle open, the buffers mapped, the worker running,
   and no event handler. *)
ControlFails ==
  /\ Running /\ app \in {"enable", "control"}
  /\ worker # "inRead" /\ Fail
  /\ IF app = "enable" THEN Return(-2) ELSE app' = "idle" /\ UNCHANGED result
  /\ UNCHANGED <<driverVars, request, handle, handler, workerVars, crashed>>

-----------------------------------------------------------------------------
(* nf_workThread.                                                          *)

(* ReadFile: the request is parked by devctrl_read1.  The calls that follow
   it (the wait for g_ioEvent, GetOverlappedResult) find it completed. *)
ReadFile ==
  /\ Running /\ worker = "read"
  /\ worker' = "inRead"
  /\ UNCHANGED <<driverVars, appVars, batch, crashed, failures>>

(* devctrl_read1 refuses the request at once (it cannot map its MDL): the
   thread returns. *)
ReadRefused ==
  /\ Running /\ worker = "read" /\ Fail
  /\ worker' = "finished"
  /\ UNCHANGED <<driverVars, appVars, batch, crashed>>

(* The driver fills the shared buffer with the flows it holds and completes
   the request: all of them, maybe none, or those that fit, with a query left
   for the rest.  How: module CaptureQueue. *)
ReadAnswered ==
  /\ Running /\ worker = "inRead" /\ queries > 0
  /\ \E n \in 0..pending, left \in 0..queries :
       /\ batch' = n /\ pending' = pending - n /\ queries' = left
       /\ IF n = pending THEN left = 0 ELSE n > 0 /\ left > 0
  /\ worker' = "parse"
  /\ UNCHANGED <<serviceVars, memVars, monitor, entered, linked, appVars,
                 crashed, failures>>

(* devctrl_serviceReads fails the request (no memory for its MDL), or the
   wait fails: "goto finish", CancelIo, and the thread returns. *)
ReadFails ==
  /\ Running /\ worker = "inRead" /\ queries > 0 /\ Fail
  /\ worker' = "finished"
  /\ UNCHANGED <<driverVars, appVars, batch, crashed>>

(* The parse loop and handleEventDispath, which calls g_pEventHandler
   unchecked.  What reaches the handler: module FlowTable. *)
Parse ==
  /\ Running /\ worker = "parse" /\ (handler \/ batch = 0)
  /\ batch' = 0 /\ worker' = "read"
  /\ UNCHANGED <<driverVars, appVars, crashed, failures>>

ParseWithoutHandler ==
  /\ Running /\ worker = "parse" /\ ~handler /\ batch > 0
  /\ crashed' = TRUE
  /\ UNCHANGED <<driverVars, appVars, workerVars, failures>>

-----------------------------------------------------------------------------
(* The classify callouts of the driver.  (The model ends with the process: *)
(* a crash closes its handles.)                                            *)

(* A flow is established, and the callout finds the monitor on. *)
Classify ==
  /\ Running /\ monitor = 1 /\ entered + linked < MaxCalls
  /\ entered' = entered + 1
  /\ UNCHANGED <<serviceVars, memVars, monitor, pending, queries, linked,
                 appVars, workerVars, crashed, failures>>

(* It links the flow, whatever became of the monitor, ... *)
LinkFlow ==
  /\ Running /\ entered > 0
  /\ pending < MaxPending /\ queries + linked < MaxPending
  /\ entered' = entered - 1 /\ linked' = linked + 1
  /\ pending' = pending + 1
  /\ UNCHANGED <<serviceVars, memVars, monitor, queries, appVars, workerVars,
                 crashed, failures>>

(* ... and pushes a query, for which there may be no memory. *)
PushQuery ==
  /\ Running /\ linked > 0
  /\ linked' = linked - 1
  /\ \/ queries' = queries + 1 /\ UNCHANGED failures
     \/ Fail /\ UNCHANGED queries
  /\ UNCHANGED <<serviceVars, memVars, monitor, pending, entered, appVars,
                 workerVars, crashed>>

-----------------------------------------------------------------------------

NfInit == \/ CheckService \/ OpenDevice \/ OpenDeviceFails
          \/ MakeBuffersStep \/ InitshareMem
          \/ InitshareMemFails \/ StartWorker \/ SetHandler

Worker == ReadFile \/ Parse \/ ParseWithoutHandler

Callouts == Classify \/ LinkFlow \/ PushQuery

Next == \/ NfInit \/ Control \/ ControlFails
        \/ \E flag \in {0, 1} : Monitor(flag)
        \/ Worker \/ ReadRefused \/ ReadAnswered \/ ReadFails
        \/ Callouts \/ ManagerStep

Spec == Init /\ [][Next]_vars

(* The two threads run, the driver answers a read it can answer, classify
   calls go on, and flows keep being established.  The file object wakes the
   thread that waits for it each time a request ends, so a control request
   that finds it free again and again is admitted: strong fairness. *)
Fairness == /\ WF_vars(NfInit)
            /\ SF_vars(Control)
            /\ WF_vars(Worker)
            /\ WF_vars(ReadAnswered)
            /\ WF_vars(Classify)
            /\ WF_vars(LinkFlow)
            /\ WF_vars(PushQuery)

FairSpec == Spec /\ Fairness

-----------------------------------------------------------------------------
(* Properties.                                                             *)

(* Every variable keeps its type. *)
TypeOK ==
  /\ SetupTypeOK /\ MemTypeOK
  /\ monitor \in {0, 1} /\ request \in {0, 1}
  /\ handler \in BOOLEAN /\ crashed \in BOOLEAN
  /\ pending \in 0..MaxPending /\ batch \in 0..MaxPending
  /\ queries \in 0..MaxPending
  /\ entered \in 0..MaxCalls /\ linked \in 0..MaxCalls
  /\ app \in {"service", "open", "mem", "thread", "enable", "handler",
              "idle", "control"}
  /\ result \in {-2, -1, 0, 1}
  /\ handle \in {"null", "open", "closed"}
  /\ worker \in {"none", "read", "inRead", "parse", "finished"}

(* An nf_init that gave up before its control request (it returns -1) leaves
   nothing at work, whatever nf_monitor calls follow: no worker, no handle
   that reaches the device, and a driver that does not capture.  Not so when
   that request is what failed (-2): device and worker stay, and nf_monitor(1)
   starts the capture. *)
EarlyFailureIsQuiet ==
  result = -1 => /\ worker = "none" /\ handle # "open"
                 /\ monitor = 0 /\ entered = 0 /\ linked = 0 /\ pending = 0

(* However far the buffers had got and whichever call failed, an nf_init that
   failed leaves no half of them: no page and no mapping, in the kernel or in
   the client, or, when it was the control request that failed, both buffers
   whole, and open the handle whose end gives them back. *)
FailedInitLeavesNoHalf ==
  result < 0 => IF result = -1
                THEN \A b \in Buffers : live[b] = {}
                ELSE /\ \A b \in Buffers : live[b] = Parts /\ fields[b] = Parts
                     /\ handle = "open"

(* No read is in progress before the buffers the driver will fill for it are
   mapped, and the worker's own buffer pointer with them: nf_init starts the
   worker after devctrl_InitshareMem. *)
ReadsAreMapped == worker \in {"inRead", "parse"} =>
                   \A b \in Buffers : fields[b] = Parts

(* handleEventDispath calls g_pEventHandler unchecked.  It can be NULL then
   only between the monitor being switched on by nf_init and the next call,
   nf_setWfpCheckEventHandler, or for good after an nf_init whose control
   request failed: once nf_init has returned 1 no batch crashes the client. *)
CrashWindow == crashed => \/ app = "handler" /\ result = 0
                          \/ result = -2

(* The buffer is shared and there is one of it: the driver fills it only for
   a read, so a batch stays as it is until the worker has parsed all of it. *)
BatchIsStable == [][batch # 0 => batch' \in {0, batch}]_vars

(* What the driver holds is fetched, also when the monitor has been switched
   off: there is a query for it, or somebody about to push one, and the worker
   reads again after every batch, with flows in it or not.  Unless a failed
   call ended it, or a batch came before the handler. *)
PacketsAreFetched ==
  pending > 0 ~> \/ batch > 0 \/ failures > 0
                 \/ crashed /\ result = 0

(* A control request that is made while the monitor is on gets through: the
   flows that are established end the read it waits for, and the worker has a
   handler to give them to. *)
RequestWhileOnReturns ==
  app = "control" /\ monitor = 1 ~> app # "control" \/ failures > 0

(* Every nf_init and nf_monitor call returns.  The read loop is said to read
   asynchronously, so that a control request need not wait for packets; the
   test program resumes a paused monitor with nf_monitor(1). *)
CallsReturn == app # "idle" ~> app = "idle" \/ crashed
=============================================================================
