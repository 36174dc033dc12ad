--------------------------- MODULE DriverLifecycle ---------------------------
(***************************************************************************)
(* Load and unload of the driver (wfpdriver): DriverEntry, the callback    *)
(* for the state of the filtering engine, callout_init and callout_free,   *)
(* driverUnload, and what a classify call finds meanwhile.                 *)
(*                                                                         *)
(* Two threads run the driver's set-up code: "sys" loads and unloads the   *)
(* driver, "bfe" is the engine's notification.  Both may run callout_init, *)
(* with callout_free at its end, so those steps take the thread.           *)
(*                                                                         *)
(* The engine session is opened with FWPM_SESSION_FLAG_DYNAMIC: what is    *)
(* added through it disappears when the session is closed or the engine    *)
(* stops.  callout_init makes new GUIDs each time it runs: an object is    *)
(* named by the run that made it and its layer.  Only the two flow layers  *)
(* are registered; the other registrations are commented out.              *)
(***************************************************************************)
EXTENDS Integers

CONSTANTS Calls,       \* classify calls that may be in progress at a time
          Layers,      \* the layers of flow-established callouts: v4, v6
          MaxStarts,   \* bound: times the filtering engine is started
          MaxFailures  \* bound: system calls that fail in a behaviour

ASSUME BoundsAssumption == MaxStarts \in Nat /\ MaxFailures \in Nat

VARIABLES
  (* the two threads *)
  pc,         \* pc[t]: the next step of "sys" and of "bfe"
  status,     \* status[t]: the NTSTATUS at hand
  (* the driver *)
  device,     \* the device object: "none", "unlinked" or "linked", that is,
              \* with the symbolic link by which it is opened
  lists,      \* lists[l]: "none", "live" or "deleted"
  monitor,    \* g_monitorflag
  shutdown,   \* g_shutdown
  thread,     \* the I/O thread: "none", "running" or "ended"
  handle,     \* g_engineHandle; 0 is NULL
  inits,      \* runs of callout_init so far
  subscribed, \* g_bfeStateSubscribeHandle is set
  (* the filtering engine *)
  engine,     \* it runs
  starts,     \* times it was started after the driver's load began
  sessions,   \* open sessions, named by the run of callout_init
  callouts,   \* registered callouts: <<run, layer>>
  filters,    \* filters in the engine: <<run, layer>>
  (* the others *)
  client,     \* the client has the device open
  calls,      \* calls[c]: where classify call c is
  (* history *)
  failures,   \* failed system calls so far
  overtaken,  \* classify calls in progress when the unload began
  trouble,    \* "linkFailed": the symbolic link could not be made;
              \* "initFailed": callout_init failed after opening the engine;
              \* "late": the engine's callback ran while the driver unloaded
  misused     \* lists deleted or set up again in the wrong state

sysVars    == <<pc, status>>
driverVars == <<device, monitor, shutdown, thread, subscribed>>
listVars   == <<lists, misused>>
wfpVars    == <<handle, sessions, callouts, filters>>
engineVars == <<engine, starts, trouble>>
otherVars  == <<client, calls, overtaken>>
vars == <<pc, status, device, lists, monitor, shutdown, thread, handle, inits,
          subscribed, engine, starts, sessions, callouts, filters, client,
          calls, failures, overtaken, trouble, misused>>

Threads == {"sys", "bfe"}

(* The lookaside lists: one each of flow and MAC descriptions for the      *)
(* callouts, of flow and data-link packets, of query entries.              *)
Lists == {"flowInfo", "macInfo", "established", "datalink", "queries"}

STATUS_SUCCESS == 0
STATUS_UNSUCCESSFUL == -1073741823  \* 0xC0000001 in 32 bits
NT_SUCCESS(st) == st >= 0

Init == /\ pc = [t \in Threads |-> IF t = "sys" THEN "device" ELSE "idle"]
        /\ status = [t \in Threads |-> STATUS_SUCCESS]
        /\ device = "none" /\ monitor = 0 /\ shutdown = FALSE
        /\ lists = [l \in Lists |-> "none"] /\ misused = {}
        /\ thread = "none" /\ handle = 0 /\ inits = 0 /\ subscribed = FALSE
        /\ engine \in BOOLEAN /\ starts = 0
        /\ sessions = {} /\ callouts = {} /\ filters = {}
        /\ client = FALSE /\ calls = [c \in Calls |-> "idle"]
        /\ failures = 0 /\ overtaken = {} /\ trouble = {}

Goto(t, place) == pc' = [pc EXCEPT ![t] = place]

Fail == failures < MaxFailures /\ failures' = failures + 1

(* Thread t goes on at place with the status of its last call. *)
GoOn(t, place, st) == Goto(t, place) /\ status' = [status EXCEPT ![t] = st]

(* ExInitializeNPagedLookasideList and ExDeleteNPagedLookasideList. *)
SetUp(S) ==
  /\ lists' = [l \in Lists |-> IF l \in S THEN "live" ELSE lists[l]]
  /\ misused' = misused \union {l \in S : lists[l] = "live"}
Delete(S) ==
  /\ lists' = [l \in Lists |-> IF l \in S THEN "deleted" ELSE lists[l]]
  /\ misused' = misused \union {l \in S : lists[l] # "live"}

(* FwpmEngineClose, and the end of the dynamic session's objects. *)
CloseSession ==
  /\ handle' = 0
  /\ sessions' = sessions \ {handle}
  /\ filters' = {f \in filters : f[1] # handle}

(* A call to the engine can succeed: it runs and knows the session. *)
InSession == engine /\ handle \in sessions

-----------------------------------------------------------------------------
(* Plausible mistakes: what some of the actions below would be if the code *)
(* forgot a call or made it in the wrong place.  Each breaks one property. *)

(* A failed open also goes through callout_free. *)
OpenEngineFails_Frees(t) ==
  /\ pc[t] = "openEngine" /\ (engine => failures < MaxFailures)
  /\ failures' = IF engine THEN failures + 1 ELSE failures
  /\ GoOn(t, "initFreeLists", STATUS_UNSUCCESSFUL)
  /\ UNCHANGED <<driverVars, listVars, inits, wfpVars, engineVars, otherVars>>

(* callout_free does not close the engine session. *)
FreeEngine_KeepsSession(t, from, to) ==
  /\ pc[t] = from
  /\ Goto(t, to)
  /\ UNCHANGED <<status, driverVars, listVars, inits, wfpVars, engineVars,
                 otherVars, failures>>

(* driver_free does not set g_shutdown. *)
SetShutdown_Forgotten ==
  /\ pc["sys"] = "setShutdown"
  /\ Goto("sys", "monitorOff")
  /\ UNCHANGED <<status, driverVars, listVars, inits, wfpVars, engineVars,
                 otherVars, failures>>

(* Each request to switch the monitor on adds to the flag. *)
SetMonitor_Counts(flag) ==
  /\ client
  /\ monitor' = IF flag = 0 THEN 0 ELSE monitor + 1
  /\ UNCHANGED <<sysVars, device, shutdown, thread, subscribed, listVars, inits,
                 wfpVars, engineVars, otherVars, failures>>

(* devctrl_close leaves the monitor on. *)
Close_KeepsMonitor ==
  /\ client
  /\ client' = FALSE
  /\ UNCHANGED <<sysVars, driverVars, listVars, inits, wfpVars, engineVars,
                 calls, overtaken, failures>>

-----------------------------------------------------------------------------
(* callout_init and callout_free, run by thread t.                         *)

(* New GUIDs; the two lookaside lists of the callouts. *)
InitCalloutLists(t) ==
  /\ pc[t] = "initLists"
  /\ inits' = inits + 1
  /\ SetUp({"flowInfo", "macInfo"})
  /\ Goto(t, "openEngine")
  /\ UNCHANGED <<status, driverVars, wfpVars, engineVars, otherVars, failures>>

(* FwpmEngineOpen; the former handle, if any, is overwritten. *)
OpenEngine(t) ==
  /\ pc[t] = "openEngine" /\ engine
  /\ handle' = inits /\ sessions' = sessions \union {inits}
  /\ Goto(t, "addProvider")
  /\ UNCHANGED <<status, driverVars, listVars, inits, callouts, filters,
                 engineVars, otherVars, failures>>

(* A failed open returns at once, leaving the lists set up. *)
OpenEngineFails(t) ==
  /\ pc[t] = "openEngine" /\ (engine => failures < MaxFailures)
  /\ failures' = IF engine THEN failures + 1 ELSE failures
  /\ GoOn(t, "initDone", STATUS_UNSUCCESSFUL)
  /\ UNCHANGED <<driverVars, listVars, inits, wfpVars, engineVars, otherVars>>

(* A call of callout_init after the open fails: callout_free follows. *)
InitFails(t, place) ==
  /\ pc[t] = place
  /\ InSession => failures < MaxFailures
  /\ failures' = IF InSession THEN failures + 1 ELSE failures
  /\ trouble' = trouble \union {"initFailed"}
  /\ GoOn(t, "initFreeLists", STATUS_UNSUCCESSFUL)

AddProvider(t) ==
  /\ pc[t] = "addProvider" /\ InSession
  /\ Goto(t, "register")
  /\ UNCHANGED <<status, driverVars, listVars, inits, wfpVars, engineVars,
                 otherVars, failures>>

AddProviderFails(t) ==
  /\ InitFails(t, "addProvider")
  /\ UNCHANGED <<driverVars, listVars, inits, wfpVars, engine, starts, otherVars>>

(* callouts_registerCallouts: the statuses of the two registrations are    *)
(* overwritten.  Registration is no part of the transaction around it.     *)
(* Registering fails, or not, at will in the callback, which passes the    *)
(* address of g_deviceControl for the device.                              *)
RegisterCallouts(t) ==
  /\ pc[t] = "register" /\ InSession
  /\ \E S \in SUBSET Layers :
       /\ callouts' = callouts \union ({inits} \X S)
       /\ IF S = Layers \/ t = "bfe" THEN UNCHANGED failures ELSE Fail
  /\ Goto(t, "addFilters")
  /\ UNCHANGED <<status, driverVars, listVars, inits, handle, sessions,
                 filters, engineVars, otherVars>>

(* The transaction does not begin, or is not committed after the two       *)
(* registrations: the session is closed here already.                      *)
RegisterCalloutsFails(t) ==
  /\ InitFails(t, "register")
  /\ \E S \in SUBSET Layers : callouts' = callouts \union ({inits} \X S)
  /\ CloseSession
  /\ UNCHANGED <<driverVars, listVars, inits, engine, starts, otherVars>>

(* callouts_addFilters: sublayer, callouts and filters in one transaction. *)
AddFilters(t) ==
  /\ pc[t] = "addFilters" /\ InSession
  /\ filters' = filters \union ({handle} \X Layers)
  /\ GoOn(t, "initDone", STATUS_SUCCESS)
  /\ UNCHANGED <<driverVars, listVars, inits, handle, sessions, callouts,
                 engineVars, otherVars, failures>>

AddFiltersFails(t) ==
  /\ InitFails(t, "addFilters")
  /\ UNCHANGED <<driverVars, listVars, inits, wfpVars, engine, starts, otherVars>>

(* callout_free, first half: the lists, in whatever state they are. *)
FreeCalloutLists(t, from, to) ==
  /\ pc[t] = from
  /\ Delete({"flowInfo", "macInfo"})
  /\ Goto(t, to)
  /\ UNCHANGED <<status, driverVars, inits, wfpVars, engineVars, otherVars,
                 failures>>

(* Its second half.  FwpsCalloutUnregisterByKey takes one argument, a key, *)
(* and gets the engine's handle: no registered callout has that key.       *)
FreeEngine(t, from, to) ==
  /\ pc[t] = from
  /\ IF handle # 0 THEN CloseSession ELSE UNCHANGED <<handle, sessions, filters>>
  /\ Goto(t, to)
  /\ UNCHANGED <<status, driverVars, listVars, inits, callouts, engineVars,
                 otherVars, failures>>

(* callout_init returns its NTSTATUS as a BOOLEAN: the low byte, unsigned. *)
AsBOOLEAN(st) == st % 256

(* DriverEntry or bfeStateCallback looks at the result. *)
InitDone(t) ==
  /\ pc[t] = "initDone"
  /\ LET st == AsBOOLEAN(status[t]) IN
       GoOn(t, IF t = "bfe" THEN "idle"
               ELSE IF NT_SUCCESS(st) THEN "loaded" ELSE "freeDevice", st)
  /\ UNCHANGED <<driverVars, listVars, inits, wfpVars, engineVars, otherVars,
                 failures>>

CalloutInit(t) ==
  \/ InitCalloutLists(t) \/ OpenEngine(t) \/ OpenEngineFails(t)
  \/ AddProvider(t) \/ AddProviderFails(t)
  \/ RegisterCallouts(t) \/ RegisterCalloutsFails(t)
  \/ AddFilters(t) \/ AddFiltersFails(t)
  \/ FreeCalloutLists(t, "initFreeLists", "initFreeEngine")
  \/ FreeEngine(t, "initFreeEngine", "initDone")
  \/ InitDone(t)

-----------------------------------------------------------------------------
(* DriverEntry, driver_free and driverUnload, run by "sys".                *)

(* driver_init: IoCreateDevice, ... *)
CreateDevice ==
  /\ pc["sys"] = "device"
  /\ device' = "unlinked"
  /\ Goto("sys", "link")
  /\ UNCHANGED <<status, monitor, shutdown, thread, subscribed, listVars, inits,
                 wfpVars, engineVars, otherVars, failures>>

CreateDeviceFails ==
  /\ pc["sys"] = "device" /\ Fail
  /\ GoOn("sys", "failed", STATUS_UNSUCCESSFUL)
  /\ UNCHANGED <<driverVars, listVars, inits, wfpVars, engineVars, otherVars>>

(* ... and IoCreateSymbolicLink. *)
CreateLink ==
  /\ pc["sys"] = "link"
  /\ device' = "linked"
  /\ Goto("sys", "devctrl")
  /\ UNCHANGED <<status, monitor, shutdown, thread, subscribed, listVars, inits,
                 wfpVars, engineVars, otherVars, failures>>

(* Nobody deletes the device of a link that failed: DriverEntry returns. *)
CreateLinkFails ==
  /\ pc["sys"] = "link" /\ Fail
  /\ trouble' = trouble \union {"linkFailed"}
  /\ GoOn("sys", "failed", STATUS_UNSUCCESSFUL)
  /\ UNCHANGED <<driverVars, listVars, inits, wfpVars, engine, starts, otherVars>>

(* devctrl_init: the query entries' list, the I/O thread. *)
InitDevctrl ==
  /\ pc["sys"] = "devctrl"
  /\ SetUp({"queries"})
  /\ thread' = "running"
  /\ Goto("sys", "packets")
  /\ UNCHANGED <<status, device, monitor, shutdown, subscribed, inits, wfpVars,
                 engineVars, otherVars, failures>>

(* No thread: the device is deleted, and devctrl_free has none to wait for. *)
InitDevctrlFails ==
  /\ pc["sys"] = "devctrl" /\ Fail
  /\ lists' = [lists EXCEPT !["queries"] = "deleted"]
  /\ device' = "none"
  /\ GoOn("sys", "failed", STATUS_UNSUCCESSFUL)
  /\ UNCHANGED <<monitor, shutdown, thread, subscribed, misused, inits, wfpVars,
                 engineVars, otherVars>>

(* datalinkctx_init and establishedctx_init. *)
InitPackets ==
  /\ pc["sys"] = "packets"
  /\ SetUp({"datalink", "established"})
  /\ Goto("sys", "engine")
  /\ UNCHANGED <<status, driverVars, inits, wfpVars, engineVars, otherVars,
                 failures>>

(* FwpmBfeStateGet: the engine runs, callout_init can be called at once. *)
EngineRuns ==
  /\ pc["sys"] = "engine" /\ engine
  /\ Goto("sys", "initLists")
  /\ UNCHANGED <<status, driverVars, listVars, inits, wfpVars, engineVars,
                 otherVars, failures>>

(* It does not: wait for it with FwpmBfeStateSubscribeChanges.  The engine *)
(* may start between the two calls; then nobody is told.                   *)
EngineAwaited ==
  /\ pc["sys"] = "engine" /\ ~engine
  /\ Goto("sys", "subscribe")
  /\ UNCHANGED <<status, driverVars, listVars, inits, wfpVars, engineVars,
                 otherVars, failures>>

Subscribe ==
  /\ pc["sys"] = "subscribe"
  /\ subscribed' = TRUE
  /\ GoOn("sys", "loaded", STATUS_SUCCESS)
  /\ UNCHANGED <<device, monitor, shutdown, thread, listVars, inits, wfpVars,
                 engineVars, otherVars, failures>>

SubscribeFails ==
  /\ pc["sys"] = "subscribe" /\ Fail
  /\ GoOn("sys", "freeDevice", STATUS_UNSUCCESSFUL)
  /\ UNCHANGED <<driverVars, listVars, inits, wfpVars, engineVars, otherVars>>

(* driverUnload.  The I/O manager does not unload a driver whose device is *)
(* open.                                                                   *)
BeginUnload ==
  /\ pc["sys"] = "loaded" /\ ~client
  /\ GoOn("sys", "freeDevice", STATUS_SUCCESS)
  /\ overtaken' = {c \in Calls : calls[c] # "idle"}
  /\ trouble' = IF pc["bfe"] = "idle" THEN trouble ELSE trouble \union {"late"}
  /\ UNCHANGED <<driverVars, listVars, inits, wfpVars, engine, starts, client,
                 calls, failures>>

(* driver_free: the device and its link; then devctrl_setShutdown and      *)
(* devctrl_setmonitor(0), which are two more steps for the other threads.  *)
FreeDevice ==
  /\ pc["sys"] = "freeDevice"
  /\ device' = "none"
  /\ Goto("sys", "setShutdown")
  /\ UNCHANGED <<status, monitor, shutdown, thread, subscribed, listVars, inits,
                 wfpVars, engineVars, otherVars, failures>>

SetShutdown ==
  /\ pc["sys"] = "setShutdown"
  /\ shutdown' = TRUE
  /\ Goto("sys", "monitorOff")
  /\ UNCHANGED <<status, device, monitor, thread, subscribed, listVars, inits,
                 wfpVars, engineVars, otherVars, failures>>

MonitorOff ==
  /\ pc["sys"] = "monitorOff"
  /\ monitor' = 0
  /\ Goto("sys", "freePackets")
  /\ UNCHANGED <<status, device, shutdown, thread, subscribed, listVars, inits,
                 wfpVars, engineVars, otherVars, failures>>

(* datalinkctx_free and establishedctx_free. *)
FreePackets ==
  /\ pc["sys"] = "freePackets"
  /\ Delete({"datalink", "established"})
  /\ Goto("sys", "freeLists")
  /\ UNCHANGED <<status, driverVars, inits, wfpVars, engineVars, otherVars,
                 failures>>

(* devctrl_free deletes the list of query entries, then joins the thread. *)
FreeQueries ==
  /\ pc["sys"] = "freeQueries"
  /\ Delete({"queries"})
  /\ Goto("sys", "joinThread")
  /\ UNCHANGED <<status, driverVars, inits, wfpVars, engineVars, otherVars,
                 failures>>

(* DriverEntry has failed, or driverUnload goes on. *)
JoinThread ==
  /\ pc["sys"] = "joinThread" /\ thread = "ended"
  /\ Goto("sys", IF NT_SUCCESS(status["sys"]) THEN "unsubscribe" ELSE "failed")
  /\ UNCHANGED <<status, driverVars, listVars, inits, wfpVars, engineVars,
                 otherVars, failures>>

(* FwpmBfeStateUnsubscribeChanges, last of all; it waits for a callback    *)
(* that is running.                                                        *)
Unsubscribe ==
  /\ pc["sys"] = "unsubscribe" /\ pc["bfe"] = "idle"
  /\ subscribed' = FALSE
  /\ Goto("sys", "gone")
  /\ UNCHANGED <<status, device, monitor, shutdown, thread, listVars, inits,
                 wfpVars, engineVars, otherVars, failures>>

Sys == \/ CreateDevice \/ CreateDeviceFails \/ CreateLink \/ CreateLinkFails
       \/ InitDevctrl \/ InitDevctrlFails
       \/ InitPackets \/ EngineRuns \/ EngineAwaited \/ Subscribe
       \/ SubscribeFails \/ CalloutInit("sys")
       \/ FreeDevice \/ SetShutdown \/ MonitorOff \/ FreePackets
       \/ FreeCalloutLists("sys", "freeLists", "freeEngine")
       \/ FreeEngine("sys", "freeEngine", "freeQueries")
       \/ FreeQueries \/ JoinThread \/ Unsubscribe

-----------------------------------------------------------------------------
(* The I/O thread, the engine, the client and the network.                 *)

(* devctrl_ioThread ends; its turns are in module PendedReads. *)
EndThread ==
  /\ thread = "running" /\ shutdown
  /\ thread' = "ended"
  /\ UNCHANGED <<sysVars, device, monitor, shutdown, subscribed, listVars, inits,
                 wfpVars, engineVars, otherVars, failures>>

Unloading == pc["sys"] \in {"freeDevice", "setShutdown", "monitorOff",
                            "freePackets", "freeLists", "freeEngine",
                            "freeQueries", "joinThread", "unsubscribe"}

(* The engine starts and calls bfeStateCallback, if there is one. *)
StartEngine ==
  /\ ~engine /\ starts < MaxStarts /\ pc["bfe"] = "idle"
  /\ engine' = TRUE /\ starts' = starts + 1
  /\ IF subscribed
       THEN /\ Goto("bfe", "initLists")
            /\ trouble' = IF Unloading THEN trouble \union {"late"} ELSE trouble
       ELSE UNCHANGED <<pc, trouble>>
  /\ UNCHANGED <<status, driverVars, listVars, inits, wfpVars, otherVars,
                 failures>>

(* It stops, and forgets the sessions and their objects. *)
StopEngine ==
  /\ engine
  /\ engine' = FALSE
  /\ sessions' = {} /\ filters' = {}
  /\ UNCHANGED <<sysVars, driverVars, listVars, inits, handle, callouts, starts,
                 trouble, otherVars, failures>>

(* driver_init clears DO_DEVICE_INITIALIZING and nf_init goes on when the  *)
(* service is SERVICE_START_PENDING: the device may be opened while        *)
(* DriverEntry runs, but no more once an unload has been requested.        *)
Open ==
  /\ device = "linked" /\ ~client
  /\ Unloading => ~NT_SUCCESS(status["sys"])
  /\ client' = TRUE
  /\ UNCHANGED <<sysVars, driverVars, listVars, inits, wfpVars, engineVars,
                 calls, overtaken, failures>>

SetMonitor(flag) ==
  /\ client
  /\ monitor' = flag
  /\ UNCHANGED <<sysVars, device, shutdown, thread, subscribed, listVars, inits,
                 wfpVars, engineVars, otherVars, failures>>

(* devctrl_close, which also drains the packets (module CaptureQueue). *)
Close ==
  /\ client
  /\ client' = FALSE /\ monitor' = 0
  /\ UNCHANGED <<sysVars, device, shutdown, thread, subscribed, listVars, inits,
                 wfpVars, engineVars, calls, overtaken, failures>>

(* A flow is established at a layer with a filter whose callout is         *)
(* registered, and helper_callout_classFn_flowEstablished sees the flag set. *)
Classify(c) ==
  /\ calls[c] = "idle" /\ engine /\ monitor # 0
  /\ filters \intersect callouts # {}
  /\ calls' = [calls EXCEPT ![c] = "describe"]
  /\ UNCHANGED <<sysVars, driverVars, listVars, inits, wfpVars, engineVars,
                 client, overtaken, failures>>

(* It describes the flow in an entry of "flowInfo", has it copied to one   *)
(* of "established" with a query of "queries", and frees the former.       *)
NextStage == [describe |-> {"push", "idle"}, push |-> {"free"},
              free |-> {"idle"}]
Needs == [describe |-> {"flowInfo"}, push |-> {"established", "queries"},
          free |-> {"flowInfo"}]

ClassifyStep(c) ==
  /\ calls[c] # "idle"
  /\ \E stage \in NextStage[calls[c]] :
       /\ calls' = [calls EXCEPT ![c] = stage]
       /\ overtaken' = IF stage = "idle" THEN overtaken \ {c} ELSE overtaken
  /\ UNCHANGED <<sysVars, driverVars, listVars, inits, wfpVars, engineVars,
                 client, failures>>

Next == \/ Sys \/ BeginUnload
        \/ CalloutInit("bfe")
        \/ EndThread \/ StartEngine \/ StopEngine
        \/ Open \/ (\E flag \in {0, 1} : SetMonitor(flag)) \/ Close
        \/ \E c \in Calls : Classify(c) \/ ClassifyStep(c)

Spec == Init /\ [][Next]_vars

(* The kernel runs its threads; nobody is obliged to unload. *)
FairSpec == Spec /\ WF_vars(Sys) /\ WF_vars(CalloutInit("bfe"))
                 /\ WF_vars(EndThread)

-----------------------------------------------------------------------------
(* Properties.                                                             *)

Places == {"device", "link", "devctrl", "packets", "engine", "subscribe",
           "initLists", "openEngine", "addProvider", "register", "addFilters",
           "initFreeLists", "initFreeEngine", "initDone", "loaded",
           "freeDevice", "setShutdown", "monitorOff", "freePackets",
           "freeLists", "freeEngine", "freeQueries", "joinThread",
           "unsubscribe", "gone", "failed", "idle"}

(* The variables have their types: places, flags, runs and layers. *)
TypeOK ==
  /\ pc \in [Threads -> Places]
  /\ status \in [Threads -> Int]
  /\ device \in {"none", "unlinked", "linked"} /\ monitor \in {0, 1} /\ shutdown \in BOOLEAN
  /\ lists \in [Lists -> {"none", "live", "deleted"}]
  /\ thread \in {"none", "running", "ended"}
  /\ inits \in Nat /\ handle \in 0..inits
  /\ subscribed \in BOOLEAN /\ engine \in BOOLEAN /\ starts \in 0..MaxStarts
  /\ sessions \subseteq 1..inits
  /\ callouts \subseteq (1..inits) \X Layers
  /\ filters \subseteq sessions \X Layers
  /\ client \in BOOLEAN
  /\ calls \in [Calls -> {"idle", "describe", "push", "free"}]
  /\ failures \in 0..MaxFailures /\ overtaken \subseteq Calls
  /\ trouble \subseteq {"late", "initFailed", "linkFailed"} /\ misused \subseteq Lists

(* When the driver is gone, or DriverEntry has failed, nothing of it is at *)
(* work: no session or filter that sends traffic to its callouts, no I/O   *)
(* thread, no subscription, no link by which to open it; whatever failed   *)
(* and however often the engine restarted (driver.c:57-72 and 187-209,     *)
(* callouts.c:1143-1169).  Nor is there a device object, but for the one   *)
(* that driver_init leaves when its link fails (driver.c:46-49).  Not so   *)
(* when the engine starts while the driver unloads: driverUnload           *)
(* unsubscribes after driver_free.                                         *)
GoneIsQuiet ==
  pc["sys"] \in {"gone", "failed"} /\ "late" \notin trouble
    => /\ sessions = {} /\ filters = {}
       /\ thread # "running"
       /\ ~subscribed
       /\ device # "linked"
       /\ device = "unlinked" => "linkFailed" \in trouble

(* A classify call that was not in progress when the unload began finds    *)
(* the lists it allocates from and frees to: those of the packets, which   *)
(* driver_free deletes before it unregisters anything, and its own         *)
(* (callouts.c:155-249, driver.c:196-208).  It relies on the flag: close   *)
(* has cleared it.  A second run of callout_init that fails deletes lists  *)
(* under calls of the first.                                               *)
CallsFindLists ==
  inits <= 1 =>
    \A c \in Calls \ overtaken :
      calls[c] # "idle" => \A l \in Needs[calls[c]] : lists[l] = "live"

(* Each list is set up once and deleted once, if callout_init ran once,    *)
(* did not fail after opening the engine and did not overlap the unload    *)
(* (callouts.c:1073-1095 and 1148-1149).  Otherwise callout_free deletes   *)
(* twice, or what was never set up.                                        *)
ListsPairUp == inits = 1 /\ trouble = {} => misused = {}

(* Load and unload come to an end: devctrl_free waits for the I/O thread   *)
(* without a timeout and the unsubscription for the callback               *)
(* (devctrl.c:526-540, driver.c:68-72).                                    *)
SetUpEnds == []<>(pc["sys"] \in {"loaded", "gone", "failed"})

(* DriverEntry fails, and the driver is not loaded, if callout_init fails: *)
(* a driver that did not have to wait for the engine has opened it         *)
(* (driver.c:162-169 and 187).                                             *)
CalloutErrorFailsLoad == pc["sys"] = "loaded" /\ ~subscribed => handle # 0

=============================================================================
