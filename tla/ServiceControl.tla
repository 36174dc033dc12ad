--------------------------- MODULE ServiceControl ---------------------------
(***************************************************************************)
(* How nf_init gets the driver's service running: GetServicesStatus, the   *)
(* switch on its result, "sc start" and three seconds for a stopped        *)
(* service, nf_driverInstall (CreateDriver, StartDriver) for one whose     *)
(* status is not to be had.                                                *)
(*                                                                         *)
(* The service control manager is external.  It starts and stops the       *)
(* driver asynchronously: the code waits for both by polling.  It refuses  *)
(* a stop to a service that is not running, a start to one that is not     *)
(* stopped, and may refuse to interrogate one that is on its way.          *)
(*                                                                         *)
(* Other processes set the same service up: they create it, start it and   *)
(* stop it whenever that can be done, as often as they like.               *)
(***************************************************************************)
EXTENDS Integers

CONSTANTS MaxPolls,    \* turns of the two polling loops, 10 in the code
          MaxFailures  \* bound: system calls that fail in a behaviour

ASSUME PollsAssumption == MaxPolls \in Nat \ {0}
ASSUME FailuresAssumption == MaxFailures \in Nat

VARIABLES
  service,   \* the driver's service, as the manager knows it
  sc,        \* the process "sc start wfpdriver" has yet to call the manager
  setup,     \* where nf_init is in setting the service up
  polls,     \* turns of the polling loop it is in
  installed, \* what nf_driverInstall returned; 0 until then
  failures,  \* failed system calls so far
  others     \* history: what other clients did to the service

setupVars == <<service, sc, setup, polls, installed, failures, others>>

ServiceStates == {"absent", "stopped", "startPending", "running",
                  "stopPending"}

SetupInit == /\ service \in ServiceStates
             /\ sc = FALSE
             /\ setup = "query" /\ polls = 0 /\ installed = 0
             /\ failures = 0 /\ others = {}

(* One of the system calls of this step fails. *)
Fail == failures < MaxFailures /\ failures' = failures + 1

(* nf_driverInstall returns.  Its -1 is tested with "!", so nf_init goes on
   to the device either way. *)
Installed(status) == /\ installed' = status /\ setup' = "done"
                     /\ UNCHANGED <<sc, polls, others>>

Goto(stage) == setup' = stage /\ UNCHANGED <<sc, polls, installed, others>>

-----------------------------------------------------------------------------
(* Plausible mistakes: what some of the actions below would be.            *)

(* nf_init has no case for a service that is starting. *)
Query_NoStartPending ==
  /\ setup = "query"
  /\ IF service \in {"stopped", "stopPending"} THEN Goto("scStart")
     ELSE Goto(IF service = "running" THEN "done" ELSE "create")
  /\ UNCHANGED <<service, failures>>

(* After the three seconds nf_init does not ask again. *)
Recheck_Skipped ==
  /\ setup = "recheck"
  /\ Goto("done")
  /\ UNCHANGED <<service, failures>>

(* The polling loop of StartDriver forgets its counter. *)
PollStart_Endless ==
  /\ setup = "startWait"
  /\ IF service = "running" THEN Installed(1)
                             ELSE UNCHANGED <<sc, setup, polls, installed, others>>
  /\ UNCHANGED <<service, failures>>

-----------------------------------------------------------------------------
(* nf_init: the switch.                                                    *)

(* GetServicesStatus. *)
Query ==
  /\ setup = "query"
  /\ CASE service \in {"running", "startPending"} -> Goto("done")
       [] service \in {"stopped", "stopPending"}  -> Goto("scStart")
       [] service = "absent"                      -> Goto("create")
  /\ UNCHANGED <<service, failures>>

(* It returns -1 for a call of its own that failed as for a service that
   does not exist: the default case. *)
QueryFails ==
  /\ setup = "query" /\ service # "absent" /\ Fail
  /\ Goto("create")
  /\ UNCHANGED service

(* The result of CreateProcess is not looked at. *)
ScStart ==
  /\ setup = "scStart"
  /\ \/ sc' = TRUE /\ UNCHANGED failures
     \/ Fail /\ UNCHANGED sc
  /\ setup' = "recheck"
  /\ UNCHANGED <<service, polls, installed, others>>

(* GetServicesStatus after three seconds, by which the service need not have
   moved. *)
Recheck ==
  /\ setup = "recheck"
  /\ \/ /\ Goto(IF service = "running" THEN "done" ELSE "failed")
        /\ UNCHANGED failures
     \/ service = "running" /\ Fail /\ Goto("failed")
  /\ UNCHANGED service

-----------------------------------------------------------------------------
(* CreateDriver and StartDriver.                                           *)

(* SERVICE_CONTROL_INTERROGATE answers with the state of a service that runs
   or is on its way; it fails for a stopped one with
   ERROR_SERVICE_NOT_ACTIVE, and may refuse one on its way. *)
Answers(state) == service = state /\ state \in {"running", "startPending",
                                                "stopPending"}
NotActive == service = "stopped"
Refused   == service \in {"startPending", "stopPending"}

(* CreateDriver: OpenService finds no service, ... *)
OpenServiceFails ==
  /\ setup = "create" /\ service = "absent"
  /\ Goto("createService")
  /\ UNCHANGED <<service, failures>>

(* ... and CreateService makes one, unless there is one by now. *)
CreateService ==
  /\ setup = "createService" /\ service = "absent"
  /\ service' = "stopped" /\ Goto("start")
  /\ UNCHANGED failures

CreateServiceFails ==
  /\ setup = "createService" /\ service # "absent"
  /\ Installed(-1)
  /\ UNCHANGED <<service, failures>>

(* Interrogation fails: CreateDriver is content with the service there is. *)
CreateKeeps ==
  /\ setup = "create" /\ service # "absent"
  /\ \/ (NotActive \/ Refused) /\ UNCHANGED failures
     \/ Fail
  /\ Goto("start")
  /\ UNCHANGED service

CreateFindsActive ==
  /\ setup = "create" /\ \E state \in ServiceStates : Answers(state)
  /\ Goto("stop")
  /\ UNCHANGED <<service, failures>>

(* OpenSCManager, or CreateService, fails otherwise. *)
CreateFails ==
  /\ setup \in {"create", "createService"} /\ Fail
  /\ Installed(-1)
  /\ UNCHANGED service

(* CreateDriver stops what runs. *)
StopService ==
  /\ setup = "stop" /\ service = "running"
  /\ service' = "stopPending"
  /\ setup' = "stopWait" /\ polls' = 0
  /\ UNCHANGED <<sc, installed, failures, others>>

StopServiceFails ==
  /\ setup = "stop"
  /\ IF service = "running" THEN Fail ELSE UNCHANGED failures
  /\ Installed(-1)
  /\ UNCHANGED service

(* One turn of the loop that waits for the stop: a failed interrogation
   counts as stopped. *)
PollStop ==
  /\ setup = "stopWait"
  /\ \/ /\ polls < MaxPolls /\ Goto("start")
        /\ \/ (NotActive \/ Refused) /\ UNCHANGED failures
           \/ Fail
     \/ /\ polls < MaxPolls /\ \E state \in ServiceStates : Answers(state)
        /\ polls' = polls + 1
        /\ UNCHANGED <<sc, setup, installed, failures, others>>
     \/ polls = MaxPolls /\ Installed(-1) /\ UNCHANGED failures
  /\ UNCHANGED service

(* StartDriver: an answer other than "running", like ERROR_SERVICE_NOT_ACTIVE,
   leads to StartService, which starts a stopped service only. *)
StartService ==
  /\ setup = "start" /\ service = "stopped"
  /\ service' = "startPending"
  /\ setup' = "startWait" /\ polls' = 0
  /\ UNCHANGED <<sc, installed, failures, others>>

(* What runs already is a 0, which nf_driverInstall takes for a failure like
   the -1 of a refused interrogation or start. *)
StartServiceFails ==
  /\ setup = "start"
  /\ IF service = "stopped" THEN Fail ELSE UNCHANGED failures
  /\ Installed(-1)
  /\ UNCHANGED service

(* One turn of the loop that waits for the start: a failed interrogation
   counts as not yet. *)
PollStart ==
  /\ setup = "startWait"
  /\ \/ /\ polls < MaxPolls /\ Answers("running")
        /\ Installed(1) /\ UNCHANGED failures
     \/ /\ polls < MaxPolls
        /\ IF service = "running" THEN Fail ELSE UNCHANGED failures
        /\ polls' = polls + 1
        /\ UNCHANGED <<sc, setup, installed, others>>
     \/ polls = MaxPolls /\ Installed(-1) /\ UNCHANGED failures
  /\ UNCHANGED service

-----------------------------------------------------------------------------
(* The service control manager, and its other clients.                     *)

(* "sc" asks for the start; a service that is not stopped is refused it. *)
ScCalls ==
  /\ sc /\ sc' = FALSE
  /\ service' = IF service = "stopped" THEN "startPending" ELSE service
  /\ UNCHANGED <<setup, polls, installed, failures, others>>

StartCompletes ==
  /\ service = "startPending"
  /\ \/ service' = "running" /\ UNCHANGED failures
     \/ service' = "stopped" /\ Fail    \* DriverEntry failed
  /\ UNCHANGED <<sc, setup, polls, installed, others>>

StopCompletes ==
  /\ service = "stopPending"
  /\ service' = "stopped"
  /\ UNCHANGED <<sc, setup, polls, installed, failures, others>>

(* Another client does something to the service. *)
Other(act, from, to) ==
  /\ service = from /\ service' = to
  /\ others' = others \union {act}
  /\ UNCHANGED <<sc, setup, polls, installed, failures>>

OtherClient == \/ Other("create", "absent", "stopped")
               \/ Other("start", "stopped", "startPending")
               \/ Other("stop", "running", "stopPending")

-----------------------------------------------------------------------------

SetUpService ==
  \/ Query \/ QueryFails \/ ScStart \/ Recheck
  \/ OpenServiceFails \/ CreateService \/ CreateServiceFails
  \/ CreateKeeps \/ CreateFindsActive \/ CreateFails
  \/ StopService \/ StopServiceFails \/ PollStop
  \/ StartService \/ StartServiceFails \/ PollStart

Manager == ScCalls \/ StartCompletes \/ StopCompletes \/ OtherClient

-----------------------------------------------------------------------------
(* Properties.                                                             *)

SetupTypeOK ==
  /\ service \in ServiceStates /\ sc \in BOOLEAN
  /\ setup \in {"query", "scStart", "recheck", "create", "createService",
                "stop", "stopWait", "start", "startWait", "done", "failed"}
  /\ polls \in 0..MaxPolls /\ installed \in {-1, 0, 1}
  /\ failures \in 0..MaxFailures
  /\ others \subseteq {"create", "start", "stop"}

(* nf_init stops a driver that runs, and with it the capture of a client
   that uses it, in two cases only: a system call failed before, or another
   client created the service after GetServicesStatus had found none.  That
   others start and stop a service that was there never leads to
   CreateDriver's stop, at whatever moment they do. *)
StopsOnStaleStatus ==
  [][setup = "stop" /\ setup' = "stopWait"
       => failures > 0 \/ "create" \in others]_setupVars

(* nf_init goes on to open the device only with a service that runs or is
   being started, although it takes a failed nf_driverInstall for a success:
   a call failed otherwise, or another client stopped the service or created
   it at the same time.  Clients that all start it do not get in each other's
   way. *)
OpensWhenUp ==
  setup = "done" => \/ service \in {"running", "startPending"}
                    \/ failures > 0
                    \/ others \intersect {"create", "stop"} # {}

(* The set-up ends whatever the service does: both loops are bounded. *)
SetupEnds == <>(setup \in {"done", "failed"})
=============================================================================
