---------------------------- MODULE NfClient_proofs --------------------------
(***************************************************************************)
(* Proofs about NfClient, and with it about ServiceControl and             *)
(* SharedMemory, for every bound: how nf_init gets the service up, what it *)
(* leaves behind when it fails, what the worker's reads rely on, and when  *)
(* the client crashes, stays without a worker or blocks for good.          *)
(***************************************************************************)
EXTENDS NfClient, TLAPS

(* Where the set-up is, while no system call has failed.  CreateDriver finds
   a service only if another client created it since GetServicesStatus, and
   the service stays up once it is being started, unless one stops it. *)
SetupStage ==
  /\ sc => setup \in {"recheck", "done", "failed"}
  /\ \/ failures > 0 \/ "create" \in others
     \/ /\ setup \in {"create", "createService"} => service = "absent"
        /\ setup \notin {"stop", "stopWait"}
  /\ \/ failures > 0 \/ others \intersect {"create", "stop"} # {}
     \/ /\ setup = "start" => service \in {"stopped", "startPending", "running"}
        /\ setup \in {"startWait", "done"} =>
             service \in {"startPending", "running"}

(* What exists of the buffers is what their fields refer to, except for the
   buffer that is being made. *)
MemStage ==
  /\ mem = "none" => \A b \in Buffers : live[b] = {} /\ fields[b] = {}
  /\ mem = "create" => /\ fields["outBuf"] = {}
                       /\ \A b \in Buffers : b # Making => live[b] = fields[b]
  /\ mem = "opened" => \A b \in Buffers : live[b] = Parts /\ fields[b] = Parts
  /\ mem = "fail" => \A b \in Buffers : live[b] = fields[b]
  /\ mem = "failed" => \A b \in Buffers : live[b] = {} /\ fields[b] = {}

(* The monitor was never on. *)
Quiet == monitor = 0 /\ pending = 0 /\ queries = 0 /\ entered = 0 /\ linked = 0

(* How far nf_init is: the device comes before the memory, the memory before
   the worker and the monitor.  A failure is final, and what it leaves depends
   on the step that failed. *)
InitStage ==
  /\ app \in {"service", "open"} => mem = "none" /\ handle = "null"
  /\ app \in {"service", "open", "mem", "thread", "enable"} =>
       Quiet /\ result = 0
  /\ app \in {"mem", "thread", "enable", "handler"} => handle = "open"
  /\ app \in {"thread", "enable", "handler"} => mem = "opened"
  /\ result = -1 => /\ app = "idle" /\ handle # "open" /\ worker = "none"
                    /\ Quiet /\ \A b \in Buffers : live[b] = {}
  /\ result = -2 => /\ app \in {"idle", "control"}
                    /\ handle = "open" /\ mem = "opened"

(* A call in progress has its place on the query list. *)
QueueStage == entered + linked <= MaxCalls /\ queries + linked <= MaxPending

(* There is a worker only with the memory, and a batch only while it parses. *)
WorkerStage ==
  /\ worker # "none" => /\ mem = "opened"
                        /\ app \notin {"service", "open", "mem", "thread"}
  /\ batch # 0 => worker = "parse"

(* The inductive invariant. *)
IInv == /\ TypeOK /\ SetupStage /\ MemStage
        /\ InitStage /\ QueueStage /\ WorkerStage

-----------------------------------------------------------------------------

LEMMA InitInv == Init => IInv
<1> SUFFICES ASSUME Init PROVE IInv
  OBVIOUS
<1> USE DEF Init, SetupInit, MemInit
<1>0. /\ 0 \in 0..MaxPolls /\ 0 \in 0..MaxFailures /\ 0 \in 0..MaxPending
      /\ 0 \in 0..MaxCalls /\ MaxPending \in Nat /\ MaxCalls \in Nat
  BY PollsAssumption, FailuresAssumption, PendingAssumption, CallsAssumption
<1>1. SetupTypeOK /\ SetupStage
  BY <1>0 DEF SetupTypeOK, SetupStage
<1>2. MemTypeOK /\ MemStage
  BY DEF MemTypeOK, MemStage
<1>3. TypeOK
  BY <1>0, <1>1, <1>2 DEF TypeOK
<1>4. InitStage /\ QueueStage /\ WorkerStage
  BY <1>0 DEF InitStage, Quiet, QueueStage, WorkerStage
<1>5. QED
  BY <1>1, <1>2, <1>3, <1>4 DEF IInv

(* A call that fails is counted, up to the bound. *)
LEMMA FailCounts ==
  ASSUME failures \in 0..MaxFailures, Fail
  PROVE  failures' \in 0..MaxFailures /\ failures' > 0
  BY FailuresAssumption DEF Fail

(* ... and the count never shrinks, nor does the history of the others. *)
LEMMA SetupCounts ==
  ASSUME SetupTypeOK, SetUpService \/ Manager
  PROVE  /\ failures \in 0..MaxFailures /\ failures' \in 0..MaxFailures
         /\ failures' = failures \/ failures' > 0
         /\ others' = others \/ Manager
         /\ others \subseteq others'
         /\ others' \subseteq {"create", "start", "stop"}
<1> USE DEF Goto, Installed
<1>1. failures \in 0..MaxFailures
  BY DEF SetupTypeOK
<1>2. failures' = failures \/ Fail
  BY DEF SetUpService, Manager, Query, QueryFails, ScStart, Recheck,
     OpenServiceFails, CreateService, CreateServiceFails, CreateKeeps,
     CreateFindsActive, CreateFails, StopService, StopServiceFails, PollStop,
     StartService, StartServiceFails, PollStart,
     ScCalls, StartCompletes, StopCompletes, OtherClient, Other
<1>3. CASE SetUpService
  <2>1. CASE Query
    BY <1>1, <1>2, <2>1, FailCounts DEF Query, SetupTypeOK, ServiceStates
  <2>2. CASE ~Query
    <3>1. others' = others
      BY <1>3, <2>2 DEF SetUpService, QueryFails, ScStart, Recheck,
         OpenServiceFails, CreateService, CreateServiceFails, CreateKeeps,
         CreateFindsActive, CreateFails, StopService, StopServiceFails,
         PollStop, StartService, StartServiceFails, PollStart
    <3>2. QED
      BY <1>1, <1>2, <3>1, FailCounts DEF SetupTypeOK
  <2>3. QED
    BY <2>1, <2>2
<1>4. CASE Manager
  <2>1. \/ others' = others
        \/ \E act \in {"create", "start", "stop"} : others' = others \union {act}
    BY <1>4 DEF Manager, ScCalls, StartCompletes, StopCompletes, OtherClient,
       Other
  <2>2. QED
    BY <1>1, <1>2, <1>4, <2>1, FailCounts DEF SetupTypeOK
<1>5. QED
  BY <1>3, <1>4

(* The service and nf_init's set-up of it. *)
LEMMA SetupStep ==
  ASSUME SetupTypeOK, SetupStage, SetUpService \/ Manager
  PROVE  SetupTypeOK' /\ SetupStage'
<1>1. failures \in 0..MaxFailures /\ failures' \in 0..MaxFailures
  BY SetupCounts
<1>2. failures' = failures \/ failures' > 0
  BY SetupCounts
<1>3. /\ others \subseteq others'
      /\ others' \subseteq {"create", "start", "stop"}
  BY SetupCounts
<1>4. polls' \in 0..MaxPolls
  <2>1. polls \in 0..MaxPolls /\ 0 \in 0..MaxPolls
    BY PollsAssumption DEF SetupTypeOK
  <2>2. polls < MaxPolls => polls + 1 \in 0..MaxPolls
    BY <2>1, PollsAssumption
  <2>3. \/ polls' = polls \/ polls' = 0
        \/ polls < MaxPolls /\ polls' = polls + 1
    <3> USE DEF Goto, Installed
    <3>0. CASE Query
      BY <3>0 DEF Query, SetupTypeOK, ServiceStates
    <3>1. CASE \/ QueryFails \/ ScStart \/ Recheck \/ OpenServiceFails
               \/ CreateService \/ CreateServiceFails \/ CreateKeeps
               \/ CreateFindsActive \/ CreateFails
      BY <3>1 DEF QueryFails, ScStart, Recheck, OpenServiceFails, CreateService,
         CreateServiceFails, CreateKeeps, CreateFindsActive, CreateFails
    <3>2. CASE StopService \/ StopServiceFails \/ PollStop \/ StartService
      BY <3>2 DEF StopService, StopServiceFails, PollStop, StartService
    <3>3. CASE StartServiceFails \/ PollStart \/ Manager
      BY <3>3 DEF StartServiceFails, PollStart, Manager, ScCalls,
         StartCompletes, StopCompletes, OtherClient, Other
    <3>4. QED
      BY <3>0, <3>1, <3>2, <3>3 DEF SetUpService
  <2>4. QED
    BY <2>1, <2>2, <2>3
<1> USE DEF SetupTypeOK, SetupStage, ServiceStates, Goto, Installed
<1>5. CASE Query \/ QueryFails \/ ScStart \/ Recheck
  BY <1>1, <1>2, <1>3, <1>4, <1>5, FailCounts DEF Query, QueryFails, ScStart,
     Recheck
<1>6. CASE OpenServiceFails \/ CreateService \/ CreateServiceFails
  BY <1>1, <1>2, <1>3, <1>4, <1>6 DEF OpenServiceFails, CreateService,
     CreateServiceFails
<1>7. CASE CreateKeeps \/ CreateFindsActive \/ CreateFails
  BY <1>1, <1>2, <1>3, <1>4, <1>7, FailCounts DEF CreateKeeps,
     CreateFindsActive, CreateFails, NotActive, Refused, Answers
<1>8. CASE StopService \/ StopServiceFails \/ PollStop
  BY <1>1, <1>2, <1>3, <1>4, <1>8, FailCounts DEF StopService,
     StopServiceFails, PollStop
<1>9. CASE StartService \/ StartServiceFails \/ PollStart
  BY <1>1, <1>2, <1>3, <1>4, <1>9, FailCounts DEF StartService,
     StartServiceFails, PollStart, Answers
<1>10. CASE ScCalls \/ StartCompletes \/ StopCompletes
  <2>1. SetupTypeOK'
    BY <1>1, <1>3, <1>4, <1>10 DEF ScCalls, StartCompletes, StopCompletes
  <2>2. CASE ScCalls
    BY <1>2, <2>1, <2>2 DEF ScCalls
  <2>3. CASE StartCompletes
    BY <1>1, <2>1, <2>3, FailCounts DEF StartCompletes
  <2>4. CASE StopCompletes
    BY <1>2, <2>1, <2>4 DEF StopCompletes
  <2>5. QED
    BY <1>10, <2>2, <2>3, <2>4
<1>11. CASE OtherClient
  BY <1>1, <1>2, <1>3, <1>4, <1>11 DEF OtherClient, Other
<1>12. QED
  BY <1>5, <1>6, <1>7, <1>8, <1>9, <1>10, <1>11 DEF SetUpService, Manager

(* The buffers. *)
LEMMA MemStep ==
  ASSUME MemTypeOK, MemStage, MakeBuffers
  PROVE  MemTypeOK' /\ MemStage' /\ mem # "opened"
<1> USE DEF MemTypeOK, MemStage, Buffers, Parts, Making
<1>1. CASE OpenMem
  BY <1>1 DEF OpenMem
<1>2. CASE MapPart
  BY <1>2 DEF MapPart
<1>3. CASE MappingFails
  BY <1>3 DEF MappingFails
<1>4. CASE ReturnPointers
  BY <1>4 DEF ReturnPointers
<1>5. CASE FreeAfterFailure
  BY <1>5 DEF FreeAfterFailure, FreeBoth
<1>6. QED
  BY <1>1, <1>2, <1>3, <1>4, <1>5 DEF MakeBuffers

-----------------------------------------------------------------------------
(* The steps of the client. *)

LEMMA NextInv == IInv /\ [Next]_vars => IInv'
<1> SUFFICES ASSUME IInv, [Next]_vars PROVE IInv'
  OBVIOUS
<1>1. /\ SetupTypeOK /\ SetupStage /\ MemTypeOK /\ MemStage
      /\ InitStage /\ QueueStage /\ WorkerStage /\ TypeOK
  BY DEF IInv, TypeOK
<1>2. ASSUME UNCHANGED serviceVars, failures' \in 0..MaxFailures,
             failures' = failures \/ failures' > 0
      PROVE  SetupTypeOK' /\ SetupStage'
  BY <1>1, <1>2 DEF serviceVars, SetupTypeOK, SetupStage
<1>3. ASSUME UNCHANGED memVars
      PROVE  MemTypeOK' /\ MemStage'
  BY <1>1, <1>3 DEF memVars, MemTypeOK, MemStage, Making
<1>4. failures \in 0..MaxFailures
  BY <1>1 DEF SetupTypeOK
<1>5. ASSUME UNCHANGED queueVars PROVE QueueStage'
  BY <1>1, <1>5 DEF queueVars, QueueStage
<1>6. CASE CheckService \/ ManagerStep
  <2>1. SetupTypeOK' /\ SetupStage'
    BY <1>1, <1>6, SetupStep DEF CheckService, ManagerStep
  <2>2. MemTypeOK' /\ MemStage' /\ QueueStage'
    BY <1>3, <1>5, <1>6 DEF CheckService, ManagerStep
  <2>3. CASE ManagerStep
    BY <1>1, <2>1, <2>2, <2>3 DEF ManagerStep, memVars, queueVars, appVars,
       workerVars, IInv, TypeOK, InitStage, Quiet, WorkerStage
  <2>4. CASE CheckService
    <3>1. /\ app = "service"
          /\ \/ app' = "open" /\ result' = result
             \/ app' = "idle" /\ result' = -1
             \/ app' = app /\ result' = result
      BY <2>4 DEF CheckService, Return
    <3>2. UNCHANGED <<mem, live, fields, monitor, pending, queries, entered,
                      linked, request, handle, handler, worker, batch, crashed>>
      BY <2>4 DEF CheckService, memVars, queueVars, workerVars
    <3>3. InitStage' /\ WorkerStage'
      BY <1>1, <3>1, <3>2 DEF InitStage, Quiet, WorkerStage, MemStage
    <3>4. TypeOK'
      BY <1>1, <2>1, <2>2, <3>1, <3>2 DEF TypeOK
    <3>5. QED
      BY <2>1, <2>2, <3>3, <3>4 DEF IInv
  <2>5. QED
    BY <1>6, <2>3, <2>4
<1>7. CASE OpenDevice \/ OpenDeviceFails \/ InitshareMem \/ StartWorker \/ SetHandler
  <2>1. UNCHANGED serviceVars /\ UNCHANGED <<memVars, monitor, queueVars>>
    BY <1>7 DEF OpenDevice, OpenDeviceFails, InitshareMem, StartWorker,
       SetHandler, driverVars
  <2>2. failures' \in 0..MaxFailures /\ (failures' = failures \/ failures' > 0)
    BY <1>4, <1>7, FailCounts DEF OpenDevice, OpenDeviceFails, InitshareMem,
       StartWorker, SetHandler
  <2>3. SetupTypeOK' /\ SetupStage' /\ MemTypeOK' /\ MemStage' /\ QueueStage'
    BY <1>2, <1>3, <1>5, <2>1, <2>2
  <2>4. InitStage' /\ WorkerStage'
    <3>1. UNCHANGED <<mem, live, fields, monitor, pending, queries, entered,
                      linked>>
      BY <2>1 DEF memVars, queueVars
    <3> USE DEF InitStage, Quiet, WorkerStage
    <3>2. CASE OpenDevice
      BY <1>1, <3>1, <3>2 DEF OpenDevice, workerVars
    <3>3. CASE OpenDeviceFails
      BY <1>1, <3>1, <3>3 DEF OpenDeviceFails, Return, workerVars, MemStage
    <3>4. CASE InitshareMem
      BY <1>1, <3>1, <3>4 DEF InitshareMem, workerVars
    <3>5. CASE StartWorker
      BY <1>1, <3>1, <3>5 DEF StartWorker
    <3>6. CASE SetHandler
      BY <1>1, <3>1, <3>6 DEF SetHandler, Return, workerVars
    <3>7. QED
      BY <1>7, <3>2, <3>3, <3>4, <3>5, <3>6
  <2>5. TypeOK'
    BY <1>1, <1>7, <2>1, <2>3 DEF OpenDevice, OpenDeviceFails, InitshareMem,
       StartWorker, SetHandler, Return, workerVars, queueVars, TypeOK
  <2>6. QED
    BY <2>3, <2>4, <2>5 DEF IInv
<1>8. CASE MakeBuffersStep
  <2>1. /\ app = "mem" /\ mem # "opened"
        /\ MemTypeOK' /\ MemStage'
        /\ UNCHANGED <<monitor, pending, queries, entered, linked, app, result,
                       request, handle, handler, worker, batch, crashed>>
    BY <1>1, <1>8, MemStep DEF MakeBuffersStep, queueVars, appVars, workerVars
  <2>2. failures' \in 0..MaxFailures /\ (failures' = failures \/ failures' > 0)
    BY <1>4, <1>8, FailCounts DEF MakeBuffersStep, MakeBuffers, OpenMem, MapPart,
       MappingFails, ReturnPointers, FreeAfterFailure
  <2>3. SetupTypeOK' /\ SetupStage' /\ QueueStage'
    BY <1>2, <1>5, <1>8, <2>2 DEF MakeBuffersStep
  <2>4. InitStage' /\ WorkerStage'
    BY <1>1, <2>1 DEF InitStage, Quiet, WorkerStage
  <2>5. TypeOK'
    BY <1>1, <2>1, <2>3 DEF TypeOK
  <2>6. QED
    BY <2>1, <2>3, <2>4, <2>5 DEF IInv
<1>9. CASE InitshareMemFails
  <2>1. /\ app = "mem" /\ app' = "idle" /\ result' = -1 /\ mem' = "none"
        /\ handle' = "closed" /\ mem \in {"none", "opened", "failed"}
        /\ UNCHANGED <<monitor, pending, queries, entered, linked, request,
                       handler, worker, batch, crashed>>
    BY <1>9 DEF InitshareMemFails, Return, queueVars, workerVars
  <2>2. \A b \in Buffers : live'[b] = {} /\ fields'[b] = {}
    BY <1>1, <1>9, <2>1 DEF InitshareMemFails, FreeBoth, MemStage
  <2>3. MemTypeOK' /\ MemStage'
    BY <1>9, <2>1, <2>2 DEF InitshareMemFails, FreeBoth, MemTypeOK, MemStage
  <2>4. failures' \in 0..MaxFailures /\ (failures' = failures \/ failures' > 0)
    BY <1>4, <1>9, FailCounts DEF InitshareMemFails
  <2>5. SetupTypeOK' /\ SetupStage' /\ QueueStage'
    BY <1>2, <1>5, <1>9, <2>4 DEF InitshareMemFails
  <2>6. InitStage' /\ WorkerStage'
    BY <1>1, <2>1, <2>2 DEF InitStage, Quiet, WorkerStage
  <2>7. TypeOK'
    BY <1>1, <2>1, <2>3, <2>5 DEF TypeOK
  <2>8. QED
    BY <2>3, <2>5, <2>6, <2>7 DEF IInv
<1>10. CASE Control \/ ControlFails \/ \E flag \in {0, 1} : Monitor(flag)
  <2>1. UNCHANGED serviceVars /\ UNCHANGED memVars /\ UNCHANGED queueVars
    BY <1>10 DEF Control, ControlFails, Monitor, driverVars
  <2>2. failures' \in 0..MaxFailures /\ (failures' = failures \/ failures' > 0)
    BY <1>4, <1>10, FailCounts DEF Control, ControlFails, Monitor
  <2>3. SetupTypeOK' /\ SetupStage' /\ MemTypeOK' /\ MemStage' /\ QueueStage'
    BY <1>2, <1>3, <1>5, <2>1, <2>2
  <2>4. InitStage' /\ WorkerStage'
    <3> USE DEF InitStage, Quiet, WorkerStage, memVars, queueVars, workerVars
    <3>1. CASE Control
      BY <1>1, <2>1, <3>1 DEF Control, TypeOK
    <3>2. CASE ControlFails
      BY <1>1, <2>1, <3>2 DEF ControlFails, Return, driverVars
    <3>3. CASE \E flag \in {0, 1} : Monitor(flag)
      BY <1>1, <2>1, <3>3 DEF Monitor, driverVars
    <3>4. QED
      BY <1>10, <3>1, <3>2, <3>3
  <2>5. TypeOK'
    BY <1>1, <1>10, <2>1, <2>3 DEF Control, ControlFails, Monitor, Return,
       driverVars, queueVars, workerVars, TypeOK
  <2>6. QED
    BY <2>3, <2>4, <2>5 DEF IInv
<1>11. CASE \/ Worker \/ ReadRefused \/ ReadAnswered \/ ReadFails \/ Callouts
  <2> USE DEF Worker, Callouts
  <2>1. UNCHANGED serviceVars /\ UNCHANGED memVars
    BY <1>11 DEF ReadFile, Parse, ParseWithoutHandler, ReadRefused, ReadAnswered,
       ReadFails, Classify, LinkFlow, PushQuery, driverVars
  <2>2. failures' \in 0..MaxFailures /\ (failures' = failures \/ failures' > 0)
    BY <1>4, <1>11, FailCounts DEF ReadFile, Parse, ParseWithoutHandler,
       ReadRefused, ReadAnswered, ReadFails, Classify, LinkFlow, PushQuery
  <2>3. SetupTypeOK' /\ SetupStage' /\ MemTypeOK' /\ MemStage'
    BY <1>2, <1>3, <2>1, <2>2
  <2>4. UNCHANGED <<monitor, app, result, request, handle, handler, mem, live,
                    fields>>
    BY <1>11, <2>1 DEF ReadFile, Parse, ParseWithoutHandler, ReadRefused,
       ReadAnswered, ReadFails, Classify, LinkFlow, PushQuery, driverVars,
       appVars, memVars
  <2>5. /\ QueueStage' /\ (Quiet => Quiet')
        /\ pending' \in 0..MaxPending /\ batch' \in 0..MaxPending
        /\ queries' \in 0..MaxPending
        /\ entered' \in 0..MaxCalls /\ linked' \in 0..MaxCalls
    <3>1. /\ MaxPending \in Nat /\ pending \in 0..MaxPending
          /\ batch \in 0..MaxPending /\ queries \in 0..MaxPending
          /\ MaxCalls \in Nat /\ entered \in 0..MaxCalls
          /\ linked \in 0..MaxCalls /\ QueueStage
      BY <1>1, PendingAssumption, CallsAssumption DEF TypeOK
    <3> USE <2>4 DEF QueueStage, Quiet
    <3>2. CASE ReadAnswered
      <4>1. PICK n \in 0..pending, left \in 0..queries :
              batch' = n /\ pending' = pending - n /\ queries' = left
        BY <3>2 DEF ReadAnswered
      <4>2. UNCHANGED <<entered, linked>> /\ queries > 0
        BY <3>2 DEF ReadAnswered
      <4>3. QED
        BY <3>1, <4>1, <4>2
    <3>3. CASE Classify
      BY <3>1, <3>3 DEF Classify, workerVars
    <3>4. CASE LinkFlow
      BY <3>1, <3>4 DEF LinkFlow, workerVars
    <3>5. CASE PushQuery
      BY <3>1, <3>5 DEF PushQuery, workerVars
    <3>6. CASE Worker \/ ReadRefused \/ ReadFails
      BY <3>1, <3>6 DEF ReadFile, Parse, ParseWithoutHandler, ReadRefused,
         ReadFails, driverVars, queueVars, workerVars
    <3>7. QED
      BY <1>11, <3>2, <3>3, <3>4, <3>5, <3>6
  <2>6. WorkerStage' /\ (worker = "none" => worker' = "none")
    BY <1>1, <1>11, <2>4 DEF ReadFile, Parse, ParseWithoutHandler,
       ReadRefused, ReadAnswered, ReadFails, Classify, LinkFlow, PushQuery,
       workerVars, WorkerStage
  <2>7. InitStage'
    BY <1>1, <2>4, <2>5, <2>6 DEF InitStage
  <2>8. /\ worker' \in {"none", "read", "inRead", "parse", "finished"}
        /\ crashed' \in BOOLEAN
    BY <1>1, <1>11 DEF ReadFile, Parse, ParseWithoutHandler, ReadRefused,
       ReadAnswered, ReadFails, Classify, LinkFlow, PushQuery, workerVars,
       TypeOK
  <2>9. TypeOK'
    BY <1>1, <2>3, <2>4, <2>5, <2>8 DEF TypeOK
  <2>10. QED
    BY <2>3, <2>5, <2>6, <2>7, <2>9 DEF IInv
<1>12. CASE UNCHANGED vars
  <2>1. /\ UNCHANGED serviceVars /\ UNCHANGED memVars /\ UNCHANGED queueVars
        /\ failures' = failures
    BY <1>12 DEF vars, driverVars
  <2>2. SetupTypeOK' /\ SetupStage' /\ MemTypeOK' /\ MemStage' /\ QueueStage'
    BY <1>2, <1>3, <1>4, <1>5, <2>1
  <2>3. QED
    BY <1>1, <1>12, <2>2 DEF vars, driverVars, memVars, queueVars, appVars,
       workerVars, IInv, TypeOK, InitStage, Quiet, WorkerStage
<1>13. QED
  BY <1>6, <1>7, <1>8, <1>9, <1>10, <1>11, <1>12 DEF Next, NfInit

LEMMA Invariance == Spec => []IInv
  BY InitInv, NextInv, PTL DEF Spec

-----------------------------------------------------------------------------
(* Theorems.                                                               *)

(* Every variable keeps its type. *)
THEOREM TypeCorrect == Spec => []TypeOK
<1>1. IInv => TypeOK
  BY DEF IInv
<1>2. QED
  BY <1>1, Invariance, PTL

(* nf_init goes on to the device only when the service is up or coming up,
   however the service is created, started and interrogated by others: unless
   a system call failed, or another client stopped or created it. *)
THEOREM DeviceIsThere == Spec => []OpensWhenUp
<1>1. IInv => OpensWhenUp
  BY DEF IInv, SetupStage, OpensWhenUp
<1>2. QED
  BY <1>1, Invariance, PTL

(* CreateDriver's stop takes the service down only after a system call failed
   or another client created the service: starts and stops by others do not
   lead there. *)
THEOREM NoStopOfARunningDriver == Spec => StopsOnStaleStatus
<1>1. IInv /\ [Next]_vars =>
        [setup = "stop" /\ setup' = "stopWait"
           => failures > 0 \/ "create" \in others]_setupVars
  BY DEF IInv, SetupStage
<1>2. QED
  BY <1>1, Invariance, PTL DEF Spec, StopsOnStaleStatus

(* An nf_init that gave up before its control request leaves no worker, no
   handle and a driver that does not capture, whatever is called later. *)
THEOREM EarlyFailureStaysQuiet == Spec => []EarlyFailureIsQuiet
<1>1. IInv => EarlyFailureIsQuiet
  BY DEF IInv, InitStage, Quiet, EarlyFailureIsQuiet
<1>2. QED
  BY <1>1, Invariance, PTL

(* A failed nf_init leaves the shared buffers freed, or whole and reachable by
   the handle, depending on the call that failed. *)
THEOREM FailureLeavesNoHalf == Spec => []FailedInitLeavesNoHalf
<1>1. IInv => FailedInitLeavesNoHalf
  BY DEF IInv, TypeOK, InitStage, MemStage, FailedInitLeavesNoHalf
<1>2. QED
  BY <1>1, Invariance, PTL

(* The driver fills and the worker parses mapped buffers only. *)
THEOREM ReadsHaveBuffers == Spec => []ReadsAreMapped
<1>1. IInv => ReadsAreMapped
  BY DEF IInv, WorkerStage, MemStage, ReadsAreMapped
<1>2. QED
  BY <1>1, Invariance, PTL

(* No answer overwrites a batch that is being parsed. *)
THEOREM BatchIsNotOverwritten == Spec => BatchIsStable
<1>1. IInv /\ [Next]_vars => [batch # 0 => batch' \in {0, batch}]_vars
  <2>1. SUFFICES ASSUME IInv, Next, batch # 0
                 PROVE  batch' \in {0, batch}
    OBVIOUS
  <2>2. worker = "parse"
    BY <2>1 DEF IInv, WorkerStage
  <2>3. QED
    BY <2>1, <2>2 DEF Next, NfInit, Worker, Callouts, CheckService, ManagerStep,
       OpenDevice, OpenDeviceFails, MakeBuffersStep, InitshareMem,
       InitshareMemFails, StartWorker, SetHandler, Control, ControlFails,
       Monitor, ReadFile, Parse, ParseWithoutHandler, ReadRefused, ReadAnswered,
       ReadFails, Classify, LinkFlow, PushQuery, workerVars
<1>2. QED
  BY <1>1, Invariance, PTL DEF Spec, BatchIsStable

-----------------------------------------------------------------------------
(* When the client crashes, has no reader, or blocks.                      *)

(* How far nf_init is when a batch comes, and when the handler is set. *)
HandlerStage ==
  /\ worker = "parse" => app \in {"handler", "idle", "control"}
  /\ app \in {"idle", "control"} => result # 0
  /\ app = "handler" => result = 0
  /\ result = 1 => handler
  /\ CrashWindow

LEMMA HandlerStageInv ==
  ASSUME IInv, HandlerStage, [Next]_vars
  PROVE  HandlerStage'
<1> USE DEF HandlerStage, CrashWindow
<1>0. /\ InitStage /\ WorkerStage
      /\ app \in {"service", "open", "mem", "thread", "enable", "handler",
                  "idle", "control"}
      /\ result \in {-2, -1, 0, 1} /\ handler \in BOOLEAN
      /\ crashed \in BOOLEAN
  BY DEF IInv, TypeOK
<1>1. CASE CheckService \/ OpenDevice \/ OpenDeviceFails
  BY <1>0, <1>1 DEF CheckService, OpenDevice, OpenDeviceFails, Return, Running,
     InitStage, workerVars
<1>2. CASE MakeBuffersStep \/ InitshareMem \/ InitshareMemFails \/ StartWorker
  BY <1>0, <1>2 DEF MakeBuffersStep, InitshareMem, InitshareMemFails,
     StartWorker, Return, Running, InitStage, appVars, workerVars
<1>3. CASE SetHandler
  BY <1>0, <1>3 DEF SetHandler, Return, Running, workerVars
<1>4. CASE Control \/ ControlFails \/ \E flag \in {0, 1} : Monitor(flag)
  BY <1>0, <1>4 DEF Control, ControlFails, Monitor, Return, Running, InitStage,
     workerVars
<1>5. CASE ReadFile \/ ReadRefused \/ ReadFails \/ Parse \/ Callouts
  BY <1>0, <1>5 DEF ReadFile, ReadRefused, ReadFails, Parse, Callouts, Classify,
     LinkFlow, PushQuery, appVars, workerVars
<1>6. CASE ReadAnswered
  <2>1. ~Quiet /\ UNCHANGED <<app, result, handler, crashed>>
    BY <1>6 DEF ReadAnswered, Quiet, appVars
  <2>2. app \in {"handler", "idle", "control"}
    BY <1>0, <2>1 DEF InitStage
  <2>3. QED
    BY <2>1, <2>2
<1>7. CASE ParseWithoutHandler
  <2>1. worker = "parse" /\ ~handler /\ UNCHANGED <<app, result, handler, worker>>
    BY <1>7 DEF ParseWithoutHandler, appVars, workerVars
  <2>2. result # -1
    BY <1>0, <2>1 DEF InitStage
  <2>3. QED
    BY <1>0, <2>1, <2>2
<1>8. CASE ManagerStep \/ UNCHANGED vars
  BY <1>0, <1>8 DEF ManagerStep, appVars, workerVars, vars
<1>9. QED
  BY <1>1, <1>2, <1>3, <1>4, <1>5, <1>6, <1>7, <1>8 DEF Next, NfInit, Worker

(* However worker, application and classify calls interleave, a batch meets
   no handler only in the window of nf_init or after its control request
   failed. *)
THEOREM CrashOnlyInWindow == Spec => []CrashWindow
<1>1. Init => HandlerStage
  BY DEF Init, HandlerStage, CrashWindow
<1>2. IInv /\ HandlerStage => CrashWindow
  BY DEF HandlerStage
<1>3. QED
  BY <1>1, <1>2, HandlerStageInv, InitInv, NextInv, PTL DEF Spec

(* Once it was started the worker ends on a failure only. *)
WorkerStarted ==
  /\ app \in {"enable", "handler"} \/ result = 1 =>
       worker # "none" \/ failures > 0
  /\ worker = "finished" => failures > 0

LEMMA WorkerStartedInv ==
  ASSUME IInv, WorkerStarted, [Next]_vars
  PROVE  WorkerStarted'
<1> USE DEF WorkerStarted
<1>0. failures \in 0..MaxFailures /\ InitStage /\ WorkerStage
      /\ result \in {-2, -1, 0, 1}
  BY DEF IInv, TypeOK, SetupTypeOK
<1>1. failures' = failures \/ failures' > 0
  <2>1. CASE SetUpService \/ Manager
    BY <2>1, SetupCounts DEF IInv, TypeOK
  <2>2. CASE ~SetUpService /\ ~Manager
    BY <1>0, <2>2, FailCounts DEF Next, NfInit, Worker, Callouts, CheckService,
       ManagerStep, OpenDevice, OpenDeviceFails, MakeBuffersStep, MakeBuffers,
       OpenMem, MapPart, MappingFails, ReturnPointers, FreeAfterFailure,
       InitshareMem, InitshareMemFails, StartWorker, SetHandler, Control,
       ControlFails, Monitor, ReadFile, Parse, ParseWithoutHandler, ReadRefused,
       ReadAnswered, ReadFails, Classify, LinkFlow, PushQuery, vars
  <2>3. QED
    BY <2>1, <2>2
<1>2. CASE NfInit /\ ~StartWorker
  BY <1>0, <1>1, <1>2 DEF NfInit, CheckService, OpenDevice, OpenDeviceFails,
     MakeBuffersStep, InitshareMem, InitshareMemFails, SetHandler, Return,
     InitStage, appVars, workerVars
<1>3. CASE StartWorker
  BY <1>0, <1>1, <1>3, FailCounts DEF StartWorker, InitStage, WorkerStage
<1>4. CASE Control \/ ControlFails \/ \E flag \in {0, 1} : Monitor(flag)
  BY <1>0, <1>1, <1>4 DEF Control, ControlFails, Monitor, Return, workerVars
<1>5. CASE Worker \/ ReadAnswered \/ Callouts \/ ManagerStep
  BY <1>0, <1>1, <1>5 DEF Worker, ReadFile, Parse, ParseWithoutHandler,
     ReadAnswered, Callouts, Classify, LinkFlow, PushQuery, ManagerStep,
     appVars, workerVars
<1>6. CASE ReadFails \/ ReadRefused
  BY <1>0, <1>6, FailCounts DEF ReadFails, ReadRefused, appVars
<1>7. CASE UNCHANGED vars
  BY <1>7 DEF vars, appVars, workerVars
<1>8. QED
  BY <1>2, <1>3, <1>4, <1>5, <1>6, <1>7 DEF Next

(* An nf_init that reports success has a worker that reads, unless a system
   call failed: devctrl_workthread's unreported failure is the only way to a
   client that nobody reads for. *)
WorkerLives ==
  result = 1 => worker \in {"read", "inRead", "parse"} \/ failures > 0

(* Success of nf_init therefore means a client that reads.                 *)
THEOREM SuccessHasWorker == Spec => []WorkerLives
<1>1. Init => WorkerStarted
  BY DEF Init, WorkerStarted
<1>2. IInv /\ WorkerStarted => WorkerLives
  BY DEF IInv, TypeOK, WorkerStarted, WorkerLives
<1>3. QED
  BY <1>1, <1>2, WorkerStartedInv, InitInv, NextInv, PTL DEF Spec

(* A control request waits for the file object, which the worker's ReadFile
   holds, and the driver has nothing to answer that with: no query, no classify
   call about to push one, and a monitor that is off. *)
Blocked == /\ app \in {"enable", "control"} /\ worker = "inRead"
           /\ queries = 0 /\ entered = 0 /\ linked = 0 /\ monitor = 0

(* Nobody ends such a wait: neither thread, nor the driver, nor the service
   manager.  The call of nf_init or nf_monitor never returns. *)
THEOREM BlockedForGood == Spec => [](Blocked => []Blocked)
<1>1. Blocked /\ [Next]_vars => Blocked'
  BY DEF Blocked, Next, NfInit, Worker, Callouts, CheckService, OpenDevice,
     OpenDeviceFails, MakeBuffersStep, InitshareMem, InitshareMemFails,
     StartWorker, SetHandler, Control, ControlFails, Monitor, ReadFile, Parse,
     ParseWithoutHandler, ReadRefused, ReadAnswered, ReadFails, Classify,
     LinkFlow, PushQuery, ManagerStep, appVars, workerVars, queueVars, vars,
     driverVars
<1>2. QED
  BY <1>1, PTL DEF Spec
=============================================================================
