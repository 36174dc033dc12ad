---------------------------- MODULE PendedReads -----------------------------
(***************************************************************************)
(* The read side of the control device (wfpdriver/devctrl.c): the client's *)
(* ReadFile calls arrive as IRPs, devctrl_read1 parks them on              *)
(* g_pendedIoRequests, the I/O thread answers one of them each time        *)
(* g_ioThreadEvent wakes it while g_IoQueryHead holds work, and            *)
(* devctrl_cancelRead answers the ones the I/O manager cancels.            *)
(*                                                                         *)
(* Atomicity.  g_sIolock orders the list operations, but IoCancelIrp runs  *)
(* under the system's cancel spin lock and swaps an IRP's cancel routine   *)
(* without g_sIolock, so every IoSetCancelRoutine and every test of        *)
(* irp->Cancel is a step of its own.  A critical section that touches      *)
(* nothing but lock-protected state is one step, enabled when the lock is  *)
(* free.                                                                   *)
(*                                                                         *)
(* The packets themselves are in module CaptureQueue; here a pop succeeds  *)
(* or fails.  Each IRP is issued once and at most MaxPush entries are      *)
(* queued in a behaviour.                                                  *)
(***************************************************************************)
EXTENDS Naturals, Sequences, FiniteSets, SequencesExt

CONSTANTS Irps,           \* the read requests
          MaxOutstanding, \* requests the client keeps outstanding at a time
          MaxPush,        \* bound: query entries pushed in a behaviour
          NoIrp           \* "no request": a local that holds no IRP pointer

ASSUME IrpsAssumption == NoIrp \notin Irps
ASSUME BoundsAssumption == MaxOutstanding \in Nat /\ MaxPush \in Nat

VARIABLES
  (* global state of devctrl.c *)
  sIolock,    \* g_sIolock is held across a step boundary
  pended,     \* g_pendedIoRequests, head first
  queries,    \* number of entries on g_IoQueryHead
  ioEvent,    \* g_ioThreadEvent, an auto-reset event
  shutdown,   \* g_shutdown
  (* fields of each IRP *)
  cancel,     \* irp->Cancel
  routine,    \* irp->CancelRoutine is devctrl_cancelRead
  answers,    \* history: the statuses IoCompleteRequest was called with
  (* control state *)
  rd,         \* rd[i]: where the thread that dispatches read i is
  cx,         \* cx[i]: where the thread that cancels IRP i is
  io,         \* where devctrl_ioThread is
  pos,        \* the scan position of devctrl_serviceReads
  cur,        \* the IRP devctrl_serviceReads has taken
  unl,        \* where driver_free is
  pushed,     \* entries pushed so far
  pushers     \* threads between InsertHeadList and KeSetEvent

irpVars == <<cancel, routine, answers>>
ioVars  == <<io, pos, cur>>
vars    == <<sIolock, pended, queries, ioEvent, shutdown, cancel, routine,
             answers, rd, cx, io, pos, cur, unl, pushed, pushers>>

Statuses == {"SUCCESS", "CANCELLED", "INVALID_PARAMETER",
             "INSUFFICIENT_RESOURCES"}

Listed == Range(pended)

(* IoCompleteRequest: the IRP goes back to its owner. *)
Complete(i, status) == answers' = [answers EXCEPT ![i] = Append(@, status)]

(* The client still waits for the request, or is still inside the call. *)
Busy(i) == rd[i] # "idle" /\ ~(rd[i] = "done" /\ answers[i] # <<>>)

Outstanding == {i \in Irps : Busy(i)}

-----------------------------------------------------------------------------

Init == /\ sIolock = FALSE
        /\ pended  = <<>>
        /\ queries = 0
        /\ ioEvent = FALSE
        /\ shutdown = FALSE
        /\ cancel  = [i \in Irps |-> FALSE]
        /\ routine = [i \in Irps |-> FALSE]
        /\ answers = [i \in Irps |-> <<>>]
        /\ rd = [i \in Irps |-> "idle"]
        /\ cx = [i \in Irps |-> "idle"]
        /\ io = "wait"
        /\ pos = 1
        /\ cur = NoIrp
        /\ unl = "loaded"
        /\ pushed = 0
        /\ pushers = 0

-----------------------------------------------------------------------------
(* Plausible mistakes: what some of the actions below would be if the code *)
(* forgot a check or a call.  Each breaks one of the properties.           *)

(* devctrl_serviceReads without RemoveEntryList. *)
TakeRead_NoUnlink ==
  /\ io = "scan"
  /\ pos <= Len(pended)
  /\ routine[pended[pos]]
  /\ routine' = [routine EXCEPT ![pended[pos]] = FALSE]
  /\ cur' = pended[pos]
  /\ sIolock' = FALSE
  /\ io' = "map"
  /\ UNCHANGED <<pended, queries, ioEvent, shutdown, cancel, answers, rd, cx,
                 pos, unl, pushed, pushers>>

(* ... testing the routine without taking it back. *)
TakeRead_KeepRoutine ==
  /\ io = "scan"
  /\ pos <= Len(pended)
  /\ routine[pended[pos]]
  /\ cur' = pended[pos]
  /\ pended' = RemoveAt(pended, pos)
  /\ sIolock' = FALSE
  /\ io' = "map"
  /\ UNCHANGED <<routine, queries, ioEvent, shutdown, cancel, answers, rd, cx,
                 pos, unl, pushed, pushers>>

(* ... ignoring what IoSetCancelRoutine returns. *)
TakeRead_IgnoreResult ==
  /\ io = "scan"
  /\ pos <= Len(pended)
  /\ routine' = [routine EXCEPT ![pended[pos]] = FALSE]
  /\ cur' = pended[pos]
  /\ pended' = RemoveAt(pended, pos)
  /\ sIolock' = FALSE
  /\ io' = "map"
  /\ UNCHANGED <<queries, ioEvent, shutdown, cancel, answers, rd, cx, pos,
                 unl, pushed, pushers>>

(* ... without the return after the failed mapping. *)
MapFails_NoReturn ==
  /\ io = "map"
  /\ Complete(cur, "INSUFFICIENT_RESOURCES")
  /\ io' = "fill"
  /\ UNCHANGED <<sIolock, pended, queries, ioEvent, shutdown, cancel, routine,
                 rd, cx, pos, cur, unl, pushed, pushers>>

(* devctrl_read1 without the test of irp->Cancel. *)
ParkRead_NoCancelTest(i) ==
  /\ rd[i] \in {"armed", "disarm"}
  /\ pended' = Append(pended, i)
  /\ sIolock' = FALSE
  /\ rd' = [rd EXCEPT ![i] = "signal"]
  /\ UNCHANGED <<queries, ioEvent, shutdown, irpVars, cx, ioVars, unl,
                 pushed, pushers>>

(* devctrl_read1 without KeSetEvent. *)
SignalRead_NoEvent(i) ==
  /\ rd[i] \in {"signal", "signalCancelled"}
  /\ rd' = [rd EXCEPT ![i] = IF @ = "signal" THEN "done" ELSE "complete"]
  /\ UNCHANGED <<sIolock, pended, queries, ioEvent, shutdown, irpVars, cx,
                 ioVars, unl, pushed, pushers>>

(* devctrl_pushFlowCtxBuffer without KeSetEvent. *)
SignalPush_NoEvent ==
  /\ pushers > 0
  /\ pushers' = pushers - 1
  /\ UNCHANGED <<sIolock, pended, queries, ioEvent, shutdown, irpVars, rd, cx,
                 ioVars, unl, pushed>>

(* devctrl_clean without the test of IsListEmpty. *)
CleanQuery_Unchecked ==
  /\ ~sIolock
  /\ unl = "loaded"
  /\ queries' = queries - 1
  /\ UNCHANGED <<sIolock, pended, ioEvent, shutdown, irpVars, rd, cx, ioVars,
                 unl, pushed, pushers>>

(* devctrl_free without KeSetEvent. *)
UnloadSignal_NoEvent ==
  /\ unl = "signal"
  /\ unl' = "join"
  /\ UNCHANGED <<sIolock, pended, queries, ioEvent, shutdown, irpVars, rd, cx,
                 ioVars, pushed, pushers>>

-----------------------------------------------------------------------------
(* devctrl_read1: the thread that issues read i.                           *)

(* IRP_MJ_READ reaches devctrl_dispatch. *)
Issue(i) ==
  /\ rd[i] = "idle"
  /\ unl = "loaded"
  /\ Cardinality(Outstanding) < MaxOutstanding
  /\ rd' = [rd EXCEPT ![i] = "validate"]
  /\ UNCHANGED <<sIolock, pended, queries, ioEvent, shutdown, irpVars, cx,
                 ioVars, unl, pushed, pushers>>

(* A NULL MDL, an MDL that cannot be mapped or a buffer shorter than
   NF_READ_RESULT: answered at once, the lists and the event untouched. *)
RejectRead(i) ==
  /\ rd[i] = "validate"
  /\ \E status \in {"INVALID_PARAMETER", "INSUFFICIENT_RESOURCES"} :
        Complete(i, status)
  /\ rd' = [rd EXCEPT ![i] = "done"]
  /\ UNCHANGED <<sIolock, pended, queries, ioEvent, shutdown, cancel, routine,
                 cx, ioVars, unl, pushed, pushers>>

(* sl_lock, then IoSetCancelRoutine(irp, devctrl_cancelRead). *)
ArmRead(i) ==
  /\ rd[i] = "validate"
  /\ ~sIolock
  /\ sIolock' = TRUE
  /\ routine' = [routine EXCEPT ![i] = TRUE]
  /\ rd' = [rd EXCEPT ![i] = "armed"]
  /\ UNCHANGED <<pended, queries, ioEvent, shutdown, cancel, answers, cx,
                 ioVars, unl, pushed, pushers>>

(* irp->Cancel is already set: try to take the routine back. *)
SeeCancel(i) ==
  /\ rd[i] = "armed"
  /\ cancel[i]
  /\ rd' = [rd EXCEPT ![i] = "disarm"]
  /\ UNCHANGED <<sIolock, pended, queries, ioEvent, shutdown, irpVars, cx,
                 ioVars, unl, pushed, pushers>>

(* IoSetCancelRoutine(irp, NULL) returned the routine: this thread answers.
   sl_unlock ends the step. *)
Disarm(i) ==
  /\ rd[i] = "disarm"
  /\ routine[i]
  /\ routine' = [routine EXCEPT ![i] = FALSE]
  /\ sIolock' = FALSE
  /\ rd' = [rd EXCEPT ![i] = "signalCancelled"]
  /\ UNCHANGED <<pended, queries, ioEvent, shutdown, cancel, answers, cx,
                 ioVars, unl, pushed, pushers>>

(* Not cancelled, or IoCancelIrp has the routine already and
   devctrl_cancelRead is going to wait for the lock: park the IRP. *)
ParkRead(i) ==
  /\ \/ rd[i] = "armed" /\ ~cancel[i]
     \/ rd[i] = "disarm" /\ ~routine[i]
  /\ pended' = Append(pended, i)
  /\ sIolock' = FALSE
  /\ rd' = [rd EXCEPT ![i] = "signal"]
  /\ UNCHANGED <<queries, ioEvent, shutdown, irpVars, cx, ioVars, unl,
                 pushed, pushers>>

(* KeSetEvent, parked or not; a parked read returns STATUS_PENDING. *)
SignalRead(i) ==
  /\ rd[i] \in {"signal", "signalCancelled"}
  /\ ioEvent' = TRUE
  /\ rd' = [rd EXCEPT ![i] = IF @ = "signal" THEN "done" ELSE "complete"]
  /\ UNCHANGED <<sIolock, pended, queries, shutdown, irpVars, cx, ioVars,
                 unl, pushed, pushers>>

(* The read that found itself cancelled is answered by its own thread. *)
CompleteCancelled(i) ==
  /\ rd[i] = "complete"
  /\ Complete(i, "CANCELLED")
  /\ rd' = [rd EXCEPT ![i] = "done"]
  /\ UNCHANGED <<sIolock, pended, queries, ioEvent, shutdown, cancel, routine,
                 cx, ioVars, unl, pushed, pushers>>

Read1(i) == \/ RejectRead(i) \/ ArmRead(i) \/ SeeCancel(i) \/ Disarm(i)
            \/ ParkRead(i) \/ SignalRead(i) \/ CompleteCancelled(i)

-----------------------------------------------------------------------------
(* Cancellation: IoCancelIrp of the I/O manager, then devctrl_cancelRead.  *)

(* IoCancelIrp takes the cancel spin lock and sets irp->Cancel.  It may run
   from the moment the IRP exists, before the driver has seen it. *)
CancelIrp(i) ==
  /\ cx[i] = "idle"
  /\ rd[i] # "idle"
  /\ answers[i] = <<>>
  /\ cancel' = [cancel EXCEPT ![i] = TRUE]
  /\ cx' = [cx EXCEPT ![i] = "swap"]
  /\ UNCHANGED <<sIolock, pended, queries, ioEvent, shutdown, routine,
                 answers, rd, ioVars, unl, pushed, pushers>>

(* IoCancelIrp swaps the routine out and calls it if there was one. *)
SwapRoutine(i) ==
  /\ cx[i] = "swap"
  /\ routine' = [routine EXCEPT ![i] = FALSE]
  /\ cx' = [cx EXCEPT ![i] = IF routine[i] THEN "called" ELSE "done"]
  /\ UNCHANGED <<sIolock, pended, queries, ioEvent, shutdown, cancel, answers,
                 rd, ioVars, unl, pushed, pushers>>

(* devctrl_cancelRead: RemoveEntryList under g_sIolock. *)
CancelRead(i) ==
  /\ cx[i] = "called"
  /\ ~sIolock
  /\ \E k \in 1..Len(pended) : /\ pended[k] = i
                               /\ pended' = RemoveAt(pended, k)
  /\ cx' = [cx EXCEPT ![i] = "complete"]
  /\ UNCHANGED <<sIolock, queries, ioEvent, shutdown, irpVars, rd, ioVars,
                 unl, pushed, pushers>>

(* ... and STATUS_CANCELLED once the lock is released. *)
CompleteCancelRead(i) ==
  /\ cx[i] = "complete"
  /\ Complete(i, "CANCELLED")
  /\ cx' = [cx EXCEPT ![i] = "done"]
  /\ UNCHANGED <<sIolock, pended, queries, ioEvent, shutdown, cancel, routine,
                 rd, ioVars, unl, pushed, pushers>>

CancelSteps(i) == SwapRoutine(i) \/ CancelRead(i) \/ CompleteCancelRead(i)

-----------------------------------------------------------------------------
(* devctrl_ioThread, devctrl_serviceReads and devctrl_fillBuffer.          *)

(* KeWaitForSingleObject returns and resets the event. *)
WakeUp ==
  /\ io = "wait"
  /\ ioEvent
  /\ ioEvent' = FALSE
  /\ io' = "check"
  /\ UNCHANGED <<sIolock, pended, queries, shutdown, irpVars, rd, cx, pos,
                 cur, unl, pushed, pushers>>

(* devctrl_isShutdown, under the lock. *)
CheckShutdown ==
  /\ io = "check"
  /\ ~sIolock
  /\ io' = IF shutdown THEN "exited" ELSE "service"
  /\ UNCHANGED <<sIolock, pended, queries, ioEvent, shutdown, irpVars, rd, cx,
                 pos, cur, unl, pushed, pushers>>

(* Either list empty: back to the wait. *)
NothingToService ==
  /\ io = "service"
  /\ ~sIolock
  /\ pended = <<>> \/ queries = 0
  /\ io' = "wait"
  /\ UNCHANGED <<sIolock, pended, queries, ioEvent, shutdown, irpVars, rd, cx,
                 pos, cur, unl, pushed, pushers>>

(* Both lists hold something: start the scan, keeping the lock. *)
StartScan ==
  /\ io = "service"
  /\ ~sIolock
  /\ pended # <<>> /\ queries > 0
  /\ sIolock' = TRUE
  /\ pos' = 1
  /\ io' = "scan"
  /\ UNCHANGED <<pended, queries, ioEvent, shutdown, irpVars, rd, cx, cur,
                 unl, pushed, pushers>>

(* IoSetCancelRoutine(irp, NULL) returned NULL: the IRP is being cancelled,
   its canceller will unlink it; skip it. *)
SkipCancelled ==
  /\ io = "scan"
  /\ pos <= Len(pended)
  /\ ~routine[pended[pos]]
  /\ pos' = pos + 1
  /\ UNCHANGED <<sIolock, pended, queries, ioEvent, shutdown, irpVars, rd, cx,
                 io, cur, unl, pushed, pushers>>

(* The first IRP that gives its routine up is taken off the list. *)
TakeRead ==
  /\ io = "scan"
  /\ pos <= Len(pended)
  /\ routine[pended[pos]]
  /\ routine' = [routine EXCEPT ![pended[pos]] = FALSE]
  /\ cur' = pended[pos]
  /\ pended' = RemoveAt(pended, pos)
  /\ sIolock' = FALSE
  /\ io' = "map"
  /\ UNCHANGED <<queries, ioEvent, shutdown, cancel, answers, rd, cx, pos,
                 unl, pushed, pushers>>

(* Every parked IRP is being cancelled. *)
NoneFound ==
  /\ io = "scan"
  /\ pos > Len(pended)
  /\ sIolock' = FALSE
  /\ io' = "wait"
  /\ UNCHANGED <<pended, queries, ioEvent, shutdown, irpVars, rd, cx, pos,
                 cur, unl, pushed, pushers>>

(* MmGetSystemAddressForMdlSafe fails: the read is answered, the query
   entries stay where they are. *)
MapFails ==
  /\ io = "map"
  /\ Complete(cur, "INSUFFICIENT_RESOURCES")
  /\ cur' = NoIrp
  /\ io' = "wait"
  /\ UNCHANGED <<sIolock, pended, queries, ioEvent, shutdown, cancel, routine,
                 rd, cx, pos, unl, pushed, pushers>>

MapRead ==
  /\ io = "map"
  /\ io' = "fill"
  /\ UNCHANGED <<sIolock, pended, queries, ioEvent, shutdown, irpVars, rd, cx,
                 pos, cur, unl, pushed, pushers>>

(* devctrl_fillBuffer takes the next entry and drops the lock to pop. *)
TakeQuery ==
  /\ io = "fill"
  /\ ~sIolock
  /\ queries > 0
  /\ queries' = queries - 1
  /\ io' = "pop"
  /\ UNCHANGED <<sIolock, pended, ioEvent, shutdown, irpVars, rd, cx, pos,
                 cur, unl, pushed, pushers>>

FillDone ==
  /\ io = "fill"
  /\ ~sIolock
  /\ queries = 0
  /\ io' = "answer"
  /\ UNCHANGED <<sIolock, pended, queries, ioEvent, shutdown, irpVars, rd, cx,
                 pos, cur, unl, pushed, pushers>>

PopSucceeds ==
  /\ io = "pop"
  /\ ~sIolock
  /\ io' = "fill"
  /\ UNCHANGED <<sIolock, pended, queries, ioEvent, shutdown, irpVars, rd, cx,
                 pos, cur, unl, pushed, pushers>>

(* The shared buffer is full: the entry goes back and the loop ends. *)
PopFails ==
  /\ io = "pop"
  /\ ~sIolock
  /\ queries' = queries + 1
  /\ io' = "answer"
  /\ UNCHANGED <<sIolock, pended, ioEvent, shutdown, irpVars, rd, cx, pos,
                 cur, unl, pushed, pushers>>

AnswerRead ==
  /\ io = "answer"
  /\ Complete(cur, "SUCCESS")
  /\ cur' = NoIrp
  /\ io' = "wait"
  /\ UNCHANGED <<sIolock, pended, queries, ioEvent, shutdown, cancel, routine,
                 rd, cx, pos, unl, pushed, pushers>>

IoThread == \/ WakeUp \/ CheckShutdown \/ NothingToService \/ StartScan
            \/ SkipCancelled \/ TakeRead \/ NoneFound \/ MapFails \/ MapRead
            \/ TakeQuery \/ FillDone \/ PopSucceeds \/ PopFails \/ AnswerRead

-----------------------------------------------------------------------------
(* The callouts queue work; close and unload throw it away.                *)

(* devctrl_push*CtxBuffer: InsertHeadList under the lock ...  Nothing waits
   for a classify call in progress: it may push at any time, even when
   devctrl_free has drained and deleted the list of the entries. *)
PushQuery ==
  /\ ~sIolock
  /\ pushed < MaxPush
  /\ queries' = queries + 1
  /\ pushed' = pushed + 1
  /\ pushers' = pushers + 1
  /\ UNCHANGED <<sIolock, pended, ioEvent, shutdown, irpVars, rd, cx, ioVars,
                 unl>>

(* ... and KeSetEvent after it. *)
SignalPush ==
  /\ pushers > 0
  /\ pushers' = pushers - 1
  /\ ioEvent' = TRUE
  /\ UNCHANGED <<sIolock, pended, queries, shutdown, irpVars, rd, cx, ioVars,
                 unl, pushed>>

(* The lookaside list is exhausted: nothing is queued, but KeSetEvent is
   called all the same. *)
PushFails ==
  /\ pushed < MaxPush
  /\ pushed' = pushed + 1
  /\ ioEvent' = TRUE
  /\ UNCHANGED <<sIolock, pended, queries, shutdown, irpVars, rd, cx, ioVars,
                 unl, pushers>>

(* One turn of devctrl_clean's loop, when some handle is closed. *)
CleanQuery ==
  /\ ~sIolock
  /\ unl = "loaded"
  /\ queries > 0
  /\ queries' = queries - 1
  /\ UNCHANGED <<sIolock, pended, ioEvent, shutdown, irpVars, rd, cx, ioVars,
                 unl, pushed, pushers>>

(* driver_free: devctrl_setShutdown.  The I/O manager unloads the driver
   only when no handle, hence no read, is left. *)
SetShutdown ==
  /\ unl = "loaded"
  /\ ~sIolock
  /\ Outstanding = {}
  /\ shutdown' = TRUE
  /\ unl' = "clean"
  /\ UNCHANGED <<sIolock, pended, queries, ioEvent, irpVars, rd, cx, ioVars,
                 pushed, pushers>>

(* devctrl_free: drain the entries one by one (devctrl_clean), ... *)
UnloadClean ==
  /\ unl = "clean"
  /\ ~sIolock
  /\ queries' = IF queries > 0 THEN queries - 1 ELSE 0
  /\ unl' = IF queries > 0 THEN "clean" ELSE "signal"
  /\ UNCHANGED <<sIolock, pended, ioEvent, shutdown, irpVars, rd, cx, ioVars,
                 pushed, pushers>>

(* ... wake the I/O thread ... *)
UnloadSignal ==
  /\ unl = "signal"
  /\ ioEvent' = TRUE
  /\ unl' = "join"
  /\ UNCHANGED <<sIolock, pended, queries, shutdown, irpVars, rd, cx, ioVars,
                 pushed, pushers>>

(* ... and wait for its end. *)
UnloadJoin ==
  /\ unl = "join"
  /\ io = "exited"
  /\ unl' = "unloaded"
  /\ UNCHANGED <<sIolock, pended, queries, ioEvent, shutdown, irpVars, rd, cx,
                 ioVars, pushed, pushers>>

Unload == SetShutdown \/ UnloadClean \/ UnloadSignal \/ UnloadJoin

-----------------------------------------------------------------------------

Next == \/ \E i \in Irps : \/ Issue(i) \/ Read1(i)
                           \/ CancelIrp(i) \/ CancelSteps(i)
        \/ IoThread
        \/ PushQuery \/ SignalPush \/ PushFails \/ CleanQuery
        \/ Unload

Spec == Init /\ [][Next]_vars

(* Kernel threads that are inside the driver keep running, and the in-stack
   queued spin lock is handed over in arrival order, so no waiter starves.
   Nothing obliges a client to issue or cancel a read, a callout to push, or
   an administrator to unload. *)
Fairness == /\ \A i \in Irps : /\ WF_vars(Read1(i))
                               /\ WF_vars(CancelSteps(i))
            /\ WF_vars(IoThread)
            /\ WF_vars(SignalPush)
            /\ WF_vars(UnloadClean \/ UnloadSignal \/ UnloadJoin)

FairSpec == Spec /\ Fairness

-----------------------------------------------------------------------------
(* Properties.                                                             *)

ReaderPCs == {"idle", "validate", "armed", "disarm", "signal",
              "signalCancelled", "complete", "done"}
CancelPCs == {"idle", "swap", "called", "complete", "done"}
IoPCs     == {"wait", "check", "service", "scan", "map", "fill", "pop",
              "answer", "exited"}
UnloadPCs == {"loaded", "clean", "signal", "join", "unloaded"}

(* Every variable keeps its type. *)
TypeOK == /\ sIolock \in BOOLEAN
          /\ pended \in Seq(Irps)
          /\ queries \in Nat
          /\ ioEvent \in BOOLEAN
          /\ shutdown \in BOOLEAN
          /\ cancel \in [Irps -> BOOLEAN]
          /\ routine \in [Irps -> BOOLEAN]
          /\ answers \in [Irps -> Seq(Statuses)]
          /\ rd \in [Irps -> ReaderPCs]
          /\ cx \in [Irps -> CancelPCs]
          /\ io \in IoPCs
          /\ pos \in Nat \ {0}
          /\ cur \in Irps \union {NoIrp}
          /\ unl \in UnloadPCs
          /\ pushed \in Nat
          /\ pushers \in Nat

(* Who has to answer IRP i: its dispatching thread, the list (that is, the
   next service or the canceller that finds it there), devctrl_cancelRead
   after it unlinked the IRP, or devctrl_serviceReads after it took it. *)
Owners(i) ==
  {o \in {"reader", "list", "canceller", "service"} :
     \/ o = "reader" /\ rd[i] \in {"validate", "armed", "disarm",
                                   "signalCancelled", "complete"}
     \/ o = "list" /\ i \in Listed
     \/ o = "canceller" /\ cx[i] = "complete"
     \/ o = "service" /\ cur = i}

(* However read1, IoCancelIrp, cancelRead and serviceReads interleave, an
   IRP that was issued and not answered is in exactly one pair of hands: it
   can be neither forgotten nor completed by two threads. *)
OneOwner == \A i \in Irps :
              rd[i] # "idle" /\ answers[i] = <<>>
                => \E o \in Owners(i) : Owners(i) = {o}

(* A completed IRP is gone: it was completed once, it is on no list, its
   cancel routine is cleared, and no thread is on its way to touch it. *)
AnsweredIsGone == \A i \in Irps :
                    answers[i] # <<>> => /\ Len(answers[i]) = 1
                                         /\ Owners(i) = {}
                                         /\ ~routine[i]
                                         /\ cx[i] # "called"

(* When devctrl_cancelRead gets the lock, its RemoveEntryList finds the IRP
   linked: IoCancelIrp may call it before devctrl_read1 has inserted the
   entry, or while devctrl_serviceReads walks over it. *)
CancelFindsEntry == \A i \in Irps :
                      cx[i] = "called" /\ ~sIolock => i \in Listed

(* devctrl_free deletes the lookaside list of the query entries before it
   waits for the I/O thread (devctrl.c:524): once the drain is over, that
   thread holds no entry it has yet to free, and no read, whatever classify
   calls in progress still push.  (What they push is in nobody's care.) *)
ThreadHoldsNoEntry == unl \in {"signal", "join", "unloaded"} =>
                        io \notin {"map", "fill", "pop", "answer"}

(* With one read outstanding at a time, which is what nf_workThread keeps,
   the I/O thread never sleeps on a parked read that could be served: if the
   event is clear, somebody is about to set it. *)
NoLostWakeup == /\ io = "wait" /\ ~ioEvent
                /\ queries > 0
                /\ \E i \in Listed : routine[i]
                => pushers > 0 \/ \E i \in Irps : rd[i] = "signal"

(* A read that somebody cancels is answered, whatever stage it was at. *)
CancelledReadAnswered == \A i \in Irps : cancel[i] ~> (answers[i] # <<>>)

(* A parked read is answered once there is something to report, unless a
   close drains the queue first. *)
ParkedReadServed == \A i \in Irps :
   (i \in Listed /\ queries > 0) ~> (answers[i] # <<>> \/ queries = 0)

(* devctrl_free's wait for the I/O thread ends: the event it set cannot be
   consumed by a turn that does not see g_shutdown. *)
UnloadEnds == (unl = "clean") ~> (unl = "unloaded")

(* Towards the I/O manager the device is module ReadRequests. *)
Abstract == INSTANCE ReadRequests WITH issued <- {i \in Irps : rd[i] # "idle"}

(* Each read is answered once, and with STATUS_CANCELLED only if it was
   cancelled: devctrl.c's lists, locks and routines implement that. *)
ImplementsReadRequests == Abstract!Spec
=============================================================================
