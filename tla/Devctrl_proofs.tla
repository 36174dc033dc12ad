--------------------------- MODULE Devctrl_proofs ---------------------------
(***************************************************************************)
(* Proofs about Devctrl, for every set of requests and packets and every   *)
(* bound: its behaviours are behaviours of PendedReads and of CaptureQueue,*)
(* neither of which holds the other back; the close finds no fill under    *)
(* way, and no read waits for a packet with everybody asleep.              *)
(***************************************************************************)
EXTENDS Devctrl, ListFacts

(* The theorems of the read side, for this client. *)
R == INSTANCE PendedReads_proofs
       WITH MaxOutstanding <- 1, MaxPush <- Cardinality(Packets),
            queries <- Len(queries), io <- thread

(* The theorems of the lists. *)
C == INSTANCE CaptureQueue_proofs

-----------------------------------------------------------------------------
(* Each step is one of PendedReads, or leaves its variables alone.         *)

(* What PendedReads assumes of its constants. *)
LEMMA ReadsAssumptions ==
  NoIrp \notin Irps /\ 1 \in Nat /\ Cardinality(Packets) \in Nat
BY IrpsAssumption, PacketsAssumption, FS_CardinalityType

(* ReadFile. *)
LEMMA IssueReads == ASSUME NEW i \in Irps, Issue(i) PROVE R!Issue(i)
<1>1. P!Cardinality(P!Outstanding) = R!Cardinality(R!Outstanding)
  <2>1. P!Outstanding = R!Outstanding
    BY DEF P!Outstanding, P!Busy, R!Outstanding, R!Busy
  <2>2. P!Cardinality(R!Outstanding) = R!Cardinality(R!Outstanding)
    BY DEF P!Cardinality, R!Cardinality
  <2>3. QED
    BY <2>1, <2>2
<1>2. QED
  BY <1>1 DEF Issue, P!Issue, P!irpVars, P!ioVars, R!Issue, R!irpVars,
              R!ioVars

(* devctrl_read1. *)
LEMMA DispatchReads == ASSUME NEW i \in Irps, Dispatch(i) PROVE R!Next
<1> USE DEF P!irpVars, P!ioVars, R!irpVars, R!ioVars
<1>1. P!ArmRead(i) => R!ArmRead(i)
  BY DEF P!ArmRead, R!ArmRead
<1>2. P!SeeCancel(i) => R!SeeCancel(i)
  BY DEF P!SeeCancel, R!SeeCancel
<1>3. P!Disarm(i) => R!Disarm(i)
  BY DEF P!Disarm, R!Disarm
<1>4. P!ParkRead(i) => R!ParkRead(i)
  BY DEF P!ParkRead, R!ParkRead
<1>5. P!SignalRead(i) => R!SignalRead(i)
  BY DEF P!SignalRead, R!SignalRead
<1>6. P!CompleteCancelled(i) => R!CompleteCancelled(i)
  BY DEF P!CompleteCancelled, R!CompleteCancelled, P!Complete, R!Complete
<1>7. QED
  BY <1>1, <1>2, <1>3, <1>4, <1>5, <1>6
     DEF Dispatch, InReads, R!Next, R!Read1

(* IoCancelIrp and devctrl_cancelRead. *)
LEMMA CancelReads ==
  ASSUME NEW i \in Irps, CancelIrp(i) \/ Cancel(i) PROVE R!Next
<1> USE DEF P!irpVars, P!ioVars, R!irpVars, R!ioVars
<1>1. P!CancelIrp(i) => R!CancelIrp(i)
  BY DEF P!CancelIrp, R!CancelIrp
<1>2. P!SwapRoutine(i) => R!SwapRoutine(i)
  BY DEF P!SwapRoutine, R!SwapRoutine
<1>3. P!CancelRead(i) => R!CancelRead(i)
  BY DEF P!CancelRead, R!CancelRead, P!RemoveAt, R!RemoveAt
<1>4. P!CompleteCancelRead(i) => R!CompleteCancelRead(i)
  BY DEF P!CompleteCancelRead, R!CompleteCancelRead, P!Complete, R!Complete
<1>5. QED
  BY <1>1, <1>2, <1>3, <1>4
     DEF CancelIrp, Cancel, InReads, R!Next, R!CancelSteps

(* The I/O thread, up to a fill and after it. *)
LEMMA ThreadReads == ASSUME FindRead \/ StartFill \/ EndFill PROVE R!Next
<1> USE DEF P!irpVars, P!ioVars, R!irpVars, R!ioVars, P!Complete, R!Complete
<1>1. P!WakeUp => R!WakeUp
  BY DEF P!WakeUp, R!WakeUp
<1>2. P!CheckShutdown => R!CheckShutdown
  BY DEF P!CheckShutdown, R!CheckShutdown
<1>3. P!NothingToService => R!NothingToService
  BY DEF P!NothingToService, R!NothingToService
<1>4. P!StartScan => R!StartScan
  BY DEF P!StartScan, R!StartScan
<1>5. P!SkipCancelled => R!SkipCancelled
  BY DEF P!SkipCancelled, R!SkipCancelled
<1>6. P!TakeRead => R!TakeRead
  BY DEF P!TakeRead, R!TakeRead, P!RemoveAt, R!RemoveAt
<1>7. P!NoneFound => R!NoneFound
  BY DEF P!NoneFound, R!NoneFound
<1>8. P!MapRead => R!MapRead
  BY DEF P!MapRead, R!MapRead
<1>9. P!MapFails => R!MapFails
  BY DEF P!MapFails, R!MapFails
<1>10. P!FillDone => R!FillDone
  BY DEF P!FillDone, R!FillDone
<1>11. P!AnswerRead => R!AnswerRead
  BY DEF P!AnswerRead, R!AnswerRead
<1>12. QED
  BY <1>1, <1>2, <1>3, <1>4, <1>5, <1>6, <1>7, <1>8, <1>9, <1>10, <1>11
     DEF FindRead, StartFill, EndFill, InReads, R!Next, R!IoThread

(* A fill: the pops do not touch the query list. *)
LEMMA FillReads == ASSUME FillTurn PROVE R!Next \/ UNCHANGED R!vars
<1> USE DEF P!irpVars, P!ioVars, R!irpVars, R!ioVars
<1>1. P!TakeQuery => R!TakeQuery
  BY DEF P!TakeQuery, R!TakeQuery
<1>2. P!PopSucceeds => R!PopSucceeds
  BY DEF P!PopSucceeds, R!PopSucceeds
<1>3. P!PopFails => R!PopFails
  BY DEF P!PopFails, R!PopFails
<1>4. Q!PopFlow \/ Q!PopMac \/ Q!PopMacEmpty \/ Q!Relink => UNCHANGED queries
  BY DEF Q!PopFlow, Q!PopMac, Q!PopMacEmpty, Q!Relink, Q!capVars
<1>5. UNCHANGED <<readVars, queries>> => UNCHANGED R!vars
  BY DEF readVars, R!vars
<1>6. QED
  BY <1>1, <1>2, <1>3, <1>4, <1>5
     DEF FillTurn, InQueue, R!Next, R!IoThread

(* The callouts, and the client's other requests. *)
LEMMA OthersRead ==
  ASSUME \/ \E p \in Packets : InQueue(Q!Classify(p)) \/ Link(p) \/ Push(p)
         \/ Signal \/ Client
  PROVE  R!Next \/ UNCHANGED R!vars
<1> USE DEF P!irpVars, P!ioVars, R!irpVars, R!ioVars
<1>1. P!PushQuery => R!PushQuery
  BY DEF P!PushQuery, R!PushQuery
<1>2. P!PushFails => R!PushFails
  BY DEF P!PushFails, R!PushFails
<1>3. P!SignalPush => R!SignalPush
  BY DEF P!SignalPush, R!SignalPush
<1>4. P!CleanQuery => R!CleanQuery
  BY DEF P!CleanQuery, R!CleanQuery
<1>5. UNCHANGED <<readVars, queries>> => UNCHANGED R!vars
  BY DEF readVars, R!vars
<1>6. ASSUME NEW p \in Packets, InQueue(Q!Classify(p)) \/ Link(p)
      PROVE  UNCHANGED <<readVars, queries>>
  BY <1>6 DEF InQueue, Link, Q!Classify, Q!LinkPacket, Q!CaptureFails,
              Q!capVars
<1>7. ASSUME Client PROVE R!CleanQuery \/ UNCHANGED <<readVars, queries>>
  <2>1. \/ Q!Open \/ Q!OpenMem \/ Q!OpenMemFails \/ Q!Close
        \/ Q!CleanFlows \/ Q!CleanMacs
        \/ \E flag \in {0, 1} : Q!SetMonitor(flag)
        => UNCHANGED queries
    BY DEF Q!Open, Q!OpenMem, Q!OpenMemFails, Q!Close, Q!CleanFlows,
           Q!CleanMacs, Q!CleanPackets, Q!SetMonitor, Q!capVars
  <2>2. Q!CleanQueries /\ queries = <<>> => UNCHANGED queries
    BY DEF Q!CleanQueries
  <2>3. QED
    BY <1>4, <1>7, <2>1, <2>2 DEF Client, InQueue
<1>8. QED
  BY <1>1, <1>2, <1>3, <1>5, <1>6, <1>7
     DEF Push, Signal, InReads, R!Next

(* All of them. *)
LEMMA StepReads == [Next]_vars => [R!Next]_(R!vars)
<1>1. UNCHANGED vars => UNCHANGED R!vars
  BY DEF vars, readVars, queueVars, R!vars
<1>2. QED
  BY <1>1, IssueReads, DispatchReads, CancelReads, ThreadReads, FillReads,
     OthersRead DEF Next, IoThread, R!Next

(* The initial state. *)
LEMMA InitReads == Init => R!Init
BY DEF Init, P!Init, R!Init, Q!Init

(* The read side of the device put together is module PendedReads: what is
   proved of its locks and cancellations holds here too. *)
THEOREM ReadsAreKept == Spec => R!Spec
BY InitReads, StepReads, PTL DEF Spec, R!Spec
(* So the one read that nf_workThread keeps is never left parked with work
   queued and nobody about to set g_ioThreadEvent. *)
THEOREM WakeupsAreKept == Spec => []R!NoLostWakeup
<1>1. R!Spec => []R!NoLostWakeup
  BY ReadsAssumptions, R!WakeupIsNotLost
<1>2. QED
  BY <1>1, ReadsAreKept, PTL

-----------------------------------------------------------------------------
(* Each step is one of CaptureQueue, or leaves its variables alone.        *)

(* The steps of the read change no list. *)
LEMMA StepQueues == [Next]_vars => [Q!Next]_(Q!vars)
<1>1. UNCHANGED queueVars => UNCHANGED Q!vars
  BY DEF queueVars, Q!vars
<1>2. ASSUME NEW i \in Irps,
             Issue(i) \/ Dispatch(i) \/ CancelIrp(i) \/ Cancel(i)
      PROVE  Q!Next \/ UNCHANGED queueVars
  BY <1>2 DEF Issue, Dispatch, CancelIrp, Cancel, InReads, Q!Next, Q!Client
<1>3. ASSUME IoThread PROVE Q!Next \/ UNCHANGED queueVars
  BY <1>3 DEF IoThread, FindRead, StartFill, FillTurn, EndFill, InReads,
              InQueue, Q!Next, Q!Fill
<1>4. ASSUME NEW p \in Packets, InQueue(Q!Classify(p)) \/ Link(p) \/ Push(p)
      PROVE  Q!Next
  BY <1>4 DEF Link, Push, InQueue, Q!Next
<1>5. ASSUME Signal PROVE UNCHANGED queueVars
  BY <1>5 DEF Signal, InReads
<1>6. ASSUME Client PROVE Q!Next
  BY <1>6 DEF Client, InQueue, Q!Next, Q!Client
<1>7. UNCHANGED vars => UNCHANGED queueVars
  BY DEF vars
<1>8. QED
  BY <1>1, <1>2, <1>3, <1>4, <1>5, <1>6, <1>7 DEF Next

(* The lists of the device put together are module CaptureQueue: what is
   proved of its packets, its queries and its buffer holds here too. *)
THEOREM QueueIsKept == Spec => Q!Spec
<1>1. Init => Q!Init
  BY DEF Init
<1>2. QED
  BY <1>1, StepQueues, PTL DEF Spec, Q!Spec

(* What CaptureQueue assumes of its constants. *)
LEMMA QueueAssumptions ==
  /\ NoPacket \notin Packets
  /\ KindOf \in [Packets -> C!Kinds]
  /\ RecordSize \in [C!Kinds -> Nat \ {0}]
  /\ BufferLength \in Nat /\ Wrap \in Nat
  /\ \A k \in C!Kinds : RecordSize[k] < BufferLength
  /\ 2 * BufferLength < Wrap
  /\ MaxFailures \in Nat /\ MaxSessions \in Nat
BY QueueAssumption DEF C!Kinds

(* The module with the theorems is the module that Devctrl is built from:
   the classify calls, ... *)
LEMMA CaptureStep ==
  ASSUME NEW p \in Packets,
         \/ Q!Classify(p) \/ Q!CaptureFails(p) \/ Q!LinkPacket(p)
         \/ Q!PushQuery(p) \/ Q!PushQueryFails(p)
  PROVE  C!Next
<1> USE DEF Q!capVars, Q!clVars, Q!ioVars, Q!clientVars, Q!historyVars,
            C!capVars, C!clVars, C!ioVars, C!clientVars, C!historyVars
<1>1. Q!Classify(p) => C!Classify(p)
  BY DEF Q!Classify, C!Classify
<1>2. Q!CaptureFails(p) => C!CaptureFails(p)
  BY DEF Q!CaptureFails, C!CaptureFails
<1>3. Q!LinkPacket(p) => C!LinkPacket(p)
  BY DEF Q!LinkPacket, C!LinkPacket
<1>4. Q!PushQuery(p) => C!PushQuery(p)
  BY DEF Q!PushQuery, C!PushQuery
<1>5. Q!PushQueryFails(p) => C!PushQueryFails(p)
  BY DEF Q!PushQueryFails, C!PushQueryFails
<1>6. QED
  BY <1>1, <1>2, <1>3, <1>4, <1>5 DEF C!Next

(* ... the fill, ... *)
LEMMA FillStep == ASSUME Q!Fill \/ Q!ReadFails PROVE C!Next
<1> USE DEF Q!capVars, Q!clVars, Q!ioVars, Q!clientVars, Q!historyVars,
            C!capVars, C!clVars, C!ioVars, C!clientVars, C!historyVars
<1>1. /\ Q!StartFill => C!StartFill
      /\ Q!ReadFails => C!ReadFails
      /\ Q!TakeQuery => C!TakeQuery
      /\ Q!PopMacEmpty => C!PopMacEmpty
      /\ Q!Relink => C!Relink
      /\ Q!Requeue => C!Requeue
      /\ Q!FillDone => C!FillDone
      /\ Q!AnswerRead => C!AnswerRead
  BY DEF Q!StartFill, C!StartFill, Q!ReadFails, C!ReadFails, Q!TakeQuery,
     C!TakeQuery, Q!PopMacEmpty, C!PopMacEmpty, Q!Relink, C!Relink,
     Q!Requeue, C!Requeue, Q!FillDone, C!FillDone, Q!AnswerRead, C!AnswerRead
<1>2. \A k, off : Q!Fits(k, off) <=> C!Fits(k, off)
  BY DEF Q!Fits, C!Fits, Q!InUse, C!InUse
<1>3. \A n : Q!CopiesFlows(n) <=> C!CopiesFlows(n)
  BY <1>2 DEF Q!CopiesFlows, C!CopiesFlows
<1>4. \A f : Q!Last(f) = C!Last(f)
  BY DEF Q!Last, C!Last
<1>5. Q!PopFlow => C!PopFlow
  BY <1>3, <1>4 DEF Q!PopFlow, C!PopFlow
<1>6. Q!PopMac => C!PopMac
  BY <1>2 DEF Q!PopMac, C!PopMac, Q!InUse, C!InUse
<1>7. QED
  BY <1>1, <1>5, <1>6 DEF Q!Fill, C!Fill, C!Next

(* ... and the client's requests. *)
LEMMA ClientStep == ASSUME Q!Client PROVE C!Next
<1> USE DEF Q!capVars, Q!clVars, Q!ioVars, Q!clientVars, Q!historyVars,
            C!capVars, C!clVars, C!ioVars, C!clientVars, C!historyVars
<1>1. /\ Q!Open => C!Open
      /\ Q!OpenMem => C!OpenMem
      /\ Q!OpenMemFails => C!OpenMemFails
      /\ Q!Read => C!Read
      /\ Q!CancelRead => C!CancelRead
      /\ Q!Close => C!Close
      /\ Q!CleanQueries => C!CleanQueries
  BY DEF Q!Open, C!Open, Q!OpenMem, C!OpenMem, Q!OpenMemFails,
     C!OpenMemFails, Q!Read, C!Read, Q!CancelRead, C!CancelRead, Q!Close,
     C!Close, Q!CleanQueries, C!CleanQueries
<1>2. /\ Q!CleanFlows => C!CleanFlows
      /\ Q!CleanMacs => C!CleanMacs
  BY DEF Q!CleanFlows, C!CleanFlows, Q!CleanMacs, C!CleanMacs,
     Q!CleanPackets, C!CleanPackets
<1>3. ASSUME NEW flag \in {0, 1}, Q!SetMonitor(flag) PROVE C!SetMonitor(flag)
  BY <1>3 DEF Q!SetMonitor, C!SetMonitor
<1>4. QED
  BY <1>1, <1>2, <1>3 DEF Q!Client, C!Client, C!Next

(* The behaviours of the lists are those the theorems are about. *)
LEMMA QueueStep == [Q!Next]_(Q!vars) => [C!Next]_(C!vars)
<1>1. UNCHANGED Q!vars => UNCHANGED C!vars
  BY DEF Q!vars, C!vars
<1>2. QED
  BY <1>1, CaptureStep, FillStep, ClientStep DEF Q!Next

LEMMA QueueInit == Q!Init => C!Init
BY DEF Q!Init, C!Init, Q!Kinds, C!Kinds

(* With the I/O thread's event, scan and cancel routines in charge of the
   fills, every captured packet is still delivered once or dropped by a
   close, ... *)
THEOREM DeliveriesAreKept == Spec => C!ImplementsDeliveries
<1>1. Q!Spec => C!Spec
  BY QueueInit, QueueStep, PTL DEF Q!Spec, C!Spec
<1>2. C!Spec => C!ImplementsDeliveries
  BY QueueAssumptions, C!Refinement
<1>3. QED
  BY <1>1, <1>2, QueueIsKept, PTL

(* ... and every read is answered once, with STATUS_CANCELLED only if it was
   cancelled. *)
THEOREM AnswersAreKept == Spec => R!ImplementsReadRequests
<1>1. R!Spec => R!ImplementsReadRequests
  BY ReadsAssumptions, R!Refinement
<1>2. QED
  BY <1>1, ReadsAreKept, PTL

-----------------------------------------------------------------------------
(* The close and the I/O thread.                                           *)

(* A read that the driver has and has not answered. *)
Unanswered(i) == rd[i] # "idle" /\ answers[i] = <<>>

(* The client waits for it ... *)
ClientWaits == \A i \in Irps : Unanswered(i) => reading

(* ... in a session that runs, with the buffers mapped, ... *)
SessionStage == /\ reading => session = "running"
                /\ session \in {"running", "stopped"} => mapped

(* ... and issues no other. *)
CloseInv == R!IInv /\ R!Single /\ ClientWaits /\ SessionStage

(* The initial state. *)
LEMMA CloseInit == Init => CloseInv
<1> SUFFICES ASSUME Init PROVE CloseInv
  OBVIOUS
<1>1. R!IInv
  BY InitReads, ReadsAssumptions, R!InitInv
<1>2. R!Single
  BY InitReads DEF R!Init, R!Single, R!Busy
<1>3. ClientWaits
  BY InitReads DEF R!Init, ClientWaits, Unanswered
<1>4. SessionStage
  BY DEF Init, Q!Init, SessionStage
<1>5. QED
  BY <1>1, <1>2, <1>3, <1>4 DEF CloseInv

(* A session runs with its buffers mapped, and ends without a read. *)
LEMMA SessionNext == SessionStage /\ [Next]_vars => SessionStage'
<1> SUFFICES ASSUME SessionStage, [Q!Next]_(Q!vars) PROVE SessionStage'
  BY StepQueues
<1> USE DEF SessionStage, Q!capVars, Q!clVars, Q!ioVars, Q!clientVars
<1>1. CASE \E p \in Packets : \/ Q!Classify(p) \/ Q!CaptureFails(p)
                              \/ Q!LinkPacket(p) \/ Q!PushQuery(p)
                              \/ Q!PushQueryFails(p)
  BY <1>1 DEF Q!Classify, Q!CaptureFails, Q!LinkPacket, Q!PushQuery,
              Q!PushQueryFails
<1>2. CASE Q!Fill \/ Q!ReadFails
  BY <1>2 DEF Q!Fill, Q!ReadFails, Q!StartFill, Q!TakeQuery, Q!PopFlow,
              Q!PopMac, Q!PopMacEmpty, Q!Relink, Q!Requeue, Q!FillDone,
              Q!AnswerRead
<1>3. CASE Q!Client
  BY <1>3 DEF Q!Client, Q!Open, Q!OpenMem, Q!OpenMemFails, Q!Read,
              Q!CancelRead, Q!Close, Q!CleanFlows, Q!CleanMacs,
              Q!CleanPackets, Q!CleanQueries, Q!SetMonitor
<1>4. CASE UNCHANGED Q!vars
  BY <1>4 DEF Q!vars
<1>5. QED
  BY <1>1, <1>2, <1>3, <1>4 DEF Q!Next

(* An IRP becomes unanswered when it is issued. *)
LEMMA UnansweredIsIssued ==
  ASSUME R!IInv, [R!Next]_(R!vars), NEW i \in Irps, Unanswered(i)'
  PROVE  Unanswered(i) \/ R!Issue(i)
<1> USE DEF R!IInv, R!TypeOK, R!irpVars, R!ioVars
<1> SUFFICES ASSUME ~R!Issue(i) PROVE Unanswered(i)
  OBVIOUS
<1>1. ASSUME NEW j \in Irps, NEW status \in R!Statuses,
             R!Complete(j, status)
      PROVE  answers'[i] = <<>> => answers[i] = <<>>
  <2>1. answers'[i] \in {answers[i], Append(answers[i], status)}
    BY <1>1 DEF R!Complete
  <2>2. Append(answers[i], status) # <<>>
    <3>1. answers[i] \in Seq(R!Statuses)
      OBVIOUS
    <3>2. QED
      BY <3>1, AppendProperties
  <2>3. QED
    BY <2>1, <2>2
<1>2. ASSUME NEW j \in Irps, R!Issue(j) \/ R!Read1(j)
      PROVE  Unanswered(i)
  <2>1. rd'[i] # "idle" => rd[i] # "idle"
    BY <1>2 DEF R!Issue, R!Read1, R!RejectRead, R!ArmRead, R!SeeCancel,
         R!Disarm, R!ParkRead, R!SignalRead, R!CompleteCancelled
  <2>2. answers'[i] = <<>> => answers[i] = <<>>
    BY <1>1, <1>2 DEF R!Issue, R!Read1, R!RejectRead, R!ArmRead,
         R!SeeCancel, R!Disarm, R!ParkRead, R!SignalRead,
         R!CompleteCancelled, R!Statuses
  <2>3. QED
    BY <2>1, <2>2 DEF Unanswered
<1>3. ASSUME NEW j \in Irps, R!CancelIrp(j) \/ R!CancelSteps(j)
      PROVE  Unanswered(i)
  BY <1>1, <1>3 DEF R!CancelIrp, R!CancelSteps, R!SwapRoutine, R!CancelRead,
       R!CompleteCancelRead, R!Statuses, Unanswered
<1>4. CASE R!MapFails \/ R!AnswerRead
  <2>1. cur \in Irps
    BY <1>4 DEF R!ServiceHoldsIrp, R!MapFails, R!AnswerRead
  <2>2. QED
    BY <1>1, <1>4, <2>1 DEF R!MapFails, R!AnswerRead, R!Statuses, Unanswered
<1>5. CASE R!IoThread /\ ~R!MapFails /\ ~R!AnswerRead
  BY <1>5 DEF R!IoThread, R!WakeUp, R!CheckShutdown, R!NothingToService,
       R!StartScan, R!SkipCancelled, R!TakeRead, R!NoneFound, R!MapRead,
       R!TakeQuery, R!FillDone, R!PopSucceeds, R!PopFails, Unanswered
<1>6. CASE R!PushQuery \/ R!SignalPush \/ R!PushFails \/ R!CleanQuery
           \/ R!Unload
  BY <1>6 DEF R!PushQuery, R!SignalPush, R!PushFails, R!CleanQuery, R!Unload,
       R!SetShutdown, R!UnloadClean, R!UnloadSignal, R!UnloadJoin, Unanswered
<1>7. CASE UNCHANGED R!vars
  BY <1>7 DEF R!vars, Unanswered
<1>8. QED
  BY <1>2, <1>3, <1>4, <1>5, <1>6, <1>7 DEF R!Next

(* Whatever ends the client's wait answers the one read there is. *)
LEMMA WaitEndsAnswered ==
  ASSUME R!IInv, [Next]_vars, reading, ~reading'
  PROVE  \E i \in Irps, status \in R!Statuses :
            R!Complete(i, status) /\ R!Busy(i)
<1> USE DEF R!IInv, R!TypeOK
<1>1. Next
  BY DEF vars, queueVars
<1>2. ASSUME NEW p \in Packets, InQueue(Q!Classify(p)) \/ Link(p) \/ Push(p)
      PROVE  UNCHANGED reading
  BY <1>2 DEF InQueue, Link, Push, Q!Classify, Q!LinkPacket, Q!CaptureFails,
       Q!PushQuery, Q!PushQueryFails, Q!clientVars
<1>3. FindRead \/ FillTurn \/ Signal => UNCHANGED reading
  BY DEF FindRead, FillTurn, Signal, InReads, InQueue, queueVars,
       Q!TakeQuery, Q!PopFlow, Q!PopMac, Q!PopMacEmpty, Q!Relink, Q!Requeue,
       Q!clientVars
<1>4. Client => UNCHANGED reading
  BY DEF Client, InQueue, Q!Open, Q!OpenMem, Q!OpenMemFails, Q!Close,
       Q!CleanFlows, Q!CleanMacs, Q!CleanPackets, Q!CleanQueries,
       Q!SetMonitor, Q!clientVars
<1>5. CASE StartFill \/ EndFill
  <2>1. R!MapFails \/ R!AnswerRead
    BY <1>5 DEF StartFill, EndFill, Q!StartFill, Q!FillDone, Q!clientVars,
         P!MapFails, R!MapFails, P!AnswerRead, R!AnswerRead, P!Complete,
         R!Complete
  <2>2. cur \in Irps /\ R!Busy(cur)
    <3>1. cur \in Irps
      BY <2>1 DEF R!MapFails, R!AnswerRead, R!ServiceHoldsIrp
    <3>2. QED
      BY <3>1, ReadsAssumptions, R!HeldIsBusy
  <2>3. \E status \in R!Statuses : R!Complete(cur, status)
    BY <2>1 DEF R!MapFails, R!AnswerRead, R!Statuses
  <2>4. QED
    BY <2>2, <2>3
<1>6. CASE \E i \in Irps : Issue(i) \/ Dispatch(i) \/ CancelIrp(i) \/ Cancel(i)
  <2>1. PICK i \in Irps : Issue(i) \/ Dispatch(i) \/ CancelIrp(i) \/ Cancel(i)
    BY <1>6
  <2>2. \/ rd[i] = "complete" /\ R!Complete(i, "CANCELLED")
        \/ cx[i] = "complete" /\ R!Complete(i, "CANCELLED")
    BY <2>1 DEF Issue, Dispatch, CancelIrp, Cancel, InReads, queueVars,
         Q!Read, P!CompleteCancelled, P!CompleteCancelRead, P!Complete,
         R!Complete
  <2>3. R!Busy(i)
    BY <2>2 DEF R!IrpStage, R!WithReader, R!Busy
  <2>4. QED
    BY <2>2, <2>3 DEF R!Statuses
<1>7. QED
  BY <1>1, <1>2, <1>3, <1>4, <1>5, <1>6 DEF Next, IoThread

(* The reads are issued by Issue alone, which starts the client's wait. *)
LEMMA NoOtherIssues ==
  ASSUME R!IInv, [Next]_vars, ~reading', NEW i \in Irps
  PROVE  ~R!Issue(i)
<1> SUFFICES ASSUME rd[i] = "idle", rd'[i] = "validate" PROVE FALSE
  BY DEF R!Issue, R!IInv, R!TypeOK
<1> USE DEF P!irpVars, P!ioVars, readVars
<1>1. ASSUME NEW j \in Irps, Issue(j) PROVE FALSE
  BY <1>1 DEF Issue, Q!Read
<1>2. ASSUME NEW j \in Irps, Dispatch(j) PROVE FALSE
  BY <1>2 DEF Dispatch, InReads, P!ArmRead, P!SeeCancel, P!Disarm,
       P!ParkRead, P!SignalRead, P!CompleteCancelled, R!IInv, R!TypeOK
<1>3. ASSUME NEW j \in Irps, CancelIrp(j) \/ Cancel(j) PROVE UNCHANGED rd
  BY <1>3 DEF CancelIrp, Cancel, InReads, P!CancelIrp, P!SwapRoutine,
       P!CancelRead, P!CompleteCancelRead
<1>4. FindRead \/ StartFill \/ EndFill => UNCHANGED rd
  BY DEF FindRead, StartFill, EndFill, InReads, P!WakeUp, P!CheckShutdown,
       P!NothingToService, P!StartScan, P!SkipCancelled, P!TakeRead,
       P!NoneFound, P!MapRead, P!MapFails, P!FillDone, P!AnswerRead
<1>5. FillTurn => UNCHANGED rd
  BY DEF FillTurn, InQueue, P!TakeQuery, P!PopSucceeds, P!PopFails
<1>6. ASSUME NEW p \in Packets, InQueue(Q!Classify(p)) \/ Link(p) \/ Push(p)
      PROVE  UNCHANGED rd
  BY <1>6 DEF InQueue, Link, Push, P!PushQuery, P!PushFails
<1>7. Signal \/ Client => UNCHANGED rd
  BY DEF Signal, Client, InReads, InQueue, P!SignalPush, P!CleanQuery
<1>8. UNCHANGED vars => UNCHANGED rd
  BY DEF vars
<1>9. QED
  BY <1>1, <1>2, <1>3, <1>4, <1>5, <1>6, <1>7, <1>8 DEF Next, IoThread

(* The wait ends with the last unanswered read. *)
LEMMA WaitsNext == CloseInv /\ [Next]_vars => ClientWaits'
<1> SUFFICES ASSUME CloseInv, [Next]_vars, NEW i \in Irps, Unanswered(i)',
                    ~reading'
             PROVE  FALSE
  BY DEF ClientWaits
<1> USE DEF CloseInv
<1>1. [R!Next]_(R!vars)
  BY StepReads
<1>2. Unanswered(i)
  <2>1. ~R!Issue(i)
    BY NoOtherIssues
  <2>2. QED
    BY <1>1, <2>1, UnansweredIsIssued
<1>3. reading /\ R!Busy(i)
  BY <1>2 DEF ClientWaits, Unanswered, R!Busy
<1>4. PICK j \in Irps, status \in R!Statuses :
         R!Complete(j, status) /\ R!Busy(j)
  BY <1>3, WaitEndsAnswered
<1>5. i = j
  BY <1>3, <1>4 DEF R!Single
<1>6. answers'[i] = Append(answers[i], status)
  BY <1>4, <1>5 DEF R!Complete, R!IInv, R!TypeOK
<1>7. answers'[i] # <<>>
  BY <1>6, AppendProperties DEF R!IInv, R!TypeOK
<1>8. QED
  BY <1>7 DEF Unanswered

(* Every step. *)
LEMMA CloseNext == CloseInv /\ [Next]_vars => CloseInv'
<1> SUFFICES ASSUME CloseInv, [Next]_vars PROVE CloseInv'
  OBVIOUS
<1>1. [R!Next]_(R!vars)
  BY StepReads
<1>2. R!IInv'
  BY <1>1, ReadsAssumptions, R!NextInv DEF CloseInv
<1>3. R!Single'
  BY <1>1, ReadsAssumptions, R!SingleInv DEF CloseInv
<1>4. QED
  BY <1>2, <1>3, WaitsNext, SessionNext DEF CloseInv

(* The close finds the I/O thread at rest, or the session still running with
   its buffers mapped: devctrl_close never frees what a fill writes to. *)
THEOREM CloseIsSafe == Spec => []CloseFindsIdle
<1>1. CloseInv => CloseFindsIdle
  <2> SUFFICES ASSUME CloseInv, thread \in {"map", "fill", "pop", "answer"}
               PROVE  mapped /\ session = "running"
    BY DEF CloseFindsIdle
  <2>1. cur \in Irps
    BY DEF CloseInv, R!IInv, R!TypeOK, R!ServiceHoldsIrp
  <2>2. Unanswered(cur)
    BY <2>1 DEF CloseInv, R!IInv, R!TypeOK, R!ReaderPCs, R!IrpStage,
         R!WithReader, Unanswered
  <2>3. QED
    BY <2>1, <2>2 DEF CloseInv, ClientWaits, SessionStage
<1>2. QED
  BY <1>1, CloseInit, CloseNext, PTL DEF Spec
-----------------------------------------------------------------------------
(* The two halves in step, and what ServesReads rests on.                  *)

(* Where a fill is for the read that it serves and for the lists that it
   empties. *)
FillsAgree ==
  /\ thread = "fill" <=> io = "take"
  /\ thread = "pop" <=> io \in {"pop", "relink", "requeue"}
  /\ thread = "answer" <=> io = "answer"
  /\ thread \in {"scan", "map"} => queries # <<>>

(* The calls that queued an entry, or failed to. *)
HasPushed == {p \in Packets : cl[p] = "queued"}

(* The driver is not unloaded here. *)
StaysLoaded == unl = "loaded" /\ R!ShutdownStage

(* The invariant of both halves. *)
JointInv == /\ CloseInv /\ C!IInv /\ StaysLoaded
            /\ reading => \E i \in Irps : Unanswered(i)
            /\ FillsAgree
            /\ pushed = Cardinality(HasPushed)

LEMMA JointInit == Init => JointInv
<1> SUFFICES ASSUME Init PROVE JointInv
  OBVIOUS
<1>1. CloseInv
  BY CloseInit
<1>2. C!IInv
  BY QueueInit, QueueAssumptions, C!InitInv DEF Init
<1>3. StaysLoaded
  BY InitReads DEF R!Init, StaysLoaded, R!ShutdownStage, R!UnloadIsHeard
<1>4. ~reading
  BY DEF Init, Q!Init
<1>5. FillsAgree
  BY DEF Init, Q!Init, P!Init, FillsAgree
<1>6. pushed = Cardinality(HasPushed)
  <2>1. HasPushed = {} /\ pushed = 0
    BY DEF Init, Q!Init, P!Init, HasPushed
  <2>2. QED
    BY <2>1, FS_EmptySet
<1>7. QED
  BY <1>1, <1>2, <1>3, <1>4, <1>5, <1>6 DEF JointInv

(* Every step is one of each half. *)
LEMMA Halves == ASSUME [Next]_vars PROVE [R!Next]_(R!vars) /\ [C!Next]_(C!vars)
  BY StepReads, StepQueues, QueueStep

(* Nothing here unloads the driver. *)
LEMMA LoadedNext ==
  ASSUME JointInv, [Next]_vars
  PROVE  StaysLoaded'
<1> USE DEF P!irpVars, P!ioVars, readVars
<1>1. ASSUME NEW i \in Irps, Issue(i) \/ Dispatch(i) \/ CancelIrp(i)
                             \/ Cancel(i)
      PROVE  UNCHANGED unl
  BY <1>1 DEF Issue, Dispatch, CancelIrp, Cancel, InReads, P!Issue, P!ArmRead,
       P!SeeCancel, P!Disarm, P!ParkRead, P!SignalRead, P!CompleteCancelled,
       P!CancelIrp, P!SwapRoutine, P!CancelRead, P!CompleteCancelRead
<1>2. IoThread => UNCHANGED unl
  BY DEF IoThread, FindRead, StartFill, FillTurn, EndFill, InReads, InQueue,
       P!WakeUp, P!CheckShutdown, P!NothingToService, P!StartScan,
       P!SkipCancelled, P!TakeRead, P!NoneFound, P!MapRead, P!MapFails,
       P!TakeQuery, P!PopSucceeds, P!PopFails, P!FillDone, P!AnswerRead
<1>3. ASSUME NEW p \in Packets, InQueue(Q!Classify(p)) \/ Link(p) \/ Push(p)
      PROVE  UNCHANGED unl
  BY <1>3 DEF InQueue, Link, Push, P!PushQuery, P!PushFails
<1>4. Signal \/ Client => UNCHANGED unl
  BY DEF Signal, Client, InReads, InQueue, P!SignalPush, P!CleanQuery
<1>5. UNCHANGED vars => UNCHANGED unl
  BY DEF vars
<1>6. UNCHANGED unl
  BY <1>1, <1>2, <1>3, <1>4, <1>5 DEF Next
<1>7. R!ShutdownStage'
  BY Halves, ReadsAssumptions, R!ShutdownStageInv
     DEF JointInv, CloseInv, StaysLoaded
<1>8. QED
  BY <1>6, <1>7 DEF JointInv, StaysLoaded

(* The client waits until its read is answered. *)
LEMMA WaitHasRead ==
  ASSUME JointInv, [Next]_vars, reading'
  PROVE  \E i \in Irps : Unanswered(i)'
<1> USE DEF P!irpVars, P!ioVars, readVars, JointInv, CloseInv, R!IInv, R!TypeOK
<1>1. ASSUME NEW i \in Irps, Issue(i) PROVE Unanswered(i)'
  <2>1. rd[i] = "idle" /\ rd'[i] = "validate" /\ UNCHANGED answers
    BY <1>1 DEF Issue, P!Issue
  <2>2. answers[i] = <<>>
    BY <2>1 DEF R!IrpStage, R!WithReader
  <2>3. QED
    BY <2>1, <2>2 DEF Unanswered
<1>2. ASSUME ~\E i \in Irps : Issue(i)
      PROVE  /\ reading /\ UNCHANGED answers
             /\ \A i \in Irps : rd[i] # "idle" => rd'[i] # "idle"
  <2>1. ASSUME NEW i \in Irps, Dispatch(i) \/ CancelIrp(i) \/ Cancel(i)
        PROVE  /\ reading /\ UNCHANGED answers
               /\ \A j \in Irps : rd[j] # "idle" => rd'[j] # "idle"
    BY <2>1 DEF Dispatch, CancelIrp, Cancel, InReads, queueVars, Q!CancelRead,
         P!ArmRead, P!SeeCancel, P!Disarm, P!ParkRead, P!SignalRead,
         P!CancelIrp, P!SwapRoutine, P!CancelRead
  <2>2. FindRead => UNCHANGED <<reading, answers, rd>>
    BY DEF FindRead, InReads, queueVars, P!WakeUp, P!CheckShutdown,
         P!NothingToService, P!StartScan, P!SkipCancelled, P!TakeRead,
         P!NoneFound
  <2>3. StartFill \/ EndFill => UNCHANGED <<reading, answers, rd>>
    BY DEF StartFill, EndFill, Q!StartFill, Q!ReadFails, Q!FillDone,
         Q!AnswerRead, Q!clientVars, P!MapRead, P!FillDone
  <2>4. FillTurn => UNCHANGED <<reading, answers, rd>>
    BY DEF FillTurn, InQueue, Q!TakeQuery, Q!PopFlow, Q!PopMac, Q!PopMacEmpty,
         Q!Relink, Q!Requeue, Q!clientVars, P!TakeQuery, P!PopSucceeds,
         P!PopFails
  <2>5. ASSUME NEW p \in Packets, InQueue(Q!Classify(p)) \/ Link(p) \/ Push(p)
        PROVE  UNCHANGED <<reading, answers, rd>>
    BY <2>5 DEF InQueue, Link, Push, Q!Classify, Q!LinkPacket, Q!CaptureFails,
         Q!PushQuery, Q!PushQueryFails, Q!clientVars, P!PushQuery, P!PushFails
  <2>6. Signal \/ Client => UNCHANGED <<reading, answers, rd>>
    BY DEF Signal, Client, InReads, InQueue, queueVars, P!SignalPush,
         P!CleanQuery, Q!Open, Q!OpenMem, Q!OpenMemFails, Q!Close,
         Q!CleanFlows, Q!CleanMacs, Q!CleanPackets, Q!CleanQueries,
         Q!SetMonitor, Q!clientVars
  <2>7. UNCHANGED vars => UNCHANGED <<reading, answers, rd>>
    BY DEF vars, queueVars
  <2>8. QED
    BY <1>2, <2>1, <2>2, <2>3, <2>4, <2>5, <2>6, <2>7 DEF Next, IoThread
<1>3. CASE ~\E i \in Irps : Issue(i)
  BY <1>2, <1>3 DEF Unanswered
<1>4. QED
  BY <1>1, <1>3

(* The I/O thread's position and that of the fill move together. *)
LEMMA FillsNext ==
  ASSUME JointInv, [Next]_vars
  PROVE  FillsAgree'
<1> USE DEF JointInv, CloseInv, FillsAgree, P!irpVars, P!ioVars, readVars,
            Q!capVars, Q!clVars, Q!ioVars, Q!clientVars
<1>0. /\ queries \in Seq(C!Kinds)
      /\ thread \in R!IoPCs
  BY DEF C!IInv, C!TypeOK, R!IInv, R!TypeOK
<1>1. ASSUME NEW i \in Irps, Issue(i) \/ Dispatch(i) \/ CancelIrp(i)
                             \/ Cancel(i)
      PROVE  UNCHANGED <<thread, io, queries>>
  BY <1>1 DEF Issue, Dispatch, CancelIrp, Cancel, InReads, queueVars, P!Issue,
       P!ArmRead, P!SeeCancel, P!Disarm, P!ParkRead, P!SignalRead,
       P!CompleteCancelled, P!CancelIrp, P!SwapRoutine, P!CancelRead,
       P!CompleteCancelRead, Q!Read, Q!CancelRead
<1>2. FindRead => FillsAgree'
  <2>1. P!StartScan => queries # <<>>
    BY DEF P!StartScan
  <2>2. QED
    BY <2>1 DEF FindRead, InReads, queueVars, P!WakeUp, P!CheckShutdown,
         P!NothingToService, P!StartScan, P!SkipCancelled, P!TakeRead,
         P!NoneFound
<1>3. StartFill \/ EndFill => FillsAgree'
  BY DEF StartFill, EndFill, Q!StartFill, Q!ReadFails, Q!FillDone,
         Q!AnswerRead, P!MapRead, P!MapFails, P!FillDone, P!AnswerRead
<1>4. FillTurn => FillsAgree'
  BY DEF FillTurn, InQueue, Q!TakeQuery, Q!PopFlow, Q!PopMac, Q!PopMacEmpty,
         Q!Relink, Q!Requeue, P!TakeQuery, P!PopSucceeds, P!PopFails
<1>5. ASSUME NEW p \in Packets, InQueue(Q!Classify(p)) \/ Link(p)
      PROVE  UNCHANGED <<thread, io, queries>>
  BY <1>5 DEF InQueue, Link, Q!Classify, Q!LinkPacket, Q!CaptureFails
<1>6. ASSUME NEW p \in Packets, Push(p)
      PROVE  FillsAgree'
  <2>1. UNCHANGED <<thread, io>>
    BY <1>6 DEF Push, Q!PushQuery, Q!PushQueryFails, P!PushQuery, P!PushFails
  <2>2. <<KindOf[p]>> \o queries # <<>>
    <3>1. KindOf[p] \in C!Kinds
      BY QueueAssumptions
    <3>2. QED
      BY <1>0, <3>1
  <2>3. queries' \in {queries, <<KindOf[p]>> \o queries}
    BY <1>6 DEF Push, Q!PushQuery, Q!PushQueryFails
  <2>4. QED
    BY <2>1, <2>2, <2>3
<1>7. Signal => UNCHANGED <<thread, io, queries>>
  BY DEF Signal, InReads, queueVars, P!SignalPush
<1>8. CASE Client
  <2>1. UNCHANGED <<thread, io>>
    BY <1>8 DEF Client, InQueue, P!CleanQuery, Q!Open, Q!OpenMem,
         Q!OpenMemFails, Q!Close, Q!CleanFlows, Q!CleanMacs, Q!CleanPackets,
         Q!CleanQueries, Q!SetMonitor
  <2>2. CASE UNCHANGED queries
    BY <2>1, <2>2
  <2>3. CASE ~UNCHANGED queries
    <3>1. Q!CleanQueries /\ queries # <<>> /\ P!CleanQuery
      BY <1>8, <2>3 DEF Client, InQueue, Q!Open, Q!OpenMem,
           Q!OpenMemFails, Q!Close, Q!CleanFlows, Q!CleanMacs,
           Q!CleanPackets, Q!CleanQueries, Q!SetMonitor
    <3>2. thread # "scan"
      BY <3>1 DEF P!CleanQuery, R!IInv, R!LockHeldOnce
    <3>3. thread # "map"
      <4>1. session = "cleanQueries"
        BY <3>1 DEF Q!CleanQueries
      <4>2. ASSUME thread = "map" PROVE cur \in Irps /\ Unanswered(cur)
        <5>1. cur \in Irps
          BY <4>2 DEF R!IInv, R!TypeOK, R!ServiceHoldsIrp
        <5>2. QED
          BY <5>1 DEF R!IInv, R!TypeOK, R!ReaderPCs, R!IrpStage,
               R!WithReader, Unanswered
      <4>3. QED
        BY <4>1, <4>2 DEF ClientWaits, SessionStage
    <3>4. QED
      BY <2>1, <3>2, <3>3
  <2>4. QED
    BY <2>2, <2>3
<1>9. UNCHANGED vars => UNCHANGED <<thread, io, queries>>
  BY DEF vars, queueVars
<1>10. QED
  BY <1>1, <1>2, <1>3, <1>4, <1>5, <1>6, <1>7, <1>8, <1>9 DEF Next, IoThread

(* Each call pushes once. *)
LEMMA PushedNext ==
  ASSUME JointInv, [Next]_vars
  PROVE  pushed' = Cardinality(HasPushed')
<1> USE DEF JointInv, P!irpVars, P!ioVars, readVars
<1>0. IsFiniteSet(HasPushed) /\ cl \in [Packets -> {"new", "ignored",
                                            "checked", "linked", "queued"}]
  BY PacketsAssumption, FS_Subset DEF HasPushed, C!IInv, C!TypeOK
<1>1. ASSUME NEW p \in Packets, Push(p)
      PROVE  pushed' = Cardinality(HasPushed')
  <2>1. /\ cl[p] = "linked" /\ cl' = [cl EXCEPT ![p] = "queued"]
        /\ pushed' = pushed + 1
    BY <1>1 DEF Push, Q!PushQuery, Q!PushQueryFails, P!PushQuery, P!PushFails
  <2>2. HasPushed' = HasPushed \union {p} /\ p \notin HasPushed
    BY <1>0, <2>1 DEF HasPushed
  <2>3. QED
    BY <1>0, <2>1, <2>2, FS_AddElement
<1>2. ASSUME NEW p \in Packets, InQueue(Q!Classify(p)) \/ Link(p)
      PROVE  pushed' = pushed /\ HasPushed' = HasPushed
  BY <1>0, <1>2 DEF InQueue, Link, Q!Classify, Q!LinkPacket, Q!CaptureFails,
       HasPushed
<1>3. ASSUME UNCHANGED <<pushed, cl>>
      PROVE  pushed' = pushed /\ HasPushed' = HasPushed
  BY <1>3 DEF HasPushed
<1>4. ASSUME NEW i \in Irps, Issue(i) \/ Dispatch(i) \/ CancelIrp(i)
                             \/ Cancel(i)
      PROVE  UNCHANGED <<pushed, cl>>
  BY <1>4 DEF Issue, Dispatch, CancelIrp, Cancel, InReads, queueVars, P!Issue,
       P!ArmRead, P!SeeCancel, P!Disarm, P!ParkRead, P!SignalRead,
       P!CompleteCancelled, P!CancelIrp, P!SwapRoutine, P!CancelRead,
       P!CompleteCancelRead, Q!Read, Q!CancelRead, Q!clVars
<1>5. IoThread => UNCHANGED <<pushed, cl>>
  BY DEF IoThread, FindRead, StartFill, FillTurn, EndFill, InReads, InQueue,
       queueVars, P!WakeUp, P!CheckShutdown, P!NothingToService, P!StartScan,
       P!SkipCancelled, P!TakeRead, P!NoneFound, P!MapRead, P!MapFails,
       P!TakeQuery, P!PopSucceeds, P!PopFails, P!FillDone, P!AnswerRead,
       Q!StartFill, Q!ReadFails, Q!TakeQuery, Q!PopFlow, Q!PopMac,
       Q!PopMacEmpty, Q!Relink, Q!Requeue, Q!FillDone, Q!AnswerRead, Q!clVars
<1>6. Signal \/ Client => UNCHANGED <<pushed, cl>>
  BY DEF Signal, Client, InReads, InQueue, queueVars, P!SignalPush,
       P!CleanQuery, Q!Open, Q!OpenMem, Q!OpenMemFails, Q!Close, Q!CleanFlows,
       Q!CleanMacs, Q!CleanPackets, Q!CleanQueries, Q!SetMonitor, Q!clVars
<1>7. UNCHANGED vars => UNCHANGED <<pushed, cl>>
  BY DEF vars, queueVars
<1>8. QED
  BY <1>1, <1>2, <1>3, <1>4, <1>5, <1>6, <1>7 DEF Next

LEMMA JointNext == JointInv /\ [Next]_vars => JointInv'
<1> SUFFICES ASSUME JointInv, [Next]_vars PROVE JointInv'
  OBVIOUS
<1>1. CloseInv'
  BY CloseNext DEF JointInv
<1>2. C!IInv'
  BY Halves, QueueAssumptions, C!NextInv DEF JointInv
<1>3. QED
  BY <1>1, <1>2, LoadedNext, WaitHasRead, FillsNext, PushedNext DEF JointInv

LEMMA JointInvariance == Spec => []JointInv
  BY JointInit, JointNext, PTL DEF Spec

(* The client waits exactly as long as the driver owes it an answer: a read
   that is answered, or cancelled, is the one nf_workThread waits for. *)
WaitsAgree == reading <=> \E i \in Irps : Unanswered(i)

(* However completions, cancellations, new reads and closes interleave,    *)
(* the client's half waits for a read of the driver's half, or not at all. *)
THEOREM WaitIsForARead == Spec => []WaitsAgree
<1>1. JointInv => WaitsAgree
  BY DEF JointInv, CloseInv, ClientWaits, WaitsAgree
<1>2. QED
  BY <1>1, JointInvariance, PTL

(* Neither half holds the other back: where one of PendedReads and
   CaptureQueue is at a step the two take together, so is the other.  A fill
   is at the same place for both, a read that was taken has a query waiting,
   a read that is cancelled is waited for and no fill is under way, and the
   bound on pushes leaves room for every linked packet. *)
HalvesAgree ==
  /\ FillsAgree
  /\ thread = "map" => io = "idle" /\ reading
  /\ \A i \in Irps : rd[i] = "complete" \/ cx[i] = "complete"
                       => io = "idle" /\ reading
  /\ \A p \in Packets : cl[p] = "linked" => pushed < Cardinality(Packets)

(* So taking steps together loses no behaviour of either half.             *)
THEOREM HalvesAreInStep == Spec => []HalvesAgree
<1>1. JointInv => HalvesAgree
  <2> SUFFICES ASSUME JointInv PROVE HalvesAgree
    OBVIOUS
  <2> USE DEF JointInv, CloseInv, FillsAgree
  <2>1. io \in {"idle", "take", "pop", "relink", "requeue", "answer"}
    BY DEF C!IInv, C!TypeOK
  <2>2. ASSUME thread \in {"map", "fill", "pop", "answer"}
        PROVE  cur \in Irps /\ Unanswered(cur) /\ R!Busy(cur)
    <3>1. cur \in Irps
      BY <2>2 DEF R!IInv, R!TypeOK, R!ServiceHoldsIrp
    <3>2. Unanswered(cur)
      BY <3>1 DEF R!IInv, R!TypeOK, R!ReaderPCs, R!IrpStage, R!WithReader,
           Unanswered
    <3>3. QED
      BY <3>1, <3>2 DEF Unanswered, R!Busy
  <2>3. thread = "map" => io = "idle" /\ reading
    BY <2>1, <2>2 DEF ClientWaits
  <2>4. ASSUME NEW i \in Irps, rd[i] = "complete" \/ cx[i] = "complete"
        PROVE  io = "idle" /\ reading
    <3>1. Unanswered(i) /\ R!Busy(i) /\ cur # i
      BY <2>4 DEF R!IInv, R!TypeOK, R!ReaderPCs, R!IrpStage, R!WithReader,
           Unanswered, R!Busy
    <3>2. io = "idle"
      BY <2>1, <2>2, <3>1 DEF R!Single
    <3>3. QED
      BY <3>1, <3>2 DEF ClientWaits
  <2>5. ASSUME NEW p \in Packets, cl[p] = "linked"
        PROVE  pushed < Cardinality(Packets)
    <3>1. HasPushed \subseteq Packets \ {p}
      BY <2>5 DEF HasPushed
    <3>2. /\ IsFiniteSet(Packets \ {p})
          /\ Cardinality(Packets \ {p}) = Cardinality(Packets) - 1
      BY PacketsAssumption, FS_RemoveElement
    <3>3. Cardinality(HasPushed) <= Cardinality(Packets \ {p})
      BY <3>1, <3>2, FS_Subset
    <3>4. /\ Cardinality(Packets) \in Nat
          /\ Cardinality(HasPushed) \in Nat
      BY <3>1, <3>2, PacketsAssumption, FS_CardinalityType, FS_Subset
    <3>5. QED
      BY <3>2, <3>3, <3>4
  <2>6. QED
    BY <2>3, <2>4, <2>5 DEF HalvesAgree
<1>2. QED
  BY <1>1, JointInvariance, PTL

(* IRP i is on its way to be parked, cancelled or answered. *)
OnItsWay(i) == \/ rd[i] \notin {"idle", "done"}
               \/ cx[i] \in {"swap", "called", "complete"}
               \/ cur = i

(* With a read and a query waiting and no fill under way, the read is on its
   way, or the I/O thread looks for it, or g_ioThreadEvent is set, or about
   to be set by a classify call that pushed. *)
ReadsAreServed ==
  reading /\ queries # <<>> /\ io = "idle"
    => \/ \E i \in Irps : Unanswered(i) /\ OnItsWay(i)
       \/ thread \in {"check", "service", "scan"}
       \/ ioEvent \/ pushers > 0

(* So the fill that CaptureQueue takes for granted is never waited for with
   everybody asleep: the safety half of ServesReads. *)
THEOREM SomebodyServes == Spec => []ReadsAreServed
<1>1. JointInv /\ R!NoLostWakeup => ReadsAreServed
  <2> SUFFICES ASSUME JointInv, R!NoLostWakeup,
                      reading, queries # <<>>, io = "idle",
                      NEW i \in Irps, Unanswered(i), ~OnItsWay(i),
                      ~ioEvent, thread \notin {"check", "service", "scan"}
               PROVE  pushers > 0
    BY DEF JointInv, ReadsAreServed
  <2> USE DEF JointInv, CloseInv
  <2>1. R!Busy(i) /\ rd[i] = "done"
    BY DEF Unanswered, OnItsWay, R!Busy
  <2>2. i \in R!Listed /\ routine[i]
    <3>1. Len(answers[i]) # 1
      BY DEF Unanswered
    <3>2. cur # i /\ cx[i] \notin {"called", "complete"}
      BY DEF OnItsWay
    <3>3. R!IrpStage(i)
      BY DEF R!IInv
    <3>4. i \in R!Listed /\ R!RoutineOrCalled(i)
      BY <2>1, <3>1, <3>2, <3>3 DEF R!IrpStage
    <3>5. QED
      BY <3>2, <3>4 DEF R!RoutineOrCalled
  <2>3. thread = "wait"
    <3>1. thread \notin {"map", "fill", "pop", "answer"}
      <4>1. ASSUME thread \in {"map", "fill", "pop", "answer"} PROVE FALSE
        <5>1. cur \in Irps
          BY <4>1 DEF R!IInv, R!TypeOK, R!ServiceHoldsIrp
        <5>2. R!Busy(cur)
          BY <5>1, ReadsAssumptions, R!HeldIsBusy
        <5>3. QED
          BY <2>1, <5>1, <5>2 DEF R!Single, OnItsWay
      <4>2. QED
        BY <4>1
    <3>2. thread # "exited"
      BY DEF StaysLoaded, R!ShutdownStage
    <3>3. QED
      BY <3>1, <3>2 DEF R!IInv, R!TypeOK, R!IoPCs
  <2>4. Len(queries) > 0
    BY DEF C!IInv, C!TypeOK
  <2>5. ~\E j \in Irps : rd[j] = "signal"
    <3>1. ASSUME NEW j \in Irps, rd[j] = "signal" PROVE FALSE
      <4>1. R!Busy(j)
        BY <3>1 DEF R!Busy
      <4>2. QED
        BY <2>1, <3>1, <4>1 DEF R!Single
    <3>2. QED
      BY <3>1
  <2>6. QED
    BY <2>2, <2>3, <2>4, <2>5 DEF R!NoLostWakeup
<1>2. QED
  BY <1>1, JointInvariance, WakeupsAreKept, PTL
=============================================================================
