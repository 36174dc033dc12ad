------------------------------ MODULE Devctrl ------------------------------
(***************************************************************************)
(* The control device put together (wfpdriver/devctrl.c): the read of      *)
(* module PendedReads, with its IRP, its locks and the I/O thread's event, *)
(* serves the lists of module CaptureQueue.  The two share g_IoQueryHead,  *)
(* of which PendedReads sees the length, and each step of the code that is *)
(* in both of them is the conjunction of their actions.                    *)
(*                                                                         *)
(* CaptureQueue takes it for granted that a fill starts whenever there are *)
(* a read and a query.  Here that is the work of the event, the scan and   *)
(* the cancel routines: ServesReads.                                       *)
(*                                                                         *)
(* The client is nf_workThread: one read at a time, into a valid buffer.   *)
(* The unload is left to PendedReads and DriverLifecycle.                  *)
(***************************************************************************)
EXTENDS Naturals, Sequences, FiniteSets, SequencesExt

CONSTANTS Irps, NoIrp,
          Packets, KindOf, RecordSize, BufferLength, Wrap,
          MaxFailures, MaxSessions, NoPacket

(* The client issues its reads in this order. *)
ASSUME IrpsAssumption == Irps \subseteq Nat /\ NoIrp \notin Irps
ASSUME PacketsAssumption == IsFiniteSet(Packets)

(* What CaptureQueue assumes. *)
ASSUME QueueAssumption ==
  /\ NoPacket \notin Packets
  /\ KindOf \in [Packets -> {"flow", "mac"}]
  /\ RecordSize \in [{"flow", "mac"} -> Nat \ {0}]
  /\ BufferLength \in Nat /\ Wrap \in Nat
  /\ \A k \in {"flow", "mac"} : RecordSize[k] < BufferLength
  /\ 2 * BufferLength < Wrap
  /\ MaxFailures \in Nat /\ MaxSessions \in Nat

VARIABLES
  (* of PendedReads *)
  sIolock, pended, ioEvent, shutdown, cancel, routine, answers, rd, cx,
  thread,  \* its io: where devctrl_ioThread is
  pos, cur, unl, pushed, pushers,
  (* of CaptureQueue; queries is in both *)
  monitor, linked, queries, mapped, cl, failures,
  io,      \* where devctrl_fillBuffer is
  entry, offset, batch, back, session, sessions, reading,
  delivered, dropped, freed, faulted, brim

P == INSTANCE PendedReads
       WITH MaxOutstanding <- 1, MaxPush <- Cardinality(Packets),
            queries <- Len(queries), io <- thread
Q == INSTANCE CaptureQueue

readVars  == <<sIolock, pended, ioEvent, shutdown, cancel, routine, answers,
               rd, cx, thread, pos, cur, unl, pushed, pushers>>
queueVars == <<monitor, linked, queries, mapped, cl, failures, io, entry,
               offset, batch, back, session, sessions, reading, delivered,
               dropped, freed, faulted, brim>>
vars == <<readVars, queueVars>>

(* A step of the queue, or of the read, alone. *)
InQueue(step) == step /\ UNCHANGED readVars
InReads(step) == UNCHANGED queueVars /\ step

Init == Q!Init /\ P!Init

-----------------------------------------------------------------------------
(* The read: ReadFile, devctrl_read1 and its cancellation.                 *)

Issue(i) == /\ \A j \in Irps : j < i => rd[j] # "idle"
            /\ Q!Read /\ P!Issue(i)

Dispatch(i) ==
  \/ InReads(\/ P!ArmRead(i) \/ P!SeeCancel(i) \/ P!Disarm(i)
             \/ P!ParkRead(i) \/ P!SignalRead(i))
  \/ Q!CancelRead /\ P!CompleteCancelled(i)

CancelIrp(i) == InReads(P!CancelIrp(i))

Cancel(i) ==
  \/ InReads(P!SwapRoutine(i) \/ P!CancelRead(i))
  \/ Q!CancelRead /\ P!CompleteCancelRead(i)

-----------------------------------------------------------------------------
(* devctrl_ioThread.                                                       *)

(* devctrl_serviceReads up to the read it takes. *)
FindRead ==
  InReads(\/ P!WakeUp \/ P!CheckShutdown \/ P!NothingToService \/ P!StartScan
          \/ P!SkipCancelled \/ P!TakeRead \/ P!NoneFound)

StartFill == \/ Q!StartFill /\ P!MapRead
             \/ Q!ReadFails /\ P!MapFails

(* One turn of devctrl_fillBuffer's loop; a pop without room ends it. *)
FillTurn ==
  \/ Q!TakeQuery /\ P!TakeQuery
  \/ (Q!PopFlow \/ Q!PopMac) /\ io' = "take" /\ P!PopSucceeds
  \/ InQueue((Q!PopFlow \/ Q!PopMac) /\ io' = "relink")
  \/ InQueue(Q!PopMacEmpty \/ Q!Relink)
  \/ Q!Requeue /\ P!PopFails

EndFill == \/ Q!FillDone /\ P!FillDone
           \/ Q!AnswerRead /\ P!AnswerRead

IoThread == FindRead \/ StartFill \/ FillTurn \/ EndFill

-----------------------------------------------------------------------------
(* The callouts: a packet is linked, its query pushed, the event set.      *)

Link(p) == InQueue(Q!LinkPacket(p) \/ Q!CaptureFails(p))

Push(p) == \/ Q!PushQuery(p) /\ P!PushQuery
           \/ Q!PushQueryFails(p) /\ P!PushFails

Signal == InReads(P!SignalPush)

(* The client's other requests; a close drains the query list. *)
Client ==
  \/ InQueue(\/ Q!Open \/ Q!OpenMem \/ Q!OpenMemFails \/ Q!Close
             \/ Q!CleanFlows \/ Q!CleanMacs
             \/ \E flag \in {0, 1} : Q!SetMonitor(flag))
  \/ Q!CleanQueries /\ (IF queries = <<>> THEN UNCHANGED readVars
                                          ELSE P!CleanQuery)

-----------------------------------------------------------------------------

Next == \/ \E i \in Irps : Issue(i) \/ Dispatch(i) \/ CancelIrp(i) \/ Cancel(i)
        \/ IoThread
        \/ \E p \in Packets : InQueue(Q!Classify(p)) \/ Link(p) \/ Push(p)
        \/ Signal
        \/ Client

Spec == Init /\ [][Next]_vars

(* What PendedReads and CaptureQueue assume of the threads, but not of what
   one of them does for the other. *)
Fairness == /\ \A i \in Irps : WF_vars(Dispatch(i)) /\ WF_vars(Cancel(i))
            /\ WF_vars(\E i \in Irps : Issue(i))
            /\ WF_vars(IoThread)
            /\ \A p \in Packets : WF_vars(Link(p)) /\ WF_vars(Push(p))
            /\ WF_vars(Signal)

FairSpec == Spec /\ Fairness

-----------------------------------------------------------------------------
(* Properties.                                                             *)

(* A read and a query that wait are brought together: what CaptureQueue
   takes for granted of the event, the scan and the cancel routines. *)
ServesReads == WF_(Q!vars)(Q!Fill)

(* A packet that was queued reaches the client, as long as no query
   allocation failed and the client goes on reading: an entry that did not
   fit, or whose read failed, is fetched by a later read. *)
QueuedIsDelivered ==
  \A p \in Packets :
    cl[p] = "linked" ~> \/ p \in Range(delivered)
                       \/ faulted \/ session # "running"
                       \/ \A i \in Irps : answers[i] # <<>>

(* devctrl_close throws the lists and the shared buffer away without asking
   for the I/O thread: it is never at work then, because the close waits for
   the read and the read is answered last. *)
CloseFindsIdle ==
  thread \in {"map", "fill", "pop", "answer"} =>
    mapped /\ session \in {"running", "stopped"}
=============================================================================
