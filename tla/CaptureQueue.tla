---------------------------- MODULE CaptureQueue ----------------------------
(***************************************************************************)
(* The way of a captured packet through the driver: the classify callouts  *)
(* (callouts.c) copy it to the list of its layer (establishedctx.c,        *)
(* datalinkctx.c) and queue a query entry (devctrl.c); when a read is      *)
(* outstanding the I/O thread fills the shared buffer from the lists and   *)
(* answers the read; closing the device throws everything away.            *)
(*                                                                         *)
(* The IRP itself is in module PendedReads: here a read is outstanding or  *)
(* not, and a service starts whenever there are a read and a query (module *)
(* Devctrl puts the two together).  One client uses the device, session    *)
(* after session.  Packet p is captured by one classify call, and its kind *)
(* names its layer.  A step is a critical section of one of the three spin *)
(* locks, or an access outside of them.                                    *)
(***************************************************************************)
EXTENDS Integers, Sequences, FiniteSets, SequencesExt

CONSTANTS Packets,     \* the packets that may be captured
          KindOf,      \* KindOf[p]: "flow" (established) or "mac" (data link)
          RecordSize,  \* RecordSize[k]: bytes of a record: header and packet
          BufferLength,\* bytes of the shared buffer
          Wrap,        \* 2^64 in the code: UINT64 arithmetic is modulo Wrap
          MaxFailures, \* bound: allocation failures in a behaviour
          MaxSessions, \* bound: times the client opens the device
          NoPacket

Kinds == {"flow", "mac"}

ASSUME NoPacketAssumption == NoPacket \notin Packets
ASSUME KindAssumption == KindOf \in [Packets -> Kinds]
ASSUME SizeAssumption == /\ RecordSize \in [Kinds -> Nat \ {0}]
                         /\ BufferLength \in Nat /\ Wrap \in Nat
                         /\ \A k \in Kinds : RecordSize[k] < BufferLength
                         /\ 2 * BufferLength < Wrap
ASSUME BoundsAssumption == MaxFailures \in Nat /\ MaxSessions \in Nat

VARIABLES
  monitor,   \* g_monitorflag
  linked,    \* linked[k]: pendedPackets of the layer, head first
  queries,   \* g_IoQueryHead, head first: the kinds of the query entries
  mapped,    \* g_inBuf is mapped; otherwise its bufferLength is 0
  (* the classify calls *)
  cl,        \* cl[p]: where the call that captures p is
  failures,  \* allocation failures so far
  (* devctrl_fillBuffer *)
  io,        \* where the I/O thread is
  entry,     \* the kind of the query entry it holds
  offset,    \* bytes of the shared buffer in use
  batch,     \* the packets in the shared buffer
  back,      \* a packet that did not fit, on its way back to its list
  (* the client *)
  session,   \* where the client's session is
  sessions,  \* sessions opened so far
  reading,   \* a read is outstanding
  (* history *)
  delivered, \* packets the client was given, in order
  dropped,   \* packets a close threw away
  freed,     \* packets whose memory was given back
  faulted,   \* a query allocation failed, or a close ran
  brim       \* a frame of this batch filled the buffer to the last byte

capVars     == <<monitor, linked, queries, mapped>>
clVars      == <<cl, failures>>
ioVars      == <<io, entry, offset, batch, back>>
clientVars  == <<session, sessions, reading>>
historyVars == <<delivered, dropped, freed, faulted, brim>>
vars == <<monitor, linked, queries, mapped, cl, failures, io, entry, offset,
          batch, back, session, sessions, reading, delivered, dropped, freed,
          faulted, brim>>

Init == /\ monitor = 0
        /\ linked = [k \in Kinds |-> <<>>]
        /\ queries = <<>>
        /\ mapped = FALSE
        /\ cl = [p \in Packets |-> "new"]
        /\ failures = 0
        /\ io = "idle" /\ entry = "none" /\ offset = 0 /\ batch = <<>>
        /\ back = NoPacket
        /\ session = "closed" /\ sessions = 0 /\ reading = FALSE
        /\ delivered = <<>> /\ dropped = {} /\ freed = {}
        /\ faulted = FALSE /\ brim = FALSE

-----------------------------------------------------------------------------
(* Plausible mistakes: what some of the definitions below would be if the  *)
(* code forgot a check or a call.  Each breaks one of the properties.      *)

(* The query entry's code is not set. *)
PushQuery_NoCode(p) ==
  /\ cl[p] = "linked"
  /\ queries' = <<"none">> \o queries
  /\ cl' = [cl EXCEPT ![p] = "queued"]
  /\ UNCHANGED <<monitor, linked, mapped, failures, ioVars, clientVars,
                 historyVars>>

(* The pops check that there is room, not that there is enough. *)
Fits_AnyRoom(k, off) == (IF mapped THEN BufferLength ELSE 0) - off > 0

(* The packet that did not fit is not relinked. *)
Relink_Forgotten ==
  /\ io = "relink"
  /\ back' = NoPacket
  /\ io' = "requeue"
  /\ UNCHANGED <<capVars, clVars, entry, offset, batch, clientVars,
                 historyVars>>

(* The packet that did not fit is freed before it is relinked. *)
Relink_Freed ==
  /\ io = "relink"
  /\ linked' = [linked EXCEPT ![entry] = <<back>> \o @]
  /\ freed' = freed \union {back}
  /\ back' = NoPacket
  /\ io' = "requeue"
  /\ UNCHANGED <<monitor, queries, mapped, clVars, entry, offset, batch,
                 clientVars, delivered, dropped, faulted, brim>>

(* The packet that did not fit was copied before the check. *)
Relink_Copied ==
  /\ io = "relink"
  /\ linked' = [linked EXCEPT ![entry] = <<back>> \o @]
  /\ batch' = Append(batch, back)
  /\ back' = NoPacket
  /\ io' = "requeue"
  /\ UNCHANGED <<monitor, queries, mapped, clVars, entry, offset, clientVars,
                 historyVars>>

(* A failed pop loses its query entry. *)
Requeue_Forgotten ==
  /\ io = "requeue"
  /\ entry' = "none"
  /\ io' = "answer"
  /\ UNCHANGED <<capVars, clVars, offset, batch, back, clientVars,
                 historyVars>>

-----------------------------------------------------------------------------
(* The classify callouts: helper_callout_classFn_flowEstablished and       *)
(* helper_callout_classFn_mac, up to devctrl_push*CtxBuffer.               *)

(* The test of g_monitorflag, taken once, with no lock. *)
Classify(p) ==
  /\ cl[p] = "new"
  /\ cl' = [cl EXCEPT ![p] = IF monitor = 0 THEN "ignored" ELSE "checked"]
  /\ UNCHANGED <<capVars, failures, ioVars, clientVars, historyVars>>

(* No memory for the callout's copy or for the list entry: nothing queued. *)
CaptureFails(p) ==
  /\ cl[p] = "checked"
  /\ failures < MaxFailures
  /\ failures' = failures + 1
  /\ cl' = [cl EXCEPT ![p] = "ignored"]
  /\ UNCHANGED <<capVars, ioVars, clientVars, historyVars>>

(* establishedctx_pushflowestablishedctx and datalinkctx_pushdata:
   InsertHeadList under the list's lock. *)
LinkPacket(p) ==
  /\ cl[p] = "checked"
  /\ linked' = [linked EXCEPT ![KindOf[p]] = <<p>> \o @]
  /\ cl' = [cl EXCEPT ![p] = "linked"]
  /\ UNCHANGED <<monitor, queries, mapped, failures, ioVars, clientVars,
                 historyVars>>

(* devctrl_pushFlowCtxBuffer and devctrl_pushDataLinkCtxBuffer. *)
PushQuery(p) ==
  /\ cl[p] = "linked"
  /\ queries' = <<KindOf[p]>> \o queries
  /\ cl' = [cl EXCEPT ![p] = "queued"]
  /\ UNCHANGED <<monitor, linked, mapped, failures, ioVars, clientVars,
                 historyVars>>

(* ... without memory for the entry: the packet stays on its list. *)
PushQueryFails(p) ==
  /\ cl[p] = "linked"
  /\ failures < MaxFailures
  /\ failures' = failures + 1
  /\ cl' = [cl EXCEPT ![p] = "queued"]
  /\ faulted' = TRUE
  /\ UNCHANGED <<capVars, ioVars, clientVars, delivered, dropped, freed, brim>>

-----------------------------------------------------------------------------
(* devctrl_serviceReads, devctrl_fillBuffer and the two pops.              *)

InUse == IF mapped THEN BufferLength ELSE 0      \* g_inBuf.bufferLength

(* Both lists hold something: a read is taken and its MDL mapped. *)
StartFill ==
  /\ io = "idle" /\ reading /\ queries # <<>>
  /\ io' = "take" /\ offset' = 0 /\ batch' = <<>> /\ brim' = FALSE
  /\ UNCHANGED <<capVars, clVars, entry, back, clientVars, delivered, dropped,
                 freed, faulted>>

(* The read's MDL cannot be mapped: it fails, the queries stay. *)
ReadFails ==
  /\ io = "idle" /\ reading /\ queries # <<>>
  /\ failures < MaxFailures
  /\ failures' = failures + 1
  /\ reading' = FALSE
  /\ UNCHANGED <<capVars, cl, ioVars, session, sessions, historyVars>>

(* RemoveHeadList of the query list. *)
TakeQuery ==
  /\ io = "take" /\ queries # <<>>
  /\ entry' = Head(queries)
  /\ queries' = Tail(queries)
  /\ io' = "pop"
  /\ UNCHANGED <<monitor, linked, mapped, clVars, offset, batch, back,
                 clientVars, historyVars>>

(* The check each pop makes before it copies a record to offset off. *)
Fits(k, off) ==
  LET free == IF k = "flow" THEN InUse - off - 1 ELSE InUse - off
  IN  free % Wrap >= RecordSize[k]

(* The flow pop copies n records from the head of its list: all of them, or
   those before the first that does not fit. *)
CopiesFlows(n) ==
  LET At(m) == offset + m * RecordSize["flow"]
  IN  /\ \A m \in 0..(n - 1) : Fits("flow", At(m))
      /\ n < Len(linked["flow"]) => ~Fits("flow", At(n))

(* devtrl_popFlowestablishedData drains the list in one critical section.
   It frees the entry it removed last, and none of the others. *)
PopFlow ==
  LET flows == linked["flow"] IN
  /\ io = "pop" /\ entry = "flow"
  /\ \E n \in 0..Len(flows) :
       /\ CopiesFlows(n)
       /\ batch' = batch \o SubSeq(flows, 1, n)
       /\ offset' = offset + n * RecordSize["flow"]
       /\ IF n = Len(flows)
          THEN /\ linked' = [linked EXCEPT !["flow"] = <<>>]
               /\ freed' = IF flows = <<>> THEN freed
                                           ELSE freed \union {Last(flows)}
               /\ io' = "take" /\ entry' = "none"
               /\ UNCHANGED back
          ELSE /\ linked' = [linked EXCEPT !["flow"] =
                               SubSeq(flows, n + 2, Len(flows))]
               /\ back' = flows[n + 1]
               /\ io' = "relink"
               /\ UNCHANGED <<freed, entry>>
  /\ UNCHANGED <<monitor, queries, mapped, clVars, clientVars, delivered,
                 dropped, faulted, brim>>

(* devtrl_popDataLinkData copies and frees one packet. *)
PopMac ==
  LET macs == linked["mac"]
  IN  /\ io = "pop" /\ entry = "mac" /\ macs # <<>>
      /\ linked' = [linked EXCEPT !["mac"] = Tail(macs)]
      /\ IF Fits("mac", offset)
         THEN /\ batch' = Append(batch, Head(macs))
              /\ offset' = offset + RecordSize["mac"]
              /\ brim' = (brim \/ offset' = InUse)
              /\ freed' = freed \union {Head(macs)}
              /\ io' = "take" /\ entry' = "none"
              /\ UNCHANGED back
         ELSE /\ back' = Head(macs)
              /\ io' = "relink"
              /\ UNCHANGED <<batch, offset, freed, entry, brim>>
      /\ UNCHANGED <<monitor, queries, mapped, clVars, clientVars, delivered,
                     dropped, faulted>>

(* ... and fails when its list is empty. *)
PopMacEmpty ==
  /\ io = "pop" /\ entry = "mac" /\ linked["mac"] = <<>>
  /\ io' = "requeue"
  /\ UNCHANGED <<capVars, clVars, entry, offset, batch, back, clientVars,
                 historyVars>>

(* The packet that did not fit goes back to the head of its list, in a
   critical section of its own. *)
Relink ==
  /\ io = "relink"
  /\ linked' = [linked EXCEPT ![entry] = <<back>> \o @]
  /\ back' = NoPacket
  /\ io' = "requeue"
  /\ UNCHANGED <<monitor, queries, mapped, clVars, entry, offset, batch,
                 clientVars, historyVars>>

(* A failed pop: its query entry goes back and the fill ends. *)
Requeue ==
  /\ io = "requeue"
  /\ queries' = <<entry>> \o queries
  /\ entry' = "none"
  /\ io' = "answer"
  /\ UNCHANGED <<monitor, linked, mapped, clVars, offset, batch, back,
                 clientVars, historyVars>>

FillDone ==
  /\ io = "take" /\ queries = <<>>
  /\ io' = "answer"
  /\ UNCHANGED <<capVars, clVars, entry, offset, batch, back, clientVars,
                 historyVars>>

(* IoCompleteRequest with the length of the batch. *)
AnswerRead ==
  /\ io = "answer"
  /\ delivered' = delivered \o batch
  /\ batch' = <<>> /\ offset' = 0
  /\ reading' = FALSE
  /\ io' = "idle"
  /\ UNCHANGED <<capVars, clVars, entry, back, session, sessions, dropped,
                 freed, faulted, brim>>

Fill == StartFill \/ TakeQuery \/ PopFlow \/ PopMac \/ PopMacEmpty
        \/ Relink \/ Requeue \/ FillDone \/ AnswerRead

-----------------------------------------------------------------------------
(* The client's requests: create, openMem, monitor on and off, read, close. *)

(* devctrl_create. *)
Open ==
  /\ session = "closed" /\ sessions < MaxSessions
  /\ session' = "opened" /\ sessions' = sessions + 1
  /\ UNCHANGED <<capVars, clVars, ioVars, reading, historyVars>>

(* devctrl_openMem maps g_inBuf and g_outBuf, both or none. *)
OpenMem ==
  /\ session = "opened"
  /\ mapped' = TRUE
  /\ session' = "running"
  /\ UNCHANGED <<monitor, linked, queries, clVars, ioVars, sessions, reading,
                 historyVars>>

OpenMemFails ==
  /\ session = "opened" /\ failures < MaxFailures
  /\ failures' = failures + 1
  /\ session' = "cleanFlows" /\ monitor' = 0
  /\ UNCHANGED <<linked, queries, mapped, cl, ioVars, sessions, reading,
                 historyVars>>

(* devctrl_setmonitor, from either control code. *)
SetMonitor(flag) ==
  /\ session \in {"running", "stopped"}
  /\ monitor' = flag
  /\ UNCHANGED <<linked, queries, mapped, clVars, ioVars, clientVars,
                 historyVars>>

(* The worker thread keeps one read outstanding. *)
Read ==
  /\ session = "running" /\ ~reading
  /\ reading' = TRUE
  /\ UNCHANGED <<capVars, clVars, ioVars, session, sessions, historyVars>>

(* The worker thread is terminated: its read is cancelled while it is parked
   and none follows. *)
CancelRead ==
  /\ reading /\ io = "idle"
  /\ reading' = FALSE
  /\ session' = "stopped"
  /\ UNCHANGED <<capVars, clVars, ioVars, sessions, historyVars>>

(* devctrl_close, once no read is outstanding: stop capturing, ... *)
Close ==
  /\ session \in {"running", "stopped"} /\ ~reading
  /\ monitor' = 0
  /\ session' = "cleanFlows"
  /\ UNCHANGED <<linked, queries, mapped, clVars, ioVars, sessions, reading,
                 historyVars>>

(* ... establishedctx_clean and datalinkctx_clean, one entry at a time, ... *)
CleanPackets(k, here, next) ==
  /\ session = here
  /\ IF linked[k] = <<>>
     THEN /\ session' = next
          /\ UNCHANGED <<linked, dropped, freed, faulted>>
     ELSE /\ linked' = [linked EXCEPT ![k] = Tail(@)]
          /\ dropped' = dropped \union {Head(linked[k])}
          /\ freed' = freed \union {Head(linked[k])}
          /\ faulted' = TRUE
          /\ UNCHANGED session
  /\ UNCHANGED <<monitor, queries, mapped, clVars, ioVars, sessions, reading,
                 delivered, brim>>

CleanFlows == CleanPackets("flow", "cleanFlows", "cleanMacs")
CleanMacs  == CleanPackets("mac", "cleanMacs", "cleanQueries")

(* ... devctrl_clean: the query entries, one at a time, and the buffers. *)
CleanQueries ==
  /\ session = "cleanQueries"
  /\ IF queries = <<>>
     THEN /\ session' = "closed"
          /\ mapped' = FALSE
          /\ UNCHANGED <<queries, faulted>>
     ELSE /\ queries' = Tail(queries)
          /\ faulted' = TRUE
          /\ UNCHANGED <<session, mapped>>
  /\ UNCHANGED <<monitor, linked, clVars, ioVars, sessions, reading,
                 delivered, dropped, freed, brim>>

Client == \/ Open \/ OpenMem \/ OpenMemFails \/ Read \/ CancelRead \/ Close
          \/ CleanFlows \/ CleanMacs \/ CleanQueries
          \/ \E flag \in {0, 1} : SetMonitor(flag)

-----------------------------------------------------------------------------

Next == \/ \E p \in Packets : \/ Classify(p) \/ CaptureFails(p)
                              \/ LinkPacket(p) \/ PushQuery(p)
                              \/ PushQueryFails(p)
        \/ Fill \/ ReadFails
        \/ Client

Spec == Init /\ [][Next]_vars

(* A classify call that started runs to its end, the I/O thread runs, and
   the client's worker thread reads again after every answer.  Nobody is
   obliged to send packets, to switch the monitor or to close. *)
Fairness == /\ \A p \in Packets :
                 WF_vars(LinkPacket(p) \/ CaptureFails(p))
                 /\ WF_vars(PushQuery(p) \/ PushQueryFails(p))
            /\ WF_vars(Fill)
            /\ WF_vars(Read)

FairSpec == Spec /\ Fairness

-----------------------------------------------------------------------------
(* Properties.                                                             *)

Listed(k) == Range(linked[k])

(* Every variable keeps its type. *)
TypeOK == /\ monitor \in {0, 1}
          /\ linked \in [Kinds -> Seq(Packets)]
          /\ queries \in Seq(Kinds)
          /\ mapped \in BOOLEAN /\ reading \in BOOLEAN
          /\ faulted \in BOOLEAN /\ brim \in BOOLEAN
          /\ cl \in [Packets -> {"new", "ignored", "checked", "linked",
                                 "queued"}]
          /\ failures \in Nat /\ sessions \in Nat /\ offset \in Nat
          /\ io \in {"idle", "take", "pop", "relink", "requeue", "answer"}
          /\ entry \in Kinds \union {"none"}
          /\ batch \in Seq(Packets) /\ delivered \in Seq(Packets)
          /\ back \in Packets \union {NoPacket}
          /\ session \in {"closed", "opened", "running", "stopped",
                          "cleanFlows", "cleanMacs", "cleanQueries"}
          /\ dropped \subseteq Packets /\ freed \subseteq Packets

(* Memory that was given back is on no list and in nobody's hands: the
   overflow path of a pop, which relinks a packet after the lock was
   released, and the drain of a close never free a packet that is still in
   use. *)
FreedIsGone == \A p \in freed : /\ \A k \in Kinds : p \notin Listed(k)
                                /\ p # back

(* A captured packet is on its list, on its way back to it, in the buffer,
   with the client, or thrown away, and never in two of those places. *)
PacketIsSomewhere ==
  \A p \in Packets :
    cl[p] \in {"linked", "queued"} =>
      Cardinality({w \in {"list", "back", "buffer", "client", "dropped"} :
                     \/ w = "list" /\ p \in Listed(KindOf[p])
                     \/ w = "back" /\ p = back
                     \/ w = "buffer" /\ p \in Range(batch)
                     \/ w = "client" /\ p \in Range(delivered)
                     \/ w = "dropped" /\ p \in dropped}) = 1

(* A fill writes only to a mapped buffer and never past its end: the
   unsigned comparisons of the pops hold the bound.  The exception is a flow
   after frames that filled the buffer to its last byte: the flow pop's
   "- 1" then wraps.  Flows alone leave that byte free. *)
WritesInBounds == batch # <<>> => mapped /\ (offset <= BufferLength \/ brim)

(* Unless an allocation failed or a close ran, a packet on a list has a
   query that will fetch it: on the query list, in the I/O thread's hands, or
   about to be pushed by the thread that linked the packet.  A flow query
   stands for any number of packets, a data-link query for one. *)
QueriesFor(k) == Cardinality({n \in 1..Len(queries) : queries[n] = k})
                 + (IF entry = k THEN 1 ELSE 0)
                 + Cardinality({p \in Packets : /\ KindOf[p] = k
                                                /\ cl[p] = "linked"})
PacketsHaveQueries ==
  ~faulted =>
    /\ linked["flow"] # <<>> \/ (back # NoPacket /\ KindOf[back] = "flow")
         => QueriesFor("flow") > 0
    /\ QueriesFor("mac") >= Len(linked["mac"]) +
         (IF back # NoPacket /\ KindOf[back] = "mac" THEN 1 ELSE 0)

(* What callouts.c:154 and the test program say of a paused monitor: while
   g_monitorflag is 0 nothing is captured. *)
PausedCapturesNothing ==
  [][\A p \in Packets : LinkPacket(p) => monitor # 0]_vars

Abstract == INSTANCE Deliveries
  WITH captured <- {p \in Packets : cl[p] \in {"linked", "queued"}}

(* Each queued packet is delivered once or dropped by a close: the lists,
   the overflow path and the drains implement module Deliveries. *)
ImplementsDeliveries == Abstract!Spec
=============================================================================
