------------------------- MODULE CaptureQueue_proofs ------------------------
(***************************************************************************)
(* Proofs about CaptureQueue, for every set of packets, every record and   *)
(* buffer size and every number of failures and sessions: types, where a   *)
(* captured packet is, what is freed, the buffer's bound, the              *)
(* implementation of Deliveries, and the queries that fetch the packets;   *)
(* for the build that captures flows only, a stricter bound of the buffer. *)
(***************************************************************************)
EXTENDS CaptureQueue, ListFacts

(* The packets a classify call has linked. *)
Captured == {p \in Packets : cl[p] \in {"linked", "queued"}}

(* Where they may be, besides with the client and among the dropped. *)
OnLists == Listed("flow") \union Listed("mac")
InHand  == IF back = NoPacket THEN {} ELSE {back}
Used    == Range(batch) \union Range(delivered) \union dropped

(* No list holds a packet twice, and each its own kind. *)
ListsAreSound ==
  /\ \A k \in Kinds : /\ Distinct(linked[k])
                      /\ \A p \in Listed(k) : KindOf[p] = k
  /\ Distinct(batch) /\ Distinct(delivered)

(* The places share no packet and hold all that were captured. *)
PlacesAreApart ==
  /\ Captured = OnLists \union InHand \union Used
  /\ OnLists \intersect (InHand \union Used) = {}
  /\ InHand \intersect Used = {}
  /\ Range(batch) \intersect (Range(delivered) \union dropped) = {}
  /\ Range(delivered) \intersect dropped = {}

(* What the I/O thread holds at each stage of a fill. *)
FillStage ==
  /\ io = "relink" <=> back # NoPacket
  /\ io \in {"pop", "relink", "requeue"} <=> entry # "none"
  /\ back # NoPacket => KindOf[back] = entry
  /\ io = "idle" => batch = <<>>

(* A fill has a read, and a read has a mapped buffer. *)
FillIsRead ==
  /\ io # "idle" => reading
  /\ reading => session = "running"
  /\ session \in {"running", "stopped"} => mapped

(* Flows leave the last byte of the buffer free; a frame may take it. *)
ByteIsFree == io # "idle" => offset < BufferLength \/ brim

(* The inductive invariant. *)
IInv == /\ TypeOK
        /\ ListsAreSound
        /\ PlacesAreApart
        /\ freed \subseteq Used
        /\ FillStage
        /\ FillIsRead
        /\ ByteIsFree

-----------------------------------------------------------------------------
(* The actions, by what they touch. *)

(* Packets, lists and buffer stay where they are. *)
Quiet == \/ \E p \in Packets : \/ Classify(p) \/ CaptureFails(p)
                               \/ PushQuery(p) \/ PushQueryFails(p)
         \/ TakeQuery \/ PopMacEmpty \/ Requeue \/ FillDone \/ ReadFails
         \/ Open \/ OpenMem \/ OpenMemFails \/ Read \/ CancelRead \/ Close
         \/ CleanQueries
         \/ \E flag \in {0, 1} : SetMonitor(flag)

(* Packets move from one place to another. *)
Moves == \/ \E p \in Packets : LinkPacket(p)
         \/ PopFlow \/ PopMac \/ Relink \/ StartFill \/ AnswerRead
         \/ CleanFlows \/ CleanMacs

LEMMA NextIsSplit == Next <=> Quiet \/ Moves
  BY DEF Next, Fill, Client, Quiet, Moves

-----------------------------------------------------------------------------
(* Types. *)

LEMMA InitInv == Init => IInv
<1>1. Kinds # {} /\ <<>> \in Seq(Packets) /\ <<>> \in Seq(Kinds)
  BY DEF Kinds
<1>2. Range(<<>>) = {}
  BY RangeFacts, <1>1
<1>3. Distinct(<<>>)
  BY DEF Distinct
<1>4. SUFFICES ASSUME Init PROVE IInv
  OBVIOUS
<1>5. TypeOK
  BY <1>1, <1>4, BoundsAssumption DEF Init, TypeOK
<1>6. ListsAreSound /\ PlacesAreApart /\ freed \subseteq Used
  BY <1>2, <1>3, <1>4 DEF Init, ListsAreSound, PlacesAreApart, Captured,
     OnLists, InHand, Used, Listed, Kinds
<1>7. FillStage /\ FillIsRead /\ ByteIsFree
  BY <1>4, NoPacketAssumption DEF Init, FillStage, FillIsRead, ByteIsFree
<1>8. QED
  BY <1>5, <1>6, <1>7 DEF IInv

(* A quiet step disturbs none of the places. *)
LEMMA QuietPlaces ==
  ASSUME IInv, Quiet
  PROVE  /\ UNCHANGED <<linked, batch, delivered, dropped, back, freed, offset,
                        brim>>
         /\ Captured' = Captured
<1>1. UNCHANGED <<linked, batch, delivered, dropped, back, freed, offset, brim>>
  BY DEF Quiet, Classify, CaptureFails, PushQuery, PushQueryFails, TakeQuery,
     PopMacEmpty, Requeue, FillDone, ReadFails, Open, OpenMem, OpenMemFails,
     Read, CancelRead, Close, CleanQueries, SetMonitor, capVars, clVars, ioVars,
     clientVars, historyVars
<1>2. Captured' = Captured
  <2>1. CASE \E p \in Packets : \/ Classify(p) \/ CaptureFails(p)
                                \/ PushQuery(p) \/ PushQueryFails(p)
    BY <2>1 DEF IInv, TypeOK, Classify, CaptureFails, PushQuery,
       PushQueryFails, Captured
  <2>2. CASE UNCHANGED cl
    BY <2>2 DEF Captured
  <2>3. QED
    BY <2>1, <2>2 DEF Quiet, TakeQuery, PopMacEmpty, Requeue, FillDone,
       ReadFails, Open, OpenMem, OpenMemFails, Read, CancelRead, Close,
       CleanQueries, SetMonitor, clVars
<1>3. QED
  BY <1>1, <1>2

LEMMA QuietTypes == IInv /\ Quiet => TypeOK'
<1>1. SUFFICES ASSUME IInv, Quiet PROVE TypeOK'
  OBVIOUS
<1>2. UNCHANGED <<linked, batch, delivered, dropped, back, freed, offset, brim>>
  BY <1>1, QuietPlaces
<1>3. queries' \in Seq(Kinds) /\ entry' \in Kinds \union {"none"}
  <2>1. ASSUME NEW p \in Packets, PushQuery(p)
        PROVE  queries' \in Seq(Kinds) /\ entry' = entry
    <3>1. KindOf[p] \in Kinds /\ queries \in Seq(Kinds)
      BY <1>1, KindAssumption DEF IInv, TypeOK
    <3>2. QED
      BY <2>1, <3>1, ConsFacts DEF PushQuery, ioVars
  <2>2. CASE Requeue
    <3>1. entry \in Kinds /\ queries \in Seq(Kinds)
      BY <1>1, <2>2 DEF Requeue, IInv, TypeOK, FillStage
    <3>2. QED
      BY <2>2, <3>1, ConsFacts DEF Requeue
  <2>3. CASE TakeQuery \/ CleanQueries
    <3>1. queries \in Seq(Kinds) /\ entry \in Kinds \union {"none"}
      BY <1>1 DEF IInv, TypeOK
    <3>2. queries # <<>> => Head(queries) \in Kinds /\ Tail(queries) \in Seq(Kinds)
      BY <3>1
    <3>3. CASE TakeQuery
      BY <3>2, <3>3 DEF TakeQuery
    <3>4. CASE CleanQueries
      BY <3>1, <3>2, <3>4 DEF CleanQueries, ioVars
    <3>5. QED
      BY <2>3, <3>3, <3>4
  <2>4. CASE UNCHANGED <<queries, entry>>
    BY <1>1, <2>4 DEF IInv, TypeOK
  <2>5. QED
    BY <1>1, <2>1, <2>2, <2>3, <2>4 DEF Quiet, Classify, CaptureFails,
       PushQueryFails, PopMacEmpty, FillDone, ReadFails, Open, OpenMem,
       OpenMemFails, Read, CancelRead, Close, SetMonitor, capVars, ioVars,
       IInv, TypeOK
<1>4. cl' \in [Packets -> {"new", "ignored", "checked", "linked", "queued"}]
  BY <1>1 DEF Quiet, Classify, CaptureFails, PushQuery, PushQueryFails,
     TakeQuery, PopMacEmpty, Requeue, FillDone, ReadFails, Open, OpenMem,
     OpenMemFails, Read, CancelRead, Close, CleanQueries, SetMonitor, clVars,
     IInv, TypeOK
<1>5. /\ mapped' \in BOOLEAN /\ reading' \in BOOLEAN
      /\ faulted' \in BOOLEAN
  BY <1>1 DEF Quiet, Classify, CaptureFails, PushQuery, PushQueryFails,
     TakeQuery, PopMacEmpty, Requeue, FillDone, ReadFails, Open, OpenMem,
     OpenMemFails, Read, CancelRead, Close, CleanQueries, SetMonitor, capVars,
     clVars, ioVars, clientVars, historyVars, IInv, TypeOK
<1>6. monitor' \in {0, 1} /\ failures' \in Nat /\ sessions' \in Nat
  <2>1. monitor' \in {0, 1}
    BY <1>1 DEF Quiet, Classify, CaptureFails, PushQuery, PushQueryFails,
       TakeQuery, PopMacEmpty, Requeue, FillDone, ReadFails, Open, OpenMem,
       OpenMemFails, Read, CancelRead, Close, CleanQueries, SetMonitor,
       capVars, clVars, ioVars, clientVars, historyVars, IInv, TypeOK
  <2>2. /\ failures' = failures \/ failures' = failures + 1
        /\ sessions' = sessions \/ sessions' = sessions + 1
    BY <1>1 DEF Quiet, Classify, CaptureFails, PushQuery, PushQueryFails,
       TakeQuery, PopMacEmpty, Requeue, FillDone, ReadFails, Open, OpenMem,
       OpenMemFails, Read, CancelRead, Close, CleanQueries, SetMonitor,
       capVars, clVars, ioVars, clientVars, historyVars
  <2>3. QED
    BY <1>1, <2>1, <2>2 DEF IInv, TypeOK
<1>7. /\ io' \in {"idle", "take", "pop", "relink", "requeue", "answer"}
      /\ session' \in {"closed", "opened", "running", "stopped", "cleanFlows",
                       "cleanMacs", "cleanQueries"}
  BY <1>1 DEF Quiet, Classify, CaptureFails, PushQuery, PushQueryFails,
     TakeQuery, PopMacEmpty, Requeue, FillDone, ReadFails, Open, OpenMem,
     OpenMemFails, Read, CancelRead, Close, CleanQueries, SetMonitor, capVars,
     clVars, ioVars, clientVars, historyVars, IInv, TypeOK
<1>8. QED
  BY <1>1, <1>2, <1>3, <1>4, <1>5, <1>6, <1>7 DEF IInv, TypeOK

(* ... nor what the I/O thread and the client hold. *)
LEMMA QuietStages == IInv /\ Quiet => FillStage' /\ FillIsRead' /\ ByteIsFree'
<1>1. SUFFICES ASSUME IInv, Quiet PROVE FillStage' /\ FillIsRead' /\ ByteIsFree'
  OBVIOUS
<1>2. UNCHANGED <<batch, back, offset, brim>>
  BY <1>1, QuietPlaces
<1>3. FillStage'
  <2>1. CASE UNCHANGED <<io, entry>>
    BY <1>1, <1>2, <2>1 DEF IInv, FillStage
  <2>2. CASE TakeQuery
    <3>1. entry' \in Kinds
      BY <1>1, <2>2 DEF TakeQuery, IInv, TypeOK
    <3>2. QED
      BY <1>1, <1>2, <2>2, <3>1 DEF TakeQuery, IInv, FillStage, Kinds
  <2>3. CASE PopMacEmpty \/ Requeue \/ FillDone
    BY <1>1, <1>2, <2>3 DEF PopMacEmpty, Requeue, FillDone, IInv, FillStage
  <2>4. QED
    BY <1>1, <2>1, <2>2, <2>3 DEF Quiet, Classify, CaptureFails, PushQuery,
       PushQueryFails, ReadFails, Open, OpenMem, OpenMemFails, Read,
       CancelRead, Close, CleanQueries, SetMonitor, ioVars
<1>4. FillIsRead' /\ (io' # "idle" => io # "idle")
  <2>1. CASE \E p \in Packets : \/ Classify(p) \/ CaptureFails(p)
                                \/ PushQuery(p) \/ PushQueryFails(p)
    BY <1>1, <2>1 DEF Classify, CaptureFails, PushQuery, PushQueryFails,
       capVars, ioVars, clientVars, IInv, FillIsRead
  <2>2. CASE TakeQuery \/ PopMacEmpty \/ Requeue \/ FillDone \/ ReadFails
    BY <1>1, <2>2 DEF TakeQuery, PopMacEmpty, Requeue, FillDone, ReadFails,
       capVars, ioVars, clientVars, IInv, FillIsRead
  <2>3. CASE \/ Open \/ OpenMem \/ OpenMemFails \/ Read \/ CancelRead
             \/ Close \/ CleanQueries
             \/ \E flag \in {0, 1} : SetMonitor(flag)
    BY <1>1, <2>3 DEF Open, OpenMem, OpenMemFails, Read, CancelRead, Close,
       CleanQueries, SetMonitor, capVars, ioVars, clientVars, IInv, FillIsRead
  <2>4. QED
    BY <1>1, <2>1, <2>2, <2>3 DEF Quiet
<1>5. QED
  BY <1>1, <1>2, <1>3, <1>4 DEF IInv, ByteIsFree

LEMMA QuietInv == IInv /\ Quiet => IInv'
<1>1. SUFFICES ASSUME IInv, Quiet PROVE IInv'
  OBVIOUS
<1>2. /\ UNCHANGED <<linked, batch, delivered, dropped, back, freed>>
      /\ Captured' = Captured
  BY <1>1, QuietPlaces
<1>3. /\ \A k \in Kinds : Listed(k)' = Listed(k)
      /\ OnLists' = OnLists /\ InHand' = InHand /\ Used' = Used
  BY <1>2 DEF Listed, OnLists, InHand, Used
<1>4. ListsAreSound' /\ PlacesAreApart' /\ (freed \subseteq Used)'
  BY <1>1, <1>2, <1>3 DEF IInv, ListsAreSound, PlacesAreApart
<1>5. QED
  BY <1>1, <1>4, QuietTypes, QuietStages DEF IInv

-----------------------------------------------------------------------------
(* The moves, each with its effect on the places. *)

(* What the list lemmas need to know of the lists. *)
LEMMA ListTypes ==
  ASSUME IInv, NEW k \in Kinds
  PROVE  /\ linked[k] \in Seq(Packets)
         /\ Distinct(linked[k])
         /\ Listed(k) \subseteq OnLists
         /\ Range(linked[k]) = Listed(k)
  BY DEF IInv, TypeOK, ListsAreSound, Listed, OnLists, Kinds

(* An entry removed from the head of the list of kind k. *)
LEMMA HeadRemoved ==
  ASSUME IInv, NEW k \in Kinds, linked[k] # <<>>,
         linked' = [linked EXCEPT ![k] = Tail(@)]
  PROVE  /\ linked' \in [Kinds -> Seq(Packets)]
         /\ Head(linked[k]) \in Packets
         /\ Head(linked[k]) \in OnLists
         /\ KindOf[Head(linked[k])] = k
         /\ OnLists' = OnLists \ {Head(linked[k])}
         /\ \A l \in Kinds : /\ Distinct(linked'[l])
                             /\ \A p \in Listed(l)' : KindOf[p] = l
<1>1. /\ Head(linked[k]) \in Range(linked[k])
      /\ Head(linked[k]) \in Packets
      /\ Tail(linked[k]) \in Seq(Packets)
      /\ Distinct(Tail(linked[k]))
      /\ Range(Tail(linked[k])) = Range(linked[k]) \ {Head(linked[k])}
  BY ListTypes, TailFacts
<1> DEFINE h == Head(linked[k])
           t == Tail(linked[k])
<1>2. linked' \in [Kinds -> Seq(Packets)] /\ linked'[k] = t
  BY <1>1 DEF IInv, TypeOK
<1>3. \A l \in Kinds : l # k => linked'[l] = linked[l]
  BY DEF IInv, TypeOK
<1>4. h \in Listed(k) /\ h \in Packets /\ Distinct(t)
  BY <1>1 DEF Listed
<1>5. Listed(k)' = Listed(k) \ {h}
  BY <1>1, <1>2 DEF Listed
<1> HIDE DEF h, t
<1>6. \A l \in Kinds : l # k => Listed(l)' = Listed(l)
  BY <1>3 DEF Listed
<1>7. \A l \in Kinds : /\ Distinct(linked[l])
                      /\ \A p \in Listed(l) : KindOf[p] = l
  BY DEF IInv, ListsAreSound
<1>8. KindOf[h] = k /\ \A l \in Kinds : l # k => h \notin Listed(l)
  BY <1>4, <1>7
<1>9. OnLists' = OnLists \ {h} /\ h \in OnLists
  BY <1>4, <1>5, <1>6, <1>8 DEF OnLists, Kinds
<1>10. \A l \in Kinds : Distinct(linked'[l])
  BY <1>2, <1>3, <1>4, <1>7
<1>11. \A l \in Kinds : \A p \in Listed(l)' : KindOf[p] = l
  BY <1>5, <1>6, <1>7
<1>12. QED
  BY <1>2, <1>4, <1>8, <1>9, <1>10, <1>11 DEF h

(* An entry on no list inserted at the head of the list of its kind. *)
LEMMA HeadInserted ==
  ASSUME IInv, NEW e \in Packets, NEW k \in Kinds, KindOf[e] = k,
         e \notin OnLists, linked' = [linked EXCEPT ![k] = <<e>> \o @]
  PROVE  /\ linked' \in [Kinds -> Seq(Packets)]
         /\ OnLists' = OnLists \union {e}
         /\ \A l \in Kinds : /\ Distinct(linked'[l])
                             /\ \A p \in Listed(l)' : KindOf[p] = l
<1>1. e \notin Range(linked[k])
  BY ListTypes
<1>2. /\ <<e>> \o linked[k] \in Seq(Packets)
      /\ Distinct(<<e>> \o linked[k])
      /\ Range(<<e>> \o linked[k]) = {e} \union Range(linked[k])
  BY <1>1, ListTypes, ConsFacts
<1> DEFINE c == <<e>> \o linked[k]
<1>3. linked' \in [Kinds -> Seq(Packets)] /\ linked'[k] = c
  BY <1>2 DEF IInv, TypeOK
<1>4. \A l \in Kinds : l # k => linked'[l] = linked[l]
  BY DEF IInv, TypeOK
<1>5. Distinct(c) /\ Listed(k)' = {e} \union Listed(k)
  BY <1>2, <1>3 DEF Listed
<1> HIDE DEF c
<1>6. \A l \in Kinds : l # k => Listed(l)' = Listed(l)
  BY <1>4 DEF Listed
<1>7. \A l \in Kinds : /\ Distinct(linked[l])
                      /\ \A p \in Listed(l) : KindOf[p] = l
  BY DEF IInv, ListsAreSound
<1>8. OnLists' = OnLists \union {e}
  BY <1>5, <1>6 DEF OnLists, Kinds
<1>9. \A l \in Kinds : Distinct(linked'[l])
  BY <1>3, <1>4, <1>5, <1>7
<1>10. \A l \in Kinds : \A p \in Listed(l)' : KindOf[p] = l
  BY <1>5, <1>6, <1>7
<1>11. QED
  BY <1>3, <1>8, <1>9, <1>10

LEMMA LinkInv ==
  ASSUME IInv, NEW p \in Packets, LinkPacket(p)
  PROVE  IInv'
<1>1. /\ linked' = [linked EXCEPT ![KindOf[p]] = <<p>> \o @]
      /\ UNCHANGED <<monitor, queries, mapped, failures, io, entry, offset,
                     batch, back, session, sessions, reading, delivered,
                     dropped, freed, faulted, brim>>
  BY DEF LinkPacket, ioVars, clientVars, historyVars
<1>2. KindOf[p] \in Kinds
  BY KindAssumption
<1>3. p \notin Captured /\ Captured' = Captured \union {p}
  BY DEF LinkPacket, Captured, IInv, TypeOK
<1>4. p \notin OnLists /\ p \notin InHand /\ p \notin Used
  BY <1>3 DEF IInv, PlacesAreApart
<1>5. /\ linked' \in [Kinds -> Seq(Packets)]
      /\ OnLists' = OnLists \union {p}
      /\ \A l \in Kinds : /\ Distinct(linked'[l])
                          /\ \A q \in Listed(l)' : KindOf[q] = l
  BY <1>1, <1>2, <1>4, HeadInserted
<1>6. InHand' = InHand /\ Used' = Used
  BY <1>1 DEF InHand, Used
<1>7. PlacesAreApart'
  BY <1>1, <1>3, <1>4, <1>5, <1>6 DEF IInv, PlacesAreApart
<1>8. ListsAreSound'
  BY <1>1, <1>5 DEF IInv, ListsAreSound
<1>9. TypeOK'
  <2>1. cl' \in [Packets -> {"new", "ignored", "checked", "linked", "queued"}]
    BY DEF LinkPacket, IInv, TypeOK
  <2>2. QED
    BY <1>1, <1>5, <2>1 DEF IInv, TypeOK
<1>10. /\ (freed \subseteq Used)'
       /\ FillStage' /\ FillIsRead' /\ ByteIsFree'
  BY <1>1, <1>6 DEF IInv, FillStage, FillIsRead, ByteIsFree
<1>11. QED
  BY <1>7, <1>8, <1>9, <1>10 DEF IInv

LEMMA CleanInv ==
  ASSUME IInv, NEW k \in Kinds, NEW here, NEW next,
         here \in {"cleanFlows", "cleanMacs"},
         next \in {"cleanMacs", "cleanQueries"},
         CleanPackets(k, here, next)
  PROVE  IInv'
<1>1. /\ session = here
      /\ UNCHANGED <<monitor, queries, mapped, cl, failures, io, entry, offset,
                     batch, back, sessions, reading, delivered, brim>>
      /\ session' \in {here, next}
  BY DEF CleanPackets, clVars, ioVars
<1>2. Captured' = Captured /\ InHand' = InHand
  BY <1>1 DEF Captured, InHand
<1>3. FillStage' /\ ByteIsFree'
  BY <1>1 DEF IInv, FillStage, ByteIsFree
<1>4. FillIsRead'
  BY <1>1 DEF IInv, FillIsRead
<1>5. CASE linked[k] = <<>>
  <2>1. UNCHANGED <<linked, dropped, freed, faulted>>
    BY <1>5 DEF CleanPackets
  <2>2. /\ \A l \in Kinds : Listed(l)' = Listed(l)
        /\ OnLists' = OnLists /\ Used' = Used
    BY <1>1, <2>1 DEF Listed, OnLists, Used
  <2>3. TypeOK'
    BY <1>1, <2>1 DEF IInv, TypeOK
  <2>4. ListsAreSound' /\ PlacesAreApart' /\ (freed \subseteq Used)'
    BY <1>1, <1>2, <2>1, <2>2 DEF IInv, ListsAreSound, PlacesAreApart
  <2>5. QED
    BY <1>3, <1>4, <2>3, <2>4 DEF IInv
<1>6. CASE linked[k] # <<>>
  <2> DEFINE h == Head(linked[k])
  <2>1. /\ linked' = [linked EXCEPT ![k] = Tail(@)]
        /\ dropped' = dropped \union {h}
        /\ freed' = freed \union {h}
        /\ faulted' = TRUE
        /\ UNCHANGED session
    BY <1>6 DEF CleanPackets
  <2>2. /\ linked' \in [Kinds -> Seq(Packets)]
        /\ h \in Packets
        /\ h \in OnLists
        /\ OnLists' = OnLists \ {h}
        /\ \A l \in Kinds : /\ Distinct(linked'[l])
                            /\ \A p \in Listed(l)' : KindOf[p] = l
    BY <1>6, <2>1, HeadRemoved
  <2> HIDE DEF h
  <2>3. Used' = Used \union {h}
    BY <1>1, <2>1 DEF Used
  <2>4. h \notin Used /\ h \notin InHand
    BY <2>2 DEF IInv, PlacesAreApart
  <2>5. PlacesAreApart'
    <3>1. h \notin Range(batch) /\ h \notin Range(delivered)
      BY <2>4 DEF Used
    <3>2. QED
      BY <1>1, <1>2, <2>1, <2>2, <2>3, <2>4, <3>1 DEF IInv, PlacesAreApart
  <2>6. ListsAreSound'
    BY <1>1, <2>2 DEF IInv, ListsAreSound
  <2>7. TypeOK'
    BY <1>1, <2>1, <2>2 DEF IInv, TypeOK
  <2>8. (freed \subseteq Used)'
    BY <2>1, <2>3 DEF IInv
  <2>9. QED
    BY <1>3, <1>4, <2>5, <2>6, <2>7, <2>8 DEF IInv
<1>7. QED
  BY <1>5, <1>6

LEMMA RelinkInv ==
  ASSUME IInv, Relink
  PROVE  IInv'
<1>1. /\ linked' = [linked EXCEPT ![entry] = <<back>> \o @]
      /\ back' = NoPacket /\ io = "relink" /\ io' = "requeue"
      /\ UNCHANGED <<monitor, queries, mapped, cl, failures, entry, offset,
                     batch, session, sessions, reading, delivered, dropped,
                     freed, faulted, brim>>
  BY DEF Relink, clVars, clientVars, historyVars
<1>2. /\ back \in Packets /\ entry \in Kinds /\ KindOf[back] = entry
      /\ InHand = {back}
  BY <1>1 DEF IInv, TypeOK, FillStage, InHand
<1>3. back \notin OnLists /\ back \notin Used
  BY <1>2 DEF IInv, PlacesAreApart
<1>4. /\ linked' \in [Kinds -> Seq(Packets)]
      /\ OnLists' = OnLists \union {back}
      /\ \A l \in Kinds : /\ Distinct(linked'[l])
                          /\ \A p \in Listed(l)' : KindOf[p] = l
  BY <1>1, <1>2, <1>3, HeadInserted
<1>5. InHand' = {} /\ Used' = Used /\ Captured' = Captured
  BY <1>1 DEF InHand, Used, Captured
<1>6. PlacesAreApart'
  BY <1>1, <1>2, <1>3, <1>4, <1>5 DEF IInv, PlacesAreApart
<1>7. ListsAreSound'
  BY <1>1, <1>4 DEF IInv, ListsAreSound
<1>8. TypeOK'
  BY <1>1, <1>4 DEF IInv, TypeOK
<1>9. (freed \subseteq Used)' /\ FillStage'
  BY <1>1, <1>2, <1>5 DEF IInv, FillStage
<1>10. FillIsRead' /\ ByteIsFree'
  BY <1>1 DEF IInv, FillIsRead, ByteIsFree
<1>11. QED
  BY <1>6, <1>7, <1>8, <1>9, <1>10 DEF IInv

LEMMA StartFillInv ==
  ASSUME IInv, StartFill
  PROVE  IInv'
<1>1. /\ io = "idle" /\ reading /\ io' = "take" /\ offset' = 0
      /\ batch' = <<>> /\ brim' = FALSE
      /\ UNCHANGED <<monitor, linked, queries, mapped, cl, failures, entry,
                     back, session, sessions, reading, delivered, dropped,
                     freed, faulted>>
  BY DEF StartFill, capVars, clVars, clientVars
<1>2. batch' = batch
  BY <1>1 DEF IInv, FillStage
<1>3. /\ \A k \in Kinds : Listed(k)' = Listed(k)
      /\ OnLists' = OnLists /\ InHand' = InHand /\ Used' = Used
      /\ Captured' = Captured
  BY <1>1, <1>2 DEF Listed, OnLists, InHand, Used, Captured
<1>4. ListsAreSound' /\ PlacesAreApart' /\ (freed \subseteq Used)'
  BY <1>1, <1>2, <1>3 DEF IInv, ListsAreSound, PlacesAreApart
<1>5. TypeOK'
  BY <1>1, <1>2 DEF IInv, TypeOK
<1>6. FillStage' /\ FillIsRead'
  BY <1>1 DEF IInv, FillStage, FillIsRead
<1>7. 0 < BufferLength
  <2>1. \E k \in Kinds : RecordSize[k] \in Nat \ {0} /\ RecordSize[k] < BufferLength
    BY SizeAssumption DEF Kinds
  <2>2. QED
    BY <2>1, SizeAssumption
<1>8. ByteIsFree'
  BY <1>1, <1>7 DEF ByteIsFree
<1>9. QED
  BY <1>4, <1>5, <1>6, <1>8 DEF IInv

LEMMA AnswerReadInv ==
  ASSUME IInv, AnswerRead
  PROVE  IInv'
<1>1. /\ io = "answer" /\ delivered' = delivered \o batch
      /\ batch' = <<>> /\ offset' = 0 /\ reading' = FALSE /\ io' = "idle"
      /\ UNCHANGED <<monitor, linked, queries, mapped, cl, failures, entry,
                     back, session, sessions, dropped, freed, faulted, brim>>
  BY DEF AnswerRead, capVars, clVars
<1>2. batch \in Seq(Packets) /\ delivered \in Seq(Packets)
  BY DEF IInv, TypeOK
<1>3. /\ Distinct(batch) /\ Distinct(delivered)
      /\ Range(delivered) \intersect Range(batch) = {}
  BY DEF IInv, ListsAreSound, PlacesAreApart
<1>4. /\ delivered' \in Seq(Packets) /\ Distinct(delivered')
      /\ Range(delivered') = Range(delivered) \union Range(batch)
  BY <1>1, <1>2, <1>3, ConcatFacts
<1>5. batch' \in Seq(Packets) /\ Distinct(batch') /\ Range(batch') = {}
  <2>1. batch' \in Seq(Packets)
    BY <1>1
  <2>2. Range(batch') = {}
    BY <1>1, <2>1, RangeFacts
  <2>3. Distinct(<<>>)
    BY DEF Distinct
  <2>4. QED
    BY <1>1, <2>1, <2>2, <2>3
<1>6. Used' = Used
  BY <1>1, <1>4, <1>5 DEF Used
<1>7. /\ \A k \in Kinds : Listed(k)' = Listed(k)
      /\ OnLists' = OnLists /\ InHand' = InHand /\ Captured' = Captured
  BY <1>1 DEF Listed, OnLists, InHand, Captured
<1>8. PlacesAreApart'
  <2>1. Range(delivered)' \intersect dropped' = {}
    BY <1>1, <1>4 DEF IInv, PlacesAreApart
  <2>2. QED
    BY <1>1, <1>5, <1>6, <1>7, <2>1 DEF IInv, PlacesAreApart
<1>9. ListsAreSound'
  BY <1>1, <1>4, <1>5, <1>7 DEF IInv, ListsAreSound
<1>10. TypeOK'
  BY <1>1, <1>4, <1>5 DEF IInv, TypeOK
<1>11. (freed \subseteq Used)' /\ FillStage' /\ FillIsRead' /\ ByteIsFree'
  BY <1>1, <1>6 DEF IInv, FillStage, FillIsRead, ByteIsFree
<1>12. QED
  BY <1>8, <1>9, <1>10, <1>11 DEF IInv

-----------------------------------------------------------------------------
(* The pops. *)

(* The free space of a pop that has not run past the end. *)
LEMMA FitsIsExact ==
  ASSUME mapped, NEW off \in Nat, off < BufferLength, NEW k \in Kinds, Fits(k, off)
  PROVE  off + RecordSize[k] <= IF k = "flow" THEN BufferLength - 1
                                              ELSE BufferLength
<1>1. /\ BufferLength \in Nat /\ Wrap \in Nat /\ RecordSize[k] \in Nat
      /\ 2 * BufferLength < Wrap
  BY SizeAssumption
<1> DEFINE free == IF k = "flow" THEN BufferLength - off - 1
                                 ELSE BufferLength - off
<1>2. free \in Nat /\ free < Wrap
  BY <1>1
<1>3. free % Wrap >= RecordSize[k]
  BY DEF Fits, InUse
<1> HIDE DEF free
<1>4. free % Wrap = free
  BY <1>1, <1>2
<1>5. RecordSize[k] <= free
  BY <1>1, <1>2, <1>3, <1>4
<1>6. QED
  BY <1>1, <1>2, <1>5 DEF free

(* The flow pop copies no more flows than leave the last byte free, although
   each of its checks is taken modulo Wrap: the first that is false ends the
   pop before the subtraction can wrap. *)
LEMMA FlowsLeaveAByte ==
  ASSUME TypeOK, mapped, offset < BufferLength,
         NEW n \in Nat, \A m \in 0..(n - 1) : Fits("flow", offset + m * RecordSize["flow"])
  PROVE  offset + n * RecordSize["flow"] < BufferLength
<1> DEFINE size == RecordSize["flow"]
           room == BufferLength - offset - 1
<1>1. /\ BufferLength \in Nat /\ size \in Nat \ {0} /\ offset \in Nat
      /\ room \in Nat
  BY SizeAssumption DEF TypeOK, Kinds
<1>2. PICK q \in Nat, r \in 0..(size - 1) : room = q * size + r
  <2>1. /\ room = size * (room \div size) + (room % size)
        /\ room % size \in 0..(size - 1)
        /\ room \div size \in Nat
    BY <1>1
  <2>2. size * (room \div size) = (room \div size) * size
    BY <1>1, <2>1
  <2>3. QED
    BY <2>1, <2>2
<1>3. q * size \in Nat /\ q * size <= room
  BY <1>1, <1>2
<1>4. ~(q < n)
  <2>1. SUFFICES ASSUME q < n PROVE FALSE
    OBVIOUS
  <2>2. q \in 0..(n - 1)
    BY <2>1
  <2>3. Fits("flow", offset + q * size)
    BY <2>2
  <2>4. offset + q * size \in Nat /\ offset + q * size < BufferLength
    BY <1>1, <1>3
  <2>5. offset + q * size + size <= BufferLength - 1
    BY <2>3, <2>4, FitsIsExact DEF Kinds
  <2>6. q * size + size <= room
    BY <1>1, <1>3, <2>5
  <2>7. QED
    BY <1>1, <1>2, <1>3, <2>6
<1>5. n * size <= q * size
  <2>1. PICK x \in Nat : q = n + x
    <3>1. q = n + (q - n) /\ q - n \in Nat
      BY <1>4
    <3>2. QED
      BY <3>1
  <2>2. /\ (n + x) * size = n * size + x * size
        /\ x * size \in Nat /\ n * size \in Nat
    BY <1>1
  <2>3. QED
    BY <2>1, <2>2
<1>6. n * size \in Nat
  BY <1>1
<1>7. QED
  BY <1>1, <1>3, <1>5, <1>6

LEMMA FillIsMapped ==
  ASSUME IInv, io # "idle"
  PROVE  mapped /\ session = "running" /\ (offset < BufferLength \/ brim)
  BY DEF IInv, FillIsRead, ByteIsFree

LEMMA PopMacInv ==
  ASSUME IInv, PopMac
  PROVE  IInv'
<1> DEFINE h == Head(linked["mac"])
<1>1. /\ io = "pop" /\ entry = "mac" /\ linked["mac"] # <<>>
      /\ linked' = [linked EXCEPT !["mac"] = Tail(@)]
      /\ UNCHANGED <<monitor, queries, mapped, cl, failures, session, sessions,
                     reading, delivered, dropped, faulted>>
  BY DEF PopMac, clVars, clientVars
<1>2. \/ /\ Fits("mac", offset)
         /\ batch' = Append(batch, h)
         /\ offset' = offset + RecordSize["mac"]
         /\ brim' = (brim \/ offset' = InUse)
         /\ freed' = freed \union {h}
         /\ io' = "take" /\ entry' = "none" /\ back' = back
      \/ /\ back' = h /\ io' = "relink"
         /\ UNCHANGED <<batch, offset, freed, entry, brim>>
  BY DEF PopMac
<1>3. /\ linked' \in [Kinds -> Seq(Packets)]
      /\ h \in Packets /\ h \in OnLists /\ KindOf[h] = "mac"
      /\ OnLists' = OnLists \ {h}
      /\ \A l \in Kinds : /\ Distinct(linked'[l])
                          /\ \A p \in Listed(l)' : KindOf[p] = l
  BY <1>1, HeadRemoved DEF Kinds
<1> HIDE DEF h
<1>4. h \notin InHand /\ h \notin Used /\ h # NoPacket
  BY <1>3, NoPacketAssumption DEF IInv, PlacesAreApart
<1>5. back = NoPacket /\ InHand = {} /\ Captured' = Captured
  BY <1>1 DEF IInv, FillStage, InHand, Captured
<1>6. batch \in Seq(Packets) /\ Distinct(batch) /\ h \notin Range(batch)
  BY <1>4 DEF IInv, TypeOK, ListsAreSound, Used
<1>7. FillIsRead'
  <2>1. reading
    BY <1>1 DEF IInv, FillIsRead
  <2>2. QED
    BY <1>1, <2>1 DEF IInv, FillIsRead
<1>8. ASSUME Fits("mac", offset), batch' = Append(batch, h),
             offset' = offset + RecordSize["mac"],
             brim' = (brim \/ offset' = InUse), freed' = freed \union {h},
             io' = "take", entry' = "none", back' = back
      PROVE  IInv'
  <2>1. /\ batch' \in Seq(Packets) /\ Distinct(batch')
        /\ Range(batch') = Range(batch) \union {h}
    BY <1>3, <1>6, <1>8, AppendFacts
  <2>2. Used' = Used \union {h} /\ InHand' = {}
    BY <1>1, <1>5, <1>8, <2>1 DEF Used, InHand
  <2>3. PlacesAreApart'
    <3>1. h \notin Range(delivered) /\ h \notin dropped
      BY <1>4 DEF Used
    <3>2. QED
      BY <1>1, <1>3, <1>5, <2>1, <2>2, <3>1 DEF IInv, PlacesAreApart
  <2>4. ListsAreSound'
    BY <1>1, <1>3, <2>1 DEF IInv, ListsAreSound
  <2>5. offset \in Nat /\ RecordSize["mac"] \in Nat /\ offset' \in Nat
    BY <1>8, SizeAssumption DEF IInv, TypeOK, Kinds
  <2>6. brim' \in BOOLEAN /\ (brim => brim') /\ (offset' = InUse => brim')
    BY <1>8 DEF IInv, TypeOK
  <2>7. TypeOK'
    BY <1>1, <1>3, <1>8, <2>1, <2>5, <2>6 DEF IInv, TypeOK
  <2>8. offset' < BufferLength \/ brim'
    <3>1. mapped /\ (offset < BufferLength \/ brim) /\ InUse = BufferLength
      BY <1>1, FillIsMapped DEF InUse
    <3>2. CASE offset < BufferLength
      <4>1. offset' <= BufferLength
        BY <1>8, <2>5, <3>1, <3>2, FitsIsExact DEF Kinds
      <4>2. offset' < BufferLength \/ offset' = BufferLength
        BY <2>5, <4>1, SizeAssumption
      <4>3. QED
        BY <2>6, <3>1, <4>2
    <3>3. QED
      BY <2>6, <3>1, <3>2
  <2>9. (freed \subseteq Used)' /\ FillStage' /\ ByteIsFree'
    BY <1>5, <1>8, <2>2, <2>8 DEF IInv, FillStage, ByteIsFree
  <2>10. QED
    BY <1>7, <2>3, <2>4, <2>7, <2>9 DEF IInv
<1>9. ASSUME back' = h, io' = "relink",
             UNCHANGED <<batch, offset, freed, entry, brim>>
      PROVE  IInv'
  <2>1. Used' = Used /\ InHand' = {h}
    BY <1>1, <1>4, <1>9 DEF Used, InHand
  <2>2. PlacesAreApart'
    BY <1>1, <1>3, <1>4, <1>5, <1>9, <2>1 DEF IInv, PlacesAreApart
  <2>3. ListsAreSound'
    BY <1>1, <1>3, <1>9 DEF IInv, ListsAreSound
  <2>4. TypeOK'
    BY <1>1, <1>3, <1>9 DEF IInv, TypeOK
  <2>5. (freed \subseteq Used)' /\ FillStage' /\ ByteIsFree'
    BY <1>1, <1>3, <1>4, <1>9, <2>1 DEF IInv, FillStage, ByteIsFree
  <2>6. QED
    BY <1>7, <2>2, <2>3, <2>4, <2>5 DEF IInv
<1>10. QED
  BY <1>2, <1>8, <1>9

(* How the flow pop divides its list: n packets to the buffer, the next one,
   if there is one, in its hands, the others still on the list. *)
LEMMA FlowsDivide ==
  ASSUME NEW S, NEW s \in Seq(S), Distinct(s), NEW n \in 0..Len(s)
  PROVE  /\ n = Len(s) => Range(SubSeq(s, 1, n)) = Range(s)
         /\ n = Len(s) /\ s # <<>> => Last(s) \in Range(s)
         /\ n # Len(s) =>
              LET a == Range(SubSeq(s, 1, n))
                  b == Range(SubSeq(s, n + 2, Len(s)))
              IN  /\ s[n + 1] \in S
                  /\ Range(s) = a \union {s[n + 1]} \union b
                  /\ a \intersect b = {} /\ s[n + 1] \notin a \union b
                  /\ SubSeq(s, n + 2, Len(s)) \in Seq(S)
                  /\ Distinct(SubSeq(s, n + 2, Len(s)))
<1>1. /\ Len(s) \in Nat /\ n \in Nat /\ n <= Len(s)
      /\ Range(s) = {s[k] : k \in 1..Len(s)}
      /\ Range(SubSeq(s, 1, n)) = {s[k] : k \in 1..n}
  BY RangeFacts, PrefixFacts
<1>2. n = Len(s) => Range(SubSeq(s, 1, n)) = Range(s)
  BY <1>1
<1>3. s # <<>> => Last(s) \in Range(s)
  <2>1. s # <<>> => Len(s) \in 1..Len(s)
    BY <1>1, RangeFacts
  <2>2. QED
    BY <1>1, <2>1 DEF Last
<1>4. ASSUME n # Len(s)
      PROVE  LET a == Range(SubSeq(s, 1, n))
                 b == Range(SubSeq(s, n + 2, Len(s)))
             IN  /\ s[n + 1] \in S
                 /\ Range(s) = a \union {s[n + 1]} \union b
                 /\ a \intersect b = {} /\ s[n + 1] \notin a \union b
                 /\ SubSeq(s, n + 2, Len(s)) \in Seq(S)
                 /\ Distinct(SubSeq(s, n + 2, Len(s)))
  <2> DEFINE a == Range(SubSeq(s, 1, n))
             b == Range(SubSeq(s, n + 2, Len(s)))
  <2>1. /\ n + 2 \in 1..(Len(s) + 1) /\ n + 1 \in 1..Len(s)
    BY <1>1, <1>4
  <2>2. /\ b = {s[k] : k \in (n + 2)..Len(s)}
        /\ SubSeq(s, n + 2, Len(s)) \in Seq(S)
        /\ Distinct(SubSeq(s, n + 2, Len(s)))
    BY <2>1, SuffixFacts
  <2>3. a = {s[k] : k \in 1..n}
    BY <1>1
  <2> HIDE DEF a, b
  <2>4. /\ \A k \in 1..n : k \in 1..Len(s)
        /\ \A k \in (n + 2)..Len(s) : k \in 1..Len(s)
        /\ \A k \in 1..Len(s) : k \in 1..n \/ k = n + 1 \/ k \in (n + 2)..Len(s)
        /\ \A k \in 1..n : k # n + 1
        /\ \A k \in (n + 2)..Len(s) : k # n + 1
        /\ \A k \in 1..n : \A l \in (n + 2)..Len(s) : k # l
    BY <1>1
  <2>5. Range(s) = a \union {s[n + 1]} \union b
    <3>1. ASSUME NEW x \in Range(s) PROVE x \in a \union {s[n + 1]} \union b
      <4>1. PICK k \in 1..Len(s) : x = s[k]
        BY <1>1
      <4>2. QED
        BY <2>2, <2>3, <2>4, <4>1
    <3>2. a \subseteq Range(s)
      BY <1>1, <2>3, <2>4
    <3>3. b \subseteq Range(s)
      BY <1>1, <2>2, <2>4
    <3>4. s[n + 1] \in Range(s)
      BY <1>1, <2>1
    <3>5. QED
      BY <3>1, <3>2, <3>3, <3>4
  <2>6. \A k, l \in 1..Len(s) : k # l => s[k] # s[l]
    BY DEF Distinct
  <2>7. a \intersect b = {}
    BY <2>2, <2>3, <2>4, <2>6
  <2>8. s[n + 1] \notin a \union b
    BY <2>1, <2>2, <2>3, <2>4, <2>6
  <2>9. s[n + 1] \in S
    BY <2>1
  <2>10. QED
    BY <2>2, <2>5, <2>7, <2>8, <2>9 DEF a, b
<1>5. QED
  BY <1>2, <1>3, <1>4

LEMMA PopFlowInv ==
  ASSUME IInv, PopFlow
  PROVE  IInv'
<1> DEFINE flows == linked["flow"]
<1>1. /\ io = "pop" /\ entry = "flow"
      /\ UNCHANGED <<monitor, queries, mapped, cl, failures, session, sessions,
                     reading, delivered, dropped, faulted, brim>>
  BY DEF PopFlow, clVars, clientVars
<1>2. PICK n \in 0..Len(flows) :
        /\ CopiesFlows(n)
        /\ batch' = batch \o SubSeq(flows, 1, n)
        /\ offset' = offset + n * RecordSize["flow"]
        /\ IF n = Len(flows)
           THEN /\ linked' = [linked EXCEPT !["flow"] = <<>>]
                /\ freed' = IF flows = <<>> THEN freed
                                            ELSE freed \union {Last(flows)}
                /\ io' = "take" /\ entry' = "none"
                /\ UNCHANGED back
           ELSE /\ linked' = [linked EXCEPT !["flow"] =
                                SubSeq(flows, n + 2, Len(flows))]
                /\ back' = flows[n + 1]
                /\ io' = "relink"
                /\ UNCHANGED <<freed, entry>>
  BY DEF PopFlow
<1>3. /\ flows \in Seq(Packets) /\ Distinct(flows)
      /\ Range(flows) = Listed("flow")
      /\ "flow" \in Kinds /\ linked \in [Kinds -> Seq(Packets)]
  BY ListTypes DEF Kinds, IInv, TypeOK
<1> DEFINE out == SubSeq(flows, 1, n)
           kept == linked'["flow"]
<1>4. /\ out \in Seq(Packets) /\ Distinct(out)
      /\ n = Len(flows) => Range(out) = Range(flows)
      /\ n = Len(flows) /\ flows # <<>> => Last(flows) \in Range(flows)
  BY <1>3, PrefixFacts, FlowsDivide
<1>5. back = NoPacket /\ InHand = {} /\ Captured' = Captured
  BY <1>1 DEF IInv, FillStage, InHand, Captured
(* The list is out, what is in hand afterwards, and what is kept. *)
<1>6. /\ kept \in Seq(Packets) /\ Distinct(kept)
      /\ linked' = [linked EXCEPT !["flow"] = kept]
      /\ Range(flows) = Range(out) \union InHand' \union Range(kept)
      /\ Range(out) \intersect Range(kept) = {}
      /\ InHand' \intersect (Range(out) \union Range(kept)) = {}
      /\ back' \in Packets \union {NoPacket}
      /\ freed' \subseteq freed \union Range(out)
      /\ FillStage'
  <2>1. CASE n = Len(flows)
    <3>1. /\ linked' = [linked EXCEPT !["flow"] = <<>>]
          /\ back' = NoPacket /\ io' = "take" /\ entry' = "none"
          /\ freed' \subseteq freed \union Range(flows)
      BY <1>2, <1>4, <1>5, <2>1
    <3>2. kept = <<>> /\ linked' = [linked EXCEPT !["flow"] = kept]
      BY <1>3, <3>1
    <3>3. <<>> \in Seq(Packets) /\ Distinct(<<>>)
      BY DEF Distinct
    <3>4. Range(<<>>) = {}
      BY <3>3, RangeFacts
    <3>5. InHand' = {}
      BY <3>1 DEF InHand
    <3>6. FillStage'
      BY <3>1 DEF FillStage
    <3>7. QED
      BY <1>4, <2>1, <3>1, <3>2, <3>3, <3>4, <3>5, <3>6
  <2>2. CASE n # Len(flows)
    <3> DEFINE rest == SubSeq(flows, n + 2, Len(flows))
    <3>1. /\ linked' = [linked EXCEPT !["flow"] = rest]
          /\ back' = flows[n + 1] /\ io' = "relink"
          /\ UNCHANGED <<freed, entry>>
      BY <1>2, <2>2
    <3>2. /\ flows[n + 1] \in Packets
          /\ Range(flows) = Range(out) \union {flows[n + 1]} \union Range(rest)
          /\ Range(out) \intersect Range(rest) = {}
          /\ flows[n + 1] \notin Range(out) \union Range(rest)
          /\ rest \in Seq(Packets) /\ Distinct(rest)
      BY <1>3, <2>2, FlowsDivide
    <3> HIDE DEF rest
    <3>3. kept = rest /\ linked' = [linked EXCEPT !["flow"] = kept]
      BY <1>3, <3>1
    <3>4. InHand' = {flows[n + 1]} /\ back' # NoPacket
      BY <3>1, <3>2, NoPacketAssumption DEF InHand
    <3>5. KindOf[back'] = "flow"
      <4>1. flows[n + 1] \in Listed("flow")
        BY <1>3, <3>2
      <4>2. QED
        BY <1>3, <3>1, <4>1 DEF IInv, ListsAreSound
    <3>6. FillStage'
      BY <1>1, <3>1, <3>4, <3>5 DEF FillStage
    <3>7. QED
      BY <3>1, <3>2, <3>3, <3>4, <3>6
  <2>3. QED
    BY <2>1, <2>2
<1>7. /\ batch' = batch \o out
      /\ offset' = offset + n * RecordSize["flow"]
      /\ CopiesFlows(n) /\ n \in Nat
  BY <1>2
<1> HIDE DEF flows, out, kept
<1>8. /\ linked' \in [Kinds -> Seq(Packets)]
      /\ Listed("flow")' = Range(kept) /\ Listed("mac")' = Listed("mac")
      /\ \A l \in Kinds : l # "flow" => linked'[l] = linked[l]
  BY <1>3, <1>6 DEF Listed, Kinds, kept
<1>9. Range(flows) \intersect Used = {} /\ Range(flows) \intersect Listed("mac") = {}
  <2>1. Range(flows) \intersect Used = {}
    BY <1>3 DEF IInv, PlacesAreApart, OnLists
  <2>2. \A k \in Kinds : \A p \in Listed(k) : KindOf[p] = k
    BY DEF IInv, ListsAreSound
  <2>3. QED
    BY <1>3, <2>1, <2>2 DEF Kinds
<1>10. /\ batch' \in Seq(Packets) /\ Distinct(batch')
       /\ Range(batch') = Range(batch) \union Range(out)
  <2>1. batch \in Seq(Packets) /\ Distinct(batch)
    BY DEF IInv, TypeOK, ListsAreSound
  <2>2. Range(batch) \intersect Range(out) = {}
    BY <1>6, <1>9 DEF Used
  <2>3. QED
    BY <1>4, <1>7, <2>1, <2>2, ConcatFacts
<1>11. Used' = Used \union Range(out)
  BY <1>1, <1>10 DEF Used
<1>12. PlacesAreApart'
  <2>1. OnLists = Range(flows) \union Listed("mac")
    BY <1>3 DEF OnLists
  <2>2. OnLists' = Range(kept) \union Listed("mac")
    BY <1>8 DEF OnLists
  <2>3. Captured' = OnLists' \union InHand' \union Used'
    BY <1>5, <1>6, <1>11, <2>1, <2>2 DEF IInv, PlacesAreApart
  <2>4. /\ OnLists' \intersect (InHand' \union Used') = {}
        /\ InHand' \intersect Used' = {}
    BY <1>6, <1>9, <1>11, <2>1, <2>2 DEF IInv, PlacesAreApart
  <2>5. /\ Range(batch)' \intersect (Range(delivered)' \union dropped') = {}
        /\ Range(delivered)' \intersect dropped' = {}
    <3>1. Range(out) \intersect (Range(delivered) \union dropped) = {}
      BY <1>6, <1>9 DEF Used
    <3>2. QED
      BY <1>1, <1>10, <3>1 DEF IInv, PlacesAreApart
  <2>6. QED
    BY <2>3, <2>4, <2>5 DEF PlacesAreApart
<1>13. ListsAreSound'
  <2>1. \A l \in Kinds : Distinct(linked'[l])
    BY <1>6, <1>8 DEF IInv, ListsAreSound, kept
  <2>2. \A l \in Kinds : Listed(l)' \subseteq Listed(l)
    BY <1>3, <1>6, <1>8 DEF Kinds
  <2>3. \A l \in Kinds : \A p \in Listed(l)' : KindOf[p] = l
    BY <2>2 DEF IInv, ListsAreSound
  <2>4. Distinct(delivered')
    BY <1>1 DEF IInv, ListsAreSound
  <2>5. QED
    BY <1>10, <2>1, <2>3, <2>4 DEF ListsAreSound
<1>14. freed' \subseteq Used' /\ freed' \subseteq Packets
  <2>1. Range(out) \subseteq Packets
    BY <1>4, RangeFacts
  <2>2. QED
    BY <1>6, <1>11, <2>1 DEF IInv, TypeOK
<1>15. offset' \in Nat
  BY <1>7, SizeAssumption DEF IInv, TypeOK, Kinds
<1>16. /\ io' \in {"idle", "take", "pop", "relink", "requeue", "answer"}
       /\ entry' \in Kinds \union {"none"}
  BY <1>1, <1>2 DEF Kinds
<1>17. TypeOK'
  BY <1>1, <1>6, <1>8, <1>10, <1>14, <1>15, <1>16 DEF IInv, TypeOK
<1>18. FillIsRead'
  <2>1. reading
    BY <1>1 DEF IInv, FillIsRead
  <2>2. QED
    BY <1>1, <2>1 DEF IInv, FillIsRead
<1>19. ByteIsFree'
  <2>1. mapped /\ (offset < BufferLength \/ brim)
    BY <1>1, FillIsMapped
  <2>2. CASE offset < BufferLength
    <3>1. \A m \in 0..(n - 1) : Fits("flow", offset + m * RecordSize["flow"])
      BY <1>7 DEF CopiesFlows
    <3>2. offset' < BufferLength
      BY <1>7, <2>1, <2>2, <3>1, FlowsLeaveAByte DEF IInv
    <3>3. QED
      BY <3>2 DEF ByteIsFree
  <2>3. QED
    BY <1>1, <2>1, <2>2 DEF ByteIsFree
<1>20. QED
  BY <1>6, <1>12, <1>13, <1>14, <1>17, <1>18, <1>19 DEF IInv

LEMMA NextInv == IInv /\ [Next]_vars => IInv'
<1>1. SUFFICES ASSUME IInv, [Next]_vars PROVE IInv'
  OBVIOUS
<1>2. CASE Quiet
  BY <1>1, <1>2, QuietInv
<1>3. CASE Moves
  <2>1. "flow" \in Kinds /\ "mac" \in Kinds
    BY DEF Kinds
  <2>2. CASE CleanFlows
    BY <1>1, <2>1, <2>2, CleanInv DEF CleanFlows
  <2>3. CASE CleanMacs
    BY <1>1, <2>1, <2>3, CleanInv DEF CleanMacs
  <2>4. QED
    BY <1>1, <1>3, <2>2, <2>3, LinkInv, PopFlowInv, PopMacInv, RelinkInv,
       StartFillInv, AnswerReadInv DEF Moves
<1>4. CASE UNCHANGED vars
  <2>1. UNCHANGED <<monitor, linked, queries, mapped, cl, failures, io, entry,
                    offset, batch, back, session, sessions, reading, delivered,
                    dropped, freed, faulted, brim>>
    BY <1>4 DEF vars
  <2>2. /\ \A k \in Kinds : Listed(k)' = Listed(k)
        /\ OnLists' = OnLists /\ InHand' = InHand /\ Used' = Used
        /\ Captured' = Captured
    BY <2>1 DEF Listed, OnLists, InHand, Used, Captured
  <2>3. ListsAreSound' /\ PlacesAreApart' /\ (freed \subseteq Used)'
    BY <1>1, <2>1, <2>2 DEF IInv, ListsAreSound, PlacesAreApart
  <2>4. TypeOK' /\ FillStage' /\ FillIsRead' /\ ByteIsFree'
    BY <1>1, <2>1 DEF IInv, TypeOK, FillStage, FillIsRead, ByteIsFree
  <2>5. QED
    BY <2>3, <2>4 DEF IInv
<1>5. QED
  BY <1>1, <1>2, <1>3, <1>4, NextIsSplit

LEMMA Invariance == Spec => []IInv
  BY InitInv, NextInv, PTL DEF Spec

-----------------------------------------------------------------------------
(* Theorems.                                                               *)

(* Every variable keeps its type. *)
THEOREM TypeCorrect == Spec => []TypeOK
<1>1. IInv => TypeOK
  BY DEF IInv
<1>2. QED
  BY <1>1, Invariance, PTL

(* Memory a pop or a close gave back is on no list and in nobody's hands. *)
THEOREM FreedIsSafe == Spec => []FreedIsGone
<1>1. IInv => FreedIsGone
  <2>1. SUFFICES ASSUME IInv, NEW p \in freed
                 PROVE  /\ \A k \in Kinds : p \notin Listed(k)
                        /\ p # back
    BY DEF FreedIsGone
  <2>2. p \in Used /\ p \in Packets
    BY <2>1 DEF IInv, TypeOK
  <2>3. p \notin OnLists /\ p \notin InHand
    BY <2>1, <2>2 DEF IInv, PlacesAreApart
  <2>4. QED
    BY <2>2, <2>3, NoPacketAssumption DEF OnLists, InHand, Kinds
<1>2. QED
  BY <1>1, Invariance, PTL

(* A captured packet is in exactly one place: its list, the I/O thread's
   hands, the buffer, the client, or the ones a close threw away. *)
THEOREM NothingIsLost == Spec => []PacketIsSomewhere
<1>1. IInv => PacketIsSomewhere
  <2>1. SUFFICES ASSUME IInv, NEW p \in Packets, cl[p] \in {"linked", "queued"}
                 PROVE  Cardinality({w \in {"list", "back", "buffer", "client",
                                            "dropped"} :
                     \/ w = "list" /\ p \in Listed(KindOf[p])
                     \/ w = "back" /\ p = back
                     \/ w = "buffer" /\ p \in Range(batch)
                     \/ w = "client" /\ p \in Range(delivered)
                     \/ w = "dropped" /\ p \in dropped}) = 1
    BY DEF PacketIsSomewhere
  <2> DEFINE places == {w \in {"list", "back", "buffer", "client", "dropped"} :
                          \/ w = "list" /\ p \in Listed(KindOf[p])
                          \/ w = "back" /\ p = back
                          \/ w = "buffer" /\ p \in Range(batch)
                          \/ w = "client" /\ p \in Range(delivered)
                          \/ w = "dropped" /\ p \in dropped}
  <2>2. p \in OnLists \union InHand \union Used
    BY <2>1 DEF IInv, PlacesAreApart, Captured
  <2>3. p \in OnLists <=> p \in Listed(KindOf[p])
    <3>1. KindOf[p] \in Kinds
      BY KindAssumption
    <3>2. QED
      BY <2>1, <3>1 DEF IInv, ListsAreSound, OnLists, Kinds
  <2>4. p \in InHand <=> p = back
    BY NoPacketAssumption DEF InHand
  <2>5. /\ p \in OnLists => p \notin InHand /\ p \notin Used
        /\ p \in InHand => p \notin Used
        /\ p \in Range(batch) => p \notin Range(delivered) /\ p \notin dropped
        /\ p \in Range(delivered) => p \notin dropped
    BY <2>1 DEF IInv, PlacesAreApart
  <2>6. p \in Used <=> p \in Range(batch) \/ p \in Range(delivered) \/ p \in dropped
    BY DEF Used
  <2>7. CASE p \in OnLists
    <3>1. places = {"list"}
      BY <2>3, <2>4, <2>5, <2>6, <2>7
    <3>2. QED
      BY <3>1, FS_Singleton
  <2>8. CASE p \in InHand
    <3>1. places = {"back"}
      BY <2>3, <2>4, <2>5, <2>6, <2>8
    <3>2. QED
      BY <3>1, FS_Singleton
  <2>9. CASE p \in Range(batch)
    <3>1. places = {"buffer"}
      BY <2>3, <2>4, <2>5, <2>6, <2>9
    <3>2. QED
      BY <3>1, FS_Singleton
  <2>10. CASE p \in Range(delivered)
    <3>1. places = {"client"}
      BY <2>3, <2>4, <2>5, <2>6, <2>10
    <3>2. QED
      BY <3>1, FS_Singleton
  <2>11. CASE p \in dropped
    <3>1. places = {"dropped"}
      BY <2>3, <2>4, <2>5, <2>6, <2>11
    <3>2. QED
      BY <3>1, FS_Singleton
  <2>12. QED
    BY <2>2, <2>6, <2>7, <2>8, <2>9, <2>10, <2>11
<1>2. QED
  BY <1>1, Invariance, PTL

(* A fill writes to a mapped buffer and, unless a frame filled it to its last
   byte before, never past its end. *)
THEOREM BufferIsBounded == Spec => []WritesInBounds
<1>1. IInv => WritesInBounds
  <2>1. SUFFICES ASSUME IInv, batch # <<>>
                 PROVE  mapped /\ (offset <= BufferLength \/ brim)
    BY DEF WritesInBounds
  <2>2. mapped /\ (offset < BufferLength \/ brim)
    BY <2>1, FillIsMapped DEF IInv, FillStage
  <2>3. offset < BufferLength => offset <= BufferLength
    BY <2>1, SizeAssumption DEF IInv, TypeOK
  <2>4. QED
    BY <2>2, <2>3
<1>2. QED
  BY <1>1, Invariance, PTL

(* The build that callouts.c:868-884 leaves registers no callout on the MAC
   layers, so every packet is a flow: then no wrap of the pops' unsigned "- 1"
   can happen, and a batch leaves the last byte of the buffer free. *)
LeavesAByte == batch # <<>> => mapped /\ offset < BufferLength

(* Without frames nothing fills the buffer to the brim. *)
LEMMA NoBrim ==
  ASSUME \A p \in Packets : KindOf[p] = "flow",
         IInv, ~brim, [Next]_vars
  PROVE  ~brim'
<1>1. ~PopMac
  <2>1. linked["mac"] # <<>> => \E p \in Packets : p \in Listed("mac")
    <3>1. linked["mac"] \in Seq(Packets)
      BY DEF IInv, TypeOK, Kinds
    <3>2. QED
      BY <3>1, RangeFacts DEF Listed
  <2>2. Listed("mac") \intersect Packets = {}
    BY DEF IInv, ListsAreSound, Kinds
  <2>3. QED
    BY <2>1, <2>2 DEF PopMac
<1>2. CASE Quiet
  BY <1>2, QuietPlaces
<1>3. CASE Moves /\ ~PopMac
  BY <1>3 DEF Moves, LinkPacket, PopFlow, Relink, StartFill, AnswerRead,
     CleanFlows, CleanMacs, CleanPackets, historyVars
<1>4. CASE UNCHANGED vars
  BY <1>4 DEF vars
<1>5. QED
  BY <1>1, <1>2, <1>3, <1>4, NextIsSplit

(* However many flows are captured and whatever their record's size: the   *)
(* I/O thread writes below the last byte of a buffer that is mapped.       *)
THEOREM FlowsAreBounded ==
  ASSUME \A p \in Packets : KindOf[p] = "flow"
  PROVE  Spec => []LeavesAByte
<1> DEFINE BInv == ~brim
<1>1. Init => BInv
  BY DEF Init
<1>2. IInv /\ BInv /\ [Next]_vars => BInv'
  BY NoBrim
<1>3. IInv /\ BInv => LeavesAByte
  BY FillIsMapped DEF IInv, FillStage, LeavesAByte
<1> HIDE DEF BInv
<1>4. QED
  BY <1>1, <1>2, <1>3, InitInv, NextInv, PTL DEF Spec

-----------------------------------------------------------------------------
(* The queries.                                                            *)

(* The classify calls that have linked a packet and not yet pushed its query. *)
Pushing(k) == {p \in Packets : KindOf[p] = k /\ cl[p] = "linked"}

(* The parts of QueriesFor. *)
Queued(k) == Cardinality(Occurrences(queries, k))
Taken(k)  == IF entry = k THEN 1 ELSE 0

(* Calls link one at a time, so there are never infinitely many of them. *)
FewPushing == \A k \in Kinds : IsFiniteSet(Pushing(k))

QueriesInv == FewPushing /\ PacketsHaveQueries

(* A kind's queries are on the list, in hand, or about to be pushed. *)
LEMMA SupplyParts ==
  ASSUME NEW k \in Kinds
  PROVE  /\ QueriesFor(k) = Queued(k) + Taken(k) + Cardinality(Pushing(k))
         /\ QueriesFor(k)' = Queued(k)' + Taken(k)' + Cardinality(Pushing(k)')
BY DEF QueriesFor, Queued, Occurrences, Taken, Pushing

LEMMA SupplyTypes ==
  ASSUME IInv, FewPushing, NEW k \in Kinds
  PROVE  /\ Queued(k) \in Nat /\ Taken(k) \in Nat
         /\ Cardinality(Pushing(k)) \in Nat
<1>1. queries \in Seq(Kinds)
  BY DEF IInv, TypeOK
<1>2. Queued(k) \in Nat
  BY <1>1, OccurrencesFacts DEF Queued
<1>3. QED
  BY <1>2, FS_CardinalityType DEF FewPushing, Taken

(* A step that moves no packet moves queries among the three, or faults. *)
LEMMA QuietSupply ==
  ASSUME IInv, FewPushing, Quiet, NEW k \in Kinds
  PROVE  /\ IsFiniteSet(Pushing(k))'
         /\ faulted' = FALSE => QueriesFor(k)' = QueriesFor(k)
<1>0. /\ queries \in Seq(Kinds) /\ KindOf \in [Packets -> Kinds]
      /\ IsFiniteSet(Pushing(k))
  BY KindAssumption DEF IInv, TypeOK, FewPushing
<1>1. CASE UNCHANGED <<queries, entry>> /\ Pushing(k)' = Pushing(k)
  BY <1>0, <1>1, SupplyParts DEF QueriesFor, Pushing
<1>2. ASSUME NEW p \in Packets, PushQuery(p)
      PROVE  /\ IsFiniteSet(Pushing(k))'
             /\ QueriesFor(k)' = QueriesFor(k)
  <2>1. Pushing(k)' = Pushing(k) \ {p} /\ (p \in Pushing(k) <=> KindOf[p] = k)
    BY <1>2 DEF PushQuery, Pushing, IInv, TypeOK
  <2>2. /\ IsFiniteSet(Pushing(k) \ {p})
        /\ Cardinality(Pushing(k) \ {p})
             = Cardinality(Pushing(k)) - (IF KindOf[p] = k THEN 1 ELSE 0)
    BY <1>0, <2>1, FS_RemoveElement, FS_CardinalityType
  <2>3. Queued(k)' = Queued(k) + (IF KindOf[p] = k THEN 1 ELSE 0)
    BY <1>0, <1>2, OccurrencesFacts DEF PushQuery, Queued
  <2>4. Taken(k)' = Taken(k)
    BY <1>2 DEF PushQuery, ioVars, Taken
  <2>5. QueriesFor(k)' = Queued(k)' + Taken(k)' + Cardinality(Pushing(k)')
    BY SupplyParts
  <2>6. QED
    BY <2>1, <2>2, <2>3, <2>4, <2>5, SupplyParts, SupplyTypes
<1>3. CASE TakeQuery
  <2>1. /\ Pushing(k)' = Pushing(k)
        /\ entry = "none"
    BY <1>3 DEF TakeQuery, clVars, Pushing, IInv, FillStage
  <2>2. /\ Tail(queries) \in Seq(Kinds) /\ Head(queries) \in Kinds
        /\ queries = <<Head(queries)>> \o Tail(queries)
    BY <1>0, <1>3, SMTT(30) DEF TakeQuery
  <2>3. Queued(k) = Queued(k)' + (IF entry' = k THEN 1 ELSE 0)
    <3>1. ASSUME NEW h \in Kinds, NEW t \in Seq(Kinds)
          PROVE  Cardinality(Occurrences(<<h>> \o t, k))
                   = Cardinality(Occurrences(t, k)) + (IF h = k THEN 1 ELSE 0)
      BY OccurrencesFacts
    <3>2. queries' = Tail(queries) /\ entry' = Head(queries)
      BY <1>3 DEF TakeQuery
    <3>3. QED
      BY <2>2, <3>1, <3>2 DEF Queued
  <2>4. Taken(k) = 0 /\ Taken(k)' = IF entry' = k THEN 1 ELSE 0
    BY <2>1 DEF Taken, Kinds
  <2>5. QueriesFor(k)' = Queued(k)' + Taken(k)' + Cardinality(Pushing(k)')
    BY SupplyParts
  <2>6. Queued(k)' \in Nat
    BY <1>3, <2>2, OccurrencesFacts DEF TakeQuery, Queued
  <2>7. QED
    BY <1>0, <2>1, <2>3, <2>4, <2>5, <2>6, SupplyParts, SupplyTypes
<1>4. CASE Requeue
  <2>1. /\ Pushing(k)' = Pushing(k)
        /\ entry \in Kinds /\ entry' = "none"
    BY <1>4 DEF Requeue, clVars, Pushing, IInv, TypeOK, FillStage
  <2>2. Queued(k)' = Queued(k) + (IF entry = k THEN 1 ELSE 0)
    BY <1>0, <1>4, <2>1, OccurrencesFacts DEF Requeue, Queued
  <2>3. Taken(k)' = 0 /\ Taken(k) = IF entry = k THEN 1 ELSE 0
    BY <2>1 DEF Taken, Kinds
  <2>4. QueriesFor(k)' = Queued(k)' + Taken(k)' + Cardinality(Pushing(k)')
    BY SupplyParts
  <2>5. QED
    BY <1>0, <2>1, <2>2, <2>3, <2>4, SupplyParts, SupplyTypes
<1>5. ASSUME NEW p \in Packets, PushQueryFails(p)
      PROVE  IsFiniteSet(Pushing(k))' /\ faulted' = TRUE
  <2>1. Pushing(k)' = Pushing(k) \ {p}
    BY <1>5 DEF PushQueryFails, Pushing, IInv, TypeOK
  <2>2. QED
    BY <1>0, <1>5, <2>1, FS_RemoveElement DEF PushQueryFails
<1>6. ASSUME NEW p \in Packets, Classify(p) \/ CaptureFails(p)
      PROVE  UNCHANGED <<queries, entry>> /\ Pushing(k)' = Pushing(k)
  BY <1>6 DEF Classify, CaptureFails, capVars, ioVars, Pushing, IInv, TypeOK
<1>7. CASE CleanQueries
  <2>1. Pushing(k)' = Pushing(k) /\ entry' = entry
    BY <1>7 DEF CleanQueries, clVars, ioVars, Pushing
  <2>2. faulted' = FALSE => queries' = queries
    BY <1>7 DEF CleanQueries
  <2>3. QED
    BY <1>0, <2>1, <2>2 DEF QueriesFor, Pushing
<1>8. CASE \/ PopMacEmpty \/ FillDone \/ ReadFails
           \/ Open \/ OpenMem \/ OpenMemFails \/ Read \/ CancelRead \/ Close
           \/ \E flag \in {0, 1} : SetMonitor(flag)
  <2>1. UNCHANGED <<queries, entry, cl>>
    BY <1>8 DEF PopMacEmpty, FillDone, ReadFails, Open, OpenMem, OpenMemFails,
       Read, CancelRead, Close, SetMonitor, capVars, clVars, ioVars
  <2>2. QED
    BY <1>1, <2>1 DEF Pushing
<1>9. QED
  BY <1>1, <1>2, <1>3, <1>4, <1>5, <1>6, <1>7, <1>8 DEF Quiet

(* The packet of kind k that the I/O thread is about to relink. *)
InBack(k) == IF back # NoPacket /\ KindOf[back] = k THEN 1 ELSE 0

(* What PacketsHaveQueries demands of flows and of frames. *)
FlowsAreServed == linked["flow"] # <<>> \/ InBack("flow") = 1
                    => QueriesFor("flow") > 0
MacsAreServed  == QueriesFor("mac") >= Len(linked["mac"]) + InBack("mac")

LEMMA DemandParts ==
  /\ PacketsHaveQueries <=> (~faulted => FlowsAreServed /\ MacsAreServed)
  /\ PacketsHaveQueries' <=> (~faulted' => FlowsAreServed' /\ MacsAreServed')
<1> DEFINE held(k) == back # NoPacket /\ KindOf[back] = k
<1>1. \A k : InBack(k) = 1 <=> held(k)
  BY DEF InBack
<1>2. \A k : InBack(k)' = 1 <=> held(k)'
  BY DEF InBack
<1>3. InBack("mac") = IF held("mac") THEN 1 ELSE 0
  BY DEF InBack
<1>4. InBack("mac")' = IF held("mac")' THEN 1 ELSE 0
  BY DEF InBack
<1>5. QED
  BY <1>1, <1>2, <1>3, <1>4
     DEF PacketsHaveQueries, FlowsAreServed, MacsAreServed

(* The call that links a packet is a query for it from then on. *)
LEMMA LinkSupply ==
  ASSUME IInv, FewPushing, NEW p \in Packets, LinkPacket(p), NEW k \in Kinds
  PROVE  /\ IsFiniteSet(Pushing(k)')
         /\ QueriesFor(k) \in Nat
         /\ QueriesFor(k)' = QueriesFor(k) + (IF k = KindOf[p] THEN 1 ELSE 0)
         /\ Len(linked[k]) \in Nat
         /\ Len(linked[k]') = Len(linked[k])
                               + (IF k = KindOf[p] THEN 1 ELSE 0)
         /\ k # KindOf[p] => linked[k]' = linked[k]
<1>0. /\ queries \in Seq(Kinds) /\ KindOf[p] \in Kinds
      /\ linked \in [Kinds -> Seq(Packets)]
  BY KindAssumption DEF IInv, TypeOK
<1>1. /\ k = KindOf[p] => Pushing(k)' = Pushing(k) \union {p}
      /\ k # KindOf[p] => Pushing(k)' = Pushing(k)
      /\ p \notin Pushing(k)
  BY DEF LinkPacket, Pushing, IInv, TypeOK
<1>2. IsFiniteSet(Pushing(k)) /\ Cardinality(Pushing(k)) \in Nat
  BY SupplyTypes DEF FewPushing
<1>3. /\ IsFiniteSet(Pushing(k) \union {p})
      /\ Cardinality(Pushing(k) \union {p}) = Cardinality(Pushing(k)) + 1
  BY <1>1, <1>2, FS_AddElement
<1>4. /\ IsFiniteSet(Pushing(k)')
      /\ Cardinality(Pushing(k)') = Cardinality(Pushing(k))
                                      + (IF k = KindOf[p] THEN 1 ELSE 0)
  BY <1>1, <1>2, <1>3
<1>5. Queued(k)' = Queued(k) /\ Taken(k)' = Taken(k)
  BY DEF LinkPacket, ioVars, Queued, Taken
<1>6. /\ QueriesFor(k) = Queued(k) + Taken(k) + Cardinality(Pushing(k))
      /\ QueriesFor(k)' = Queued(k)' + Taken(k)' + Cardinality(Pushing(k)')
  BY SupplyParts
<1>7. Queued(k) \in Nat /\ Taken(k) \in Nat
  BY SupplyTypes
<1>8. linked[k] \in Seq(Packets) /\ Len(<<p>> \o linked[k]) = Len(linked[k]) + 1
  BY <1>0
<1>9. /\ Len(linked[k]) \in Nat
      /\ Len(linked[k]') = Len(linked[k]) + (IF k = KindOf[p] THEN 1 ELSE 0)
      /\ k # KindOf[p] => linked[k]' = linked[k]
  BY <1>0, <1>8 DEF LinkPacket
<1>10. QED
  BY <1>2, <1>4, <1>5, <1>6, <1>7, <1>9

(* A packet is linked by a call that is about to push its query. *)
LEMMA LinkQueries ==
  ASSUME IInv, QueriesInv, NEW p \in Packets, LinkPacket(p)
  PROVE  QueriesInv'
<1>0. /\ KindOf[p] \in Kinds /\ FewPushing
      /\ linked \in [Kinds -> Seq(Packets)]
      /\ "flow" \in Kinds /\ "mac" \in Kinds
  BY KindAssumption DEF IInv, TypeOK, QueriesInv, Kinds
<1>2. ASSUME NEW k \in Kinds
      PROVE  /\ IsFiniteSet(Pushing(k)')
             /\ QueriesFor(k) \in Nat
             /\ QueriesFor(k)' = QueriesFor(k)
                                    + (IF k = KindOf[p] THEN 1 ELSE 0)
  BY <1>0, LinkSupply
<1>3. ASSUME NEW k \in Kinds
      PROVE  /\ Len(linked[k]) \in Nat
             /\ Len(linked[k]') = Len(linked[k])
                                   + (IF k = KindOf[p] THEN 1 ELSE 0)
             /\ k # KindOf[p] => linked[k]' = linked[k]
  BY <1>0, LinkSupply
<1>4. /\ faulted' = faulted
      /\ \A k \in Kinds : InBack(k)' = InBack(k) /\ InBack(k) \in Nat
  BY DEF LinkPacket, ioVars, historyVars, InBack
<1>5. SUFFICES ASSUME ~faulted' PROVE FlowsAreServed' /\ MacsAreServed'
  BY <1>2, DemandParts DEF QueriesInv, FewPushing
<1>6. FlowsAreServed /\ MacsAreServed
  BY <1>4, <1>5, DemandParts DEF QueriesInv
<1>7. MacsAreServed'
  <2> DEFINE one == IF "mac" = KindOf[p] THEN 1 ELSE 0
  <2>1. /\ QueriesFor("mac")' = QueriesFor("mac") + one
        /\ Len(linked["mac"]') = Len(linked["mac"]) + one
        /\ InBack("mac")' = InBack("mac")
        /\ QueriesFor("mac") \in Nat /\ Len(linked["mac"]) \in Nat
        /\ InBack("mac") \in Nat /\ one \in Nat
    BY <1>0, <1>2, <1>3, <1>4
  <2>2. QueriesFor("mac") >= Len(linked["mac"]) + InBack("mac")
    BY <1>6 DEF MacsAreServed
  <2> HIDE DEF one
  <2>3. QueriesFor("mac")' >= Len(linked["mac"]') + InBack("mac")'
    BY <2>1, <2>2
  <2>4. QED
    BY <2>3 DEF MacsAreServed
<1>8. FlowsAreServed'
  <2>1. CASE KindOf[p] = "flow"
    BY <1>0, <1>2, <2>1 DEF FlowsAreServed
  <2>2. CASE KindOf[p] # "flow"
    BY <1>0, <1>2, <1>3, <1>4, <1>6, <2>2 DEF FlowsAreServed
  <2>3. QED
    BY <2>1, <2>2
<1>9. QED
  BY <1>7, <1>8

(* A pop lets the query it took go, or holds on to it. *)
LEMMA PopSupply ==
  ASSUME IInv, FewPushing, PopFlow \/ PopMac \/ Relink, NEW k \in Kinds
  PROVE  /\ Pushing(k)' = Pushing(k)
         /\ QueriesFor(k)' = QueriesFor(k) - Taken(k) + Taken(k)'
         /\ QueriesFor(k) \in Nat /\ QueriesFor(k) >= Taken(k)
         /\ Taken(k) \in Nat /\ Taken(k)' \in Nat
         /\ Len(linked[k]) \in Nat
         /\ InBack(k) \in Nat
<1>1. Pushing(k)' = Pushing(k) /\ Queued(k)' = Queued(k)
  BY DEF PopFlow, PopMac, Relink, clVars, Pushing, Queued
<1>2. Taken(k)' \in Nat /\ InBack(k) \in Nat
  BY DEF Taken, InBack
<1>3. /\ QueriesFor(k) = Queued(k) + Taken(k) + Cardinality(Pushing(k))
      /\ QueriesFor(k)' = Queued(k)' + Taken(k)' + Cardinality(Pushing(k)')
  BY SupplyParts
<1>4. /\ Queued(k) \in Nat /\ Taken(k) \in Nat
      /\ Cardinality(Pushing(k)) \in Nat
  BY SupplyTypes
<1>5. Len(linked[k]) \in Nat
  BY DEF IInv, TypeOK
<1>6. QED
  BY <1>1, <1>2, <1>3, <1>4, <1>5

(* The flow pop leaves frames alone, and their queries. *)
LEMMA PopFlowSupply ==
  ASSUME IInv, PopFlow
  PROVE  /\ linked["mac"]' = linked["mac"]
         /\ Taken("flow") = 1 /\ Taken("mac") = 0 /\ Taken("mac")' = 0
         /\ InBack("mac") = 0 /\ InBack("mac")' = 0
         /\ \/ linked["flow"]' = <<>> /\ InBack("flow")' = 0
            \/ Taken("flow")' = 1
<1>0. /\ linked \in [Kinds -> Seq(Packets)]
      /\ "flow" \in Kinds /\ "mac" \in Kinds
  BY DEF IInv, TypeOK, Kinds
<1>1. FillStage'
  BY PopFlowInv DEF IInv
<1>2. /\ entry = "flow" /\ back = NoPacket
      /\ \/ /\ linked' = [linked EXCEPT !["flow"] = <<>>]
            /\ back' = back /\ entry' = "none"
         \/ /\ \E s : linked' = [linked EXCEPT !["flow"] = s]
            /\ io' = "relink" /\ entry' = entry
  BY DEF PopFlow, IInv, FillStage
<1>3. /\ \/ linked["flow"]' = <<>> /\ back' = NoPacket /\ entry' = "none"
         \/ entry' = "flow" /\ KindOf[back'] = "flow"
      /\ linked["mac"]' = linked["mac"]
  BY <1>0, <1>1, <1>2 DEF FillStage
<1>4. QED
  BY <1>2, <1>3 DEF Taken, InBack

(* The frame pop takes one frame and one query, or holds both. *)
LEMMA PopMacSupply ==
  ASSUME IInv, PopMac
  PROVE  /\ linked["flow"]' = linked["flow"]
         /\ Len(linked["mac"]) \in Nat
         /\ Len(linked["mac"]') = Len(linked["mac"]) - 1
         /\ Taken("mac") = 1 /\ Taken("flow") = 0 /\ Taken("flow")' = 0
         /\ InBack("mac") = 0 /\ InBack("flow") = 0 /\ InBack("flow")' = 0
         /\ \/ Taken("mac")' = 0 /\ InBack("mac")' = 0
            \/ Taken("mac")' = 1 /\ InBack("mac")' = 1
<1>0. /\ linked \in [Kinds -> Seq(Packets)]
      /\ "flow" \in Kinds /\ "mac" \in Kinds
  BY DEF IInv, TypeOK, Kinds
<1>1. FillStage'
  BY PopMacInv DEF IInv
<1>2. /\ linked["mac"] # <<>> /\ linked["mac"]' = Tail(linked["mac"])
      /\ linked["flow"]' = linked["flow"]
  BY <1>0 DEF PopMac
<1>3. /\ Len(linked["mac"]') = Len(linked["mac"]) - 1
      /\ Len(linked["mac"]) \in Nat
  BY <1>0, <1>2
<1>4. /\ entry = "mac" /\ back = NoPacket
      /\ \/ back' = NoPacket /\ entry' = "none"
         \/ entry' = "mac" /\ io' = "relink"
  BY DEF PopMac, IInv, FillStage
<1>5. QED
  BY <1>1, <1>2, <1>3, <1>4 DEF Taken, InBack, FillStage

(* The packet that goes back is no longer in hand; its query is. *)
LEMMA RelinkSupply ==
  ASSUME IInv, Relink, NEW k \in Kinds
  PROVE  /\ Taken(k)' = Taken(k) /\ InBack(k)' = 0
         /\ Len(linked[k]) \in Nat
         /\ Len(linked[k]') = Len(linked[k]) + InBack(k)
         /\ k # entry => linked[k]' = linked[k]
         /\ k = entry => Taken(k) = 1
<1>0. linked \in [Kinds -> Seq(Packets)]
  BY DEF IInv, TypeOK
<1>1. /\ entry \in Kinds /\ KindOf[back] = entry /\ back # NoPacket
      /\ back \in Packets /\ back' = NoPacket /\ entry' = entry
      /\ linked' = [linked EXCEPT ![entry] = <<back>> \o @]
  BY DEF Relink, IInv, TypeOK, FillStage
<1>2. /\ Len(<<back>> \o linked[entry]) = Len(linked[entry]) + 1
      /\ linked[entry] \in Seq(Packets)
  BY <1>0, <1>1
<1>3. QED
  BY <1>0, <1>1, <1>2 DEF Taken, InBack

(* A pop that took a packet's query either took the packet, or holds both. *)
LEMMA PopQueries ==
  ASSUME IInv, QueriesInv, PopFlow \/ PopMac \/ Relink
  PROVE  QueriesInv'
<1>0. /\ FewPushing /\ linked \in [Kinds -> Seq(Packets)]
      /\ "flow" \in Kinds /\ "mac" \in Kinds
  BY DEF IInv, TypeOK, QueriesInv, Kinds
<1>2. FewPushing'
  BY <1>0, PopSupply DEF FewPushing
<1>3. ASSUME NEW k \in Kinds
      PROVE  /\ QueriesFor(k)' = QueriesFor(k) - Taken(k) + Taken(k)'
             /\ QueriesFor(k) \in Nat /\ QueriesFor(k) >= Taken(k)
             /\ Taken(k) \in Nat /\ Taken(k)' \in Nat
             /\ Len(linked[k]) \in Nat
             /\ InBack(k) \in Nat
  BY <1>0, PopSupply
<1>4. faulted' = faulted
  BY DEF PopFlow, PopMac, Relink, historyVars
<1>5. SUFFICES ASSUME ~faulted' PROVE FlowsAreServed' /\ MacsAreServed'
  BY <1>2, DemandParts DEF QueriesInv
<1>6. FlowsAreServed /\ MacsAreServed
  BY <1>4, <1>5, DemandParts DEF QueriesInv
<1>7. CASE PopFlow
  <2>1. MacsAreServed'
    <3>1. QueriesFor("mac")' = QueriesFor("mac")
      BY <1>0, <1>3, <1>7, PopFlowSupply
    <3>2. QED
      BY <1>6, <1>7, <3>1, PopFlowSupply DEF MacsAreServed
  <2>2. FlowsAreServed'
    <3>1. Taken("flow")' = 1 => QueriesFor("flow")' > 0
      BY <1>0, <1>3, <1>7, PopFlowSupply
    <3>2. QED
      BY <1>7, <3>1, PopFlowSupply DEF FlowsAreServed
  <2>3. QED
    BY <2>1, <2>2
<1>8. CASE PopMac
  BY <1>0, <1>3, <1>6, <1>8, PopMacSupply DEF FlowsAreServed, MacsAreServed
<1>9. CASE Relink
  <2>1. MacsAreServed'
    <3>1. /\ QueriesFor("mac")' = QueriesFor("mac")
          /\ Len(linked["mac"]') + InBack("mac")'
               = Len(linked["mac"]) + InBack("mac")
      BY <1>0, <1>3, <1>9, RelinkSupply
    <3>2. QED
      BY <1>6, <3>1 DEF MacsAreServed
  <2>2. FlowsAreServed'
    <3>1. QueriesFor("flow")' = QueriesFor("flow") /\ InBack("flow")' = 0
      BY <1>0, <1>3, <1>9, RelinkSupply
    <3>2. CASE entry = "flow"
      BY <1>0, <1>3, <1>9, RelinkSupply, <3>1, <3>2 DEF FlowsAreServed
    <3>3. CASE entry # "flow"
      BY <1>0, <1>6, <1>9, RelinkSupply, <3>1, <3>3 DEF FlowsAreServed
    <3>4. QED
      BY <3>2, <3>3
  <2>3. QED
    BY <2>1, <2>2
<1>10. QED
  BY <1>7, <1>8, <1>9

LEMMA QueriesStep == IInv /\ QueriesInv /\ [Next]_vars => QueriesInv'
<1>1. SUFFICES ASSUME IInv, QueriesInv, [Next]_vars PROVE QueriesInv'
  OBVIOUS
<1>2. FewPushing
  BY <1>1 DEF QueriesInv
<1>3. ASSUME \A k \in Kinds : /\ IsFiniteSet(Pushing(k)')
                              /\ ~faulted' => QueriesFor(k)' = QueriesFor(k),
             UNCHANGED <<linked, back>>, ~faulted' => ~faulted
      PROVE  QueriesInv'
  <2>1. \A k : InBack(k)' = InBack(k)
    BY <1>3 DEF InBack
  <2>2. ~faulted' => FlowsAreServed' /\ MacsAreServed'
    BY <1>1, <1>3, <2>1, DemandParts
       DEF QueriesInv, FlowsAreServed, MacsAreServed, Kinds
  <2>3. QED
    BY <1>3, <2>2, DemandParts DEF QueriesInv, FewPushing
<1>4. CASE Quiet
  <2>1. UNCHANGED <<linked, back>>
    BY <1>1, <1>4, QuietPlaces
  <2>2. ~faulted' => ~faulted
    BY <1>4 DEF Quiet, Classify, CaptureFails, PushQuery, PushQueryFails,
       TakeQuery, PopMacEmpty, Requeue, FillDone, ReadFails, Open, OpenMem,
       OpenMemFails, Read, CancelRead, Close, CleanQueries, SetMonitor,
       historyVars
  <2>3. faulted' \in BOOLEAN
    BY <1>1, <1>4, QuietTypes DEF TypeOK
  <2>4. QED
    BY <1>1, <1>2, <1>3, <1>4, <2>1, <2>2, <2>3, QuietSupply
<1>5. CASE \E p \in Packets : LinkPacket(p)
  BY <1>1, <1>5, LinkQueries
<1>6. CASE PopFlow \/ PopMac \/ Relink
  BY <1>1, <1>6, PopQueries
<1>7. CASE StartFill \/ AnswerRead \/ UNCHANGED vars
  <2>1. UNCHANGED <<queries, entry, cl, linked, back, faulted>>
    BY <1>7 DEF StartFill, AnswerRead, capVars, clVars, vars
  <2>2. \A k \in Kinds : Pushing(k)' = Pushing(k) /\ QueriesFor(k)' = QueriesFor(k)
    BY <2>1 DEF Pushing, QueriesFor
  <2>3. QED
    BY <1>2, <1>3, <2>1, <2>2 DEF FewPushing
<1>8. CASE CleanFlows \/ CleanMacs
  <2>1. UNCHANGED <<queries, entry, cl, back>>
    BY <1>8 DEF CleanFlows, CleanMacs, CleanPackets, clVars, ioVars
  <2>2. faulted' = TRUE \/ UNCHANGED <<linked, faulted>>
    BY <1>8 DEF CleanFlows, CleanMacs, CleanPackets
  <2>3. \A k \in Kinds : Pushing(k)' = Pushing(k) /\ QueriesFor(k)' = QueriesFor(k)
    BY <2>1 DEF Pushing, QueriesFor
  <2>4. CASE faulted' = TRUE
    BY <1>2, <2>3, <2>4, DemandParts DEF QueriesInv, FewPushing
  <2>5. CASE UNCHANGED <<linked, faulted>>
    BY <1>2, <1>3, <2>1, <2>3, <2>5 DEF FewPushing
  <2>6. QED
    BY <2>2, <2>4, <2>5
<1>9. QED
  BY <1>1, <1>4, <1>5, <1>6, <1>7, <1>8, NextIsSplit DEF Moves

(* The lists are empty at first. *)
LEMMA InitQueries == Init => QueriesInv
<1>1. SUFFICES ASSUME Init PROVE QueriesInv
  OBVIOUS
<1>2. \A k \in Kinds : Pushing(k) = {} /\ InBack(k) = 0 /\ linked[k] = <<>>
  BY <1>1 DEF Init, Pushing, InBack
<1>3. FewPushing
  BY <1>2, FS_EmptySet DEF FewPushing
<1>4. QueriesFor("mac") \in Nat
  BY <1>1, <1>3, InitInv, SupplyParts, SupplyTypes DEF Kinds
<1>5. Len(<<>>) = 0
  OBVIOUS
<1>6. FlowsAreServed /\ MacsAreServed
  BY <1>2, <1>4, <1>5 DEF FlowsAreServed, MacsAreServed, Kinds
<1>7. QED
  BY <1>3, <1>6, DemandParts DEF QueriesInv

(* As long as no query allocation failed and no close ran, no packet waits on
   a list without a query that will fetch it. *)
THEOREM QueriesSuffice == Spec => []PacketsHaveQueries
<1>1. QueriesInv => PacketsHaveQueries
  BY DEF QueriesInv
<1>2. QED
  BY <1>1, InitInv, NextInv, InitQueries, QueriesStep, PTL DEF Spec

(* For frames the demand of PacketsHaveQueries is met with nothing to spare:
   a frame, a query. *)
MacsMatch ==
  ~faulted => QueriesFor("mac") = Len(linked["mac"]) + InBack("mac")

LEMMA MatchStep ==
  ASSUME IInv, QueriesInv, MacsMatch, [Next]_vars
  PROVE  MacsMatch'
<1>0. FewPushing /\ "mac" \in Kinds
  BY DEF QueriesInv, Kinds
<1>1. CASE Quiet
  <2>1. UNCHANGED <<linked, back>>
    BY <1>1, QuietPlaces
  <2>2. ~faulted' => ~faulted
    BY <1>1 DEF Quiet, Classify, CaptureFails, PushQuery, PushQueryFails,
       TakeQuery, PopMacEmpty, Requeue, FillDone, ReadFails, Open, OpenMem,
       OpenMemFails, Read, CancelRead, Close, CleanQueries, SetMonitor,
       historyVars
  <2>3. faulted' \in BOOLEAN
    BY <1>1, QuietTypes DEF TypeOK
  <2>4. ~faulted' => QueriesFor("mac")' = QueriesFor("mac")
    BY <1>0, <1>1, <2>3, QuietSupply
  <2>5. QED
    BY <2>1, <2>2, <2>4 DEF MacsMatch, InBack
<1>2. ASSUME NEW p \in Packets, LinkPacket(p)
      PROVE  MacsMatch'
  <2>1. faulted' = faulted /\ InBack("mac")' = InBack("mac")
        /\ InBack("mac") \in Nat
    BY <1>2 DEF LinkPacket, ioVars, historyVars, InBack
  <2>2. PICK one \in {0, 1} :
           /\ QueriesFor("mac")' = QueriesFor("mac") + one
           /\ Len(linked["mac"]') = Len(linked["mac"]) + one
           /\ QueriesFor("mac") \in Nat /\ Len(linked["mac"]) \in Nat
    BY <1>0, <1>2, LinkSupply
  <2>3. QED
    BY <2>1, <2>2 DEF MacsMatch
<1>3. CASE PopFlow \/ PopMac \/ Relink
  <2>1. faulted' = faulted
    BY <1>3 DEF PopFlow, PopMac, Relink, historyVars
  <2>2. /\ QueriesFor("mac")' = QueriesFor("mac") - Taken("mac")
                                   + Taken("mac")'
        /\ QueriesFor("mac") \in Nat /\ Taken("mac") \in Nat
        /\ InBack("mac") \in Nat
    BY <1>0, <1>3, PopSupply
  <2>3. CASE PopFlow
    BY <2>1, <2>2, <2>3, PopFlowSupply DEF MacsMatch
  <2>4. CASE PopMac
    BY <2>1, <2>2, <2>4, PopMacSupply DEF MacsMatch
  <2>5. CASE Relink
    BY <1>0, <2>1, <2>2, <2>5, RelinkSupply DEF MacsMatch
  <2>6. QED
    BY <1>3, <2>3, <2>4, <2>5
<1>4. CASE StartFill \/ AnswerRead \/ UNCHANGED vars
  BY <1>4 DEF StartFill, AnswerRead, capVars, clVars, vars, MacsMatch, InBack,
     QueriesFor
<1>5. CASE CleanFlows \/ CleanMacs
  <2>1. UNCHANGED <<queries, entry, cl, back>>
    BY <1>5 DEF CleanFlows, CleanMacs, CleanPackets, clVars, ioVars
  <2>2. faulted' = TRUE \/ UNCHANGED <<linked, faulted>>
    BY <1>5 DEF CleanFlows, CleanMacs, CleanPackets
  <2>3. QED
    BY <2>1, <2>2 DEF MacsMatch, InBack, QueriesFor
<1>6. QED
  BY <1>1, <1>2, <1>3, <1>4, <1>5, NextIsSplit DEF Moves

(* devtrl_popDataLinkData takes one packet per query: with no allocation
   failure and no close, a query for a frame finds a frame. *)
MacHasPacket ==
  ~faulted /\ io = "pop" /\ entry = "mac" => linked["mac"] # <<>>

(* The failure of an empty list, after which devctrl_fillBuffer puts the query
   back and ends the fill, is then out of reach: without it no query for a
   frame is left over to end a later fill early. *)
THEOREM FrameQueryFindsFrame == Spec => []MacHasPacket
<1>1. Init => MacsMatch
  <2> SUFFICES ASSUME Init PROVE QueriesFor("mac") = 0 /\ InBack("mac") = 0
                                 /\ Len(linked["mac"]) = 0
    BY DEF MacsMatch
  <2>1. /\ queries = <<>> /\ entry = "none" /\ linked["mac"] = <<>>
        /\ Pushing("mac") = {}
    BY DEF Init, Pushing, Kinds
  <2>2. {n \in 1..Len(queries) : queries[n] = "mac"} = {}
    BY <2>1
  <2>3. Cardinality({}) = 0
    BY FS_EmptySet
  <2>4. QueriesFor("mac") = 0
    <3>1. Queued("mac") = 0
      BY <2>2, <2>3 DEF Queued, Occurrences
    <3>2. Taken("mac") = 0
      BY <2>1 DEF Taken
    <3>3. Cardinality(Pushing("mac")) = 0
      BY <2>1, <2>3
    <3>4. QueriesFor("mac") = Queued("mac") + Taken("mac")
                                + Cardinality(Pushing("mac"))
      BY SupplyParts DEF Kinds
    <3>5. QED
      BY <3>1, <3>2, <3>3, <3>4
  <2>5. QED
    BY <2>1, <2>4 DEF Init, InBack
<1>2. IInv /\ QueriesInv /\ MacsMatch => MacHasPacket
  <2> SUFFICES ASSUME IInv, QueriesInv, MacsMatch, ~faulted,
                      io = "pop", entry = "mac"
               PROVE  linked["mac"] # <<>>
    BY DEF MacHasPacket
  <2>1. /\ QueriesFor("mac") = Queued("mac") + 1 + Cardinality(Pushing("mac"))
        /\ Queued("mac") \in Nat /\ Cardinality(Pushing("mac")) \in Nat
    BY SupplyParts, SupplyTypes DEF QueriesInv, Kinds, Taken
  <2>2. InBack("mac") = 0
    BY DEF IInv, FillStage, InBack
  <2>3. QueriesFor("mac") = Len(linked["mac"])
    <3>1. Len(linked["mac"]) \in Nat
      BY DEF IInv, TypeOK, Kinds
    <3>2. QED
      BY <2>2, <3>1 DEF MacsMatch
  <2>4. QED
    BY <2>1, <2>3
<1>3. QED
  BY <1>1, <1>2, InitInv, NextInv, InitQueries, QueriesStep, MatchStep, PTL
     DEF Spec

-----------------------------------------------------------------------------
(* The implementation of Deliveries. *)

(* A list without repetitions is an enumeration of its members. *)
LEMMA ListIsAnOrder ==
  ASSUME NEW S, NEW s \in Seq(S), Distinct(s)
  PROVE  s \in SetToSeqs(Range(s))
<1>1. /\ Len(s) \in Nat /\ DOMAIN s = 1..Len(s)
      /\ Range(s) = {s[k] : k \in 1..Len(s)}
  BY RangeFacts, LenProperties
<1>2. s \in [1..Len(s) -> Range(s)]
  BY <1>1
<1>3. \A i, j \in 1..Len(s) : i # j => s[i] # s[j]
  BY DEF Distinct
<1>4. Cardinality(Range(s)) = Len(s)
  <2>1. \A x \in Range(s) : \E k \in 1..Len(s) : s[k] = x
    BY <1>1
  <2>2. s \in Bijection(1..Len(s), Range(s))
    BY <1>2, <1>3, <2>1 DEF Bijection, Injection, Surjection, IsInjective
  <2>3. ExistsBijection(1..Len(s), Range(s))
    BY <2>2 DEF ExistsBijection
  <2>4. QED
    BY <1>1, <2>3, FS_CountingElements
<1>5. QED
  BY <1>2, <1>3, <1>4 DEF SetToSeqs

(* Linking a packet is Capture, a non-empty drain is Drop, an answer is
   Deliver; every other step is none of the client's business. *)
LEMMA StepRefines ==
  ASSUME IInv, [Next]_vars
  PROVE  [Abstract!Next]_(Abstract!vars)
<1>0. Abstract!Pending = Captured \ (Range(delivered) \union dropped)
  BY DEF Abstract!Pending, Captured, Range, Abstract!Range
<1>1. ASSUME NEW p \in Packets, LinkPacket(p)
      PROVE  Abstract!Capture(p)
  <2>1. p \notin Captured /\ Captured' = Captured \union {p}
    BY <1>1 DEF LinkPacket, Captured, IInv, TypeOK
  <2>2. UNCHANGED <<delivered, dropped>>
    BY <1>1 DEF LinkPacket, historyVars
  <2>3. QED
    BY <2>1, <2>2 DEF Abstract!Capture, Captured
<1>2. ASSUME NEW k \in Kinds, NEW here, NEW next, CleanPackets(k, here, next)
      PROVE  \/ \E p \in Packets : Abstract!Drop(p)
             \/ UNCHANGED Abstract!vars
  <2>1. /\ Captured' = Captured /\ delivered' = delivered
    BY <1>2 DEF CleanPackets, clVars, Captured
  <2>2. CASE linked[k] = <<>>
    <3>1. dropped' = dropped
      BY <1>2, <2>2 DEF CleanPackets
    <3>2. QED
      BY <2>1, <3>1 DEF Abstract!vars, Captured
  <2>3. CASE linked[k] # <<>>
    <3> DEFINE h == Head(linked[k])
    <3>1. h \in Packets /\ h \in OnLists /\ dropped' = dropped \union {h}
      BY <1>2, <2>3, HeadRemoved DEF CleanPackets
    <3> HIDE DEF h
    <3>2. h \in Captured \ (Range(delivered) \union dropped)
      BY <3>1 DEF IInv, PlacesAreApart, Used
    <3>3. Abstract!Drop(h)
      BY <1>0, <2>1, <3>1, <3>2 DEF Abstract!Drop, Captured
    <3>4. QED
      BY <3>1, <3>3
  <2>4. QED
    BY <2>2, <2>3
<1>3. CASE AnswerRead
  <2>1. batch \in Seq(Packets) /\ Distinct(batch)
    BY DEF IInv, TypeOK, ListsAreSound
  <2>2. batch \in SetToSeqs(Range(batch))
    BY <2>1, ListIsAnOrder
  <2>3. Range(batch) \in SUBSET (Captured \ (Range(delivered) \union dropped))
    BY DEF IInv, PlacesAreApart, Used
  <2>4. /\ delivered' = delivered \o batch
        /\ Captured' = Captured /\ dropped' = dropped
    BY <1>3 DEF AnswerRead, clVars, Captured
  <2>5. \E packets \in SUBSET Abstract!Pending :
          \E order \in Abstract!SetToSeqs(packets) :
            delivered' = delivered \o order
    <3>1. Abstract!SetToSeqs(Range(batch)) = SetToSeqs(Range(batch))
      BY DEF Abstract!SetToSeqs, SetToSeqs, Abstract!Cardinality, Cardinality
    <3>2. QED
      BY <1>0, <2>2, <2>3, <2>4, <3>1
  <2>6. Abstract!Deliver
    BY <2>4, <2>5 DEF Abstract!Deliver, Captured
  <2>7. QED
    BY <2>6 DEF Abstract!Next
<1>4. CASE PopFlow \/ PopMac \/ Relink \/ StartFill
  <2>1. UNCHANGED <<cl, delivered, dropped>>
    BY <1>4 DEF PopFlow, PopMac, Relink, StartFill, clVars, historyVars
  <2>2. QED
    BY <2>1 DEF Abstract!vars
<1>5. CASE Quiet
  <2>1. Captured' = Captured /\ UNCHANGED <<delivered, dropped>>
    BY <1>5, QuietPlaces
  <2>2. QED
    BY <2>1 DEF Abstract!vars, Captured
<1>6. CASE UNCHANGED vars
  BY <1>6 DEF vars, Abstract!vars
<1>7. CASE Moves
  <2>1. "flow" \in Kinds /\ "mac" \in Kinds
    BY DEF Kinds
  <2>2. CASE CleanFlows \/ CleanMacs
    BY <1>2, <2>1, <2>2 DEF CleanFlows, CleanMacs, Abstract!Next
  <2>3. CASE \E p \in Packets : LinkPacket(p)
    BY <1>1, <2>3 DEF Abstract!Next
  <2>4. QED
    BY <1>3, <1>4, <1>7, <2>2, <2>3 DEF Moves
<1>8. QED
  BY <1>5, <1>6, <1>7, NextIsSplit

(* The lists, the overflow path and the drains together hand over or throw
   away each queued packet, once: the capture path implements Deliveries. *)
THEOREM Refinement == Spec => ImplementsDeliveries
<1>1. Init => Abstract!Init
  BY DEF Init, Abstract!Init
<1>2. QED
  BY <1>1, StepRefines, Invariance, PTL
     DEF Spec, ImplementsDeliveries, Abstract!Spec
=============================================================================
