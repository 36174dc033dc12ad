------------------------------ MODULE FlowTable -----------------------------
(***************************************************************************)
(* From the driver's list of established flows to a process lookup: the    *)
(* records the driver writes to the shared buffer, the loop of             *)
(* nf_workThread that walks them, EventHandler::establishedPacket, which   *)
(* keys flowestablished_map by protocol and local port, and                *)
(* nf_getprocessinfo, which reads the map without its mutex.               *)
(*                                                                         *)
(* The two sides disagree about the record header.  The driver's NF_DATA   *)
(* (wfpdriver/public.h) is padded to 16 bytes and it advances by 15 and    *)
(* the packet; the client's (wfptools/nfdriver.h) is packed to 13 and it   *)
(* advances by 12 and the packet.  code, id, bufferSize and buffer have    *)
(* the same offsets on both sides.                                         *)
(*                                                                         *)
(* The flows are those of one driver session; each is captured once.  The  *)
(* buffer holds them all (a full one: module CaptureQueue).                *)
(***************************************************************************)
EXTENDS NtPath, FiniteSets, SequencesExt

CONSTANTS Flows,        \* the flows that may be established
          ProtoOf,      \* ProtoOf[f]: "tcp" or "udp", what the filters let by
          PortOf,       \* PortOf[f]: its local port
          AddrOf,       \* AddrOf[f]: its local address
          VolumeOf,     \* VolumeOf[f]: the volume its process was started from
          DriverHeader, \* sizeof(NF_DATA) - 1 in the driver
          ClientHeader, \* sizeof(NF_DATA) - 1 in the client
          RecordLength, \* bytes of a flow: sizeof(..._FLOWESTABLISHED_INFO)
          Zero          \* a field of a map entry that is not assigned yet

Protocols == {"tcp", "udp"}
Ports     == {port \in Nat : port < 65536}

ASSUME FlowAssumption == /\ ProtoOf \in [Flows -> Protocols]
                         /\ PortOf \in [Flows -> Ports]
                         /\ DOMAIN AddrOf = Flows
                         /\ DOMAIN VolumeOf = Flows
                         /\ Zero \notin Flows
ASSUME HeaderAssumption == /\ DriverHeader \in Nat /\ ClientHeader \in Nat
                           /\ RecordLength \in Nat \ {0}

VARIABLES
  held,       \* pendedPackets of the driver, head first
  batch,      \* the flows in the shared buffer, as the driver wrote them
  (* nf_workThread *)
  worker,     \* "wait", "parse", "insert" or "assign"
  offset,     \* of pData in the buffer
  readBytes,  \* bytes left
  cur,        \* the flow being put in the map
  unassigned, \* the fields of its entry that operator= has yet to write
  table,      \* flowestablished_map: key to entry
  (* a caller of nf_getprocessinfo *)
  lookup,     \* where it is
  asked,      \* its arguments: address, port, protocol
  info,       \* its PROCESS_INFO
  drive,      \* what the path of info begins with
  (* history *)
  captured,   \* the flows, in the order of their capture
  delivered,  \* the flows of all batches
  dispatched  \* the flows establishedPacket was called with, in order

workerVars == <<worker, offset, readBytes, cur, unassigned, table>>
lookupVars == <<lookup, asked, info, drive>>
vars == <<held, batch, worker, offset, readBytes, cur, unassigned, table,
          lookup, asked, info, drive, captured, delivered, dispatched>>

(* The fields of an entry that a lookup reads, by the flow they came from. *)
Fields == {"processId", "processPath"}
Empty  == [f \in Fields |-> Zero]

Init == /\ held = <<>> /\ batch = <<>>
        /\ worker = "wait" /\ offset = 0 /\ readBytes = 0
        /\ cur = Zero /\ unassigned = {}
        /\ table = <<>>
        /\ lookup = "idle" /\ asked = Zero /\ info = Empty
        /\ drive = Unchanged
        /\ captured = <<>> /\ delivered = {} /\ dispatched = <<>>

-----------------------------------------------------------------------------
(* Plausible mistakes: each breaks one of the properties.                  *)

(* The key leaves the protocol out. *)
Key_PortOnly(proto, port) == port

(* The client takes the driver's header, and the list stays as it is. *)
NextOffset_SameHeader(off) == off + DriverHeader + RecordLength

(* InsertTailList instead of InsertHeadList. *)
Capture_AtTail(f) ==
  /\ f \notin Range(captured)
  /\ held' = Append(held, f)
  /\ captured' = Append(captured, f)
  /\ UNCHANGED <<batch, workerVars, lookupVars, delivered, dispatched>>

(* The flow goes in the map under its port, before the protocol's offset. *)
InsertKey_RawPort ==
  /\ worker = "insert"
  /\ table' = [k \in DOMAIN table \union {PortOf[cur]} |->
                 IF k \in DOMAIN table THEN table[k] ELSE Empty]
  /\ unassigned' = Fields
  /\ worker' = "assign"
  /\ UNCHANGED <<held, batch, offset, readBytes, cur, lookupVars, captured,
                 delivered, dispatched>>

-----------------------------------------------------------------------------
(* The map's keys.  flowestablished_map orders ints: the offsets keep TCP  *)
(* and UDP ports apart.                                                    *)

Key(proto, port) == port + (IF proto = "tcp" THEN 1000000 ELSE 2000000)

KeyOf(f) == Key(ProtoOf[f], PortOf[f])

-----------------------------------------------------------------------------
(* The driver.                                                             *)

(* A flow is established: the callout puts it at the head of the list. *)
Capture(f) ==
  /\ f \notin Range(captured)
  /\ held' = <<f>> \o held
  /\ captured' = Append(captured, f)
  /\ UNCHANGED <<batch, workerVars, lookupVars, delivered, dispatched>>

(* devctrl_serviceReads answers the worker's read: the pop drains the list,
   head first, and rr.length is the length of what it wrote. *)
AnswerRead ==
  /\ worker = "wait" /\ held # <<>>
  /\ batch' = held
  /\ held' = <<>>
  /\ delivered' = delivered \union Range(held)
  /\ offset' = 0
  /\ readBytes' = Len(held) * (DriverHeader + RecordLength)
  /\ worker' = "parse"
  /\ UNCHANGED <<cur, unassigned, table, lookupVars, captured, dispatched>>

-----------------------------------------------------------------------------
(* nf_workThread.                                                          *)

(* What the client sees at an offset: a record where the driver wrote one.
   Anywhere else it reads the middle of a header: the type code is moved to
   the high byte of code, which is no code it knows, and the low byte of the
   length to the high byte of bufferSize, which is more than is left. *)
RecordAt(off) ==
  IF \E n \in 1..Len(batch) : off = (n - 1) * (DriverHeader + RecordLength)
  THEN batch[off \div (DriverHeader + RecordLength) + 1]
  ELSE Zero

NextOffset(off) == off + ClientHeader + RecordLength

(* handleEventDispath calls establishedPacket, ... *)
Dispatch ==
  /\ worker = "parse" /\ readBytes >= ClientHeader
  /\ RecordAt(offset) # Zero
  /\ cur' = RecordAt(offset)
  /\ dispatched' = Append(dispatched, cur')
  /\ worker' = "insert"
  /\ UNCHANGED <<held, batch, offset, readBytes, unassigned, table,
                 lookupVars, captured, delivered>>

(* ... whose operator[] finds the key or inserts it with a zeroed entry, ... *)
InsertKey ==
  /\ worker = "insert"
  /\ table' = [k \in DOMAIN table \union {KeyOf(cur)} |->
                 IF k \in DOMAIN table THEN table[k] ELSE Empty]
  /\ unassigned' = Fields
  /\ worker' = "assign"
  /\ UNCHANGED <<held, batch, offset, readBytes, cur, lookupVars, captured,
                 delivered, dispatched>>

(* ... and operator= copies the flow to it; a reader without the mutex may
   see its fields change in either order.  Then the loop advances. *)
AssignField(field) ==
  /\ worker = "assign" /\ field \in unassigned
  /\ table' = [table EXCEPT ![KeyOf(cur)][field] = cur]
  /\ unassigned' = unassigned \ {field}
  /\ IF unassigned' # {}
     THEN UNCHANGED <<worker, offset, readBytes, cur>>
     ELSE /\ cur' = Zero
          /\ IF NextOffset(0) > readBytes
             THEN worker' = "wait" /\ UNCHANGED <<offset, readBytes>>
             ELSE /\ worker' = "parse"
                  /\ offset' = NextOffset(offset)
                  /\ readBytes' = readBytes - NextOffset(0)
  /\ UNCHANGED <<held, batch, lookupVars, captured, delivered, dispatched>>

(* The loop ends: nothing is left, or what is left is no record. *)
EndOfBatch ==
  /\ worker = "parse"
  /\ readBytes < ClientHeader \/ RecordAt(offset) = Zero
  /\ worker' = "wait"
  /\ UNCHANGED <<held, batch, offset, readBytes, cur, unassigned, table,
                 lookupVars, captured, delivered, dispatched>>

-----------------------------------------------------------------------------
(* nf_getprocessinfo: no step of it takes g_mutx.                          *)

(* The call, for the flow of a packet the caller has in hand. *)
Ask(f) ==
  /\ lookup \in {"idle", "found", "notFound"}
  /\ asked' = [addr |-> AddrOf[f], port |-> PortOf[f], proto |-> ProtoOf[f]]
  /\ info' = Empty /\ drive' = Unchanged
  /\ lookup' = "find"
  /\ UNCHANGED <<held, batch, workerVars, captured, delivered, dispatched>>

AskedKey == Key(asked.proto, asked.port)

(* flowestablished_map.find: the address plays no part. *)
Find ==
  /\ lookup = "find" /\ AskedKey \in DOMAIN table
  /\ lookup' = "copyId"
  /\ UNCHANGED <<held, batch, workerVars, asked, info, drive, captured,
                 delivered, dispatched>>

(* The key is absent, or the tree is being changed under the search: -3. *)
FindFails ==
  /\ lookup = "find"
  /\ AskedKey \notin DOMAIN table \/ worker = "insert"
  /\ lookup' = "notFound"
  /\ UNCHANGED <<held, batch, workerVars, asked, info, drive, captured,
                 delivered, dispatched>>

(* processId, then the path, are copied from the entry. *)
CopyId ==
  /\ lookup = "copyId"
  /\ info' = [info EXCEPT !["processId"] = table[AskedKey]["processId"]]
  /\ lookup' = "copyPath"
  /\ UNCHANGED <<held, batch, workerVars, asked, drive, captured, delivered,
                 dispatched>>

(* A plausible mistake: the search goes on after a hit, and the last one counts. *)
CopyPath_LastHit ==
  /\ lookup = "copyPath"
  /\ LET path == table[AskedKey]["processPath"]
     IN  IF path = Zero THEN UNCHANGED <<info, drive>>
         ELSE /\ \E i \in 1..Len(Drives) :
                   /\ Considered(i) /\ Matches(i, VolumeOf[path])
                   /\ \A j \in i+1..Len(Drives) : ~Matches(j, VolumeOf[path])
                   /\ drive' = Drives[i]
              /\ info' = [info EXCEPT !["processPath"] = path]
  /\ lookup' = "found"
  /\ UNCHANGED <<held, batch, workerVars, asked, captured, delivered,
                 dispatched>>

(* The path goes through DeviceDosPathToNtPath, whose result is not looked
   at; the empty path of an entry not yet assigned begins with no device. *)
CopyPath ==
  /\ lookup = "copyPath"
  /\ LET path == table[AskedKey]["processPath"]
     IN  IF path = Zero THEN UNCHANGED <<info, drive>>
         ELSE /\ drive' \in Translations(VolumeOf[path])
              /\ info' = [info EXCEPT !["processPath"] =
                            IF drive' = Lost THEN Zero ELSE path]
  /\ lookup' = "found"
  /\ UNCHANGED <<held, batch, workerVars, asked, captured, delivered,
                 dispatched>>

-----------------------------------------------------------------------------

Next == \/ \E f \in Flows : Capture(f) \/ Ask(f)
        \/ AnswerRead \/ Dispatch \/ InsertKey \/ EndOfBatch
        \/ \E field \in Fields : AssignField(field)
        \/ Find \/ FindFails \/ CopyId \/ CopyPath

Spec == Init /\ [][Next]_vars

-----------------------------------------------------------------------------
(* Properties.                                                             *)

(* The place of a flow in the order of capture. *)
Age(f) == CHOOSE n \in 1..Len(captured) : captured[n] = f

Values == [Fields -> Flows \union {Zero}]

(* Every variable keeps its type. *)
TypeOK ==
  /\ held \in Seq(Flows) /\ batch \in Seq(Flows)
  /\ captured \in Seq(Flows) /\ dispatched \in Seq(Flows)
  /\ delivered \subseteq Flows
  /\ worker \in {"wait", "parse", "insert", "assign"}
  /\ offset \in Nat /\ readBytes \in Nat
  /\ cur \in Flows \union {Zero}
  /\ unassigned \subseteq Fields
  /\ DOMAIN table \subseteq {KeyOf(f) : f \in Flows}
  /\ \A k \in DOMAIN table : table[k] \in Values
  /\ lookup \in {"idle", "find", "copyId", "copyPath", "found", "notFound"}
  /\ info \in Values
  /\ drive \in Range(Drives) \union {Unchanged, Lost}

(* What a lookup returns is never of another protocol or another port than
   it asked for, whatever the worker does to the entry meanwhile; it may be
   the zeroes of an entry that is not assigned yet.  The comment on the key,
   main.cpp:32-34, says the opposite of what the code does: that protocols on
   the same port overwrite each other.  They have keys of their own. *)
ResultIsOfThePort ==
  lookup = "found" =>
    \A field \in Fields :
      info[field] # Zero => /\ PortOf[info[field]] = asked.port
                            /\ ProtoOf[info[field]] = asked.proto

(* The newest flow wins its key: an entry at rest is the last captured of
   the flows with its key that were handed to establishedPacket.  The list
   is last-in first-out, so within a batch the older flow comes later: only
   because no flow but the first of a batch is dispatched does it not
   replace the newer one. *)
NewestWins ==
  worker \in {"wait", "parse"} =>
    \A f \in Range(dispatched) :
      \A field \in Fields : /\ table[KeyOf(f)][field] \in Range(dispatched)
                            /\ Age(table[KeyOf(f)][field]) >= Age(f)

(* The letter a path is returned with is that of a drive whose device name
   begins the volume's, and no drive of the volume itself is listed before
   it: with less than ten volumes, its own drive.  (A: is never tried.) *)
PathIsOnItsDrive ==
  lookup = "found" /\ drive \in Range(Drives) =>
    LET volume == VolumeOf[info["processPath"]]
        place(d) == CHOOSE i \in 1..Len(Drives) : Drives[i] = d
    IN  /\ drive # "A"
        /\ <<DeviceOf[drive], volume>> \in Begins
        /\ \A d \in Range(Drives) :
             d # "A" /\ DeviceOf[d] = volume => place(drive) <= place(d)

(* Once a batch is parsed, the newest flow the driver delivered is in the
   table, whatever became of the others. *)
NewestIsInTable ==
  worker = "wait" =>
    \A f \in delivered :
      (\A g \in delivered : Age(g) <= Age(f)) =>
        KeyOf(f) \in DOMAIN table /\ table[KeyOf(f)] = [field \in Fields |-> f]

(* The client processes the data the driver passes to it (devctrl.cpp:3):
   once a batch is parsed, every flow in it was dispatched. *)
DeliveredIsDispatched == worker = "wait" => delivered \subseteq Range(dispatched)

(* A packet finds its process by ip:port (README.md:21): a lookup never
   returns a flow of another local address. *)
LookupMatchesAddress ==
  lookup = "found" =>
    \A field \in Fields :
      info[field] # Zero => AddrOf[info[field]] = asked.addr
=============================================================================
