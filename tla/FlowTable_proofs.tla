---------------------------- MODULE FlowTable_proofs -------------------------
(***************************************************************************)
(* Proofs about FlowTable and NtPath, for any flows, drives and header     *)
(* lengths: a lookup returns what it asked for, although it does not lock. *)
(* For headers like the program's, where the client takes shorter steps    *)
(* than the driver: the newest flow wins, is found, and is the only one of *)
(* its batch; for equal headers every flow is dispatched.                  *)
(***************************************************************************)
EXTENDS FlowTable, ListFacts

(* Every entry holds, field by field, flows of its own key or zeroes. *)
TableStage ==
  /\ worker \in {"insert", "assign"} => cur \in Flows
  /\ worker = "assign" => KeyOf(cur) \in DOMAIN table
  /\ \A k \in DOMAIN table, field \in Fields :
       table[k][field] # Zero => KeyOf(table[k][field]) = k

(* A lookup that has found its key keeps it: nothing is erased. *)
LookupStage ==
  /\ lookup # "idle" => asked.proto \in Protocols /\ asked.port \in Ports
  /\ lookup \in {"copyId", "copyPath"} => AskedKey \in DOMAIN table
  /\ lookup # "idle" =>
       \A field \in Fields : info[field] # Zero => KeyOf(info[field]) = AskedKey

(* Where the drive of a path comes from. *)
DriveStage ==
  /\ lookup \in {"find", "copyId", "copyPath"} => drive = Unchanged
  /\ drive \notin {Unchanged, Lost} =>
       \E i \in 1..Len(Drives) :
         /\ drive = Drives[i] /\ info["processPath"] \in Flows
         /\ Considered(i)
         /\ Reached(i, VolumeOf[info["processPath"]])
         /\ Matches(i, VolumeOf[info["processPath"]])

(* The inductive invariant. *)
IInv == TypeOK /\ TableStage /\ LookupStage /\ DriveStage

-----------------------------------------------------------------------------

(* The offsets of the two protocols keep their ports apart. *)
LEMMA KeyIsInjective ==
  ASSUME NEW p \in Protocols, NEW q \in Protocols, NEW m \in Ports,
         NEW n \in Ports, Key(p, m) = Key(q, n)
  PROVE  p = q /\ m = n
<1>1. m \in Nat /\ m < 65536 /\ n \in Nat /\ n < 65536
  BY DEF Ports
<1>2. \A d \in {1000000, 2000000} : m + d = n + d => m = n
  BY <1>1, SMT
<1>3. m + 1000000 # n + 2000000 /\ m + 2000000 # n + 1000000
  BY <1>1, SMT
<1>4. p \in {"tcp", "udp"} /\ q \in {"tcp", "udp"}
  BY DEF Protocols
<1>5. QED
  BY <1>2, <1>3, <1>4, SMT DEF Key

LEMMA FlowTypes ==
  ASSUME NEW f \in Flows
  PROVE  /\ ProtoOf[f] \in Protocols /\ PortOf[f] \in Ports
         /\ KeyOf(f) = Key(ProtoOf[f], PortOf[f]) /\ f # Zero
<1>1. ProtoOf \in [Flows -> Protocols] /\ PortOf \in [Flows -> Ports]
  BY FlowAssumption
<1>2. f # Zero
  BY FlowAssumption
<1>3. QED
  BY <1>1, <1>2 DEF KeyOf

(* What is read at an offset is a record that was written, or none. *)
LEMMA RecordType ==
  ASSUME batch \in Seq(Flows), NEW off \in Nat
  PROVE  RecordAt(off) \in Flows \union {Zero}
<1> DEFINE R == DriverHeader + RecordLength
<1>1. CASE \E n \in 1..Len(batch) : off = (n - 1) * R
  <2>1. PICK n \in 1..Len(batch) : off = (n - 1) * R
    BY <1>1
  <2>2. R \in Nat \ {0} /\ n - 1 \in Nat
    BY HeaderAssumption
  <2>3. \A k \in Nat, r \in Nat \ {0} : (k * r) \div r = k
    BY SMT
  <2>4. ((n - 1) * R) \div R = n - 1
    BY <2>2, <2>3
  <2>5. off \div R + 1 = n
    BY <2>1, <2>2, <2>4
  <2>6. RecordAt(off) = batch[n]
    BY <1>1, <2>5 DEF RecordAt
  <2>7. QED
    BY <2>6
<1>2. CASE ~\E n \in 1..Len(batch) : off = (n - 1) * R
  BY <1>2 DEF RecordAt
<1>3. QED
  BY <1>1, <1>2

LEMMA InitInv == Init => IInv
<1> SUFFICES ASSUME Init PROVE IInv
  OBVIOUS
<1> USE DEF Init
<1>1. Empty \in Values
  BY DEF Empty, Values
<1>2. /\ DOMAIN table = {} /\ <<>> \in Seq(Flows)
      /\ \A field \in Fields : info[field] = Zero
  BY DEF Empty
<1>3. TypeOK
  BY <1>1, <1>2 DEF TypeOK
<1>4. TableStage /\ LookupStage
  BY <1>2 DEF TableStage, LookupStage
<1>5. DriveStage
  BY DEF DriveStage
<1>6. QED
  BY <1>3, <1>4, <1>5 DEF IInv

LEMMA TypeOKInv ==
  ASSUME IInv, [Next]_vars
  PROVE  TypeOK'
<1> USE DEF IInv, TypeOK, TableStage, workerVars, lookupVars
<1>1. ASSUME NEW f \in Flows, Capture(f) PROVE TypeOK'
  <2>1. <<f>> \o held \in Seq(Flows) /\ Append(captured, f) \in Seq(Flows)
    <3>1. <<f>> \in Seq(Flows)
      OBVIOUS
    <3>2. QED
      BY <3>1
  <2>2. held' \in Seq(Flows) /\ captured' \in Seq(Flows)
    BY <1>1, <2>1 DEF Capture
  <2>3. UNCHANGED <<batch, workerVars, lookupVars, delivered, dispatched>>
    BY <1>1 DEF Capture
  <2>4. QED
    BY <2>2, <2>3
<1>2. ASSUME NEW f \in Flows, Ask(f) PROVE TypeOK'
  <2>1. info' \in Values
    BY <1>2 DEF Ask, Empty, Values
  <2>2. QED
    BY <1>2, <2>1 DEF Ask
<1>3. CASE AnswerRead
  <2>1. Len(held) * (DriverHeader + RecordLength) \in Nat
    <3>1. Len(held) \in Nat /\ DriverHeader + RecordLength \in Nat
      BY HeaderAssumption
    <3>2. QED
      BY <3>1
  <2>2. Range(held) \subseteq Flows
    BY DEF Range
  <2>3. held' \in Seq(Flows) /\ batch' \in Seq(Flows)
    BY <1>3 DEF AnswerRead
  <2>4. delivered' \subseteq Flows /\ offset' \in Nat /\ readBytes' \in Nat
    BY <1>3, <2>1, <2>2 DEF AnswerRead
  <2>5. UNCHANGED <<cur, unassigned, table, lookupVars, captured, dispatched>>
    BY <1>3 DEF AnswerRead
  <2>6. worker' = "parse"
    BY <1>3 DEF AnswerRead
  <2>7. QED
    BY <2>3, <2>4, <2>5, <2>6
<1>4. CASE Dispatch
  <2>1. cur' \in Flows
    BY <1>4, RecordType DEF Dispatch
  <2>2. dispatched' \in Seq(Flows)
    BY <1>4, <2>1 DEF Dispatch
  <2>3. QED
    BY <1>4, <2>1, <2>2 DEF Dispatch
<1>5. CASE InsertKey
  <2>1. DOMAIN table' = DOMAIN table \union {KeyOf(cur)}
    BY <1>5 DEF InsertKey
  <2>2. DOMAIN table' \subseteq {KeyOf(f) : f \in Flows}
    BY <1>5, <2>1 DEF InsertKey
  <2>3. Empty \in Values
    BY DEF Empty, Values
  <2>4. \A k \in DOMAIN table' : table'[k] \in Values
    BY <1>5, <2>3 DEF InsertKey
  <2>5. QED
    BY <1>5, <2>2, <2>4 DEF InsertKey
<1>6. CASE EndOfBatch
  BY <1>6 DEF EndOfBatch
<1>7. ASSUME NEW field \in Fields, AssignField(field) PROVE TypeOK'
  <2>1. /\ DOMAIN table' = DOMAIN table
        /\ \A k \in DOMAIN table :
             table'[k] = IF k = KeyOf(cur) THEN [table[k] EXCEPT ![field] = cur]
                         ELSE table[k]
    BY <1>7 DEF AssignField
  <2>2. \A k \in DOMAIN table' : table'[k] \in Values
    BY <1>7, <2>1 DEF AssignField, Values
  <2>3. NextOffset(0) \in Nat /\ NextOffset(offset) \in Nat
    BY HeaderAssumption DEF NextOffset
  <2>4. offset' \in Nat /\ readBytes' \in Nat
    BY <1>7, <2>3 DEF AssignField
  <2>5. cur' \in Flows \union {Zero} /\ unassigned' \subseteq Fields
    BY <1>7 DEF AssignField
  <2>6. worker' \in {"wait", "parse", "insert", "assign"}
    BY <1>7 DEF AssignField
  <2>7. UNCHANGED <<held, batch, lookupVars, captured, delivered, dispatched>>
    BY <1>7 DEF AssignField
  <2>8. QED
    BY <2>1, <2>2, <2>4, <2>5, <2>6, <2>7
<1>8. CASE Find
  BY <1>8 DEF Find
<1>9. CASE FindFails
  BY <1>9 DEF FindFails
<1>10. CASE CopyId
  <2>1. table[AskedKey]["processId"] \in Flows \union {Zero}
    BY <1>10 DEF CopyId, LookupStage, Values, Fields
  <2>2. info' \in Values
    BY <1>10, <2>1 DEF CopyId, Values
  <2>3. QED
    BY <1>10, <2>2 DEF CopyId
<1>11. CASE CopyPath
  <2> DEFINE path == table[AskedKey]["processPath"]
  <2>1. path \in Flows \union {Zero}
    BY <1>11 DEF CopyPath, LookupStage, Values, Fields
  <2>2. info' \in Values
    BY <1>11, <2>1 DEF CopyPath, Values
  <2>3. Translations(VolumeOf[path])
          \subseteq Range(Drives) \union {Unchanged, Lost}
    BY DrivesAssumption DEF Translations, Range
  <2>4. drive' \in Range(Drives) \union {Unchanged, Lost}
    BY <1>11, <2>3 DEF CopyPath
  <2>5. QED
    BY <1>11, <2>2, <2>4 DEF CopyPath
<1>12. CASE UNCHANGED vars
  BY <1>12 DEF vars
<1>13. QED
  BY <1>1, <1>2, <1>3, <1>4, <1>5, <1>6, <1>7, <1>8, <1>9, <1>10, <1>11, <1>12
     DEF Next

LEMMA TableInv ==
  ASSUME IInv, [Next]_vars
  PROVE  TableStage'
<1> USE DEF IInv, TableStage, workerVars, lookupVars
<1>1. ASSUME NEW f \in Flows, Capture(f) PROVE TableStage'
  BY <1>1 DEF Capture
<1>2. ASSUME NEW f \in Flows, Ask(f) PROVE TableStage'
  BY <1>2 DEF Ask
<1>3. CASE AnswerRead
  BY <1>3 DEF AnswerRead
<1>4. CASE Dispatch
  <2>1. cur' \in Flows
    BY <1>4, RecordType DEF Dispatch, TypeOK
  <2>2. QED
    BY <1>4, <2>1 DEF Dispatch
<1>5. CASE InsertKey
  <2>1. /\ DOMAIN table' = DOMAIN table \union {KeyOf(cur)}
        /\ \A k \in DOMAIN table' :
             table'[k] = IF k \in DOMAIN table THEN table[k] ELSE Empty
    BY <1>5 DEF InsertKey
  <2>2. \A field \in Fields : Empty[field] = Zero
    BY DEF Empty
  <2>3. \A k \in DOMAIN table', field \in Fields :
          table'[k][field] # Zero => KeyOf(table'[k][field]) = k
    BY <2>1, <2>2
  <2>4. cur' = cur /\ worker' = "assign" /\ worker = "insert"
    BY <1>5 DEF InsertKey
  <2>5. QED
    BY <2>1, <2>3, <2>4
<1>6. CASE EndOfBatch
  BY <1>6 DEF EndOfBatch
<1>7. ASSUME NEW field \in Fields, AssignField(field) PROVE TableStage'
  <2>1. /\ DOMAIN table' = DOMAIN table
        /\ \A k \in DOMAIN table :
             table'[k] = IF k = KeyOf(cur) THEN [table[k] EXCEPT ![field] = cur]
                         ELSE table[k]
    BY <1>7 DEF AssignField
  <2>2. \A k \in DOMAIN table : DOMAIN table[k] = Fields
    BY DEF TypeOK, Values
  <2>3. \A k \in DOMAIN table, g \in Fields :
          \/ table'[k][g] = cur /\ k = KeyOf(cur)
          \/ table'[k][g] = table[k][g]
    BY <2>1, <2>2
  <2>4. \A k \in DOMAIN table', g \in Fields :
          table'[k][g] # Zero => KeyOf(table'[k][g]) = k
    BY <2>1, <2>3
  <2>5. worker' = "assign" => worker = "assign" /\ cur' = cur
    BY <1>7 DEF AssignField
  <2>6. worker' # "insert"
    BY <1>7 DEF AssignField
  <2>7. QED
    BY <2>1, <2>4, <2>5, <2>6
<1>8. CASE Find
  BY <1>8 DEF Find
<1>9. CASE FindFails
  BY <1>9 DEF FindFails
<1>10. CASE CopyId
  BY <1>10 DEF CopyId
<1>11. CASE CopyPath
  BY <1>11 DEF CopyPath
<1>12. CASE UNCHANGED vars
  BY <1>12 DEF vars
<1>13. QED
  BY <1>1, <1>2, <1>3, <1>4, <1>5, <1>6, <1>7, <1>8, <1>9, <1>10, <1>11, <1>12
     DEF Next

(* The worker changes the table only, and removes no key from it. *)
LEMMA WorkerKeepsKeys ==
  ASSUME IInv,
         \/ AnswerRead \/ Dispatch \/ InsertKey \/ EndOfBatch
         \/ \E f \in Flows : Capture(f)
         \/ \E field \in Fields : AssignField(field)
  PROVE  DOMAIN table \subseteq DOMAIN table' /\ UNCHANGED lookupVars
BY DEF Capture, AnswerRead, Dispatch, InsertKey, EndOfBatch, AssignField,
   workerVars, lookupVars

LEMMA LookupInv ==
  ASSUME IInv, [Next]_vars
  PROVE  LookupStage'
<1> USE DEF IInv, LookupStage, AskedKey, workerVars, lookupVars
<1>1. ASSUME NEW f \in Flows, Ask(f) PROVE LookupStage'
  <2>1. /\ lookup' = "find" /\ info' = Empty
        /\ asked' = [addr |-> AddrOf[f], port |-> PortOf[f],
                     proto |-> ProtoOf[f]]
    BY <1>1 DEF Ask
  <2>2. asked'.proto \in Protocols /\ asked'.port \in Ports
    BY <2>1, FlowTypes
  <2>3. QED
    BY <2>1, <2>2 DEF Empty
<1>2. CASE \/ AnswerRead \/ Dispatch \/ InsertKey \/ EndOfBatch
           \/ \E f \in Flows : Capture(f)
           \/ \E field \in Fields : AssignField(field)
  BY <1>2, WorkerKeepsKeys
<1>3. CASE Find
  BY <1>3 DEF Find
<1>4. CASE FindFails
  BY <1>4 DEF FindFails
<1>5. CASE CopyId
  <2>1. AskedKey' = AskedKey /\ UNCHANGED <<table, asked>>
    BY <1>5 DEF CopyId
  <2>2. \A field \in Fields :
          info'[field] \in {info[field], table[AskedKey]["processId"]}
    BY <1>5 DEF CopyId, TypeOK, Values
  <2>3. table[AskedKey]["processId"] # Zero
          => KeyOf(table[AskedKey]["processId"]) = AskedKey
    BY <1>5 DEF CopyId, TableStage, Fields
  <2>4. QED
    BY <1>5, <2>1, <2>2, <2>3 DEF CopyId
<1>6. CASE CopyPath
  <2> DEFINE path == table[AskedKey]["processPath"]
  <2>1. AskedKey' = AskedKey /\ UNCHANGED <<table, asked>>
    BY <1>6 DEF CopyPath
  <2>2. \A field \in Fields : info'[field] \in {info[field], path, Zero}
    BY <1>6 DEF CopyPath, TypeOK, Values
  <2>3. path # Zero => KeyOf(path) = AskedKey
    BY <1>6 DEF CopyPath, TableStage, Fields
  <2>4. QED
    BY <1>6, <2>1, <2>2, <2>3 DEF CopyPath
<1>7. CASE UNCHANGED vars
  BY <1>7 DEF vars
<1>8. QED
  BY <1>1, <1>2, <1>3, <1>4, <1>5, <1>6, <1>7 DEF Next

LEMMA DriveInv ==
  ASSUME IInv, [Next]_vars
  PROVE  DriveStage'
<1> USE DEF IInv, DriveStage, workerVars, lookupVars
<1>1. ASSUME NEW f \in Flows, Ask(f) PROVE DriveStage'
  BY <1>1 DEF Ask
<1>2. CASE \/ AnswerRead \/ Dispatch \/ InsertKey \/ EndOfBatch
           \/ \E f \in Flows : Capture(f)
           \/ \E field \in Fields : AssignField(field)
  BY <1>2, WorkerKeepsKeys
<1>3. CASE Find
  BY <1>3 DEF Find
<1>4. CASE FindFails
  BY <1>4 DEF FindFails
<1>5. CASE CopyId
  BY <1>5 DEF CopyId
<1>6. CASE CopyPath
  <2> DEFINE path == table[AskedKey]["processPath"]
  <2>1. drive = Unchanged /\ lookup' = "found"
    BY <1>6 DEF CopyPath
  <2>2. CASE path = Zero
    BY <1>6, <2>1, <2>2 DEF CopyPath
  <2>3. CASE path # Zero /\ drive' \notin {Unchanged, Lost}
    <3>1. drive' \in Translations(VolumeOf[path])
      BY <1>6, <2>3 DEF CopyPath
    <3>2. PICK i \in 1..Len(Drives) :
            /\ drive' = Drives[i] /\ Considered(i)
            /\ Reached(i, VolumeOf[path]) /\ Matches(i, VolumeOf[path])
      BY <2>3, <3>1 DEF Translations
    <3>3. path \in Flows
      BY <1>6, <2>3 DEF CopyPath, LookupStage, TypeOK, Values, Fields
    <3>4. info'["processPath"] = path
      BY <1>6, <2>3 DEF CopyPath, TypeOK, Values, Fields
    <3>5. QED
      BY <2>1, <3>2, <3>3, <3>4
  <2>4. CASE path # Zero /\ drive' \in {Unchanged, Lost}
    BY <2>1, <2>4
  <2>5. QED
    BY <2>2, <2>3, <2>4
<1>7. CASE UNCHANGED vars
  BY <1>7 DEF vars
<1>8. QED
  BY <1>1, <1>2, <1>3, <1>4, <1>5, <1>6, <1>7 DEF Next

LEMMA NextInv == ASSUME IInv, [Next]_vars PROVE IInv'
BY TypeOKInv, TableInv, LookupInv, DriveInv DEF IInv

(* The inductive invariant holds in every reachable state. *)
THEOREM Invariance == Spec => []IInv
<1>1. Init => IInv
  BY InitInv
<1>2. IInv /\ [Next]_vars => IInv'
  BY NextInv
<1>3. QED
  BY <1>1, <1>2, PTL DEF Spec

(* Every variable keeps its type. *)
THEOREM TypeCorrect == Spec => []TypeOK
<1>1. IInv => TypeOK
  BY DEF IInv
<1>2. QED
  BY <1>1, Invariance, PTL

(* A lookup never returns a flow of another port or protocol, however the  *)
(* worker's insertion and its assignments come between its own steps.      *)
THEOREM LookupIsOfThePort == Spec => []ResultIsOfThePort
<1>1. IInv => ResultIsOfThePort
  <2>1. SUFFICES ASSUME IInv, lookup = "found", NEW field \in Fields,
                        info[field] # Zero
                 PROVE  /\ PortOf[info[field]] = asked.port
                        /\ ProtoOf[info[field]] = asked.proto
    BY DEF ResultIsOfThePort
  <2>2. info[field] \in Flows
    BY <2>1 DEF IInv, TypeOK, Values
  <2>3. asked.proto \in Protocols /\ asked.port \in Ports
    BY <2>1 DEF IInv, LookupStage
  <2>4. Key(ProtoOf[info[field]], PortOf[info[field]])
          = Key(asked.proto, asked.port)
    BY <2>1, <2>2, FlowTypes DEF IInv, LookupStage, AskedKey
  <2>5. QED
    BY <2>2, <2>3, <2>4, FlowTypes, KeyIsInjective
<1>2. QED
  BY <1>1, Invariance, PTL

(* The drives are a list of letters. *)
LEMMA DriveTypes ==
  /\ Len(Drives) \in Nat /\ DOMAIN Drives = 1..Len(Drives)
  /\ \A i \in 1..Len(Drives) : Drives[i] \notin {Unchanged, Lost}
<1> DEFINE Letters == STRING \ {Unchanged, Lost}
<1>1. \A S : \A s \in Seq(S) : /\ Len(s) \in Nat /\ DOMAIN s = 1..Len(s)
                             /\ \A i \in 1..Len(s) : s[i] \in S
  OBVIOUS
<1>2. Drives \in Seq(Letters)
  BY DrivesAssumption
<1>3. \A letter \in Letters : letter \notin {Unchanged, Lost}
  OBVIOUS
<1> HIDE DEF Letters
<1>4. QED
  BY <1>1, <1>2, <1>3

(* A path comes back with the letter of a drive whose device name begins   *)
(* its volume's, and of none that is listed after the volume's own drive.  *)
THEOREM DriveIsFirstMatch == Spec => []PathIsOnItsDrive
<1>1. IInv => PathIsOnItsDrive
  <2> DEFINE place(d) == CHOOSE i \in 1..Len(Drives) : Drives[i] = d
             volume == VolumeOf[info["processPath"]]
  <2>1. SUFFICES ASSUME IInv, drive \in Range(Drives)
                 PROVE  /\ drive # "A" /\ <<DeviceOf[drive], volume>> \in Begins
                        /\ \A d \in Range(Drives) :
                             d # "A" /\ DeviceOf[d] = volume
                               => place(drive) <= place(d)
    BY DEF PathIsOnItsDrive
  <2>2. \A j \in 1..Len(Drives) : place(Drives[j]) = j
    BY DrivesAssumption
  <2>3. drive \notin {Unchanged, Lost}
    BY <2>1, DriveTypes DEF Range
  <2>4. PICK i \in 1..Len(Drives) :
          /\ drive = Drives[i] /\ Considered(i)
          /\ Reached(i, volume) /\ Matches(i, volume)
    BY <2>1, <2>3 DEF IInv, DriveStage
  <2>5. drive # "A" /\ <<DeviceOf[drive], volume>> \in Begins
    BY <2>4 DEF Considered, Matches
  <2>6. ASSUME NEW d \in Range(Drives), d # "A", DeviceOf[d] = volume
        PROVE  place(drive) <= place(d)
    <3>1. PICK j \in 1..Len(Drives) : d = Drives[j]
      BY DriveTypes DEF Range
    <3>2. Considered(j) /\ Matches(j, volume)
      BY <2>6, <3>1, DrivesAssumption DEF Considered, Matches
    <3>3. ~(j < i)
      BY <2>4, <3>2 DEF Reached
    <3>4. place(drive) = i /\ place(d) = j
      BY <2>2, <2>4, <3>1
    <3>5. i <= j
      BY <3>3, DriveTypes
    <3> HIDE DEF place
    <3>6. QED
      BY <3>4, <3>5
  <2> HIDE DEF place
  <2>7. QED
    BY <2>5, <2>6
<1>2. QED
  BY <1>1, Invariance, PTL

-----------------------------------------------------------------------------
(* The newest flow, when the client's steps are shorter than the records.  *)

(* The last captured of the flows that were delivered. *)
Newest(f) == f \in delivered /\ \A g \in delivered : Age(g) <= Age(f)

(* The driver's list: what is at its head was captured last. *)
QueueStage ==
  /\ Distinct(captured)
  /\ Range(held) \subseteq Range(captured)
  /\ Range(dispatched) \subseteq delivered
  /\ delivered \subseteq Range(captured)
  /\ held # <<>> => captured # <<>> /\ held[1] = captured[Len(captured)]

(* The entry of a key at rest holds dispatched flows, none older than f. *)
Replaces(f) ==
  /\ KeyOf(f) \in DOMAIN table
  /\ \A field \in Fields :
       /\ table[KeyOf(f)][field] \in Range(dispatched)
       /\ Age(table[KeyOf(f)][field]) >= Age(f)

NewestThere ==
  \A f \in delivered :
    Newest(f) => /\ KeyOf(f) \in DOMAIN table
                 /\ \A field \in Fields : table[KeyOf(f)][field] = f

(* Only the first record of a batch is dispatched, and it is the newest. *)
BatchStage ==
  /\ worker = "parse" =>
       \/ /\ offset = 0 /\ batch # <<>>
          /\ Newest(batch[1]) /\ readBytes >= ClientHeader
       \/ offset = NextOffset(0) /\ NewestThere
  /\ worker \in {"insert", "assign"} =>
       offset = 0 /\ Newest(cur) /\ cur \in Range(dispatched)
  /\ worker = "wait" => NewestThere

EntryStage ==
  /\ \A f \in Range(dispatched) :
       \/ worker \in {"insert", "assign"} /\ KeyOf(f) = KeyOf(cur)
       \/ Replaces(f)
  /\ worker = "assign" =>
       \A field \in Fields \ unassigned : table[KeyOf(cur)][field] = cur

(* The inductive invariant of the order of flows. *)
OrderInv == IInv /\ QueueStage /\ BatchStage /\ EntryStage

(* Each flow has its own place in the order of capture. *)
LEMMA AgeFacts ==
  ASSUME IInv, QueueStage, NEW f \in Range(captured)
  PROVE  Age(f) \in 1..Len(captured) /\ captured[Age(f)] = f
<1>1. DOMAIN captured = 1..Len(captured)
  BY DEF IInv, TypeOK
<1>2. \E n \in 1..Len(captured) : captured[n] = f
  BY <1>1 DEF Range
<1>3. QED
  BY <1>2 DEF Age

(* It keeps it. *)
LEMMA AgeKept ==
  ASSUME IInv, QueueStage, [Next]_vars, NEW f \in Range(captured)
  PROVE  f \in Range(captured') /\ Age(f)' = Age(f)
<1>1. CASE captured' = captured
  BY <1>1 DEF Age
<1>2. ASSUME NEW e \in Flows, Capture(e)
      PROVE  f \in Range(captured') /\ Age(f)' = Age(f)
  <2>1. captured \in Seq(Flows) /\ e \notin Range(captured)
        /\ captured' = Append(captured, e)
    BY <1>2 DEF Capture, IInv, TypeOK
  <2>2. /\ Distinct(captured') /\ captured' \in Seq(Flows)
        /\ Range(captured') = Range(captured) \union {e}
    BY <2>1, AppendFacts DEF QueueStage
  <2>3. Age(f) \in 1..Len(captured) /\ captured[Age(f)] = f
    BY AgeFacts
  <2>4. /\ Len(captured') = Len(captured) + 1 /\ Len(captured) \in Nat
        /\ captured'[Age(f)] = f
    BY <2>1, <2>3
  <2>5. \A n \in 1..Len(captured') : captured'[n] = f => n = Age(f)
    BY <2>2, <2>3, <2>4 DEF Distinct
  <2>6. Age(f) \in 1..Len(captured')
    BY <2>3, <2>4
  <2>7. (CHOOSE n \in 1..Len(captured') : captured'[n] = f) = Age(f)
    BY <2>4, <2>5, <2>6
  <2>8. QED
    BY <2>2, <2>7 DEF Age
<1>3. captured' = captured \/ \E e \in Flows : Capture(e)
  BY DEF Next, vars, Ask, AnswerRead, Dispatch, InsertKey, EndOfBatch,
     AssignField, Find, FindFails, CopyId, CopyPath
<1>4. QED
  BY <1>1, <1>2, <1>3

(* The client's second step ends inside of the first record. *)
LEMMA RecordAtFacts ==
  ASSUME ClientHeader < DriverHeader, IInv
  PROVE  /\ RecordAt(NextOffset(0)) = Zero
         /\ batch # <<>> => RecordAt(0) = batch[1] /\ batch[1] \in Flows
<1> DEFINE R == DriverHeader + RecordLength
<1>1. /\ NextOffset(0) \in Nat \ {0} /\ NextOffset(0) < R
      /\ R \in Nat \ {0} /\ Len(batch) \in Nat
  BY HeaderAssumption DEF NextOffset, IInv, TypeOK
<1>2. \A k \in Nat : k = 0 \/ k * R >= R
  <2>1. \A k \in Nat, r \in Nat : k = 0 \/ k * r >= r
    BY SMT
  <2>2. QED
    BY <1>1, <2>1
<1>3. ~\E n \in 1..Len(batch) : NextOffset(0) = (n - 1) * R
  <2>1. SUFFICES ASSUME NEW n \in 1..Len(batch), NextOffset(0) = (n - 1) * R
                 PROVE  FALSE
    OBVIOUS
  <2>2. n - 1 \in Nat
    BY <1>1
  <2>3. CASE n - 1 = 0
    <3>1. 0 * R = 0
      BY <1>1
    <3>2. QED
      BY <1>1, <2>1, <2>3, <3>1
  <2>4. CASE (n - 1) * R >= R
    BY <1>1, <2>1, <2>4
  <2>5. QED
    BY <1>2, <2>2, <2>3, <2>4
<1>4. RecordAt(NextOffset(0)) = Zero
  BY <1>3 DEF RecordAt
<1>5. ASSUME batch # <<>> PROVE RecordAt(0) = batch[1] /\ batch[1] \in Flows
  <2>1. 1 \in 1..Len(batch) /\ batch[1] \in Flows
    BY <1>5 DEF IInv, TypeOK
  <2>2. 0 = (1 - 1) * R /\ 0 \div R = 0
    BY <1>1
  <2>3. \E n \in 1..Len(batch) : 0 = (n - 1) * R
    BY <2>1, <2>2
  <2>4. QED
    BY <2>1, <2>2, <2>3 DEF RecordAt
<1>6. QED
  BY <1>4, <1>5

LEMMA QueueInv ==
  ASSUME OrderInv, [Next]_vars, ClientHeader < DriverHeader
  PROVE  QueueStage'
<1> USE DEF OrderInv, QueueStage, workerVars, lookupVars
<1>0. /\ captured \in Seq(Flows) /\ held \in Seq(Flows)
      /\ dispatched \in Seq(Flows)
  BY DEF IInv, TypeOK
<1>1. ASSUME NEW f \in Flows, Capture(f) PROVE QueueStage'
  <2>1. /\ captured' \in Seq(Flows) /\ Distinct(captured')
        /\ Range(captured') = Range(captured) \union {f}
    BY <1>0, <1>1, AppendFacts DEF Capture
  <2>2. /\ Range(held') = {f} \union Range(held) /\ held'[1] = f
    <3>1. \A s \in Seq(Flows) : (<<f>> \o s)[1] = f
      OBVIOUS
    <3>2. held' = <<f>> \o held
      BY <1>1 DEF Capture
    <3>3. QED
      BY <1>0, <3>1, <3>2, ConsFacts
  <2>3. captured' # <<>> /\ captured'[Len(captured')] = f
    BY <1>0, <1>1 DEF Capture
  <2>4. UNCHANGED <<delivered, dispatched>>
    BY <1>1 DEF Capture
  <2>5. QED
    BY <2>1, <2>2, <2>3, <2>4
<1>2. CASE AnswerRead
  <2>1. held' = <<>> /\ delivered' = delivered \union Range(held)
        /\ UNCHANGED <<captured, dispatched>>
    BY <1>2 DEF AnswerRead
  <2>2. Range(<<>>) = {}
    BY DEF Range
  <2>3. QED
    BY <2>1, <2>2
<1>3. CASE Dispatch
  <2>1. dispatched' = Append(dispatched, cur')
        /\ UNCHANGED <<held, captured, delivered>>
    BY <1>3 DEF Dispatch
  <2>2. cur' \in delivered
    BY <1>3, RecordAtFacts DEF Dispatch, BatchStage, Newest
  <2>3. cur' \in Flows
    BY <1>3, RecordType DEF Dispatch, IInv, TypeOK
  <2>4. Range(dispatched') = Range(dispatched) \union {cur'}
    <3> DEFINE last == <<cur'>>
    <3>1. /\ last \in Seq(Flows) /\ Range(last) = {cur'}
          /\ Append(dispatched, cur') = dispatched \o last
      BY <1>0, <2>3 DEF Range
    <3> HIDE DEF last
    <3>2. Range(dispatched \o last) = Range(dispatched) \union Range(last)
      BY <1>0, <3>1, ConcatFacts
    <3>3. QED
      BY <2>1, <3>1, <3>2
  <2>5. QED
    BY <2>1, <2>2, <2>4
<1>4. CASE UNCHANGED <<held, captured, delivered, dispatched>>
  BY <1>4
<1>5. QED
  BY <1>1, <1>2, <1>3, <1>4
     DEF Next, vars, Ask, InsertKey, EndOfBatch, AssignField, Find, FindFails,
         CopyId, CopyPath

(* The order of what has been delivered changes with a delivery only. *)
LEMMA NewestKept ==
  ASSUME OrderInv, [Next]_vars, delivered' = delivered, NEW f
  PROVE  Newest(f)' <=> Newest(f)
<1>1. \A g \in delivered : Age(g)' = Age(g)
  <2>1. SUFFICES ASSUME NEW g \in delivered PROVE Age(g)' = Age(g)
    OBVIOUS
  <2>2. g \in Range(captured)
    BY DEF OrderInv, QueueStage
  <2>3. QED
    BY <2>2, AgeKept DEF OrderInv
<1>2. QED
  BY <1>1 DEF Newest

LEMMA NewestIsOne ==
  ASSUME OrderInv, NEW f, NEW g, Newest(f), Newest(g)
  PROVE  f = g
<1>1. f \in Range(captured) /\ g \in Range(captured)
  BY DEF OrderInv, QueueStage, Newest
<1>2. /\ Age(f) \in 1..Len(captured) /\ captured[Age(f)] = f
      /\ Age(g) \in 1..Len(captured) /\ captured[Age(g)] = g
  BY <1>1, AgeFacts DEF OrderInv
<1>3. Len(captured) \in Nat
  BY DEF OrderInv, IInv, TypeOK
<1>4. Age(f) <= Age(g) /\ Age(g) <= Age(f)
  BY DEF Newest
<1>5. Age(f) = Age(g)
  BY <1>2, <1>3, <1>4
<1>6. QED
  BY <1>2, <1>5

LEMMA NewestThereKept ==
  ASSUME OrderInv, [Next]_vars, NewestThere, UNCHANGED <<delivered, table>>
  PROVE  NewestThere'
BY NewestKept DEF NewestThere

(* Steps that neither deliver nor touch the table. *)
LEMMA BatchQuietInv ==
  ASSUME OrderInv, [Next]_vars,
         UNCHANGED <<batch, worker, offset, readBytes, cur, table, delivered,
                     dispatched>>
  PROVE  BatchStage'
<1>1. \A f : Newest(f)' <=> Newest(f)
  BY NewestKept
<1>2. NewestThere => NewestThere'
  BY NewestThereKept
<1>3. NextOffset(0)' = NextOffset(0)
  BY DEF NextOffset
<1>4. CASE worker = "parse" /\ offset = 0 /\ batch # <<>> /\ Newest(batch[1])
           /\ readBytes >= ClientHeader
  BY <1>1, <1>4 DEF BatchStage
<1>5. CASE worker = "parse" /\ offset = NextOffset(0) /\ NewestThere
  BY <1>2, <1>3, <1>5 DEF BatchStage
<1>6. CASE worker \in {"insert", "assign"}
  BY <1>1, <1>6 DEF OrderInv, BatchStage
<1>7. CASE worker = "wait"
  BY <1>2, <1>7 DEF OrderInv, BatchStage
<1>8. QED
  BY <1>4, <1>5, <1>6, <1>7 DEF OrderInv, BatchStage, IInv, TypeOK

(* An answer delivers the last captured flow at the head of its batch. *)
LEMMA AnswerBatchInv ==
  ASSUME OrderInv, [Next]_vars, AnswerRead, ClientHeader < DriverHeader
  PROVE  BatchStage'
<1>1. /\ worker' = "parse" /\ offset' = 0 /\ batch' = held /\ held # <<>>
      /\ readBytes' = Len(held) * (DriverHeader + RecordLength)
      /\ delivered' = delivered \union Range(held) /\ captured' = captured
  BY DEF AnswerRead
<1>2. held \in Seq(Flows) /\ captured \in Seq(Flows)
  BY DEF OrderInv, IInv, TypeOK
<1>3. readBytes' >= ClientHeader
  <2>1. Len(held) \in Nat \ {0}
    BY <1>1, <1>2
  <2>2. \A k \in Nat \ {0}, r \in Nat : k * r >= r
    BY SMT
  <2>3. readBytes' >= DriverHeader + RecordLength
    BY <1>1, <2>1, <2>2, HeaderAssumption
  <2>4. readBytes' \in Nat
    BY <1>1, <2>1, HeaderAssumption
  <2>5. QED
    BY <2>3, <2>4, HeaderAssumption
<1>4. /\ held[1] = captured[Len(captured)] /\ captured # <<>>
      /\ delivered' \subseteq Range(captured)
  BY <1>1 DEF OrderInv, QueueStage
<1>5. held[1] \in delivered'
  BY <1>1, <1>2, RangeFacts, RangeByPlace
<1>6. Age(held[1]) = Len(captured)
  <2>1. /\ Age(held[1]) \in 1..Len(captured)
        /\ captured[Age(held[1])] = captured[Len(captured)]
    BY <1>4, <1>5, AgeFacts DEF OrderInv
  <2>2. Len(captured) \in 1..Len(captured)
    BY <1>2, <1>4
  <2>3. QED
    BY <2>1, <2>2 DEF OrderInv, QueueStage, Distinct
<1>7. \A g \in delivered' : Age(g) \in 1..Len(captured)
  BY <1>4, AgeFacts DEF OrderInv
<1>8. \A g \in delivered' : Age(g) <= Age(held[1])
  BY <1>2, <1>6, <1>7
<1>9. \A g : Age(g)' = Age(g)
  BY <1>1 DEF Age
<1>10. Newest(batch[1])'
  BY <1>1, <1>5, <1>8, <1>9 DEF Newest
<1>11. QED
  BY <1>1, <1>3, <1>10 DEF BatchStage

(* The worker gets to a record at the start of the batch only. *)
LEMMA DispatchFacts ==
  ASSUME OrderInv, Dispatch, ClientHeader < DriverHeader
  PROVE  offset = 0 /\ cur' = batch[1] /\ cur' \in Flows /\ Newest(cur')
<1>1. RecordAt(offset) # Zero /\ worker = "parse" /\ cur' = RecordAt(offset)
  BY DEF Dispatch
<1>2. offset = 0 /\ batch # <<>> /\ Newest(batch[1])
  BY <1>1, RecordAtFacts DEF OrderInv, BatchStage
<1>3. QED
  BY <1>1, <1>2, RecordAtFacts DEF OrderInv

LEMMA DispatchedGrows ==
  ASSUME IInv, Dispatch, cur' \in Flows
  PROVE  Range(dispatched') = Range(dispatched) \union {cur'}
<1> DEFINE last == <<cur'>>
<1>1. dispatched \in Seq(Flows) /\ dispatched' = Append(dispatched, cur')
  BY DEF Dispatch, IInv, TypeOK
<1>2. /\ last \in Seq(Flows) /\ Range(last) = {cur'}
      /\ Append(dispatched, cur') = dispatched \o last
  BY <1>1 DEF Range
<1> HIDE DEF last
<1>3. Range(dispatched \o last) = Range(dispatched) \union Range(last)
  BY <1>1, <1>2, ConcatFacts
<1>4. QED
  BY <1>1, <1>2, <1>3

LEMMA BatchInv ==
  ASSUME OrderInv, [Next]_vars, ClientHeader < DriverHeader
  PROVE  BatchStage'
<1>1. CASE AnswerRead
  BY <1>1, AnswerBatchInv
<1>2. CASE Dispatch
  <2>1. offset = 0 /\ cur' \in Flows /\ Newest(cur')
    BY <1>2, DispatchFacts
  <2>2. cur' \in Range(dispatched')
    BY <1>2, <2>1, DispatchedGrows DEF OrderInv
  <2>3. /\ worker' = "insert" /\ offset' = offset /\ delivered' = delivered
    BY <1>2 DEF Dispatch
  <2>4. Newest(cur)'
    <3>1. cur' \in delivered' /\ \A g \in delivered' : Age(g) <= Age(cur')
      BY <2>1, <2>3 DEF Newest
    <3>2. \A g : Age(g)' = Age(g)
      BY <1>2 DEF Dispatch, Age
    <3>3. Age(cur)' = Age(cur')
      BY <1>2 DEF Dispatch, Age
    <3>4. QED
      BY <3>1, <3>2, <3>3 DEF Newest
  <2>5. QED
    BY <2>1, <2>2, <2>3, <2>4 DEF BatchStage
<1>3. CASE InsertKey
  <2>1. /\ worker = "insert" /\ worker' = "assign"
        /\ UNCHANGED <<offset, cur, delivered, dispatched>>
    BY <1>3 DEF InsertKey
  <2>2. Newest(cur)'
    BY <2>1, NewestKept DEF OrderInv, BatchStage
  <2>3. QED
    BY <2>1, <2>2 DEF OrderInv, BatchStage
<1>4. ASSUME NEW field \in Fields, AssignField(field) PROVE BatchStage'
  <2>1. /\ worker = "assign" /\ offset = 0 /\ Newest(cur)
        /\ cur \in Range(dispatched) /\ UNCHANGED <<delivered, dispatched>>
    BY <1>4 DEF AssignField, OrderInv, BatchStage
  <2>2. CASE unassigned' # {}
    <3>1. UNCHANGED <<worker, offset, cur>>
      BY <1>4, <2>2 DEF AssignField
    <3>2. Newest(cur)'
      BY <2>1, <3>1, NewestKept
    <3>3. QED
      BY <2>1, <3>1, <3>2 DEF BatchStage
  <2>3. CASE unassigned' = {}
    <3>1. /\ DOMAIN table' = DOMAIN table /\ KeyOf(cur) \in DOMAIN table
          /\ \A g \in Fields : table'[KeyOf(cur)][g] = cur
      <4>1. unassigned \subseteq {field}
        BY <1>4, <2>3 DEF AssignField
      <4>2. KeyOf(cur) \in DOMAIN table /\ DOMAIN table[KeyOf(cur)] = Fields
        BY <2>1 DEF OrderInv, IInv, TableStage, TypeOK, Values
      <4>3. /\ DOMAIN table' = DOMAIN table
            /\ table'[KeyOf(cur)] = [table[KeyOf(cur)] EXCEPT ![field] = cur]
        BY <1>4, <4>2 DEF AssignField
      <4>4. \A g \in Fields \ {field} : table[KeyOf(cur)][g] = cur
        BY <2>1, <4>1 DEF OrderInv, EntryStage
      <4>5. QED
        BY <4>2, <4>3, <4>4
    <3>2. NewestThere'
      <4>1. SUFFICES ASSUME NEW f \in delivered, Newest(f)
                     PROVE  /\ KeyOf(f) \in DOMAIN table'
                            /\ \A g \in Fields : table'[KeyOf(f)][g] = f
        BY <2>1, NewestKept DEF NewestThere, KeyOf
      <4>2. f = cur
        BY <2>1, <4>1, NewestIsOne
      <4>3. QED
        BY <3>1, <4>2
    <3>3. \/ worker' = "wait"
          \/ worker' = "parse" /\ offset' = NextOffset(offset)
      <4>1. CASE NextOffset(0) > readBytes
        BY <1>4, <2>3, <4>1 DEF AssignField
      <4>2. CASE ~(NextOffset(0) > readBytes)
        BY <1>4, <2>3, <4>2 DEF AssignField
      <4>3. QED
        BY <4>1, <4>2
    <3>4. NextOffset(0)' = NextOffset(0)
      BY DEF NextOffset
    <3>5. QED
      BY <2>1, <3>2, <3>3, <3>4 DEF BatchStage
  <2>4. QED
    BY <2>2, <2>3
<1>5. CASE EndOfBatch
  <2>1. /\ worker = "parse" /\ worker' = "wait"
        /\ readBytes < ClientHeader \/ RecordAt(offset) = Zero
        /\ UNCHANGED <<table, delivered>>
    BY <1>5 DEF EndOfBatch
  <2>2. NewestThere
    <3>1. SUFFICES ASSUME offset = 0, batch # <<>>, readBytes >= ClientHeader
                   PROVE  FALSE
      BY <2>1 DEF OrderInv, BatchStage
    <3>2. RecordAt(offset) # Zero
      BY <3>1, RecordAtFacts, FlowTypes DEF OrderInv
    <3>3. readBytes \in Nat
      BY DEF OrderInv, IInv, TypeOK
    <3>4. QED
      BY <2>1, <3>1, <3>2, <3>3, HeaderAssumption
  <2>3. QED
    BY <2>1, <2>2, NewestThereKept DEF BatchStage
<1>6. CASE UNCHANGED <<batch, worker, offset, readBytes, cur, table, delivered,
                       dispatched>>
  BY <1>6, BatchQuietInv
<1>7. QED
  BY <1>1, <1>2, <1>3, <1>4, <1>5, <1>6
     DEF Next, vars, workerVars, Capture, Ask, Find, FindFails, CopyId, CopyPath

(* What the entry of a key is after a step, flow by flow. *)
LEMMA ReplacesByEntry ==
  ASSUME NEW f, KeyOf(f) \in DOMAIN table',
         \A field \in Fields : \A h :
           h = table'[KeyOf(f)][field]
             => h \in Range(dispatched') /\ Age(h)' >= Age(f)'
  PROVE  Replaces(f)'
<1>1. KeyOf(f)' = KeyOf(f)
  BY DEF KeyOf, Key
<1>2. QED
  BY <1>1 DEF Replaces, Age

(* An entry that is not touched keeps replacing what it replaced. *)
LEMMA ReplacesKept ==
  ASSUME OrderInv, [Next]_vars, NEW f \in Range(dispatched), Replaces(f),
         Range(dispatched) \subseteq Range(dispatched'),
         KeyOf(f) \in DOMAIN table',
         \A field \in Fields : table'[KeyOf(f)][field] = table[KeyOf(f)][field]
  PROVE  Replaces(f)'
<1>1. \A g \in Range(dispatched) : Age(g)' = Age(g)
  <2>1. SUFFICES ASSUME NEW g \in Range(dispatched) PROVE Age(g)' = Age(g)
    OBVIOUS
  <2>2. g \in Range(captured)
    BY DEF OrderInv, QueueStage
  <2>3. QED
    BY <2>2, AgeKept DEF OrderInv
<1>2. ASSUME NEW field \in Fields, NEW h, h = table'[KeyOf(f)][field]
      PROVE  h \in Range(dispatched') /\ Age(h)' >= Age(f)'
  <2>1. h \in Range(dispatched) /\ Age(h) >= Age(f)
    BY <1>2 DEF Replaces
  <2>2. QED
    BY <1>1, <2>1
<1>3. QED
  BY <1>2, ReplacesByEntry

LEMMA EntryInv ==
  ASSUME OrderInv, [Next]_vars, ClientHeader < DriverHeader
  PROVE  EntryStage'
<1> USE DEF OrderInv, EntryStage
<1>0. \A f : KeyOf(f)' = KeyOf(f)
  BY DEF KeyOf, Key
<1>1. CASE AnswerRead
  <2>1. /\ worker = "wait" /\ worker' = "parse"
        /\ UNCHANGED <<dispatched, table>>
    BY <1>1 DEF AnswerRead
  <2>2. \A f \in Range(dispatched) : Replaces(f)'
    BY <2>1, ReplacesKept DEF Replaces
  <2>3. QED
    BY <2>1, <2>2
<1>2. CASE Dispatch
  <2>1. Range(dispatched') = Range(dispatched) \union {cur'}
    BY <1>2, DispatchFacts, DispatchedGrows
  <2>2. worker = "parse" /\ worker' = "insert" /\ table' = table
    BY <1>2 DEF Dispatch
  <2>3. \A f \in Range(dispatched) : Replaces(f)'
    BY <2>1, <2>2, ReplacesKept DEF Replaces
  <2>4. KeyOf(cur') = KeyOf(cur)'
    BY DEF KeyOf, Key
  <2>5. \A f \in Range(dispatched') :
          \/ worker' \in {"insert", "assign"} /\ KeyOf(f)' = KeyOf(cur)'
          \/ Replaces(f)'
    BY <1>0, <2>1, <2>2, <2>3, <2>4
  <2>6. QED
    BY <2>2, <2>5
<1>3. CASE InsertKey
  <2>1. /\ worker = "insert" /\ worker' = "assign" /\ unassigned' = Fields
        /\ UNCHANGED <<dispatched, cur>>
        /\ DOMAIN table \subseteq DOMAIN table'
        /\ \A k \in DOMAIN table : table'[k] = table[k]
    BY <1>3 DEF InsertKey
  <2>2. KeyOf(cur)' = KeyOf(cur)
    BY <2>1 DEF KeyOf, Key
  <2>3. \A f \in Range(dispatched) : KeyOf(f) # KeyOf(cur) => Replaces(f)'
    <3>1. SUFFICES ASSUME NEW f \in Range(dispatched), KeyOf(f) # KeyOf(cur)
                   PROVE  Replaces(f)'
      OBVIOUS
    <3>2. Replaces(f)
      BY <3>1
    <3>3. KeyOf(f) \in DOMAIN table
      BY <3>2 DEF Replaces
    <3>4. QED
      BY <2>1, <3>2, <3>3, ReplacesKept
  <2>4. QED
    BY <1>0, <2>1, <2>2, <2>3
<1>4. ASSUME NEW field \in Fields, AssignField(field) PROVE EntryStage'
  <2>1. /\ worker = "assign" /\ UNCHANGED <<delivered, dispatched, captured>>
        /\ unassigned' = unassigned \ {field}
    BY <1>4 DEF AssignField
  <2>2. /\ cur \in Flows /\ KeyOf(cur) \in DOMAIN table
        /\ DOMAIN table[KeyOf(cur)] = Fields
        /\ Newest(cur) /\ cur \in Range(dispatched)
    BY <2>1 DEF IInv, TableStage, TypeOK, Values, BatchStage
  <2>3. /\ DOMAIN table' = DOMAIN table
        /\ \A k \in DOMAIN table : k # KeyOf(cur) => table'[k] = table[k]
        /\ table'[KeyOf(cur)] = [table[KeyOf(cur)] EXCEPT ![field] = cur]
    BY <1>4, <2>2 DEF AssignField
  <2>4. \A g \in Fields \ unassigned' : table'[KeyOf(cur)][g] = cur
    BY <2>1, <2>2, <2>3
  <2>5. \A f \in Range(dispatched) : KeyOf(f) # KeyOf(cur) => Replaces(f)'
    <3>1. SUFFICES ASSUME NEW f \in Range(dispatched), KeyOf(f) # KeyOf(cur)
                   PROVE  Replaces(f)'
      OBVIOUS
    <3>2. Replaces(f)
      BY <3>1
    <3>3. KeyOf(f) \in DOMAIN table
      BY <3>2 DEF Replaces
    <3>4. QED
      BY <2>1, <2>3, <3>1, <3>2, <3>3, ReplacesKept
  <2>6. CASE unassigned' # {}
    <3>1. worker' = "assign" /\ cur' = cur
      BY <1>4, <2>1, <2>6 DEF AssignField
    <3>2. KeyOf(cur)' = KeyOf(cur)
      BY <3>1 DEF KeyOf, Key
    <3>3. QED
      BY <1>0, <2>1, <2>4, <2>5, <3>1, <3>2
  <2>7. CASE unassigned' = {}
    <3>1. worker' \in {"wait", "parse"}
      <4>1. CASE NextOffset(0) > readBytes
        BY <1>4, <2>7, <4>1 DEF AssignField
      <4>2. CASE ~(NextOffset(0) > readBytes)
        BY <1>4, <2>7, <4>2 DEF AssignField
      <4>3. QED
        BY <4>1, <4>2
    <3>2. ASSUME NEW f \in Range(dispatched), KeyOf(f) = KeyOf(cur)
          PROVE  Replaces(f)'
      <4>1. f \in delivered /\ Age(f) <= Age(cur)
        BY <2>2, <3>2 DEF QueueStage, Newest
      <4>2. f \in Range(captured) /\ cur \in Range(captured)
        BY <2>2, <4>1 DEF QueueStage, Newest
      <4>3. \A g : Age(g)' = Age(g)
        BY <2>1 DEF Age
      <4>4. Age(f) \in Int /\ Age(cur) \in Int
        BY <4>2, AgeFacts
      <4>5. \A g \in Fields : table'[KeyOf(f)][g] = cur
        BY <2>4, <2>7, <3>2
      <4>6. cur \in Range(dispatched') /\ Age(cur) >= Age(f)
        BY <2>1, <2>2, <4>1, <4>4
      <4>7. KeyOf(f) \in DOMAIN table'
        BY <2>2, <2>3, <3>2
      <4>8. \A g \in Fields : \A h :
              h = table'[KeyOf(f)][g]
                => h \in Range(dispatched') /\ Age(h)' >= Age(f)'
        BY <4>3, <4>5, <4>6
      <4>9. QED
        BY <4>7, <4>8, ReplacesByEntry
    <3>3. QED
      BY <2>1, <2>5, <3>1, <3>2
  <2>8. QED
    BY <2>6, <2>7
<1>5. CASE EndOfBatch
  <2>1. /\ worker = "parse" /\ worker' = "wait"
        /\ UNCHANGED <<dispatched, table>>
    BY <1>5 DEF EndOfBatch
  <2>2. \A f \in Range(dispatched) : Replaces(f)'
    BY <2>1, ReplacesKept DEF Replaces
  <2>3. QED
    BY <2>1, <2>2
<1>6. CASE UNCHANGED <<worker, cur, unassigned, table, dispatched>>
  <2>1. KeyOf(cur)' = KeyOf(cur)
    BY <1>6 DEF KeyOf, Key
  <2>2. \A f \in Range(dispatched) : Replaces(f) => Replaces(f)'
    BY <1>6, ReplacesKept DEF Replaces
  <2>3. QED
    BY <1>0, <1>6, <2>1, <2>2
<1>7. QED
  BY <1>1, <1>2, <1>3, <1>4, <1>5, <1>6
     DEF Next, vars, workerVars, Capture, Ask, Find, FindFails, CopyId, CopyPath

LEMMA InitOrder == Init => OrderInv
<1> SUFFICES ASSUME Init PROVE OrderInv
  OBVIOUS
<1>1. Range(<<>>) = {}
  BY DEF Range
<1>2. QueueStage
  BY <1>1 DEF Init, QueueStage, Distinct
<1>3. BatchStage /\ EntryStage
  BY <1>1 DEF Init, BatchStage, EntryStage, NewestThere
<1>4. QED
  BY <1>2, <1>3, InitInv DEF OrderInv

(* The order of flows, for a client that takes shorter steps. *)
THEOREM OrderInvariance ==
  ASSUME ClientHeader < DriverHeader
  PROVE  Spec => []OrderInv
<1>1. Init => OrderInv
  BY InitOrder
<1>2. OrderInv /\ [Next]_vars => OrderInv'
  BY NextInv, QueueInv, BatchInv, EntryInv DEF OrderInv
<1>3. QED
  BY <1>1, <1>2, PTL DEF Spec

(* With the program's headers, whatever the ports and however long the     *)
(* batches: an entry at rest is never an older flow than one that was      *)
(* dispatched for its key.                                                 *)
THEOREM NewestFlowWins ==
  ASSUME ClientHeader < DriverHeader
  PROVE  Spec => []NewestWins
<1>1. OrderInv => NewestWins
  BY DEF OrderInv, EntryStage, Replaces, NewestWins
<1>2. QED
  BY <1>1, OrderInvariance, PTL

(* ... and the newest flow that was delivered is in the table. *)
THEOREM NewestFlowIsFound ==
  ASSUME ClientHeader < DriverHeader
  PROVE  Spec => []NewestIsInTable
<1>1. OrderInv => NewestIsInTable
  <2>1. SUFFICES ASSUME OrderInv, worker = "wait", NEW f \in delivered,
                        \A g \in delivered : Age(g) <= Age(f)
                 PROVE  /\ KeyOf(f) \in DOMAIN table
                        /\ table[KeyOf(f)] = [field \in Fields |-> f]
    BY DEF NewestIsInTable
  <2>2. /\ KeyOf(f) \in DOMAIN table
        /\ \A field \in Fields : table[KeyOf(f)][field] = f
    BY <2>1 DEF OrderInv, BatchStage, NewestThere, Newest
  <2>3. table[KeyOf(f)] \in Values
    BY <2>1, <2>2 DEF OrderInv, IInv, TypeOK
  <2>4. QED
    BY <2>2, <2>3 DEF Values
<1>2. QED
  BY <1>1, OrderInvariance, PTL

-----------------------------------------------------------------------------
(* When the two divergences of the lookup and of the parse are harmless.   *)

(* What a caller asks for is what some flow has. *)
AskStage ==
  lookup # "idle" =>
    \E f \in Flows : asked = [addr |-> AddrOf[f], port |-> PortOf[f],
                              proto |-> ProtoOf[f]]

LEMMA AskInv == ASSUME AskStage, [Next]_vars PROVE AskStage'
<1> USE DEF AskStage, workerVars, lookupVars
<1>1. ASSUME NEW f \in Flows, Ask(f) PROVE AskStage'
  BY <1>1 DEF Ask
<1>2. CASE lookup' # "idle" => lookup # "idle" /\ asked' = asked
  BY <1>2
<1>3. QED
  BY <1>1, <1>2
     DEF Next, vars, Capture, AnswerRead, Dispatch, InsertKey, EndOfBatch,
         AssignField, Find, FindFails, CopyId, CopyPath

(* Where no two addresses use a port at once, a lookup returns only flows  *)
(* of the address it was asked for, although it never compares addresses:  *)
(* a second address is what the wrong answer takes (README.md:21).         *)
THEOREM OneAddressMatches ==
  ASSUME \A f, g \in Flows : PortOf[f] = PortOf[g] /\ ProtoOf[f] = ProtoOf[g]
                               => AddrOf[f] = AddrOf[g]
  PROVE  Spec => []LookupMatchesAddress
<1>1. Init => AskStage
  BY DEF Init, AskStage
<1>2. IInv /\ AskStage /\ ResultIsOfThePort => LookupMatchesAddress
  <2>1. SUFFICES ASSUME IInv, AskStage, ResultIsOfThePort, lookup = "found",
                        NEW field \in Fields, info[field] # Zero
                 PROVE  AddrOf[info[field]] = asked.addr
    BY DEF LookupMatchesAddress
  <2>2. PICK f \in Flows : asked = [addr |-> AddrOf[f], port |-> PortOf[f],
                                    proto |-> ProtoOf[f]]
    BY <2>1 DEF AskStage
  <2>3. info[field] \in Flows
    BY <2>1 DEF IInv, TypeOK, Values
  <2>4. /\ PortOf[info[field]] = PortOf[f]
        /\ ProtoOf[info[field]] = ProtoOf[f]
    BY <2>1, <2>2 DEF ResultIsOfThePort
  <2>5. QED
    BY <2>2, <2>3, <2>4
<1>3. AskStage /\ [Next]_vars => AskStage'
  BY AskInv
<1>4. QED
  BY <1>1, <1>2, <1>3, Invariance, LookupIsOfThePort, PTL DEF Spec

(* The length of a record, and those of a batch from the n-th on. *)
Step    == DriverHeader + RecordLength
Rest(n) == {batch[k] : k \in n+1..Len(batch)}

(* The worker is at the n-th record, and has dispatched those before it. *)
Reading(n) ==
  /\ offset = n * Step /\ readBytes = (Len(batch) - n) * Step
  /\ delivered \subseteq Range(dispatched) \union Rest(n)
  /\ worker # "parse" => n < Len(batch) /\ batch[n + 1] \in Range(dispatched)

ParseStage ==
  IF worker = "wait" THEN delivered \subseteq Range(dispatched)
                     ELSE \E n \in 0..Len(batch) : Reading(n)

LEMMA StepFacts ==
  /\ Step \in Nat \ {0} /\ Step >= DriverHeader
  /\ \A k \in Int : (k + 1) * Step = k * Step + Step
  /\ \A k \in Nat : k = 0 \/ k * Step >= Step
  /\ \A j, k \in Nat : j * Step = k * Step => j = k
  /\ \A k \in Nat : (k * Step) \div Step = k
  /\ \A k \in Nat : k * Step \in Nat
<1>1. Step \in Nat \ {0} /\ Step >= DriverHeader
  BY HeaderAssumption DEF Step
<1>2. \A r \in Nat \ {0} :
        /\ \A k \in Int : (k + 1) * r = k * r + r
        /\ \A k \in Nat : k = 0 \/ k * r >= r
        /\ \A k \in Nat : (k * r) \div r = k
        /\ \A k \in Nat : k * r \in Nat
  BY SMT
<1>3. \A j, k \in Nat : j * Step = k * Step => j = k
  BY <1>1, <1>2
<1>4. QED
  BY <1>1, <1>2, <1>3

(* One record on, among len of them. *)
LEMMA OneStep ==
  ASSUME NEW len \in Nat, NEW n \in 0..len, n < len
  PROVE  /\ n + 1 \in 0..len /\ (n + 1) * Step = n * Step + Step
         /\ (len - n) * Step >= Step
         /\ (len - (n + 1)) * Step = (len - n) * Step - Step
         /\ \A k \in n+1..len : k = n + 1 \/ k \in (n+1)+1..len
<1>1. n \in Int /\ n + 1 \in 0..len
  OBVIOUS
<1>2. (n + 1) * Step = n * Step + Step
  BY <1>1, StepFacts
<1>3. \A k \in n+1..len : k = n + 1 \/ k \in (n+1)+1..len
  BY <1>1
<1>4. /\ len - n \in Nat \ {0} /\ len - (n + 1) \in Nat
      /\ (len - (n + 1)) + 1 = len - n
  BY <1>1
<1>5. (len - n) * Step >= Step
  BY <1>4, StepFacts
<1>6. (len - (n + 1)) * Step = (len - n) * Step - Step
  <2> DEFINE k == len - (n + 1)
  <2>1. k \in Nat /\ k \in Int /\ len - n = k + 1
    BY <1>4
  <2> HIDE DEF k
  <2>2. (k + 1) * Step = k * Step + Step /\ k * Step \in Nat
    BY <2>1, StepFacts
  <2>3. k * Step = (len - n) * Step - Step
    BY <2>1, <2>2, StepFacts
  <2>4. QED
    BY <2>3 DEF k
<1>7. QED
  BY <1>1, <1>2, <1>3, <1>5, <1>6

(* At the n-th record the client finds what the driver wrote there. *)
LEMMA RecordFound ==
  ASSUME IInv, NEW n \in 0..Len(batch)
  PROVE  /\ n < Len(batch) => /\ RecordAt(n * Step) = batch[n + 1]
                              /\ batch[n + 1] \in Flows
         /\ n = Len(batch) => RecordAt(n * Step) = Zero
<1>1. batch \in Seq(Flows) /\ Len(batch) \in Nat
  BY DEF IInv, TypeOK
<1>2. ASSUME n < Len(batch)
      PROVE  RecordAt(n * Step) = batch[n + 1] /\ batch[n + 1] \in Flows
  <2>1. n + 1 \in 1..Len(batch) /\ (n + 1) - 1 = n /\ n \in Nat
    BY <1>1, <1>2
  <2>2. \E m \in 1..Len(batch) : n * Step = (m - 1) * Step
    BY <2>1
  <2>3. (n * Step) \div Step = n
    BY <2>1, StepFacts
  <2>4. RecordAt(n * Step) = batch[n + 1]
    BY <2>2, <2>3 DEF RecordAt, Step
  <2>5. QED
    BY <1>1, <2>1, <2>4
<1>3. ASSUME n = Len(batch) PROVE RecordAt(n * Step) = Zero
  <2>1. ASSUME NEW m \in 1..Len(batch), n * Step = (m - 1) * Step PROVE FALSE
    <3>1. m - 1 \in Nat /\ n \in Nat /\ m - 1 # n
      BY <1>1, <1>3
    <3>2. QED
      BY <2>1, <3>1, StepFacts
  <2>2. QED
    BY <2>1 DEF RecordAt, Step
<1>4. QED
  BY <1>2, <1>3

(* For a client that takes the driver's steps: no record is missed. *)
LEMMA ParseInv ==
  ASSUME IInv, ParseStage, [Next]_vars, ClientHeader = DriverHeader
  PROVE  ParseStage'
<1>1. /\ batch \in Seq(Flows) /\ Len(batch) \in Nat /\ held \in Seq(Flows)
      /\ worker \in {"wait", "parse", "insert", "assign"}
  BY DEF IInv, TypeOK
<1>2. CASE AnswerRead
  <2>1. /\ batch' = held /\ delivered' = delivered \union Range(held)
        /\ offset' = 0 /\ readBytes' = Len(held) * Step
        /\ worker = "wait" /\ worker' = "parse" /\ dispatched' = dispatched
    BY <1>2 DEF AnswerRead, Step
  <2>2. Rest(0)' = Range(held)
    BY <1>1, <2>1, RangeFacts DEF Rest
  <2>3. 0 \in 0..Len(batch') /\ 0 * Step = 0 /\ Len(held) - 0 = Len(held)
    BY <1>1, <2>1, StepFacts
  <2>4. Reading(0)'
    BY <2>1, <2>2, <2>3 DEF Reading, ParseStage, Step
  <2>5. QED
    BY <2>1, <2>3, <2>4 DEF ParseStage
<1>3. CASE Dispatch
  <2>1. /\ worker = "parse" /\ worker' = "insert" /\ cur' = RecordAt(offset)
        /\ RecordAt(offset) # Zero
        /\ UNCHANGED <<batch, offset, readBytes, delivered>>
    BY <1>3 DEF Dispatch
  <2>2. PICK n \in 0..Len(batch) : Reading(n)
    BY <2>1 DEF ParseStage
  <2>3. n < Len(batch) /\ cur' = batch[n + 1] /\ cur' \in Flows
    BY <1>1, <2>1, <2>2, RecordFound DEF Reading
  <2>4. Range(dispatched') = Range(dispatched) \union {cur'}
    BY <1>3, <2>3, DispatchedGrows
  <2>5. Reading(n)'
    BY <2>1, <2>2, <2>3, <2>4 DEF Reading, Rest, Step
  <2>6. QED
    BY <2>1, <2>5 DEF ParseStage
<1>4. ASSUME NEW field \in Fields, AssignField(field) PROVE ParseStage'
  <2>1. /\ worker = "assign" /\ UNCHANGED <<batch, delivered, dispatched>>
    BY <1>4 DEF AssignField
  <2>2. PICK n \in 0..Len(batch) : Reading(n)
    BY <2>1 DEF ParseStage
  <2>3. CASE unassigned' # {}
    <3>1. UNCHANGED <<worker, offset, readBytes>>
      BY <1>4, <2>3 DEF AssignField
    <3>2. Reading(n)'
      BY <2>1, <2>2, <3>1 DEF Reading, Rest, Step
    <3>3. QED
      BY <2>1, <3>1, <3>2 DEF ParseStage
  <2>4. CASE unassigned' = {}
    <3>1. n < Len(batch) /\ batch[n + 1] \in Range(dispatched)
      BY <2>1, <2>2 DEF Reading
    <3>2. /\ NextOffset(0) = Step /\ NextOffset(offset) = offset + Step
      BY HeaderAssumption, <2>2, StepFacts DEF NextOffset, Step, IInv, TypeOK
    <3>3. /\ n + 1 \in 0..Len(batch) /\ (n + 1) * Step = n * Step + Step
          /\ (Len(batch) - n) * Step >= Step
          /\ (Len(batch) - (n + 1)) * Step = (Len(batch) - n) * Step - Step
          /\ \A k \in n+1..Len(batch) :
               k = n + 1 \/ k \in (n+1)+1..Len(batch)
      BY <1>1, <3>1, OneStep
    <3>4. ~(NextOffset(0) > readBytes)
      BY <2>2, <3>2, <3>3, StepFacts DEF Reading, IInv, TypeOK
    <3>5. /\ worker' = "parse" /\ offset' = offset + Step
          /\ readBytes' = readBytes - Step
      BY <1>4, <2>4, <3>2, <3>4 DEF AssignField
    <3>6. /\ offset' = (n + 1) * Step
          /\ readBytes' = (Len(batch) - (n + 1)) * Step
      BY <2>2, <3>3, <3>5 DEF Reading
    <3>7. Rest(n) \subseteq Rest(n + 1) \union {batch[n + 1]}
      BY <3>3 DEF Rest
    <3>8. Reading(n + 1)'
      BY <2>1, <2>2, <3>1, <3>5, <3>6, <3>7 DEF Reading, Rest, Step
    <3>9. QED
      BY <2>1, <3>3, <3>5, <3>8 DEF ParseStage
  <2>5. QED
    BY <2>3, <2>4
<1>5. CASE EndOfBatch
  <2>1. /\ worker = "parse" /\ worker' = "wait"
        /\ readBytes < ClientHeader \/ RecordAt(offset) = Zero
        /\ UNCHANGED <<delivered, dispatched>>
    BY <1>5 DEF EndOfBatch
  <2>2. PICK n \in 0..Len(batch) : Reading(n)
    BY <2>1 DEF ParseStage
  <2>3. ~(n < Len(batch))
    <3>1. SUFFICES ASSUME n < Len(batch) PROVE FALSE
      OBVIOUS
    <3>2. RecordAt(offset) # Zero
      BY <2>2, <3>1, RecordFound, FlowTypes DEF Reading
    <3>3. readBytes >= Step
      BY <1>1, <2>2, <3>1, OneStep DEF Reading
    <3>4. QED
      BY <2>1, <3>2, <3>3, StepFacts, HeaderAssumption DEF IInv, TypeOK
  <2>4. Rest(n) = {}
    BY <1>1, <2>3 DEF Rest
  <2>5. QED
    BY <2>1, <2>2, <2>4 DEF Reading, ParseStage
<1>6. CASE InsertKey
  <2>1. /\ worker = "insert" /\ worker' = "assign"
        /\ UNCHANGED <<batch, offset, readBytes, delivered, dispatched>>
    BY <1>6 DEF InsertKey
  <2>2. PICK n \in 0..Len(batch) : Reading(n)
    BY <2>1 DEF ParseStage
  <2>3. Reading(n)'
    BY <2>1, <2>2 DEF Reading, Rest, Step
  <2>4. QED
    BY <2>1, <2>3 DEF ParseStage
<1>7. CASE UNCHANGED <<batch, worker, offset, readBytes, delivered, dispatched>>
  <2>1. \A n : Reading(n) => Reading(n)'
    BY <1>7 DEF Reading, Rest, Step
  <2>2. QED
    BY <1>7, <2>1 DEF ParseStage
<1>8. QED
  BY <1>2, <1>3, <1>4, <1>5, <1>6, <1>7
     DEF Next, vars, workerVars, Capture, Ask, Find, FindFails, CopyId, CopyPath

(* Were the two headers of one length, whatever that is and however long   *)
(* the batches: the worker would dispatch every flow the driver delivered. *)
(* The lost flows come from the difference of the lengths alone.           *)
THEOREM EqualHeadersLoseNothing ==
  ASSUME ClientHeader = DriverHeader
  PROVE  Spec => []DeliveredIsDispatched
<1>1. Init => ParseStage
  BY DEF Init, ParseStage
<1>2. IInv /\ ParseStage /\ [Next]_vars => ParseStage'
  BY ParseInv
<1>3. ParseStage => DeliveredIsDispatched
  BY DEF ParseStage, DeliveredIsDispatched
<1>4. QED
  BY <1>1, <1>2, <1>3, Invariance, PTL DEF Spec

(* What the program's headers lose, exactly: of a batch the worker is done *)
(* with, the first flow was dispatched and no other ever was.              *)
OnlyFirst ==
  worker = "wait" /\ batch # <<>>
    => Range(batch) \intersect Range(dispatched) = {batch[1]}

(* A flow is delivered once, and until the first record of its batch is    *)
(* dispatched none of the batch is.                                        *)
FirstStage ==
  /\ Range(held) \intersect delivered = {}
  /\ worker = "parse" /\ offset = 0
       => Range(batch) \intersect Range(dispatched) = {}
  /\ batch # <<>> /\ (worker = "parse" => offset # 0)
       => Range(batch) \intersect Range(dispatched) = {batch[1]}

LEMMA FirstInv ==
  ASSUME OrderInv, FirstStage, [Next]_vars, ClientHeader < DriverHeader
  PROVE  FirstStage'
<1> USE DEF FirstStage, workerVars, lookupVars
<1>1. /\ held \in Seq(Flows) /\ batch \in Seq(Flows)
      /\ captured \in Seq(Flows) /\ offset \in Nat /\ readBytes \in Nat
      /\ delivered \subseteq Range(captured)
      /\ Range(dispatched) \subseteq delivered
  BY DEF OrderInv, IInv, TypeOK, QueueStage
<1>2. ASSUME NEW f \in Flows, Capture(f) PROVE FirstStage'
  <2>1. held' = <<f>> \o held /\ f \notin delivered
    BY <1>1, <1>2 DEF Capture
  <2>2. Range(held') = {f} \union Range(held)
    BY <1>1, <2>1, ConsFacts
  <2>3. UNCHANGED <<batch, worker, offset, delivered, dispatched>>
    BY <1>2 DEF Capture
  <2>4. QED
    BY <2>1, <2>2, <2>3
<1>3. CASE AnswerRead
  <2>1. /\ batch' = held /\ held' = <<>> /\ dispatched' = dispatched
        /\ worker' = "parse" /\ offset' = 0
    BY <1>3 DEF AnswerRead
  <2>2. Range(<<>>) = {}
    BY DEF Range
  <2>3. QED
    BY <1>1, <2>1, <2>2
<1>4. CASE Dispatch
  <2>1. offset = 0 /\ cur' = batch[1] /\ cur' \in Flows
    BY <1>4, DispatchFacts
  <2>2. Range(dispatched') = Range(dispatched) \union {batch[1]}
    BY <1>4, <2>1, DispatchedGrows DEF OrderInv
  <2>3. /\ worker = "parse" /\ worker' = "insert"
        /\ UNCHANGED <<held, batch, delivered>>
    BY <1>4 DEF Dispatch
  <2>4. batch # <<>> => batch[1] \in Range(batch)
    BY <1>1, RangeByPlace
  <2>5. QED
    BY <2>1, <2>2, <2>3, <2>4
<1>5. CASE InsertKey
  BY <1>5 DEF InsertKey
<1>6. ASSUME NEW field \in Fields, AssignField(field) PROVE FirstStage'
  <2>1. /\ worker = "assign" /\ UNCHANGED <<held, batch, delivered, dispatched>>
    BY <1>6 DEF AssignField
  <2>2. offset' = NextOffset(offset) \/ worker' # "parse"
    BY <1>6 DEF AssignField
  <2>3. NextOffset(offset) # 0
    BY <1>1, HeaderAssumption DEF NextOffset
  <2>4. QED
    BY <2>1, <2>2, <2>3
<1>7. CASE EndOfBatch
  <2>1. /\ worker = "parse" /\ worker' = "wait"
        /\ readBytes < ClientHeader \/ RecordAt(offset) = Zero
        /\ UNCHANGED <<held, batch, delivered, dispatched>>
    BY <1>7 DEF EndOfBatch
  <2>2. ASSUME offset = 0 PROVE FALSE
    <3>1. batch # <<>> /\ readBytes >= ClientHeader
      <4>1. NextOffset(0) # 0
        BY HeaderAssumption DEF NextOffset
      <4>2. QED
        BY <2>1, <2>2, <4>1 DEF OrderInv, BatchStage
    <3>2. RecordAt(offset) # Zero
      BY <2>2, <3>1, RecordAtFacts, FlowTypes DEF OrderInv
    <3>3. QED
      BY <1>1, <2>1, <3>1, <3>2, HeaderAssumption
  <2>3. QED
    BY <2>1, <2>2
<1>8. CASE UNCHANGED <<held, batch, worker, offset, delivered, dispatched>>
  BY <1>8
<1>9. QED
  BY <1>2, <1>3, <1>4, <1>5, <1>6, <1>7, <1>8
     DEF Next, vars, Ask, Find, FindFails, CopyId, CopyPath

(* A client that takes shorter steps loses all of a batch but its newest   *)
(* flow, however long the batch.                                           *)
THEOREM OnlyFirstIsDispatched ==
  ASSUME ClientHeader < DriverHeader
  PROVE  Spec => []OnlyFirst
<1>1. Init => FirstStage
  <2>1. Range(<<>>) = {}
    BY DEF Range
  <2>2. QED
    BY <2>1 DEF Init, FirstStage
<1>2. OrderInv /\ FirstStage /\ [Next]_vars => FirstStage'
  BY FirstInv
<1>3. FirstStage => OnlyFirst
  BY DEF FirstStage, OnlyFirst
<1>4. QED
  BY <1>1, <1>2, <1>3, OrderInvariance, PTL DEF Spec
=============================================================================
