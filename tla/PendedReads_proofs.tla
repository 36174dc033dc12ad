------------------------- MODULE PendedReads_proofs -------------------------
(***************************************************************************)
(* Proofs about PendedReads, for every set of IRPs and every bound:        *)
(* types, the ownership of IRPs, the implementation of ReadRequests, the   *)
(* unload, the wake-ups of a client with one read outstanding, and that    *)
(* lock, cancelled reads and unload are never left with nobody to act.     *)
(***************************************************************************)
EXTENDS PendedReads, ListFacts

(* g_sIolock has one holder across a step boundary: serviceReads while it
   scans, or one devctrl_read1. *)
LockHeldOnce ==
  /\ io = "scan" => sIolock /\ \A i \in Irps : rd[i] \notin {"armed", "disarm"}
  /\ \A i \in Irps : rd[i] \in {"armed", "disarm"} => sIolock
  /\ \A i, j \in Irps :
       rd[i] \in {"armed", "disarm"} /\ rd[j] \in {"armed", "disarm"} => i = j

(* serviceReads holds an IRP exactly from TakeRead to its completion. *)
ServiceHoldsIrp == io \in {"map", "fill", "pop", "answer"} <=> cur # NoIrp

(* Nobody but the dispatching thread knows IRP i; IoCancelIrp may have come
   and gone, finding no routine. *)
WithReader(i) == /\ i \notin Listed
                 /\ cur # i
                 /\ answers[i] = <<>>
                 /\ cx[i] # "complete"

(* The routine is armed until IoCancelIrp takes it. *)
RoutineOrCalled(i) == routine[i] <=> cx[i] # "called"

NoRoutine(i) == ~routine[i] /\ cx[i] # "called"

(* Where IRP i is, by the stage of the thread that dispatches it. *)
IrpStage(i) ==
  /\ rd[i] = "idle" => cx[i] = "idle"
  /\ cx[i] # "idle" => cancel[i]
  /\ rd[i] \in {"disarm", "signalCancelled", "complete"} => cancel[i]
  /\ rd[i] \in {"idle", "validate", "signalCancelled", "complete"}
       => WithReader(i) /\ NoRoutine(i)
  /\ rd[i] \in {"armed", "disarm"} => WithReader(i) /\ RoutineOrCalled(i)
  /\ rd[i] \in {"signal", "done"}
       => \/ i \in Listed /\ cur # i /\ cx[i] # "complete" /\ answers[i] = <<>>
             /\ RoutineOrCalled(i)
          \/ i \notin Listed /\ cur = i /\ cx[i] # "complete"
             /\ answers[i] = <<>> /\ NoRoutine(i)
          \/ i \notin Listed /\ cur # i /\ cx[i] = "complete"
             /\ answers[i] = <<>> /\ NoRoutine(i)
          \/ i \notin Listed /\ cur # i /\ cx[i] # "complete"
             /\ Len(answers[i]) = 1 /\ NoRoutine(i)

(* The inductive invariant. *)
IInv == /\ TypeOK
        /\ Distinct(pended)
        /\ LockHeldOnce
        /\ ServiceHoldsIrp
        /\ \A i \in Irps : IrpStage(i)

-----------------------------------------------------------------------------
(* The invariant is inductive.                                            *)

(* The initial state. *)
LEMMA InitInv == Init => IInv
<1> SUFFICES ASSUME Init PROVE IInv
  OBVIOUS
<1>1. TypeOK
  <2>1. <<>> \in Seq(Irps) /\ <<>> \in Seq(Statuses)
    OBVIOUS
  <2>2. pended \in Seq(Irps) /\ answers \in [Irps -> Seq(Statuses)]
    BY <2>1 DEF Init
  <2>3. /\ cancel \in [Irps -> BOOLEAN] /\ routine \in [Irps -> BOOLEAN]
        /\ rd \in [Irps -> ReaderPCs] /\ cx \in [Irps -> CancelPCs]
    BY DEF Init, ReaderPCs, CancelPCs
  <2>4. /\ sIolock \in BOOLEAN /\ ioEvent \in BOOLEAN
        /\ shutdown \in BOOLEAN
    BY DEF Init
  <2>5. /\ queries \in Nat /\ pushed \in Nat /\ pushers \in Nat
        /\ pos \in Nat \ {0}
    BY DEF Init
  <2>6. io \in IoPCs /\ unl \in UnloadPCs /\ cur \in Irps \union {NoIrp}
    BY DEF Init, IoPCs, UnloadPCs
  <2>7. QED
    BY <2>2, <2>3, <2>4, <2>5, <2>6 DEF TypeOK
<1>2. Distinct(pended) /\ Listed = {}
  BY DEF Init, Distinct, Listed, Range
<1>3. LockHeldOnce /\ ServiceHoldsIrp
  BY DEF Init, LockHeldOnce, ServiceHoldsIrp
<1>4. \A i \in Irps : IrpStage(i)
  BY <1>2, IrpsAssumption
     DEF Init, IrpStage, WithReader, RoutineOrCalled, NoRoutine
<1>5. QED
  BY <1>1, <1>2, <1>3, <1>4 DEF IInv

(* A step that moves no IRP leaves every IRP at its stage. *)
LEMMA IrpsUntouched ==
  ASSUME IInv, TypeOK', LockHeldOnce', ServiceHoldsIrp',
         UNCHANGED <<pended, irpVars, rd, cx, cur>>
  PROVE  IInv'
<1>1. UNCHANGED Listed
  BY DEF Listed
<1>2. Distinct(pended)'
  BY DEF IInv, Distinct
<1>3. \A i \in Irps : IrpStage(i)'
  BY <1>1 DEF IInv, irpVars, IrpStage, WithReader, RoutineOrCalled, NoRoutine
<1>4. QED
  BY <1>2, <1>3 DEF IInv

(* A new read is known to its thread only. *)
LEMMA IssueInv ==
  ASSUME IInv, NEW i \in Irps, Issue(i)
  PROVE  IInv'
<1> USE DEF IInv
<1>1. UNCHANGED <<pended, Listed>>
  BY DEF Issue, Listed
<1>2. TypeOK'
  BY <1>1 DEF Issue, TypeOK, ReaderPCs, CancelPCs, IoPCs, irpVars, ioVars
<1>3. Distinct(pended)'
  BY <1>1 DEF Distinct
<1>4. LockHeldOnce' /\ ServiceHoldsIrp'
  BY DEF Issue, TypeOK, LockHeldOnce, ServiceHoldsIrp, irpVars, ioVars
<1>5. ASSUME NEW j \in Irps PROVE IrpStage(j)'
  BY <1>1, IrpsAssumption
     DEF Issue, TypeOK, LockHeldOnce, ServiceHoldsIrp, IrpStage, WithReader,
         RoutineOrCalled, NoRoutine, irpVars, ioVars
<1>6. QED
  BY <1>2, <1>3, <1>4, <1>5

(* A rejected read was on no list. *)
LEMMA RejectReadInv ==
  ASSUME IInv, NEW i \in Irps, RejectRead(i)
  PROVE  IInv'
<1> USE DEF IInv
<1>1. UNCHANGED <<pended, Listed>>
  BY DEF RejectRead, Listed
<1>2. TypeOK'
  BY <1>1 DEF RejectRead, TypeOK, ReaderPCs, CancelPCs, IoPCs, irpVars, ioVars, Complete, Statuses
<1>3. Distinct(pended)'
  BY <1>1 DEF Distinct
<1>4. LockHeldOnce' /\ ServiceHoldsIrp'
  BY DEF RejectRead, TypeOK, LockHeldOnce, ServiceHoldsIrp, irpVars, ioVars
<1>5. ASSUME NEW j \in Irps PROVE IrpStage(j)'
  BY <1>1, IrpsAssumption
     DEF RejectRead, TypeOK, LockHeldOnce, ServiceHoldsIrp, IrpStage, WithReader,
         RoutineOrCalled, NoRoutine, irpVars, ioVars, Complete
<1>6. QED
  BY <1>2, <1>3, <1>4, <1>5

(* The reader becomes the holder of the lock. *)
LEMMA ArmReadInv ==
  ASSUME IInv, NEW i \in Irps, ArmRead(i)
  PROVE  IInv'
<1> USE DEF IInv
<1>1. UNCHANGED <<pended, Listed>>
  BY DEF ArmRead, Listed
<1>2. TypeOK'
  BY <1>1 DEF ArmRead, TypeOK, ReaderPCs, CancelPCs, IoPCs, irpVars, ioVars
<1>3. Distinct(pended)'
  BY <1>1 DEF Distinct
<1>4. LockHeldOnce' /\ ServiceHoldsIrp'
  BY DEF ArmRead, TypeOK, LockHeldOnce, ServiceHoldsIrp, irpVars, ioVars
<1>5. ASSUME NEW j \in Irps PROVE IrpStage(j)'
  BY <1>1, IrpsAssumption
     DEF ArmRead, TypeOK, LockHeldOnce, ServiceHoldsIrp, IrpStage, WithReader,
         RoutineOrCalled, NoRoutine, irpVars, ioVars
<1>6. QED
  BY <1>2, <1>3, <1>4, <1>5

(* Seeing irp->Cancel moves no IRP. *)
LEMMA SeeCancelInv ==
  ASSUME IInv, NEW i \in Irps, SeeCancel(i)
  PROVE  IInv'
<1> USE DEF IInv
<1>1. UNCHANGED <<pended, Listed>>
  BY DEF SeeCancel, Listed
<1>2. TypeOK'
  BY <1>1 DEF SeeCancel, TypeOK, ReaderPCs, CancelPCs, IoPCs, irpVars, ioVars
<1>3. Distinct(pended)'
  BY <1>1 DEF Distinct
<1>4. LockHeldOnce' /\ ServiceHoldsIrp'
  BY DEF SeeCancel, TypeOK, LockHeldOnce, ServiceHoldsIrp, irpVars, ioVars
<1>5. ASSUME NEW j \in Irps PROVE IrpStage(j)'
  BY <1>1, IrpsAssumption
     DEF SeeCancel, TypeOK, LockHeldOnce, ServiceHoldsIrp, IrpStage, WithReader,
         RoutineOrCalled, NoRoutine, irpVars, ioVars
<1>6. QED
  BY <1>2, <1>3, <1>4, <1>5

(* The reader got its routine back: nobody else can answer the IRP. *)
LEMMA DisarmInv ==
  ASSUME IInv, NEW i \in Irps, Disarm(i)
  PROVE  IInv'
<1> USE DEF IInv
<1>1. UNCHANGED <<pended, Listed>>
  BY DEF Disarm, Listed
<1>2. TypeOK'
  BY <1>1 DEF Disarm, TypeOK, ReaderPCs, CancelPCs, IoPCs, irpVars, ioVars
<1>3. Distinct(pended)'
  BY <1>1 DEF Distinct
<1>4. LockHeldOnce' /\ ServiceHoldsIrp'
  BY DEF Disarm, TypeOK, LockHeldOnce, ServiceHoldsIrp, irpVars, ioVars
<1>5. ASSUME NEW j \in Irps PROVE IrpStage(j)'
  BY <1>1, IrpsAssumption
     DEF Disarm, TypeOK, LockHeldOnce, ServiceHoldsIrp, IrpStage, WithReader,
         RoutineOrCalled, NoRoutine, irpVars, ioVars
<1>6. QED
  BY <1>2, <1>3, <1>4, <1>5

(* The IRP passes from its thread to the list. *)
LEMMA ParkReadInv ==
  ASSUME IInv, NEW i \in Irps, ParkRead(i)
  PROVE  IInv'
<1> USE DEF IInv
<1>1. /\ pended' \in Seq(Irps)
      /\ Distinct(pended')
      /\ Listed' = Listed \union {i}
  <2>1. i \notin Range(pended)
    BY DEF ParkRead, IrpStage, WithReader, Listed
  <2>2. QED
    BY <2>1, AppendFacts DEF ParkRead, TypeOK, Listed
<1>2. TypeOK'
  BY <1>1 DEF ParkRead, TypeOK, ReaderPCs, CancelPCs, IoPCs, irpVars, ioVars
<1>3. Distinct(pended)'
  BY <1>1 DEF Distinct
<1>4. LockHeldOnce' /\ ServiceHoldsIrp'
  BY DEF ParkRead, TypeOK, LockHeldOnce, ServiceHoldsIrp, irpVars, ioVars
<1>5. ASSUME NEW j \in Irps PROVE IrpStage(j)'
  BY <1>1, IrpsAssumption
     DEF ParkRead, TypeOK, LockHeldOnce, ServiceHoldsIrp, IrpStage, WithReader,
         RoutineOrCalled, NoRoutine, irpVars, ioVars
<1>6. QED
  BY <1>2, <1>3, <1>4, <1>5

(* KeSetEvent moves no IRP. *)
LEMMA SignalReadInv ==
  ASSUME IInv, NEW i \in Irps, SignalRead(i)
  PROVE  IInv'
<1> USE DEF IInv
<1>1. UNCHANGED <<pended, Listed>>
  BY DEF SignalRead, Listed
<1>2. TypeOK'
  BY <1>1 DEF SignalRead, TypeOK, ReaderPCs, CancelPCs, IoPCs, irpVars, ioVars
<1>3. Distinct(pended)'
  BY <1>1 DEF Distinct
<1>4. LockHeldOnce' /\ ServiceHoldsIrp'
  BY DEF SignalRead, TypeOK, LockHeldOnce, ServiceHoldsIrp, irpVars, ioVars
<1>5. ASSUME NEW j \in Irps PROVE IrpStage(j)'
  BY <1>1, IrpsAssumption
     DEF SignalRead, TypeOK, LockHeldOnce, ServiceHoldsIrp, IrpStage, WithReader,
         RoutineOrCalled, NoRoutine, irpVars, ioVars
<1>6. QED
  BY <1>2, <1>3, <1>4, <1>5

(* The reader answers the IRP it alone knows. *)
LEMMA CompleteCancelledInv ==
  ASSUME IInv, NEW i \in Irps, CompleteCancelled(i)
  PROVE  IInv'
<1> USE DEF IInv
<1>1. UNCHANGED <<pended, Listed>>
  BY DEF CompleteCancelled, Listed
<1>2. TypeOK'
  BY <1>1 DEF CompleteCancelled, TypeOK, ReaderPCs, CancelPCs, IoPCs, irpVars, ioVars, Complete, Statuses
<1>3. Distinct(pended)'
  BY <1>1 DEF Distinct
<1>4. LockHeldOnce' /\ ServiceHoldsIrp'
  BY DEF CompleteCancelled, TypeOK, LockHeldOnce, ServiceHoldsIrp, irpVars, ioVars
<1>5. ASSUME NEW j \in Irps PROVE IrpStage(j)'
  BY <1>1, IrpsAssumption
     DEF CompleteCancelled, TypeOK, LockHeldOnce, ServiceHoldsIrp, IrpStage, WithReader,
         RoutineOrCalled, NoRoutine, irpVars, ioVars, Complete
<1>6. QED
  BY <1>2, <1>3, <1>4, <1>5

(* Setting irp->Cancel moves no IRP. *)
LEMMA CancelIrpInv ==
  ASSUME IInv, NEW i \in Irps, CancelIrp(i)
  PROVE  IInv'
<1> USE DEF IInv
<1>1. UNCHANGED <<pended, Listed>>
  BY DEF CancelIrp, Listed
<1>2. TypeOK'
  BY <1>1 DEF CancelIrp, TypeOK, ReaderPCs, CancelPCs, IoPCs, irpVars, ioVars
<1>3. Distinct(pended)'
  BY <1>1 DEF Distinct
<1>4. LockHeldOnce' /\ ServiceHoldsIrp'
  BY DEF CancelIrp, TypeOK, LockHeldOnce, ServiceHoldsIrp, irpVars, ioVars
<1>5. ASSUME NEW j \in Irps PROVE IrpStage(j)'
  BY <1>1, IrpsAssumption
     DEF CancelIrp, TypeOK, LockHeldOnce, ServiceHoldsIrp, IrpStage, WithReader,
         RoutineOrCalled, NoRoutine, irpVars, ioVars
<1>6. QED
  BY <1>2, <1>3, <1>4, <1>5

(* IoCancelIrp takes the routine of an IRP, or finds none. *)
LEMMA SwapRoutineInv ==
  ASSUME IInv, NEW i \in Irps, SwapRoutine(i)
  PROVE  IInv'
<1> USE DEF IInv
<1>1. UNCHANGED <<pended, Listed>>
  BY DEF SwapRoutine, Listed
<1>2. TypeOK'
  BY <1>1 DEF SwapRoutine, TypeOK, ReaderPCs, CancelPCs, IoPCs, irpVars, ioVars
<1>3. Distinct(pended)'
  BY <1>1 DEF Distinct
<1>4. LockHeldOnce' /\ ServiceHoldsIrp'
  BY DEF SwapRoutine, TypeOK, LockHeldOnce, ServiceHoldsIrp, irpVars, ioVars
<1>5. ASSUME NEW j \in Irps PROVE IrpStage(j)'
  BY <1>1, IrpsAssumption
     DEF SwapRoutine, TypeOK, LockHeldOnce, ServiceHoldsIrp, IrpStage, WithReader,
         RoutineOrCalled, NoRoutine, irpVars, ioVars
<1>6. QED
  BY <1>2, <1>3, <1>4, <1>5

(* The IRP passes from the list to its canceller. *)
LEMMA CancelReadInv ==
  ASSUME IInv, NEW i \in Irps, CancelRead(i)
  PROVE  IInv'
<1> USE DEF IInv
<1>1. /\ pended' \in Seq(Irps)
      /\ Distinct(pended')
      /\ i \in Listed
      /\ Listed' = Listed \ {i}
  <2>1. PICK k \in 1..Len(pended) : pended[k] = i /\ pended' = RemoveAt(pended, k)
    BY DEF CancelRead
  <2>2. pended[k] \in Range(pended)
    BY <2>1 DEF TypeOK, Range
  <2>3. QED
    BY <2>1, <2>2, RemoveAtFacts DEF TypeOK, Listed
<1>2. TypeOK'
  BY <1>1 DEF CancelRead, TypeOK, ReaderPCs, CancelPCs, IoPCs, irpVars, ioVars
<1>3. Distinct(pended)'
  BY <1>1 DEF Distinct
<1>4. LockHeldOnce' /\ ServiceHoldsIrp'
  BY DEF CancelRead, TypeOK, LockHeldOnce, ServiceHoldsIrp, irpVars, ioVars
<1>5. ASSUME NEW j \in Irps PROVE IrpStage(j)'
  BY <1>1, IrpsAssumption
     DEF CancelRead, TypeOK, LockHeldOnce, ServiceHoldsIrp, IrpStage, WithReader,
         RoutineOrCalled, NoRoutine, irpVars, ioVars
<1>6. QED
  BY <1>2, <1>3, <1>4, <1>5

(* The canceller answers the IRP it unlinked. *)
LEMMA CompleteCancelReadInv ==
  ASSUME IInv, NEW i \in Irps, CompleteCancelRead(i)
  PROVE  IInv'
<1> USE DEF IInv
<1>1. UNCHANGED <<pended, Listed>>
  BY DEF CompleteCancelRead, Listed
<1>2. TypeOK'
  BY <1>1 DEF CompleteCancelRead, TypeOK, ReaderPCs, CancelPCs, IoPCs, irpVars, ioVars, Complete, Statuses
<1>3. Distinct(pended)'
  BY <1>1 DEF Distinct
<1>4. LockHeldOnce' /\ ServiceHoldsIrp'
  BY DEF CompleteCancelRead, TypeOK, LockHeldOnce, ServiceHoldsIrp, irpVars, ioVars
<1>5. ASSUME NEW j \in Irps PROVE IrpStage(j)'
  BY <1>1, IrpsAssumption
     DEF CompleteCancelRead, TypeOK, LockHeldOnce, ServiceHoldsIrp, IrpStage, WithReader,
         RoutineOrCalled, NoRoutine, irpVars, ioVars, Complete
<1>6. QED
  BY <1>2, <1>3, <1>4, <1>5

(* The IRP passes from the list to serviceReads. *)
LEMMA TakeReadInv ==
  ASSUME IInv, TakeRead
  PROVE  IInv'
<1> USE DEF IInv
<1>1. /\ pended' \in Seq(Irps)
      /\ Distinct(pended')
      /\ pended[pos] \in Listed
      /\ Listed' = Listed \ {pended[pos]}
  <2>1. pos \in 1..Len(pended)
    BY DEF TakeRead, TypeOK
  <2>2. pended[pos] \in Range(pended)
    BY <2>1 DEF TypeOK, Range
  <2>3. QED
    BY <2>1, <2>2, RemoveAtFacts DEF TakeRead, TypeOK, Listed
<1>2. TypeOK'
  <2>1. pended[pos] \in Irps
    BY DEF TakeRead, TypeOK
  <2>2. QED
    BY <1>1, <2>1 DEF TakeRead, TypeOK, ReaderPCs, CancelPCs, IoPCs, irpVars, ioVars
<1>3. Distinct(pended)'
  BY <1>1 DEF Distinct
<1>4. LockHeldOnce' /\ ServiceHoldsIrp'
  BY IrpsAssumption DEF TakeRead, TypeOK, LockHeldOnce, ServiceHoldsIrp, irpVars, ioVars
<1>5. ASSUME NEW j \in Irps PROVE IrpStage(j)'
  BY <1>1, IrpsAssumption
     DEF TakeRead, TypeOK, LockHeldOnce, ServiceHoldsIrp, IrpStage, WithReader,
         RoutineOrCalled, NoRoutine, irpVars, ioVars
<1>6. QED
  BY <1>2, <1>3, <1>4, <1>5

(* serviceReads answers the IRP it took. *)
LEMMA MapFailsInv ==
  ASSUME IInv, MapFails
  PROVE  IInv'
<1> USE DEF IInv
<1>1. UNCHANGED <<pended, Listed>>
  BY DEF MapFails, Listed
<1>2. TypeOK'
  <2>1. cur \in Irps
    BY DEF MapFails, TypeOK, ServiceHoldsIrp
  <2>2. Append(answers[cur], "SUCCESS") \in Seq(Statuses) /\
        Append(answers[cur], "INSUFFICIENT_RESOURCES") \in Seq(Statuses)
    BY <2>1 DEF TypeOK, Statuses
  <2>3. QED
    BY <1>1, <2>1, <2>2 DEF MapFails, TypeOK, ReaderPCs, CancelPCs, IoPCs, irpVars, ioVars, Complete
<1>3. Distinct(pended)'
  BY <1>1 DEF Distinct
<1>4. LockHeldOnce' /\ ServiceHoldsIrp'
  BY IrpsAssumption DEF MapFails, TypeOK, LockHeldOnce, ServiceHoldsIrp, irpVars, ioVars
<1>5. ASSUME NEW j \in Irps PROVE IrpStage(j)'
  BY <1>1, IrpsAssumption
     DEF MapFails, TypeOK, LockHeldOnce, ServiceHoldsIrp, IrpStage, WithReader,
         RoutineOrCalled, NoRoutine, irpVars, ioVars, Complete
<1>6. QED
  BY <1>2, <1>3, <1>4, <1>5

(* serviceReads answers the IRP it filled the buffer for. *)
LEMMA AnswerReadInv ==
  ASSUME IInv, AnswerRead
  PROVE  IInv'
<1> USE DEF IInv
<1>1. UNCHANGED <<pended, Listed>>
  BY DEF AnswerRead, Listed
<1>2. TypeOK'
  <2>1. cur \in Irps
    BY DEF AnswerRead, TypeOK, ServiceHoldsIrp
  <2>2. Append(answers[cur], "SUCCESS") \in Seq(Statuses) /\
        Append(answers[cur], "INSUFFICIENT_RESOURCES") \in Seq(Statuses)
    BY <2>1 DEF TypeOK, Statuses
  <2>3. QED
    BY <1>1, <2>1, <2>2 DEF AnswerRead, TypeOK, ReaderPCs, CancelPCs, IoPCs, irpVars, ioVars, Complete
<1>3. Distinct(pended)'
  BY <1>1 DEF Distinct
<1>4. LockHeldOnce' /\ ServiceHoldsIrp'
  BY IrpsAssumption DEF AnswerRead, TypeOK, LockHeldOnce, ServiceHoldsIrp, irpVars, ioVars
<1>5. ASSUME NEW j \in Irps PROVE IrpStage(j)'
  BY <1>1, IrpsAssumption
     DEF AnswerRead, TypeOK, LockHeldOnce, ServiceHoldsIrp, IrpStage, WithReader,
         RoutineOrCalled, NoRoutine, irpVars, ioVars, Complete
<1>6. QED
  BY <1>2, <1>3, <1>4, <1>5

(* The steps of the I/O thread that move no IRP. *)
LEMMA IoQuietInv ==
  ASSUME IInv, WakeUp \/ CheckShutdown \/ NothingToService \/ StartScan
               \/ SkipCancelled \/ NoneFound \/ MapRead \/ TakeQuery
               \/ FillDone \/ PopSucceeds \/ PopFails
  PROVE  IInv'
<1>1. CASE WakeUp
  <2>1. TypeOK'
    BY <1>1 DEF IInv, WakeUp, TypeOK, IoPCs, UnloadPCs, irpVars, ioVars
  <2>2. LockHeldOnce' /\ ServiceHoldsIrp'
    BY <1>1 DEF IInv, WakeUp, TypeOK, LockHeldOnce, ServiceHoldsIrp, irpVars, ioVars
  <2>3. UNCHANGED <<pended, irpVars, rd, cx, cur>>
    BY <1>1 DEF WakeUp, irpVars, ioVars
  <2>4. QED
    BY <2>1, <2>2, <2>3, IrpsUntouched
<1>2. CASE CheckShutdown
  <2>1. TypeOK'
    BY <1>2 DEF IInv, CheckShutdown, TypeOK, IoPCs, UnloadPCs, irpVars, ioVars
  <2>2. LockHeldOnce' /\ ServiceHoldsIrp'
    BY <1>2 DEF IInv, CheckShutdown, TypeOK, LockHeldOnce, ServiceHoldsIrp, irpVars, ioVars
  <2>3. UNCHANGED <<pended, irpVars, rd, cx, cur>>
    BY <1>2 DEF CheckShutdown, irpVars, ioVars
  <2>4. QED
    BY <2>1, <2>2, <2>3, IrpsUntouched
<1>3. CASE NothingToService
  <2>1. TypeOK'
    BY <1>3 DEF IInv, NothingToService, TypeOK, IoPCs, UnloadPCs, irpVars, ioVars
  <2>2. LockHeldOnce' /\ ServiceHoldsIrp'
    BY <1>3 DEF IInv, NothingToService, TypeOK, LockHeldOnce, ServiceHoldsIrp, irpVars, ioVars
  <2>3. UNCHANGED <<pended, irpVars, rd, cx, cur>>
    BY <1>3 DEF NothingToService, irpVars, ioVars
  <2>4. QED
    BY <2>1, <2>2, <2>3, IrpsUntouched
<1>4. CASE StartScan
  <2>1. TypeOK'
    BY <1>4 DEF IInv, StartScan, TypeOK, IoPCs, UnloadPCs, irpVars, ioVars
  <2>2. LockHeldOnce' /\ ServiceHoldsIrp'
    BY <1>4 DEF IInv, StartScan, TypeOK, LockHeldOnce, ServiceHoldsIrp, irpVars, ioVars
  <2>3. UNCHANGED <<pended, irpVars, rd, cx, cur>>
    BY <1>4 DEF StartScan, irpVars, ioVars
  <2>4. QED
    BY <2>1, <2>2, <2>3, IrpsUntouched
<1>5. CASE SkipCancelled
  <2>1. TypeOK'
    BY <1>5 DEF IInv, SkipCancelled, TypeOK, IoPCs, UnloadPCs, irpVars, ioVars
  <2>2. LockHeldOnce' /\ ServiceHoldsIrp'
    BY <1>5 DEF IInv, SkipCancelled, TypeOK, LockHeldOnce, ServiceHoldsIrp, irpVars, ioVars
  <2>3. UNCHANGED <<pended, irpVars, rd, cx, cur>>
    BY <1>5 DEF SkipCancelled, irpVars, ioVars
  <2>4. QED
    BY <2>1, <2>2, <2>3, IrpsUntouched
<1>6. CASE NoneFound
  <2>1. TypeOK'
    BY <1>6 DEF IInv, NoneFound, TypeOK, IoPCs, UnloadPCs, irpVars, ioVars
  <2>2. LockHeldOnce' /\ ServiceHoldsIrp'
    BY <1>6 DEF IInv, NoneFound, TypeOK, LockHeldOnce, ServiceHoldsIrp, irpVars, ioVars
  <2>3. UNCHANGED <<pended, irpVars, rd, cx, cur>>
    BY <1>6 DEF NoneFound, irpVars, ioVars
  <2>4. QED
    BY <2>1, <2>2, <2>3, IrpsUntouched
<1>7. CASE MapRead
  <2>1. TypeOK'
    BY <1>7 DEF IInv, MapRead, TypeOK, IoPCs, UnloadPCs, irpVars, ioVars
  <2>2. LockHeldOnce' /\ ServiceHoldsIrp'
    BY <1>7 DEF IInv, MapRead, TypeOK, LockHeldOnce, ServiceHoldsIrp, irpVars, ioVars
  <2>3. UNCHANGED <<pended, irpVars, rd, cx, cur>>
    BY <1>7 DEF MapRead, irpVars, ioVars
  <2>4. QED
    BY <2>1, <2>2, <2>3, IrpsUntouched
<1>8. CASE TakeQuery
  <2>1. TypeOK'
    BY <1>8 DEF IInv, TakeQuery, TypeOK, IoPCs, UnloadPCs, irpVars, ioVars
  <2>2. LockHeldOnce' /\ ServiceHoldsIrp'
    BY <1>8 DEF IInv, TakeQuery, TypeOK, LockHeldOnce, ServiceHoldsIrp, irpVars, ioVars
  <2>3. UNCHANGED <<pended, irpVars, rd, cx, cur>>
    BY <1>8 DEF TakeQuery, irpVars, ioVars
  <2>4. QED
    BY <2>1, <2>2, <2>3, IrpsUntouched
<1>9. CASE FillDone
  <2>1. TypeOK'
    BY <1>9 DEF IInv, FillDone, TypeOK, IoPCs, UnloadPCs, irpVars, ioVars
  <2>2. LockHeldOnce' /\ ServiceHoldsIrp'
    BY <1>9 DEF IInv, FillDone, TypeOK, LockHeldOnce, ServiceHoldsIrp, irpVars, ioVars
  <2>3. UNCHANGED <<pended, irpVars, rd, cx, cur>>
    BY <1>9 DEF FillDone, irpVars, ioVars
  <2>4. QED
    BY <2>1, <2>2, <2>3, IrpsUntouched
<1>10. CASE PopSucceeds
  <2>1. TypeOK'
    BY <1>10 DEF IInv, PopSucceeds, TypeOK, IoPCs, UnloadPCs, irpVars, ioVars
  <2>2. LockHeldOnce' /\ ServiceHoldsIrp'
    BY <1>10 DEF IInv, PopSucceeds, TypeOK, LockHeldOnce, ServiceHoldsIrp, irpVars, ioVars
  <2>3. UNCHANGED <<pended, irpVars, rd, cx, cur>>
    BY <1>10 DEF PopSucceeds, irpVars, ioVars
  <2>4. QED
    BY <2>1, <2>2, <2>3, IrpsUntouched
<1>11. CASE PopFails
  <2>1. TypeOK'
    BY <1>11 DEF IInv, PopFails, TypeOK, IoPCs, UnloadPCs, irpVars, ioVars
  <2>2. LockHeldOnce' /\ ServiceHoldsIrp'
    BY <1>11 DEF IInv, PopFails, TypeOK, LockHeldOnce, ServiceHoldsIrp, irpVars, ioVars
  <2>3. UNCHANGED <<pended, irpVars, rd, cx, cur>>
    BY <1>11 DEF PopFails, irpVars, ioVars
  <2>4. QED
    BY <2>1, <2>2, <2>3, IrpsUntouched
<1>12. QED
  BY <1>1, <1>2, <1>3, <1>4, <1>5, <1>6, <1>7, <1>8, <1>9, <1>10, <1>11

(* Pushes, drains and unload move no IRP. *)
LEMMA OtherQuietInv ==
  ASSUME IInv, PushQuery \/ SignalPush \/ PushFails \/ CleanQuery
               \/ SetShutdown \/ UnloadClean \/ UnloadSignal \/ UnloadJoin
  PROVE  IInv'
<1>1. CASE PushQuery
  <2>1. TypeOK'
    BY <1>1 DEF IInv, PushQuery, TypeOK, IoPCs, UnloadPCs, irpVars, ioVars
  <2>2. LockHeldOnce' /\ ServiceHoldsIrp'
    BY <1>1 DEF IInv, PushQuery, TypeOK, LockHeldOnce, ServiceHoldsIrp, irpVars, ioVars
  <2>3. UNCHANGED <<pended, irpVars, rd, cx, cur>>
    BY <1>1 DEF PushQuery, irpVars, ioVars
  <2>4. QED
    BY <2>1, <2>2, <2>3, IrpsUntouched
<1>2. CASE SignalPush
  <2>1. TypeOK'
    BY <1>2 DEF IInv, SignalPush, TypeOK, IoPCs, UnloadPCs, irpVars, ioVars
  <2>2. LockHeldOnce' /\ ServiceHoldsIrp'
    BY <1>2 DEF IInv, SignalPush, TypeOK, LockHeldOnce, ServiceHoldsIrp, irpVars, ioVars
  <2>3. UNCHANGED <<pended, irpVars, rd, cx, cur>>
    BY <1>2 DEF SignalPush, irpVars, ioVars
  <2>4. QED
    BY <2>1, <2>2, <2>3, IrpsUntouched
<1>3. CASE PushFails
  <2>1. TypeOK'
    BY <1>3 DEF IInv, PushFails, TypeOK, IoPCs, UnloadPCs, irpVars, ioVars
  <2>2. LockHeldOnce' /\ ServiceHoldsIrp'
    BY <1>3 DEF IInv, PushFails, TypeOK, LockHeldOnce, ServiceHoldsIrp, irpVars, ioVars
  <2>3. UNCHANGED <<pended, irpVars, rd, cx, cur>>
    BY <1>3 DEF PushFails, irpVars, ioVars
  <2>4. QED
    BY <2>1, <2>2, <2>3, IrpsUntouched
<1>4. CASE CleanQuery
  <2>1. TypeOK'
    BY <1>4 DEF IInv, CleanQuery, TypeOK, IoPCs, UnloadPCs, irpVars, ioVars
  <2>2. LockHeldOnce' /\ ServiceHoldsIrp'
    BY <1>4 DEF IInv, CleanQuery, TypeOK, LockHeldOnce, ServiceHoldsIrp, irpVars, ioVars
  <2>3. UNCHANGED <<pended, irpVars, rd, cx, cur>>
    BY <1>4 DEF CleanQuery, irpVars, ioVars
  <2>4. QED
    BY <2>1, <2>2, <2>3, IrpsUntouched
<1>5. CASE SetShutdown
  <2>1. TypeOK'
    BY <1>5 DEF IInv, SetShutdown, TypeOK, IoPCs, UnloadPCs, irpVars, ioVars
  <2>2. LockHeldOnce' /\ ServiceHoldsIrp'
    BY <1>5 DEF IInv, SetShutdown, TypeOK, LockHeldOnce, ServiceHoldsIrp, irpVars, ioVars
  <2>3. UNCHANGED <<pended, irpVars, rd, cx, cur>>
    BY <1>5 DEF SetShutdown, irpVars, ioVars
  <2>4. QED
    BY <2>1, <2>2, <2>3, IrpsUntouched
<1>6. CASE UnloadClean
  <2>1. TypeOK'
    BY <1>6 DEF IInv, UnloadClean, TypeOK, IoPCs, UnloadPCs, irpVars, ioVars
  <2>2. LockHeldOnce' /\ ServiceHoldsIrp'
    BY <1>6 DEF IInv, UnloadClean, TypeOK, LockHeldOnce, ServiceHoldsIrp, irpVars, ioVars
  <2>3. UNCHANGED <<pended, irpVars, rd, cx, cur>>
    BY <1>6 DEF UnloadClean, irpVars, ioVars
  <2>4. QED
    BY <2>1, <2>2, <2>3, IrpsUntouched
<1>7. CASE UnloadSignal
  <2>1. TypeOK'
    BY <1>7 DEF IInv, UnloadSignal, TypeOK, IoPCs, UnloadPCs, irpVars, ioVars
  <2>2. LockHeldOnce' /\ ServiceHoldsIrp'
    BY <1>7 DEF IInv, UnloadSignal, TypeOK, LockHeldOnce, ServiceHoldsIrp, irpVars, ioVars
  <2>3. UNCHANGED <<pended, irpVars, rd, cx, cur>>
    BY <1>7 DEF UnloadSignal, irpVars, ioVars
  <2>4. QED
    BY <2>1, <2>2, <2>3, IrpsUntouched
<1>8. CASE UnloadJoin
  <2>1. TypeOK'
    BY <1>8 DEF IInv, UnloadJoin, TypeOK, IoPCs, UnloadPCs, irpVars, ioVars
  <2>2. LockHeldOnce' /\ ServiceHoldsIrp'
    BY <1>8 DEF IInv, UnloadJoin, TypeOK, LockHeldOnce, ServiceHoldsIrp, irpVars, ioVars
  <2>3. UNCHANGED <<pended, irpVars, rd, cx, cur>>
    BY <1>8 DEF UnloadJoin, irpVars, ioVars
  <2>4. QED
    BY <2>1, <2>2, <2>3, IrpsUntouched
<1>9. QED
  BY <1>1, <1>2, <1>3, <1>4, <1>5, <1>6, <1>7, <1>8

(* Every step preserves the invariant. *)
LEMMA NextInv == IInv /\ [Next]_vars => IInv'
<1> SUFFICES ASSUME IInv, [Next]_vars PROVE IInv'
  OBVIOUS
<1>1. CASE \E i \in Irps : \/ Issue(i) \/ Read1(i)
                          \/ CancelIrp(i) \/ CancelSteps(i)
  BY <1>1, IssueInv, RejectReadInv, ArmReadInv, SeeCancelInv, DisarmInv,
     ParkReadInv, SignalReadInv, CompleteCancelledInv, CancelIrpInv,
     SwapRoutineInv, CancelReadInv, CompleteCancelReadInv
     DEF Read1, CancelSteps
<1>2. CASE IoThread
  BY <1>2, TakeReadInv, MapFailsInv, AnswerReadInv, IoQuietInv DEF IoThread
<1>3. CASE PushQuery \/ SignalPush \/ PushFails \/ CleanQuery \/ Unload
  BY <1>3, OtherQuietInv DEF Unload
<1>4. CASE UNCHANGED vars
  BY <1>4, IrpsUntouched
     DEF IInv, vars, irpVars, TypeOK, LockHeldOnce, ServiceHoldsIrp
<1>5. QED
  BY <1>1, <1>2, <1>3, <1>4 DEF Next

(* The invariant holds throughout. *)
LEMMA Invariance == Spec => []IInv
BY InitInv, NextInv, PTL DEF Spec

-----------------------------------------------------------------------------
(* What the invariant gives.                                               *)

(* devctrl.c's globals and the fields of its IRPs keep their types. *)
THEOREM TypeCorrect == Spec => []TypeOK
<1>1. IInv => TypeOK
  BY DEF IInv
<1>2. QED
  BY <1>1, Invariance, PTL

(* Whatever the interleaving of read1, IoCancelIrp, cancelRead and
   serviceReads, an unanswered IRP is in exactly one pair of hands. *)
THEOREM Ownership == Spec => []OneOwner
<1>1. ASSUME IInv, NEW i \in Irps, rd[i] # "idle", answers[i] = <<>>
      PROVE  \E o \in Owners(i) : Owners(i) = {o}
  <2>1. CASE rd[i] \in {"validate", "armed", "disarm", "signalCancelled",
                      "complete"}
    <3>1. Owners(i) = {"reader"}
      <4>1. i \notin Listed /\ cur # i /\ cx[i] # "complete"
        BY <1>1, <2>1 DEF IInv, IrpStage, WithReader
      <4>2. QED
        BY <2>1, <4>1 DEF Owners
    <3>2. QED
      BY <3>1
  <2>2. CASE rd[i] \in {"signal", "done"}
    <3>1. CASE i \in Listed /\ cur # i /\ cx[i] # "complete"
      <4>1. Owners(i) = {"list"}
        BY <2>2, <3>1 DEF Owners
      <4>2. QED
        BY <4>1
    <3>2. CASE i \notin Listed /\ cur = i /\ cx[i] # "complete"
      <4>1. Owners(i) = {"service"}
        BY <2>2, <3>2 DEF Owners
      <4>2. QED
        BY <4>1
    <3>3. CASE i \notin Listed /\ cur # i /\ cx[i] = "complete"
      <4>1. Owners(i) = {"canceller"}
        BY <2>2, <3>3 DEF Owners
      <4>2. QED
        BY <4>1
    <3>4. QED
      BY <1>1, <2>2, <3>1, <3>2, <3>3 DEF IInv, IrpStage
  <2>3. QED
    BY <1>1, <2>1, <2>2 DEF IInv, TypeOK, ReaderPCs
<1>2. IInv => OneOwner
  BY <1>1 DEF OneOwner
<1>3. QED
  BY <1>2, Invariance, PTL

(* A completed IRP was completed once and no thread will touch it again. *)
THEOREM NoUseAfterCompletion == Spec => []AnsweredIsGone
<1>1. IInv => AnsweredIsGone
  BY DEF IInv, TypeOK, ReaderPCs, AnsweredIsGone, Owners, IrpStage, WithReader,
         NoRoutine
<1>2. QED
  BY <1>1, Invariance, PTL

(* devctrl_cancelRead unlinks only an IRP that is linked. *)
THEOREM UnlinkIsSafe == Spec => []CancelFindsEntry
<1>1. IInv => CancelFindsEntry
  BY DEF IInv, TypeOK, ReaderPCs, CancelFindsEntry, LockHeldOnce, IrpStage,
         WithReader, NoRoutine, RoutineOrCalled
<1>2. QED
  BY <1>1, Invariance, PTL

-----------------------------------------------------------------------------
(* PendedReads implements ReadRequests.                                    *)

issued == {i \in Irps : rd[i] # "idle"}

(* An IRP completed while it was unanswered is an Answer. *)
LEMMA CompletionAnswers ==
  ASSUME IInv, NEW i \in Irps, NEW status \in Statuses, rd[i] # "idle",
         answers[i] = <<>>, status = "CANCELLED" => cancel[i],
         Complete(i, status), issued' = issued, UNCHANGED cancel
  PROVE  Abstract!Next
<1>1. Append(answers[i], status) = <<status>>
  OBVIOUS
<1>2. answers' = [answers EXCEPT ![i] = <<status>>]
  BY <1>1 DEF Complete, IInv, TypeOK
<1>3. Abstract!Answer(i, status)
  BY <1>2 DEF Abstract!Answer, issued
<1>4. status \in Abstract!Statuses
  BY DEF Statuses, Abstract!Statuses
<1>5. QED
  BY <1>3, <1>4 DEF Abstract!Next

(* A step that issues, cancels and answers nothing is a stuttering step. *)
LEMMA SilentStutters ==
  ASSUME issued' = issued, UNCHANGED <<cancel, answers>>
  PROVE  UNCHANGED Abstract!vars
BY DEF issued, Abstract!vars

(* Every step of devctrl.c is a step of ReadRequests or invisible in it. *)
LEMMA StepRefines == IInv /\ [Next]_vars => [Abstract!Next]_(Abstract!vars)
<1> SUFFICES ASSUME IInv, [Next]_vars PROVE [Abstract!Next]_(Abstract!vars)
  OBVIOUS
<1>1. ASSUME NEW i \in Irps, Issue(i)
      PROVE  Abstract!Issue(i)
  <2>1. i \notin issued /\ issued' = issued \union {i}
    BY <1>1 DEF IInv, TypeOK, Issue, issued
  <2>2. UNCHANGED <<cancel, answers>>
    BY <1>1 DEF Issue, irpVars
  <2>3. QED
    BY <2>1, <2>2 DEF Abstract!Issue, issued
<1>2. ASSUME NEW i \in Irps, Read1(i)
      PROVE  [Abstract!Next]_(Abstract!vars)
  <2>1. issued' = issued /\ UNCHANGED cancel
    BY <1>2 DEF IInv, TypeOK, issued, irpVars, Read1, RejectRead, ArmRead,
                SeeCancel, Disarm, ParkRead, SignalRead, CompleteCancelled
  <2>2. CASE RejectRead(i)
    <3>1. PICK status \in {"INVALID_PARAMETER", "INSUFFICIENT_RESOURCES"} :
             Complete(i, status)
      BY <2>2 DEF RejectRead
    <3>2. rd[i] # "idle" /\ answers[i] = <<>> /\ status \in Statuses
      BY <2>2 DEF RejectRead, IInv, IrpStage, WithReader, Statuses
    <3>3. QED
      BY <2>1, <3>1, <3>2, CompletionAnswers
  <2>3. CASE CompleteCancelled(i)
    <3>1. rd[i] # "idle" /\ answers[i] = <<>> /\ cancel[i]
      BY <2>3 DEF CompleteCancelled, IInv, IrpStage, WithReader
    <3>2. Complete(i, "CANCELLED") /\ "CANCELLED" \in Statuses
      BY <2>3 DEF CompleteCancelled, Statuses
    <3>3. QED
      BY <2>1, <3>1, <3>2, CompletionAnswers
  <2>4. CASE \/ ArmRead(i) \/ SeeCancel(i) \/ Disarm(i) \/ ParkRead(i)
             \/ SignalRead(i)
    <3>1. UNCHANGED answers
      BY <2>4 DEF irpVars, ArmRead, SeeCancel, Disarm, ParkRead, SignalRead
    <3>2. QED
      BY <2>1, <3>1, SilentStutters
  <2>5. QED
    BY <1>2, <2>2, <2>3, <2>4 DEF Read1
<1>3. ASSUME NEW i \in Irps, CancelIrp(i)
      PROVE  [Abstract!Next]_(Abstract!vars)
  <2>1. issued' = issued /\ i \in issued /\ UNCHANGED answers
    BY <1>3 DEF CancelIrp, issued
  <2>2. cancel' = [cancel EXCEPT ![i] = TRUE]
    BY <1>3 DEF CancelIrp
  <2>3. CASE cancel[i]
    <3>1. cancel' = cancel
      BY <2>2, <2>3 DEF IInv, TypeOK
    <3>2. QED
      BY <2>1, <3>1, SilentStutters
  <2>4. CASE ~cancel[i]
    <3>1. Abstract!RequestCancel(i)
      BY <2>1, <2>2, <2>4 DEF Abstract!RequestCancel, issued
    <3>2. QED
      BY <3>1 DEF Abstract!Next
  <2>5. QED
    BY <2>3, <2>4
<1>4. ASSUME NEW i \in Irps, CancelSteps(i)
      PROVE  [Abstract!Next]_(Abstract!vars)
  <2>1. issued' = issued /\ UNCHANGED cancel
    BY <1>4 DEF CancelSteps, SwapRoutine, CancelRead, CompleteCancelRead,
                issued, irpVars
  <2>2. CASE CompleteCancelRead(i)
    <3>1. rd[i] # "idle" /\ answers[i] = <<>> /\ cancel[i]
      BY <2>2 DEF CompleteCancelRead, IInv, TypeOK, ReaderPCs, IrpStage,
                  WithReader
    <3>2. Complete(i, "CANCELLED") /\ "CANCELLED" \in Statuses
      BY <2>2 DEF CompleteCancelRead, Statuses
    <3>3. QED
      BY <2>1, <3>1, <3>2, CompletionAnswers
  <2>3. CASE SwapRoutine(i) \/ CancelRead(i)
    <3>1. UNCHANGED answers
      BY <2>3 DEF SwapRoutine, CancelRead, irpVars
    <3>2. QED
      BY <2>1, <3>1, SilentStutters
  <2>4. QED
    BY <1>4, <2>2, <2>3 DEF CancelSteps
<1>5. CASE IoThread
  <2>1. issued' = issued /\ UNCHANGED cancel
    BY <1>5 DEF IoThread, issued, irpVars, WakeUp, CheckShutdown,
         NothingToService, StartScan, SkipCancelled, TakeRead, NoneFound,
         MapFails, MapRead, TakeQuery, FillDone, PopSucceeds, PopFails,
         AnswerRead
  <2>2. ASSUME io \in {"map", "answer"}
        PROVE  cur \in Irps /\ rd[cur] # "idle" /\ answers[cur] = <<>>
    <3>1. cur \in Irps
      BY <2>2 DEF IInv, TypeOK, ServiceHoldsIrp
    <3>2. QED
      BY <3>1 DEF IInv, TypeOK, ReaderPCs, IrpStage, WithReader
  <2>3. CASE MapFails
    <3>1. /\ Complete(cur, "INSUFFICIENT_RESOURCES")
          /\ "INSUFFICIENT_RESOURCES" \in Statuses
      BY <2>3 DEF MapFails, Statuses
    <3>2. QED
      BY <2>1, <2>2, <2>3, <3>1, CompletionAnswers DEF MapFails
  <2>4. CASE AnswerRead
    <3>1. Complete(cur, "SUCCESS") /\ "SUCCESS" \in Statuses
      BY <2>4 DEF AnswerRead, Statuses
    <3>2. QED
      BY <2>1, <2>2, <2>4, <3>1, CompletionAnswers DEF AnswerRead
  <2>5. CASE ~MapFails /\ ~AnswerRead
    <3>1. UNCHANGED answers
      BY <1>5, <2>5 DEF IoThread, irpVars, WakeUp, CheckShutdown,
           NothingToService, StartScan, SkipCancelled, TakeRead, NoneFound,
           MapRead, TakeQuery, FillDone, PopSucceeds, PopFails
    <3>2. QED
      BY <2>1, <3>1, SilentStutters
  <2>6. QED
    BY <2>3, <2>4, <2>5
<1>6. CASE PushQuery \/ SignalPush \/ PushFails \/ CleanQuery \/ Unload
  <2>1. UNCHANGED <<rd, cancel, answers>>
    BY <1>6 DEF PushQuery, SignalPush, PushFails, CleanQuery, Unload,
         SetShutdown, UnloadClean, UnloadSignal, UnloadJoin, irpVars
  <2>2. QED
    BY <2>1, SilentStutters DEF issued
<1>7. CASE UNCHANGED vars
  BY <1>7, SilentStutters DEF vars, issued
<1>8. QED
  BY <1>1, <1>2, <1>3, <1>4, <1>5, <1>6, <1>7 DEF Next, Abstract!Next

(* Towards the I/O manager, the lists, locks and cancel routines of devctrl.c
   amount to module ReadRequests: one answer per read, and STATUS_CANCELLED
   only for a read that somebody cancelled. *)
THEOREM Refinement == Spec => ImplementsReadRequests
<1>1. Init => Abstract!Init
  BY DEF Init, Abstract!Init
<1>2. QED
  BY <1>1, StepRefines, Invariance, PTL
     DEF Spec, ImplementsReadRequests, Abstract!Spec
-----------------------------------------------------------------------------
(* The unload, and the wake-up of the I/O thread.                          *)

(* Where a devctrl_read1 is, only its own steps change. *)
LEMMA OthersLeaveReaders ==
  ASSUME \/ IoThread \/ Unload \/ UNCHANGED vars
         \/ PushQuery \/ SignalPush \/ PushFails \/ CleanQuery
         \/ \E j \in Irps : CancelIrp(j) \/ CancelSteps(j)
  PROVE  UNCHANGED rd
<1>1. IoThread => UNCHANGED rd
  BY DEF IoThread, WakeUp, CheckShutdown, NothingToService, StartScan,
     SkipCancelled, TakeRead, NoneFound, MapFails, MapRead, TakeQuery,
     FillDone, PopSucceeds, PopFails, AnswerRead
<1>2. \A j \in Irps : CancelIrp(j) \/ CancelSteps(j) => UNCHANGED rd
  BY DEF CancelIrp, CancelSteps, SwapRoutine, CancelRead, CompleteCancelRead
<1>3. QED
  BY <1>1, <1>2
     DEF vars, PushQuery, SignalPush, PushFails, CleanQuery, Unload,
         SetShutdown, UnloadClean, UnloadSignal, UnloadJoin

(* A request that is not outstanding stays so unless it is issued. *)
LEMMA BusyShrinks ==
  ASSUME IInv, [Next]_vars, NEW i \in Irps, ~Busy(i), ~Issue(i)
  PROVE  ~Busy(i)'
<1> USE DEF IInv, TypeOK
<1>1. ASSUME NEW j \in Irps, NEW status \in Statuses, Complete(j, status),
             answers[i] # <<>>
      PROVE  answers'[i] # <<>>
  <2>1. answers'[i] = answers[i] \/ answers'[i] = Append(answers[i], status)
    BY <1>1 DEF Complete
  <2>2. Append(answers[i], status) # <<>>
    BY AppendProperties
  <2>3. QED
    BY <1>1, <2>1, <2>2
<1>2. rd[i] = "idle" \/ (rd[i] = "done" /\ answers[i] # <<>>)
  BY DEF Busy
<1>3. rd'[i] = rd[i]
  <2>1. CASE \E j \in Irps : Issue(j) \/ Read1(j)
    BY <1>2, <2>1 DEF Issue, Read1, RejectRead, ArmRead, SeeCancel, Disarm,
         ParkRead, SignalRead, CompleteCancelled
  <2>2. CASE ~\E j \in Irps : Issue(j) \/ Read1(j)
    BY <2>2, OthersLeaveReaders DEF Next
  <2>3. QED
    BY <2>1, <2>2
<1>4. ASSUME answers[i] # <<>> PROVE answers'[i] # <<>>
  <2>1. ASSUME NEW j \in Irps, Issue(j) \/ Read1(j)
        PROVE  answers'[i] # <<>>
    BY <1>1, <1>4, <2>1 DEF Issue, Read1, RejectRead, ArmRead, SeeCancel,
         Disarm, ParkRead, SignalRead, CompleteCancelled, irpVars, Statuses
  <2>2. ASSUME NEW j \in Irps, CancelIrp(j) \/ CancelSteps(j)
        PROVE  answers'[i] # <<>>
    BY <1>1, <1>4, <2>2 DEF CancelIrp, CancelSteps, SwapRoutine, CancelRead,
         CompleteCancelRead, irpVars, Statuses
  <2>3. CASE MapFails \/ AnswerRead
    <3>1. cur \in Irps
      BY <2>3 DEF ServiceHoldsIrp, MapFails, AnswerRead
    <3>2. QED
      BY <1>1, <1>4, <2>3, <3>1 DEF MapFails, AnswerRead, Statuses
  <2>4. CASE IoThread /\ ~MapFails /\ ~AnswerRead
    BY <1>4, <2>4 DEF IoThread, WakeUp, CheckShutdown, NothingToService,
         StartScan, SkipCancelled, TakeRead, NoneFound, MapRead, TakeQuery,
         FillDone, PopSucceeds, PopFails, irpVars
  <2>5. CASE PushQuery \/ SignalPush \/ PushFails \/ CleanQuery \/ Unload
    BY <1>4, <2>5 DEF PushQuery, SignalPush, PushFails, CleanQuery, Unload,
         SetShutdown, UnloadClean, UnloadSignal, UnloadJoin, irpVars
  <2>6. CASE UNCHANGED vars
    BY <1>4, <2>6 DEF vars
  <2>7. QED
    BY <2>1, <2>2, <2>3, <2>4, <2>5, <2>6 DEF Next
<1>5. QED
  BY <1>2, <1>3, <1>4 DEF Busy

(* An IRP that is listed, or in the hands of serviceReads, is outstanding. *)
LEMMA HeldIsBusy ==
  ASSUME IInv, NEW i \in Irps, i \in Listed \/ cur = i
  PROVE  Busy(i)
BY DEF IInv, TypeOK, ReaderPCs, IrpStage, WithReader, Busy

(* Once the unload began, no request is outstanding. *)
UnloadQuiet == unl # "loaded" => \A i \in Irps : ~Busy(i)

LEMMA UnloadQuietInv == IInv /\ UnloadQuiet /\ [Next]_vars => UnloadQuiet'
<1> SUFFICES ASSUME IInv, UnloadQuiet, [Next]_vars, unl' # "loaded",
                    NEW i \in Irps
             PROVE  ~Busy(i)'
  BY DEF UnloadQuiet
<1>1. ~Busy(i)
  <2>1. CASE unl # "loaded"
    BY <2>1 DEF UnloadQuiet
  <2>2. CASE unl = "loaded"
    <3>1. SetShutdown
      <4>1. unl' # unl
        BY <2>2
      <4>2. ASSUME NEW j \in Irps, \/ Issue(j) \/ Read1(j)
                                   \/ CancelIrp(j) \/ CancelSteps(j)
            PROVE  UNCHANGED unl
        BY <4>2 DEF Issue, Read1, RejectRead, ArmRead, SeeCancel, Disarm,
             ParkRead, SignalRead, CompleteCancelled, CancelIrp, CancelSteps,
             SwapRoutine, CancelRead, CompleteCancelRead
      <4>3. ~IoThread
        BY <4>1 DEF IoThread, WakeUp, CheckShutdown, NothingToService,
             StartScan, SkipCancelled, TakeRead, NoneFound, MapFails, MapRead,
             TakeQuery, FillDone, PopSucceeds, PopFails, AnswerRead
      <4>4. ~(PushQuery \/ SignalPush \/ PushFails \/ CleanQuery)
        BY <4>1 DEF PushQuery, SignalPush, PushFails, CleanQuery
      <4>5. ~(UnloadClean \/ UnloadSignal \/ UnloadJoin) /\ ~UNCHANGED vars
        BY <2>2, <4>1 DEF UnloadClean, UnloadSignal, UnloadJoin, vars
      <4>6. QED
        BY <4>1, <4>2, <4>3, <4>4, <4>5 DEF Next, Unload
    <3>2. QED
      BY <3>1 DEF SetShutdown, Outstanding
  <2>3. QED
    BY <2>1, <2>2
<1>2. ~Issue(i)
  BY DEF Issue
<1>3. QED
  BY <1>1, <1>2, BusyShrinks

(* devctrl_free deletes the lookaside list before it waits for the thread
   that frees to it; the thread has nothing left to free by then. *)
THEOREM DeleteIsSafe == Spec => []ThreadHoldsNoEntry
<1>1. Init => UnloadQuiet
  BY DEF Init, UnloadQuiet
<1>2. IInv /\ UnloadQuiet => ThreadHoldsNoEntry
  <2> SUFFICES ASSUME IInv, UnloadQuiet, unl \in {"signal", "join", "unloaded"}
               PROVE  io \notin {"map", "fill", "pop", "answer"}
    BY DEF ThreadHoldsNoEntry
  <2>1. \A i \in Irps : cur # i
    BY HeldIsBusy DEF UnloadQuiet
  <2>2. QED
    BY <2>1 DEF IInv, TypeOK, ServiceHoldsIrp
<1>3. QED
  BY <1>1, <1>2, UnloadQuietInv, Invariance, PTL DEF Spec

(* The client keeps one request outstanding. *)
Single == \A i, j \in Irps : Busy(i) /\ Busy(j) => i = j

LEMMA SingleInv ==
  ASSUME MaxOutstanding = 1
  PROVE  IInv /\ Single /\ [Next]_vars => Single'
<1> SUFFICES ASSUME IInv, Single, [Next]_vars,
                    NEW i \in Irps, NEW j \in Irps, Busy(i)', Busy(j)'
             PROVE  i = j
  BY DEF Single
<1>1. ASSUME NEW k \in Irps, Issue(k)
      PROVE  \A l \in Irps : ~Busy(l)
  <2>1. Outstanding = {} \/ \E x : Outstanding = {x}
    <3>1. ASSUME NEW x \in Outstanding PROVE Outstanding = {x}
      BY <3>1 DEF Single, Outstanding
    <3>2. QED
      BY <3>1
  <2>2. ~\E x : Outstanding = {x}
    <3>1. ASSUME NEW x, Outstanding = {x} PROVE Cardinality(Outstanding) = 1
      BY <3>1, FS_Singleton
    <3>2. Cardinality(Outstanding) < 1
      BY <1>1 DEF Issue
    <3>3. QED
      BY <3>1, <3>2
  <2>3. QED
    BY <2>1, <2>2 DEF Outstanding
<1>2. CASE \E k \in Irps : Issue(k)
  <2>1. PICK k \in Irps : Issue(k)
    BY <1>2
  <2>2. \A l \in Irps : l # k => rd'[l] = rd[l] /\ answers'[l] = answers[l]
    BY <2>1 DEF Issue, irpVars, IInv, TypeOK
  <2>3. \A l \in Irps : l # k => ~Busy(l)'
    BY <1>1, <2>1, <2>2 DEF Busy
  <2>4. QED
    BY <2>3
<1>3. CASE ~\E k \in Irps : Issue(k)
  <2>1. Busy(i) /\ Busy(j)
    BY <1>3, BusyShrinks
  <2>2. QED
    BY <2>1 DEF Single
<1>4. QED
  BY <1>2, <1>3

(* The IRPs the scan has passed are being cancelled. *)
ScanPassed ==
  io = "scan" => \A k \in 1..Len(pended) : k < pos => ~routine[pended[k]]

(* There is a read to serve and something to serve it with ... *)
Serviceable == queries > 0 /\ \E i \in Irps : i \in Listed /\ routine[i]

(* ... and the I/O thread is looking for it, or will be. *)
Alert == \/ ioEvent \/ pushers > 0 \/ \E i \in Irps : rd[i] = "signal"
         \/ io \in {"check", "service", "scan", "exited"}

LEMMA ScanPassedInv == IInv /\ ScanPassed /\ [Next]_vars => ScanPassed'
<1> SUFFICES ASSUME IInv, ScanPassed, [Next]_vars, io' = "scan"
             PROVE  \A k \in 1..Len(pended') : k < pos' => ~routine'[pended'[k]]
  BY DEF ScanPassed
<1> USE DEF IInv, TypeOK
<1>1. ASSUME NEW j \in Irps, Issue(j) \/ Read1(j) \/ CancelIrp(j)
                             \/ CancelSteps(j)
      PROVE  /\ io = "scan" /\ UNCHANGED <<pended, pos>>
             /\ \A i \in Irps : routine'[i] => routine[i]
  <2>1. io = "scan" /\ UNCHANGED pos
    BY <1>1 DEF Issue, Read1, RejectRead, ArmRead, SeeCancel, Disarm, ParkRead,
         SignalRead, CompleteCancelled, CancelIrp, CancelSteps, SwapRoutine,
         CancelRead, CompleteCancelRead, ioVars
  <2>2. sIolock /\ rd[j] \notin {"armed", "disarm"}
    BY <2>1 DEF LockHeldOnce
  <2>3. QED
    BY <1>1, <2>1, <2>2 DEF Issue, Read1, RejectRead, ArmRead, SeeCancel,
         Disarm, ParkRead, SignalRead, CompleteCancelled, CancelIrp,
         CancelSteps, SwapRoutine, CancelRead, CompleteCancelRead, irpVars
<1>2. ASSUME \E j \in Irps : Issue(j) \/ Read1(j) \/ CancelIrp(j)
                              \/ CancelSteps(j)
      PROVE  \A k \in 1..Len(pended') : k < pos' => ~routine'[pended'[k]]
  BY <1>1, <1>2 DEF ScanPassed
<1>3. CASE StartScan
  BY <1>3 DEF StartScan
<1>4. CASE SkipCancelled
  <2>1. UNCHANGED <<pended, routine>> /\ pos' = pos + 1 /\ io = "scan"
    BY <1>4 DEF SkipCancelled, irpVars
  <2>2. \A k \in 1..Len(pended) : k < pos + 1 => k < pos \/ k = pos
    OBVIOUS
  <2>3. QED
    BY <1>4, <2>1, <2>2 DEF SkipCancelled, ScanPassed
<1>5. CASE IoThread /\ ~StartScan /\ ~SkipCancelled
  BY <1>5 DEF IoThread, WakeUp, CheckShutdown, NothingToService, TakeRead,
       NoneFound, MapFails, MapRead, TakeQuery, FillDone, PopSucceeds,
       PopFails, AnswerRead
<1>6. CASE PushQuery \/ SignalPush \/ PushFails \/ CleanQuery \/ Unload
  BY <1>6 DEF PushQuery, SignalPush, PushFails, CleanQuery, Unload,
       SetShutdown, UnloadClean, UnloadSignal, UnloadJoin, irpVars, ioVars,
       ScanPassed
<1>7. CASE UNCHANGED vars
  BY <1>7 DEF vars, ScanPassed
<1>8. QED
  BY <1>2, <1>3, <1>4, <1>5, <1>6, <1>7 DEF Next

(* With one read outstanding nothing is listed while serviceReads holds it. *)
LEMMA HoldingIsAlone ==
  ASSUME IInv, Single, io \in {"map", "fill", "pop", "answer"}
  PROVE  \A i \in Irps : i \notin Listed
<1>1. cur \in Irps
  BY DEF IInv, TypeOK, ServiceHoldsIrp
<1>2. cur \notin Listed
  BY <1>1 DEF IInv, TypeOK, ReaderPCs, IrpStage, WithReader
<1>3. QED
  BY <1>1, <1>2, HeldIsBusy DEF Single

(* A serviceable read stays in somebody's care. *)
LEMMA AlertInv ==
  ASSUME IInv, Single, ScanPassed, Serviceable => Alert, [Next]_vars
  PROVE  (Serviceable => Alert)'
<1> USE DEF IInv, TypeOK
<1>1. ASSUME UNCHANGED <<ioEvent, pushers, rd, io>>, Serviceable' => Serviceable
      PROVE  (Serviceable => Alert)'
  BY <1>1 DEF Alert
<1>2. ASSUME NEW i \in Irps, Issue(i) \/ RejectRead(i) \/ ArmRead(i)
                   \/ SeeCancel(i) \/ Disarm(i) \/ CompleteCancelled(i)
      PROVE  (Serviceable => Alert)'
  <2>1. UNCHANGED <<ioEvent, pushers, io, pended, queries, Listed>>
    BY <1>2 DEF Issue, RejectRead, ArmRead, SeeCancel, Disarm,
         CompleteCancelled, ioVars, Listed
  <2>2. \A j \in Irps : j \in Listed /\ routine'[j] => routine[j]
    BY <1>2 DEF Issue, RejectRead, ArmRead, SeeCancel, Disarm,
         CompleteCancelled, irpVars, IrpStage, WithReader
  <2>3. \A j \in Irps : rd[j] = "signal" => rd'[j] = "signal"
    BY <1>2 DEF Issue, RejectRead, ArmRead, SeeCancel, Disarm,
         CompleteCancelled
  <2>4. QED
    BY <2>1, <2>2, <2>3 DEF Serviceable, Alert
<1>3. ASSUME NEW i \in Irps, ParkRead(i) \/ SignalRead(i)
      PROVE  Alert'
  BY <1>3 DEF ParkRead, SignalRead, Alert
<1>4. ASSUME NEW i \in Irps, CancelIrp(i) \/ CancelSteps(i)
      PROVE  (Serviceable => Alert)'
  <2>1. UNCHANGED <<ioEvent, pushers, rd, io, queries>>
    BY <1>4 DEF CancelIrp, CancelSteps, SwapRoutine, CancelRead,
         CompleteCancelRead, ioVars
  <2>2. Listed' \subseteq Listed
    <3>1. CASE CancelRead(i)
      BY <3>1, RemoveAtFacts DEF CancelRead, Listed
    <3>2. CASE ~CancelRead(i)
      BY <1>4, <3>2 DEF CancelIrp, CancelSteps, SwapRoutine,
           CompleteCancelRead, Listed
    <3>3. QED
      BY <3>1, <3>2
  <2>3. \A j \in Irps : routine'[j] => routine[j]
    BY <1>4 DEF CancelIrp, CancelSteps, SwapRoutine, CancelRead,
         CompleteCancelRead, irpVars
  <2>4. QED
    BY <1>1, <2>1, <2>2, <2>3 DEF Serviceable
<1>5. CASE WakeUp \/ CheckShutdown \/ StartScan \/ SkipCancelled
  BY <1>5 DEF WakeUp, CheckShutdown, StartScan, SkipCancelled, Alert
<1>6. CASE NothingToService
  <2>1. UNCHANGED <<pended, queries>> /\ (pended = <<>> \/ queries = 0)
    BY <1>6 DEF NothingToService
  <2>2. pended = <<>> => Listed = {}
    BY DEF Listed, Range
  <2>3. QED
    BY <2>1, <2>2 DEF Serviceable, Listed
<1>7. CASE NoneFound
  <2>1. \A k \in 1..Len(pended) : ~routine[pended[k]]
    BY <1>7 DEF NoneFound, ScanPassed
  <2>2. \A i \in Irps : i \in Listed => ~routine[i]
    BY <2>1 DEF Listed, Range
  <2>3. UNCHANGED <<routine, Listed>>
    BY <1>7 DEF NoneFound, irpVars, Listed
  <2>4. QED
    BY <2>2, <2>3 DEF Serviceable
<1>8. CASE TakeRead
  <2>1. \A i \in Irps : i \in Listed' => i \in Listed /\ i # pended[pos]
    BY <1>8, RemoveAtFacts DEF TakeRead, Listed
  <2>2. pended[pos] \in Irps /\ pended[pos] \in Listed
    BY <1>8 DEF TakeRead, Listed, Range
  <2>3. QED
    BY <2>1, <2>2, HeldIsBusy DEF Single, Serviceable
<1>9. CASE MapFails \/ MapRead \/ TakeQuery \/ FillDone \/ PopSucceeds
           \/ PopFails \/ AnswerRead
  <2>1. /\ io \in {"map", "fill", "pop", "answer"}
        /\ UNCHANGED pended
    BY <1>9 DEF MapFails, MapRead, TakeQuery, FillDone, PopSucceeds, PopFails,
         AnswerRead
  <2>2. \A i \in Irps : i \notin Listed'
    BY <2>1, HoldingIsAlone DEF Listed
  <2>3. QED
    BY <2>2 DEF Serviceable
<1>10. CASE PushQuery \/ SignalPush \/ PushFails \/ UnloadSignal
  <2>1. CASE PushQuery
    BY <2>1 DEF PushQuery, Alert
  <2>2. QED
    BY <1>10, <2>1 DEF SignalPush, PushFails, UnloadSignal, Alert
<1>11. CASE CleanQuery \/ SetShutdown \/ UnloadClean \/ UnloadJoin
  <2>1. UNCHANGED <<ioEvent, pushers, rd, io, pended, routine, Listed>>
    BY <1>11 DEF CleanQuery, SetShutdown, UnloadClean, UnloadJoin, irpVars,
         ioVars, Listed
  <2>2. queries' > 0 => queries > 0
    BY <1>11 DEF CleanQuery, SetShutdown, UnloadClean, UnloadJoin
  <2>3. QED
    BY <1>1, <2>1, <2>2 DEF Serviceable
<1>12. CASE UNCHANGED vars
  BY <1>1, <1>12 DEF vars, Serviceable, Listed
<1>13. QED
  BY <1>2, <1>3, <1>4, <1>5, <1>6, <1>7, <1>8, <1>9, <1>10, <1>11, <1>12
     DEF Next, Read1, IoThread, Unload

(* For the client that keeps one read outstanding, whatever the number of
   its reads: the I/O thread never waits for an event while it could serve a
   parked read and nobody is about to set that event. *)
THEOREM WakeupIsNotLost ==
  ASSUME MaxOutstanding = 1
  PROVE  Spec => []NoLostWakeup
<1> DEFINE WInv == Single /\ ScanPassed /\ (Serviceable => Alert)
<1>1. Init => WInv
  BY DEF Init, Single, Busy, ScanPassed, Serviceable
<1>2. IInv /\ WInv /\ [Next]_vars => WInv'
  BY SingleInv, ScanPassedInv, AlertInv
<1>3. IInv /\ WInv => NoLostWakeup
  <2>1. ASSUME TypeOK PROVE Listed \subseteq Irps
    BY <2>1 DEF Listed, Range, TypeOK
  <2>2. QED
    BY <2>1 DEF IInv, TypeOK, Serviceable, Alert, NoLostWakeup
<1> HIDE DEF WInv
<1>4. QED
  BY <1>1, <1>2, <1>3, Invariance, PTL DEF Spec
-----------------------------------------------------------------------------
(* The lock, the canceller and the unload: what the liveness properties    *)
(* rest on.                                                                *)

(* g_sIolock held across a step boundary has a holder that is about to
   release it: the scan of devctrl_serviceReads or one devctrl_read1.  No
   path of the code returns with the lock. *)
LockHasHolder ==
  sIolock <=> io = "scan" \/ \E i \in Irps : rd[i] \in {"armed", "disarm"}

LEMMA LockHasHolderInv ==
  IInv /\ LockHasHolder /\ [Next]_vars => LockHasHolder'
<1> SUFFICES ASSUME IInv, LockHasHolder, [Next]_vars
             PROVE  LockHasHolder'
  OBVIOUS
<1> USE DEF IInv, TypeOK
<1>1. ASSUME NEW i \in Irps, \/ Issue(i) \/ RejectRead(i) \/ SeeCancel(i)
                             \/ SignalRead(i) \/ CompleteCancelled(i)
      PROVE  LockHasHolder'
  <2>1. UNCHANGED <<sIolock, io>>
    BY <1>1 DEF Issue, RejectRead, SeeCancel, SignalRead, CompleteCancelled,
         ioVars
  <2>2. \A j \in Irps : rd'[j] \in {"armed", "disarm"}
                          <=> rd[j] \in {"armed", "disarm"}
    BY <1>1 DEF Issue, RejectRead, SeeCancel, SignalRead, CompleteCancelled
  <2>3. QED
    BY <2>1, <2>2 DEF LockHasHolder
<1>2. ASSUME NEW i \in Irps, ArmRead(i)
      PROVE  LockHasHolder'
  BY <1>2 DEF ArmRead, LockHasHolder
<1>3. ASSUME NEW i \in Irps, Disarm(i) \/ ParkRead(i)
      PROVE  LockHasHolder'
  <2>1. rd[i] \in {"armed", "disarm"} /\ io # "scan" /\ UNCHANGED io
    BY <1>3 DEF Disarm, ParkRead, LockHeldOnce, ioVars
  <2>2. \A j \in Irps : rd'[j] \notin {"armed", "disarm"}
    BY <1>3, <2>1 DEF Disarm, ParkRead, LockHeldOnce
  <2>3. ~sIolock'
    BY <1>3 DEF Disarm, ParkRead
  <2>4. QED
    BY <2>1, <2>2, <2>3 DEF LockHasHolder
<1>4. ASSUME NEW i \in Irps, CancelIrp(i) \/ CancelSteps(i)
      PROVE  LockHasHolder'
  BY <1>4 DEF CancelIrp, CancelSteps, SwapRoutine, CancelRead,
       CompleteCancelRead, ioVars, LockHasHolder
<1>5. CASE StartScan
  BY <1>5 DEF StartScan, LockHasHolder
<1>6. CASE TakeRead \/ NoneFound
  <2>1. \A j \in Irps : rd'[j] \notin {"armed", "disarm"}
    BY <1>6 DEF TakeRead, NoneFound, LockHeldOnce
  <2>2. ~sIolock' /\ io' # "scan"
    BY <1>6 DEF TakeRead, NoneFound
  <2>3. QED
    BY <2>1, <2>2 DEF LockHasHolder
<1>7. CASE IoThread /\ ~StartScan /\ ~TakeRead /\ ~NoneFound
  BY <1>7 DEF IoThread, WakeUp, CheckShutdown, NothingToService,
       SkipCancelled, MapFails, MapRead, TakeQuery, FillDone, PopSucceeds,
       PopFails, AnswerRead, LockHasHolder
<1>8. CASE PushQuery \/ SignalPush \/ PushFails \/ CleanQuery \/ Unload
  BY <1>8 DEF PushQuery, SignalPush, PushFails, CleanQuery, Unload,
       SetShutdown, UnloadClean, UnloadSignal, UnloadJoin, ioVars,
       LockHasHolder
<1>9. CASE UNCHANGED vars
  BY <1>9 DEF vars, LockHasHolder
<1>10. QED
  BY <1>1, <1>2, <1>3, <1>4, <1>5, <1>6, <1>7, <1>8, <1>9 DEF Next, Read1

(* However the readers, the cancellers and the I/O thread interleave,
   g_sIolock is never left behind. *)
THEOREM LockIsReleased == Spec => []LockHasHolder
<1>1. Init => LockHasHolder
  BY DEF Init, LockHasHolder
<1>2. QED
  BY <1>1, LockHasHolderInv, Invariance, PTL DEF Spec

(* A parked read that was cancelled has its canceller on the way: the thread
   of IoCancelIrp has the routine still to take, or has taken it and goes to
   unlink the entry.  The read can be served meanwhile, never be left. *)
CancelledIsAttended ==
  \A i \in Irps : cancel[i] /\ i \in Listed => cx[i] \in {"swap", "called"}

(* The inductive form: irp->Cancel is set by IoCancelIrp alone, and an
   IoCancelIrp that is over left no entry on the list. *)
Attended(i) == /\ cancel[i] => cx[i] # "idle"
               /\ i \in Listed => cx[i] # "done"

LEMMA AttendedInv ==
  ASSUME IInv, \A i \in Irps : Attended(i), [Next]_vars
  PROVE  \A i \in Irps : Attended(i)'
<1> USE DEF IInv, TypeOK
<1>1. ASSUME UNCHANGED <<cancel, cx>>, Listed' \subseteq Listed
      PROVE  \A j \in Irps : Attended(j)'
  BY <1>1 DEF Attended
<1>2. ASSUME NEW i \in Irps, Issue(i) \/ (Read1(i) /\ ~ParkRead(i))
      PROVE  \A j \in Irps : Attended(j)'
  <2>1. UNCHANGED <<cancel, cx, Listed>>
    BY <1>2 DEF Issue, Read1, RejectRead, ArmRead, SeeCancel, Disarm,
         SignalRead, CompleteCancelled, irpVars, Listed
  <2>2. QED
    BY <1>1, <2>1
<1>3. ASSUME NEW i \in Irps, ParkRead(i)
      PROVE  \A j \in Irps : Attended(j)'
  <2>1. i \notin Listed /\ RoutineOrCalled(i)
    BY <1>3 DEF ParkRead, IrpStage, WithReader
  <2>2. Listed' = Listed \union {i}
    BY <1>3, <2>1, AppendFacts DEF ParkRead, Listed
  <2>3. UNCHANGED <<cancel, cx>>
    BY <1>3 DEF ParkRead, irpVars
  <2>4. cx[i] # "done"
    <3>1. CASE rd[i] = "armed" /\ ~cancel[i]
      BY <3>1 DEF IrpStage
    <3>2. CASE rd[i] = "disarm" /\ ~routine[i]
      BY <2>1, <3>2 DEF RoutineOrCalled
    <3>3. QED
      BY <1>3, <3>1, <3>2 DEF ParkRead
  <2>5. QED
    BY <2>2, <2>3, <2>4 DEF Attended
<1>4. ASSUME NEW i \in Irps, CancelIrp(i)
      PROVE  \A j \in Irps : Attended(j)'
  <2>1. UNCHANGED Listed
    BY <1>4 DEF CancelIrp, Listed
  <2>2. QED
    BY <1>4, <2>1 DEF CancelIrp, Attended
<1>5. ASSUME NEW i \in Irps, SwapRoutine(i)
      PROVE  \A j \in Irps : Attended(j)'
  <2>1. UNCHANGED <<Listed, cancel>>
    BY <1>5 DEF SwapRoutine, Listed
  <2>2. i \in Listed => routine[i]
    BY <1>5, IrpsAssumption DEF SwapRoutine, IrpStage, WithReader,
         RoutineOrCalled, ReaderPCs
  <2>3. QED
    BY <1>5, <2>1, <2>2 DEF SwapRoutine, Attended
<1>6. ASSUME NEW i \in Irps, CancelRead(i)
      PROVE  \A j \in Irps : Attended(j)'
  <2>1. Listed' \subseteq Listed
    BY <1>6, RemoveAtFacts DEF CancelRead, Listed
  <2>2. QED
    BY <1>6, <2>1 DEF CancelRead, irpVars, Attended
<1>7. ASSUME NEW i \in Irps, CompleteCancelRead(i)
      PROVE  \A j \in Irps : Attended(j)'
  <2>1. UNCHANGED <<Listed, cancel>>
    BY <1>7 DEF CompleteCancelRead, Listed
  <2>2. i \notin Listed
    BY <1>7 DEF CompleteCancelRead, IrpStage, WithReader, ReaderPCs
  <2>3. QED
    BY <1>7, <2>1, <2>2 DEF CompleteCancelRead, Attended
<1>8. CASE TakeRead
  <2>1. pos \in 1..Len(pended)
    BY <1>8 DEF TakeRead
  <2>2. Listed' \subseteq Listed
    BY <1>8, <2>1, RemoveAtFacts DEF TakeRead, Listed
  <2>3. QED
    BY <1>1, <1>8, <2>2 DEF TakeRead
<1>9. CASE IoThread /\ ~TakeRead
  <2>1. UNCHANGED <<cancel, cx, Listed>>
    BY <1>9 DEF IoThread, WakeUp, CheckShutdown, NothingToService, StartScan,
         SkipCancelled, NoneFound, MapFails, MapRead, TakeQuery, FillDone,
         PopSucceeds, PopFails, AnswerRead, irpVars, Listed
  <2>2. QED
    BY <1>1, <2>1
<1>10. CASE PushQuery \/ SignalPush \/ PushFails \/ CleanQuery \/ Unload
  <2>1. UNCHANGED <<cancel, cx, Listed>>
    BY <1>10 DEF PushQuery, SignalPush, PushFails, CleanQuery, Unload,
         SetShutdown, UnloadClean, UnloadSignal, UnloadJoin, irpVars, Listed
  <2>2. QED
    BY <1>1, <2>1
<1>11. CASE UNCHANGED vars
  BY <1>1, <1>11 DEF vars, Listed
<1>12. QED
  BY <1>2, <1>3, <1>4, <1>5, <1>6, <1>7, <1>8, <1>9, <1>10, <1>11
     DEF Next, CancelSteps

(* No cancelled read stays on g_pendedIoRequests with nobody coming for
   it. *)
THEOREM CancelsAreAttended == Spec => []CancelledIsAttended
<1> DEFINE AInv == \A i \in Irps : Attended(i)
<1>1. Init => AInv
  <2>1. ASSUME Init PROVE Listed = {}
    BY <2>1 DEF Init, Listed, Range
  <2>2. QED
    BY <2>1 DEF Init, Attended
<1>2. IInv /\ AInv /\ [Next]_vars => AInv'
  BY AttendedInv
<1>3. IInv /\ AInv => CancelledIsAttended
  BY DEF IInv, TypeOK, ReaderPCs, CancelPCs, IrpStage, WithReader, Attended,
     CancelledIsAttended
<1> HIDE DEF AInv
<1>4. QED
  BY <1>1, <1>2, <1>3, Invariance, PTL DEF Spec

(* While devctrl_free waits for the I/O thread, the thread has seen
   g_shutdown, is about to read it, or has the event that wakes it. *)
UnloadIsHeard == unl = "join" => shutdown /\ (io \in {"check", "exited"}
                                              \/ ioEvent)

(* The inductive form: g_shutdown is what driver_free set, the thread ends
   only on it, and it never leaves the check of it for another turn. *)
ShutdownStage == /\ shutdown <=> unl # "loaded"
                 /\ io = "exited" => shutdown
                 /\ UnloadIsHeard

LEMMA ShutdownStageInv == IInv /\ ShutdownStage /\ [Next]_vars => ShutdownStage'
<1> SUFFICES ASSUME IInv, ShutdownStage, [Next]_vars
             PROVE  ShutdownStage'
  OBVIOUS
<1> USE DEF IInv, TypeOK, ShutdownStage, UnloadIsHeard
<1>1. ASSUME NEW i \in Irps, \/ Issue(i) \/ Read1(i)
                             \/ CancelIrp(i) \/ CancelSteps(i)
      PROVE  ShutdownStage'
  <2>1. UNCHANGED <<shutdown, unl, io>> /\ (ioEvent => ioEvent')
    BY <1>1 DEF Issue, Read1, RejectRead, ArmRead, SeeCancel, Disarm, ParkRead,
         SignalRead, CompleteCancelled, CancelIrp, CancelSteps, SwapRoutine,
         CancelRead, CompleteCancelRead, ioVars
  <2>2. QED
    BY <2>1
<1>2. CASE WakeUp \/ CheckShutdown
  BY <1>2 DEF WakeUp, CheckShutdown
<1>3. CASE IoThread /\ ~WakeUp /\ ~CheckShutdown
  <2>1. /\ UNCHANGED <<shutdown, unl, ioEvent>>
        /\ io \notin {"check", "exited"} /\ io' # "exited"
    BY <1>3 DEF IoThread, NothingToService, StartScan, SkipCancelled, TakeRead,
         NoneFound, MapFails, MapRead, TakeQuery, FillDone, PopSucceeds,
         PopFails, AnswerRead
  <2>2. QED
    BY <2>1
<1>4. CASE PushQuery \/ SignalPush \/ PushFails \/ CleanQuery
  BY <1>4 DEF PushQuery, SignalPush, PushFails, CleanQuery, ioVars
<1>5. CASE Unload
  BY <1>5 DEF Unload, SetShutdown, UnloadClean, UnloadSignal, UnloadJoin,
       ioVars
<1>6. CASE UNCHANGED vars
  BY <1>6 DEF vars
<1>7. QED
  BY <1>1, <1>2, <1>3, <1>4, <1>5, <1>6 DEF Next

(* The event of devctrl_free cannot be used up by a turn that does not see
   g_shutdown, because the flag is set before the event. *)
THEOREM UnloadWakesThread == Spec => []UnloadIsHeard
<1>1. Init => ShutdownStage
  BY DEF Init, ShutdownStage, UnloadIsHeard
<1>2. ShutdownStage => UnloadIsHeard
  BY DEF ShutdownStage
<1>3. QED
  BY <1>1, <1>2, ShutdownStageInv, Invariance, PTL DEF Spec
=============================================================================
