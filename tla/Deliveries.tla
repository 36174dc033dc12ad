----------------------------- MODULE Deliveries -----------------------------
(***************************************************************************)
(* What the capture path promises its client: every packet it queued is    *)
(* either handed over once or thrown away by a close, never both and never *)
(* twice.  Batches say nothing of order: the driver's lists are LIFO.      *)
(***************************************************************************)
EXTENDS Sequences, SequencesExt

CONSTANT Packets

VARIABLES captured,   \* packets queued so far
          delivered,  \* packets handed to the client, in order
          dropped     \* packets thrown away by a close

vars == <<captured, delivered, dropped>>

Init == captured = {} /\ delivered = <<>> /\ dropped = {}

Pending == captured \ (Range(delivered) \union dropped)

Capture(p) == /\ p \notin captured
              /\ captured' = captured \union {p}
              /\ UNCHANGED <<delivered, dropped>>

(* One answered read: some of the pending packets, each of them once. *)
Deliver == /\ \E batch \in SUBSET Pending :
                 \E order \in SetToSeqs(batch) : delivered' = delivered \o order
           /\ UNCHANGED <<captured, dropped>>

Drop(p) == /\ p \in Pending
           /\ dropped' = dropped \union {p}
           /\ UNCHANGED <<captured, delivered>>

Next == Deliver \/ \E p \in Packets : Capture(p) \/ Drop(p)

Spec == Init /\ [][Next]_vars
=============================================================================
