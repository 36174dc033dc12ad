---------------------------- MODULE ReadRequests ----------------------------
(***************************************************************************)
(* What the control device promises the I/O manager about the read         *)
(* requests (IRP_MJ_READ) it is given: a request is answered once, with    *)
(* STATUS_CANCELLED only if somebody asked to cancel it.                   *)
(***************************************************************************)
EXTENDS Sequences

CONSTANT Irps          \* the read requests

Statuses == {"SUCCESS", "CANCELLED", "INVALID_PARAMETER",
             "INSUFFICIENT_RESOURCES"}

VARIABLES issued,      \* the requests handed to the driver
          cancel,      \* cancel[i]: IRP i's Cancel flag
          answers      \* answers[i]: the statuses IRP i was completed with

vars == <<issued, cancel, answers>>

Init == /\ issued  = {}
        /\ cancel  = [i \in Irps |-> FALSE]
        /\ answers = [i \in Irps |-> <<>>]

Issue(i) == /\ i \notin issued
            /\ issued' = issued \union {i}
            /\ UNCHANGED <<cancel, answers>>

RequestCancel(i) == /\ i \in issued
                    /\ ~cancel[i]
                    /\ cancel' = [cancel EXCEPT ![i] = TRUE]
                    /\ UNCHANGED <<issued, answers>>

Answer(i, status) == /\ i \in issued
                     /\ answers[i] = <<>>
                     /\ status = "CANCELLED" => cancel[i]
                     /\ answers' = [answers EXCEPT ![i] = <<status>>]
                     /\ UNCHANGED <<issued, cancel>>

Next == \E i \in Irps : \/ Issue(i)
                        \/ RequestCancel(i)
                        \/ \E status \in Statuses : Answer(i, status)

Spec == Init /\ [][Next]_vars
=============================================================================
