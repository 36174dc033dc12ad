--------------------------- MODULE MCCaptureQueue ---------------------------
(* Instances of CaptureQueue for TLC: flows only, which is what             *)
(* registerCallouts registers, and both layers, as devctrl.c is written.    *)
EXTENDS CaptureQueue, TLC

CONSTANTS f1, f2, f3, m1, m2

FlowsOnly == [p \in Packets |-> "flow"]
BothKinds == [p \in Packets |-> IF p \in {m1, m2} THEN "mac" ELSE "flow"]

(* The real sizes are 1135 and 75 bytes in a buffer of 6553600.  One flow
   record fits in 8 with two data-link records, which fill it exactly. *)
Sizes == ("flow" :> 4) @@ ("mac" :> 2)

KindSymmetry == Permutations({f1, f2, f3}) \union Permutations({m1, m2})
=============================================================================
