--------------------------- MODULE MCPendedReads ----------------------------
(* Instance of PendedReads for TLC. *)
EXTENDS PendedReads, TLC

(* The IRPs are interchangeable; used where no liveness is checked. *)
IrpSymmetry == Permutations(Irps)
=============================================================================
