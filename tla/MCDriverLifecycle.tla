------------------------- MODULE MCDriverLifecycle -------------------------
(* DriverLifecycle for TLC: calls are model values. *)
EXTENDS DriverLifecycle
=============================================================================
