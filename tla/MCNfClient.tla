----------------------------- MODULE MCNfClient -----------------------------
(* NfClient for TLC: the bounds are given in the configurations. *)
EXTENDS NfClient
=============================================================================
