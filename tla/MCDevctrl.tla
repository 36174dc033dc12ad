----------------------------- MODULE MCDevctrl -----------------------------
(* Devctrl for TLC: a flow and a data-link packet in a buffer that holds one *)
(* of them at a time, so that a pop finds no room, and as many reads as it  *)
(* may take to fetch both when one of them fails.                           *)
EXTENDS Devctrl, TLC

CONSTANTS f1, m1

MCPackets == {f1, m1}
MCKind    == f1 :> "flow" @@ m1 :> "mac"
Sizes     == ("flow" :> 4) @@ ("mac" :> 2)
=============================================================================
