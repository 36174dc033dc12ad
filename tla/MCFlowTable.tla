----------------------------- MODULE MCFlowTable ----------------------------
(* FlowTable for TLC: four flows, of which two share protocol and port on   *)
(* two addresses and a third differs from the first in protocol only.       *)
EXTENDS FlowTable, TLC

CONSTANTS f1, f2, f3, f4

MCFlows == {f1, f2, f3, f4}
MCProto == f1 :> "tcp" @@ f2 :> "tcp" @@ f3 :> "udp" @@ f4 :> "tcp"
MCPort  == f1 :> 53    @@ f2 :> 53    @@ f3 :> 53    @@ f4 :> 80
MCAddr  == f1 :> "lan" @@ f2 :> "loopback" @@ f3 :> "lan" @@ f4 :> "lan"

(* The third drive's device name begins the second's and the fourth's: a     *)
(* path on the fourth is found on the third.                                *)
MCDrives == <<"A", "C", "D", "E">>
MCDevice == "A" :> "Floppy0" @@ "C" :> "Volume10" @@ "D" :> "Volume1"
              @@ "E" :> "Volume11"
MCBegins == {<<v, v>> : v \in {"Floppy0", "Volume1", "Volume10", "Volume11"}}
              \union {<<"Volume1", "Volume10">>, <<"Volume1", "Volume11">>}
MCVolume == f1 :> "Volume10" @@ f2 :> "Volume11" @@ f3 :> "Volume1"
              @@ f4 :> "Share"
=============================================================================
