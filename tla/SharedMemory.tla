---------------------------- MODULE SharedMemory ----------------------------
(***************************************************************************)
(* The two buffers the driver shares with its client (wfpdriver/devctrl.c):*)
(* devctrl_openMem makes g_inBuf and g_outBuf, each from pages, a kernel   *)
(* mapping and a user mapping, and gives all of it back when a call fails; *)
(* devctrl_close gives it back at the end of the session.                  *)
(*                                                                         *)
(* live[b] is what exists of buffer b.  The driver knows of it by the      *)
(* fields of the SHARED_MEMORY, which are set last, and until then by the  *)
(* local variables of devctrl_createSharedMemory.                          *)
(***************************************************************************)
EXTENDS ServiceControl

VARIABLES
  mem,   \* where devctrl_openMem is
  live,  \* live[b]: the parts of buffer b that exist
  fields \* fields[b]: those that g_inBuf, g_outBuf refer to

memVars == <<mem, live, fields>>

Buffers == {"inBuf", "outBuf"}
Parts   == {"pages", "kernelVa", "userVa"}

MemInit == /\ mem = "none"
           /\ live = [b \in Buffers |-> {}]
           /\ fields = [b \in Buffers |-> {}]

(* The buffer that devctrl_createSharedMemory is making. *)
Making == IF fields["inBuf"] = {} THEN "inBuf" ELSE "outBuf"

-----------------------------------------------------------------------------
(* Plausible mistakes.                                                     *)

(* The user mapping fails and the kernel mapping is forgotten. *)
MappingFails_KeepsKernelVa ==
  /\ mem = "create" /\ Fail
  /\ live' = [live EXCEPT ![Making] = @ \ {"pages"}]
  /\ mem' = "fail"
  /\ UNCHANGED fields

-----------------------------------------------------------------------------
(* devctrl_openMem.                                                        *)

OpenMem == /\ mem = "none"
           /\ mem' = "create"
           /\ UNCHANGED <<live, fields, failures>>

(* devctrl_createSharedMemory: MmAllocatePagesForMdl, then
   MmGetSystemAddressForMdlSafe, then MmMapLockedPagesSpecifyCache, ... *)
MapPart ==
  LET next == CASE live[Making] = {}        -> "pages"
                [] live[Making] = {"pages"} -> "kernelVa"
                [] OTHER                    -> "userVa"
  IN  /\ mem = "create" /\ live[Making] # Parts
      /\ live' = [live EXCEPT ![Making] = @ \union {next}]
      /\ UNCHANGED <<mem, fields, failures>>

(* ... each of which may fail, the last one with an exception as well: what
   there is of the buffer is unmapped and freed. *)
MappingFails ==
  /\ mem = "create" /\ live[Making] # Parts /\ Fail
  /\ live' = [live EXCEPT ![Making] = {}]
  /\ mem' = "fail"
  /\ UNCHANGED fields

(* The pointers are returned; g_outBuf follows g_inBuf. *)
ReturnPointers ==
  /\ mem = "create" /\ live[Making] = Parts
  /\ fields' = [fields EXCEPT ![Making] = Parts]
  /\ mem' = IF Making = "inBuf" THEN "create" ELSE "opened"
  /\ UNCHANGED <<live, failures>>

(* devctrl_freeSharedMemory, of both buffers. *)
FreeBoth == /\ live' = [b \in Buffers |-> live[b] \ fields[b]]
            /\ fields' = [b \in Buffers |-> {}]

(* devctrl_openMem does so after a failure, and the request fails. *)
FreeAfterFailure == /\ mem = "fail"
                    /\ FreeBoth
                    /\ mem' = "failed"
                    /\ UNCHANGED failures

MakeBuffers == OpenMem \/ MapPart \/ MappingFails \/ ReturnPointers
               \/ FreeAfterFailure

MemTypeOK == /\ mem \in {"none", "create", "opened", "fail", "failed"}
             /\ live \in [Buffers -> SUBSET Parts]
             /\ fields \in [Buffers -> {{}, Parts}]
=============================================================================
