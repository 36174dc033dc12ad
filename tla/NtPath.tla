------------------------------- MODULE NtPath -------------------------------
(***************************************************************************)
(* DeviceDosPathToNtPath: the path of a process as the driver reports it   *)
(* begins with the device name of its volume; the client replaces it by    *)
(* the letter of the first drive whose device name the path begins with.   *)
(*                                                                         *)
(* A path is its volume's device name and a rest that plays no part.  Of   *)
(* two device names only matters whether one begins the other, without     *)
(* regard to case: \Device\HarddiskVolume1 begins \Device\HarddiskVolume10.*)
(***************************************************************************)
EXTENDS Naturals, Sequences

CONSTANTS Drives,   \* the letters, in the order of GetLogicalDriveStrings
          DeviceOf, \* DeviceOf[letter]: what QueryDosDevice says of it
          Begins    \* <<d, v>>: the name of device d begins that of v

(* What the translation says of the drive when there is none to name. *)
Unchanged == "unchanged"  \* the path stays as it is
Lost      == "lost"       \* the path stays empty

(* Every letter is listed once, and a device name begins itself. *)
ASSUME DrivesAssumption ==
  /\ Drives \in Seq(STRING \ {Unchanged, Lost})
  /\ \A i, j \in 1..Len(Drives) : Drives[i] = Drives[j] => i = j
  /\ \A i \in 1..Len(Drives) :
       <<DeviceOf[Drives[i]], DeviceOf[Drives[i]]>> \in Begins

(* A: is skipped. *)
Considered(i) == Drives[i] # "A"

Matches(i, volume) == <<DeviceOf[Drives[i]], volume>> \in Begins

(* The loop gets to the i-th drive. *)
Reached(i, volume) ==
  \A j \in 1..(i - 1) : ~(Considered(j) /\ Matches(j, volume))

(* The drive that is hit; the path is copied unchanged when there is none or
   the list of drives is not to be had; QueryDosDevice may fail for a drive
   that is gone since, which ends the search with nothing copied. *)
Translations(volume) ==
  LET tried == {i \in 1..Len(Drives) : Considered(i) /\ Reached(i, volume)}
  IN  {Drives[i] : i \in {i \in tried : Matches(i, volume)}}
        \union {Unchanged}
        \union {Lost : i \in tried}
=============================================================================
