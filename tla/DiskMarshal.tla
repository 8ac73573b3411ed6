------------------------------ MODULE DiskMarshal ------------------------------
(***************************************************************************)
(* Writing the table of NanoDB to an IDE disk (kernel/disk_marshal.c): the *)
(* loop that sends one sector after the other, and the drive, which asks   *)
(* for a sector, is busy while it writes it and asks for the next.  The    *)
(* power may fail at any time; a sector is then written or is not.         *)
(*                                                                         *)
(* The image is counted in units of sixteen bytes: a header of one, and    *)
(* for every slot one of its key and one of its value and flags.  Nothing  *)
(* else runs before ndb_marshal_to_disk returns.                           *)
(***************************************************************************)
EXTENDS NanoDB

CONSTANTS
  SectorUnits,   (* units in a sector, 32 in the code                      *)
  CountRange,    (* values of the sector count register, 2^8               *)
  MaxRecords     (* bound: records in the journal when the table is written *)

ASSUME SectorAssumption ==
  /\ SectorUnits \in Nat \ {0}
  /\ CountRange \in Nat \ {0}

VARIABLES
  phase,    (* of the call: "none", "sending", "returned"; or "off"        *)
  sent,     (* sectors sent by the loop                                    *)
  heeded,   (* the drive took the command                                  *)
  status,   (* of the drive: "quiet", "asking" (DRQ) or "busy" (BSY)       *)
  wanted,   (* sectors the drive still waits for                           *)
  held,     (* the sector in the drive's buffer                            *)
  disk      (* the sectors from start_lba on                               *)

diskVars == <<phase, sent, heeded, status, wanted, held, disk>>

HeaderUnits == 1
SlotUnits == 2
Payload == HeaderUnits + Capacity * SlotUnits

(* Mutant: a last sector that is not full is left out. *)
MutSectorCount == Payload \div SectorUnits

SectorCount == (Payload + SectorUnits - 1) \div SectorUnits

(* Mutant: the register holds the number of the last sector. *)
MutRegister == (SectorCount - 1) % CountRange

(* What is left of the count in the register. *)
Register == SectorCount % CountRange

(* A drive takes a count of zero for the largest one. *)
Requested == IF Register = 0 THEN CountRange ELSE Register

OldUnit == <<"old">>
Header == <<"header">>
Padding == <<"zero">>
KeyUnit(i) == <<"key", entries[i].key>>
ValueUnit(i) == <<"value", entries[i].val, entries[i].flags>>

Unit(n) ==
  LET place == n - HeaderUnits
  IN  CASE n < HeaderUnits -> Header
        [] n >= HeaderUnits /\ n < Payload ->
             IF place % SlotUnits = 0 THEN KeyUnit(place \div SlotUnits)
             ELSE ValueUnit(place \div SlotUnits)
        [] OTHER -> Padding

Sector(s) == [u \in 0 .. SectorUnits - 1 |-> Unit(s * SectorUnits + u)]

OldSector == [u \in 0 .. SectorUnits - 1 |-> OldUnit]
OldDisk == [s \in 0 .. Payload \div SectorUnits + 1 |-> OldSector]

-------------------------------------------------------------------------------
DiskInit ==
  /\ Init
  /\ phase = "none" /\ sent = 0 /\ heeded = FALSE
  /\ status = "quiet" /\ wanted = 0 /\ held = OldSector
  /\ disk = OldDisk

(* The command is given without a look at the drive, which does not take   *)
(* it while it is busy with the last sector of another call.  A table      *)
(* without slots is refused.                                               *)
Marshal ==
  /\ phase \in {"none", "returned"} /\ Capacity > 0 /\ Len(log) <= MaxRecords
  /\ phase' = "sending" /\ sent' = 0
  /\ heeded' = (status = "quiet")
  /\ IF status = "quiet" THEN status' = "asking" /\ wanted' = Requested
                         ELSE UNCHANGED <<status, wanted>>
  /\ UNCHANGED <<vars, held, disk>>

(* wait_for_drive_ready, then the words of a sector. *)
Send ==
  /\ phase = "sending" /\ sent < SectorCount /\ status = "asking"
  /\ held' = Sector(sent)
  /\ sent' = sent + 1
  /\ status' = "busy"
  /\ UNCHANGED <<vars, phase, heeded, wanted, disk>>

MarshalReturn ==
  /\ phase = "sending" /\ sent = SectorCount
  /\ phase' = "returned"
  /\ UNCHANGED <<vars, sent, heeded, status, wanted, held, disk>>

(* The drive writes what it holds behind what it wrote before. *)
DriveWrites ==
  /\ phase # "off" /\ status = "busy"
  /\ disk' = [disk EXCEPT ![Requested - wanted] = held]
  /\ wanted' = wanted - 1
  /\ status' = IF wanted > 1 THEN "asking" ELSE "quiet"
  /\ UNCHANGED <<vars, phase, sent, heeded, held>>

Quiet == sent' = 0 /\ heeded' = FALSE /\ status' = "quiet" /\ wanted' = 0 /\ held' = OldSector

(* What the disk holds becomes the old contents for the next call. *)
Settle ==
  /\ phase = "returned" /\ status = "quiet"
  /\ phase' = "none" /\ disk' = OldDisk
  /\ Quiet
  /\ UNCHANGED vars

PowerOff ==
  /\ phase \in {"sending", "returned"}
  /\ phase' = "off"
  /\ Quiet
  /\ UNCHANGED <<vars, disk>>

StayOff == phase = "off" /\ UNCHANGED <<vars, diskVars>>

DiskNext ==
  \/ phase = "none" /\ Next /\ UNCHANGED diskVars
  \/ Marshal \/ Send \/ MarshalReturn
  \/ DriveWrites \/ Settle
  \/ PowerOff \/ StayOff

(* The loop goes on when it can, and a drive ends what it has begun. *)
DiskSpec ==
  /\ DiskInit /\ [][DiskNext]_<<vars, diskVars>>
  /\ WF_<<vars, diskVars>>(Send) /\ WF_<<vars, diskVars>>(MarshalReturn)
  /\ WF_<<vars, diskVars>>(DriveWrites)

-------------------------------------------------------------------------------
(* What a reader finds on the disk: unit n behind start_lba.               *)

OnDisk(n) == disk[n \div SectorUnits][n % SectorUnits]

KeyPlace(i) == HeaderUnits + i * SlotUnits
ValuePlace(i) == KeyPlace(i) + 1
OldSlot(i) == OnDisk(KeyPlace(i)) = OldUnit /\ OnDisk(ValuePlace(i)) = OldUnit
NewSlot(i) == OnDisk(KeyPlace(i)) = KeyUnit(i) /\ OnDisk(ValuePlace(i)) = ValueUnit(i)

Straddles(i) == KeyPlace(i) \div SectorUnits # ValuePlace(i) \div SectorUnits

(* Units written by a call: up to the next multiple of a sector. *)
WholeSectors == {n \in Payload .. Payload + SectorUnits : n % SectorUnits = 0}
WrittenTo == Min(WholeSectors)

(* Wherever the power failed, the disk holds the slots of the call up to   *)
(* some place and the old ones from there on; no slot is half of each,     *)
(* unless it lies in two sectors.  Once the drive is quiet after a call    *)
(* that returned, all is there, and nothing is written behind it           *)
(* (disk_marshal.c:23-66).  Between the return and that, the last sector   *)
(* may still be in the drive.                                              *)
DiskIsOldThenNew ==
  LET Fresh(n) == OnDisk(n) # OldUnit
      last == (Payload \div SectorUnits + 2) * SectorUnits - 1
  IN  /\ \A i \in Slots : OldSlot(i) \/ NewSlot(i) \/ Straddles(i)
      /\ Fresh(0) => OnDisk(0) = Header
      /\ \A n \in 1 .. last : Fresh(n) => Fresh(n - 1) /\ n < WrittenTo
      /\ phase = "returned" /\ heeded =>
           IF status = "quiet"
           THEN Fresh(0) /\ \A i \in Slots : NewSlot(i)
           ELSE \A i \in Slots : ValuePlace(i) < WrittenTo - SectorUnits => NewSlot(i)

(* A call ends, if the drive was quiet when it gave its command and the    *)
(* sectors are not more than the register counts (disk_marshal.c:32-56).   *)
MarshalReturns ==
  SectorCount <= CountRange => (phase = "sending" /\ heeded ~> phase # "sending")
===============================================================================
