------------------------------- MODULE MCNanoDB -------------------------------
(***************************************************************************)
(* Small instances of NanoDB for TLC.                                      *)
(***************************************************************************)
EXTENDS DiskMarshal

CONSTANTS k1, k2, k3

(* All keys fit in the slot. *)
MCShortStored == [k \in Keys |-> k]
===============================================================================
