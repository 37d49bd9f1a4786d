------------------------- MODULE MCVolumeAttachment -------------------------
(***************************************************************************)
(* Instances of VolumeAttachment for TLC.                                  *)
(***************************************************************************)
EXTENDS VolumeAttachment, TLC

CONSTANTS fsvol, rawvol, sda, sdb

Symmetry == Permutations(Handlers) \cup Permutations(Devices)
=============================================================================
