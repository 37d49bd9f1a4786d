-------------------------- MODULE MCVolumeExpansion --------------------------
(***************************************************************************)
(* An instance of VolumeExpansion for TLC.                                 *)
(***************************************************************************)
EXTENDS VolumeExpansion

CONSTANTS fsvol, rawvol
=============================================================================
