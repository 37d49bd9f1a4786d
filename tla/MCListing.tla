----------------------------- MODULE MCListing ------------------------------
(***************************************************************************)
(* An instance of Listing for TLC.                                         *)
(***************************************************************************)
EXTENDS Listing, TLC

Symmetry == Permutations(Configs)
=============================================================================
