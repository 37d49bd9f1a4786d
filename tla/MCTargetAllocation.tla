------------------------ MODULE MCTargetAllocation ------------------------
(***************************************************************************)
(* Instances of TargetAllocation for TLC: two nodes, up to four volumes,   *)
(* with and without CHAP.                                                  *)
(***************************************************************************)
EXTENDS TargetAllocation, TLC

CONSTANTS node1, node2, vol1, vol2, vol3, vol4, tgt1, tgt2, tgt3, hg1, hg2, hg3

TwoVolumes == {vol1, vol2}
FourVolumes == {vol1, vol2, vol3, vol4}

Apart == [v \in Volumes |-> IF v = vol1 THEN node1 ELSE node2]

OneChap == {vol2}

(* Names of targets and of host groups are interchangeable when none of     *)
(* them is configured.                                                     *)
Symmetry == Permutations(Targets) \cup Permutations(HostGroups)
============================================================================
