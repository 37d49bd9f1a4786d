--------------------------- MODULE MCProvisioning ---------------------------
(***************************************************************************)
(* Instances of Provisioning for TLC: which claims there are in each run.  *)
(***************************************************************************)
EXTENDS ProvisioningRefinement, TLC

CONSTANTS c1, c2, orig, cln, far, lost, snap1, tag1, zone1, zone2

Plain == [kind |-> "none"]
CloneOf(n)  == [kind |-> "volume", of |-> n]
RestoreOf(s) == [kind |-> "snapshot", of |-> s]

Ask(config, zone, source) == [config |-> config, zone |-> zone, source |-> source]

\* A volume placed anywhere and its clone.
CloneClaims == orig :> Ask(AnyConfig, NoZone, Plain) @@ cln :> Ask(AnyConfig, NoZone, CloneOf(orig))

\* In a set-up where one entry has zone1 and the other has none: a volume in
\* zone1, one restored there from a snapshot of it, a clone of it and a volume
\* to be placed in a zone that no entry has.
ZoneClaims == orig :> Ask(AnyConfig, zone1, Plain) @@ cln :> Ask(AnyConfig, zone1, RestoreOf(snap1))
                @@ far :> Ask(AnyConfig, zone2, CloneOf(orig)) @@ lost :> Ask(AnyConfig, zone2, Plain)

\* A volume to be placed in a zone that no entry has.
LostClaims == lost :> Ask(AnyConfig, zone2, Plain)

NoSnapClaims == [s \in {} |-> [volume |-> orig, tag |-> tag1]]
OneSnapClaim == snap1 :> [volume |-> orig, tag |-> tag1]

NoZones == [c \in Configs |-> NoZone]
OneZone == c1 :> zone1 @@ c2 :> NoZone
OwnGroups == [c \in Configs |-> c]

Symmetry == Permutations(Handlers)

=============================================================================
