----------------------- MODULE ProvisioningRefinement -----------------------
(***************************************************************************)
(* Provisioning implements ProvisioningContract: what a claim or a snapshot *)
(* stands for is looked up on the appliances under the id the CO was given. *)
(***************************************************************************)
EXTENDS Provisioning

\* The CO never gives two snapshots one name, and no content is no content.
ASSUME TagsDiffer == \A s, t \in Snaps : SnapClaim[s].tag = SnapClaim[t].tag => s = t
ASSUME NoContentAssumption == NoContent \notin Contents

Bound(n) == claim[n].phase = "bound"

\* What the volume of claim n holds; nothing is promised when it is not there.
DataOf(n) ==
    IF Bound(n) /\ VolumeExists(claim[n].vol) THEN volume[claim[n].vol].content ELSE NoContent

SnapDataOf(s) ==
    IF snap[s].phase = "ready" /\ Bound(SnapClaim[s].volume) /\ SnapshotExists(snap[s].id)
    THEN snapshot[snap[s].id].content ELSE NoContent

\* What the source of a clone held when the clone was first asked for.
AskedOf(n) == IF Claim[n].source.kind = "volume" THEN claim[n].since ELSE NoContent

Contract == INSTANCE ProvisioningContract WITH
    Source <- [n \in Names |-> Claim[n].source],
    SnapOf <- [s \in Snaps |-> SnapClaim[s].volume],
    phase  <- [n \in Names |-> claim[n].phase],
    data   <- [n \in Names |-> DataOf(n)],
    asked  <- [n \in Names |-> AskedOf(n)],
    sphase <- [s \in Snaps |-> snap[s].phase],
    sdata  <- [s \in Snaps |-> SnapDataOf(s)],
    sasked <- [s \in Snaps |-> snap[s].since]

\* Every step of the controller service, the appliances and their failures is a step
\* of the contract or changes nothing the CO can see: no REST call, promotion, retry,
\* late handler or crash changes what a volume or a snapshot the CO holds contains.
ImplementsContract == Contract!Spec
=============================================================================
