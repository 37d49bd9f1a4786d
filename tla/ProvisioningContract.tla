------------------------ MODULE ProvisioningContract ------------------------
(***************************************************************************)
(* What the controller service promises the CO about its volumes and       *)
(* snapshots, with one atomic step for each thing the CO can notice: no    *)
(* appliances, names, handlers, retries or failures.  Provisioning         *)
(* implements it (ProvisioningRefinement).                                 *)
(***************************************************************************)
EXTENDS Naturals

CONSTANTS
    Names,       \* claims
    Snaps,       \* snapshot requests
    Source,      \* [Names -> where a claim's volume comes from]
    SnapOf,      \* [Snaps -> Names], the claim each request is about
    NoContent,
    MaxWrites    \* bound on the writes to a volume

\* What a volume holds: the claim it descends from and the writes seen since.
Contents == [root : Names, writes : 0 .. MaxWrites]

VARIABLES
    phase,    \* [Names -> "unbound", "bound", "deleting" or "released"]
    data,     \* [Names -> what the volume holds, while it is bound]
    asked,    \* [Names -> what a clone's source held when the clone was first asked for]
    sphase,   \* [Snaps -> "none", "ready", "deleting" or "released"]
    sdata,    \* [Snaps -> what a ready snapshot holds, while its volume is bound]
    sasked    \* [Snaps -> what the volume held when the snapshot was first asked for]

cvars == <<phase, data, asked, sphase, sdata, sasked>>

Init ==
    /\ phase = [n \in Names |-> "unbound"]
    /\ data = [n \in Names |-> NoContent]
    /\ asked = data
    /\ sphase = [s \in Snaps |-> "none"]
    /\ sdata = [s \in Snaps |-> NoContent]
    /\ sasked = sdata

\* A state of volume m at some time since it held c.
SinceThen(c, m) == [root : {data[m].root}, writes : c.writes .. data[m].writes]

AskClone(n) ==
    /\ phase[n] = "unbound" /\ asked[n] = NoContent
    /\ Source[n].kind = "volume" /\ phase[Source[n].of] = "bound"
    /\ asked' = [asked EXCEPT ![n] = data[Source[n].of]]
    /\ UNCHANGED <<phase, data, sphase, sdata, sasked>>

\* A restored volume is as its snapshot; after the deletion of the snapshotted
\* volume nothing is promised of what it holds.
Provided(n) ==
    LET src == Source[n] IN
    CASE src.kind = "none"   -> {[root |-> n, writes |-> 0]}
      [] src.kind = "volume" -> SinceThen(asked[n], src.of)
      [] OTHER -> IF sdata[src.of] = NoContent THEN Contents ELSE {sdata[src.of]}

Bind(n) ==
    /\ phase[n] = "unbound"
    /\ Source[n].kind = "volume" => phase[Source[n].of] = "bound"
    /\ phase' = [phase EXCEPT ![n] = "bound"]
    /\ \E c \in Provided(n) : data' = [data EXCEPT ![n] = c]
    /\ UNCHANGED <<asked, sphase, sdata, sasked>>

Write(n) ==
    /\ phase[n] = "bound" /\ data[n].writes < MaxWrites
    /\ data' = [data EXCEPT ![n].writes = @ + 1]
    /\ UNCHANGED <<phase, asked, sphase, sdata, sasked>>

BeginDelete(n) ==
    /\ phase[n] = "bound"
    /\ phase' = [phase EXCEPT ![n] = "deleting"]
    /\ data' = [data EXCEPT ![n] = NoContent]
    /\ sdata' = [s \in Snaps |-> IF SnapOf[s] = n THEN NoContent ELSE sdata[s]]
    /\ UNCHANGED <<asked, sphase, sasked>>

Release(n) ==
    /\ phase[n] = "deleting"
    /\ phase' = [phase EXCEPT ![n] = "released"]
    /\ UNCHANGED <<data, asked, sphase, sdata, sasked>>

AskSnapshot(s) ==
    /\ sphase[s] = "none" /\ sasked[s] = NoContent
    /\ phase[SnapOf[s]] = "bound"
    /\ sasked' = [sasked EXCEPT ![s] = data[SnapOf[s]]]
    /\ UNCHANGED <<phase, data, asked, sphase, sdata>>

MakeReady(s) ==
    /\ sphase[s] = "none" /\ phase[SnapOf[s]] = "bound"
    /\ sphase' = [sphase EXCEPT ![s] = "ready"]
    /\ \E c \in SinceThen(sasked[s], SnapOf[s]) : sdata' = [sdata EXCEPT ![s] = c]
    /\ UNCHANGED <<phase, data, asked, sasked>>

BeginDeleteSnapshot(s) ==
    /\ sphase[s] = "ready"
    /\ sphase' = [sphase EXCEPT ![s] = "deleting"]
    /\ sdata' = [sdata EXCEPT ![s] = NoContent]
    /\ UNCHANGED <<phase, data, asked, sasked>>

ReleaseSnapshot(s) ==
    /\ sphase[s] = "deleting"
    /\ sphase' = [sphase EXCEPT ![s] = "released"]
    /\ UNCHANGED <<phase, data, asked, sdata, sasked>>

Next ==
    \/ \E n \in Names : AskClone(n) \/ Bind(n) \/ Write(n) \/ BeginDelete(n) \/ Release(n)
    \/ \E s \in Snaps :
         AskSnapshot(s) \/ MakeReady(s) \/ BeginDeleteSnapshot(s) \/ ReleaseSnapshot(s)

Spec == Init /\ [][Next]_cvars
=============================================================================
