--------------------- MODULE ProvisioningRefinementProofs ---------------------
(***************************************************************************)
(* Provisioning implements ProvisioningContract, for every number of       *)
(* appliances, claims, handlers, snapshots, writes and faults, if the      *)
(* names of the CO's snapshots differ.                                     *)
(***************************************************************************)
EXTENDS ProvisioningRefinement, ProvisioningProofs

-----------------------------------------------------------------------------
(* The invariant.  A clone's snapshot and a snapshot the CO asks for are    *)
(* made alike: a request is one or the other.                              *)

Kind(n) == Claim[n].source.kind

Requests == {n \in Names : Kind(n) = "volume"} \cup Snaps

SourceOf(r) == IF r \in Snaps THEN SnapClaim[r].volume ELSE Claim[r].source.of
TagOf(r)    == IF r \in Snaps THEN UserTag(SnapClaim[r].tag) ELSE CloneTag(r)
SinceOf(r)  == IF r \in Snaps THEN snap[r].since ELSE claim[r].since
IdOf(r)     == [volume |-> claim[SourceOf(r)].vol, tag |-> TagOf(r)]

SourceBound(r) == claim[SourceOf(r)].phase = "bound"
Current(r)     == volume[claim[SourceOf(r)].vol].content

\* c is a state the source of r has had since it was asked for.
Fresh(r, c) ==
    LET since == SinceOf(r) IN
    /\ since # NoContent
    /\ since.root = c.root /\ c.root = Current(r).root
    /\ since.writes <= c.writes /\ c.writes <= Current(r).writes

\* Nothing is asked of a volume the CO has not got.
AsksAreFresh ==
    \A r \in Requests : SinceOf(r) # NoContent =>
        /\ claim[SourceOf(r)].phase # "unbound"
        /\ SourceBound(r) => Fresh(r, Current(r))

\* As long as the source is bound a request's snapshot is nowhere else, and fresh.
SnapshotsAreFresh ==
    \A r \in Requests, x \in SnapIds : SnapshotExists(x) /\ x.tag = TagOf(r) =>
        /\ claim[SourceOf(r)].phase # "unbound"
        /\ SourceBound(r) => x.volume = claim[SourceOf(r)].vol /\ Fresh(r, snapshot[x].content)

\* A handler knows which snapshot it is about; the source of a call that is
\* waited for is kept.
Asked(h) ==
    LET r == handler[h].obj  op == handler[h].op IN
    /\ op = "CreateSnapshot" \/ (op = "CreateVolume" /\ Kind(r) = "volume") =>
         /\ handler[h].snap = IdOf(r)
         /\ claim[SourceOf(r)].phase # "unbound"
         /\ SinceOf(r) # NoContent
         /\ handler[h].live => SourceBound(r)
    /\ op = "CreateVolume" /\ Kind(r) = "snapshot" =>
         LET s == Claim[r].source.of IN
         snap[s].phase # "none" /\ handler[h].snap = snap[s].id
    /\ op = "CreateSnapshot" /\ handler[h].live => snap[r].phase = "none"
    /\ op = "DeleteSnapshot" =>
         snap[r].phase \in {"deleting", "released"} /\ handler[h].snap = snap[r].id

CallsAreAsked == \A h \in Handlers : Asked(h)

\* The steps of CreateVolume are those of the kind of source it has.
Fits(r) ==
    r.op = "CreateVolume" =>
        /\ r.pc \in {"create", "getExisting"} => Kind(r.obj) = "none"
        /\ r.pc = "getSnapshot" => Kind(r.obj) = "snapshot"
        /\ r.pc \in {"listSnapshots", "createSnapshot", "getCreated"} => Kind(r.obj) = "volume"
        /\ r.pc = "clone" => Kind(r.obj) # "none"

StepsFit == \A h \in Handlers : Fits(handler[h])

\* CreateSnapshot answers only about a snapshot that is there.
SnapAnswersAreTrue ==
    \A h \in Handlers :
        handler[h].op = "CreateSnapshot" /\ handler[h].pc = "reply" /\ handler[h].live =>
            SnapshotExists(handler[h].snap)

\* A ready snapshot stays where it was made, as long as its volume is bound.
ReadyStay ==
    \A s \in Snaps : snap[s].phase # "none" =>
        /\ snap[s].id = IdOf(s)
        /\ claim[SourceOf(s)].phase # "unbound"
        /\ snap[s].phase = "ready" /\ SourceBound(s) => SnapshotExists(snap[s].id)

\* A volume found by a claim that is not bound yet is what the claim asks for.
AsRequested(v) ==
    LET n == v.name  held == volume[v].content  free == claim[n].phase = "unbound" IN
    CASE Kind(n) = "none" -> held.root = n /\ (free => held.writes = 0)
      [] Kind(n) = "volume" ->
           free => claim[SourceOf(n)].phase # "unbound" /\ (SourceBound(n) => Fresh(n, held))
      [] OTHER ->
           free => LET s == Claim[n].source.of IN
                   /\ snap[s].phase # "none"
                   /\ snap[s].phase = "ready" /\ SourceBound(s) =>
                        held = snapshot[snap[s].id].content

VolumesAreAsRequested == \A v \in VolIds : VolumeExists(v) => AsRequested(v)

WritesAreBounded ==
    /\ \A v \in VolIds : VolumeExists(v) => volume[v].content.writes <= MaxWrites
    /\ \A x \in SnapIds : SnapshotExists(x) => snapshot[x].content.writes <= MaxWrites

ContentInv ==
    /\ AsksAreFresh /\ SnapshotsAreFresh
    /\ CallsAreAsked /\ StepsFit /\ SnapAnswersAreTrue
    /\ ReadyStay
    /\ VolumesAreAsRequested /\ WritesAreBounded

-----------------------------------------------------------------------------
(* Requests.                                                               *)

LEMMA RequestTypes ==
    ASSUME TypeInv, NEW r \in Requests
    PROVE  /\ r \in Names \cup Snaps
           /\ SourceOf(r) \in Names
           /\ claim[SourceOf(r)] \in ClaimStates
           /\ TagOf(r) \in Tags
           /\ SinceOf(r) \in Contents \cup {NoContent}
           /\ claim[SourceOf(r)].phase # "unbound" =>
                claim[SourceOf(r)].vol \in VolIds /\ claim[SourceOf(r)].vol.name = SourceOf(r)
<1>1. CASE r \in Snaps
  <2>1. SnapClaim[r].volume \in Names /\ SnapClaim[r].tag \in UserTags
    BY <1>1, SnapClaimAssumption
  <2>2. snap[r].since \in Contents \cup {NoContent}
    BY <1>1 DEF TypeInv, CoInv, SnapStates
  <2> QED
    BY <1>1, <2>1, <2>2 DEF SourceOf, TagOf, SinceOf, UserTag, Tags, TypeInv, CoInv, GoodClaim
<1>2. CASE r \in Names /\ r \notin Snaps /\ Kind(r) = "volume"
  <2>1. Claim[r].source \in Sources
    BY <1>2, ClaimAssumption DEF ClaimTypes
  <2>2. Claim[r].source.of \in Names
    BY <1>2, <2>1 DEF Kind, Sources
  <2>3. claim[r].since \in Contents \cup {NoContent}
    BY <1>2 DEF TypeInv, CoInv, ClaimStates
  <2> QED
    BY <1>2, <2>2, <2>3 DEF SourceOf, TagOf, SinceOf, CloneTag, Tags, TypeInv, CoInv, GoodClaim
<1> QED
  BY <1>1, <1>2 DEF Requests

LEMMA SnapRequests ==
    /\ \A s \in Snaps : s \in Requests /\ SourceOf(s) = SnapClaim[s].volume /\ s \notin Names
    /\ \A n \in Names : Kind(n) = "volume" =>
         n \in Requests /\ n \notin Snaps /\ SourceOf(n) = Claim[n].source.of
  BY ObjectAssumption DEF Requests, SourceOf

\* No two requests make snapshots of one name.
LEMMA TagsAreTheirs ==
    ASSUME NEW q \in Requests, NEW r \in Requests, TagOf(q) = TagOf(r)
    PROVE  q = r
<1>1. CASE q \in Snaps /\ r \in Snaps
  BY <1>1, TagsDiffer DEF TagOf, UserTag
<1>2. CASE q \notin Snaps /\ r \notin Snaps
  BY <1>2 DEF TagOf, CloneTag
<1>3. CASE (q \in Snaps) # (r \in Snaps)
  BY <1>3 DEF TagOf, CloneTag, UserTag
<1> QED
  BY <1>1, <1>2, <1>3

LEMMA Kinds ==
    ASSUME NEW n \in Names
    PROVE  /\ Kind(n) \in {"none", "volume", "snapshot"}
           /\ Kind(n) = "volume" => Claim[n].source.of \in Names
           /\ Kind(n) = "snapshot" => Claim[n].source.of \in Snaps
<1>1. Claim[n].source \in Sources
  BY ClaimAssumption DEF ClaimTypes
<1> QED
  BY <1>1 DEF Kind, Sources

LEMMA ContentTypes ==
    ASSUME TypeInv
    PROVE  /\ \A v \in VolIds : VolumeExists(v) =>
                volume[v] \in Volumes /\ volume[v].content \in Contents
           /\ \A x \in SnapIds : SnapshotExists(x) =>
                /\ snapshot[x] \in Snapshots /\ snapshot[x].content \in Contents
                /\ x.volume \in VolIds /\ x.tag \in Tags
  BY DEF TypeInv, NsTypeOK, VolumeExists, SnapshotExists, Volumes, Snapshots, SnapIds

-----------------------------------------------------------------------------
(* What a step does to volumes and to snapshots.                           *)

\* The application writes.
Written(v) ==
    \E n \in Names :
        /\ Write(n) /\ claim[n].phase = "bound" /\ claim[n].vol = v /\ VolumeExists(v)
        /\ volume[v].content.writes < MaxWrites
        /\ volume'[v].content = [volume[v].content EXCEPT !.writes = @ + 1]

\* CreateVolume makes the volume, empty or as its snapshot is.
Made(v) ==
    \E h \in Handlers :
        /\ handler[h].op = "CreateVolume" /\ handler[h].vol = v /\ ~VolumeExists(v)
        /\ UNCHANGED <<snapshot, claim, snap>>
        /\ \/ /\ handler[h].pc = "create"
              /\ volume'[v].content = [root |-> v.name, writes |-> 0]
           \/ /\ handler[h].pc = "clone" /\ SnapshotExists(handler[h].snap)
              /\ volume'[v].content = snapshot[handler[h].snap].content

SameContent(v) == VolumeExists(v) /\ volume'[v].content = volume[v].content

LEMMA PromotionContents ==
    ASSUME TypeInv, NEW v \in VolIds, VolumeExists(v), NsDestroyVolume(v),
           NEW x \in VolIds, VolumeExists(x)'
    PROVE  SameContent(x)
<1>1. CASE NsDestroyAlone(v)
  BY <1>1 DEF TypeInv, NsTypeOK, NsDestroyAlone, VolumeExists, SameContent
<1>2. CASE \E w \in VolIds, moved \in SUBSET SnapshotsOf(v) : NsPromoteAndDestroy(v, w, moved)
  <2>1. PICK w \in VolIds, moved \in SUBSET SnapshotsOf(v) : NsPromoteAndDestroy(v, w, moved)
    BY <1>2
  <2>2. VolumeExists(w)
    BY <2>1 DEF NsPromoteAndDestroy, Clones
  <2>3. volume[w] \in Volumes
    BY <2>2, ContentTypes
  <2>4. volume'[x] = IF x = v THEN Absent
                     ELSE IF x = w THEN [volume[w] EXCEPT !.origin = volume[v].origin]
                     ELSE IF VolumeExists(x) /\ volume[x].origin \in moved
                          THEN [volume[x] EXCEPT !.origin = OwnedBy(@, w)] ELSE volume[x]
    BY <2>1 DEF NsPromoteAndDestroy
  <2>5. x # v /\ VolumeExists(x)
    BY <2>2, <2>4 DEF VolumeExists
  <2>6. volume[x] \in Volumes
    BY <2>5, ContentTypes
  <2> QED
    BY <2>3, <2>4, <2>5, <2>6 DEF Volumes, SameContent
<1> QED
  BY <1>1, <1>2 DEF NsDestroyVolume

LEMMA VolumeStep ==
    ASSUME TypeInv, Next, NEW v \in VolIds, VolumeExists(v)'
    PROVE  SameContent(v) \/ Written(v) \/ Made(v)
<1>1. ASSUME UNCHANGED volume PROVE SameContent(v)
  BY <1>1 DEF SameContent, VolumeExists
<1>2. ASSUME NEW h \in Handlers, CreateNew(h) PROVE SameContent(v) \/ Made(v)
  <2> DEFINE x == handler[h].vol
  <2>1. CASE UNCHANGED volume
    BY <1>1, <2>1
  <2>2. CASE NsCreateVolume(x, handler[h].size) /\ ~VolumeExists(x)
    <3>1. handler[h].op = "CreateVolume" /\ handler[h].pc = "create" /\ UNCHANGED <<snapshot, claim, snap>>
      BY <1>2, <2>2 DEF CreateNew, At, NsCreateVolume, coVars
    <3>2. CASE v = x
      BY <2>2, <3>1, <3>2 DEF NsCreateVolume, Made, TypeInv, NsTypeOK
    <3>3. CASE v # x
      BY <2>2, <3>3 DEF NsCreateVolume, SameContent, VolumeExists, TypeInv, NsTypeOK
    <3> QED
      BY <3>2, <3>3
  <2> QED
    BY <1>2, <2>1, <2>2 DEF CreateNew, nsVars
<1>3. ASSUME NEW h \in Handlers, Clone(h) PROVE SameContent(v) \/ Made(v)
  <2> DEFINE x == handler[h].vol  s == handler[h].snap
  <2>1. CASE UNCHANGED volume
    BY <1>1, <2>1
  <2>2. CASE NsCloneSnapshot(s, x) /\ ~VolumeExists(x) /\ SnapshotExists(s)
    <3>1. handler[h].op = "CreateVolume" /\ handler[h].pc = "clone" /\ UNCHANGED <<snapshot, claim, snap>>
      BY <1>3, <2>2 DEF Clone, At, NsCloneSnapshot, coVars
    <3>2. CASE v = x
      BY <2>2, <3>1, <3>2 DEF NsCloneSnapshot, Made, TypeInv, NsTypeOK
    <3>3. CASE v # x
      BY <2>2, <3>3 DEF NsCloneSnapshot, SameContent, VolumeExists, TypeInv, NsTypeOK
    <3> QED
      BY <3>2, <3>3
  <2> QED
    BY <1>3, <2>1, <2>2 DEF Clone, nsVars, SnapshotVisible
<1>4. ASSUME NEW h \in Handlers, DestroyVolume(h) PROVE SameContent(v)
  <2>1. handler[h].vol \in VolIds
    BY <1>4, RecordType DEF DestroyVolume, At, GoodHandler
  <2>2. CASE UNCHANGED volume
    BY <1>1, <2>2
  <2>3. CASE VolumeExists(handler[h].vol) /\ NsDestroyVolume(handler[h].vol)
    BY <2>1, <2>3, PromotionContents
  <2> QED
    BY <1>4, <2>2, <2>3 DEF DestroyVolume, Visible, nsVars
<1>5. ASSUME NEW n \in Names, Write(n) PROVE SameContent(v) \/ Written(v)
  <2> DEFINE x == claim[n].vol
  <2>1. /\ claim[n].phase = "bound" /\ VolumeExists(x) /\ volume[x].content.writes < MaxWrites
        /\ NsWrite(x) /\ x \in VolIds
    BY <1>5 DEF Write, Visible, TypeInv, CoInv, GoodClaim
  <2>2. volume[x] \in Volumes
    BY <2>1, ContentTypes
  <2>3. volume' = [volume EXCEPT ![x] = [volume[x] EXCEPT !.content = [volume[x].content EXCEPT !.writes = @ + 1]]]
    BY <2>1 DEF NsWrite
  <2>4. CASE v = x
    <3>1. volume'[v] = [volume[x] EXCEPT !.content = [volume[x].content EXCEPT !.writes = @ + 1]]
      BY <2>1, <2>3, <2>4 DEF TypeInv, NsTypeOK
    <3>2. volume'[v].content = [volume[v].content EXCEPT !.writes = @ + 1]
      BY <2>2, <2>4, <3>1 DEF Volumes
    <3> QED
      BY <1>5, <2>1, <2>4, <3>2 DEF Written
  <2>5. CASE v # x
    BY <2>3, <2>5 DEF SameContent, VolumeExists, TypeInv, NsTypeOK
  <2> QED
    BY <2>4, <2>5
<1>6. ASSUME NEW h \in Handlers, HandlerStep(h)
      PROVE  \/ UNCHANGED volume \/ CreateNew(h) \/ Clone(h) \/ DestroyVolume(h)
  BY <1>6 DEF HandlerStep, Resolve, ResolveNotFound, ResolveWrongZone, ResolvePanics, GetExisting,
     GetSnapshot, ListSnapshots, CreateSnapshotOnNS, NsCreateSnapshot, GetCreated, GetLuns, DestroyLun,
     NsDestroyLunMapping, DestroySnapshot, NsDestroySnapshot, Reply, nsVars
<1>7. ASSUME NEW h \in Handlers, Calls(h) PROVE UNCHANGED volume
  BY <1>7 DEF Calls, CallCreateVolume, CallDeleteVolume, CallCreateSnapshot, CallDeleteSnapshot, nsVars
<1>8. ASSUME Environment PROVE UNCHANGED volume \/ \E n \in Names : Write(n)
  BY <1>8 DEF Environment, NodeMaps, NodeUnmaps, NsCreateLunMapping, NsDestroyLunMapping, Fail,
     AbandonCall, Crash, PoolExport, PoolImport, nsVars
<1> QED
  BY <1>1, <1>2, <1>3, <1>4, <1>5, <1>6, <1>7, <1>8 DEF Next

\* CreateSnapshotOnNS makes the snapshot, of what its volume holds.
Taken(x) ==
    \E h \in Handlers :
        /\ handler[h].pc = "createSnapshot" /\ handler[h].snap = x
        /\ ~SnapshotExists(x) /\ VolumeExists(x.volume)
        /\ UNCHANGED <<volume, claim, snap>>
        /\ snapshot'[x].content = volume[x.volume].content

\* A snapshot of a volume that is destroyed is taken over by a clone.
Moved(x) ==
    \E h \in Handlers, y \in SnapIds :
        /\ handler[h].op = "DeleteVolume" /\ y.volume = handler[h].vol /\ y.tag = x.tag
        /\ SnapshotExists(y) /\ snapshot'[x] = snapshot[y]
        /\ UNCHANGED <<claim, snap>>

SameSnapshot(x) == SnapshotExists(x) /\ snapshot'[x] = snapshot[x]

\* What destroys a snapshot: the deletion of its volume or its own.
Dropped(x) ==
    \E h \in Handlers :
        /\ UNCHANGED <<claim, snap>>
        /\ \/ handler[h].op = "DeleteVolume" /\ x.volume = handler[h].vol
           \/ handler[h].op = "DeleteSnapshot" /\ x = handler[h].snap

LEMMA PromotionSnapshots ==
    ASSUME TypeInv, NEW v \in VolIds, NsDestroyVolume(v), NEW x \in SnapIds
    PROVE  /\ SnapshotExists(x) => SameSnapshot(x) \/ x.volume = v
           /\ SnapshotExists(x)' => \/ SameSnapshot(x)
                                    \/ \E y \in SnapIds : /\ y.volume = v /\ y.tag = x.tag
                                                         /\ SnapshotExists(y) /\ snapshot'[x] = snapshot[y]
<1>0. Absent \notin Snapshots
  BY AbsentAssumption
<1>1. CASE NsDestroyAlone(v)
  BY <1>1 DEF NsDestroyAlone, SnapshotExists, SameSnapshot
<1>2. CASE \E w \in VolIds, moved \in SUBSET SnapshotsOf(v) : NsPromoteAndDestroy(v, w, moved)
  <2>1. PICK w \in VolIds, moved \in SUBSET SnapshotsOf(v) : NsPromoteAndDestroy(v, w, moved)
    BY <1>2
  <2> DEFINE y == OwnedBy(x, v)
  <2>2. snapshot'[x] = IF x.volume = v THEN Absent
                       ELSE IF x.volume = w /\ y \in moved THEN snapshot[y] ELSE snapshot[x]
    BY <2>1 DEF NsPromoteAndDestroy
  <2>3. y \in SnapIds /\ y.volume = v /\ y.tag = x.tag
    BY DEF OwnedBy, SnapIds
  <2>4. y \in moved => SnapshotExists(y)
    BY <2>1 DEF SnapshotsOf
  <2>5. x.volume = w /\ y \in moved => ~SnapshotExists(x)
    <3>1. x.volume = w => x = OwnedBy(y, w)
      BY DEF OwnedBy, SnapIds
    <3> QED
      BY <2>1, <3>1 DEF NsPromoteAndDestroy
  <2>6. SnapshotExists(x) => SameSnapshot(x) \/ x.volume = v
    BY <2>2, <2>5 DEF SameSnapshot
  <2>7. SnapshotExists(x)' =>
          SameSnapshot(x) \/ (x.volume = w /\ y \in moved /\ snapshot'[x] = snapshot[y])
    BY <2>2 DEF SameSnapshot, SnapshotExists
  <2> QED
    BY <2>3, <2>4, <2>6, <2>7
<1> QED
  BY <1>1, <1>2 DEF NsDestroyVolume

LEMMA SnapshotStep ==
    ASSUME TypeInv, Next, NEW x \in SnapIds
    PROVE  /\ SnapshotExists(x)' => SameSnapshot(x) \/ Taken(x) \/ Moved(x)
           /\ SnapshotExists(x) => SameSnapshot(x) \/ Dropped(x)
<1> DEFINE Both == /\ SnapshotExists(x)' => SameSnapshot(x) \/ Taken(x) \/ Moved(x)
                   /\ SnapshotExists(x) => SameSnapshot(x) \/ Dropped(x)
<1>1. ASSUME UNCHANGED snapshot PROVE Both
  BY <1>1 DEF SameSnapshot, SnapshotExists
<1>2. ASSUME NEW h \in Handlers, CreateSnapshotOnNS(h) PROVE Both
  <2> DEFINE s == handler[h].snap
  <2>1. CASE UNCHANGED snapshot
    BY <1>1, <2>1
  <2>2. CASE NsCreateSnapshot(s) /\ ~SnapshotExists(s) /\ VolumeExists(s.volume)
    <3>1. handler[h].pc = "createSnapshot" /\ UNCHANGED <<volume, claim, snap>>
      BY <1>2, <2>2 DEF CreateSnapshotOnNS, NsCreateSnapshot, coVars
    <3>2. CASE x = s
      <4>1. snapshot'[x].content = volume[x.volume].content
        BY <2>2, <3>2 DEF NsCreateSnapshot, TypeInv, NsTypeOK
      <4> QED
        BY <2>2, <3>1, <3>2, <4>1 DEF Taken
    <3>3. CASE x # s
      BY <2>2, <3>3 DEF NsCreateSnapshot, SameSnapshot, SnapshotExists, TypeInv, NsTypeOK
    <3> QED
      BY <3>2, <3>3
  <2> QED
    BY <1>2, <2>1, <2>2 DEF CreateSnapshotOnNS, nsVars, Visible
<1>3. ASSUME NEW h \in Handlers, DestroySnapshot(h) PROVE Both
  <2> DEFINE s == handler[h].snap
  <2>1. CASE UNCHANGED snapshot
    BY <1>1, <2>1
  <2>2. CASE NsDestroySnapshot(s)
    <3>1. handler[h].op = "DeleteSnapshot" /\ UNCHANGED <<claim, snap>>
      BY <1>3 DEF DestroySnapshot, At, coVars
    <3>2. snapshot'[x] = IF x = s THEN Absent ELSE snapshot[x]
      BY <2>2 DEF NsDestroySnapshot, TypeInv, NsTypeOK
    <3> QED
      BY <3>1, <3>2 DEF SameSnapshot, SnapshotExists, Dropped
  <2> QED
    BY <1>3, <2>1, <2>2 DEF DestroySnapshot, nsVars
<1>4. ASSUME NEW h \in Handlers, DestroyVolume(h) PROVE Both
  <2> DEFINE v == handler[h].vol
  <2>1. v \in VolIds /\ handler[h].op = "DeleteVolume" /\ UNCHANGED <<claim, snap>>
    BY <1>4, RecordType DEF DestroyVolume, At, GoodHandler, coVars
  <2>2. CASE UNCHANGED snapshot
    BY <1>1, <2>2
  <2>3. CASE NsDestroyVolume(v)
    BY <2>1, <2>3, PromotionSnapshots DEF Moved, Dropped
  <2> QED
    BY <1>4, <2>2, <2>3 DEF DestroyVolume, nsVars
<1>5. ASSUME NEW h \in Handlers, HandlerStep(h)
      PROVE  \/ UNCHANGED snapshot \/ CreateSnapshotOnNS(h) \/ DestroySnapshot(h) \/ DestroyVolume(h)
  BY <1>5 DEF HandlerStep, Resolve, ResolveNotFound, ResolveWrongZone, ResolvePanics, CreateNew,
     NsCreateVolume, GetExisting, GetSnapshot, Clone, NsCloneSnapshot, ListSnapshots, GetCreated,
     GetLuns, DestroyLun, NsDestroyLunMapping, Reply, nsVars
<1>6. ASSUME NEW h \in Handlers, Calls(h) PROVE UNCHANGED snapshot
  BY <1>6 DEF Calls, CallCreateVolume, CallDeleteVolume, CallCreateSnapshot, CallDeleteSnapshot, nsVars
<1>7. ASSUME Environment PROVE UNCHANGED snapshot
  BY <1>7 DEF Environment, NodeMaps, NodeUnmaps, NsCreateLunMapping, NsDestroyLunMapping, Write,
     NsWrite, Fail, AbandonCall, Crash, PoolExport, PoolImport, nsVars
<1> QED
  BY <1>1, <1>2, <1>3, <1>4, <1>5, <1>6, <1>7 DEF Next

-----------------------------------------------------------------------------
(* What a step does to the CO's records.                                   *)

\* The claim is bound by the answer of h.
BoundBy(h, n) ==
    /\ Reply(h) /\ handler[h].op = "CreateVolume" /\ handler[h].live /\ handler[h].obj = n
    /\ handler[h].pc = "reply" /\ claim'[n].vol = handler[h].vol

LEMMA PhaseStep ==
    ASSUME TypeInv, Known, OwnershipInv, Next, NEW n \in Names
    PROVE  /\ claim[n].phase # "unbound" =>
                claim'[n].phase # "unbound" /\ claim'[n].vol = claim[n].vol
           /\ claim[n].phase = "unbound" /\ claim'[n].phase # "unbound" =>
                claim'[n].phase = "bound" /\ \E h \in Handlers : BoundBy(h, n)
           /\ claim'[n].phase = "bound" => claim[n].phase \in {"unbound", "bound"}
<1>0. claim[n] \in ClaimStates
  BY DEF TypeInv, CoInv
<1>1. CASE claim'[n].phase = claim[n].phase /\ claim'[n].vol = claim[n].vol
  BY <1>0, <1>1 DEF ClaimStates
<1>2. ASSUME NEW h \in Handlers, Calls(h)
      PROVE  /\ claim'[n].vol = claim[n].vol
             /\ claim'[n].phase = claim[n].phase \/ (claim'[n].phase = "deleting" /\ claim[n].phase # "unbound")
  <2>0. claim \in [Names -> ClaimStates]
    BY DEF TypeInv, CoInv
  <2>1. ASSUME NEW k \in Names, NEW size \in Sizes, CallCreateVolume(h, k, size)
        PROVE  claim'[n].vol = claim[n].vol /\ claim'[n].phase = claim[n].phase
    BY <2>0, <2>1 DEF CallCreateVolume, ClaimStates
  <2>2. ASSUME NEW k \in Names, CallDeleteVolume(h, k)
        PROVE  /\ claim'[n].vol = claim[n].vol
               /\ claim'[n].phase = claim[n].phase \/ (claim'[n].phase = "deleting" /\ claim[n].phase # "unbound")
    BY <2>0, <2>2 DEF CallDeleteVolume, ClaimStates
  <2>3. ASSUME NEW s \in Snaps, CallCreateSnapshot(h, s) \/ CallDeleteSnapshot(h, s)
        PROVE  UNCHANGED claim
    BY <2>3 DEF CallCreateSnapshot, CallDeleteSnapshot
  <2> QED
    BY <1>2, <2>1, <2>2, <2>3 DEF Calls
<1>3. ASSUME NEW h \in Handlers, Reply(h)
      PROVE  \/ claim'[n] = claim[n]
             \/ /\ handler[h].obj = n /\ handler[h].op = "CreateVolume" /\ handler[h].live
                /\ claim'[n].phase = "bound" /\ claim'[n].vol = handler[h].vol
             \/ /\ handler[h].obj = n /\ handler[h].op = "DeleteVolume"
                /\ claim'[n].phase = "released" /\ claim'[n].vol = claim[n].vol
  BY <1>0, <1>3 DEF Reply, Created, TypeInv, CoInv, ClaimStates
<1>4. ASSUME NEW h \in Handlers, Reply(h), handler[h].op = "CreateVolume", handler[h].live,
             handler[h].obj = n
      PROVE  claim[n].phase = "unbound" /\ handler[h].pc = "reply"
  BY <1>4 DEF OwnershipInv, CreatesAreUnbound, Reply
<1>5. ASSUME NEW h \in Handlers, handler[h].op = "DeleteVolume", handler[h].obj = n
      PROVE  claim[n].phase \in {"deleting", "released"}
  BY <1>5 DEF OwnershipInv, DeletesAreAsked
<1>6. ASSUME NEW h \in Handlers, HandlerStep(h) PROVE claim'[n] = claim[n] \/ Reply(h)
  BY <1>6, StepClaims
<1>7. ASSUME Environment PROVE claim'[n] = claim[n]
  BY <1>7, EnvironmentContinues
<1>8. ASSUME NEW h \in Handlers, Reply(h)
      PROVE  /\ claim[n].phase # "unbound" =>
                  claim'[n].phase # "unbound" /\ claim'[n].vol = claim[n].vol
             /\ claim[n].phase = "unbound" /\ claim'[n].phase # "unbound" =>
                  claim'[n].phase = "bound" /\ BoundBy(h, n)
             /\ claim'[n].phase = "bound" => claim[n].phase \in {"unbound", "bound"}
  BY <1>0, <1>3, <1>4, <1>5, <1>8 DEF BoundBy
<1>9. ASSUME NEW h \in Handlers, Calls(h)
      PROVE  /\ claim[n].phase # "unbound" =>
                  claim'[n].phase # "unbound" /\ claim'[n].vol = claim[n].vol
             /\ claim[n].phase = "unbound" => claim'[n].phase = "unbound"
             /\ claim'[n].phase = "bound" => claim[n].phase \in {"unbound", "bound"}
  BY <1>0, <1>2, <1>9
<1> QED
  BY <1>1, <1>6, <1>7, <1>8, <1>9 DEF Next

\* A request's since is set once, to what its source, which is bound, holds then.
LEMMA SinceStep ==
    ASSUME TypeInv, Known, OwnershipInv, Next, NEW r \in Requests
    PROVE  \/ SinceOf(r)' = SinceOf(r)
           \/ /\ SinceOf(r) = NoContent /\ SourceBound(r) /\ SinceOf(r)' = Current(r)
              /\ UNCHANGED nsVars
              /\ \A n \in Names : claim'[n].phase = claim[n].phase /\ claim'[n].vol = claim[n].vol
<1> DEFINE Set == /\ SinceOf(r) = NoContent /\ SourceBound(r) /\ SinceOf(r)' = Current(r)
                  /\ UNCHANGED nsVars
                  /\ \A n \in Names : claim'[n].phase = claim[n].phase /\ claim'[n].vol = claim[n].vol
<1>0. claim \in [Names -> ClaimStates] /\ snap \in [Snaps -> SnapStates]
  BY DEF TypeInv, CoInv
<1>1. ASSUME UNCHANGED <<claim, snap>> PROVE SinceOf(r)' = SinceOf(r)
  BY <1>1 DEF SinceOf
<1>2. ASSUME NEW h \in Handlers, NEW n \in Names, NEW size \in Sizes, CallCreateVolume(h, n, size)
      PROVE  SinceOf(r)' = SinceOf(r) \/ Set
  <2>1. CASE r = n
    <3>1. Kind(n) = "volume" /\ r \notin Snaps /\ SourceOf(r) = Claim[n].source.of
      BY <2>1, SnapRequests DEF Requests
    <3>2. claim[SourceOf(r)].phase = "bound"
      BY <1>2, <3>1 DEF CallCreateVolume, SourceReady, Kind
    <3>3. SourceOf(r) \in Names /\ VolumeExists(claim[SourceOf(r)].vol)
      BY <3>2, RequestTypes DEF OwnershipInv, BoundVolumesExist
    <3>4. SourceContent(n) = Current(r)
      BY <3>1, <3>3 DEF SourceContent, Current, Kind
    <3>5. claim' = [claim EXCEPT ![n].since = IF @ = NoContent THEN SourceContent(n) ELSE @]
      BY <1>2 DEF CallCreateVolume
    <3>6. claim'[n].since = IF claim[n].since = NoContent THEN SourceContent(n) ELSE claim[n].since
      BY <1>0, <3>5 DEF ClaimStates
    <3>7. \A k \in Names : claim'[k].phase = claim[k].phase /\ claim'[k].vol = claim[k].vol
      BY <1>0, <3>5 DEF ClaimStates
    <3> QED
      BY <1>2, <2>1, <3>1, <3>2, <3>4, <3>6, <3>7 DEF SinceOf, SourceBound, CallCreateVolume
  <2>2. CASE r # n
    BY <1>0, <1>2, <2>2 DEF CallCreateVolume, SinceOf, Requests
  <2> QED
    BY <2>1, <2>2
<1>3. ASSUME NEW h \in Handlers, NEW s \in Snaps, CallCreateSnapshot(h, s)
      PROVE  SinceOf(r)' = SinceOf(r) \/ Set
  <2> DEFINE src == claim[SnapClaim[s].volume]
  <2>0. UNCHANGED <<nsVars, claim>> /\ src.phase = "bound"
    BY <1>3 DEF CallCreateSnapshot
  <2>1. CASE r = s
    <3>1. r \in Snaps /\ SourceOf(r) = SnapClaim[s].volume
      BY <2>1, SnapRequests
    <3>2. VolumeExists(src.vol)
      BY <2>0, <3>1, RequestTypes DEF OwnershipInv, BoundVolumesExist
    <3>3. snap'[s].since = IF snap[s].since = NoContent THEN volume[src.vol].content ELSE snap[s].since
      BY <1>0, <1>3, <3>2 DEF CallCreateSnapshot, SnapStates
    <3> QED
      BY <2>0, <2>1, <3>1, <3>3 DEF SinceOf, SourceBound, Current
  <2>2. CASE r # s
    BY <1>0, <1>3, <2>2 DEF CallCreateSnapshot, SinceOf, Requests
  <2> QED
    BY <2>1, <2>2
<1>4. ASSUME NEW h \in Handlers, NEW n \in Names, CallDeleteVolume(h, n) PROVE SinceOf(r)' = SinceOf(r)
  BY <1>0, <1>4 DEF CallDeleteVolume, SinceOf, Requests, ClaimStates
<1>5. ASSUME NEW h \in Handlers, NEW s \in Snaps, CallDeleteSnapshot(h, s) PROVE SinceOf(r)' = SinceOf(r)
  BY <1>0, <1>5 DEF CallDeleteSnapshot, SinceOf, Requests, SnapStates
<1>6. ASSUME NEW h \in Handlers, Reply(h) PROVE SinceOf(r)' = SinceOf(r)
  <2>1. \A n \in Names : claim'[n].since = claim[n].since
    BY <1>0, <1>6 DEF Reply, Created, ClaimStates
  <2>2. \A s \in Snaps : snap'[s].since = snap[s].since
    BY <1>0, <1>6 DEF Reply, Snapped, SnapStates
  <2> QED
    BY <2>1, <2>2 DEF SinceOf, Requests
<1> QED
  BY <1>1, <1>2, <1>3, <1>4, <1>5, <1>6, StepClaims, EnvironmentContinues
     DEF Next, Calls

\* Snapshot request s is made ready by the answer of h.
ReadyBy(h, s) ==
    /\ Reply(h) /\ handler[h].op = "CreateSnapshot" /\ handler[h].live /\ handler[h].obj = s
    /\ handler[h].pc = "reply" /\ snap'[s].id = handler[h].snap
    /\ UNCHANGED <<nsVars, claim>>

LEMMA SnapPhaseStep ==
    ASSUME TypeInv, Known, CallsAreAsked, Next, NEW s \in Snaps
    PROVE  /\ snap[s].phase # "none" => snap'[s].phase # "none" /\ snap'[s].id = snap[s].id
           /\ snap[s].phase = "none" /\ snap'[s].phase # "none" =>
                snap'[s].phase = "ready" /\ \E h \in Handlers : ReadyBy(h, s)
           /\ snap'[s].phase = "ready" => snap[s].phase \in {"none", "ready"}
<1> DEFINE Kept == /\ snap[s].phase # "none" => snap'[s].phase # "none" /\ snap'[s].id = snap[s].id
                   /\ snap[s].phase = "none" => snap'[s].phase = "none"
                   /\ snap'[s].phase = "ready" => snap[s].phase \in {"none", "ready"}
<1>0. snap \in [Snaps -> SnapStates] /\ snap[s] \in SnapStates
  BY DEF TypeInv, CoInv
<1>1. ASSUME snap'[s] = snap[s] PROVE Kept
  BY <1>0, <1>1 DEF SnapStates
<1>2. ASSUME NEW h \in Handlers, Calls(h) PROVE Kept
  <2>1. ASSUME NEW t \in Snaps, CallCreateSnapshot(h, t) PROVE Kept
    BY <1>0, <2>1 DEF CallCreateSnapshot, SnapStates
  <2>2. ASSUME NEW t \in Snaps, CallDeleteSnapshot(h, t) PROVE Kept
    BY <1>0, <2>2 DEF CallDeleteSnapshot, SnapStates
  <2>3. ASSUME NEW n \in Names, CallDeleteVolume(h, n) \/ \E size \in Sizes : CallCreateVolume(h, n, size)
        PROVE  UNCHANGED snap
    BY <2>3 DEF CallDeleteVolume, CallCreateVolume
  <2> QED
    BY <1>1, <1>2, <2>1, <2>2, <2>3 DEF Calls
<1>3. ASSUME NEW h \in Handlers, Reply(h)
      PROVE  \/ snap'[s] = snap[s]
             \/ /\ handler[h].obj = s /\ handler[h].op = "CreateSnapshot" /\ handler[h].live
                /\ snap'[s].phase = "ready" /\ snap'[s].id = handler[h].snap
                /\ UNCHANGED <<nsVars, claim>> /\ handler[h].pc = "reply"
             \/ /\ handler[h].obj = s /\ handler[h].op = "DeleteSnapshot"
                /\ snap'[s].phase = "released" /\ snap'[s].id = snap[s].id
  <2>1. Snapped(h) /\ handler[h].pc = "reply" /\ UNCHANGED nsVars
    BY <1>3 DEF Reply
  <2>2. CASE handler[h].op = "CreateSnapshot" /\ handler[h].live
    <3>1. UNCHANGED claim
      BY <1>3, <2>2 DEF Reply, Created
    <3> QED
      BY <1>0, <2>1, <2>2, <3>1 DEF Snapped, SnapStates
  <2>3. CASE handler[h].op = "DeleteSnapshot" /\ handler[h].live
    BY <1>0, <2>1, <2>3 DEF Snapped, SnapStates
  <2> QED
    BY <2>1, <2>2, <2>3 DEF Snapped
<1>4. ASSUME NEW h \in Handlers, handler[h].op = "CreateSnapshot", handler[h].live, handler[h].obj = s
      PROVE  snap[s].phase = "none"
  BY <1>4 DEF CallsAreAsked, Asked
<1>5. ASSUME NEW h \in Handlers, handler[h].op = "DeleteSnapshot", handler[h].obj = s
      PROVE  snap[s].phase \in {"deleting", "released"}
  BY <1>5 DEF CallsAreAsked, Asked
<1>6. ASSUME NEW h \in Handlers, Reply(h)
      PROVE  Kept \/ (snap[s].phase = "none" /\ snap'[s].phase = "ready" /\ ReadyBy(h, s))
  BY <1>0, <1>1, <1>3, <1>4, <1>5, <1>6 DEF ReadyBy
<1>7. ASSUME NEW h \in Handlers, HandlerStep(h) PROVE snap'[s] = snap[s] \/ Reply(h)
  BY <1>7, StepClaims
<1>8. ASSUME Environment PROVE snap'[s] = snap[s]
  BY <1>8, EnvironmentContinues
<1>9. Kept \/ \E h \in Handlers : snap[s].phase = "none" /\ snap'[s].phase = "ready" /\ ReadyBy(h, s)
  BY <1>1, <1>2, <1>6, <1>7, <1>8 DEF Next
<1> QED
  BY <1>9

\* A bound claim stops being bound when its deletion is asked for.
LEMMA BoundKept ==
    ASSUME TypeInv, Known, OwnershipInv, Next, NEW m \in Names,
           claim[m].phase = "bound", claim'[m].phase # "bound"
    PROVE  \E h \in Handlers : CallDeleteVolume(h, m)
<1>0. claim \in [Names -> ClaimStates]
  BY DEF TypeInv, CoInv
<1>1. ASSUME NEW h \in Handlers, Calls(h) PROVE CallDeleteVolume(h, m)
  <2>1. ASSUME NEW k \in Names, NEW size \in Sizes, CallCreateVolume(h, k, size) PROVE FALSE
    BY <1>0, <2>1 DEF CallCreateVolume, ClaimStates
  <2>2. ASSUME NEW k \in Names, CallDeleteVolume(h, k) PROVE k = m
    BY <1>0, <2>2 DEF CallDeleteVolume, ClaimStates
  <2>3. ASSUME NEW s \in Snaps, CallCreateSnapshot(h, s) \/ CallDeleteSnapshot(h, s)
        PROVE  FALSE
    BY <2>3 DEF CallCreateSnapshot, CallDeleteSnapshot
  <2> QED
    BY <1>1, <2>1, <2>2, <2>3 DEF Calls
<1>2. ASSUME NEW h \in Handlers, Reply(h) PROVE FALSE
  <2>1. \/ claim'[m].phase = claim[m].phase \/ claim'[m].phase = "bound"
        \/ handler[h].op = "DeleteVolume" /\ handler[h].obj = m
    BY <1>0, <1>2 DEF Reply, Created, ClaimStates
  <2> QED
    BY <2>1 DEF OwnershipInv, DeletesAreAsked
<1>3. ASSUME NEW h \in Handlers, HandlerStep(h) PROVE FALSE
  BY <1>2, <1>3, StepClaims
<1> QED
  BY <1>1, <1>3, EnvironmentContinues DEF Next

\* The volume of a claim that stays bound stays, and only gathers writes.
LEMMA CurrentStep ==
    ASSUME TypeInv, Known, OwnershipInv, Next, NEW m \in Names,
           claim[m].phase = "bound", claim'[m].phase = "bound"
    PROVE  LET v == claim[m].vol IN
           /\ v \in VolIds /\ v.name = m /\ claim'[m].vol = v
           /\ VolumeExists(v) /\ VolumeExists(v)'
           /\ volume[v].content \in Contents /\ volume'[v].content \in Contents
           /\ volume'[v].content.root = volume[v].content.root
           /\ volume[v].content.writes <= volume'[v].content.writes
           /\ \/ volume'[v].content = volume[v].content
              \/ /\ Write(m) /\ volume[v].content.writes < MaxWrites
                 /\ volume'[v].content = [volume[v].content EXCEPT !.writes = @ + 1]
<1> DEFINE v == claim[m].vol
<1>1. v \in VolIds /\ v.name = m /\ VolumeExists(v)
  BY DEF TypeInv, CoInv, GoodClaim, OwnershipInv, BoundVolumesExist
<1>2. claim'[m].vol = v
  BY PhaseStep
<1>3. VolumeExists(v)'
  <2>1. \A x \in VolIds : x.name = m /\ VolumeExists(x) => VolumeExists(x)'
    BY KeptVolume
  <2> HIDE DEF v
  <2>2. volume'[v] # Absent
    BY <1>1, <2>1 DEF VolumeExists
  <2> QED
    BY <1>2, <2>2 DEF v, VolumeExists
<1>4. volume[v].content \in Contents /\ volume'[v].content \in Contents
  <2>1. volume[v].content \in Contents
    BY <1>1, ContentTypes
  <2>2. NsTypeOK'
    BY TypeStep DEF TypeInv
  <2>3. volume'[v] # Absent
    BY <1>2, <1>3 DEF VolumeExists
  <2> QED
    BY <1>1, <2>1, <2>2, <2>3 DEF NsTypeOK, Volumes
<1>5. \/ volume'[v].content = volume[v].content
      \/ /\ Write(m) /\ volume[v].content.writes < MaxWrites
         /\ volume'[v].content = [volume[v].content EXCEPT !.writes = @ + 1]
  <2>1. \A x \in VolIds : volume'[x] # Absent => SameContent(x) \/ Written(x) \/ Made(x)
    BY VolumeStep DEF VolumeExists
  <2>2. volume'[v] # Absent
    BY <1>2, <1>3 DEF VolumeExists
  <2>3. ~Made(v)
    BY <1>1 DEF Made
  <2>4. ASSUME Written(v)
        PROVE  /\ Write(m) /\ volume[v].content.writes < MaxWrites
               /\ volume'[v].content = [volume[v].content EXCEPT !.writes = @ + 1]
    <3>1. PICK n \in Names :
            /\ Write(n) /\ claim[n].phase = "bound" /\ claim[n].vol = v
            /\ volume[v].content.writes < MaxWrites
            /\ volume'[v].content = [volume[v].content EXCEPT !.writes = @ + 1]
      BY <2>4 DEF Written
    <3>2. n = m
      BY <1>1, <3>1 DEF OwnershipInv, BoundVolumesExist
    <3> QED
      BY <3>1, <3>2
  <2>5. SameContent(v) => volume'[v].content = volume[v].content
    BY DEF SameContent
  <2> HIDE DEF v
  <2> QED
    BY <1>1, <2>1, <2>2, <2>3, <2>4, <2>5
<1>6. /\ volume'[v].content.root = volume[v].content.root
      /\ volume[v].content.writes <= volume'[v].content.writes
  BY <1>4, <1>5 DEF Contents
<1> QED
  BY <1>1, <1>2, <1>3, <1>4, <1>5, <1>6 DEF VolumeExists

-----------------------------------------------------------------------------
(* What was fresh stays fresh.                                             *)

FreshThen(r, c) ==
    /\ SinceOf(r)' # NoContent
    /\ SinceOf(r)'.root = c.root /\ c.root = Current(r)'.root
    /\ SinceOf(r)'.writes <= c.writes /\ c.writes <= Current(r)'.writes

LEMMA FreshKept ==
    ASSUME TypeInv, Known, OwnershipInv, Next, NEW r \in Requests, NEW c \in Contents,
           Fresh(r, c), SourceBound(r), SourceBound(r)'
    PROVE  FreshThen(r, c)
<1> DEFINE m == SourceOf(r)  v == claim[m].vol
<1>0. m \in Names /\ SinceOf(r) \in Contents
  BY RequestTypes DEF Fresh
<1>1. SinceOf(r)' = SinceOf(r)
  BY SinceStep DEF Fresh
<1>2. claim[m].phase = "bound" /\ claim'[m].phase = "bound"
  BY DEF SourceBound
<1>3. /\ claim'[m].vol = v
      /\ volume[v].content \in Contents /\ volume'[v].content \in Contents
      /\ volume'[v].content.root = volume[v].content.root
      /\ volume[v].content.writes <= volume'[v].content.writes
  BY <1>0, <1>2, CurrentStep
<1>4. Current(r) = volume[v].content /\ Current(r)' = volume'[v].content
  BY <1>3 DEF Current
<1>5. \A a, b, d \in Contents : a.writes <= b.writes /\ b.writes <= d.writes => a.writes <= d.writes
  BY DEF Contents
<1>6. c.writes <= volume'[v].content.writes
  BY <1>3, <1>4, <1>5 DEF Fresh
<1> QED
  BY <1>1, <1>3, <1>4, <1>6 DEF Fresh, FreshThen

-----------------------------------------------------------------------------
(* The source of what was asked for: known to the CO once and for all.     *)

LEMMA SourceStep ==
    ASSUME TypeInv, Known, OwnershipInv, Next, NEW r \in Requests,
           claim[SourceOf(r)].phase # "unbound"
    PROVE  /\ claim'[SourceOf(r)].phase # "unbound"
           /\ claim'[SourceOf(r)].vol = claim[SourceOf(r)].vol
           /\ IdOf(r)' = IdOf(r)
           /\ SourceBound(r)' => SourceBound(r)
<1>1. SourceOf(r) \in Names
  BY RequestTypes
<1>2. /\ claim'[SourceOf(r)].phase # "unbound"
      /\ claim'[SourceOf(r)].vol = claim[SourceOf(r)].vol
      /\ claim'[SourceOf(r)].phase = "bound" => claim[SourceOf(r)].phase = "bound"
  BY <1>1, PhaseStep
<1> QED
  BY <1>2 DEF IdOf, SourceBound

\* DeleteVolume does not work on the volume of a bound claim.
LEMMA BoundAreSafe ==
    ASSUME TypeInv, OwnershipInv, NEW m \in Names, claim[m].phase = "bound",
           NEW h \in Handlers, handler[h].op = "DeleteVolume"
    PROVE  handler[h].vol # claim[m].vol
<1>1. /\ handler[h].obj \in Names
      /\ claim[handler[h].obj].phase \in {"deleting", "released"}
      /\ handler[h].vol = claim[handler[h].obj].vol
  BY RecordType DEF OwnershipInv, DeletesAreAsked, GoodHandler
<1>2. claim[handler[h].obj].vol.name = handler[h].obj /\ claim[m].vol.name = m
  BY <1>1 DEF TypeInv, CoInv, GoodClaim
<1> QED
  BY <1>1, <1>2

\* A snapshot stays while its volume is bound and its deletion was not asked for.
LEMMA SnapshotKept ==
    ASSUME TypeInv, OwnershipInv, CallsAreAsked, ReadyStay, Next, NEW s \in Snaps,
           snap[s].phase \in {"none", "ready"}, SourceBound(s), SnapshotExists(IdOf(s))
    PROVE  IdOf(s) \in SnapIds /\ SameSnapshot(IdOf(s))
<1> DEFINE x == IdOf(s)  m == SourceOf(s)
<1>1. s \in Requests
  BY SnapRequests
<1>2. m \in Names /\ claim[m].phase = "bound" /\ claim[m].vol \in VolIds /\ TagOf(s) \in Tags
  BY <1>1, RequestTypes DEF SourceBound
<1>3. x \in SnapIds
  BY <1>2 DEF IdOf, SnapIds
<1>4. ASSUME Dropped(x) PROVE FALSE
  <2>1. PICK h \in Handlers : \/ handler[h].op = "DeleteVolume" /\ x.volume = handler[h].vol
                              \/ handler[h].op = "DeleteSnapshot" /\ x = handler[h].snap
    BY <1>4 DEF Dropped
  <2>2. CASE handler[h].op = "DeleteVolume" /\ x.volume = handler[h].vol
    <3>1. x.volume = claim[m].vol
      BY DEF IdOf
    <3> QED
      BY <1>2, <2>2, <3>1, BoundAreSafe
  <2>3. CASE handler[h].op = "DeleteSnapshot" /\ x = handler[h].snap
    <3> DEFINE t == handler[h].obj
    <3>1. t \in Snaps /\ t \in Requests
      BY <2>3, RecordType, SnapRequests DEF GoodHandler
    <3>2. snap[t].phase \in {"deleting", "released"} /\ handler[h].snap = snap[t].id
      BY <2>3 DEF CallsAreAsked, Asked
    <3>3. snap[t].id = IdOf(t)
      BY <3>1, <3>2 DEF ReadyStay
    <3>4. TagOf(t) = TagOf(s)
      BY <2>3, <3>2, <3>3 DEF IdOf
    <3> HIDE DEF t
    <3>5. t = s
      BY <1>1, <3>1, <3>4, TagsAreTheirs
    <3> QED
      BY <3>2, <3>5
  <2> QED
    BY <2>1, <2>2, <2>3
<1> HIDE DEF x
<1>5. SameSnapshot(x)
  BY <1>3, <1>4, SnapshotStep DEF x
<1> QED
  BY <1>3, <1>5 DEF x

-----------------------------------------------------------------------------
(* The parts of the invariant, one by one.                                 *)

LEMMA AsksStep ==
    ASSUME TypeInv, Known, OwnershipInv, AsksAreFresh, Next
    PROVE  AsksAreFresh'
<1> SUFFICES ASSUME NEW r \in Requests, SinceOf(r)' # NoContent
             PROVE  /\ claim'[SourceOf(r)].phase # "unbound"
                    /\ SourceBound(r)' => FreshThen(r, Current(r)')
  BY DEF AsksAreFresh, Fresh, FreshThen
<1> DEFINE m == SourceOf(r)
<1>0. m \in Names /\ SinceOf(r) \in Contents \cup {NoContent}
  BY RequestTypes
<1>1. CASE SinceOf(r)' = SinceOf(r)
  <2>1. claim[m].phase # "unbound" /\ (SourceBound(r) => Fresh(r, Current(r)))
    BY <1>1 DEF AsksAreFresh
  <2>2. claim'[m].phase # "unbound" /\ (SourceBound(r)' => SourceBound(r))
    BY <2>1, SourceStep
  <2>3. ASSUME SourceBound(r)' PROVE FreshThen(r, Current(r)')
    <3>1. claim[m].phase = "bound" /\ claim'[m].phase = "bound" /\ Fresh(r, Current(r))
      BY <2>1, <2>2, <2>3 DEF SourceBound
    <3> DEFINE v == claim[m].vol
    <3>2. /\ claim'[m].vol = v
          /\ volume[v].content \in Contents /\ volume'[v].content \in Contents
          /\ volume'[v].content.root = volume[v].content.root
          /\ volume[v].content.writes <= volume'[v].content.writes
      BY <1>0, <3>1, CurrentStep
    <3>3. Current(r) = volume[v].content /\ Current(r)' = volume'[v].content
      BY <3>2 DEF Current
    <3>4. \A a, b, d \in Contents : a.writes <= b.writes /\ b.writes <= d.writes => a.writes <= d.writes
      BY DEF Contents
    <3>5. \A d \in Contents : d.writes <= d.writes
      BY DEF Contents
    <3>6. SinceOf(r) \in Contents
      BY <1>0, <3>1 DEF Fresh
    <3> QED
      BY <1>1, <3>1, <3>2, <3>3, <3>4, <3>5, <3>6 DEF Fresh, FreshThen
  <2> QED
    BY <2>2, <2>3
<1>2. CASE /\ SinceOf(r) = NoContent /\ SourceBound(r) /\ SinceOf(r)' = Current(r)
           /\ UNCHANGED nsVars
           /\ \A n \in Names : claim'[n].phase = claim[n].phase /\ claim'[n].vol = claim[n].vol
  <2>1. claim[m].phase = "bound" /\ claim'[m].phase = "bound" /\ Current(r)' = Current(r)
    BY <1>0, <1>2 DEF SourceBound, Current, nsVars
  <2>2. Current(r) \in Contents
    BY <1>0, <2>1, CurrentStep DEF Current
  <2> QED
    BY <1>2, <2>1, <2>2 DEF FreshThen, Contents
<1> QED
  BY <1>1, <1>2, SinceStep

LEMMA SnapshotsStep ==
    ASSUME TypeInv, Known, OwnershipInv, AsksAreFresh, SnapshotsAreFresh, CallsAreAsked, StepsFit, Next
    PROVE  SnapshotsAreFresh'
<1> SUFFICES ASSUME NEW r \in Requests, NEW x \in SnapIds, SnapshotExists(x)', x.tag = TagOf(r)
             PROVE  /\ claim'[SourceOf(r)].phase # "unbound"
                    /\ SourceBound(r)' =>
                         x.volume = claim'[SourceOf(r)].vol /\ FreshThen(r, snapshot'[x].content)
  BY DEF SnapshotsAreFresh, Fresh, FreshThen
<1> DEFINE m == SourceOf(r)
<1>0. m \in Names
  BY RequestTypes
<1>1. CASE SameSnapshot(x)
  <2>1. /\ claim[m].phase # "unbound"
        /\ SourceBound(r) => x.volume = claim[m].vol /\ Fresh(r, snapshot[x].content)
    BY <1>1 DEF SameSnapshot, SnapshotsAreFresh
  <2>2. snapshot[x].content \in Contents /\ snapshot'[x] = snapshot[x]
    BY <1>1, ContentTypes DEF SameSnapshot
  <2>3. /\ claim'[m].phase # "unbound" /\ claim'[m].vol = claim[m].vol
        /\ SourceBound(r)' => SourceBound(r)
    BY <2>1, SourceStep
  <2> HIDE DEF m
  <2> QED
    BY <2>1, <2>2, <2>3, FreshKept DEF m
<1>2. CASE Moved(x)
  <2>1. PICK h \in Handlers, y \in SnapIds :
          /\ handler[h].op = "DeleteVolume" /\ y.volume = handler[h].vol /\ y.tag = x.tag
          /\ SnapshotExists(y)
    BY <1>2 DEF Moved
  <2>2. claim[m].phase # "unbound" /\ (SourceBound(r) => y.volume = claim[m].vol)
    BY <2>1 DEF SnapshotsAreFresh
  <2>3. ~SourceBound(r)
    BY <1>0, <2>1, <2>2, BoundAreSafe DEF SourceBound
  <2> QED
    BY <2>2, <2>3, SourceStep
<1>3. CASE Taken(x)
  <2>1. PICK h \in Handlers :
          /\ handler[h].pc = "createSnapshot" /\ handler[h].snap = x
          /\ UNCHANGED <<volume, claim, snap>>
          /\ snapshot'[x].content = volume[x.volume].content
    BY <1>3 DEF Taken
  <2> DEFINE q == handler[h].obj
  <2>2. handler[h].op = "CreateSnapshot" \/ (handler[h].op = "CreateVolume" /\ Kind(q) = "volume")
    BY <2>1, RecordType DEF GoodHandler, HandlerStates, Ops, StepsFit, Fits
  <2>3. q \in Requests
    BY <2>2, RecordType, SnapRequests DEF GoodHandler
  <2>4. x = IdOf(q) /\ claim[SourceOf(q)].phase # "unbound" /\ SinceOf(q) # NoContent
    BY <2>1, <2>2 DEF CallsAreAsked, Asked
  <2>5. TagOf(q) = TagOf(r)
    BY <2>4 DEF IdOf
  <2> HIDE DEF q
  <2>6. q = r
    BY <2>3, <2>5, TagsAreTheirs
  <2>7. x.volume = claim[m].vol /\ claim'[m].phase # "unbound" /\ snapshot'[x].content = Current(r)
    BY <2>1, <2>4, <2>6 DEF IdOf, Current
  <2>8. ASSUME SourceBound(r)' PROVE FreshThen(r, Current(r))
    <3>1. SourceBound(r)
      BY <2>1, <2>8 DEF SourceBound
    <3>2. Fresh(r, Current(r))
      BY <2>4, <2>6, <3>1 DEF AsksAreFresh
    <3>3. m \in Names /\ claim[m].phase = "bound" /\ claim'[m].phase = "bound"
      BY <1>0, <2>8, <3>1 DEF SourceBound
    <3>4. Current(r) \in Contents
      BY <3>3, CurrentStep DEF Current
    <3> QED
      BY <2>8, <3>1, <3>2, <3>4, FreshKept
  <2> QED
    BY <2>1, <2>7, <2>8
<1> QED
  BY <1>1, <1>2, <1>3, SnapshotStep

\* A ready snapshot of a bound volume keeps its place and what it holds.
LEMMA ReadyKept ==
    ASSUME TypeInv, Known, OwnershipInv, CallsAreAsked, ReadyStay, Next, NEW s \in Snaps,
           snap[s].phase # "none", snap'[s].phase = "ready", SourceBound(s)'
    PROVE  /\ snap[s].phase = "ready" /\ SourceBound(s)
           /\ snap'[s].id = snap[s].id /\ snap[s].id \in SnapIds
           /\ SnapshotExists(snap[s].id) /\ snapshot'[snap[s].id] = snapshot[snap[s].id]
<1>1. s \in Requests
  BY SnapRequests
<1>2. snap[s].id = IdOf(s) /\ claim[SourceOf(s)].phase # "unbound"
  BY DEF ReadyStay
<1>3. SourceBound(s)
  BY <1>1, <1>2, SourceStep
<1>4. snap[s].phase = "ready" /\ snap'[s].id = snap[s].id
  BY SnapPhaseStep
<1>5. SnapshotExists(IdOf(s))
  BY <1>2, <1>3, <1>4 DEF ReadyStay
<1>6. IdOf(s) \in SnapIds /\ SameSnapshot(IdOf(s))
  BY <1>3, <1>4, <1>5, SnapshotKept
<1> QED
  BY <1>2, <1>3, <1>4, <1>5, <1>6 DEF SameSnapshot

LEMMA ReadyStep ==
    ASSUME TypeInv, Known, OwnershipInv, CallsAreAsked, ReadyStay, SnapAnswersAreTrue, Next
    PROVE  ReadyStay'
<1> SUFFICES ASSUME NEW s \in Snaps, snap'[s].phase # "none"
             PROVE  /\ snap'[s].id = IdOf(s)'
                    /\ claim'[SourceOf(s)].phase # "unbound"
                    /\ snap'[s].phase = "ready" /\ SourceBound(s)' => snapshot'[snap'[s].id] # Absent
  BY DEF ReadyStay, SnapshotExists
<1>0. s \in Requests
  BY SnapRequests
<1>1. CASE snap[s].phase # "none"
  <2>1. snap[s].id = IdOf(s) /\ claim[SourceOf(s)].phase # "unbound"
    BY <1>1 DEF ReadyStay
  <2>2. snap'[s].id = snap[s].id
    BY <1>1, SnapPhaseStep
  <2>3. ASSUME snap'[s].phase = "ready", SourceBound(s)' PROVE snapshot'[snap'[s].id] # Absent
    BY <1>1, <2>2, <2>3, ReadyKept DEF SnapshotExists
  <2> QED
    BY <1>0, <2>1, <2>2, <2>3, SourceStep
<1>2. CASE snap[s].phase = "none"
  <2>1. PICK h \in Handlers : ReadyBy(h, s)
    BY <1>2, SnapPhaseStep
  <2>2. /\ handler[h].snap = IdOf(s) /\ claim[SourceOf(s)].phase # "unbound"
        /\ SnapshotExists(handler[h].snap)
    BY <2>1 DEF ReadyBy, CallsAreAsked, Asked, SnapAnswersAreTrue
  <2>3. snap'[s].id = handler[h].snap /\ UNCHANGED <<snapshot, claim>>
    BY <2>1 DEF ReadyBy, nsVars
  <2>4. IdOf(s)' = IdOf(s)
    BY <2>3 DEF IdOf
  <2> QED
    BY <2>2, <2>3, <2>4 DEF SnapshotExists
<1> QED
  BY <1>1, <1>2

\* A clone or a plain volume of claim n that is found before n is bound.
LEMMA VolumesStep ==
    ASSUME TypeInv, Known, OwnershipInv, SnapshotsAreFresh, CallsAreAsked, StepsFit, ReadyStay,
           VolumesAreAsRequested, Next
    PROVE  VolumesAreAsRequested'
<1> SUFFICES ASSUME NEW v \in VolIds, VolumeExists(v)' PROVE AsRequested(v)'
  BY DEF VolumesAreAsRequested
<1> DEFINE n == v.name  s == Claim[n].source.of
<1>0. n \in Names
  BY DEF VolIds
<1>1. Kind(n) \in {"none", "volume", "snapshot"}
  BY <1>0, Kinds
<1>2. claim'[n].phase = "unbound" => claim[n].phase = "unbound"
  BY <1>0, PhaseStep
<1>3. volume'[v].content \in Contents
  <2>1. NsTypeOK' /\ volume'[v] # Absent
    BY TypeStep DEF TypeInv, VolumeExists
  <2> QED
    BY <2>1 DEF NsTypeOK, Volumes
<1>4. CASE SameContent(v)
  <2>0. AsRequested(v) /\ volume'[v].content = volume[v].content
    BY <1>4 DEF SameContent, VolumesAreAsRequested
  <2>1. CASE Kind(n) = "none"
    BY <1>2, <2>0, <2>1 DEF AsRequested
  <2>2. ASSUME Kind(n) = "volume", claim'[n].phase = "unbound"
        PROVE  /\ claim'[SourceOf(n)].phase # "unbound"
               /\ SourceBound(n)' => FreshThen(n, volume'[v].content)
    <3>1. n \in Requests
      BY <1>0, <2>2, SnapRequests
    <3>2. /\ claim[SourceOf(n)].phase # "unbound"
          /\ SourceBound(n) => Fresh(n, volume[v].content)
      BY <1>2, <2>0, <2>2 DEF AsRequested
    <3> HIDE DEF n
    <3>3. claim'[SourceOf(n)].phase # "unbound" /\ (SourceBound(n)' => SourceBound(n))
      BY <3>1, <3>2, SourceStep
    <3> QED
      BY <1>3, <2>0, <3>1, <3>2, <3>3, FreshKept
  <2>3. ASSUME Kind(n) = "snapshot", claim'[n].phase = "unbound"
        PROVE  /\ snap'[s].phase # "none"
               /\ snap'[s].phase = "ready" /\ SourceBound(s)' =>
                    volume'[v].content = snapshot'[snap'[s].id].content
    <3>1. s \in Snaps
      BY <1>0, <2>3, Kinds
    <3>2. /\ snap[s].phase # "none"
          /\ snap[s].phase = "ready" /\ SourceBound(s) => volume[v].content = snapshot[snap[s].id].content
      BY <1>2, <2>0, <2>3 DEF AsRequested
    <3> HIDE DEF s
    <3>3. snap'[s].phase # "none"
      BY <3>1, <3>2, SnapPhaseStep
    <3>4. ASSUME snap'[s].phase = "ready", SourceBound(s)'
          PROVE  volume'[v].content = snapshot'[snap'[s].id].content
      BY <2>0, <3>1, <3>2, <3>4, ReadyKept
    <3> QED
      BY <3>3, <3>4
  <2> QED
    BY <1>1, <2>1, <2>2, <2>3 DEF AsRequested, Fresh, FreshThen
<1>5. CASE Written(v)
  <2>1. PICK k \in Names : /\ claim[k].phase = "bound" /\ claim[k].vol = v
                           /\ volume'[v].content = [volume[v].content EXCEPT !.writes = @ + 1]
    BY <1>5 DEF Written
  <2>2. k = n
    BY <2>1 DEF TypeInv, CoInv, GoodClaim
  <2>3. claim'[n].phase # "unbound"
    BY <1>2, <2>1, <2>2
  <2>4. VolumeExists(v) /\ volume[v].content \in Contents
    BY <1>5, ContentTypes DEF Written
  <2>5. Kind(n) = "none" => volume'[v].content.root = n
    BY <2>1, <2>4 DEF VolumesAreAsRequested, AsRequested, Contents
  <2> QED
    BY <1>1, <2>3, <2>5 DEF AsRequested
<1>6. CASE Made(v)
  <2>1. PICK h \in Handlers :
          /\ handler[h].op = "CreateVolume" /\ handler[h].vol = v
          /\ UNCHANGED <<snapshot, claim, snap>>
          /\ \/ /\ handler[h].pc = "create"
                /\ volume'[v].content = [root |-> v.name, writes |-> 0]
             \/ /\ handler[h].pc = "clone" /\ SnapshotExists(handler[h].snap)
                /\ volume'[v].content = snapshot[handler[h].snap].content
    BY <1>6 DEF Made
  <2>2. /\ handler[h].obj = n /\ Fits(handler[h]) /\ Asked(h)
        /\ handler[h].pc = "clone" => handler[h].snap \in SnapIds
    <3>1. GoodHandler(handler[h]) /\ handler[h].pc \in {"create", "clone"}
      BY <2>1, RecordType
    <3>2. handler[h].vol = [config |-> handler[h].vol.config, name |-> handler[h].obj]
      BY <2>1, <3>1 DEF GoodHandler
    <3>3. handler[h].obj = n
      BY <2>1, <3>2
    <3>4. handler[h].pc = "clone" => handler[h].snap \in SnapIds
      BY <2>1, <3>1 DEF GoodHandler, SnapshotSteps
    <3> QED
      BY <3>3, <3>4 DEF StepsFit, CallsAreAsked
  <2>3. CASE Kind(n) = "none"
    BY <2>1, <2>2, <2>3 DEF Fits, AsRequested
  <2>4. CASE Kind(n) = "volume"
    <3>0. handler[h].pc = "clone" /\ handler[h].snap = IdOf(n)
      BY <2>1, <2>2, <2>4 DEF Fits, Asked
    <3>1. n \in Requests /\ IdOf(n) \in SnapIds /\ SnapshotExists(IdOf(n)) /\ IdOf(n).tag = TagOf(n)
      BY <1>0, <2>1, <2>2, <2>4, <3>0, SnapRequests DEF IdOf
    <3>2. /\ claim[SourceOf(n)].phase # "unbound"
          /\ SourceBound(n) => Fresh(n, snapshot[IdOf(n)].content)
      BY <3>1 DEF SnapshotsAreFresh
    <3>3. volume'[v].content = snapshot[IdOf(n)].content
      BY <2>1, <3>0
    <3> HIDE DEF n
    <3>4. claim'[SourceOf(n)].phase # "unbound" /\ (SourceBound(n)' => SourceBound(n))
      BY <3>1, <3>2, SourceStep
    <3>5. SourceBound(n)' => FreshThen(n, volume'[v].content)
      BY <1>3, <3>1, <3>2, <3>3, <3>4, FreshKept
    <3> QED
      BY <2>4, <3>4, <3>5 DEF AsRequested, Fresh, FreshThen, n
  <2>5. CASE Kind(n) = "snapshot"
    <3>1. handler[h].pc = "clone" /\ snap[s].phase # "none" /\ handler[h].snap = snap[s].id
      BY <2>1, <2>2, <2>5 DEF Fits, Asked
    <3>2. volume'[v].content = snapshot'[snap'[s].id].content /\ snap'[s].phase # "none"
      BY <2>1, <3>1
    <3> QED
      BY <2>5, <3>2 DEF AsRequested
  <2> QED
    BY <1>1, <2>3, <2>4, <2>5
<1> QED
  BY <1>4, <1>5, <1>6, VolumeStep

LEMMA WritesStep ==
    ASSUME TypeInv, WritesAreBounded, Next
    PROVE  WritesAreBounded'
<1>1. ASSUME NEW v \in VolIds, VolumeExists(v)' PROVE volume'[v].content.writes <= MaxWrites
  <2>1. CASE SameContent(v)
    BY <2>1 DEF SameContent, WritesAreBounded
  <2>2. CASE Written(v)
    <3>1. VolumeExists(v) /\ volume[v].content \in Contents
      BY <2>2, ContentTypes DEF Written
    <3>2. /\ volume[v].content.writes < MaxWrites
          /\ volume'[v].content = [volume[v].content EXCEPT !.writes = @ + 1]
      BY <2>2 DEF Written
    <3> QED
      BY <3>1, <3>2, BoundsAssumption DEF Contents
  <2>3. CASE Made(v)
    <3>1. PICK h \in Handlers :
            \/ volume'[v].content = [root |-> v.name, writes |-> 0]
            \/ /\ handler[h].op = "CreateVolume" /\ handler[h].pc = "clone"
               /\ SnapshotExists(handler[h].snap)
               /\ volume'[v].content = snapshot[handler[h].snap].content
      BY <2>3 DEF Made
    <3>2. handler[h].op = "CreateVolume" /\ handler[h].pc = "clone" => handler[h].snap \in SnapIds
      BY RecordType DEF GoodHandler, SnapshotSteps
    <3> QED
      BY <3>1, <3>2, BoundsAssumption DEF WritesAreBounded
  <2> QED
    BY <1>1, <2>1, <2>2, <2>3, VolumeStep
<1>2. ASSUME NEW x \in SnapIds, SnapshotExists(x)' PROVE snapshot'[x].content.writes <= MaxWrites
  <2>1. CASE SameSnapshot(x)
    BY <2>1 DEF SameSnapshot, WritesAreBounded
  <2>2. CASE Taken(x)
    <3>1. x.volume \in VolIds
      BY DEF SnapIds
    <3> QED
      BY <2>2, <3>1 DEF Taken, WritesAreBounded
  <2>3. CASE Moved(x)
    BY <2>3 DEF Moved, WritesAreBounded
  <2> QED
    BY <1>2, <2>1, <2>2, <2>3, SnapshotStep
<1> QED
  BY <1>1, <1>2 DEF WritesAreBounded, VolumeExists, SnapshotExists

\* A CreateSnapshot handler comes to its answer only with the snapshot in place.
LEMMA SnapAnswerStep ==
    ASSUME TypeInv, Next, NEW g \in Handlers, handler'[g].op = "CreateSnapshot", handler'[g].pc = "reply"
    PROVE  \/ snapshot'[handler'[g].snap] # Absent
           \/ handler'[g] = handler[g]
           \/ handler'[g] = [handler[g] EXCEPT !.live = FALSE]
<1>0. \A h \in Handlers : handler[h] \in HandlerStates /\ GoodHandler(handler[h])
  BY RecordType
<1>1. HandlerInv
  BY DEF TypeInv
<1>2. ASSUME NEW h \in Handlers, ReturnError(h) PROVE handler'[g] = handler[g]
  BY <1>1, <1>2 DEF ReturnError, HandlerInv, Idle
<1>3. ASSUME NEW h \in Handlers, NEW pc \in Steps, Goto(h, pc),
             pc # "reply" \/ handler[h].op # "CreateSnapshot"
      PROVE  handler'[g] = handler[g]
  BY <1>1, <1>3 DEF Goto, HandlerInv, HandlerStates
<1>4. ASSUME NEW h \in Handlers, Goto(h, "reply"), snapshot'[handler[h].snap] # Absent
      PROVE  handler'[g] = handler[g] \/ snapshot'[handler'[g].snap] # Absent
  BY <1>1, <1>4 DEF Goto, HandlerInv, HandlerStates
<1>5. ASSUME NEW h \in Handlers, Calls(h) PROVE handler'[g] = handler[g]
  <2>1. ASSUME NEW op, NEW obj, NEW vol, NEW id, NEW size, Start(h, op, obj, vol, id, size)
        PROVE  handler'[g] = handler[g]
    BY <1>1, <2>1 DEF Start, HandlerInv
  <2> QED
    BY <1>5, <2>1 DEF Calls, CallCreateVolume, CallDeleteVolume, CallCreateSnapshot, CallDeleteSnapshot
<1>6. ASSUME NEW h \in Handlers, HandlerStep(h)
      PROVE  snapshot'[handler'[g].snap] # Absent \/ handler'[g] = handler[g]
  <2>1. CASE Resolve(h)
    <3>1. AfterResolve(h) # "reply"
      BY <1>0, <2>1, ClaimAssumption DEF Resolve, AfterResolve, GoodHandler, HandlerStates, Ops, ClaimTypes, Sources
    <3> QED
      BY <1>1, <2>1, <3>1 DEF Resolve, HandlerInv, HandlerStates
  <2>2. CASE ResolveNotFound(h) \/ ResolveWrongZone(h)
    BY <1>2, <1>3, <2>2 DEF ResolveNotFound, ResolveWrongZone, Steps
  <2>3. CASE ResolvePanics(h)
    BY <2>3 DEF ResolvePanics, CrashAll, Idle
  <2>4. CASE CreateNew(h) \/ GetExisting(h) \/ GetSnapshot(h) \/ Clone(h)
    BY <1>2, <1>3, <2>4 DEF CreateNew, GetExisting, GetSnapshot, Clone, At, Steps
  <2>5. CASE ListSnapshots(h) \/ CreateSnapshotOnNS(h)
    BY <1>2, <1>3, <2>5 DEF ListSnapshots, CreateSnapshotOnNS, Steps
  <2>6. CASE GetCreated(h)
    <3>1. SnapshotVisible(handler[h].snap) => snapshot'[handler[h].snap] # Absent
      BY <2>6 DEF GetCreated, SnapshotVisible, SnapshotExists, nsVars
    <3> QED
      BY <1>2, <1>3, <1>4, <2>6, <3>1 DEF GetCreated, Steps
  <2>7. CASE GetLuns(h) \/ DestroyLun(h)
    BY <1>1, <1>2, <2>7 DEF GetLuns, DestroyLun, At, HandlerInv, HandlerStates
  <2>8. CASE DestroyVolume(h) \/ DestroySnapshot(h)
    BY <1>2, <1>3, <2>8 DEF DestroyVolume, DestroySnapshot, At, Steps
  <2>9. CASE Reply(h)
    BY <1>2, <2>9 DEF Reply, ReturnError
  <2> QED
    BY <1>6, <2>1, <2>2, <2>3, <2>4, <2>5, <2>6, <2>7, <2>8, <2>9 DEF HandlerStep
<1>7. ASSUME Environment
      PROVE  handler'[g] = handler[g] \/ handler'[g] = [handler[g] EXCEPT !.live = FALSE]
  <2>1. ASSUME NEW h \in Handlers, AbandonCall(h)
        PROVE  handler'[g] = handler[g] \/ handler'[g] = [handler[g] EXCEPT !.live = FALSE]
    BY <1>1, <2>1 DEF AbandonCall, HandlerInv
  <2>2. ASSUME NEW h \in Handlers, Fail(h) PROVE handler'[g] = handler[g]
    BY <1>2, <2>2 DEF Fail
  <2>3. ASSUME Crash PROVE FALSE
    BY <2>3 DEF Crash, CrashAll, Idle
  <2> QED
    BY <1>7, <2>1, <2>2, <2>3 DEF Environment, NodeMaps, NodeUnmaps, Write, PoolExport, PoolImport
<1> QED
  BY <1>5, <1>6, <1>7 DEF Next

LEMMA SnapAnswersStep ==
    ASSUME TypeInv, OwnershipInv, CallsAreAsked, ReadyStay, SnapAnswersAreTrue, Next
    PROVE  SnapAnswersAreTrue'
<1> SUFFICES ASSUME NEW g \in Handlers, handler'[g].op = "CreateSnapshot", handler'[g].pc = "reply",
                    handler'[g].live
             PROVE  snapshot'[handler'[g].snap] # Absent
  BY DEF SnapAnswersAreTrue, SnapshotExists
<1>0. handler[g] \in HandlerStates /\ GoodHandler(handler[g])
  BY RecordType
<1>1. CASE handler'[g] = handler[g]
  <2> DEFINE s == handler[g].obj
  <2>1. s \in Snaps
    BY <1>0, <1>1 DEF GoodHandler
  <2>2. handler[g].snap = IdOf(s) /\ snap[s].phase = "none" /\ SourceBound(s) /\ SnapshotExists(IdOf(s))
    BY <1>1 DEF CallsAreAsked, Asked, SnapAnswersAreTrue
  <2>3. SameSnapshot(IdOf(s))
    BY <2>1, <2>2, SnapshotKept
  <2> QED
    BY <1>1, <2>2, <2>3 DEF SameSnapshot, SnapshotExists
<1>2. CASE handler'[g] = [handler[g] EXCEPT !.live = FALSE]
  BY <1>0, <1>2 DEF HandlerStates
<1> QED
  BY <1>1, <1>2, SnapAnswerStep

LEMMA FitsStep ==
    ASSUME TypeInv, StepsFit, Next
    PROVE  StepsFit'
<1> SUFFICES ASSUME NEW g \in Handlers PROVE Fits(handler'[g])
  BY DEF StepsFit
<1>0. \A h \in Handlers : handler[h] \in HandlerStates /\ GoodHandler(handler[h]) /\ Fits(handler[h])
  BY RecordType DEF StepsFit
<1>1. HandlerInv
  BY DEF TypeInv
<1>2. ASSUME handler'[g] = handler[g] PROVE Fits(handler'[g])
  BY <1>0, <1>2
<1>3. ASSUME NEW h \in Handlers, ReturnError(h) PROVE Fits(handler'[g])
  BY <1>0, <1>1, <1>3 DEF ReturnError, HandlerInv, Idle, Fits
<1>4. ASSUME NEW h \in Handlers, NEW pc \in Steps, Goto(h, pc), Fits([handler[h] EXCEPT !.pc = pc])
      PROVE  Fits(handler'[g])
  BY <1>0, <1>1, <1>4 DEF Goto, HandlerInv
<1>5. ASSUME NEW h \in Handlers, NEW pc \in {"reply", "resolve"}
      PROVE  Fits([handler[h] EXCEPT !.pc = pc])
  BY <1>0, <1>5 DEF Fits, HandlerStates
<1>6. ASSUME NEW h \in Handlers, NEW pc \in Steps, handler[h].op # "CreateVolume"
      PROVE  Fits([handler[h] EXCEPT !.pc = pc])
  BY <1>0, <1>6 DEF Fits, HandlerStates
<1>7. ASSUME NEW h \in Handlers, Calls(h) PROVE Fits(handler'[g])
  <2>1. ASSUME NEW op, NEW obj, NEW vol, NEW id, NEW size, Start(h, op, obj, vol, id, size)
        PROVE  Fits(handler'[g])
    BY <1>0, <1>1, <2>1 DEF Start, HandlerInv, Fits
  <2> QED
    BY <1>7, <2>1 DEF Calls, CallCreateVolume, CallDeleteVolume, CallCreateSnapshot, CallDeleteSnapshot
<1>8. ASSUME NEW h \in Handlers, HandlerStep(h) PROVE Fits(handler'[g])
  <2>1. CASE Resolve(h)
    <3>1. handler[h].op = "CreateVolume" => Kind(handler[h].obj) \in {"none", "volume", "snapshot"}
      BY <1>0, Kinds DEF GoodHandler
    <3>2. /\ handler'[h].op = handler[h].op /\ handler'[h].obj = handler[h].obj
          /\ handler'[h].pc = AfterResolve(h)
          /\ g # h => handler'[g] = handler[g]
      BY <1>0, <1>1, <2>1 DEF Resolve, HandlerInv, HandlerStates
    <3>3. Fits(handler'[h])
      BY <3>1, <3>2 DEF Fits, AfterResolve, Kind
    <3> QED
      BY <1>2, <3>2, <3>3
  <2>2. CASE ResolveNotFound(h) \/ ResolveWrongZone(h)
    BY <1>3, <1>4, <1>5, <2>2 DEF ResolveNotFound, ResolveWrongZone, Steps
  <2>3. CASE ResolvePanics(h)
    BY <2>3 DEF ResolvePanics, CrashAll, Idle, Fits
  <2>4. CASE CreateNew(h)
    <3>1. Fits([handler[h] EXCEPT !.pc = "getExisting"])
      BY <1>0, <2>4 DEF CreateNew, At, Fits, HandlerStates
    <3> QED
      BY <1>3, <1>4, <1>5, <2>4, <3>1 DEF CreateNew, Steps
  <2>5. CASE GetExisting(h)
    BY <1>3, <1>4, <1>5, <2>5 DEF GetExisting, Steps
  <2>6. CASE GetSnapshot(h) \/ Clone(h)
    <3>1. GetSnapshot(h) => Fits([handler[h] EXCEPT !.pc = "clone"])
      BY <1>0 DEF GetSnapshot, At, Fits, HandlerStates
    <3> QED
      BY <1>3, <1>4, <1>5, <2>6, <3>1 DEF GetSnapshot, Clone, Steps
  <2>7. CASE ListSnapshots(h)
    <3>1. Fits([handler[h] EXCEPT !.pc = "createSnapshot"])
      BY <1>0, <2>7 DEF ListSnapshots, Fits, HandlerStates
    <3> QED
      BY <1>3, <1>4, <2>7, <3>1 DEF ListSnapshots, Steps
  <2>8. CASE CreateSnapshotOnNS(h)
    <3>1. Fits([handler[h] EXCEPT !.pc = "getCreated"])
      BY <1>0, <2>8 DEF CreateSnapshotOnNS, Fits, HandlerStates
    <3> QED
      BY <1>3, <1>4, <2>8, <3>1 DEF CreateSnapshotOnNS, Steps
  <2>9. CASE GetCreated(h)
    <3>1. handler[h].op = "CreateVolume" => Fits([handler[h] EXCEPT !.pc = "clone"])
      BY <1>0, <2>9 DEF GetCreated, Fits, HandlerStates
    <3> QED
      BY <1>3, <1>4, <1>5, <2>9, <3>1 DEF GetCreated, Steps
  <2>10. CASE GetLuns(h) \/ DestroyLun(h)
    <3>1. CASE ReturnError(h)
      BY <1>3, <3>1
    <3>2. ASSUME handler'[h].op = "DeleteVolume", g # h => handler'[g] = handler[g] PROVE Fits(handler'[g])
      BY <1>2, <3>2 DEF Fits
    <3>3. CASE ~ReturnError(h)
      <4>1. handler'[h].op = "DeleteVolume" /\ (g # h => handler'[g] = handler[g])
        BY <1>0, <1>1, <2>10, <3>3 DEF GetLuns, DestroyLun, At, HandlerInv, HandlerStates
      <4> QED
        BY <3>2, <4>1
    <3> QED
      BY <3>1, <3>3
  <2>11. CASE DestroyVolume(h) \/ DestroySnapshot(h)
    BY <1>3, <1>4, <1>5, <2>11 DEF DestroyVolume, DestroySnapshot, Steps
  <2>12. CASE Reply(h)
    BY <1>3, <2>12 DEF Reply, ReturnError
  <2> QED
    BY <1>8, <2>1, <2>2, <2>3, <2>4, <2>5, <2>6, <2>7, <2>8, <2>9, <2>10, <2>11, <2>12 DEF HandlerStep
<1>9. ASSUME Environment PROVE Fits(handler'[g])
  <2>1. ASSUME NEW h \in Handlers, AbandonCall(h) PROVE Fits(handler'[g])
    BY <1>0, <1>1, <2>1 DEF AbandonCall, HandlerInv, HandlerStates, Fits
  <2>2. ASSUME NEW h \in Handlers, Fail(h) PROVE Fits(handler'[g])
    BY <1>3, <2>2 DEF Fail
  <2>3. ASSUME Crash PROVE Fits(handler'[g])
    BY <2>3 DEF Crash, CrashAll, Idle, Fits
  <2> QED
    BY <1>2, <1>9, <2>1, <2>2, <2>3 DEF Environment, NodeMaps, NodeUnmaps, Write, PoolExport, PoolImport
<1> QED
  BY <1>7, <1>8, <1>9 DEF Next

\* A call that goes on is about what it was asked about.
LEMMA AskedKept ==
    ASSUME TypeInv, Known, OwnershipInv, CallsAreAsked, Next, NEW g \in Handlers, Continues(g)
    PROVE  Asked(g)'
<1> SUFFICES ASSUME NEW r, handler[g].obj = r PROVE Asked(g)'
  OBVIOUS
<1>0. Asked(g)
  BY DEF CallsAreAsked
<1>1. CASE handler'[g] = Idle
  BY <1>1 DEF Idle, Asked
<1>2. CASE /\ handler'[g].op = handler[g].op /\ handler'[g].obj = r
           /\ handler'[g].live => handler[g].live
           /\ handler'[g].snap = handler[g].snap
  <2>1. ASSUME handler[g].op = "CreateSnapshot" \/ (handler[g].op = "CreateVolume" /\ Kind(r) = "volume")
        PROVE  /\ handler'[g].snap = IdOf(r)'
               /\ claim'[SourceOf(r)].phase # "unbound"
               /\ SinceOf(r)' # NoContent
               /\ handler'[g].live => SourceBound(r)'
    <3>1. r \in Requests
      BY <2>1, RecordType, SnapRequests DEF GoodHandler
    <3>2. /\ handler[g].snap = IdOf(r) /\ claim[SourceOf(r)].phase # "unbound"
          /\ SinceOf(r) # NoContent
          /\ handler[g].live => SourceBound(r)
      BY <1>0, <2>1 DEF Asked
    <3>3. SinceOf(r)' = SinceOf(r)
      BY <3>1, <3>2, SinceStep
    <3>4. /\ claim'[SourceOf(r)].phase # "unbound" /\ IdOf(r)' = IdOf(r)
      BY <3>1, <3>2, SourceStep
    <3>5. ASSUME handler[g].live PROVE SourceBound(r)'
      <4>1. SUFFICES ASSUME ~SourceBound(r)' PROVE FALSE
        OBVIOUS
      <4>2. PICK k \in Handlers : CallDeleteVolume(k, SourceOf(r))
        BY <3>1, <3>2, <3>5, <4>1, RequestTypes, BoundKept DEF SourceBound
      <4>3. ~InUse([kind |-> "volume", of |-> SourceOf(r)])
        BY <4>2 DEF CallDeleteVolume
      <4>4. Waiting(r)
        BY <3>5 DEF Waiting
      <4>5. CASE handler[g].op = "CreateSnapshot"
        <5>1. r \in Snaps /\ SourceOf(r) = SnapClaim[r].volume /\ snap[r].phase = "none"
          BY <1>0, <3>5, <4>5, RecordType, SnapRequests DEF GoodHandler, Asked
        <5> QED
          BY <4>3, <4>4, <5>1 DEF InUse
      <4>6. CASE handler[g].op = "CreateVolume" /\ Kind(r) = "volume"
        <5>1. r \in Names /\ SourceOf(r) = Claim[r].source.of /\ claim[r].phase = "unbound"
          BY <3>5, <4>6, RecordType, SnapRequests DEF GoodHandler, OwnershipInv, CreatesAreUnbound
        <5>2. Claim[r].source = [kind |-> "volume", of |-> Claim[r].source.of]
          BY <4>6, <5>1, ClaimAssumption DEF Kind, ClaimTypes, Sources
        <5> QED
          BY <4>3, <4>4, <5>1, <5>2 DEF InUse
      <4> QED
        BY <2>1, <4>5, <4>6
    <3> QED
      BY <1>2, <3>2, <3>3, <3>4, <3>5
  <2>2. ASSUME handler[g].op = "CreateVolume", Kind(r) = "snapshot"
        PROVE  LET s == Claim[r].source.of IN snap'[s].phase # "none" /\ handler'[g].snap = snap'[s].id
    <3>1. Claim[r].source.of \in Snaps
      BY <2>2, RecordType, Kinds DEF GoodHandler
    <3>2. snap[Claim[r].source.of].phase # "none" /\ handler[g].snap = snap[Claim[r].source.of].id
      BY <1>0, <2>2 DEF Asked
    <3> QED
      BY <1>2, <3>1, <3>2, SnapPhaseStep
  <2>3. ASSUME handler[g].op = "CreateSnapshot", handler'[g].live
        PROVE  snap'[r].phase = "none"
    <3>1. r \in Snaps /\ snap[r].phase = "none" /\ handler[g].live
      BY <1>0, <1>2, <2>3, RecordType DEF GoodHandler, Asked
    <3>2. SUFFICES ASSUME NEW k \in Handlers, ReadyBy(k, r) PROVE FALSE
      BY <3>1, SnapPhaseStep
    <3>3. k = g
      BY <3>1, <3>2 DEF ReadyBy, OwnershipInv, OneCallEach
    <3>4. ~handler'[g].live
      BY <3>2, <3>3 DEF ReadyBy, Reply, Idle, TypeInv, HandlerInv
    <3> QED
      BY <2>3, <3>4
  <2>4. ASSUME handler[g].op = "DeleteSnapshot"
        PROVE  snap'[r].phase \in {"deleting", "released"} /\ handler'[g].snap = snap'[r].id
    <3>1. r \in Snaps /\ snap[r].phase \in {"deleting", "released"} /\ handler[g].snap = snap[r].id
      BY <1>0, <2>4, RecordType DEF GoodHandler, Asked
    <3>2. snap'[r] \in SnapStates
      BY <3>1, TypeStep DEF TypeInv, CoInv
    <3>3. snap'[r].phase \notin {"none", "ready"} /\ snap'[r].id = snap[r].id
      BY <3>1, SnapPhaseStep
    <3> QED
      BY <1>2, <3>1, <3>2, <3>3 DEF SnapStates
  <2> QED
    BY <1>2, <2>1, <2>2, <2>3, <2>4 DEF Asked
<1> QED
  BY <1>1, <1>2 DEF Continues

\* A call starts with what it is about.
LEMMA AskedFirst ==
    ASSUME TypeInv, Known, OwnershipInv, NEW h \in Handlers, Calls(h)
    PROVE  Asked(h)' /\ \A g \in Handlers \ {h} : Continues(g)
<1>0. /\ HandlerInv /\ OneCallEach /\ BoundVolumesExist
      /\ claim \in [Names -> ClaimStates] /\ snap \in [Snaps -> SnapStates]
  BY DEF TypeInv, CoInv, OwnershipInv
<1>1. ASSUME NEW op, NEW obj, NEW vol, NEW id, NEW size, Start(h, op, obj, vol, id, size)
      PROVE  /\ handler'[h].op = op /\ handler'[h].obj = obj /\ handler'[h].snap = id
             /\ \A g \in Handlers \ {h} : Continues(g)
  BY <1>0, <1>1 DEF Start, HandlerInv, Continues
<1>2. ASSUME NEW m \in Names, claim[m].phase = "bound"
      PROVE  VolumeExists(claim[m].vol) /\ volume[claim[m].vol].content # NoContent
  <2>1. VolumeExists(claim[m].vol) /\ claim[m].vol \in VolIds
    BY <1>0, <1>2 DEF BoundVolumesExist, TypeInv, CoInv, GoodClaim
  <2> QED
    BY <2>1, ContentTypes, NoContentAssumption
<1>3. ASSUME NEW n \in Names, NEW size \in Sizes, CallCreateVolume(h, n, size)
      PROVE  Asked(h)' /\ \A g \in Handlers \ {h} : Continues(g)
  <2>1. /\ handler'[h].op = "CreateVolume" /\ handler'[h].obj = n /\ handler'[h].snap = SourceSnapshot(n)
        /\ \A g \in Handlers \ {h} : Continues(g)
    BY <1>1, <1>3 DEF CallCreateVolume
  <2>2. /\ SourceReady(n) /\ UNCHANGED snap
        /\ claim' = [claim EXCEPT ![n].since = IF @ = NoContent THEN SourceContent(n) ELSE @]
    BY <1>3 DEF CallCreateVolume
  <2>3. /\ \A k \in Names : claim'[k].phase = claim[k].phase /\ claim'[k].vol = claim[k].vol
        /\ claim'[n].since = IF claim[n].since = NoContent THEN SourceContent(n) ELSE claim[n].since
    BY <1>0, <2>2 DEF ClaimStates
  <2>4. ASSUME Kind(n) = "volume"
        PROVE  /\ SourceSnapshot(n) = IdOf(n)'
               /\ claim'[SourceOf(n)].phase = "bound" /\ SinceOf(n)' # NoContent
    <3>1. n \notin Snaps /\ SourceOf(n) = Claim[n].source.of /\ SourceOf(n) \in Names
      BY <2>4, SnapRequests, Kinds
    <3>2. claim[SourceOf(n)].phase = "bound"
      BY <2>2, <2>4, <3>1 DEF SourceReady, Kind
    <3>3. SourceContent(n) # NoContent
      BY <1>2, <2>4, <3>1, <3>2 DEF SourceContent, Kind
    <3>4. SourceSnapshot(n) = [volume |-> claim[SourceOf(n)].vol, tag |-> TagOf(n)]
      BY <2>4, <3>1 DEF SourceSnapshot, Kind, TagOf
    <3> QED
      BY <2>3, <3>1, <3>2, <3>3, <3>4 DEF IdOf, SinceOf
  <2>5. ASSUME Kind(n) = "snapshot"
        PROVE  LET s == Claim[n].source.of IN snap'[s].phase # "none" /\ SourceSnapshot(n) = snap'[s].id
    BY <2>2, <2>5 DEF SourceReady, SourceSnapshot, Kind
  <2> QED
    BY <2>1, <2>4, <2>5 DEF Asked, SourceBound
<1>4. ASSUME NEW n \in Names, CallDeleteVolume(h, n)
      PROVE  Asked(h)' /\ \A g \in Handlers \ {h} : Continues(g)
  <2>1. handler'[h].op = "DeleteVolume" /\ \A g \in Handlers \ {h} : Continues(g)
    BY <1>1, <1>4 DEF CallDeleteVolume
  <2> QED
    BY <2>1 DEF Asked
<1>5. ASSUME NEW s \in Snaps, CallCreateSnapshot(h, s)
      PROVE  Asked(h)' /\ \A g \in Handlers \ {h} : Continues(g)
  <2> DEFINE m == SnapClaim[s].volume
  <2>1. /\ handler'[h].op = "CreateSnapshot" /\ handler'[h].obj = s
        /\ handler'[h].snap = [volume |-> claim[m].vol, tag |-> UserTag(SnapClaim[s].tag)]
        /\ \A g \in Handlers \ {h} : Continues(g)
    BY <1>1, <1>5 DEF CallCreateSnapshot
  <2>2. s \in Snaps /\ SourceOf(s) = m /\ m \in Names /\ s \notin Names
    BY SnapRequests, SnapClaimAssumption
  <2>3. claim[m].phase = "bound" /\ snap[s].phase = "none" /\ UNCHANGED claim
    BY <1>5 DEF CallCreateSnapshot
  <2>4. VolumeExists(claim[m].vol) /\ volume[claim[m].vol].content # NoContent
    BY <1>2, <2>2, <2>3
  <2>5. /\ snap'[s].phase = snap[s].phase
        /\ snap'[s].since = IF snap[s].since = NoContent THEN volume[claim[m].vol].content ELSE snap[s].since
    BY <1>0, <1>5, <2>4 DEF CallCreateSnapshot, SnapStates
  <2>6. handler'[h].snap = IdOf(s)' /\ SinceOf(s)' # NoContent
    BY <2>1, <2>2, <2>3, <2>4, <2>5 DEF IdOf, TagOf, SinceOf
  <2> QED
    BY <2>1, <2>2, <2>3, <2>5, <2>6 DEF Asked, SourceBound
<1>6. ASSUME NEW s \in Snaps, CallDeleteSnapshot(h, s)
      PROVE  Asked(h)' /\ \A g \in Handlers \ {h} : Continues(g)
  <2>1. /\ handler'[h].op = "DeleteSnapshot" /\ handler'[h].obj = s /\ handler'[h].snap = snap[s].id
        /\ \A g \in Handlers \ {h} : Continues(g)
    BY <1>1, <1>6 DEF CallDeleteSnapshot
  <2>2. snap'[s].phase = "deleting" /\ snap'[s].id = snap[s].id
    BY <1>0, <1>6 DEF CallDeleteSnapshot, SnapStates
  <2> QED
    BY <2>1, <2>2 DEF Asked
<1> QED
  BY <1>3, <1>4, <1>5, <1>6 DEF Calls

LEMMA AskedStep ==
    ASSUME TypeInv, Known, OwnershipInv, CallsAreAsked, Next
    PROVE  CallsAreAsked'
<1>1. ASSUME \A g \in Handlers : Continues(g) PROVE \A g \in Handlers : Asked(g)'
  BY <1>1, AskedKept
<1>2. ASSUME NEW h \in Handlers, Calls(h) PROVE \A g \in Handlers : Asked(g)'
  BY <1>2, AskedFirst, AskedKept
<1>3. ASSUME NEW h \in Handlers, HandlerStep(h) PROVE \A g \in Handlers : Asked(g)'
  BY <1>1, <1>3, StepContinues
<1>4. ASSUME Environment PROVE \A g \in Handlers : Asked(g)'
  BY <1>1, <1>4, EnvironmentContinues
<1> QED
  BY <1>2, <1>3, <1>4 DEF Next, CallsAreAsked

-----------------------------------------------------------------------------
(* The invariant is one.                                                   *)

LEMMA ContentInit == Init => ContentInv
<1> SUFFICES ASSUME Init PROVE ContentInv
  OBVIOUS
<1>1. /\ \A v \in VolIds : ~VolumeExists(v)
      /\ \A x \in SnapIds : ~SnapshotExists(x)
  BY DEF Init, NsInit, VolumeExists, SnapshotExists
<1>2. /\ \A h \in Handlers : handler[h].op = "none"
      /\ \A n \in Names : claim[n].since = NoContent
      /\ \A s \in Snaps : snap[s].since = NoContent /\ snap[s].phase = "none"
  BY DEF Init, Idle
<1>3. AsksAreFresh
  BY <1>2 DEF AsksAreFresh, SinceOf, Requests
<1>4. SnapshotsAreFresh
  BY <1>1 DEF SnapshotsAreFresh
<1>5. CallsAreAsked /\ StepsFit /\ SnapAnswersAreTrue
  BY <1>2 DEF CallsAreAsked, Asked, StepsFit, Fits, SnapAnswersAreTrue
<1>6. ReadyStay
  BY <1>2 DEF ReadyStay
<1>7. VolumesAreAsRequested /\ WritesAreBounded
  BY <1>1 DEF VolumesAreAsRequested, WritesAreBounded
<1> QED
  BY <1>3, <1>4, <1>5, <1>6, <1>7 DEF ContentInv

LEMMA ContentStutter ==
    ASSUME ContentInv, UNCHANGED vars
    PROVE  ContentInv'
<1>1. UNCHANGED <<volume, snapshot, handler, claim, snap>>
  BY DEF vars, nsVars
<1>2. AsksAreFresh' /\ SnapshotsAreFresh'
  BY <1>1 DEF ContentInv, AsksAreFresh, SnapshotsAreFresh, Fresh, SinceOf, SourceBound, Current, SnapshotExists
<1>3. CallsAreAsked' /\ StepsFit' /\ SnapAnswersAreTrue'
  BY <1>1 DEF ContentInv, CallsAreAsked, Asked, IdOf, SinceOf, SourceBound, StepsFit, SnapAnswersAreTrue,
     SnapshotExists
<1>4. ReadyStay' /\ WritesAreBounded'
  BY <1>1 DEF ContentInv, ReadyStay, IdOf, SourceBound, WritesAreBounded, SnapshotExists, VolumeExists
<1>5. ASSUME NEW v \in VolIds, VolumeExists(v)'
      PROVE  AsRequested(v)'
  <2>1. AsRequested(v)
    BY <1>1, <1>5 DEF ContentInv, VolumesAreAsRequested, VolumeExists
  <2>2. CASE Kind(v.name) = "none"
    BY <1>1, <2>1, <2>2 DEF AsRequested
  <2>3. CASE Kind(v.name) = "volume"
    BY <1>1, <2>1, <2>3 DEF AsRequested, Fresh, SinceOf, SourceBound, Current
  <2>4. CASE Kind(v.name) \notin {"none", "volume"}
    BY <1>1, <2>1, <2>4 DEF AsRequested, SourceBound
  <2> QED
    BY <2>2, <2>3, <2>4
<1> QED
  BY <1>2, <1>3, <1>4, <1>5 DEF ContentInv, VolumesAreAsRequested

LEMMA ContentStep ==
    ASSUME TypeInv, Known, OwnershipInv, ContentInv, Next
    PROVE  ContentInv'
  BY AsksStep, SnapshotsStep, AskedStep, FitsStep, SnapAnswersStep, ReadyStep, VolumesStep, WritesStep
     DEF ContentInv

LEMMA Holding == Spec => [](TypeInv /\ Known /\ OwnershipInv /\ ContentInv)
<1>1. Spec => []ContentInv
  <2>1. TypeInv /\ Known /\ OwnershipInv /\ ContentInv /\ [Next]_vars => ContentInv'
    BY ContentStep, ContentStutter
  <2> QED
    BY <2>1, ContentInit, Typing, Ownership, PTL DEF Spec
<1> QED
  BY <1>1, Typing, Ownership, PTL

-----------------------------------------------------------------------------
(* Every step is one of the contract, or changes nothing the CO sees.      *)

\* What the CO sees of claims and of snapshots.
SameClaims ==
    \A n \in Names : claim'[n].phase = claim[n].phase /\ DataOf(n)' = DataOf(n) /\ AskedOf(n)' = AskedOf(n)
SameSnaps ==
    \A s \in Snaps :
        snap'[s].phase = snap[s].phase /\ SnapDataOf(s)' = SnapDataOf(s) /\ snap'[s].since = snap[s].since

Seen == Contract!Next \/ UNCHANGED Contract!cvars

LEMMA NothingSeen ==
    ASSUME SameClaims, SameSnaps
    PROVE  Seen
  BY DEF SameClaims, SameSnaps, Seen, Contract!cvars

LEMMA ClaimsUnchanged ==
    ASSUME SameClaims
    PROVE  /\ UNCHANGED [n \in Names |-> claim[n].phase]
           /\ UNCHANGED [n \in Names |-> DataOf(n)]
           /\ UNCHANGED [n \in Names |-> AskedOf(n)]
  BY DEF SameClaims

LEMMA SnapsUnchanged ==
    ASSUME SameSnaps
    PROVE  /\ UNCHANGED [s \in Snaps |-> snap[s].phase]
           /\ UNCHANGED [s \in Snaps |-> SnapDataOf(s)]
           /\ UNCHANGED [s \in Snaps |-> snap[s].since]
  BY DEF SameSnaps

\* A bound claim's volume is what the CO sees of it.
LEMMA BoundData ==
    ASSUME TypeInv, OwnershipInv, NEW n \in Names, claim[n].phase = "bound"
    PROVE  /\ claim[n].vol \in VolIds /\ VolumeExists(claim[n].vol)
           /\ DataOf(n) = volume[claim[n].vol].content
           /\ DataOf(n) \in Contents /\ DataOf(n) # NoContent
<1>1. claim[n].vol \in VolIds /\ VolumeExists(claim[n].vol)
  BY DEF TypeInv, CoInv, GoodClaim, OwnershipInv, BoundVolumesExist
<1> QED
  BY <1>1, ContentTypes, NoContentAssumption DEF DataOf, Bound

\* Only a write changes what a claim that stays bound holds.
LEMMA DataKept ==
    ASSUME TypeInv, Known, OwnershipInv, Next, NEW n \in Names, ~Write(n),
           claim[n].phase = "bound" <=> claim'[n].phase = "bound"
    PROVE  DataOf(n)' = DataOf(n)
<1>1. CASE claim[n].phase = "bound"
  <2>1. /\ claim'[n].vol = claim[n].vol /\ VolumeExists(claim[n].vol) /\ VolumeExists(claim[n].vol)'
        /\ volume'[claim[n].vol].content = volume[claim[n].vol].content
    BY <1>1, CurrentStep
  <2> QED
    BY <1>1, <2>1 DEF DataOf, Bound, VolumeExists
<1>2. CASE claim[n].phase # "bound"
  BY <1>2 DEF DataOf, Bound
<1> QED
  BY <1>1, <1>2

\* No step changes what a snapshot that stays ready holds.
LEMMA SnapDataKept ==
    ASSUME TypeInv, Known, OwnershipInv, ContentInv, Next, NEW s \in Snaps,
           snap'[s].phase = snap[s].phase,
           claim[SnapClaim[s].volume].phase = "bound" <=> claim'[SnapClaim[s].volume].phase = "bound"
    PROVE  SnapDataOf(s)' = SnapDataOf(s)
<1>0. SourceOf(s) = SnapClaim[s].volume /\ CallsAreAsked /\ ReadyStay
  BY SnapRequests DEF ContentInv
<1>1. CASE snap[s].phase = "ready" /\ claim[SnapClaim[s].volume].phase = "bound"
  <2>1. snap[s].phase # "none" /\ snap'[s].phase = "ready" /\ SourceBound(s)'
    BY <1>0, <1>1 DEF SourceBound
  <2>2. /\ snap'[s].id = snap[s].id
        /\ SnapshotExists(snap[s].id) /\ snapshot'[snap[s].id] = snapshot[snap[s].id]
    BY <1>0, <2>1, ReadyKept
  <2> QED
    BY <1>1, <2>2 DEF SnapDataOf, Bound, SnapshotExists
<1>2. CASE ~(snap[s].phase = "ready" /\ claim[SnapClaim[s].volume].phase = "bound")
  BY <1>2 DEF SnapDataOf, Bound
<1> QED
  BY <1>1, <1>2

LEMMA SnapVolumes == \A s \in Snaps : SnapClaim[s].volume \in Names
  BY SnapClaimAssumption

\* REST calls, promotions, late handlers, crashes and failures are not seen.
LEMMA Unseen ==
    ASSUME TypeInv, Known, OwnershipInv, ContentInv, Next, UNCHANGED <<claim, snap>>,
           \A n \in Names : ~Write(n)
    PROVE  Seen
<1>1. SameClaims
  BY DataKept DEF SameClaims, AskedOf
<1>2. SameSnaps
  BY SnapDataKept DEF SameSnaps
<1> QED
  BY <1>1, <1>2, NothingSeen

\* An application's write is one of the contract.
LEMMA WriteSeen ==
    ASSUME TypeInv, Known, OwnershipInv, ContentInv, Next, NEW n \in Names, Write(n)
    PROVE  Seen
<1> DEFINE v == claim[n].vol
<1>1. claim[n].phase = "bound" /\ volume[v].content.writes < MaxWrites /\ UNCHANGED <<claim, snap>>
  BY DEF Write, coVars
<1>2. v \in VolIds /\ volume[v] \in Volumes /\ DataOf(n) = volume[v].content
  BY <1>1, BoundData, ContentTypes
<1>3. volume' = [volume EXCEPT ![v] = [volume[v] EXCEPT !.content = [volume[v].content EXCEPT !.writes = @ + 1]]]
  BY DEF Write, NsWrite
<1>4. DataOf(n)' = [DataOf(n) EXCEPT !.writes = @ + 1]
  <2>1. volume'[v] = [volume[v] EXCEPT !.content = [volume[v].content EXCEPT !.writes = @ + 1]]
    BY <1>2, <1>3 DEF TypeInv, NsTypeOK
  <2>2. volume'[v] \in Volumes
    BY <1>2, <2>1 DEF Volumes, Contents
  <2>3. volume'[v].content = [volume[v].content EXCEPT !.writes = @ + 1]
    BY <1>2, <2>1 DEF Volumes
  <2>4. volume'[v] # Absent
    BY <2>2, AbsentAssumption
  <2> QED
    BY <1>1, <1>2, <2>3, <2>4 DEF DataOf, Bound, VolumeExists
<1>5. ASSUME NEW k \in Names, k # n PROVE DataOf(k)' = DataOf(k)
  <2>1. CASE claim[k].phase = "bound"
    <3>1. claim[k].vol \in VolIds /\ claim[k].vol # v
      BY <1>1, <1>5, <2>1 DEF TypeInv, CoInv, GoodClaim
    <3>2. volume'[claim[k].vol] = volume[claim[k].vol]
      BY <1>3, <3>1 DEF TypeInv, NsTypeOK
    <3> QED
      BY <1>1, <3>2 DEF DataOf, Bound, VolumeExists
  <2>2. CASE claim[k].phase # "bound"
    BY <1>1, <2>2 DEF DataOf, Bound
  <2> QED
    BY <2>1, <2>2
<1>6. SameSnaps
  BY <1>1, SnapDataKept DEF SameSnaps
<1>7. \A k \in Names : claim'[k].phase = claim[k].phase /\ AskedOf(k)' = AskedOf(k)
  BY <1>1 DEF AskedOf
<1>8. Contract!Write(n)
  BY <1>1, <1>2, <1>4, <1>5, <1>6, <1>7 DEF Contract!Write, SameSnaps
<1> QED
  BY <1>8 DEF Seen, Contract!Next

LEMMA CallSeen ==
    ASSUME TypeInv, Known, OwnershipInv, ContentInv, NEW h \in Handlers, Calls(h)
    PROVE  Seen
<1>0. /\ claim \in [Names -> ClaimStates] /\ snap \in [Snaps -> SnapStates]
  BY DEF TypeInv, CoInv
<1>1. ASSUME NEW n \in Names, NEW size \in Sizes, CallCreateVolume(h, n, size) PROVE Seen
  <2>1. /\ claim[n].phase = "unbound" /\ SourceReady(n) /\ UNCHANGED <<volume, snapshot, snap>>
        /\ claim' = [claim EXCEPT ![n].since = IF @ = NoContent THEN SourceContent(n) ELSE @]
    BY <1>1 DEF CallCreateVolume, nsVars
  <2>2. /\ \A k \in Names : claim'[k].phase = claim[k].phase /\ claim'[k].vol = claim[k].vol
        /\ \A k \in Names \ {n} : claim'[k].since = claim[k].since
        /\ claim'[n].since = IF claim[n].since = NoContent THEN SourceContent(n) ELSE claim[n].since
    BY <1>0, <2>1 DEF ClaimStates
  <2>3. \A k \in Names : DataOf(k)' = DataOf(k)
    BY <2>1, <2>2 DEF DataOf, Bound, VolumeExists
  <2>4. SameSnaps
    BY <2>1, <2>2, SnapVolumes DEF SameSnaps, SnapDataOf, Bound, SnapshotExists
  <2>5. CASE Kind(n) # "volume" \/ claim[n].since # NoContent
    <3>1. SameClaims
      BY <2>2, <2>3, <2>5 DEF SameClaims, AskedOf, Kind
    <3> QED
      BY <2>4, <3>1, NothingSeen
  <2>6. CASE Kind(n) = "volume" /\ claim[n].since = NoContent
    <3> DEFINE m == Claim[n].source.of
    <3>1. m \in Names /\ claim[m].phase = "bound"
      BY <2>1, <2>6, Kinds DEF SourceReady, Kind
    <3>2. VolumeExists(claim[m].vol) /\ DataOf(m) = volume[claim[m].vol].content
      BY <3>1, BoundData
    <3>3. SourceContent(n) = DataOf(m)
      BY <2>6, <3>2 DEF SourceContent, Kind
    <3>4. AskedOf(n) = NoContent /\ AskedOf(n)' = DataOf(m)
      BY <2>2, <2>6, <3>3 DEF AskedOf, Kind
    <3>5. \A k \in Names \ {n} : AskedOf(k)' = AskedOf(k)
      BY <2>2 DEF AskedOf
    <3>6. Contract!AskClone(n)
      <4>1. [k \in Names |-> AskedOf(k)]' = [[k \in Names |-> AskedOf(k)] EXCEPT ![n] = DataOf(m)]
        BY <3>4, <3>5
      <4>2. UNCHANGED <<[k \in Names |-> claim[k].phase], [k \in Names |-> DataOf(k)]>>
        BY <2>2, <2>3
      <4>3. UNCHANGED <<[s \in Snaps |-> snap[s].phase], [s \in Snaps |-> SnapDataOf(s)],
                        [s \in Snaps |-> snap[s].since]>>
        BY <2>4 DEF SameSnaps
      <4> QED
        BY <2>1, <2>6, <3>1, <3>4, <4>1, <4>2, <4>3 DEF Contract!AskClone, Kind
    <3> QED
      BY <3>6 DEF Seen, Contract!Next
  <2> QED
    BY <2>5, <2>6
<1>2. ASSUME NEW n \in Names, CallDeleteVolume(h, n) PROVE Seen
  <2>1. /\ claim[n].phase \in {"bound", "deleting"} /\ UNCHANGED <<volume, snapshot, snap>>
        /\ claim' = [claim EXCEPT ![n].phase = "deleting"]
    BY <1>2 DEF CallDeleteVolume, nsVars
  <2>2. /\ \A k \in Names : claim'[k].since = claim[k].since /\ claim'[k].vol = claim[k].vol
        /\ \A k \in Names \ {n} : claim'[k].phase = claim[k].phase
        /\ claim'[n].phase = "deleting"
    BY <1>0, <2>1 DEF ClaimStates
  <2>3. \A k \in Names : AskedOf(k)' = AskedOf(k)
    BY <2>2 DEF AskedOf
  <2>4. DataOf(n)' = NoContent /\ \A k \in Names \ {n} : DataOf(k)' = DataOf(k)
    BY <2>1, <2>2 DEF DataOf, Bound, VolumeExists
  <2>5. \A s \in Snaps : SnapDataOf(s)' = IF SnapClaim[s].volume = n THEN NoContent ELSE SnapDataOf(s)
    BY <2>1, <2>2, SnapVolumes DEF SnapDataOf, Bound, SnapshotExists
  <2>6. CASE claim[n].phase = "bound"
    <3>1. Contract!BeginDelete(n)
      <4>1. [k \in Names |-> claim[k].phase]' = [[k \in Names |-> claim[k].phase] EXCEPT ![n] = "deleting"]
        BY <2>2
      <4>2. [k \in Names |-> DataOf(k)]' = [[k \in Names |-> DataOf(k)] EXCEPT ![n] = NoContent]
        BY <2>4
      <4>3. [s \in Snaps |-> SnapDataOf(s)]' =
              [s \in Snaps |-> IF SnapClaim[s].volume = n THEN NoContent ELSE SnapDataOf(s)]
        BY <2>5
      <4>4. UNCHANGED <<[k \in Names |-> AskedOf(k)], [s \in Snaps |-> snap[s].phase],
                        [s \in Snaps |-> snap[s].since]>>
        BY <2>1, <2>3
      <4> QED
        BY <2>6, <4>1, <4>2, <4>3, <4>4 DEF Contract!BeginDelete
    <3> QED
      BY <3>1 DEF Seen, Contract!Next
  <2>7. CASE claim[n].phase = "deleting"
    <3>1. DataOf(n) = NoContent /\ \A s \in Snaps : SnapClaim[s].volume = n => SnapDataOf(s) = NoContent
      BY <2>7 DEF DataOf, SnapDataOf, Bound
    <3>2. SameClaims
      BY <2>2, <2>3, <2>4, <2>7, <3>1 DEF SameClaims
    <3>3. SameSnaps
      BY <2>1, <2>5, <3>1 DEF SameSnaps
    <3> QED
      BY <3>2, <3>3, NothingSeen
  <2> QED
    BY <2>1, <2>6, <2>7
<1>3. ASSUME NEW s \in Snaps, CallCreateSnapshot(h, s) PROVE Seen
  <2> DEFINE m == SnapClaim[s].volume
  <2>1. /\ snap[s].phase = "none" /\ claim[m].phase = "bound" /\ UNCHANGED <<volume, snapshot, claim>>
        /\ snap' = [snap EXCEPT ![s].since =
                      IF @ = NoContent /\ VolumeExists(claim[m].vol) THEN volume[claim[m].vol].content ELSE @]
    BY <1>3 DEF CallCreateSnapshot, nsVars
  <2>2. m \in Names /\ VolumeExists(claim[m].vol) /\ DataOf(m) = volume[claim[m].vol].content
    BY <2>1, SnapVolumes, BoundData
  <2>3. /\ \A t \in Snaps : snap'[t].phase = snap[t].phase /\ snap'[t].id = snap[t].id
        /\ \A t \in Snaps \ {s} : snap'[t].since = snap[t].since
        /\ snap'[s].since = IF snap[s].since = NoContent THEN DataOf(m) ELSE snap[s].since
    BY <1>0, <2>1, <2>2 DEF SnapStates
  <2>4. SameClaims
    BY <2>1 DEF SameClaims, DataOf, AskedOf, Bound, VolumeExists
  <2>5. \A t \in Snaps : SnapDataOf(t)' = SnapDataOf(t)
    BY <2>1, <2>3 DEF SnapDataOf, Bound, SnapshotExists
  <2>6. CASE snap[s].since # NoContent
    <3>1. SameSnaps
      BY <2>3, <2>5, <2>6 DEF SameSnaps
    <3> QED
      BY <2>4, <3>1, NothingSeen
  <2>7. CASE snap[s].since = NoContent
    <3>1. [t \in Snaps |-> snap[t].since]' = [[t \in Snaps |-> snap[t].since] EXCEPT ![s] = DataOf(m)]
      BY <2>3, <2>7
    <3>2. /\ UNCHANGED [t \in Snaps |-> snap[t].phase]
          /\ UNCHANGED [t \in Snaps |-> SnapDataOf(t)]
      BY <2>3, <2>5
    <3>3. /\ [t \in Snaps |-> snap[t].phase][s] = "none" /\ [t \in Snaps |-> snap[t].since][s] = NoContent
          /\ [t \in Snaps |-> SnapClaim[t].volume][s] = m
          /\ [n \in Names |-> claim[n].phase][m] = "bound" /\ [n \in Names |-> DataOf(n)][m] = DataOf(m)
      BY <2>1, <2>2, <2>7
    <3>4. Contract!AskSnapshot(s)
      BY <2>4, <3>1, <3>2, <3>3, ClaimsUnchanged DEF Contract!AskSnapshot
    <3> QED
      BY <3>4 DEF Seen, Contract!Next
  <2> QED
    BY <2>6, <2>7
<1>4. ASSUME NEW s \in Snaps, CallDeleteSnapshot(h, s) PROVE Seen
  <2>1. /\ snap[s].phase \in {"ready", "deleting"} /\ UNCHANGED <<volume, snapshot, claim>>
        /\ snap' = [snap EXCEPT ![s].phase = "deleting"]
    BY <1>4 DEF CallDeleteSnapshot, nsVars
  <2>2. /\ \A t \in Snaps : snap'[t].since = snap[t].since /\ snap'[t].id = snap[t].id
        /\ \A t \in Snaps \ {s} : snap'[t].phase = snap[t].phase
        /\ snap'[s].phase = "deleting"
    BY <1>0, <2>1 DEF SnapStates
  <2>3. SameClaims
    BY <2>1 DEF SameClaims, DataOf, AskedOf, Bound, VolumeExists
  <2>4. SnapDataOf(s)' = NoContent /\ \A t \in Snaps \ {s} : SnapDataOf(t)' = SnapDataOf(t)
    BY <2>1, <2>2 DEF SnapDataOf, Bound, SnapshotExists
  <2>5. CASE snap[s].phase = "ready"
    <3>1. /\ [t \in Snaps |-> snap[t].phase]' = [[t \in Snaps |-> snap[t].phase] EXCEPT ![s] = "deleting"]
          /\ [t \in Snaps |-> SnapDataOf(t)]' = [[t \in Snaps |-> SnapDataOf(t)] EXCEPT ![s] = NoContent]
          /\ UNCHANGED [t \in Snaps |-> snap[t].since]
      BY <2>2, <2>4
    <3>2. [t \in Snaps |-> snap[t].phase][s] = "ready"
      BY <2>5
    <3>3. Contract!BeginDeleteSnapshot(s)
      BY <2>3, <3>1, <3>2, ClaimsUnchanged DEF Contract!BeginDeleteSnapshot
    <3> QED
      BY <3>3 DEF Seen, Contract!Next
  <2>6. CASE snap[s].phase = "deleting"
    <3>1. SnapDataOf(s) = NoContent
      BY <2>6 DEF SnapDataOf
    <3>2. SameSnaps
      BY <2>2, <2>4, <2>6, <3>1 DEF SameSnaps
    <3> QED
      BY <2>3, <3>2, NothingSeen
  <2> QED
    BY <2>1, <2>5, <2>6
<1> QED
  BY <1>1, <1>2, <1>3, <1>4 DEF Calls

\* A claim is bound to what the contract provides.
LEMMA BindSeen ==
    ASSUME TypeInv, Known, OwnershipInv, ContentInv, NEW h \in Handlers, Reply(h),
           handler[h].op = "CreateVolume", handler[h].live
    PROVE  Seen
<1> SUFFICES ASSUME NEW n, n = handler[h].obj, NEW v, v = handler[h].vol PROVE Seen
  OBVIOUS
<1>0. /\ claim \in [Names -> ClaimStates] /\ n \in Names /\ v \in VolIds
      /\ UNCHANGED <<volume, snapshot, snap>> /\ handler[h].pc = "reply"
  BY RecordType DEF TypeInv, CoInv, GoodHandler, Reply, Snapped, nsVars
<1>1. v.name = n
  <2>1. handler[h].vol = [config |-> handler[h].vol.config, name |-> handler[h].obj]
    BY <1>0, RecordType DEF GoodHandler
  <2> QED
    BY <2>1
<1>2. claim[n].phase = "unbound" /\ VolumeExists(v) /\ AsRequested(v) /\ Asked(h)
  BY <1>0 DEF OwnershipInv, CreatesAreUnbound, AnswersAreTrue, ContentInv, VolumesAreAsRequested,
     CallsAreAsked
<1>3. claim' = [claim EXCEPT ![n].phase = "bound", ![n].vol = v, ![n].size = handler[h].size]
  BY DEF Reply, Created
<1>4. /\ claim'[n].phase = "bound" /\ claim'[n].vol = v
      /\ \A k \in Names : claim'[k].since = claim[k].since
      /\ \A k \in Names \ {n} : claim'[k] = claim[k]
  <2>1. claim[n] \in ClaimStates /\ DOMAIN claim = Names
    BY <1>0
  <2>2. /\ claim'[n] = [claim[n] EXCEPT !.phase = "bound", !.vol = v, !.size = handler[h].size]
        /\ \A k \in Names \ {n} : claim'[k] = claim[k]
    BY <1>0, <1>3, <2>1
  <2>3. /\ claim'[n].phase = "bound" /\ claim'[n].vol = v
        /\ claim'[n].since = claim[n].since
    BY <2>1, <2>2 DEF ClaimStates
  <2> QED
    BY <2>2, <2>3
<1> DEFINE c == volume[v].content
<1>5. c \in Contents /\ c.writes <= MaxWrites
  BY <1>0, <1>2, ContentTypes DEF ContentInv, WritesAreBounded
<1>6. DataOf(n)' = c /\ \A k \in Names \ {n} : DataOf(k)' = DataOf(k)
  BY <1>0, <1>2, <1>4 DEF DataOf, Bound, VolumeExists
<1>7. \A k \in Names : AskedOf(k)' = AskedOf(k)
  BY <1>4 DEF AskedOf
<1>8. SameSnaps
  <2>1. ASSUME NEW s \in Snaps PROVE SnapDataOf(s)' = SnapDataOf(s)
    <3>1. CASE SnapClaim[s].volume = n
      <4>1. snap[s].phase # "ready"
        BY <1>2, <3>1, SnapRequests DEF ContentInv, ReadyStay
      <4> QED
        BY <1>0, <4>1 DEF SnapDataOf
    <3>2. CASE SnapClaim[s].volume # n
      BY <1>0, <1>4, <3>2, SnapVolumes DEF SnapDataOf, Bound, SnapshotExists
    <3> QED
      BY <3>1, <3>2
  <2> QED
    BY <1>0, <2>1 DEF SameSnaps
<1>9. Kind(n) = "volume" => claim[Claim[n].source.of].phase = "bound"
  BY <1>0, <1>2, SnapRequests DEF Asked, SourceBound
<1>10. c \in Contract!Provided(n)
  <2>1. Kind(n) \in {"none", "volume", "snapshot"}
    BY <1>0, Kinds
  <2>2. CASE Kind(n) = "none"
    <3>1. c = [root |-> n, writes |-> 0]
      BY <1>1, <1>2, <1>5, <2>2 DEF AsRequested, Contents
    <3> QED
      BY <1>0, <2>2, <3>1 DEF Contract!Provided, Kind
  <2>3. CASE Kind(n) = "volume"
    <3> DEFINE m == Claim[n].source.of
    <3>1. n \in Requests /\ n \notin Snaps /\ SourceOf(n) = m /\ m \in Names
      BY <1>0, <2>3, SnapRequests, Kinds
    <3>2. claim[m].phase = "bound" /\ Current(n) = DataOf(m) /\ DataOf(m) \in Contents
      BY <1>9, <2>3, <3>1, BoundData DEF Current
    <3>3. Fresh(n, c)
      BY <1>1, <1>2, <2>3, <3>1, <3>2 DEF AsRequested, SourceBound
    <3>4. SinceOf(n) = AskedOf(n) /\ SinceOf(n) \in Contents
      BY <2>3, <3>1, <3>3, RequestTypes DEF Fresh, SinceOf, AskedOf, Kind
    <3>5. /\ c.root = DataOf(m).root
          /\ c.writes \in AskedOf(n).writes .. DataOf(m).writes
      BY <1>5, <3>2, <3>3, <3>4 DEF Fresh, Contents
    <3>6. c \in [root : {DataOf(m).root}, writes : AskedOf(n).writes .. DataOf(m).writes]
      BY <1>5, <3>5 DEF Contents
    <3> QED
      BY <1>0, <2>3, <3>1, <3>6 DEF Contract!Provided, Contract!SinceThen, Kind
  <2>4. CASE Kind(n) = "snapshot"
    <3> DEFINE s == Claim[n].source.of
    <3>1. s \in Snaps
      BY <1>0, <2>4, Kinds
    <3>2. CASE SnapDataOf(s) = NoContent
      <4>1. c \in Contract!Contents
        BY <1>5, BoundsAssumption DEF Contract!Contents, Contents
      <4> QED
        BY <1>0, <2>4, <3>1, <3>2, <4>1 DEF Contract!Provided, Kind
    <3>3. CASE SnapDataOf(s) # NoContent
      <4>1. /\ snap[s].phase = "ready" /\ claim[SnapClaim[s].volume].phase = "bound"
            /\ SnapDataOf(s) = snapshot[snap[s].id].content
        BY <3>3 DEF SnapDataOf, Bound
      <4>2. c = SnapDataOf(s)
        BY <1>1, <1>2, <2>4, <3>1, <4>1, SnapRequests DEF AsRequested, SourceBound
      <4> QED
        BY <1>0, <2>4, <3>1, <3>3, <4>2 DEF Contract!Provided, Kind
    <3> QED
      BY <3>2, <3>3
  <2> QED
    BY <2>1, <2>2, <2>3, <2>4
<1> HIDE DEF c
<1>11. /\ [k \in Names |-> claim[k].phase]' = [[k \in Names |-> claim[k].phase] EXCEPT ![n] = "bound"]
       /\ [k \in Names |-> DataOf(k)]' = [[k \in Names |-> DataOf(k)] EXCEPT ![n] = c]
       /\ UNCHANGED [k \in Names |-> AskedOf(k)]
  BY <1>0, <1>4, <1>6, <1>7
<1>12. [k \in Names |-> claim[k].phase][n] = "unbound"
  BY <1>0, <1>2
<1>13. [k \in Names |-> Claim[k].source][n].kind = "volume" =>
         [k \in Names |-> claim[k].phase][[k \in Names |-> Claim[k].source][n].of] = "bound"
  BY <1>0, <1>9, Kinds DEF Kind
<1>14. Contract!Bind(n)
  BY <1>8, <1>10, <1>11, <1>12, <1>13, SnapsUnchanged DEF Contract!Bind
<1> QED
  BY <1>0, <1>14 DEF Seen, Contract!Next

\* A ready snapshot holds what the contract says.
LEMMA MakeReadySeen ==
    ASSUME TypeInv, Known, OwnershipInv, ContentInv, NEW h \in Handlers, Reply(h),
           handler[h].op = "CreateSnapshot", handler[h].live
    PROVE  Seen
<1> SUFFICES ASSUME NEW s, s = handler[h].obj, NEW x, x = handler[h].snap PROVE Seen
  OBVIOUS
<1>0. /\ snap \in [Snaps -> SnapStates] /\ s \in Snaps /\ x \in SnapIds
      /\ UNCHANGED <<volume, snapshot, claim>> /\ handler[h].pc = "reply"
  BY RecordType DEF TypeInv, CoInv, GoodHandler, Reply, Created, nsVars
<1>1. /\ x = IdOf(s) /\ SinceOf(s) # NoContent /\ SourceBound(s) /\ snap[s].phase = "none"
      /\ SnapshotExists(x)
  BY <1>0 DEF ContentInv, CallsAreAsked, Asked, SnapAnswersAreTrue
<1>2. snap' = [snap EXCEPT ![s].phase = "ready", ![s].id = x]
  BY DEF Reply, Snapped
<1>3. /\ snap'[s].phase = "ready" /\ snap'[s].id = x
      /\ \A t \in Snaps : snap'[t].since = snap[t].since
      /\ \A t \in Snaps \ {s} : snap'[t] = snap[t]
  BY <1>0, <1>2 DEF SnapStates
<1> DEFINE m == SnapClaim[s].volume  c == snapshot[x].content
<1>4. /\ s \in Requests /\ SourceOf(s) = m /\ m \in Names /\ SinceOf(s) = snap[s].since
      /\ claim[m].phase = "bound"
  BY <1>0, <1>1, SnapRequests, SnapVolumes DEF SinceOf, SourceBound
<1>5. Fresh(s, c)
  <2>1. x.tag = TagOf(s)
    BY <1>1 DEF IdOf
  <2> QED
    BY <1>0, <1>1, <1>4, <2>1 DEF ContentInv, SnapshotsAreFresh
<1>6. Current(s) = DataOf(m) /\ DataOf(m) \in Contents /\ c \in Contents /\ snap[s].since \in Contents
  BY <1>0, <1>1, <1>4, BoundData, ContentTypes, RequestTypes DEF Current
<1>7. c \in [root : {DataOf(m).root}, writes : snap[s].since.writes .. DataOf(m).writes]
  <2>1. /\ c.root = DataOf(m).root
        /\ snap[s].since.writes <= c.writes /\ c.writes <= DataOf(m).writes
    BY <1>4, <1>5, <1>6 DEF Fresh
  <2> HIDE DEF c
  <2>2. c = [root |-> c.root, writes |-> c.writes] /\ c.writes \in Nat
        /\ snap[s].since.writes \in Nat /\ DataOf(m).writes \in Nat
    BY <1>6 DEF Contents
  <2>3. c.writes \in snap[s].since.writes .. DataOf(m).writes
    BY <2>1, <2>2
  <2> QED
    BY <2>1, <2>2, <2>3
<1>8. SnapDataOf(s)' = c /\ \A t \in Snaps \ {s} : SnapDataOf(t)' = SnapDataOf(t)
  BY <1>0, <1>1, <1>3, <1>4 DEF SnapDataOf, Bound, SnapshotExists
<1>9. SameClaims
  BY <1>0 DEF SameClaims, DataOf, AskedOf, Bound, VolumeExists
<1> HIDE DEF c
<1>10. /\ [t \in Snaps |-> snap[t].phase]' = [[t \in Snaps |-> snap[t].phase] EXCEPT ![s] = "ready"]
       /\ [t \in Snaps |-> SnapDataOf(t)]' = [[t \in Snaps |-> SnapDataOf(t)] EXCEPT ![s] = c]
       /\ UNCHANGED [t \in Snaps |-> snap[t].since]
  BY <1>0, <1>3, <1>8
<1>11. /\ [t \in Snaps |-> snap[t].phase][s] = "none"
       /\ [t \in Snaps |-> SnapClaim[t].volume][s] = m /\ [n \in Names |-> claim[n].phase][m] = "bound"
  BY <1>0, <1>1, <1>4
<1>12. c \in Contract!SinceThen([t \in Snaps |-> snap[t].since][s], m)
  BY <1>0, <1>4, <1>7 DEF Contract!SinceThen
<1>13. Contract!MakeReady(s)
  BY <1>9, <1>10, <1>11, <1>12, ClaimsUnchanged DEF Contract!MakeReady
<1> QED
  BY <1>0, <1>13 DEF Seen, Contract!Next

LEMMA ReleaseSeen ==
    ASSUME TypeInv, Known, OwnershipInv, ContentInv, NEW h \in Handlers, Reply(h),
           handler[h].op = "DeleteVolume", handler[h].live
    PROVE  Seen
<1> SUFFICES ASSUME NEW n, n = handler[h].obj PROVE Seen
  OBVIOUS
<1>0. claim \in [Names -> ClaimStates] /\ n \in Names /\ UNCHANGED <<volume, snapshot, snap>>
  BY RecordType DEF TypeInv, CoInv, GoodHandler, Reply, Snapped, nsVars
<1>1. claim[n].phase \in {"deleting", "released"}
  BY DEF OwnershipInv, DeletesAreAsked
<1>2. claim' = [claim EXCEPT ![n].phase = "released"]
  BY DEF Reply, Created
<1>3. /\ \A k \in Names : claim'[k].since = claim[k].since /\ claim'[k].vol = claim[k].vol
      /\ \A k \in Names \ {n} : claim'[k].phase = claim[k].phase
      /\ claim'[n].phase = "released"
  BY <1>0, <1>2 DEF ClaimStates
<1>4. \A k \in Names : DataOf(k)' = DataOf(k) /\ AskedOf(k)' = AskedOf(k)
  BY <1>0, <1>1, <1>3 DEF DataOf, AskedOf, Bound, VolumeExists
<1>5. SameSnaps
  BY <1>0, <1>1, <1>3, SnapVolumes DEF SameSnaps, SnapDataOf, Bound, SnapshotExists
<1>6. CASE claim[n].phase = "deleting"
  <2>1. /\ [k \in Names |-> claim[k].phase]' = [[k \in Names |-> claim[k].phase] EXCEPT ![n] = "released"]
        /\ UNCHANGED [k \in Names |-> DataOf(k)]
        /\ UNCHANGED [k \in Names |-> AskedOf(k)]
        /\ [k \in Names |-> claim[k].phase][n] = "deleting"
    BY <1>0, <1>3, <1>4, <1>6
  <2>2. Contract!Release(n)
    BY <1>5, <2>1, SnapsUnchanged DEF Contract!Release
  <2> QED
    BY <1>0, <2>2 DEF Seen, Contract!Next
<1>7. CASE claim[n].phase = "released"
  <2>1. SameClaims
    BY <1>3, <1>4, <1>7 DEF SameClaims
  <2> QED
    BY <1>5, <2>1, NothingSeen
<1> QED
  BY <1>1, <1>6, <1>7

LEMMA ReleaseSnapshotSeen ==
    ASSUME TypeInv, Known, OwnershipInv, ContentInv, NEW h \in Handlers, Reply(h),
           handler[h].op = "DeleteSnapshot", handler[h].live
    PROVE  Seen
<1> SUFFICES ASSUME NEW s, s = handler[h].obj PROVE Seen
  OBVIOUS
<1>0. snap \in [Snaps -> SnapStates] /\ s \in Snaps /\ UNCHANGED <<volume, snapshot, claim>>
  BY RecordType DEF TypeInv, CoInv, GoodHandler, Reply, Created, nsVars
<1>1. snap[s].phase \in {"deleting", "released"}
  BY DEF ContentInv, CallsAreAsked, Asked
<1>2. snap' = [snap EXCEPT ![s].phase = "released"]
  BY DEF Reply, Snapped
<1>3. /\ \A t \in Snaps : snap'[t].since = snap[t].since /\ snap'[t].id = snap[t].id
      /\ \A t \in Snaps \ {s} : snap'[t].phase = snap[t].phase
      /\ snap'[s].phase = "released"
  BY <1>0, <1>2 DEF SnapStates
<1>4. \A t \in Snaps : SnapDataOf(t)' = SnapDataOf(t)
  BY <1>0, <1>1, <1>3 DEF SnapDataOf, Bound, SnapshotExists
<1>5. SameClaims
  BY <1>0 DEF SameClaims, DataOf, AskedOf, Bound, VolumeExists
<1>6. CASE snap[s].phase = "deleting"
  <2>1. /\ [t \in Snaps |-> snap[t].phase]' = [[t \in Snaps |-> snap[t].phase] EXCEPT ![s] = "released"]
        /\ UNCHANGED [t \in Snaps |-> SnapDataOf(t)]
        /\ UNCHANGED [t \in Snaps |-> snap[t].since]
        /\ [t \in Snaps |-> snap[t].phase][s] = "deleting"
    BY <1>0, <1>3, <1>4, <1>6
  <2>2. Contract!ReleaseSnapshot(s)
    BY <1>5, <2>1, ClaimsUnchanged DEF Contract!ReleaseSnapshot
  <2> QED
    BY <1>0, <2>2 DEF Seen, Contract!Next
<1>7. CASE snap[s].phase = "released"
  <2>1. SameSnaps
    BY <1>3, <1>4, <1>7 DEF SameSnaps
  <2> QED
    BY <1>5, <2>1, NothingSeen
<1> QED
  BY <1>1, <1>6, <1>7

LEMMA StepSeen ==
    ASSUME TypeInv, Known, OwnershipInv, ContentInv, Next
    PROVE  Seen
<1>1. ASSUME NEW n \in Names, Write(n) PROVE Seen
  BY <1>1, WriteSeen
<1>2. ASSUME NEW h \in Handlers, Reply(h) PROVE UNCHANGED <<claim, snap>> \/ Seen
  <2>1. CASE handler[h].live /\ handler[h].op \in {"CreateVolume", "DeleteVolume", "CreateSnapshot", "DeleteSnapshot"}
    BY <1>2, <2>1, BindSeen, MakeReadySeen, ReleaseSeen, ReleaseSnapshotSeen
  <2>2. CASE ~(handler[h].live /\ handler[h].op \in {"CreateVolume", "DeleteVolume", "CreateSnapshot", "DeleteSnapshot"})
    BY <1>2, <2>2 DEF Reply, Created, Snapped
  <2> QED
    BY <2>1, <2>2
<1>3. ASSUME UNCHANGED <<claim, snap>> PROVE Seen
  BY <1>1, <1>3, Unseen
<1>4. ASSUME NEW h \in Handlers, HandlerStep(h) PROVE Seen
  BY <1>2, <1>3, <1>4, StepClaims
<1>5. ASSUME Environment PROVE Seen
  BY <1>3, <1>5, EnvironmentContinues
<1> QED
  BY <1>4, <1>5, CallSeen DEF Next

LEMMA InitSeen == Init => Contract!Init
  BY SnapVolumes DEF Init, Contract!Init, DataOf, AskedOf, SnapDataOf, Bound

LEMMA StutterSeen ==
    ASSUME UNCHANGED vars
    PROVE  UNCHANGED Contract!cvars
<1>1. UNCHANGED <<volume, snapshot, claim, snap>>
  BY DEF vars, nsVars
<1>2. SameClaims /\ SameSnaps
  BY <1>1 DEF SameClaims, SameSnaps, DataOf, AskedOf, SnapDataOf, Bound, VolumeExists, SnapshotExists
<1> QED
  BY <1>2, ClaimsUnchanged, SnapsUnchanged DEF Contract!cvars

\* Whatever its handlers, appliances, retries, promotions, late calls and failures do,
\* the controller service shows the CO only what ProvisioningContract allows: a claim
\* is bound to what it asked for, and what a volume or a ready snapshot holds changes
\* by the application's writes alone.
THEOREM RefinesContract == Spec => ImplementsContract
<1>1. TypeInv /\ Known /\ OwnershipInv /\ ContentInv /\ [Next]_vars => [Contract!Next]_(Contract!cvars)
  BY StepSeen, StutterSeen DEF Seen
<1> QED
  BY <1>1, InitSeen, Holding, PTL DEF Spec, ImplementsContract, Contract!Spec

-----------------------------------------------------------------------------
(* What the invariant says of the properties the runs check.               *)

\* A snapshot reported ready is found under its id until its deletion, or that of its
\* volume, is asked for: no promotion, late deletion or crash moves or removes it.
THEOREM ReadySnapshotsStay == Spec => []ReadySnapshotsExist
<1>1. ASSUME TypeInv, ContentInv PROVE ReadySnapshotsExist
  <2>1. SUFFICES ASSUME NEW s \in Snaps, snap[s].phase = "ready", ~SnapshotExists(snap[s].id)
                 PROVE  claim[SnapClaim[s].volume].phase \in {"deleting", "released"}
    BY DEF ReadySnapshotsExist
  <2>2. claim[SnapClaim[s].volume].phase \notin {"unbound", "bound"}
    BY <1>1, <2>1, SnapRequests DEF ContentInv, ReadyStay, SourceBound
  <2>3. claim[SnapClaim[s].volume] \in ClaimStates
    BY <1>1, SnapVolumes DEF TypeInv, CoInv
  <2> QED
    BY <2>2, <2>3 DEF ClaimStates
<1> QED
  BY <1>1, Holding, PTL

=============================================================================
