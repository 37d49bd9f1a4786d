------------------------- MODULE ProvisioningProofs -------------------------
(***************************************************************************)
(* Proofs about Provisioning, for every number of appliances, claims,      *)
(* handlers, snapshots and faults.                                         *)
(***************************************************************************)
EXTENDS Provisioning, TLAPS

-----------------------------------------------------------------------------
(* The typing invariant: TypeOK, and what the fields of a record must be at *)
(* each step of an operation.  Both predicates are about one record and     *)
(* mention no variable.                                                    *)

SnapshotSteps == {"getSnapshot", "listSnapshots", "createSnapshot", "getCreated", "clone"}

CreateSteps == SnapshotSteps \cup {"resolve", "create", "getExisting", "reply"}

GoodHandler(r) ==
    /\ r.op = "none" => r.pc = "idle" /\ ~r.live
    /\ r.op = "CreateVolume" => r.pc \in CreateSteps
    /\ r.op = "DeleteVolume" => r.pc \in {"resolve", "getLuns", "destroyLuns", "reply"}
    /\ r.op = "CreateSnapshot" =>
         r.pc \in {"resolve", "listSnapshots", "createSnapshot", "getCreated", "reply"}
    /\ r.op = "DeleteSnapshot" => r.pc \in {"resolve", "destroySnapshot", "reply"}
    /\ r.op \in {"CreateVolume", "DeleteVolume"} => r.obj \in Names
    /\ r.op \in {"CreateSnapshot", "DeleteSnapshot"} => r.obj \in Snaps /\ r.snap \in SnapIds
    /\ r.op = "CreateVolume" =>
         /\ r.size \in Sizes
         /\ Claim[r.obj].source.kind # "none" => r.snap \in SnapIds
         /\ r.pc \in SnapshotSteps => r.snap \in SnapIds
         /\ r.pc # "resolve" => r.vol = [config |-> r.vol.config, name |-> r.obj] /\ r.vol \in VolIds
    /\ r.op = "DeleteVolume" => r.vol \in VolIds

GoodClaim(n, c) == c.phase # "unbound" => c.vol \in VolIds /\ c.vol.name = n

GoodSnap(s) == s.phase # "none" => s.id \in SnapIds

HandlerInv ==
    /\ handler \in [Handlers -> HandlerStates]
    /\ \A h \in Handlers : GoodHandler(handler[h])

CoInv ==
    /\ claim \in [Names -> ClaimStates] /\ \A n \in Names : GoodClaim(n, claim[n])
    /\ snap \in [Snaps -> SnapStates] /\ \A s \in Snaps : GoodSnap(snap[s])
    /\ late \subseteq Names

EnvInv == exported \subseteq Configs /\ faults \in Nat

TypeInv == NsTypeOK /\ HandlerInv /\ CoInv /\ EnvInv

\* A deletion, late or not, is of an object the CO has an id for.
Known ==
    \A h \in Handlers :
        /\ handler[h].op = "DeleteVolume" => claim[handler[h].obj].phase # "unbound"
        /\ handler[h].op = "DeleteSnapshot" => snap[handler[h].obj].phase # "none"

-----------------------------------------------------------------------------
(* The ownership invariant.                                                *)

\* The CO waits for one answer at a time about an object.
OneCallEach ==
    \A g, h \in Handlers :
        handler[g].live /\ handler[h].live /\ handler[g].obj = handler[h].obj => g = h

\* While the CO waits for CreateVolume the claim is unbound.
CreatesAreUnbound ==
    \A h \in Handlers :
        handler[h].op = "CreateVolume" /\ handler[h].live => claim[handler[h].obj].phase = "unbound"

\* DeleteVolume, late ones included, works on a volume whose deletion was asked for.
DeletesAreAsked ==
    \A h \in Handlers :
        handler[h].op = "DeleteVolume" =>
            /\ claim[handler[h].obj].phase \in {"deleting", "released"}
            /\ handler[h].vol = claim[handler[h].obj].vol

\* CreateVolume answers only about a volume that is there.
AnswersAreTrue ==
    \A h \in Handlers :
        handler[h].op = "CreateVolume" /\ handler[h].pc = "reply" /\ handler[h].live =>
            VolumeExists(handler[h].vol)

OwnershipInv ==
    /\ OneCallEach
    /\ CreatesAreUnbound
    /\ DeletesAreAsked
    /\ AnswersAreTrue
    /\ BoundVolumesExist

-----------------------------------------------------------------------------
(* Lemmas about the appliance: every call keeps its state well formed.     *)

LEMMA CreateVolumeType ==
    ASSUME NsTypeOK, NEW v \in VolIds, NEW size \in Sizes, NsCreateVolume(v, size)
    PROVE  NsTypeOK'
<1>1. [size |-> size, content |-> [root |-> v.name, writes |-> 0], origin |-> NoSnapshot] \in Volumes
  BY DEF VolIds, Volumes, Contents
<1> QED
  BY <1>1 DEF NsTypeOK, NsCreateVolume

LEMMA CloneSnapshotType ==
    ASSUME NsTypeOK, NEW v \in VolIds, NEW s \in SnapIds, SnapshotExists(s), NsCloneSnapshot(s, v)
    PROVE  NsTypeOK'
<1>1. snapshot[s] \in Snapshots
  BY DEF NsTypeOK, SnapshotExists
<1>2. [size |-> snapshot[s].size, content |-> snapshot[s].content, origin |-> s] \in Volumes
  BY <1>1 DEF Volumes, Snapshots
<1> QED
  BY <1>2 DEF NsTypeOK, NsCloneSnapshot

LEMMA CreateSnapshotType ==
    ASSUME NsTypeOK, NEW s \in SnapIds, VolumeExists(s.volume), NsCreateSnapshot(s)
    PROVE  NsTypeOK'
<1>1. volume[s.volume] \in Volumes
  BY DEF NsTypeOK, VolumeExists, SnapIds
<1>2. [content |-> volume[s.volume].content, size |-> volume[s.volume].size] \in Snapshots
  BY <1>1 DEF Volumes, Snapshots
<1> QED
  BY <1>2 DEF NsTypeOK, NsCreateSnapshot

LEMMA DestroySnapshotType ==
    ASSUME NsTypeOK, NEW s \in SnapIds, NsDestroySnapshot(s)
    PROVE  NsTypeOK'
  BY DEF NsTypeOK, NsDestroySnapshot

LEMMA LunType ==
    ASSUME NsTypeOK, NEW m \in Mappings, NsCreateLunMapping(m) \/ NsDestroyLunMapping(m)
    PROVE  NsTypeOK'
  BY DEF NsTypeOK, NsCreateLunMapping, NsDestroyLunMapping

LEMMA WriteType ==
    ASSUME NsTypeOK, NEW v \in VolIds, VolumeExists(v), NsWrite(v)
    PROVE  NsTypeOK'
<1>1. volume[v] \in Volumes
  BY DEF NsTypeOK, VolumeExists
<1>2. [volume[v] EXCEPT !.content.writes = @ + 1] \in Volumes
  BY <1>1 DEF Volumes, Contents
<1> QED
  BY <1>2 DEF NsTypeOK, NsWrite

\* The clones survive: promoting one of them moves what they depend on.
LEMMA DestroyVolumeType ==
    ASSUME NsTypeOK, NEW v \in VolIds, VolumeExists(v), NsDestroyVolume(v)
    PROVE  NsTypeOK' /\ \A x \in VolIds \ {v} : VolumeExists(x) => VolumeExists(x)'
<1>1. CASE NsDestroyAlone(v)
  BY <1>1 DEF NsTypeOK, NsDestroyAlone, VolumeExists
<1>2. CASE \E w \in VolIds, moved \in SUBSET SnapshotsOf(v) : NsPromoteAndDestroy(v, w, moved)
  <2>1. PICK w \in VolIds, moved \in SUBSET SnapshotsOf(v) : NsPromoteAndDestroy(v, w, moved)
    BY <1>2
  <2>2. VolumeExists(w)
    BY <2>1 DEF NsPromoteAndDestroy, Clones
  <2>3. volume[v] \in Volumes /\ volume[w] \in Volumes
    BY <2>2 DEF NsTypeOK, VolumeExists
  <2>4. [volume[w] EXCEPT !.origin = volume[v].origin] \in Volumes
    BY <2>3 DEF Volumes
  <2>5. \A s \in SnapIds : OwnedBy(s, w) \in SnapIds /\ OwnedBy(s, v) \in SnapIds
    BY DEF OwnedBy, SnapIds
  <2>6. ASSUME NEW x \in VolIds, VolumeExists(x), volume[x].origin \in moved
        PROVE  [volume[x] EXCEPT !.origin = OwnedBy(@, w)] \in Volumes
    <3>1. volume[x] \in Volumes /\ volume[x].origin \in SnapIds
      BY <2>6 DEF NsTypeOK, VolumeExists, SnapshotsOf
    <3> QED
      BY <3>1, <2>5 DEF Volumes
  <2>7. volume' \in [VolIds -> Volumes \cup {Absent}]
    BY <2>1, <2>4, <2>6 DEF NsPromoteAndDestroy, NsTypeOK
  <2>8. snapshot' \in [SnapIds -> Snapshots \cup {Absent}]
    BY <2>1, <2>5 DEF NsPromoteAndDestroy, NsTypeOK
  <2>9. ASSUME NEW x \in VolIds \ {v}, VolumeExists(x) PROVE VolumeExists(x)'
    <3>1. volume'[x] \in Volumes
      BY <2>1, <2>4, <2>6, <2>9 DEF NsPromoteAndDestroy, NsTypeOK, VolumeExists
    <3> QED
      BY <3>1, AbsentAssumption DEF VolumeExists
  <2> QED
    BY <2>1, <2>7, <2>8, <2>9 DEF NsPromoteAndDestroy, NsTypeOK
<1> QED
  BY <1>1, <1>2 DEF NsDestroyVolume
-----------------------------------------------------------------------------
(* Lemmas about the handlers' records.                                     *)

LEMMA IdleType == Idle \in HandlerStates /\ GoodHandler(Idle)
  BY DEF Idle, HandlerStates, GoodHandler, Ops, Steps

LEMMA SetHandler ==
    ASSUME HandlerInv, NEW h \in Handlers, NEW r \in HandlerStates, GoodHandler(r),
           handler' = [handler EXCEPT ![h] = r]
    PROVE  HandlerInv'
  BY DEF HandlerInv

LEMMA ErrorType ==
    ASSUME HandlerInv, NEW h \in Handlers, ReturnError(h)
    PROVE  HandlerInv'
  BY IdleType, SetHandler DEF ReturnError

LEMMA CrashType ==
    ASSUME CrashAll
    PROVE  HandlerInv'
  BY IdleType DEF HandlerInv, CrashAll

\* A step to pc needs the record to fit pc, which is one of op's steps.
LEMMA GotoType ==
    ASSUME HandlerInv, NEW h \in Handlers, NEW pc \in Steps, Goto(h, pc),
           GoodHandler([handler[h] EXCEPT !.pc = pc])
    PROVE  HandlerInv'
<1>1. [handler[h] EXCEPT !.pc = pc] \in HandlerStates
  BY DEF HandlerInv, HandlerStates
<1>2. handler' = [handler EXCEPT ![h] = [handler[h] EXCEPT !.pc = pc]]
  BY DEF Goto
<1> QED
  BY <1>1, <1>2, SetHandler

\* A new call: its record fits "resolve".
LEMMA StartType ==
    ASSUME HandlerInv, NEW h \in Handlers, NEW op \in Ops \ {"none"}, NEW obj \in Names \cup Snaps,
           NEW vol \in VolIds \cup {NoVolume}, NEW id \in SnapIds \cup {NoSnapshot},
           NEW size \in Sizes \cup {0}, Start(h, op, obj, vol, id, size),
           op \in {"CreateVolume", "DeleteVolume"} => obj \in Names,
           op \in {"CreateSnapshot", "DeleteSnapshot"} => obj \in Snaps /\ id \in SnapIds,
           op = "CreateVolume" =>
             size \in Sizes /\ (Claim[obj].source.kind # "none" => id \in SnapIds),
           op = "DeleteVolume" => vol \in VolIds
    PROVE  HandlerInv'
<1> DEFINE r == [op |-> op, pc |-> "resolve", obj |-> obj, vol |-> vol, snap |-> id,
                 size |-> size, luns |-> {}, live |-> TRUE]
<1>1. r \in HandlerStates
  BY DEF HandlerStates, Steps, Ops
<1>2. GoodHandler(r)
  BY DEF GoodHandler, CreateSteps, SnapshotSteps, Ops
<1>3. handler' = [handler EXCEPT ![h] = r]
  BY DEF Start
<1> QED
  BY <1>1, <1>2, <1>3, SetHandler

\* What the source of a claim that may be provisioned looks like.
LEMMA SourceType ==
    ASSUME TypeInv, NEW n \in Names, SourceReady(n)
    PROVE  /\ SourceSnapshot(n) \in SnapIds \cup {NoSnapshot}
           /\ Claim[n].source.kind # "none" => SourceSnapshot(n) \in SnapIds
           /\ SourceContent(n) \in Contents \cup {NoContent}
<1>0. Claim[n].source \in Sources
  BY ClaimAssumption DEF ClaimTypes
<1>1. CASE Claim[n].source.kind = "none"
  BY <1>1 DEF SourceSnapshot, SourceContent
<1>2. CASE Claim[n].source.kind = "volume"
  <2> DEFINE m == Claim[n].source.of
  <2>1. m \in Names /\ claim[m].vol \in VolIds
    BY <1>0, <1>2 DEF Sources, SourceReady, TypeInv, CoInv, GoodClaim
  <2>2. [volume |-> claim[m].vol, tag |-> CloneTag(n)] \in SnapIds
    BY <2>1 DEF SnapIds, Tags, CloneTag
  <2>3. SourceSnapshot(n) = [volume |-> claim[m].vol, tag |-> CloneTag(n)]
    BY <1>2 DEF SourceSnapshot
  <2>4. VolumeExists(claim[m].vol) => volume[claim[m].vol].content \in Contents
    BY <2>1 DEF VolumeExists, TypeInv, NsTypeOK, Volumes
  <2> QED
    BY <1>2, <2>2, <2>3, <2>4 DEF SourceContent
<1>3. CASE Claim[n].source.kind = "snapshot"
  <2> DEFINE s == Claim[n].source.of
  <2>1. s \in Snaps /\ snap[s].id \in SnapIds
    BY <1>0, <1>3 DEF Sources, SourceReady, TypeInv, CoInv, GoodSnap
  <2>2. SnapshotExists(snap[s].id) => snapshot[snap[s].id].content \in Contents
    BY <2>1 DEF SnapshotExists, TypeInv, NsTypeOK, Snapshots
  <2> QED
    BY <1>3, <2>1, <2>2 DEF SourceSnapshot, SourceContent
<1> QED
  BY <1>0, <1>1, <1>2, <1>3 DEF Sources

-----------------------------------------------------------------------------
(* Each action keeps TypeInv.                                              *)

\* A handler's step leaves the CO's records and the environment alone.
LEMMA HandlerFrame ==
    ASSUME TypeInv, HandlerInv', NsTypeOK', UNCHANGED <<coVars, envVars>>
    PROVE  TypeInv'
  BY DEF TypeInv, CoInv, EnvInv, coVars, envVars

LEMMA QuietFrame ==
    ASSUME TypeInv, HandlerInv', UNCHANGED <<nsVars, coVars, envVars>>
    PROVE  TypeInv'
  BY HandlerFrame DEF TypeInv, NsTypeOK, nsVars

LEMMA CallsType ==
    ASSUME TypeInv, NEW h \in Handlers, Calls(h)
    PROVE  TypeInv'
<1> USE DEF TypeInv
<1>1. ASSUME NEW n \in Names, CallDeleteVolume(h, n) PROVE TypeInv'
  <2>1. claim[n] \in ClaimStates /\ claim[n].vol \in VolIds /\ claim[n].vol.name = n
    BY <1>1 DEF CallDeleteVolume, CoInv, GoodClaim
  <2>2. HandlerInv'
    <3>1. Start(h, "DeleteVolume", n, claim[n].vol, NoSnapshot, 0)
      BY <1>1 DEF CallDeleteVolume
    <3> QED
      BY <2>1, <3>1, StartType DEF Ops
  <2>3. CoInv'
    BY <1>1, <2>1 DEF CallDeleteVolume, CoInv, ClaimStates, GoodClaim
  <2> QED
    BY <1>1, <2>2, <2>3 DEF CallDeleteVolume, EnvInv, envVars, nsVars, NsTypeOK
<1>2. ASSUME NEW n \in Names, NEW size \in Sizes, CallCreateVolume(h, n, size) PROVE TypeInv'
  <2>1. SourceReady(n) /\ Start(h, "CreateVolume", n, NoVolume, SourceSnapshot(n), size)
    BY <1>2 DEF CallCreateVolume
  <2>2. HandlerInv'
    BY <2>1, SourceType, StartType DEF Ops
  <2>3. CoInv'
    <3>1. SourceContent(n) \in Contents \cup {NoContent}
      BY <2>1, SourceType
    <3> QED
      BY <1>2, <3>1 DEF CallCreateVolume, CoInv, ClaimStates, GoodClaim
  <2> QED
    BY <1>2, <2>2, <2>3 DEF CallCreateVolume, EnvInv, envVars, nsVars, NsTypeOK
<1>3. ASSUME NEW s \in Snaps, CallCreateSnapshot(h, s) PROVE TypeInv'
  <2> DEFINE of == claim[SnapClaim[s].volume]
             id == [volume |-> of.vol, tag |-> UserTag(SnapClaim[s].tag)]
  <2>1. of.vol \in VolIds /\ SnapClaim[s].tag \in UserTags
    BY <1>3, SnapClaimAssumption DEF CallCreateSnapshot, CoInv, GoodClaim
  <2>2. id \in SnapIds
    BY <2>1 DEF SnapIds, Tags, UserTag
  <2>3. HandlerInv'
    <3>1. Start(h, "CreateSnapshot", s, NoVolume, id, 0)
      BY <1>3 DEF CallCreateSnapshot
    <3> QED
      BY <2>2, <3>1, StartType DEF Ops
  <2>4. CoInv'
    <3>1. VolumeExists(of.vol) => volume[of.vol].content \in Contents
      BY <2>1 DEF VolumeExists, NsTypeOK, Volumes
    <3> DEFINE since == IF snap[s].since = NoContent /\ VolumeExists(of.vol)
                        THEN volume[of.vol].content ELSE snap[s].since
    <3>2. /\ snap' = [snap EXCEPT ![s] = [snap[s] EXCEPT !.since = since]]
          /\ UNCHANGED <<claim, late>>
      BY <1>3 DEF CallCreateSnapshot
    <3>3. snap[s] \in SnapStates /\ since \in Contents \cup {NoContent}
      BY <3>1 DEF CoInv, SnapStates
    <3> HIDE DEF since
    <3>4. /\ [snap[s] EXCEPT !.since = since] \in SnapStates
          /\ GoodSnap(snap[s]) => GoodSnap([snap[s] EXCEPT !.since = since])
      BY <3>3 DEF SnapStates, GoodSnap
    <3> QED
      BY <3>2, <3>4 DEF CoInv
  <2> QED
    BY <1>3, <2>3, <2>4 DEF CallCreateSnapshot, EnvInv, envVars, nsVars, NsTypeOK
<1>4. ASSUME NEW s \in Snaps, CallDeleteSnapshot(h, s) PROVE TypeInv'
  <2>1. snap[s] \in SnapStates /\ snap[s].id \in SnapIds
    BY <1>4 DEF CallDeleteSnapshot, CoInv, GoodSnap
  <2>2. HandlerInv'
    <3>1. Start(h, "DeleteSnapshot", s, NoVolume, snap[s].id, 0)
      BY <1>4 DEF CallDeleteSnapshot
    <3> QED
      BY <2>1, <3>1, StartType DEF Ops
  <2>3. CoInv'
    BY <1>4, <2>1 DEF CallDeleteSnapshot, CoInv, SnapStates, GoodSnap
  <2> QED
    BY <1>4, <2>2, <2>3 DEF CallDeleteSnapshot, EnvInv, envVars, nsVars, NsTypeOK
<1> QED
  BY <1>1, <1>2, <1>3, <1>4 DEF Calls

\* The record of h is well formed, and a well-formed id names its volume.
LEMMA RecordType ==
    ASSUME TypeInv, NEW h \in Handlers
    PROVE  /\ handler[h] \in HandlerStates /\ GoodHandler(handler[h])
           /\ handler[h].snap \in SnapIds => handler[h].snap.volume \in VolIds
  BY DEF TypeInv, HandlerInv, SnapIds

LEMMA ResolveType ==
    ASSUME TypeInv, NEW h \in Handlers,
           Resolve(h) \/ ResolveNotFound(h) \/ ResolveWrongZone(h) \/ ResolvePanics(h)
    PROVE  TypeInv'
<1>0. handler[h] \in HandlerStates /\ GoodHandler(handler[h]) /\ HandlerInv
  BY RecordType DEF TypeInv
<1>1. CASE Resolve(h)
  <2>1. PICK c \in Candidates(h) \ exported :
          handler' = [handler EXCEPT
            ![h].pc  = AfterResolve(h),
            ![h].vol = IF handler[h].op = "CreateVolume"
                       THEN [config |-> c, name |-> handler[h].obj] ELSE @]
    BY <1>1 DEF Resolve
  <2> DEFINE v == IF handler[h].op = "CreateVolume"
                  THEN [config |-> c, name |-> handler[h].obj] ELSE handler[h].vol
             r == [handler[h] EXCEPT !.pc = AfterResolve(h), !.vol = v]
  <2>2. handler[h].pc = "resolve" /\ handler[h].op \in Ops \ {"none"}
    BY <1>0, <1>1 DEF Resolve, HandlerStates, GoodHandler
  <2>3. handler[h].op = "CreateVolume" =>
          v = [config |-> v.config, name |-> handler[h].obj] /\ v \in VolIds
    BY <1>0, <2>1 DEF Candidates, GoodHandler, VolIds
  <2>4. handler[h].op = "CreateVolume" => Claim[handler[h].obj].source.kind \in {"none", "volume", "snapshot"}
    BY <1>0, ClaimAssumption DEF GoodHandler, ClaimTypes, Sources
  <2>5. AfterResolve(h) \in Steps
    BY <2>2, <2>4 DEF AfterResolve, Steps, Ops
  <2>6. r \in HandlerStates
    BY <1>0, <2>3, <2>5 DEF HandlerStates
  <2>7. GoodHandler(r)
    <3>1. CASE handler[h].op = "CreateVolume"
      BY <1>0, <2>3, <2>4, <3>1 DEF HandlerStates, GoodHandler, AfterResolve, CreateSteps, SnapshotSteps
    <3>2. CASE handler[h].op # "CreateVolume"
      BY <1>0, <2>2, <3>2 DEF HandlerStates, GoodHandler, AfterResolve, Ops
    <3> QED
      BY <3>1, <3>2
  <2>8. handler' = [handler EXCEPT ![h] = r]
    BY <2>1
  <2> QED
    BY <1>0, <1>1, <2>6, <2>7, <2>8, SetHandler, QuietFrame DEF Resolve
<1>2. CASE ResolveNotFound(h)
  <2>1. CASE handler[h].op \in {"DeleteVolume", "DeleteSnapshot"}
    <3>1. GoodHandler([handler[h] EXCEPT !.pc = "reply"])
      BY <1>0, <2>1 DEF GoodHandler, HandlerStates
    <3> QED
      BY <1>0, <1>2, <2>1, <3>1, GotoType, QuietFrame DEF ResolveNotFound, Steps
  <2>2. CASE handler[h].op \notin {"DeleteVolume", "DeleteSnapshot"}
    BY <1>0, <1>2, <2>2, ErrorType, QuietFrame DEF ResolveNotFound
  <2> QED
    BY <2>1, <2>2
<1>3. CASE ResolveWrongZone(h)
  BY <1>0, <1>3, ErrorType, QuietFrame DEF ResolveWrongZone
<1>4. CASE ResolvePanics(h)
  BY <1>4, CrashType, QuietFrame DEF ResolvePanics
<1> QED
  BY <1>1, <1>2, <1>3, <1>4

LEMMA CreateStepsType ==
    ASSUME TypeInv, NEW h \in Handlers,
           CreateNew(h) \/ GetExisting(h) \/ GetSnapshot(h) \/ Clone(h)
    PROVE  TypeInv'
<1> DEFINE v == handler[h].vol  s == handler[h].snap
<1>0. handler[h] \in HandlerStates /\ GoodHandler(handler[h]) /\ HandlerInv /\ NsTypeOK
  BY RecordType DEF TypeInv
\* CreateVolume's handlers may go to any of its steps the snapshot fits.
<1>1. ASSUME handler[h].op = "CreateVolume", handler[h].pc # "resolve",
             NEW pc \in CreateSteps, pc \in SnapshotSteps => s \in SnapIds, Goto(h, pc)
      PROVE  HandlerInv'
  <2>1. GoodHandler([handler[h] EXCEPT !.pc = pc])
    BY <1>0, <1>1 DEF GoodHandler, HandlerStates
  <2> QED
    BY <1>0, <1>1, <2>1, GotoType DEF CreateSteps, SnapshotSteps, Steps
<1>2. ASSUME ReturnError(h) PROVE HandlerInv'
  BY <1>0, <1>2, ErrorType
<1>3. CASE CreateNew(h)
  <2>1. At(h, "CreateVolume", "create") /\ v \in VolIds /\ handler[h].size \in Sizes
    BY <1>0, <1>3 DEF CreateNew, At, GoodHandler
  <2>2. HandlerInv'
    BY <1>1, <1>2, <1>3, <2>1 DEF CreateNew, At, CreateSteps, SnapshotSteps
  <2>3. NsTypeOK'
    BY <1>0, <1>3, <2>1, CreateVolumeType DEF CreateNew, nsVars, NsTypeOK
  <2> QED
    BY <1>3, <2>2, <2>3, HandlerFrame DEF CreateNew
<1>4. CASE GetExisting(h)
  <2>1. HandlerInv'
    BY <1>1, <1>2, <1>4 DEF GetExisting, At, CreateSteps, SnapshotSteps
  <2> QED
    BY <1>4, <2>1, QuietFrame DEF GetExisting
<1>5. CASE GetSnapshot(h)
  <2>1. s \in SnapIds
    BY <1>0, <1>5 DEF GetSnapshot, At, GoodHandler, SnapshotSteps
  <2>2. HandlerInv'
    BY <1>1, <1>2, <1>5, <2>1 DEF GetSnapshot, At, CreateSteps, SnapshotSteps
  <2> QED
    BY <1>5, <2>2, QuietFrame DEF GetSnapshot
<1>6. CASE Clone(h)
  <2>1. At(h, "CreateVolume", "clone") /\ v \in VolIds /\ s \in SnapIds
    BY <1>0, <1>6 DEF Clone, At, GoodHandler, SnapshotSteps
  <2>2. HandlerInv'
    BY <1>1, <1>2, <1>6, <2>1 DEF Clone, At, CreateSteps, SnapshotSteps
  <2>3. NsTypeOK'
    BY <1>0, <1>6, <2>1, CloneSnapshotType DEF Clone, SnapshotVisible, nsVars, NsTypeOK
  <2> QED
    BY <1>6, <2>2, <2>3, HandlerFrame DEF Clone
<1> QED
  BY <1>3, <1>4, <1>5, <1>6

LEMMA SnapshotStepsType ==
    ASSUME TypeInv, NEW h \in Handlers,
           ListSnapshots(h) \/ CreateSnapshotOnNS(h) \/ GetCreated(h)
    PROVE  TypeInv'
<1> DEFINE s == handler[h].snap
<1>0. handler[h] \in HandlerStates /\ GoodHandler(handler[h]) /\ HandlerInv /\ NsTypeOK
  BY RecordType DEF TypeInv
<1>1. handler[h].pc \in {"listSnapshots", "createSnapshot", "getCreated"} /\ s \in SnapIds
  BY <1>0 DEF ListSnapshots, CreateSnapshotOnNS, GetCreated, GoodHandler, SnapshotSteps, HandlerStates, Ops
<1>2. handler[h].op \in {"CreateVolume", "CreateSnapshot"}
  BY <1>0, <1>1 DEF GoodHandler, HandlerStates, Ops
<1>3. ASSUME NEW pc \in {"createSnapshot", "getCreated", "clone", "reply"},
             handler[h].op = "CreateSnapshot" => pc # "clone", Goto(h, pc)
      PROVE  HandlerInv'
  <2>1. GoodHandler([handler[h] EXCEPT !.pc = pc])
    BY <1>0, <1>1, <1>2, <1>3 DEF GoodHandler, HandlerStates, CreateSteps, SnapshotSteps
  <2> QED
    BY <1>0, <1>3, <2>1, GotoType DEF Steps
<1>4. ASSUME ReturnError(h) PROVE HandlerInv'
  BY <1>0, <1>4, ErrorType
<1>5. CASE ListSnapshots(h)
  BY <1>3, <1>4, <1>5, QuietFrame DEF ListSnapshots
<1>6. CASE CreateSnapshotOnNS(h)
  <2>1. HandlerInv'
    BY <1>3, <1>4, <1>6 DEF CreateSnapshotOnNS
  <2>2. NsTypeOK'
    BY <1>0, <1>1, <1>6, CreateSnapshotType DEF CreateSnapshotOnNS, Visible, nsVars, NsTypeOK
  <2> QED
    BY <1>6, <2>1, <2>2, HandlerFrame DEF CreateSnapshotOnNS
<1>7. CASE GetCreated(h)
  BY <1>2, <1>3, <1>4, <1>7, QuietFrame DEF GetCreated
<1> QED
  BY <1>5, <1>6, <1>7

LEMMA DeleteStepsType ==
    ASSUME TypeInv, NEW h \in Handlers,
           GetLuns(h) \/ DestroyLun(h) \/ DestroyVolume(h) \/ DestroySnapshot(h)
    PROVE  TypeInv'
<1> DEFINE v == handler[h].vol  s == handler[h].snap
<1>0. handler[h] \in HandlerStates /\ GoodHandler(handler[h]) /\ HandlerInv /\ NsTypeOK
  BY RecordType DEF TypeInv
<1>1. ASSUME handler[h].op \in {"DeleteVolume", "DeleteSnapshot"}, Goto(h, "reply") PROVE HandlerInv'
  <2>1. GoodHandler([handler[h] EXCEPT !.pc = "reply"])
    BY <1>0, <1>1 DEF GoodHandler, HandlerStates
  <2> QED
    BY <1>0, <1>1, <2>1, GotoType DEF Steps
<1>2. ASSUME ReturnError(h) PROVE HandlerInv'
  BY <1>0, <1>2, ErrorType
<1>3. CASE GetLuns(h)
  <2> DEFINE r == [handler[h] EXCEPT !.pc = "destroyLuns", !.luns = Mapped(v)]
  <2>1. Mapped(v) \in SUBSET Mappings
    BY <1>0 DEF Mapped, NsTypeOK
  <2>2. r \in HandlerStates
    BY <1>0, <2>1 DEF HandlerStates, Steps
  <2>3. GoodHandler(r)
    BY <1>0, <1>3 DEF GetLuns, At, GoodHandler, HandlerStates
  <2>4. handler' = [handler EXCEPT ![h] = r]
    BY <1>3 DEF GetLuns
  <2> QED
    BY <1>0, <1>3, <2>2, <2>3, <2>4, SetHandler, QuietFrame DEF GetLuns
<1>4. CASE DestroyLun(h)
  <2>1. PICK m \in handler[h].luns :
          IF m \in lun
          THEN NsDestroyLunMapping(m) /\ handler' = [handler EXCEPT ![h].luns = @ \ {m}]
          ELSE ReturnError(h) /\ UNCHANGED nsVars
    BY <1>4 DEF DestroyLun
  <2> DEFINE r == [handler[h] EXCEPT !.luns = handler[h].luns \ {m}]
  <2>2. m \in Mappings /\ r \in HandlerStates
    BY <1>0 DEF HandlerStates
  <2>3. GoodHandler(r)
    BY <1>0 DEF GoodHandler, HandlerStates
  <2>4. HandlerInv'
    <3>1. m \in lun => handler' = [handler EXCEPT ![h] = r]
      BY <2>1
    <3> QED
      BY <1>0, <1>2, <2>1, <2>2, <2>3, <3>1, SetHandler
  <2>5. NsTypeOK'
    BY <1>0, <2>1, <2>2, LunType DEF nsVars, NsTypeOK
  <2> QED
    BY <1>4, <2>4, <2>5, HandlerFrame DEF DestroyLun
<1>5. CASE DestroyVolume(h)
  <2>1. handler[h].op = "DeleteVolume" /\ v \in VolIds
    BY <1>0, <1>5 DEF DestroyVolume, At, GoodHandler
  <2>2. HandlerInv'
    BY <1>1, <1>2, <1>5, <2>1 DEF DestroyVolume
  <2>3. NsTypeOK'
    BY <1>0, <1>5, <2>1, DestroyVolumeType DEF DestroyVolume, Visible, nsVars, NsTypeOK
  <2> QED
    BY <1>5, <2>2, <2>3, HandlerFrame DEF DestroyVolume
<1>6. CASE DestroySnapshot(h)
  <2>1. handler[h].op = "DeleteSnapshot" /\ s \in SnapIds
    BY <1>0, <1>6 DEF DestroySnapshot, At, GoodHandler
  <2>2. HandlerInv'
    BY <1>1, <1>2, <1>6, <2>1 DEF DestroySnapshot
  <2>3. NsTypeOK'
    BY <1>0, <1>6, <2>1, DestroySnapshotType DEF DestroySnapshot, nsVars, NsTypeOK
  <2> QED
    BY <1>6, <2>2, <2>3, HandlerFrame DEF DestroySnapshot
<1> QED
  BY <1>3, <1>4, <1>5, <1>6

LEMMA ReplyType ==
    ASSUME TypeInv, Known, NEW h \in Handlers, Reply(h)
    PROVE  TypeInv'
<1>0. handler[h] \in HandlerStates /\ GoodHandler(handler[h]) /\ HandlerInv /\ CoInv
  BY RecordType DEF TypeInv
<1>1. HandlerInv'
  BY <1>0, ErrorType DEF Reply, ReturnError
<1>2. handler[h].op = "CreateVolume" =>
        /\ handler[h].obj \in Names /\ handler[h].size \in Sizes
        /\ handler[h].vol \in VolIds /\ handler[h].vol.name = handler[h].obj
  BY <1>0 DEF Reply, GoodHandler
<1>3. claim' \in [Names -> ClaimStates] /\ \A n \in Names : GoodClaim(n, claim'[n])
  <2>1. CASE handler[h].op = "CreateVolume" /\ handler[h].live
    BY <1>0, <1>2, <2>1 DEF Reply, Created, CoInv, ClaimStates, GoodClaim
  <2>2. CASE handler[h].op = "DeleteVolume" /\ handler[h].live
    <3> DEFINE n == handler[h].obj
    <3>1. n \in Names /\ claim' = [claim EXCEPT ![n].phase = "released"]
      BY <1>0, <2>2 DEF Reply, Created, GoodHandler
    <3>2. claim[n].vol \in VolIds /\ claim[n].vol.name = n
      BY <1>0, <2>2, <3>1 DEF Known, CoInv, GoodClaim
    <3> QED
      BY <1>0, <3>1, <3>2 DEF CoInv, ClaimStates, GoodClaim
  <2> QED
    BY <1>0, <2>1, <2>2 DEF Reply, Created, CoInv
<1>4. snap' \in [Snaps -> SnapStates] /\ \A s \in Snaps : GoodSnap(snap'[s])
  <2>1. CASE handler[h].op = "CreateSnapshot" /\ handler[h].live
    BY <1>0, <2>1 DEF Reply, Snapped, CoInv, SnapStates, GoodSnap, GoodHandler
  <2>2. CASE handler[h].op = "DeleteSnapshot" /\ handler[h].live
    <3> DEFINE s == handler[h].obj
    <3>1. s \in Snaps /\ snap' = [snap EXCEPT ![s].phase = "released"]
      BY <1>0, <2>2 DEF Reply, Snapped, GoodHandler
    <3>2. snap[s].id \in SnapIds
      BY <1>0, <2>2, <3>1 DEF Known, CoInv, GoodSnap
    <3> QED
      BY <1>0, <3>1, <3>2 DEF CoInv, SnapStates, GoodSnap
  <2> QED
    BY <1>0, <2>1, <2>2 DEF Reply, Snapped, CoInv
<1> QED
  BY <1>1, <1>3, <1>4 DEF Reply, TypeInv, CoInv, EnvInv, envVars, nsVars, NsTypeOK

LEMMA EnvironmentType ==
    ASSUME TypeInv, Environment
    PROVE  TypeInv'
<1> USE DEF TypeInv
<1>1. ASSUME NEW n \in Names, NEW host \in Hosts, NodeMaps(n, host) \/ NodeUnmaps(n, host)
      PROVE  TypeInv'
  <2> DEFINE m == [volume |-> claim[n].vol, host |-> host]
  <2>1. m \in Mappings
    BY <1>1 DEF NodeMaps, NodeUnmaps, CoInv, GoodClaim, Mappings
  <2>2. NsTypeOK'
    BY <1>1, <2>1, LunType DEF NodeMaps, NodeUnmaps
  <2>3. EnvInv'
    BY <1>1 DEF NodeMaps, NodeUnmaps, EnvInv
  <2> QED
    BY <1>1, <2>2, <2>3 DEF NodeMaps, NodeUnmaps, HandlerInv, CoInv, coVars
<1>2. ASSUME NEW n \in Names, Write(n) PROVE TypeInv'
  <2>1. claim[n].vol \in VolIds /\ VolumeExists(claim[n].vol)
    BY <1>2 DEF Write, CoInv, GoodClaim, Visible
  <2>2. NsTypeOK'
    BY <1>2, <2>1, WriteType DEF Write
  <2> QED
    BY <1>2, <2>2 DEF Write, HandlerInv, CoInv, EnvInv, coVars, envVars
<1>3. ASSUME NEW h \in Handlers, Fail(h) PROVE TypeInv'
  <2>1. HandlerInv'
    BY <1>3, ErrorType DEF Fail
  <2> QED
    BY <1>3, <2>1 DEF Fail, Fault, CoInv, EnvInv, coVars, nsVars, NsTypeOK
<1>4. ASSUME NEW h \in Handlers, AbandonCall(h) PROVE TypeInv'
  <2>0. handler[h] \in HandlerStates /\ GoodHandler(handler[h])
    BY RecordType
  <2> DEFINE r == [handler[h] EXCEPT !.live = FALSE]
  <2>1. r \in HandlerStates /\ handler' = [handler EXCEPT ![h] = r]
    BY <1>4, <2>0 DEF AbandonCall, HandlerStates
  <2>2. GoodHandler(r)
    BY <2>0 DEF GoodHandler, HandlerStates
  <2>3. HandlerInv'
    BY <2>1, <2>2, SetHandler
  <2>4. late' \subseteq Names
    BY <1>4, <2>0 DEF AbandonCall, GoodHandler, CoInv
  <2> QED
    BY <1>4, <2>3, <2>4 DEF AbandonCall, Fault, CoInv, EnvInv, nsVars, NsTypeOK
<1>5. CASE Crash
  BY <1>5, CrashType DEF Crash, Fault, CoInv, EnvInv, coVars, nsVars, NsTypeOK
<1>6. ASSUME NEW c \in Configs, PoolExport(c) \/ PoolImport(c) PROVE TypeInv'
  BY <1>6 DEF PoolExport, PoolImport, Fault, HandlerInv, CoInv, EnvInv, coVars, nsVars, NsTypeOK
<1> QED
  BY <1>1, <1>2, <1>3, <1>4, <1>5, <1>6 DEF Environment

-----------------------------------------------------------------------------
(* What steps do to handlers and to claims.                                *)

\* Handler g ends, or is still the same call on the same object; it is waited
\* for only if it was; no step but a call's first chooses a snapshot, and only
\* CreateVolume's resolveNS a volume.
Continues(g) ==
    \/ handler'[g] = Idle
    \/ /\ handler'[g].op = handler[g].op
       /\ handler'[g].obj = handler[g].obj
       /\ handler'[g].live => handler[g].live
       /\ handler'[g].snap = handler[g].snap
       /\ handler[g].op # "CreateVolume" => handler'[g].vol = handler[g].vol

LEMMA ErrorContinues ==
    ASSUME HandlerInv, NEW h \in Handlers, ReturnError(h)
    PROVE  \A g \in Handlers : Continues(g)
  BY DEF HandlerInv, ReturnError, Continues

LEMMA GotoContinues ==
    ASSUME HandlerInv, NEW h \in Handlers, NEW pc \in Steps, Goto(h, pc)
    PROVE  \A g \in Handlers : Continues(g)
  BY DEF HandlerInv, HandlerStates, Goto, Continues

LEMMA StepContinues ==
    ASSUME TypeInv, NEW h \in Handlers, HandlerStep(h)
    PROVE  \A g \in Handlers : Continues(g)
<1>0. HandlerInv /\ handler[h] \in HandlerStates
  BY RecordType DEF TypeInv
<1>1. CASE Resolve(h)
  BY <1>0, <1>1 DEF Resolve, Continues, HandlerInv, HandlerStates
<1>2. CASE ResolveNotFound(h) \/ ResolveWrongZone(h)
  BY <1>0, <1>2, ErrorContinues, GotoContinues DEF ResolveNotFound, ResolveWrongZone, Steps
<1>3. CASE ResolvePanics(h)
  BY <1>3 DEF ResolvePanics, CrashAll, Continues
<1>4. CASE CreateNew(h) \/ GetExisting(h) \/ GetSnapshot(h) \/ Clone(h)
  BY <1>0, <1>4, ErrorContinues, GotoContinues DEF CreateNew, GetExisting, GetSnapshot, Clone, Steps
<1>5. CASE ListSnapshots(h) \/ CreateSnapshotOnNS(h) \/ GetCreated(h)
  BY <1>0, <1>5, ErrorContinues, GotoContinues DEF ListSnapshots, CreateSnapshotOnNS, GetCreated, Steps
<1>6. CASE GetLuns(h)
  BY <1>0, <1>6 DEF GetLuns, Continues, HandlerInv, HandlerStates
<1>7. CASE DestroyLun(h)
  <2>1. CASE ReturnError(h)
    BY <1>0, <2>1, ErrorContinues
  <2>2. CASE \E m \in handler[h].luns : handler' = [handler EXCEPT ![h].luns = @ \ {m}]
    BY <1>0, <2>2 DEF Continues, HandlerInv, HandlerStates
  <2> QED
    BY <1>7, <2>1, <2>2 DEF DestroyLun
<1>8. CASE DestroyVolume(h) \/ DestroySnapshot(h)
  BY <1>0, <1>8, ErrorContinues, GotoContinues DEF DestroyVolume, DestroySnapshot, Steps
<1>9. CASE Reply(h)
  BY <1>0, <1>9, ErrorContinues DEF Reply, ReturnError
<1> QED
  BY <1>1, <1>2, <1>3, <1>4, <1>5, <1>6, <1>7, <1>8, <1>9 DEF HandlerStep

LEMMA EnvironmentContinues ==
    ASSUME TypeInv, Environment
    PROVE  (\A g \in Handlers : Continues(g)) /\ UNCHANGED <<claim, snap>>
<1>0. HandlerInv
  BY DEF TypeInv
<1>1. ASSUME UNCHANGED handler PROVE \A g \in Handlers : Continues(g)
  BY <1>1 DEF Continues
<1>2. ASSUME NEW h \in Handlers, Fail(h) PROVE \A g \in Handlers : Continues(g)
  BY <1>0, <1>2, ErrorContinues DEF Fail
<1>3. ASSUME NEW h \in Handlers, AbandonCall(h) PROVE \A g \in Handlers : Continues(g)
  BY <1>0, <1>3 DEF AbandonCall, HandlerInv, HandlerStates, Continues
<1>4. CASE Crash
  BY <1>4 DEF Crash, CrashAll, Continues, coVars
<1> QED
  BY <1>1, <1>2, <1>3, <1>4 DEF Environment, NodeMaps, NodeUnmaps, Write, PoolExport, PoolImport,
     Fail, AbandonCall, coVars

\* Only an answer changes the CO's records during a handler's step.
LEMMA StepClaims ==
    ASSUME TypeInv, Known, NEW h \in Handlers, HandlerStep(h)
    PROVE  \/ UNCHANGED <<claim, snap>>
           \/ Reply(h)
  BY DEF HandlerStep, Resolve, ResolveNotFound, ResolveWrongZone, ResolvePanics, CreateNew, GetExisting,
     GetSnapshot, Clone, ListSnapshots, CreateSnapshotOnNS, GetCreated, GetLuns, DestroyLun,
     DestroyVolume, DestroySnapshot, coVars

LEMMA ReplyClaims ==
    ASSUME TypeInv, NEW h \in Handlers, Reply(h)
    PROVE  /\ \A n \in Names : claim[n].phase # "unbound" => claim'[n].phase # "unbound"
           /\ \A s \in Snaps : snap[s].phase # "none" => snap'[s].phase # "none"
<1>1. \A n \in Names : claim[n].phase # "unbound" => claim'[n].phase # "unbound"
  BY DEF Reply, Created, TypeInv, CoInv, ClaimStates
<1>2. \A s \in Snaps : snap[s].phase # "none" => snap'[s].phase # "none"
  BY DEF Reply, Snapped, TypeInv, CoInv, SnapStates
<1> QED
  BY <1>1, <1>2

LEMMA KnownStep ==
    ASSUME TypeInv, Known, Next
    PROVE  Known'
<1>0. \A g \in Handlers : handler[g] \in HandlerStates /\ GoodHandler(handler[g])
  BY RecordType
<1>1. ASSUME \A g \in Handlers : Continues(g),
             \A n \in Names : claim[n].phase # "unbound" => claim'[n].phase # "unbound",
             \A s \in Snaps : snap[s].phase # "none" => snap'[s].phase # "none"
      PROVE  Known'
  <2> SUFFICES ASSUME NEW g \in Handlers
               PROVE  /\ handler'[g].op = "DeleteVolume" => claim'[handler'[g].obj].phase # "unbound"
                      /\ handler'[g].op = "DeleteSnapshot" => snap'[handler'[g].obj].phase # "none"
    BY DEF Known
  <2>1. CASE handler'[g] = Idle
    BY <2>1 DEF Idle
  <2>2. CASE handler'[g].op = handler[g].op /\ handler'[g].obj = handler[g].obj
    BY <1>0, <1>1, <2>2 DEF Known, GoodHandler
  <2> QED
    BY <1>1, <2>1, <2>2 DEF Continues
<1>2. ASSUME NEW h \in Handlers, Calls(h) PROVE Known'
  <2>1. ASSUME NEW n \in Names, CallDeleteVolume(h, n) PROVE Known'
    BY <1>0, <2>1 DEF Known, CallDeleteVolume, Start, GoodHandler, TypeInv, CoInv, HandlerInv, ClaimStates
  <2>2. ASSUME NEW n \in Names, NEW size \in Sizes, CallCreateVolume(h, n, size) PROVE Known'
    BY <1>0, <2>2 DEF Known, CallCreateVolume, Start, GoodHandler, TypeInv, CoInv, HandlerInv, ClaimStates
  <2>3. ASSUME NEW s \in Snaps, CallCreateSnapshot(h, s) PROVE Known'
    BY <1>0, <2>3 DEF Known, CallCreateSnapshot, Start, GoodHandler, TypeInv, CoInv, HandlerInv, SnapStates
  <2>4. ASSUME NEW s \in Snaps, CallDeleteSnapshot(h, s) PROVE Known'
    BY <1>0, <2>4 DEF Known, CallDeleteSnapshot, Start, GoodHandler, TypeInv, CoInv, HandlerInv, SnapStates
  <2> QED
    BY <1>2, <2>1, <2>2, <2>3, <2>4 DEF Calls
<1>3. ASSUME NEW h \in Handlers, HandlerStep(h) PROVE Known'
  BY <1>1, <1>3, StepContinues, StepClaims, ReplyClaims
<1>4. CASE Environment
  BY <1>1, <1>4, EnvironmentContinues
<1> QED
  BY <1>2, <1>3, <1>4 DEF Next

LEMMA TypeStep ==
    ASSUME TypeInv, Known, Next
    PROVE  TypeInv'
  BY CallsType, ResolveType, CreateStepsType, SnapshotStepsType, DeleteStepsType, ReplyType,
     EnvironmentType DEF Next, HandlerStep

LEMMA TypeInit == Init => TypeInv /\ Known
<1> SUFFICES ASSUME Init PROVE TypeInv /\ Known
  OBVIOUS
<1>1. NsTypeOK
  BY DEF Init, NsInit, NsTypeOK
<1>2. HandlerInv
  BY IdleType DEF Init, HandlerInv
<1>3. CoInv /\ EnvInv
  BY DEF Init, CoInv, EnvInv, ClaimStates, SnapStates, GoodClaim, GoodSnap
<1>4. Known
  BY DEF Init, Known, Idle
<1> QED
  BY <1>1, <1>2, <1>3, <1>4 DEF TypeInv

LEMMA TypeStutter ==
    ASSUME TypeInv, Known, UNCHANGED vars
    PROVE  TypeInv' /\ Known'
  BY DEF vars, nsVars, TypeInv, NsTypeOK, HandlerInv, CoInv, EnvInv, Known

LEMMA Typing == Spec => [](TypeInv /\ Known)
<1>1. TypeInv /\ Known /\ [Next]_vars => TypeInv' /\ Known'
  BY TypeStep, KnownStep, TypeStutter
<1> QED
  BY <1>1, TypeInit, PTL DEF Spec

\* Type correctness of the controller service and of the appliances, for any
\* number of claims, handlers, appliances and faults.
THEOREM TypeCorrect == Spec => []TypeOK
<1>1. TypeInv => TypeOK
  BY DEF TypeInv, TypeOK, HandlerInv, CoInv, EnvInv
<1> QED
  BY <1>1, Typing, PTL

-----------------------------------------------------------------------------
(* Volumes: what makes one disappear, and what CreateVolume answers about. *)

\* A volume only disappears in a DeleteVolume of it.
LEMMA VolumeLoss ==
    ASSUME TypeInv, Next, NEW x \in VolIds, VolumeExists(x)
    PROVE  \/ VolumeExists(x)'
           \/ \E h \in Handlers : handler[h].op = "DeleteVolume" /\ handler[h].vol = x
<1> USE DEF TypeInv
<1>0. Absent \notin Volumes /\ volume[x] \in Volumes
  BY AbsentAssumption DEF NsTypeOK, VolumeExists
<1>1. ASSUME UNCHANGED volume PROVE VolumeExists(x)'
  BY <1>1 DEF VolumeExists
<1>2. ASSUME NEW h \in Handlers, CreateNew(h) PROVE VolumeExists(x)'
  <2>1. CASE UNCHANGED volume
    BY <1>1, <2>1
  <2>2. CASE NsCreateVolume(handler[h].vol, handler[h].size) /\ ~VolumeExists(handler[h].vol)
    BY <2>2 DEF NsCreateVolume, NsTypeOK, VolumeExists
  <2> QED
    BY <1>2, <2>1, <2>2 DEF CreateNew, nsVars
<1>3. ASSUME NEW h \in Handlers, Clone(h) PROVE VolumeExists(x)'
  <2>1. CASE UNCHANGED volume
    BY <1>1, <2>1
  <2>2. CASE NsCloneSnapshot(handler[h].snap, handler[h].vol) /\ ~VolumeExists(handler[h].vol)
    BY <2>2 DEF NsCloneSnapshot, NsTypeOK, VolumeExists
  <2> QED
    BY <1>3, <2>1, <2>2 DEF Clone, nsVars
<1>4. ASSUME NEW h \in Handlers, DestroyVolume(h)
      PROVE  VolumeExists(x)' \/ (handler[h].op = "DeleteVolume" /\ handler[h].vol = x)
  <2>1. handler[h].op = "DeleteVolume" /\ handler[h].vol \in VolIds
    BY <1>4, RecordType DEF DestroyVolume, At, GoodHandler
  <2>2. CASE UNCHANGED volume
    BY <1>1, <2>2
  <2>3. CASE VolumeExists(handler[h].vol) /\ NsDestroyVolume(handler[h].vol)
    BY <2>1, <2>3, DestroyVolumeType
  <2> QED
    BY <1>4, <2>1, <2>2, <2>3 DEF DestroyVolume, Visible, nsVars
<1>5. ASSUME NEW n \in Names, Write(n) PROVE VolumeExists(x)'
  <2>1. claim[n].vol \in VolIds /\ volume[claim[n].vol] \in Volumes
    BY <1>5 DEF Write, Visible, VolumeExists, CoInv, GoodClaim, NsTypeOK
  <2>2. [volume[claim[n].vol] EXCEPT !.content.writes = @ + 1] \in Volumes
    BY <2>1 DEF Volumes, Contents
  <2> QED
    BY <1>0, <1>5, <2>2 DEF Write, NsWrite, NsTypeOK, VolumeExists
<1>6. ASSUME NEW h \in Handlers, HandlerStep(h)
      PROVE  \/ UNCHANGED volume \/ CreateNew(h) \/ Clone(h) \/ DestroyVolume(h)
  BY <1>6 DEF HandlerStep, Resolve, ResolveNotFound, ResolveWrongZone, ResolvePanics, GetExisting,
     GetSnapshot, ListSnapshots, CreateSnapshotOnNS, NsCreateSnapshot, GetCreated, GetLuns, DestroyLun,
     NsDestroyLunMapping, DestroySnapshot, NsDestroySnapshot, Reply, nsVars
<1>7. ASSUME NEW h \in Handlers, Calls(h) PROVE UNCHANGED volume
  BY <1>7 DEF Calls, CallCreateVolume, CallDeleteVolume, CallCreateSnapshot, CallDeleteSnapshot, nsVars
<1>8. ASSUME Environment PROVE UNCHANGED volume \/ \E n \in Names : Write(n)
  BY <1>8 DEF Environment, NodeMaps, NodeUnmaps, NsCreateLunMapping, NsDestroyLunMapping, Fail,
     AbandonCall, Crash, PoolExport, PoolImport, nsVars
<1> QED
  BY <1>1, <1>2, <1>3, <1>4, <1>5, <1>6, <1>7, <1>8 DEF Next

\* A CreateVolume handler comes to its answer only with the volume in place.
LEMMA AnswerStep ==
    ASSUME TypeInv, Next, NEW g \in Handlers, handler'[g].op = "CreateVolume", handler'[g].pc = "reply"
    PROVE  \/ volume'[handler'[g].vol] # Absent
           \/ handler'[g] = handler[g]
           \/ handler'[g] = [handler[g] EXCEPT !.live = FALSE]
<1>0. \A h \in Handlers : handler[h] \in HandlerStates /\ GoodHandler(handler[h])
  BY RecordType
<1>1. HandlerInv
  BY DEF TypeInv
<1>2. ASSUME NEW h \in Handlers, ReturnError(h) PROVE handler'[g] = handler[g]
  BY <1>1, <1>2 DEF ReturnError, HandlerInv, Idle
<1>3. ASSUME NEW h \in Handlers, NEW pc \in Steps, Goto(h, pc),
             pc # "reply" \/ handler[h].op # "CreateVolume"
      PROVE  handler'[g] = handler[g]
  BY <1>1, <1>3 DEF Goto, HandlerInv, HandlerStates
<1>4. ASSUME NEW h \in Handlers, Goto(h, "reply"), volume'[handler[h].vol] # Absent
      PROVE  handler'[g] = handler[g] \/ volume'[handler'[g].vol] # Absent
  BY <1>1, <1>4 DEF Goto, HandlerInv, HandlerStates
<1>5. ASSUME NEW h \in Handlers, Calls(h) PROVE handler'[g] = handler[g]
  <2>1. ASSUME NEW op, NEW obj, NEW vol, NEW id, NEW size, Start(h, op, obj, vol, id, size)
        PROVE  handler'[g] = handler[g]
    BY <1>1, <2>1 DEF Start, HandlerInv
  <2> QED
    BY <1>5, <2>1 DEF Calls, CallCreateVolume, CallDeleteVolume, CallCreateSnapshot, CallDeleteSnapshot
<1>6. ASSUME NEW h \in Handlers, HandlerStep(h) PROVE volume'[handler'[g].vol] # Absent \/ handler'[g] = handler[g]
  <2>1. CASE Resolve(h)
    <3>1. AfterResolve(h) # "reply"
      BY <1>0, <2>1, ClaimAssumption DEF Resolve, AfterResolve, GoodHandler, HandlerStates, Ops, ClaimTypes, Sources
    <3> QED
      BY <1>1, <2>1, <3>1 DEF Resolve, HandlerInv, HandlerStates
  <2>2. CASE ResolveNotFound(h) \/ ResolveWrongZone(h)
    BY <1>2, <1>3, <2>2 DEF ResolveNotFound, ResolveWrongZone, Steps
  <2>3. CASE ResolvePanics(h)
    BY <2>3 DEF ResolvePanics, CrashAll, Idle
  <2>4. CASE CreateNew(h)
    <3>1. handler[h].vol \in VolIds /\ handler[h].size \in Sizes
      BY <1>0, <2>4 DEF CreateNew, At, GoodHandler
    <3>2. ASSUME NsCreateVolume(handler[h].vol, handler[h].size) PROVE volume'[handler[h].vol] # Absent
      <4>1. volume'[handler[h].vol] \in Volumes
        BY <3>1, <3>2, CreateVolumeType DEF NsCreateVolume, TypeInv, NsTypeOK, VolIds, Volumes, Contents
      <4> QED
        BY <4>1, AbsentAssumption
    <3> QED
      BY <1>2, <1>3, <1>4, <2>4, <3>2 DEF CreateNew, Steps
  <2>5. CASE GetExisting(h)
    <3>1. Visible(handler[h].vol) => volume'[handler[h].vol] # Absent
      BY <2>5 DEF GetExisting, Visible, VolumeExists, nsVars
    <3> QED
      BY <1>2, <1>4, <2>5, <3>1 DEF GetExisting
  <2>6. CASE Clone(h)
    <3>1. handler[h].vol \in VolIds /\ handler[h].snap \in SnapIds
      BY <1>0, <2>6 DEF Clone, At, GoodHandler, SnapshotSteps
    <3>2. ASSUME SnapshotExists(handler[h].snap), NsCloneSnapshot(handler[h].snap, handler[h].vol)
          PROVE  volume'[handler[h].vol] # Absent
      <4>1. snapshot[handler[h].snap] \in Snapshots
        BY <3>1, <3>2 DEF SnapshotExists, TypeInv, NsTypeOK
      <4>2. volume'[handler[h].vol] \in Volumes
        BY <3>1, <3>2, <4>1 DEF NsCloneSnapshot, TypeInv, NsTypeOK, Volumes, Snapshots
      <4> QED
        BY <4>2, AbsentAssumption
    <3>3. Visible(handler[h].vol) /\ UNCHANGED nsVars => volume'[handler[h].vol] # Absent
      BY DEF Visible, VolumeExists, nsVars
    <3> QED
      BY <1>2, <1>4, <2>6, <3>2, <3>3 DEF Clone, SnapshotVisible
  <2>7. CASE GetSnapshot(h) \/ ListSnapshots(h) \/ CreateSnapshotOnNS(h) \/ GetCreated(h)
    BY <1>2, <1>3, <2>7 DEF GetSnapshot, ListSnapshots, CreateSnapshotOnNS, GetCreated, Steps
  <2>8. CASE GetLuns(h) \/ DestroyLun(h)
    BY <1>1, <1>2, <2>8 DEF GetLuns, DestroyLun, At, HandlerInv, HandlerStates
  <2>9. CASE DestroyVolume(h) \/ DestroySnapshot(h)
    BY <1>2, <1>3, <2>9 DEF DestroyVolume, DestroySnapshot, At, Steps
  <2>10. CASE Reply(h)
    BY <1>2, <2>10 DEF Reply, ReturnError
  <2> QED
    BY <1>6, <2>1, <2>2, <2>3, <2>4, <2>5, <2>6, <2>7, <2>8, <2>9, <2>10 DEF HandlerStep
<1>7. ASSUME Environment
      PROVE  handler'[g] = handler[g] \/ handler'[g] = [handler[g] EXCEPT !.live = FALSE]
  <2>1. ASSUME NEW h \in Handlers, AbandonCall(h)
        PROVE  handler'[g] = handler[g] \/ handler'[g] = [handler[g] EXCEPT !.live = FALSE]
    BY <1>1, <2>1 DEF AbandonCall, HandlerInv
  <2>2. ASSUME NEW h \in Handlers, Fail(h) PROVE handler'[g] = handler[g]
    BY <1>2, <2>2 DEF Fail
  <2>3. ASSUME Crash PROVE FALSE
    BY <2>3 DEF Crash, CrashAll, Idle
  <2> QED
    BY <1>7, <2>1, <2>2, <2>3 DEF Environment, NodeMaps, NodeUnmaps, Write, PoolExport, PoolImport
<1> QED
  BY <1>5, <1>6, <1>7 DEF Next

-----------------------------------------------------------------------------
(* The ownership invariant is inductive.                                   *)

\* While neither the CO's records nor the calls change, only volumes matter.
LEMMA OwnershipFrame ==
    ASSUME TypeInv, OwnershipInv, \A g \in Handlers : Continues(g), UNCHANGED claim
    PROVE  OneCallEach' /\ CreatesAreUnbound' /\ DeletesAreAsked'
<1>0. \A g \in Handlers : GoodHandler(handler[g])
  BY RecordType
<1>1. \A g \in Handlers :
        \/ handler'[g].op = "none" /\ ~handler'[g].live
        \/ /\ handler'[g].op = handler[g].op /\ handler'[g].obj = handler[g].obj
           /\ handler'[g].live => handler[g].live
           /\ handler[g].op # "CreateVolume" => handler'[g].vol = handler[g].vol
  BY DEF Continues, Idle
<1>2. OneCallEach'
  BY <1>1 DEF OwnershipInv, OneCallEach
<1>3. CreatesAreUnbound'
  BY <1>1 DEF OwnershipInv, CreatesAreUnbound
<1>4. DeletesAreAsked'
  BY <1>1 DEF OwnershipInv, DeletesAreAsked
<1> QED
  BY <1>2, <1>3, <1>4

LEMMA OwnershipReply ==
    ASSUME TypeInv, OwnershipInv, NEW h \in Handlers, Reply(h)
    PROVE  OneCallEach' /\ CreatesAreUnbound' /\ DeletesAreAsked'
<1>0. \A g \in Handlers : handler[g] \in HandlerStates /\ GoodHandler(handler[g])
  BY RecordType
<1>1. \A g \in Handlers : handler'[g] = IF g = h THEN Idle ELSE handler[g]
  BY DEF Reply, TypeInv, HandlerInv
<1>2. OneCallEach'
  BY <1>1 DEF OwnershipInv, OneCallEach, Idle
<1>3. \A n \in Names : claim'[n] # claim[n] =>
        /\ n = handler[h].obj /\ handler[h].live
        /\ handler[h].op = "CreateVolume" \/ claim'[n].vol = claim[n].vol
        /\ handler[h].op = "CreateVolume" \/ claim'[n].phase = "released"
  <2>1. claim \in [Names -> ClaimStates] /\ Created(h)
    BY DEF Reply, TypeInv, CoInv
  <2>2. CASE handler[h].op = "CreateVolume" /\ handler[h].live
    BY <2>1, <2>2 DEF Created, ClaimStates
  <2>3. CASE handler[h].op = "DeleteVolume" /\ handler[h].live
    BY <2>1, <2>3 DEF Created, ClaimStates
  <2> QED
    BY <2>1, <2>2, <2>3 DEF Created
<1>4. CreatesAreUnbound'
  <2> SUFFICES ASSUME NEW g \in Handlers, g # h, handler[g].op = "CreateVolume", handler[g].live
               PROVE  claim'[handler[g].obj].phase = "unbound"
    BY <1>1 DEF CreatesAreUnbound, Idle
  <2>1. handler[g].obj \in Names /\ claim[handler[g].obj].phase = "unbound"
    BY <1>0 DEF OwnershipInv, CreatesAreUnbound, GoodHandler
  <2> QED
    BY <1>3, <2>1 DEF OwnershipInv, OneCallEach
<1>5. DeletesAreAsked'
  <2> SUFFICES ASSUME NEW g \in Handlers, g # h, handler[g].op = "DeleteVolume"
               PROVE  /\ claim'[handler[g].obj].phase \in {"deleting", "released"}
                      /\ handler[g].vol = claim'[handler[g].obj].vol
    BY <1>1 DEF DeletesAreAsked, Idle
  <2>1. /\ handler[g].obj \in Names
        /\ claim[handler[g].obj].phase \in {"deleting", "released"}
        /\ handler[g].vol = claim[handler[g].obj].vol
    BY <1>0 DEF OwnershipInv, DeletesAreAsked, GoodHandler
  <2>2. handler[h].op = "CreateVolume" /\ handler[h].live => handler[h].obj # handler[g].obj
    BY <2>1 DEF OwnershipInv, CreatesAreUnbound
  <2> QED
    BY <1>3, <2>1, <2>2
<1> QED
  BY <1>2, <1>4, <1>5

\* A new call is the only one the CO waits for about its object.
LEMMA StartFacts ==
    ASSUME HandlerInv, OneCallEach, NEW h \in Handlers, NEW op, NEW obj, NEW vol, NEW id, NEW size,
           CanCall(h, obj), Start(h, op, obj, vol, id, size)
    PROVE  /\ handler'[h].op = op /\ handler'[h].obj = obj /\ handler'[h].vol = vol
           /\ \A g \in Handlers \ {h} : handler'[g] = handler[g]
           /\ \A g \in Handlers : handler[g].live => handler[g].obj # obj
           /\ OneCallEach'
<1>1. /\ handler'[h].op = op /\ handler'[h].obj = obj /\ handler'[h].vol = vol
      /\ \A g \in Handlers \ {h} : handler'[g] = handler[g]
  BY DEF Start, HandlerInv
<1>2. \A g \in Handlers : handler[g].live => handler[g].obj # obj
  BY DEF CanCall, Waiting
<1>3. OneCallEach'
  BY <1>1, <1>2 DEF OneCallEach
<1> QED
  BY <1>1, <1>2, <1>3

LEMMA OwnershipCalls ==
    ASSUME TypeInv, OwnershipInv, NEW h \in Handlers, Calls(h)
    PROVE  OneCallEach' /\ CreatesAreUnbound' /\ DeletesAreAsked'
<1>0. HandlerInv /\ CoInv /\ OneCallEach /\ CreatesAreUnbound /\ DeletesAreAsked
  BY DEF TypeInv, OwnershipInv
<1>1. ASSUME NEW n \in Names, CallDeleteVolume(h, n)
      PROVE  OneCallEach' /\ CreatesAreUnbound' /\ DeletesAreAsked'
  <2>1. /\ CanCall(h, n) /\ Start(h, "DeleteVolume", n, claim[n].vol, NoSnapshot, 0)
        /\ claim' = [claim EXCEPT ![n].phase = "deleting"]
    BY <1>1 DEF CallDeleteVolume
  <2>2. /\ handler'[h].op = "DeleteVolume" /\ handler'[h].obj = n /\ handler'[h].vol = claim[n].vol
        /\ \A g \in Handlers \ {h} : handler'[g] = handler[g]
        /\ \A g \in Handlers : handler[g].live => handler[g].obj # n
        /\ OneCallEach'
    BY <1>0, <2>1, StartFacts
  <2>3. /\ claim'[n].phase = "deleting" /\ claim'[n].vol = claim[n].vol
        /\ \A k \in Names \ {n} : claim'[k] = claim[k]
    BY <1>0, <2>1 DEF CoInv, ClaimStates
  <2>4. \A g \in Handlers : handler[g].op \in {"CreateVolume", "DeleteVolume"} => handler[g].obj \in Names
    BY RecordType DEF GoodHandler
  <2>5. CreatesAreUnbound'
    BY <1>0, <2>2, <2>3, <2>4 DEF CreatesAreUnbound
  <2>6. DeletesAreAsked'
    BY <1>0, <2>2, <2>3, <2>4 DEF DeletesAreAsked
  <2> QED
    BY <2>2, <2>5, <2>6
<1>2. ASSUME NEW n \in Names, NEW size \in Sizes, CallCreateVolume(h, n, size)
      PROVE  OneCallEach' /\ CreatesAreUnbound' /\ DeletesAreAsked'
  <2>1. /\ CanCall(h, n) /\ Start(h, "CreateVolume", n, NoVolume, SourceSnapshot(n), size)
        /\ claim[n].phase = "unbound"
    BY <1>2 DEF CallCreateVolume
  <2>2. /\ handler'[h].op = "CreateVolume" /\ handler'[h].obj = n
        /\ \A g \in Handlers \ {h} : handler'[g] = handler[g]
        /\ OneCallEach'
    BY <1>0, <2>1, StartFacts
  <2>3. \A k \in Names : claim'[k].phase = claim[k].phase /\ claim'[k].vol = claim[k].vol
    BY <1>0, <1>2 DEF CallCreateVolume, CoInv, ClaimStates
  <2>4. \A g \in Handlers : handler[g].op \in {"CreateVolume", "DeleteVolume"} => handler[g].obj \in Names
    BY RecordType DEF GoodHandler
  <2>5. CreatesAreUnbound'
    BY <1>0, <2>1, <2>2, <2>3, <2>4 DEF CreatesAreUnbound
  <2>6. DeletesAreAsked'
    BY <1>0, <2>2, <2>3, <2>4 DEF DeletesAreAsked
  <2> QED
    BY <2>2, <2>5, <2>6
<1>3. ASSUME NEW s \in Snaps, CallCreateSnapshot(h, s) \/ CallDeleteSnapshot(h, s)
      PROVE  OneCallEach' /\ CreatesAreUnbound' /\ DeletesAreAsked'
  <2>1. PICK op \in {"CreateSnapshot", "DeleteSnapshot"}, id \in {snap[s].id,
               [volume |-> claim[SnapClaim[s].volume].vol, tag |-> UserTag(SnapClaim[s].tag)]} :
          CanCall(h, s) /\ Start(h, op, s, NoVolume, id, 0)
    BY <1>3 DEF CallCreateSnapshot, CallDeleteSnapshot
  <2>2. /\ handler'[h].op = op /\ \A g \in Handlers \ {h} : handler'[g] = handler[g]
        /\ OneCallEach'
    BY <1>0, <2>1, StartFacts
  <2>3. UNCHANGED claim
    BY <1>3 DEF CallCreateSnapshot, CallDeleteSnapshot
  <2>4. CreatesAreUnbound'
    BY <1>0, <2>2, <2>3 DEF CreatesAreUnbound
  <2>5. DeletesAreAsked'
    BY <1>0, <2>2, <2>3 DEF DeletesAreAsked
  <2> QED
    BY <2>2, <2>4, <2>5
<1> QED
  BY <1>1, <1>2, <1>3 DEF Calls

LEMMA OwnershipStep ==
    ASSUME TypeInv, Known, OwnershipInv, Next
    PROVE  OneCallEach' /\ CreatesAreUnbound' /\ DeletesAreAsked'
<1>1. ASSUME NEW h \in Handlers, HandlerStep(h)
      PROVE  OneCallEach' /\ CreatesAreUnbound' /\ DeletesAreAsked'
  BY <1>1, StepContinues, StepClaims, OwnershipFrame, OwnershipReply
<1> QED
  BY <1>1, OwnershipCalls, EnvironmentContinues, OwnershipFrame DEF Next

\* A volume whose deletion was not asked for stays.
LEMMA KeptVolume ==
    ASSUME TypeInv, OwnershipInv, Next, NEW n \in Names, NEW x \in VolIds, x.name = n, VolumeExists(x),
           claim[n].phase \in {"unbound", "bound"}
    PROVE  VolumeExists(x)'
<1> SUFFICES ASSUME NEW h \in Handlers, handler[h].op = "DeleteVolume", handler[h].vol = x PROVE FALSE
  BY VolumeLoss
<1>1. /\ handler[h].obj \in Names
      /\ claim[handler[h].obj].phase \in {"deleting", "released"}
      /\ handler[h].vol = claim[handler[h].obj].vol
  BY RecordType DEF OwnershipInv, DeletesAreAsked, GoodHandler
<1>2. claim[handler[h].obj].vol.name = handler[h].obj
  BY <1>1 DEF TypeInv, CoInv, GoodClaim
<1> QED
  BY <1>1, <1>2

LEMMA AnswersStep ==
    ASSUME TypeInv, Known, OwnershipInv, Next
    PROVE  AnswersAreTrue'
<1> SUFFICES ASSUME NEW g \in Handlers, handler'[g].op = "CreateVolume", handler'[g].pc = "reply",
                    handler'[g].live
             PROVE  volume'[handler'[g].vol] # Absent
  BY DEF AnswersAreTrue, VolumeExists
<1>0. handler[g] \in HandlerStates /\ GoodHandler(handler[g])
  BY RecordType
<1>1. CASE handler'[g] = handler[g]
  <2>1. /\ handler[g].vol \in VolIds /\ handler[g].obj \in Names
        /\ handler[g].vol.name = handler[g].obj
    BY <1>0, <1>1 DEF GoodHandler
  <2>2. VolumeExists(handler[g].vol) /\ claim[handler[g].obj].phase = "unbound"
    BY <1>1 DEF OwnershipInv, AnswersAreTrue, CreatesAreUnbound
  <2> DEFINE x == handler[g].vol  n == handler[g].obj
  <2>3. \A y \in VolIds : y.name = n /\ VolumeExists(y) => volume'[y] # Absent
    BY <2>1, <2>2, KeptVolume DEF VolumeExists
  <2> QED
    BY <1>1, <2>1, <2>2, <2>3
<1>2. CASE handler'[g] = [handler[g] EXCEPT !.live = FALSE]
  BY <1>0, <1>2 DEF HandlerStates
<1> QED
  BY <1>1, <1>2, AnswerStep

LEMMA BoundStep ==
    ASSUME TypeInv, Known, OwnershipInv, Next
    PROVE  BoundVolumesExist'
<1> SUFFICES ASSUME NEW n \in Names, claim'[n].phase = "bound"
             PROVE  volume'[claim'[n].vol] # Absent /\ claim'[n].vol.name = n
  BY DEF BoundVolumesExist, VolumeExists
<1>0. claim[n] \in ClaimStates
  BY DEF TypeInv, CoInv
<1>1. CASE claim[n].phase = "bound" /\ claim'[n].vol = claim[n].vol
  <2>1. claim[n].vol \in VolIds /\ VolumeExists(claim[n].vol) /\ claim[n].vol.name = n
    BY <1>1 DEF TypeInv, CoInv, GoodClaim, OwnershipInv, BoundVolumesExist
  <2>2. \A y \in VolIds : y.name = n /\ VolumeExists(y) => volume'[y] # Absent
    BY <1>1, KeptVolume DEF VolumeExists
  <2> QED
    BY <1>1, <2>1, <2>2
\* The claim has just been bound by an answer, and the answer is true.
<1>2. ASSUME NEW h \in Handlers, Reply(h), handler[h].op = "CreateVolume", handler[h].live, handler[h].obj = n
      PROVE  volume'[claim'[n].vol] # Absent /\ claim'[n].vol.name = n
  <2>1. VolumeExists(handler[h].vol)
    BY <1>2 DEF Reply, OwnershipInv, AnswersAreTrue
  <2>2. handler[h].vol.name = n
    <3>1. GoodHandler(handler[h]) /\ handler[h].pc = "reply"
      BY <1>2, RecordType DEF Reply
    <3>2. handler[h].vol = [config |-> handler[h].vol.config, name |-> n]
      BY <1>2, <3>1 DEF GoodHandler
    <3> QED
      BY <3>2
  <2>3. claim'[n].vol = handler[h].vol
    BY <1>2 DEF Reply, Created, TypeInv, CoInv, ClaimStates
  <2> QED
    BY <1>2, <2>1, <2>2, <2>3 DEF Reply, VolumeExists, nsVars
<1>3. ASSUME NEW h \in Handlers, HandlerStep(h)
      PROVE  \/ claim[n].phase = "bound" /\ claim'[n].vol = claim[n].vol
             \/ Reply(h) /\ handler[h].op = "CreateVolume" /\ handler[h].live /\ handler[h].obj = n
  <2>1. CASE UNCHANGED claim
    BY <2>1
  <2>2. CASE Reply(h)
    BY <2>2 DEF Reply, Created, TypeInv, CoInv, ClaimStates
  <2> QED
    BY <1>3, <2>1, <2>2, StepClaims
<1>4. ASSUME NEW h \in Handlers, Calls(h)
      PROVE  claim[n].phase = "bound" /\ claim'[n].vol = claim[n].vol
  <2>0. claim \in [Names -> ClaimStates]
    BY DEF TypeInv, CoInv
  <2>1. ASSUME NEW m \in Names, NEW size \in Sizes, CallCreateVolume(h, m, size)
        PROVE  claim'[n].phase = claim[n].phase /\ claim'[n].vol = claim[n].vol
    BY <2>0, <2>1 DEF CallCreateVolume, ClaimStates
  <2>2. ASSUME NEW m \in Names, CallDeleteVolume(h, m)
        PROVE  m # n /\ claim'[n].phase = claim[n].phase /\ claim'[n].vol = claim[n].vol
    BY <2>0, <2>2 DEF CallDeleteVolume, ClaimStates
  <2>3. ASSUME NEW s \in Snaps, CallCreateSnapshot(h, s) \/ CallDeleteSnapshot(h, s)
        PROVE  UNCHANGED claim
    BY <2>3 DEF CallCreateSnapshot, CallDeleteSnapshot
  <2> QED
    BY <1>4, <2>1, <2>2, <2>3 DEF Calls
<1>5. ASSUME Environment PROVE claim[n].phase = "bound" /\ claim'[n].vol = claim[n].vol
  BY <1>5, EnvironmentContinues
<1> QED
  BY <1>1, <1>2, <1>3, <1>4, <1>5 DEF Next

LEMMA OwnershipInit == Init => OwnershipInv
  BY DEF Init, Idle, OwnershipInv, OneCallEach, CreatesAreUnbound, DeletesAreAsked, AnswersAreTrue,
     BoundVolumesExist

LEMMA OwnershipStutter ==
    ASSUME OwnershipInv, UNCHANGED vars
    PROVE  OwnershipInv'
  BY DEF vars, nsVars, OwnershipInv, OneCallEach, CreatesAreUnbound, DeletesAreAsked, AnswersAreTrue,
     BoundVolumesExist, VolumeExists

LEMMA Ownership == Spec => []OwnershipInv
<1>1. TypeInv /\ Known /\ OwnershipInv /\ Next => OwnershipInv'
  BY OwnershipStep, AnswersStep, BoundStep DEF OwnershipInv
<1>2. TypeInv /\ Known /\ OwnershipInv /\ [Next]_vars => OwnershipInv'
  BY <1>1, OwnershipStutter
<1> QED
  BY <1>2, OwnershipInit, Typing, PTL DEF Spec

\* A volume the CO was given stays until its deletion is asked for: no late
\* CreateVolume or DeleteVolume handler, retry, crash, error, pool failover or
\* deletion of the volume it was cloned from removes it.
THEOREM BoundVolumesStay == Spec => []BoundVolumesExist
<1>1. OwnershipInv => BoundVolumesExist
  BY DEF OwnershipInv
<1> QED
  BY <1>1, Ownership, PTL

=============================================================================
