---------------------------- MODULE Provisioning ----------------------------
(***************************************************************************)
(* The controller service's CreateVolume, DeleteVolume, CreateSnapshot and *)
(* DeleteSnapshot (pkg/driver/controllerServer.go), each running as a gRPC *)
(* handler (a goroutine) that makes one REST call per step, with the CO's  *)
(* sidecars as the callers.                                                *)
(*                                                                         *)
(* A handler never looks at its context: when the sidecar's call times out *)
(* the handler keeps running and its late effects land whenever they land  *)
(* (AbandonCall).  The process may crash between any two REST calls, and   *)
(* any REST call may fail, with or without having taken effect.            *)
(***************************************************************************)
EXTENDS NexentaStor

CONSTANTS
    Handlers,    \* goroutines that may run at once
    Snaps,       \* snapshot requests of the CO
    Claim,       \* [Names -> ClaimTypes], what each claim asks for
    SnapClaim,   \* [Snaps -> [volume : Names, tag : UserTags]]
    Zones,
    Zone,        \* the zone of each configuration entry
    Group,       \* the path of each entry's volume group, the one its appliance has
    NoZone, AnyConfig, NoVolume, NoObject, NoContent,
    Exportable,  \* entries whose pool may be away (exported, failing over)
    MaxWrites,   \* bound on application writes to one volume
    MaxFaults    \* bound on faults: REST errors, timeouts, crashes, exports

Sources == [kind : {"none"}] \cup [kind : {"volume"}, of : Names]
             \cup [kind : {"snapshot"}, of : Snaps]

ClaimTypes == [config : Configs \cup {AnyConfig}, zone : Zones \cup {NoZone}, source : Sources]

ASSUME ClaimAssumption     == Claim \in [Names -> ClaimTypes]
ASSUME SnapClaimAssumption == SnapClaim \in [Snaps -> [volume : Names, tag : UserTags]]
ASSUME ZoneAssumption      == Zone \in [Configs -> Zones \cup {NoZone}]
ASSUME ObjectAssumption    ==
    /\ NoVolume \notin VolIds
    /\ AnyConfig \notin Configs
    /\ NoObject \notin Names \cup Snaps
    /\ Names \cap Snaps = {}
ASSUME BoundsAssumption    == MaxWrites \in Nat /\ MaxFaults \in Nat

VARIABLES
    handler,   \* what each goroutine is doing
    claim,     \* the CO's record of each claim
    snap,      \* the CO's record of each snapshot request
    exported,  \* entries whose volume group is away just now
    late,      \* claims a CreateVolume of which has been given up by the CO
    faults     \* faults so far

vars == <<nsVars, handler, claim, snap, exported, late, faults>>

coVars == <<claim, snap, late>>
envVars == <<exported, faults>>

Idle == [op |-> "none", pc |-> "idle", obj |-> NoObject, vol |-> NoVolume,
         snap |-> NoSnapshot, size |-> 0, luns |-> {}, live |-> FALSE]

Ops == {"none", "CreateVolume", "DeleteVolume", "CreateSnapshot", "DeleteSnapshot"}

Steps == {"idle", "resolve", "create", "getExisting", "getSnapshot", "listSnapshots",
          "createSnapshot", "getCreated", "clone", "getLuns", "destroyLuns",
          "destroyVolume", "destroySnapshot", "reply"}

HandlerStates ==
    [op : Ops, pc : Steps, obj : Names \cup Snaps \cup {NoObject},
     vol : VolIds \cup {NoVolume}, snap : SnapIds \cup {NoSnapshot},
     size : Sizes \cup {0}, luns : SUBSET Mappings, live : BOOLEAN]

ClaimStates ==
    [phase : {"unbound", "bound", "deleting", "released"},
     vol : VolIds \cup {NoVolume}, size : Sizes \cup {0},
     since : Contents \cup {NoContent}]

SnapStates ==
    [phase : {"none", "ready", "deleting", "released"},
     id : SnapIds \cup {NoSnapshot}, since : Contents \cup {NoContent}]

Init ==
    /\ NsInit
    /\ handler = [h \in Handlers |-> Idle]
    /\ claim = [n \in Names |-> [phase |-> "unbound", vol |-> NoVolume, size |-> 0,
                                 since |-> NoContent]]
    /\ snap = [s \in Snaps |-> [phase |-> "none", id |-> NoSnapshot, since |-> NoContent]]
    /\ exported = {}
    /\ late = {}
    /\ faults = 0

-----------------------------------------------------------------------------
(* Handlers.                                                               *)

At(h, op, pc) == handler[h].op = op /\ handler[h].pc = pc

\* Handler h moves on to pc.
Goto(h, pc) == handler' = [handler EXCEPT ![h].pc = pc]

\* Handler h answers with an error: the CO's record does not change.
ReturnError(h) == handler' = [handler EXCEPT ![h] = Idle]

\* A call for obj is outstanding: the CO still waits for its answer.
Waiting(obj) == \E h \in Handlers : handler[h].obj = obj /\ handler[h].live

Start(h, op, obj, vol, id, size) ==
    handler' = [handler EXCEPT ![h] =
        [op |-> op, pc |-> "resolve", obj |-> obj, vol |-> vol, snap |-> id,
         size |-> size, luns |-> {}, live |-> TRUE]]

CanCall(h, obj) == handler[h].pc = "idle" /\ ~Waiting(obj)

-----------------------------------------------------------------------------
(* The CO: external-provisioner and external-snapshotter.  One call at a   *)
(* time for each object, repeated until it is answered without error.      *)

SourceReady(n) ==
    LET src == Claim[n].source IN
    CASE src.kind = "none"     -> TRUE
      [] src.kind = "volume"   -> claim[src.of].phase = "bound"
      [] src.kind = "snapshot" -> snap[src.of].phase = "ready"

\* The snapshot the new volume will be cloned from.
SourceSnapshot(n) ==
    LET src == Claim[n].source IN
    CASE src.kind = "none"     -> NoSnapshot
      [] src.kind = "volume"   -> [volume |-> claim[src.of].vol, tag |-> CloneTag(n)]
      [] src.kind = "snapshot" -> snap[src.of].id

\* What the source holds when the claim is first submitted.
SourceContent(n) ==
    LET src == Claim[n].source IN
    CASE src.kind = "volume" /\ VolumeExists(claim[src.of].vol) ->
           volume[claim[src.of].vol].content
      [] src.kind = "snapshot" /\ SnapshotExists(snap[src.of].id) ->
           snapshot[snap[src.of].id].content
      [] OTHER -> NoContent

CallCreateVolume(h, n, size) ==
    /\ CanCall(h, n)
    /\ claim[n].phase = "unbound"
    /\ SourceReady(n)
    /\ Start(h, "CreateVolume", n, NoVolume, SourceSnapshot(n), size)
    /\ claim' = [claim EXCEPT ![n].since = IF @ = NoContent THEN SourceContent(n) ELSE @]
    /\ UNCHANGED <<nsVars, snap, late, envVars>>

\* Finalizers keep the source of an outstanding CreateVolume or CreateSnapshot.
InUse(src) ==
    \/ \E n \in Names : Waiting(n) /\ Claim[n].source = src /\ claim[n].phase = "unbound"
    \/ \E s \in Snaps : /\ Waiting(s) /\ snap[s].phase = "none"
                        /\ src = [kind |-> "volume", of |-> SnapClaim[s].volume]

CallDeleteVolume(h, n) ==
    /\ CanCall(h, n) /\ ~InUse([kind |-> "volume", of |-> n])
    /\ claim[n].phase \in {"bound", "deleting"}
    /\ Start(h, "DeleteVolume", n, claim[n].vol, NoSnapshot, 0)
    /\ claim' = [claim EXCEPT ![n].phase = "deleting"]
    /\ UNCHANGED <<nsVars, snap, late, envVars>>

CallCreateSnapshot(h, s) ==
    LET src == claim[SnapClaim[s].volume] IN
    /\ CanCall(h, s)
    /\ snap[s].phase = "none"
    /\ src.phase = "bound"
    /\ Start(h, "CreateSnapshot", s, NoVolume,
             [volume |-> src.vol, tag |-> UserTag(SnapClaim[s].tag)], 0)
    /\ snap' = [snap EXCEPT ![s].since =
                  IF @ = NoContent /\ VolumeExists(src.vol) THEN volume[src.vol].content ELSE @]
    /\ UNCHANGED <<nsVars, claim, late, envVars>>

CallDeleteSnapshot(h, s) ==
    /\ CanCall(h, s) /\ ~InUse([kind |-> "snapshot", of |-> s])
    /\ snap[s].phase \in {"ready", "deleting"}
    /\ Start(h, "DeleteSnapshot", s, NoVolume, snap[s].id, 0)
    /\ snap' = [snap EXCEPT ![s].phase = "deleting"]
    /\ UNCHANGED <<nsVars, claim, late, envVars>>

-----------------------------------------------------------------------------
(* resolveNS: which appliance serves the request.                          *)

\* The entry the request names: its source's, the volume's, or the configName
\* parameter, in the order the code lets one override the other.
Entry(h) ==
    CASE handler[h].snap # NoSnapshot -> handler[h].snap.volume.config
      [] handler[h].snap = NoSnapshot /\ handler[h].vol # NoVolume -> handler[h].vol.config
      [] OTHER -> Claim[handler[h].obj].config

Pinned(h) == Entry(h) # AnyConfig

\* Slip: the zone is not compared with the entry's.
AnyZone(h, c) == TRUE

\* CreateVolume also passes the zone picked from the accessibility requirements.
InZone(h, c) ==
    \/ handler[h].op # "CreateVolume"
    \/ Claim[handler[h].obj].zone \in {NoZone, Zone[c]}

Candidates(h) == {c \in Configs : Entry(h) \in {c, AnyConfig} /\ InZone(h, c)}

\* The step after resolveNS.
AfterResolve(h) ==
    LET op == handler[h].op  kind == Claim[handler[h].obj].source.kind IN
    CASE op = "CreateVolume" /\ kind = "none"     -> "create"
      [] op = "CreateVolume" /\ kind = "snapshot" -> "getSnapshot"
      [] op = "CreateVolume" /\ kind = "volume"   -> "listSnapshots"
      [] op = "CreateSnapshot" -> "listSnapshots"
      [] op = "DeleteVolume"   -> "getLuns"
      [] op = "DeleteSnapshot" -> "destroySnapshot"

\* A request with a zone looks everywhere for the group of the entry it meets
\* first, c; one without looks for each entry's own.
Tried(h, c) ==
    IF handler[h].op = "CreateVolume" /\ Claim[handler[h].obj].zone # NoZone
    THEN {d \in Candidates(h) : Group[d] = Group[c]} ELSE Candidates(h)

\* The map is walked in any order: any entry whose volume group is there.
Resolve(h) ==
    /\ handler[h].pc = "resolve"
    /\ \E c \in Candidates(h) \ exported :
         handler' = [handler EXCEPT
           ![h].pc  = AfterResolve(h),
           ![h].vol = IF handler[h].op = "CreateVolume"
                      THEN [config |-> c, name |-> handler[h].obj] ELSE @]
    /\ UNCHANGED <<nsVars, coVars, envVars>>

\* No entry has the volume group looked for.  The deletions take ENOENT for
\* success.
ResolveNotFound(h) ==
    /\ handler[h].pc = "resolve"
    /\ \E c \in Candidates(h) : Tried(h, c) \subseteq exported
    /\ IF handler[h].op \in {"DeleteVolume", "DeleteSnapshot"}
       THEN Goto(h, "reply") ELSE ReturnError(h)
    /\ UNCHANGED <<nsVars, coVars, envVars>>

\* The entry named by the request or its source is in another zone.
ResolveWrongZone(h) ==
    /\ handler[h].pc = "resolve"
    /\ Pinned(h) /\ Candidates(h) = {}
    /\ ReturnError(h)
    /\ UNCHANGED <<nsVars, coVars, envVars>>

CrashAll == handler' = [h \in Handlers |-> Idle]

\* No entry has the zone: the loop leaves err nil and err.Error() panics.
ResolvePanics(h) ==
    /\ handler[h].pc = "resolve"
    /\ ~Pinned(h) /\ Candidates(h) = {}
    /\ CrashAll
    /\ UNCHANGED <<nsVars, coVars, envVars>>

-----------------------------------------------------------------------------
(* CreateVolume, after resolveNS.                                          *)

Away(v) == v.config \in exported

\* What the appliance shows: nothing while the pool is away.
Visible(v) == VolumeExists(v) /\ ~Away(v)

\* Slip: the capacity is not passed on.
CreateNewUnsized(h) ==
    LET v == handler[h].vol IN
    /\ At(h, "CreateVolume", "create")
    /\ \/ Visible(v) /\ Goto(h, "getExisting") /\ UNCHANGED nsVars
       \/ ~Away(v) /\ ~VolumeExists(v) /\ NsCreateVolume(v, 0) /\ Goto(h, "reply")
    /\ UNCHANGED <<coVars, envVars>>

\* Slip: EEXIST is an error like any other.
CreateNewOnce(h) ==
    LET v == handler[h].vol IN
    /\ At(h, "CreateVolume", "create")
    /\ \/ (Away(v) \/ Visible(v)) /\ ReturnError(h) /\ UNCHANGED nsVars
       \/ ~Away(v) /\ ~VolumeExists(v) /\ NsCreateVolume(v, handler[h].size) /\ Goto(h, "reply")
    /\ UNCHANGED <<coVars, envVars>>

\* createNewVolume: the call itself.
CreateNew(h) ==
    LET v == handler[h].vol IN
    /\ At(h, "CreateVolume", "create")
    /\ \/ Away(v) /\ ReturnError(h) /\ UNCHANGED nsVars
       \/ Visible(v) /\ Goto(h, "getExisting") /\ UNCHANGED nsVars
       \/ ~Away(v) /\ ~VolumeExists(v) /\ NsCreateVolume(v, handler[h].size) /\ Goto(h, "reply")
    /\ UNCHANGED <<coVars, envVars>>

\* Slip: any volume found is taken.
AnySize(h) == TRUE

SizeAgrees(h) == volume[handler[h].vol].size = handler[h].size

\* createNewVolume: EEXIST is success if the volume has the requested size.
GetExisting(h) ==
    /\ At(h, "CreateVolume", "getExisting")
    /\ IF Visible(handler[h].vol) /\ SizeAgrees(h) THEN Goto(h, "reply") ELSE ReturnError(h)
    /\ UNCHANGED <<nsVars, coVars, envVars>>

SnapshotVisible(s) == SnapshotExists(s) /\ ~Away(s.volume)

\* createNewVolumeFromSnapshot: the source snapshot must be there.
GetSnapshot(h) ==
    /\ At(h, "CreateVolume", "getSnapshot")
    /\ IF SnapshotVisible(handler[h].snap) THEN Goto(h, "clone") ELSE ReturnError(h)
    /\ UNCHANGED <<nsVars, coVars, envVars>>

\* Slip: without its snapshot the volume is created empty.
CloneOrCreate(h) ==
    LET v == handler[h].vol  s == handler[h].snap IN
    /\ At(h, "CreateVolume", "clone")
    /\ \/ Visible(v) /\ Goto(h, "reply") /\ UNCHANGED nsVars
       \/ ~SnapshotVisible(s) /\ ~VolumeExists(v) /\ NsCreateVolume(v, handler[h].size) /\ Goto(h, "reply")
       \/ SnapshotVisible(s) /\ ~VolumeExists(v) /\ NsCloneSnapshot(s, v) /\ Goto(h, "reply")
    /\ UNCHANGED <<coVars, envVars>>

\* CloneSnapshot: EEXIST is success, whatever the volume found there is.
Clone(h) ==
    LET v == handler[h].vol  s == handler[h].snap IN
    /\ At(h, "CreateVolume", "clone")
    /\ \/ Visible(v) /\ Goto(h, "reply") /\ UNCHANGED nsVars
       \/ ~SnapshotVisible(s) /\ ReturnError(h) /\ UNCHANGED nsVars
       \/ SnapshotVisible(s) /\ ~VolumeExists(v) /\ NsCloneSnapshot(s, v) /\ Goto(h, "reply")
    /\ UNCHANGED <<coVars, envVars>>

-----------------------------------------------------------------------------
(* CreateSnapshotOnNS, called by CreateSnapshot and by createClonedVolume. *)

\* Slip: the volume's own snapshot counts as taken (s.Parent is not compared).
NameTakenByAny(s) ==
    \E t \in SnapIds : SnapshotExists(t) /\ t.tag = s.tag /\ t.volume.config = s.volume.config

\* Another volume of the group has a snapshot of that name.
NameTaken(s) ==
    \E t \in SnapIds : /\ SnapshotExists(t) /\ t.tag = s.tag
                      /\ t.volume.config = s.volume.config /\ t.volume # s.volume

\* Slip: a snapshot the volume already has is good enough to clone.
ListSnapshotsReuse(h) ==
    LET s == handler[h].snap IN
    /\ handler[h].pc = "listSnapshots"
    /\ IF Away(s.volume) \/ NameTaken(s) THEN ReturnError(h)
       ELSE IF handler[h].op = "CreateVolume" /\ SnapshotsOf(s.volume) # {}
       THEN \E t \in SnapshotsOf(s.volume) :
              handler' = [handler EXCEPT ![h].pc = "clone", ![h].snap = t]
       ELSE Goto(h, "createSnapshot")
    /\ UNCHANGED <<nsVars, coVars, envVars>>

ListSnapshots(h) ==
    LET s == handler[h].snap IN
    /\ handler[h].pc = "listSnapshots"
    /\ IF Away(s.volume) \/ NameTaken(s) THEN ReturnError(h) ELSE Goto(h, "createSnapshot")
    /\ UNCHANGED <<nsVars, coVars, envVars>>

\* Slip: EEXIST is an error like any other.
CreateSnapshotOnce(h) ==
    LET s == handler[h].snap IN
    /\ handler[h].pc = "createSnapshot"
    /\ \/ (SnapshotVisible(s) \/ ~Visible(s.volume)) /\ ReturnError(h) /\ UNCHANGED nsVars
       \/ Visible(s.volume) /\ ~SnapshotExists(s) /\ NsCreateSnapshot(s) /\ Goto(h, "getCreated")
    /\ UNCHANGED <<coVars, envVars>>

CreateSnapshotOnNS(h) ==
    LET s == handler[h].snap IN
    /\ handler[h].pc = "createSnapshot"
    /\ \/ SnapshotVisible(s) /\ Goto(h, "getCreated") /\ UNCHANGED nsVars
       \/ ~Visible(s.volume) /\ ReturnError(h) /\ UNCHANGED nsVars
       \/ Visible(s.volume) /\ ~SnapshotExists(s) /\ NsCreateSnapshot(s) /\ Goto(h, "getCreated")
    /\ UNCHANGED <<coVars, envVars>>

GetCreated(h) ==
    /\ handler[h].pc = "getCreated"
    /\ IF SnapshotVisible(handler[h].snap)
       THEN Goto(h, IF handler[h].op = "CreateVolume" THEN "clone" ELSE "reply")
       ELSE ReturnError(h)
    /\ UNCHANGED <<nsVars, coVars, envVars>>

-----------------------------------------------------------------------------
(* DeleteVolume and DeleteSnapshot.                                        *)

\* The mappings are read once; the loop works on what was read.
GetLuns(h) ==
    /\ At(h, "DeleteVolume", "getLuns")
    /\ handler' = [handler EXCEPT ![h].pc = "destroyLuns", ![h].luns = Mapped(handler[h].vol)]
    /\ UNCHANGED <<nsVars, coVars, envVars>>

\* One turn of the loop: a mapping that is gone already is an error here.
DestroyLun(h) ==
    /\ At(h, "DeleteVolume", "destroyLuns")
    /\ \E m \in handler[h].luns :
         IF m \in lun
         THEN NsDestroyLunMapping(m) /\ handler' = [handler EXCEPT ![h].luns = @ \ {m}]
         ELSE ReturnError(h) /\ UNCHANGED nsVars
    /\ UNCHANGED <<coVars, envVars>>

\* Slip: clones are destroyed with the volume (no promotion).
DestroyVolumeAndClones(h) ==
    LET v == handler[h].vol IN
    /\ At(h, "DeleteVolume", "destroyLuns") /\ handler[h].luns = {}
    /\ Visible(v) /\ Mapped(v) = {}
    /\ LET gone == {v} \cup UNION {Clones(s) : s \in SnapshotsOf(v)} IN
       /\ volume' = [x \in VolIds |-> IF x \in gone THEN Absent ELSE volume[x]]
       /\ snapshot' = [s \in SnapIds |-> IF s.volume \in gone THEN Absent ELSE snapshot[s]]
    /\ Goto(h, "reply")
    /\ UNCHANGED <<lun, coVars, envVars>>

\* Slip: the snapshot a clone was made from is destroyed with it.
DestroyVolumeAndOrigin(h) ==
    LET v == handler[h].vol  o == volume[v].origin IN
    /\ At(h, "DeleteVolume", "destroyLuns") /\ handler[h].luns = {}
    /\ Visible(v) /\ Mapped(v) = {} /\ ClonedSnapshots(v) = {}
    /\ volume' = [volume EXCEPT ![v] = Absent]
    /\ snapshot' = [s \in SnapIds |-> IF s = o THEN Absent ELSE snapshot[s]]
    /\ Goto(h, "reply")
    /\ UNCHANGED <<lun, coVars, envVars>>

\* Slip: EBUSY is taken for success too.
DestroyVolumeUnchecked(h) ==
    LET v == handler[h].vol IN
    /\ At(h, "DeleteVolume", "destroyLuns") /\ handler[h].luns = {}
    /\ \/ (~Visible(v) \/ Mapped(v) # {}) /\ Goto(h, "reply") /\ UNCHANGED nsVars
       \/ Visible(v) /\ Mapped(v) = {} /\ NsDestroyVolume(v) /\ Goto(h, "reply")
    /\ UNCHANGED <<coVars, envVars>>

\* Slip: PromoteMostRecentCloneIfExists is not set.
DestroyVolumeNoPromotion(h) ==
    LET v == handler[h].vol IN
    /\ At(h, "DeleteVolume", "destroyLuns") /\ handler[h].luns = {}
    /\ \/ ~Visible(v) /\ Goto(h, "reply") /\ UNCHANGED nsVars
       \/ Visible(v) /\ Mapped(v) = {} /\ NsDestroyAlone(v) /\ Goto(h, "reply")
       \/ /\ Visible(v) /\ (Mapped(v) # {} \/ ClonedSnapshots(v) # {})
          /\ ReturnError(h) /\ UNCHANGED nsVars
    /\ UNCHANGED <<coVars, envVars>>

\* ENOENT is success; a mapped volume is busy, and so is one whose clones
\* cannot be promoted.
DestroyVolume(h) ==
    LET v == handler[h].vol IN
    /\ At(h, "DeleteVolume", "destroyLuns") /\ handler[h].luns = {}
    /\ \/ ~Visible(v) /\ Goto(h, "reply") /\ UNCHANGED nsVars
       \/ Visible(v) /\ Mapped(v) = {} /\ NsDestroyVolume(v) /\ Goto(h, "reply")
       \/ /\ Visible(v) /\ (Mapped(v) # {} \/ NsPromotionBlocked(v))
          /\ ReturnError(h) /\ UNCHANGED nsVars
    /\ UNCHANGED <<coVars, envVars>>

\* ENOENT is success; a snapshot with clones is busy.
DestroySnapshot(h) ==
    LET s == handler[h].snap IN
    /\ At(h, "DeleteSnapshot", "destroySnapshot")
    /\ \/ ~SnapshotVisible(s) /\ Goto(h, "reply") /\ UNCHANGED nsVars
       \/ SnapshotVisible(s) /\ Clones(s) # {} /\ ReturnError(h) /\ UNCHANGED nsVars
       \/ SnapshotVisible(s) /\ Clones(s) = {} /\ NsDestroySnapshot(s) /\ Goto(h, "reply")
    /\ UNCHANGED <<coVars, envVars>>

-----------------------------------------------------------------------------
(* The answer.  Nobody hears it when the call has been given up.           *)

\* CreateVolume reports the requested capacity, not the volume's.
Created(h) ==
    IF handler[h].op = "CreateVolume" /\ handler[h].live
    THEN claim' = [claim EXCEPT ![handler[h].obj].phase = "bound",
                                ![handler[h].obj].vol = handler[h].vol,
                                ![handler[h].obj].size = handler[h].size]
    ELSE IF handler[h].op = "DeleteVolume" /\ handler[h].live
    THEN claim' = [claim EXCEPT ![handler[h].obj].phase = "released"]
    ELSE UNCHANGED claim

Snapped(h) ==
    IF handler[h].op = "CreateSnapshot" /\ handler[h].live
    THEN snap' = [snap EXCEPT ![handler[h].obj].phase = "ready",
                              ![handler[h].obj].id = handler[h].snap]
    ELSE IF handler[h].op = "DeleteSnapshot" /\ handler[h].live
    THEN snap' = [snap EXCEPT ![handler[h].obj].phase = "released"]
    ELSE UNCHANGED snap

Reply(h) ==
    /\ handler[h].pc = "reply"
    /\ Created(h) /\ Snapped(h)
    /\ handler' = [handler EXCEPT ![h] = Idle]
    /\ UNCHANGED <<nsVars, late, envVars>>

HandlerStep(h) ==
    \/ Resolve(h) \/ ResolveNotFound(h) \/ ResolveWrongZone(h) \/ ResolvePanics(h)
    \/ CreateNew(h) \/ GetExisting(h) \/ GetSnapshot(h) \/ Clone(h)
    \/ ListSnapshots(h) \/ CreateSnapshotOnNS(h) \/ GetCreated(h)
    \/ GetLuns(h) \/ DestroyLun(h) \/ DestroyVolume(h) \/ DestroySnapshot(h)
    \/ Reply(h)

-----------------------------------------------------------------------------
(* The nodes, the application and the faults.                              *)

\* NodeStageVolume maps the volume; a stage the CO gave up may do so late.
NodeMaps(n, host) ==
    LET m == [volume |-> claim[n].vol, host |-> host] IN
    /\ claim[n].phase \in {"bound", "deleting"} /\ Visible(claim[n].vol) /\ m \notin lun
    /\ claim[n].phase = "deleting" => faults < MaxFaults
    /\ faults' = IF claim[n].phase = "deleting" THEN faults + 1 ELSE faults
    /\ NsCreateLunMapping(m)
    /\ UNCHANGED <<handler, coVars, exported>>

\* ControllerUnpublishVolume unmaps it, late ones included.
NodeUnmaps(n, host) ==
    LET m == [volume |-> claim[n].vol, host |-> host] IN
    /\ claim[n].phase \in {"bound", "deleting"} /\ m \in lun
    /\ claim[n].phase = "deleting" => faults < MaxFaults
    /\ faults' = IF claim[n].phase = "deleting" THEN faults + 1 ELSE faults
    /\ NsDestroyLunMapping(m)
    /\ UNCHANGED <<handler, coVars, exported>>

Write(n) ==
    /\ claim[n].phase = "bound" /\ Visible(claim[n].vol) /\ Mapped(claim[n].vol) # {}
    /\ volume[claim[n].vol].content.writes < MaxWrites
    /\ NsWrite(claim[n].vol)
    /\ UNCHANGED <<handler, coVars, envVars>>

Fault == faults < MaxFaults /\ faults' = faults + 1

\* A REST call fails; its effect, if it had one, is the step before.
Fail(h) ==
    /\ handler[h].pc # "idle" /\ Fault
    /\ ReturnError(h)
    /\ UNCHANGED <<nsVars, coVars, exported>>

\* The sidecar's call times out.  The handler does not notice.
AbandonCall(h) ==
    /\ handler[h].live /\ Fault
    /\ handler' = [handler EXCEPT ![h].live = FALSE]
    /\ late' = IF handler[h].op = "CreateVolume" THEN late \cup {handler[h].obj} ELSE late
    /\ UNCHANGED <<nsVars, claim, snap, exported>>

\* The controller pod restarts; it persists nothing.
Crash ==
    /\ \E h \in Handlers : handler[h].pc # "idle"
    /\ Fault /\ CrashAll
    /\ UNCHANGED <<nsVars, coVars, exported>>

PoolExport(c) ==
    /\ c \in Exportable \ exported /\ Fault
    /\ exported' = exported \cup {c}
    /\ UNCHANGED <<nsVars, handler, coVars>>

PoolImport(c) ==
    /\ c \in exported /\ exported' = exported \ {c}
    /\ UNCHANGED <<nsVars, handler, coVars, faults>>

-----------------------------------------------------------------------------
Calls(h) ==
    \/ \E n \in Names : CallDeleteVolume(h, n) \/ \E size \in Sizes : CallCreateVolume(h, n, size)
    \/ \E s \in Snaps : CallCreateSnapshot(h, s) \/ CallDeleteSnapshot(h, s)

Environment ==
    \/ \E n \in Names, host \in Hosts : NodeMaps(n, host) \/ NodeUnmaps(n, host)
    \/ \E n \in Names : Write(n)
    \/ \E h \in Handlers : Fail(h) \/ AbandonCall(h)
    \/ \E c \in Configs : PoolExport(c) \/ PoolImport(c)
    \/ Crash

Next == (\E h \in Handlers : Calls(h) \/ HandlerStep(h)) \/ Environment

Spec == Init /\ [][Next]_vars

\* Goroutines run and REST calls return; the sidecars' queues come back to
\* every object; an exported pool is imported again.  The CO need never
\* delete anything, but it repeats a deletion it has begun.
Fairness ==
    /\ \A h \in Handlers : WF_vars(HandlerStep(h))
    /\ \A c \in Configs : WF_vars(PoolImport(c))
    /\ \A n \in Names :
         /\ SF_vars(\E h \in Handlers, size \in Sizes : CallCreateVolume(h, n, size))
         /\ SF_vars(claim[n].phase = "deleting" /\ \E h \in Handlers : CallDeleteVolume(h, n))
    /\ \A s \in Snaps :
         /\ SF_vars(\E h \in Handlers : CallCreateSnapshot(h, s))
         /\ SF_vars(snap[s].phase = "deleting" /\ \E h \in Handlers : CallDeleteSnapshot(h, s))

FairSpec == Spec /\ Fairness

-----------------------------------------------------------------------------
(* Properties.                                                             *)

\* Every variable keeps its type; the CO and the handlers hold well-formed ids.
TypeOK ==
    /\ NsTypeOK
    /\ handler \in [Handlers -> HandlerStates]
    /\ claim \in [Names -> ClaimStates]
    /\ snap \in [Snaps -> SnapStates]
    /\ exported \subseteq Configs
    /\ late \subseteq Names
    /\ faults \in Nat

\* A volume the CO was given exists from CreateVolume's answer until the CO
\* asks for its deletion: no retry, late handler, crash, or deletion of the
\* volume it was cloned from takes it away (the promotion in DeleteVolume).
BoundVolumesExist ==
    \A n \in Names : claim[n].phase = "bound" =>
        VolumeExists(claim[n].vol) /\ claim[n].vol.name = n

\* The source of n is a snapshot of a volume whose claim is being deleted and late:
\* a CreateVolume given up may make the volume again, with nothing in it, and a
\* CreateSnapshot given up then the snapshot, under the id the CO knows.
SourceRemade(n) ==
    LET src == Claim[n].source  m == SnapClaim[src.of].volume IN
    src.kind = "snapshot" /\ claim[m].phase # "bound" /\ m \in late

\* The CO gets the content it asked for: a plain volume is its own, a cloned
\* or restored one descends from its source and holds all that the source held
\* when CreateVolume was first called, also when a retry accepts a snapshot or
\* a volume that an earlier attempt left (EEXIST taken for success); unless the
\* snapshot was made again in between.
ContentAsRequested ==
    \A n \in Names : claim[n].phase = "bound" =>
        LET held == volume[claim[n].vol].content  since == claim[n].since IN
        IF Claim[n].source.kind = "none" THEN held.root = n
        ELSE ~SourceRemade(n) =>
               since # NoContent /\ held.root = since.root /\ held.writes >= since.writes

\* A plain volume has the capacity CreateVolume reported, also when two calls
\* with different capacities overlapped.
CapacityAsReported ==
    \A n \in Names : claim[n].phase = "bound" /\ Claim[n].source.kind = "none" =>
        volume[claim[n].vol].size = claim[n].size

\* A snapshot reported ready can be found under its id until its deletion, or
\* the deletion of the volume it was taken of, is asked for.
ReadySnapshotsExist ==
    \A s \in Snaps : snap[s].phase = "ready" =>
        \/ SnapshotExists(snap[s].id)
        \/ claim[SnapClaim[s].volume].phase \in {"deleting", "released"}

\* A volume is on an appliance of the zone its claim was given, and on the one
\* its StorageClass or its source names, whichever entry a retry tried before.
PlacedAsRequested ==
    \A n \in Names : claim[n].phase = "bound" =>
        LET c == claim[n].vol.config  src == Claim[n].source IN
        /\ Claim[n].zone \in {NoZone, Zone[c]}
        /\ src.kind = "none" => Claim[n].config \in {AnyConfig, c}
        /\ src.kind = "volume" /\ claim[src.of].vol # NoVolume => claim[src.of].vol.config = c

\* A claim that may be placed on any appliance.
Placeable(n) == Claim[n].config = AnyConfig /\ Claim[n].source.kind = "none"

\* No volume is left behind: one that exists is the one its claim is bound to
\* or is deleting, or its claim is still being provisioned.  The exceptions
\* are the ones the code has: a copy on another appliance than the retry
\* picked, and a volume made by a handler the CO had given up.
NothingLeftBehind ==
    \A v \in VolIds : VolumeExists(v) =>
        \/ claim[v.name].phase = "unbound"
        \/ claim[v.name].phase \in {"bound", "deleting"} /\ claim[v.name].vol = v
        \/ Placeable(v.name) /\ faults > 0 /\ claim[v.name].vol # v
        \/ v.name \in late

\* A deletion that was begun is answered without error in the end: mapped,
\* cloned and snapshotted volumes included, once faults stop.
DeletionsFinish ==
    \A n \in Names : claim[n].phase = "deleting" ~> claim[n].phase = "released"

\* A plain claim is bound in the end, whatever earlier attempts left behind.
ClaimsGetBound ==
    \A n \in Names : Claim[n].source.kind = "none" =>
        (claim[n].phase = "unbound" ~> claim[n].phase = "bound")

\* A cloned claim is bound in the end if its source stays, and so is a
\* snapshot made ready: the steps done by a failed attempt do not block retries.
ClonesGetBound ==
    \A n, m \in Names : Claim[n].source = [kind |-> "volume", of |-> m] =>
        ([](claim[m].phase \in {"unbound", "bound"}) => <>(claim[n].phase = "bound"))

SnapshotsGetReady ==
    \A s \in Snaps :
        [](claim[SnapClaim[s].volume].phase \in {"unbound", "bound"}) => <>(snap[s].phase # "none")

\* controllerServer.go:222: a request no configured zone matches is answered
\* "No nsProvider found", and the process lives on.
UnmatchedZoneIsAnswered == [][\A h \in Handlers : ~ResolvePanics(h)]_vars

=============================================================================
