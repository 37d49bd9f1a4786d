----------------------------- MODULE NexentaStor -----------------------------
(***************************************************************************)
(* The NexentaStor appliances behind the driver, as the driver uses them   *)
(* through github.com/Nexenta/go-nexentastor.  The appliances are outside  *)
(* the repository: every operation below is what pkg/driver relies on when *)
(* it makes the call and reads the error code that comes back (ENOENT,     *)
(* EEXIST, EBUSY).  One REST call is one atomic step.                      *)
(*                                                                         *)
(* A volume is named by the configuration entry (the key of                *)
(* nexentastor_map) that reaches its appliance and by the name the         *)
(* container orchestrator (CO) asked for; the volume group is fixed per    *)
(* entry, so it adds nothing to the identity.                              *)
(***************************************************************************)
EXTENDS Naturals, FiniteSets

CONSTANTS
    Configs,      \* entries of nexentastor_map, one appliance (or HA pair) each
    Names,        \* volume names the CO generates, one for each claim
    UserTags,     \* snapshot names the CO generates
    Hosts,        \* initiator host groups volumes are mapped to
    Sizes,        \* capacities a CreateVolume request may ask for
    NoSnapshot,   \* no origin, no source
    Absent        \* the state of a volume or snapshot that does not exist

VolIds == [config : Configs, name : Names]

\* The snapshot CreateVolume makes to clone volume n is "k8s-clone-snapshot-n".
CloneTag(n) == [kind |-> "clone", of |-> n]
UserTag(t)  == [kind |-> "user", of |-> t]
Tags == [kind : {"clone"}, of : Names] \cup [kind : {"user"}, of : UserTags]

SnapIds == [volume : VolIds, tag : Tags]

\* What a volume or a snapshot holds: the volume it descends from and the
\* number of application writes seen since.
Contents == [root : Names, writes : Nat]

Volumes == [size : Sizes, content : Contents, origin : SnapIds \cup {NoSnapshot}]

Snapshots == [content : Contents, size : Sizes]

Mappings == [volume : VolIds, host : Hosts]

ASSUME SizesAssumption    == Sizes \subseteq Nat \ {0}
ASSUME AbsentAssumption   == Absent \notin Volumes /\ Absent \notin Snapshots
ASSUME NoSnapshotAssumption == NoSnapshot \notin SnapIds

VARIABLES
    volume,      \* [VolIds -> Volumes \cup {Absent}]
    snapshot,    \* [SnapIds -> Snapshots \cup {Absent}]
    lun          \* the LUN mappings that exist

nsVars == <<volume, snapshot, lun>>

NsTypeOK ==
    /\ volume \in [VolIds -> Volumes \cup {Absent}]
    /\ snapshot \in [SnapIds -> Snapshots \cup {Absent}]
    /\ lun \subseteq Mappings

NsInit ==
    /\ volume = [v \in VolIds |-> Absent]
    /\ snapshot = [s \in SnapIds |-> Absent]
    /\ lun = {}

VolumeExists(v)   == volume[v] # Absent
SnapshotExists(s) == snapshot[s] # Absent

Clones(s) == {v \in VolIds : VolumeExists(v) /\ volume[v].origin = s}

SnapshotsOf(v) == {s \in SnapIds : s.volume = v /\ SnapshotExists(s)}

Mapped(v) == {m \in lun : m.volume = v}

-----------------------------------------------------------------------------
(* Calls that succeed.  The caller checks the guards it gets error codes for. *)

NsCreateVolume(v, size) ==
    /\ volume' = [volume EXCEPT ![v] =
                    [size    |-> size,
                     content |-> [root |-> v.name, writes |-> 0],
                     origin  |-> NoSnapshot]]
    /\ UNCHANGED <<snapshot, lun>>

\* A clone has the size and the content of its snapshot.
NsCloneSnapshot(s, v) ==
    /\ volume' = [volume EXCEPT ![v] =
                    [size    |-> snapshot[s].size,
                     content |-> snapshot[s].content,
                     origin  |-> s]]
    /\ UNCHANGED <<snapshot, lun>>

NsCreateSnapshot(s) ==
    /\ snapshot' = [snapshot EXCEPT ![s] =
                      [content |-> volume[s.volume].content,
                       size    |-> volume[s.volume].size]]
    /\ UNCHANGED <<volume, lun>>

NsDestroySnapshot(s) ==
    /\ snapshot' = [snapshot EXCEPT ![s] = Absent]
    /\ UNCHANGED <<volume, lun>>

NsCreateLunMapping(m)  == lun' = lun \cup {m} /\ UNCHANGED <<volume, snapshot>>
NsDestroyLunMapping(m) == lun' = lun \ {m} /\ UNCHANGED <<volume, snapshot>>

\* The application writes to a mapped volume.
NsWrite(v) ==
    /\ volume' = [volume EXCEPT ![v].content.writes = @ + 1]
    /\ UNCHANGED <<snapshot, lun>>

-----------------------------------------------------------------------------
(* DestroyVolume(DestroySnapshots, PromoteMostRecentCloneIfExists).        *)

ClonedSnapshots(v) == {s \in SnapshotsOf(v) : Clones(s) # {}}

\* No clone depends on v: the volume goes, with its snapshots.
NsDestroyAlone(v) ==
    /\ ClonedSnapshots(v) = {}
    /\ volume' = [volume EXCEPT ![v] = Absent]
    /\ snapshot' = [s \in SnapIds |-> IF s.volume = v THEN Absent ELSE snapshot[s]]
    /\ UNCHANGED lun

\* Snapshot s as it is named once volume w owns it.
OwnedBy(s, w) == [s EXCEPT !.volume = w]

\* A clone w is promoted: it takes over the snapshots up to its own origin,
\* every cloned one among them, and the origin v had.  The rest go with v.
NsPromoteAndDestroy(v, w, moved) ==
    /\ w \in UNION {Clones(s) : s \in ClonedSnapshots(v)}
    /\ ClonedSnapshots(v) \subseteq moved
    /\ moved \subseteq SnapshotsOf(v)
    /\ \A s \in moved : ~SnapshotExists(OwnedBy(s, w))
    /\ snapshot' = [s \in SnapIds |->
                      IF s.volume = v THEN Absent
                      ELSE IF s.volume = w /\ OwnedBy(s, v) \in moved
                           THEN snapshot[OwnedBy(s, v)]
                           ELSE snapshot[s]]
    /\ volume' = [x \in VolIds |->
                    IF x = v THEN Absent
                    ELSE IF x = w THEN [volume[w] EXCEPT !.origin = volume[v].origin]
                    ELSE IF VolumeExists(x) /\ volume[x].origin \in moved
                         THEN [volume[x] EXCEPT !.origin = OwnedBy(@, w)]
                         ELSE volume[x]]
    /\ UNCHANGED lun

\* The promotion fails when every clone already owns a snapshot of that name.
NsPromotionBlocked(v) ==
    /\ ClonedSnapshots(v) # {}
    /\ \A w \in UNION {Clones(s) : s \in ClonedSnapshots(v)} :
          \E s \in ClonedSnapshots(v) : SnapshotExists(OwnedBy(s, w))

NsDestroyVolume(v) ==
    \/ NsDestroyAlone(v)
    \/ \E w \in VolIds, moved \in SUBSET SnapshotsOf(v) : NsPromoteAndDestroy(v, w, moved)

=============================================================================
