# NexentaStor CSI driver (block): a verification project in TLA+

This directory models the control logic of the driver under `src/pkg`, checks it with TLC on
small instances and proves part of it with TLAPS for every instance. Line numbers refer to
`src/`; CS is `pkg/driver/controllerServer.go`, NS `pkg/driver/nodeServer.go`, CF
`pkg/config/config.go`, ID `pkg/driver/identityServer.go`.

    tlc -workers 2 -config provision_clone.cfg MCProvisioning     # any run of the tables below
    tlapm ProvisioningProofs.tla                                  # any of the *Proofs modules

## 1. The system and its parts

The driver is one Go process per pod. The controller pod runs the identity and the controller
service, every node pod the identity and the node service (`--role`). gRPC starts a goroutine for
each call; nothing in the driver serializes them, there is no lock in `pkg/driver` or
`pkg/config`, no handler looks at its context, and nothing is persisted: what survives a restart
is on the appliance. A handler is a sequence of REST calls to a NexentaStor appliance, with
decisions on the results in between.

| part | state | operations | interacts with |
|---|---|---|---|
| NexentaStor appliance (external) | volumes, snapshots, clone origins, LUN mappings, targets, target and host groups, initiators | the REST calls of `go-nexentastor` | controller and node handlers of every pod |
| controller: provisioning (CS 435-1083) | none of its own | CreateVolume, DeleteVolume, CreateSnapshot, DeleteSnapshot | sidecars (callers), appliance |
| controller: attachment (CS 1324-1460) | none | ControllerPublishVolume, ControllerUnpublishVolume | external-attacher, appliance, the nodes' mappings |
| controller: expansion (CS 293-367) | none | ControllerExpandVolume | external-resizer, appliance, NodeExpandVolume |
| controller: listing and answers (CS 225-291, 396-432, 1086-1322) | none | ListSnapshots, ListVolumes, GetCapacity, ValidateVolumeCapabilities | sidecars |
| node: LUN allocation (NS 244-602, 913-973) | none of its own | the first half of NodeStageVolume | other nodes, through the appliance |
| node: devices (NS 127-241, 603-911, 975-1126, 1214-1304) | kernel: sessions, devices, mounts, links | stage, unstage, publish, unpublish, expand | kubelet, iscsiadm, mount, blkid |
| configuration (CF, CS 76-98, NS 71-92) | `Config` (shared by all services of the process), `nsResolverMap` of each service | New, Refresh, Validate, refreshConfig | the file, the secrets of requests |
| identity (ID) | the shared `Config` | Probe | sidecars |
| driver, role, command line | the gRPC server | Run | - |

What is hard here:

- **Overlap and lateness.** The sidecars and the kubelet give up after a timeout and call again
  while the first handler still runs; effects of the first may land after the second was answered.
- **Failure between two REST calls**, by an error, a restart of the pod or a failover of the
  appliance; the retry must recognize what the earlier attempt left, from EEXIST and ENOENT alone.
- **Check, then act, across REST calls**: a snapshot name, the number of LUNs of a target, the
  authentication of a target, an existing mapping, the host group of an initiator.
- **Clones**: deleting a volume that has clones promotes one of them, which moves snapshots
  between volumes.
- **A shared configuration** refreshed by every handler, with a modification time that decides for
  all services of the process at once.

What makes each part correct: a volume the CO holds stays, with the content, size and place asked
for; nothing is left behind that nobody refers to; a ready snapshot stays; a deletion ends and
destroys; retries end. A target keeps its limit and its kind of authentication; a volume has one
mapping, an initiator one host group. A handler works with the configuration of its request, or
with one the file held while it ran; no resolver is built from an invalid one. A pod has
its own volume at its path, what it wrote stays written, and a volume said to be detached is no longer
reachable. A volume is never smaller than its claim was told, and its file system follows. A walk
through the pages of a listing shows everything that was there all along, once.

`PROJECT.json` lists the hazards by line, with the properties that watch them.

## 2. Modules

| module | models | runs, proofs |
|---|---|---|
| `NexentaStor` | the appliance as provisioning uses it (external) | through `Provisioning` |
| `Provisioning` | CreateVolume, DeleteVolume, CreateSnapshot, DeleteSnapshot, resolveNS, the CO, faults | `MCProvisioning`, `ProvisioningProofs`, `ProvisioningAnswersProofs` |
| `ProvisioningContract` | what the controller promises the CO: an abstract specification with no appliance, handler or failure | through `ProvisioningRefinement` |
| `ProvisioningRefinement` | the refinement mapping from `Provisioning` to the contract | `MCProvisioning`, `ProvisioningRefinementProofs` |
| `VolumeAttachment` | NodeStageVolume from the mapping on, publish, unpublish, unstage, ControllerUnpublishVolume | `MCVolumeAttachment`, `VolumeAttachmentProofs` |
| `VolumeExpansion` | ControllerExpandVolume and NodeExpandVolume | `MCVolumeExpansion`, `VolumeExpansionProofs` |
| `Listing` | ListSnapshots and ListVolumes, page by page | `MCListing`, `ListingProofs` |
| `ConfigRefresh` | Config.Refresh, Validate, New, refreshConfig of both services, Probe, the file | `MCConfigRefresh`, `ConfigRefreshProofs` |
| `TargetAllocation` | the first half of NodeStageVolume: host group, target, CHAP, mapping | `MCTargetAllocation`, `TargetAllocationProofs` |

An operator whose comment begins with "Slip:" is no part of a specification: it is a plausible bug in
the definition after it, kept to show that a property notices.

### Provisioning

Each handler is a record in `handler`: `op` and `pc` say which REST call comes next, `obj` is the
claim or snapshot request it serves, `vol`, `snap`, `size`, `luns` are local variables of the code,
and `live` says whether the caller still waits. One action is one REST call with the decision
taken on its result:

| code | actions |
|---|---|
| CreateVolume, plain (CS 681-729) | `Resolve*`, `CreateNew`, `GetExisting`, `Reply` |
| CreateVolume from a snapshot (CS 732-770) | `Resolve*`, `GetSnapshot`, `Clone`, `Reply` |
| CreateVolume from a volume (CS 772-812) | `Resolve*`, `ListSnapshots`, `CreateSnapshotOnNS`, `GetCreated`, `Clone`, `Reply` |
| DeleteVolume (CS 815-894) | `Resolve*`, `GetLuns`, `DestroyLun` (one turn of the loop), `DestroyVolume`, `Reply` |
| CreateSnapshot (CS 897-1014) | `Resolve*`, `ListSnapshots`, `CreateSnapshotOnNS`, `GetCreated`, `Reply` |
| DeleteSnapshot (CS 1017-1083) | `Resolve*`, `DestroySnapshot`, `Reply` |

`Resolve` picks any entry that fits (the code walks a map, in any order). `ResolveNotFound` is the
case in which every entry asked is without the volume group: a request without a zone asks each entry
for its own group, one with a zone asks all for the group of the entry met first (`Tried`, CS 200), and an
appliance is taken to have the group of its own entry only (`Group`). `ResolveWrongZone` is the entry named by the
request in another zone, `ResolvePanics` the nil dereference at CS 218. `claim` and `snap` are the
CO's records: a claim is unbound, bound, deleting or released, and the sidecar calls until it is
answered without error. The environment maps and unmaps volumes (nodes), writes to them, fails REST
calls, times calls out (`AbandonCall`: the handler goes on, its answer is not heard), restarts the
pod (`Crash`), and takes pools away and back (`PoolExport`, `PoolImport`).

Data is abstracted to what the properties tell apart. A volume's content is the claim at the root of
its history and the number of writes since; sizes are numbers of a small set; a volume path is the
entry and the claim's name; a snapshot is its volume and its tag, where the tag of
`k8s-clone-snapshot-<volume>` is `CloneTag(n)`.

Assumptions about the outside, from how CS uses it: one REST call is atomic; a failed call has its
effect or not (the effect is the step before `Fail`); a restart loses no call already sent; a volume with
mappings is busy; destroying a volume that has clones promotes the most recent of them; the sidecars
have one call at a time for an object, and Kubernetes' finalizers keep the source of a clone or of a
snapshot being made (`InUse`).

### ProvisioningContract and ProvisioningRefinement

The contract has what the CO can see: the phase of each claim and snapshot request, what a bound
volume and a ready snapshot hold, and what the source of a clone or a snapshot held when it was
first asked for. A step binds a claim (a plain volume empty, a clone with any state its source had
since it was asked, a restored volume as its snapshot is), writes, begins or ends a deletion. The
mapping looks up the content on the appliances under the id the CO was given; `ImplementsContract`
says that every REST call, promotion, retry, late handler and crash is then one of these steps or no
change. In particular a CreateVolume that accepts what it finds (EEXIST) binds the claim to what the
contract allows, and the deletion of a volume leaves its clones' contents alone.

### ConfigRefresh

`file` is the file, its version standing for the modification time; `nsMap`, `lastModTime` and
`temporary` are the fields of `Config`; `resolvers` has a map for each service. A handler goes through
`Stat`, one of the three outcomes of the comparison at CF 66 (`RefreshUnchanged`,
`RefreshFromSecret`, `RefreshFromFile`), `ReadFile`, `Parse` (unmarshal into the shared map, then
Validate), `Rebuild` (refreshConfig) and `Use`. `CannotRead` and `CannotParse` end it with an error: after
the change is marked as seen (CF 73), and in the second case with what yaml could decode in the shared map and
no validation (CF 80). `Probe` does the same with nothing to rebuild.
`Merge` is what yaml.v2 does to a map that has entries: those of the file replace, the others
stay. An entry is the address it leads to, `Bad` (any error Validate reports) or `Unset` (no
dynamicTargetLunAllocation, which Validate dereferences). A text of a file or a secret (`Texts`) is the entries
yaml decodes of it and whether it does so without an error. `missed` (the servers a change was not reported
to) and `unread` (the last refresh from the file could not read or parse it) are observations for the properties;
no guard reads them.

### TargetAllocation

A handler in `stage` carries the loop variables of ResolveTargetGroup: `todo`, `cand`, `count`,
`min` (minLuns) and `group` (minTargetGroup). Each REST call is an action: `GetHostGroups`,
`CreateHostGroup`, `GetTargetGroups`, `CountLuns`, `GetISCSITarget`, `SetChapAuth`,
`CreateISCSITarget`, `CreateUpdateTargetGroup`, `SetChapAuthOfNew`, `UpdateISCSITarget`,
`CheckMapping`, `CreateISCSIMapping`, `VerifyMapping`. `Attach` stands for the rest of NodeStageVolume.
The host group is the configured one (NS 413) or that of the node's initiator (`HasHostGroup`).
`AfterFailure` is what the code makes of an error at each place: returned, swallowed (NS 252, 265),
kept while a volume with CHAP has its target secured and returned then (`noGroup`; NS 351, 379), or overwritten
(NS 570). Assumed of the appliance: creating a target or group that exists does nothing,
a mapping to a group that does not exist is refused, and what a mapping without a group means
is open: it is made or refused, and no property speaks of it. SetChapAuth's two calls are one
step, since both of its branches end with the credentials set.

### VolumeAttachment

The CO's side is `phase`, how far a volume has been brought on a node, and the calls of the attacher and
the kubelets (one at a time for a volume on a node, repeated until answered). On the appliance there are
`mapping` (volume, node, address: a LUN number behind a target) and `disk` (whether a volume has a file
system, data, or has lost them). A node's kernel has `device`, from names to addresses, and what is at the
`staging` and `target` path of each volume: nothing, a directory, a link (which holds a device's
name) or a mount (which holds the device). Names and LUN numbers are used again once free, which is
what the properties are about.

| code | actions |
|---|---|
| NodeStageVolume, from the mapping on (NS 573-715) | `Map`, `StatPath`, `DeviceFound` / `Sleep` / `DeadlineExceeded` (the doubling wait), then `Link` or `Blkid`, `Format`, `Mount`, `Reply` |
| NodePublishVolume (NS 833-911) | `FindStaged`, `LinkTarget` or `MountTarget`, `Reply` |
| NodeUnpublishVolume (NS 1077-1126) | `CheckTarget`, `UnmountTarget`, `RemoveTarget` or `RemoveDir`, `Reply` |
| NodeUnstageVolume (NS 735-815) | `FindDevice`, `UnmountStaging`, `RemoveDevice`, `RemoveStaging`, `Reply` |
| ControllerUnpublishVolume (CS 1376-1460) | `GetLuns`, `DestroyLun`, `LunsDestroyed`, `Verify` (one turn of the wait), `Reply` |

`AfterFailure` is what the code makes of a failure at each place: returned, remembered while the next step is
taken (unstage), or read as an answer (blkid). A reboot of a node takes devices and mounts away and
leaves links and directories. `excused` is an observation: the nodes where something happened after which
the properties are known not to hold (section 3.2): a call met a late one for its volume, a link outlived
its device, an unmount failed in an unstage, or the pool was away at a detach. The choice of the target
is any here, since `TargetAllocation` has it in full. Assumed: `iscsiadm` and the kernel show
a mapped address under a free name sooner or later or not at all, mkfs refuses a mounted device, and the
kubelet's directory is on the root file system.

### VolumeExpansion

A volume has the appliance's `size`, the `kernel`'s size of the device and the file system's (`fs`); its
claim has the size asked for (`spec`), the one ControllerExpandVolume answered (`pv`) and the one the pod can
count on (`status`). ControllerExpandVolume (CS 293-367) is `GetVolume`, `UpdateVolume` and the answer, which
is `ReplyHeard` or `ReplyUnheard`; NodeExpandVolume (NS 1214-1304) is `CheckVolume`, `RescanDevice`,
`Resize` and the answer. `RescanFails` is the rescan whose error is only logged. `late` and `unheard` are
observations: the capacities of calls given up, and the volumes whose NodeExpansionRequired was lost or whose
device was not rescanned. `Restage` is a pod that moves: the device is new to its kernel.

### Listing

A walk of a caller goes from token to token; `ListCall` begins a page, `GroupSnapshots`, `VolumeSnapshots`,
`SingleSnapshot` and `EntryVolumes` are the REST calls of one entry, `Answer` ends the page. Objects are
numbered in the order the appliance lists them. `throughout` and `skipped` are observations: the objects that
were there from the beginning of the walk, and whether an error was taken for an empty listing, a token led
nowhere or an entry without the volume was asked (CS 1197), which answers an error or nothing. Groups and paths are taken to differ between entries.

## 3. Runs

All bounds are constants: `Max...` caps faults, writes and edits, the sets in the MC modules cap the
rest. Deadlock is checked except where the system may stop: a CO that wants nothing more
(`Provisioning`), a driver that cannot start on an invalid file (`config_refresh`).

| run | shows |
|---|---|
| `provision_clone` | two appliances, a volume, its clone and a snapshot, two handlers, any two faults: `BoundVolumesExist`, `ContentAsRequested`, `NothingLeftBehind`, `ImplementsContract` |
| `provision_restore` | two appliances, one in a zone, whose pool may go away; a volume there, one restored from a snapshot of it, a clone, and a volume for a zone no entry has; two sizes, two handlers, any two faults: `ContentAsRequested`, `ReadySnapshotsExist`, `CapacityAsReported`, `PlacedAsRequested` |
| `provision_progress` | one fault anywhere, fairness: `DeletionsFinish`, `ClaimsGetBound`, `ClonesGetBound`, `SnapshotsGetReady` |
| `config_refresh` | two services and Probe, one handler at a time, two edits under it, secrets, a failed call, files and secrets that are invalid, panic or are no yaml: `ResolversAreCurrent`, `UnchangedMeansLoaded` |
| `target_limit` | four volumes, two nodes, three targets, a configured host group, stages one at a time and repeated, a failure: `LimitRespected`, `PlainVolumesAvoidChap`, `ChapVolumesAuthenticate` |
| `target_static` | a configured target, two nodes at once, a failure: `OneMappingPerVolume`, `InitiatorInOneHostGroup` |
| `attach` | a file system and a raw block volume on a node with two device names and two LUN numbers, two handlers, a failure, timeout, restart or reboot: `DataSurvives`, `PublishedReachesVolume`, `DetachedIsUnmapped`, `OthersKeepTheirDevices`, `WaitsUpToTwice` |
| `expand` | a file system and a raw block volume, three sizes, two handlers, a fault, fairness: `SizeAsAnswered`, `FileSystemFollows`, `ExpansionFinishes` |
| `listing` | every kind of listing, two entries with three objects each, pages of one, two or any number, a fault: `NoneTwice`, `WalksAreComplete`, `PagesAreSmall` |

The first run of each module that is checked also checks its `TypeOK`. Three more runs are counterexamples
(section 3.1).

Why the bounds are enough to be of interest: two handlers are a call and the retry that overlaps it;
two faults are one that leaves something behind and one that disturbs its repair; two appliances let a
retry choose differently; a volume, its clone and a snapshot are the least that has a promotion. Two
edits let an entry come and go, or a wrong or unreadable text follow a good one and be put right. Two target groups with room and one to be made are the least
in which the loop has a choice; four volumes with a limit of two fill one. Two volumes with two device names
and two LUN numbers are enough for each to be freed and taken by the other. Three sizes let two expansions
overlap, the smaller one late. Three objects with pages of one and two have first, middle and last pages that
end at and inside the listing, with an object to lose between them. ISCSITimeout and LunTimeout are 2 in
`attach` instead of 300 and 60: the waits then have two and one turns. Some properties are checked for one
handler at a time (`config_refresh`, `target_limit`) because with two they do not hold; section
3.2 says how.

### 3.1 Disagreements with the documentation, comments or evident intent

| run | property | what the code does |
|---|---|---|
| `zone_panic` | `UnmatchedZoneIsAnswered` | no entry in the zone: nil dereference (CS 218) |
| `config_probe` | `ChangeIsReported` | Probe consumes a change; the controller's resolvers stay old (ID 42) |
| `attach_shared` | `PublishedReachesVolume` | ControllerUnpublishVolume removes the mappings of all nodes: a shared volume detached from one node is gone for the pods on the others (CS 1433) |

One more has no run of its own. README.md:120 calls iSCSITimeout the maximum time for the discovery of a
device, and the error at NS 639 names it as the time waited, but the loop compares the deadline with the next
sleep and not with the sum of the sleeps (NS 634): with 300 the wait lasts 511 seconds. `WaitsUpToTwice`
(run `attach`) says what holds instead: at least the configured time and less than twice that.

### 3.2 Where the properties stop

What the models contain and no run has a property for, because it would be false, or what an exception of a
property stands for; each is a hazard in `PROJECT.json` at the line named.

Provisioning and configuration:

- DeleteVolume answers OK when the volume group cannot be found just then; the volume is back with the
  pool (CS 856).
- A clone has its source's capacity, not the one reported (CS 654).
- Two CreateSnapshot calls can make two snapshots of one name (CS 978).
- Calls given up can bring a deleted snapshot back empty: a late CreateVolume makes the deleted snapshotted
  volume again, a late CreateSnapshot the snapshot, under the id the CO knows (CS 681, 978), and a restore
  retried after that clones it: the exception `SourceRemade` of `ContentAsRequested`. It takes three handlers
  and three faults, beyond the bounds of the runs; with those TLC finds the property violated without it.
- NothingLeftBehind fails when pools are exported: DeleteVolume answers OK (CS 856). It fails without any
  fault when a zone has no entry: the panic (CS 218) kills the call of another volume between creating and
  answering, and its retry may pick another entry.
- A refresh that fails, to read, parse or validate the file, has marked the change as seen (CF 73), and the next
  one succeeds: with the old entries after a failed read or parse, which is the exception `unread` of
  `UnchangedMeansLoaded`; with the invalid ones of the file, and the old resolvers, after a failed validation.
- A retry in a zone of several entries looks on all of them for the group of the one met first (CS 200).
- Two refreshes at once can leave the older content, for good (CF 66): `UnchangedMeansLoaded` fails
  with two handlers.
- An entry removed from the file stays in memory (CF 80), and a valid file is refused for it; an
  entry without dynamicTargetLunAllocation ends the process (CF 122).

Targets and LUNs:

- Two nodes can take the last place of a target (NS 267), and a configured target is used beyond its
  limit when all are full (NS 325): `LimitRespected` fails with `Overlap = "any"` or a `DefaultTarget`.
- The first of several groups with room need not be the one with the fewest LUNs (NS 267).
- A target can be found before it is set to CHAP (NS 347): `PlainVolumesAvoidChap` fails with
  overlapping nodes. With a configured target a failed CHAP set-up is overwritten (NS 570):
  `ChapVolumesAuthenticate` fails with `Dynamic = FALSE`.
- Two stages on one node can make two host groups (NS 938). A configured host group is taken as it is (NS 414):
  nobody looks whether the node's initiator is in it.
- A volume staged again can be mapped a second time, through another target (NS 573).

Devices:

- A late stage that mounts between the unmount and the removal of an unstage (NS 786, 804) makes
  RemoveAll delete the files of the volume.
- After an unmount that failed, a retried unstage deletes whatever device has the name now (NS 792); so does
  an unstage of a raw block volume that is repeated or comes after a reboot, since the link outlives the device.
- A raw block volume cannot be staged or published again: `ln -s` fails on the link of the earlier attempt
  (NS 670, 885), where the comment at NS 659 asks for the opposite. This is why no liveness is stated of
  `VolumeAttachment`.
- blkid failing for any reason is taken for an empty device, which is formatted (NS 688); `attach` has
  `BlkidFails = FALSE`.
- ControllerUnpublishVolume says OK when the volume group is away, with the mappings still there (CS 1415),
  and its wait for the LUNs lasts some 1900 seconds where its message says 61 (CS 1447-1457).
- `findmnt --target` answers the device of the enclosing file system where nothing is mounted (NS 1281).

Expansion and listing:

- A late ControllerExpandVolume with a smaller size shrinks the volume (CS 352): the exception `late`.
- NodeExpansionRequired is set only by the call that resized (CS 361), and a failed rescan is only
  logged (NS 221): the exception `unheard`. A raw block volume's device is not rescanned (NS 1266).
- When GetSnapshots fails in a listing of everything, the nil response is dereferenced (CS 1108).
- Pages over several entries exceed max_entries (CS 1111) and lose objects (CS 1111, 1296); ListVolumes keeps
  the next token of the entry it met last. A group that cannot be found is an empty listing (CS 1208), and
  so is one whose token was deleted (CS 1221). ListVolumes overlooks errors (CS 1296).
- The parameters of a listing by volume are shadowed (CS 1197), so any entry may be searched; if it answers an
  empty list, the walk is empty: the exception `skipped`.

### 3.3 Fairness

Two runs need it: `provision_progress` and `expand` (`FairSpec`). A handler's steps are weakly fair:
goroutines run and REST calls return. The calls of the sidecars and the kubelet are strongly fair: their
work queues come back to every object, but the slot a call needs is a bound of the model and may be taken,
again and again, by calls for other objects. An exported pool is imported again. The CO need never ask for a
deletion or an expansion, but repeats one it has begun. Nothing is assumed of faults, nodes and
applications, whose number is bounded.

## 4. Proofs

`ProvisioningProofs` proves, for every choice of the constants that satisfies the ASSUMEs:

- `TypeCorrect`: `Spec => []TypeOK`. The inductive invariant is `TypeInv`: `TypeOK` and what a
  handler must know at each step (`Known`): past `resolve` it has a volume where the call is about
  one, before `clone` a snapshot.
- `BoundVolumesStay`: `Spec => []BoundVolumesExist`. A volume could only be taken from a bound claim
  by a DeleteVolume, and the difficulty is to show that no such handler is about, late ones
  included. `OwnershipInv` says why: an object has at most one live call (`OneCallEach`); a live
  CreateVolume belongs to an unbound claim (`CreatesAreUnbound`); a DeleteVolume, live or late,
  works on the volume of a claim that is deleting or released, and these never become bound again
  (`DeletesAreAsked`); and a live CreateVolume about to answer has its volume
  (`AnswersAreTrue`). The proof has one lemma per conjunct, and in each a step per action.

`ProvisioningRefinementProofs` proves the refinement and what its invariant gives:

- `RefinesContract`: `Spec => ImplementsContract`. A clone's internal snapshot and a snapshot of the CO are
  made alike, so the invariant `ContentInv` speaks of a *request*, which is one or the other. While the source
  is bound, the snapshot of a request is on the source's volume and nowhere else, and holds a state the source
  has had since it was asked for (`SnapshotsAreFresh`, `AsksAreFresh`): this is why EEXIST may be taken for
  success, and why a promotion, which moves snapshots, moves none of a bound volume. A handler, live or
  late, works on the snapshot of its request (`CallsAreAsked`) and takes the steps of its kind of source
  (`StepsFit`); a live CreateSnapshot that is about to answer has its snapshot (`SnapAnswersAreTrue`), and one
  reported ready stays where it was made (`ReadyStay`). So whatever a claim finds under its name before it is bound
  is what it asks for (`VolumesAreAsRequested`). With that, binding, releasing, asking, writing and making a
  snapshot ready are steps of the contract, and every other action changes nothing the CO can see. `TagsDiffer` is needed:
  with one name for two snapshots on volumes of one entry, the second request would take over the first's id.
- `ReadySnapshotsStay`: `Spec => []ReadySnapshotsExist`, from `ReadyStay`.

`ProvisioningAnswersProofs` proves what CreateVolume's answer tells, on top of that invariant:

- `VolumesArePlaced`: `Spec => []PlacedAsRequested`. A call that has chosen an entry has chosen a fitting one
  (`EntriesChosen`), and never chooses again.
- `ContentsAreKept`: `Spec => []ContentAsRequested`. For a clone, `ContentInv` and the step that binds
  suffice (`ClonesHold`). For a restored volume the property compares with what the snapshot held when the
  volume was asked for, and the snapshotted volume may be deleted meanwhile, which is where `ContentInv` ends.
  `RestoreInv` follows the snapshot from there: it lives and dies with a volume (`SnapshotsHaveVolumes`), and a
  claim whose volume is gone does not get it back unless late calls are about (`Settled`); a ready snapshot is
  there as long as a volume is (`ReadyAreThere`) and keeps what the claim found when it first asked
  (`SnapshotsStay`); a live restore keeps its snapshot from being deleted by the CO (`CallsRestore`). So what a
  restore has made holds it (`RestoredAreWhole`), and still does when bound (`RestoresHold`).
- `NothingIsLeft`: `Spec => []NothingLeftBehind`, if no pool is exported and every zone asked for has an entry
  (`ZonesHaveEntries`); section 3.2 says how it fails without either. A claim that names an entry or has a
  source can be on one entry only, and a handler that is no longer heard is of a late claim (`Belonging`,
  `GivenUpAreLate`); a DeleteVolume about to answer OK has destroyed the volume (`DeletionsAreDone`); and
  without faults the volume that exists is the one its claim has, or is about to be told of (`FirstTriesHold`).
- `CapacityIsTrue`: `Spec => []CapacityAsReported`. CreateVolume answers only after it has created the volume
  with the size or read that size back (`SizesMeasured`), and no REST call of provisioning changes a size.

`TargetAllocationProofs` proves, for every number of nodes, volumes, targets, handlers and failures:

- `TargetTypeCorrect`: `Spec => []TypeOK`. `TypeInv` adds that a handler past the host group knows it,
  one looking at a candidate has one, and that there are finitely many mappings, so that their count
  is a number.
- `ChapVolumesStaySecured`: with `Dynamic`, `Spec => []ChapVolumesAuthenticate`, for any overlap.
  `ChoicesAreSecured` is what makes it inductive: a handler for a volume with CHAP has chosen a target
  that is secured, unless it is at work on securing a new one; and no call takes CHAP off a target or
  credentials off an initiator (`SecuredStays`), so that the choice is still good at the mapping.
- `InitiatorsStayApart`: with `Overlap # "any"`, `Spec => []InitiatorInOneHostGroup`. Only the node
  itself could undo what its GetHostGroups saw (`NewHostsAreNew`, `NodesTakeTurns`).
- `LimitIsKept`: with `Overlap = "none"` and no configured target, `Spec => []LimitRespected`.
  `ChoicesHaveRoom`: the group chosen or looked at has room, and a new one has no LUNs, until the
  mapping is made; `AbsentAreEmpty`: a name that is free has no LUNs left from before. Section 3.2
  says what happens without the two assumptions.
- `PlainVolumesStayPlain`: under the same two assumptions, `Spec => []PlainVolumesAvoidChap`. A target comes
  to ask for CHAP only in a stage of a volume with CHAP that has just made it, and with stages one at a time
  such a target has no LUNs yet (`ChapComes`), so that no plain volume is behind it or has chosen it
  (`ChoicesArePlain`).
- `VolumesAreMappedOnce`: with a configured target (`~Dynamic`) and `Overlap # "any"`,
  `Spec => []OneMappingPerVolume`. Every handler takes the configured target and the configured host group, or
  that of its own initiator (`AllGuided`), and so did the maker of every mapping (`MappingsAreOwn`);
  `InitiatorsStayApart` says that group is the same each time, and CreateISCSIMapping of the same volume, target and group finds what is
  there.

`VolumeExpansionProofs` proves, for every set of volumes and sizes and every number of handlers and faults:

- `ExpansionTypeCorrect`: `Spec => []TypeOK`.
- `ExpansionSizeAsAnswered`: `Spec => []SizeAsAnswered`. An answer says a size the volume had some time
  before. `SizeInv` says what holds in between: of two handlers with the same volume and side at most one is
  live (`OneCallEach`), and a live one about to answer has a volume at least as large as its capacity, or one a
  late call made smaller (`Answers`).
- `ExpansionFileSystemFollows`: `Spec => []FileSystemFollows`. `FileInv` adds `Follows`: for a volume no
  late call has met and no lost answer, what each handler of the node's half has seen so far (the device
  rescanned, then the file system resized) is at least its capacity, and nothing shrinks in between.

`ListingProofs` proves, for every set of entries and objects, every page size and any number of walks:

- `ListingTypeCorrect`: `Spec => []TypeOK`.
- `ListingPagesAreSmall` and `ListingNoneTwice`, from `WalksInv`: what a walk was given lies before its
  token, the page it is reading behind it, and the next token behind the page; that the first `max` objects
  are no more than `max` is a lemma on finite sets (`PageSmall`).
- `ListingComplete`: `Spec => []WalksAreComplete`. `DebtsInv` says what a walk over one entry still owes:
  every object that was there all along is on an earlier page, on this one, or at or behind the next token,
  as long as the token's object exists.

`ConfigRefreshProofs` proves, for every file, edit, secret, server and failure, but for handlers that do not
overlap (`OneAtATime`; section 3.2 says what two at once do):

- `RefreshTypeCorrect`: `Spec => []TypeOK`; above all, that resolvers are only built from what Validate passed.
- `HandlersAreCurrent`: `Spec => []ResolversAreCurrent`, and `UnchangedIsLoaded`:
  `Spec => []UnchangedMeansLoaded`, which is about every refresh but one that could not read or parse the file
  (`unread`): such a refresh has marked a change as seen and left what was in memory. The file may change between any two steps, and yaml merges what is read
  into what was there. `RefreshInv` follows one configuration from the file to the resolvers: what is read, in
  memory or served was in the file since the handler was asked, and is what it holds now if its modification
  time is the last one seen (`Loads`, `Serves`). A handler that loads a change takes it from the other servers,
  which are `missed` from then on (`Takes`). Between handlers, `Loaded` and `Resolved` say the same of the map
  in memory and of each server's resolvers.

`VolumeAttachmentProofs` proves, for every number of nodes, volumes, devices, addresses, handlers and failures:

- `AttachmentTypeCorrect`: `Spec => []TypeOK`. `Good` adds that a call takes the steps of its operation only,
  and that the sleeps of the wait so far come to one less than the next one.
- `WaitsLastUpToTwice`: `Spec => WaitsUpToTwice`. From `Good`, and because nothing but `DeadlineExceeded` ends a wait
  without a fault.
- `DetachedVolumesAreUnmapped`: `Spec => []DetachedIsUnmapped`. Between the turn of the wait that sees no
  mapping and the answer, and after it, a NodeStageVolume could make one. On a node not excused a live call has
  its volume to itself, late calls included (`CallsAreAlone`); so a detach about to answer sees what stays true
  (`DetachesAreTrue`), and when it has answered no call for the volume is left on the node (`DetachedAreLeft`).
  Every step that begins no call is summed up as `Quietly`: handlers go on or return, and mappings are made only
  by those at `map`.
- `PublishedVolumesAreReached` and `OthersDevicesAreKept`: `Spec => []PublishedReachesVolume` and
  `Spec => OthersKeepTheirDevices`, if no volume is used on two nodes at once (`SharedVolumes = {}`).
  `NamesInv` is the life of a name: an address stands for one volume and has one device name, and the device a
  mount holds keeps its address. On a node not excused, handlers for a volume are there one at a time, and of
  the kind its phase allows (`AloneInv`). `OwnInv` says that every path, and every handler that has found a
  device, has one of the volume's own, except the link left while an unstage removes the device it points to.
  Names and LUN numbers are therefore taken by another volume only when no path has them. With shared volumes
  both fail: a detach takes the mappings of all nodes away (`attach_shared`).
- `DataAreKept`: `Spec => []DataSurvives`, if moreover blkid does not fail (`BlkidFails = FALSE`). `DataInv`: a
  handler about to format has seen the device of its own volume empty, and since it is alone nobody has written
  since; what is about to be removed is not mounted. Two nodes could both find a shared volume empty, and a
  failing blkid is taken for an empty device (NS 688).

The theorems rest on the ASSUMEs of the modules they are about, which TLC evaluates in the runs of the MC
modules, and on the assumptions they state. Every invariant and action property of a passing run is stated by a
theorem. Only model-checked: liveness (`DeletionsFinish`, `ClaimsGetBound`, `ClonesGetBound`,
`SnapshotsGetReady`, `ExpansionFinishes`), because the prover does not reason about fairness and ENABLED.

## 5. Plan

1. `VolumeAttachment` composed with `TargetAllocation`, so that a second mapping through another target is
   followed to the device.
2. Credentials in `TargetAllocation` as a value for each volume (NS 491).
3. `Provisioning` composed with `VolumeExpansion`, so that a size the CO was told is compared with the one a
   clone or a retry finds.

## 6. Not modelled

GetCapacity, ValidateVolumeCapabilities, the capabilities, NodeGetInfo and NodeGetVolumeStats read and answer,
and keep no state. Sockets, flags and logging of the driver and the command line, the array helpers, and
the end-to-end tests with their utilities have no part in the properties. The memory model of Go (concurrent
writes of a map are a crash in the runtime) is not modelled: `ConfigRefresh` takes each access as atomic.
Credentials, TLS, mount options, permissions, the kinds of file systems and the parsing of paths are left out.
