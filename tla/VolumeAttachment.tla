--------------------------- MODULE VolumeAttachment ---------------------------
(***************************************************************************)
(* What happens to a volume on a node (nodeServer.go): NodeStageVolume from *)
(* the mapping on, NodePublishVolume, NodeUnpublishVolume and              *)
(* NodeUnstageVolume, and ControllerUnpublishVolume (controllerServer.go)  *)
(* which takes the mappings away.  A step for each REST call or command.   *)
(*                                                                         *)
(* A node's kernel has devices under names (sda); a name stands for the    *)
(* LUN address it was found at, and reaches the volume the appliance maps  *)
(* there for this node.  Names are used again once a device is gone, and   *)
(* so are LUN numbers.  A mount holds its device, a link only its name.    *)
(* TargetAllocation has the choice of the target in full; here it is any.  *)
(***************************************************************************)
EXTENDS Naturals, FiniteSets

CONSTANTS
  Nodes, Volumes,
  BlockVolumes,     \* volumes used as raw block devices
  SharedVolumes,    \* volumes with a MULTI_NODE access mode
  Targets, Luns,    \* an address is a LUN number behind a target
  Devices,          \* names of the kernel
  None,
  Handlers,         \* slots of concurrent handlers
  ISCSITimeout,     \* seconds NodeStageVolume is to wait for a device; compared with
                    \* one sleep, not with their sum
  LunTimeout,       \* 60, of ControllerUnpublishVolume
  BlkidFails,       \* TRUE: getFSType may fail on a device that has data
  MaxFaults         \* bound: failures, calls given up, restarts, reboots

Addresses == [target : Targets, lun : Luns]
Mappings == [volume : Volumes, node : Nodes, at : Addresses]

ASSUME KindAssumption == BlockVolumes \subseteq Volumes /\ SharedVolumes \subseteq Volumes
ASSUME NoneAssumption == None \notin Devices \cup Addresses \cup Nodes \cup Volumes
ASSUME WaitAssumption ==
  ISCSITimeout \in Nat \ {0} /\ LunTimeout \in Nat /\ LunTimeout >= 2
ASSUME FaultAssumption == BlkidFails \in BOOLEAN /\ MaxFaults \in Nat

VARIABLES
  mapping,     \* LUN mappings: volume, node, address
  disk,        \* what a volume holds: "empty", "formatted", "written" or "lost"
  device,      \* [node -> [name -> address or None]]
  staging,     \* [node -> [volume -> what is at the staging target path]]
  target,      \* [node -> [volume -> what is at the pod's target path]]
  phase,       \* [node -> [volume -> how far the CO has brought it]]
  handler,
  excused,     \* nodes where a call met a late one for its volume, a link outlived its
               \* device or a pool was away (observation)
  faults

kernel == <<device, staging, target>>
vars == <<mapping, disk, kernel, phase, handler, excused, faults>>

Phases == {"detached", "detaching", "attached", "staging", "staged", "publishing",
           "published", "unpublishing", "unstaging"}

NoPath == [is |-> "absent", dev |-> None, at |-> None]
Dir == [is |-> "dir", dev |-> None, at |-> None]
LinkTo(d) == [is |-> "link", dev |-> d, at |-> None]
MountOf(n, d) == [is |-> "mount", dev |-> d, at |-> device[n][d]]

Idle == [op |-> "none", pc |-> "idle", node |-> None, volume |-> None, at |-> None,
         dev |-> None, seen |-> None, sleep |-> 0, waited |-> 0, luns |-> {}, live |-> FALSE]

Init ==
  /\ mapping = {}
  /\ disk = [v \in Volumes |-> "empty"]
  /\ device = [n \in Nodes |-> [d \in Devices |-> None]]
  /\ staging = [n \in Nodes |-> [v \in Volumes |-> NoPath]]
  /\ target = [n \in Nodes |-> [v \in Volumes |-> NoPath]]
  /\ phase = [n \in Nodes |-> [v \in Volumes |-> "detached"]]
  /\ handler = [h \in Handlers |-> Idle]
  /\ excused = {}
  /\ faults = 0

----------------------------------------------------------------------------
(* What a device, and what a path, reaches.                                *)

MappedAt(n, a) == {m.volume : m \in {x \in mapping : x.node = n /\ x.at = a}}
ReachedBy(n, d) == IF d = None \/ device[n][d] = None THEN {} ELSE MappedAt(n, device[n][d])
Reaches(n, path) ==
  CASE path.is = "mount" -> MappedAt(n, path.at)
    [] path.is = "link" -> ReachedBy(n, path.dev)
    [] OTHER -> {}

Paths(n) == {staging[n][v] : v \in Volumes} \cup {target[n][v] : v \in Volumes}
MountedOn(n, d) == \E p \in Paths(n) : p.is = "mount" /\ p.dev = d

----------------------------------------------------------------------------
(* The CO: the attacher and the kubelets.  One call at a time for a volume  *)
(* on a node, repeated until it is answered without error; a teardown that *)
(* was begun is finished first.  ControllerPublishVolume changes nothing.  *)

Call(h, n, v, op, pc, from, to) ==
  /\ handler[h].pc = "idle"
  /\ \A g \in Handlers :
       ~(handler[g].live /\ handler[g].node = n /\ handler[g].volume = v)
  /\ phase[n][v] \in from
  /\ phase' = [phase EXCEPT ![n][v] = to]
  /\ handler' = [handler EXCEPT ![h] =
       [Idle EXCEPT !.op = op, !.pc = pc, !.node = n, !.volume = v, !.live = TRUE]]
  /\ excused' = IF \E g \in Handlers : handler[g].volume = v THEN excused \cup {n} ELSE excused
  /\ UNCHANGED <<mapping, disk, kernel, faults>>

ControllerPublishVolume(n, v) ==
  /\ phase[n][v] = "detached"
  /\ v \in SharedVolumes \/ \A o \in Nodes : phase[o][v] = "detached"
  /\ phase' = [phase EXCEPT ![n][v] = "attached"]
  /\ UNCHANGED <<mapping, disk, kernel, handler, excused, faults>>

NodeStageVolume(h, n, v) ==
  Call(h, n, v, "Stage", "map", {"attached", "staging"}, "staging")
NodePublishVolume(h, n, v) ==
  Call(h, n, v, "Publish", "findStaged", {"staged", "publishing"}, "publishing")
NodeUnpublishVolume(h, n, v) ==
  Call(h, n, v, "Unpublish", "checkTarget", {"publishing", "published", "unpublishing"},
       "unpublishing")
NodeUnstageVolume(h, n, v) ==
  Call(h, n, v, "Unstage", "findDevice", {"staging", "staged", "unstaging"}, "unstaging")
ControllerUnpublishVolume(h, n, v) ==
  Call(h, n, v, "Detach", "getLuns", {"attached", "detaching"}, "detaching")

Answered(op) == CASE op = "Stage" -> "staged" [] op = "Publish" -> "published"
                  [] op = "Unpublish" -> "staged" [] op = "Unstage" -> "attached"
                  [] OTHER -> "detached"

----------------------------------------------------------------------------
(* Handlers.                                                               *)

Put(h, local) == handler' = [handler EXCEPT ![h] = local]
Goto(h, pc) == Put(h, [handler[h] EXCEPT !.pc = pc])
Return(h) == Put(h, Idle)
Node(h) == handler[h].node
Volume(h) == handler[h].volume
IsBlock(h) == Volume(h) \in BlockVolumes

At(h, pc) == handler[h].pc = pc /\ UNCHANGED <<excused, faults>>

SetPath(paths, h, p) == [paths EXCEPT ![Node(h)][Volume(h)] = p]

\* An OK.  Nobody hears it when the call has been given up; the next pod has
\* a target path of its own.
Reply(h) ==
  /\ At(h, "reply")
  /\ IF handler[h].live
     THEN phase' = [phase EXCEPT ![Node(h)][Volume(h)] = Answered(handler[h].op)]
     ELSE UNCHANGED phase
  /\ target' = IF handler[h].op = "Unpublish" /\ handler[h].live
               THEN SetPath(target, h, NoPath) ELSE target
  /\ Return(h)
  /\ UNCHANGED <<mapping, disk, device, staging>>

(* NodeStageVolume *)

\* The mapping there is behind the target chosen, or a new one; the appliance
\* refuses when the target has no LUN left.
Map(h) ==
  /\ At(h, "map")
  /\ \E t \in Targets :
       LET found == {m \in mapping : m.volume = Volume(h) /\ m.node = Node(h) /\ m.at.target = t}
           free == {a \in Addresses : a.target = t /\ MappedAt(Node(h), a) = {}}
           Use(a) == Put(h, [handler[h] EXCEPT !.pc = "stat", !.at = a])
       IN \/ \E m \in found : Use(m.at) /\ UNCHANGED mapping
          \/ /\ found = {}
             /\ \E a \in free :
                  /\ mapping' = mapping \cup {[volume |-> Volume(h), node |-> Node(h), at |-> a]}
                  /\ Use(a)
          \/ found = {} /\ free = {} /\ Return(h) /\ UNCHANGED mapping
  /\ UNCHANGED <<disk, kernel, phase>>

\* Slip: the address is remembered, not the device.
StatPathAddress(h) ==
  LET p == staging[Node(h)][Volume(h)] IN
  /\ At(h, "stat")
  /\ Put(h, [handler[h] EXCEPT !.pc = "wait", !.sleep = 1, !.seen = p.at])
  /\ UNCHANGED <<mapping, disk, kernel, phase>>

\* What findmnt answers for the staging path, before the wait.
StatPath(h) ==
  LET p == staging[Node(h)][Volume(h)] IN
  /\ At(h, "stat")
  /\ Put(h, [handler[h] EXCEPT !.pc = "wait", !.sleep = 1,
               !.seen = IF p.is = "mount" THEN p.dev ELSE None])
  /\ UNCHANGED <<mapping, disk, kernel, phase>>

\* The kernel finds a LUN behind a target that is rescanned.
DeviceAppears(n, d, a) ==
  /\ \E h \in Handlers : handler[h].pc = "wait" /\ Node(h) = n /\ handler[h].at.target = a.target
  /\ MappedAt(n, a) # {} /\ \A o \in Devices : device[n][o] # a
  /\ device[n][d] = None /\ ~MountedOn(n, d)
  /\ device' = [device EXCEPT ![n][d] = a]
  /\ UNCHANGED <<mapping, disk, staging, target, phase, handler, excused, faults>>

\* Slip: any device of the target will do.
DeviceFoundAny(h) ==
  /\ At(h, "wait") /\ handler[h].sleep <= ISCSITimeout
  /\ \E d \in Devices :
       /\ device[Node(h)][d] # None
       /\ Put(h, [handler[h] EXCEPT !.dev = d, !.pc = IF IsBlock(h) THEN "link" ELSE "blkid"])
  /\ UNCHANGED <<mapping, disk, kernel, phase>>

\* Found: the volume is staged already, or the device is linked or mounted.  What is
\* needed no more is forgotten, here and in RemoveDevice.
DeviceFound(h) ==
  /\ At(h, "wait") /\ handler[h].sleep <= ISCSITimeout
  /\ \E d \in Devices :
       /\ device[Node(h)][d] = handler[h].at
       /\ Put(h, [handler[h] EXCEPT !.dev = d, !.at = None, !.seen = None, !.sleep = 0,
                    !.waited = 0,
                    !.pc = IF handler[h].seen = d THEN "reply"
                           ELSE IF IsBlock(h) THEN "link" ELSE "blkid"])
  /\ UNCHANGED <<mapping, disk, kernel, phase>>

Sleep(h) ==
  /\ At(h, "wait") /\ handler[h].sleep <= ISCSITimeout
  /\ \A d \in Devices : device[Node(h)][d] # handler[h].at
  /\ Put(h, [handler[h] EXCEPT !.waited = @ + handler[h].sleep, !.sleep = 2 * @])
  /\ UNCHANGED <<mapping, disk, kernel, phase>>

\* Slip: off by one.
DeadlineReached(h) ==
  /\ At(h, "wait") /\ handler[h].sleep >= ISCSITimeout
  /\ Return(h)
  /\ UNCHANGED <<mapping, disk, kernel, phase>>

DeadlineExceeded(h) ==
  /\ At(h, "wait") /\ handler[h].sleep > ISCSITimeout
  /\ Return(h)
  /\ UNCHANGED <<mapping, disk, kernel, phase>>

\* ln -s fails when the link is there.
Link(h) ==
  /\ At(h, "link")
  /\ IF staging[Node(h)][Volume(h)].is = "link"
     THEN Return(h) /\ UNCHANGED staging
     ELSE Goto(h, "reply") /\ staging' = SetPath(staging, h, LinkTo(handler[h].dev))
  /\ UNCHANGED <<mapping, disk, device, target, phase>>

\* No answer of blkid, whatever the reason, means that there is no file system.
HasFileSystem(h) == \E v \in ReachedBy(Node(h), handler[h].dev) : disk[v] # "empty"

\* Slip: formatted whatever is there.
BlkidUnheeded(h) ==
  /\ At(h, "blkid")
  /\ Goto(h, "format")
  /\ UNCHANGED <<mapping, disk, kernel, phase>>

Blkid(h) ==
  /\ At(h, "blkid")
  /\ Goto(h, IF HasFileSystem(h) THEN "mount" ELSE "format")
  /\ UNCHANGED <<mapping, disk, kernel, phase>>

\* mkfs refuses a device that is mounted on this node.
Format(h) ==
  LET reached == ReachedBy(Node(h), handler[h].dev) IN
  /\ At(h, "format")
  /\ IF reached # {} /\ ~MountedOn(Node(h), handler[h].dev)
     THEN /\ disk' = [v \in Volumes |->
                        IF v \notin reached THEN disk[v]
                        ELSE IF disk[v] = "written" THEN "lost" ELSE "formatted"]
          /\ Goto(h, "mount")
     ELSE Return(h) /\ UNCHANGED disk
  /\ UNCHANGED <<mapping, kernel, phase>>

\* mountVolume: a path that is a mount point already is left as it is.
Mounted(h, paths) ==
  IF paths[Node(h)][Volume(h)].is = "mount" THEN Goto(h, "reply") /\ paths' = paths
  ELSE IF HasFileSystem(h)
       THEN Goto(h, "reply") /\ paths' = SetPath(paths, h, MountOf(Node(h), handler[h].dev))
       ELSE Return(h) /\ paths' = SetPath(paths, h, Dir)

Mount(h) ==
  /\ At(h, "mount") /\ Mounted(h, staging)
  /\ UNCHANGED <<mapping, disk, device, target, phase>>

(* NodePublishVolume *)

FindStaged(h) ==
  LET p == staging[Node(h)][Volume(h)] IN
  /\ At(h, "findStaged")
  /\ IF p.is \in {"mount", "link"}
     THEN Put(h, [handler[h] EXCEPT !.dev = p.dev,
                    !.pc = IF IsBlock(h) THEN "linkTarget" ELSE "mountTarget"])
     ELSE Return(h)
  /\ UNCHANGED <<mapping, disk, kernel, phase>>

LinkTarget(h) ==
  /\ At(h, "linkTarget")
  /\ IF target[Node(h)][Volume(h)].is = "link"
     THEN Return(h) /\ UNCHANGED target
     ELSE Goto(h, "reply") /\ target' = SetPath(target, h, LinkTo(handler[h].dev))
  /\ UNCHANGED <<mapping, disk, device, staging, phase>>

MountTarget(h) ==
  /\ At(h, "mountTarget") /\ Mounted(h, target)
  /\ UNCHANGED <<mapping, disk, device, staging, phase>>

(* NodeUnpublishVolume *)

\* A link to a device that is gone counts as absent.
CheckTarget(h) ==
  LET p == target[Node(h)][Volume(h)] IN
  /\ At(h, "checkTarget")
  /\ Goto(h, CASE p.is = "mount" -> "unmountTarget"
               [] p.is = "link" /\ device[Node(h)][p.dev] # None -> "unmountTarget"
               [] p.is = "dir" -> "removeDir"
               [] OTHER -> "reply")
  /\ UNCHANGED <<mapping, disk, kernel, phase>>

Unmounted(paths, h) ==
  IF paths[Node(h)][Volume(h)].is = "mount" THEN SetPath(paths, h, Dir) ELSE paths

UnmountTarget(h) ==
  /\ At(h, "unmountTarget")
  /\ target' = Unmounted(target, h)
  /\ Goto(h, "removeTarget")
  /\ UNCHANGED <<mapping, disk, device, staging, phase>>

Emptied(h, path) ==
  [v \in Volumes |-> IF path.is = "mount" /\ v \in Reaches(Node(h), path) THEN "lost" ELSE disk[v]]

\* Slip: the link is left.
RemovedUnlessLink(h, paths) ==
  /\ paths' = IF paths[Node(h)][Volume(h)].is = "link" THEN paths ELSE SetPath(paths, h, NoPath)
  /\ Goto(h, "reply") /\ UNCHANGED disk

\* RemoveAll: of a path still mounted the files go, and then it is busy.
Removed(h, paths) ==
  LET p == paths[Node(h)][Volume(h)] IN
  /\ disk' = Emptied(h, p)
  /\ IF p.is = "mount" THEN Return(h) /\ paths' = paths
                       ELSE Goto(h, "reply") /\ paths' = SetPath(paths, h, NoPath)

RemoveTarget(h) ==
  /\ At(h, "removeTarget") /\ Removed(h, target)
  /\ UNCHANGED <<mapping, device, staging, phase>>

\* A path that was no mount point is removed, and if it cannot be, so be it.
RemoveDir(h) ==
  LET p == target[Node(h)][Volume(h)] IN
  /\ At(h, "removeDir")
  /\ disk' = Emptied(h, p)
  /\ target' = IF p.is = "mount" THEN target ELSE SetPath(target, h, NoPath)
  /\ Goto(h, "reply")
  /\ UNCHANGED <<mapping, device, staging, phase>>

(* NodeUnstageVolume: an error is remembered, and the next step taken. *)

FindDevice(h) ==
  /\ At(h, "findDevice")
  /\ Put(h, [handler[h] EXCEPT !.dev = staging[Node(h)][Volume(h)].dev,
               !.pc = IF IsBlock(h) THEN "removeDevice" ELSE "unmountStaging"])
  /\ UNCHANGED <<mapping, disk, kernel, phase>>

UnmountStaging(h) ==
  /\ At(h, "unmountStaging")
  /\ staging' = Unmounted(staging, h)
  /\ Goto(h, "removeDevice")
  /\ UNCHANGED <<mapping, disk, device, target, phase>>

\* Whatever has the name now goes; a mount of it is left with nothing.
Detached(paths, n, d) ==
  [paths EXCEPT ![n] = [v \in Volumes |->
     IF paths[n][v].is = "mount" /\ paths[n][v].dev = d
     THEN [paths[n][v] EXCEPT !.at = None] ELSE paths[n][v]]]

RemoveDevice(h) ==
  /\ At(h, "removeDevice")
  /\ IF handler[h].dev = None THEN UNCHANGED kernel
     ELSE /\ device' = [device EXCEPT ![Node(h)][handler[h].dev] = None]
          /\ staging' = Detached(staging, Node(h), handler[h].dev)
          /\ target' = Detached(target, Node(h), handler[h].dev)
  /\ Put(h, [handler[h] EXCEPT !.pc = "removeStaging", !.dev = None])
  /\ UNCHANGED <<mapping, disk, phase>>

RemoveStaging(h) ==
  /\ At(h, "removeStaging") /\ Removed(h, staging)
  /\ UNCHANGED <<mapping, device, target, phase>>

(* ControllerUnpublishVolume: the mappings of the volume, whatever the node. *)

LunsOf(h) == {m \in mapping : m.volume = Volume(h)}

GetLuns(h) ==
  /\ At(h, "getLuns")
  /\ Put(h, [handler[h] EXCEPT !.pc = "destroyLuns", !.luns = LunsOf(h)])
  /\ UNCHANGED <<mapping, disk, kernel, phase>>

DestroyLun(h) ==
  /\ At(h, "destroyLuns")
  /\ \E m \in handler[h].luns :
       IF m \in mapping
       THEN mapping' = mapping \ {m} /\ Put(h, [handler[h] EXCEPT !.luns = @ \ {m}])
       ELSE Return(h) /\ UNCHANGED mapping
  /\ UNCHANGED <<disk, kernel, phase>>

LunsDestroyed(h) ==
  /\ At(h, "destroyLuns") /\ handler[h].luns = {}
  /\ Put(h, [handler[h] EXCEPT !.pc = "verify", !.sleep = 2])
  /\ UNCHANGED <<mapping, disk, kernel, phase>>

Verify(h) ==
  /\ At(h, "verify")
  /\ IF LunsOf(h) = {} THEN Goto(h, "reply")
     ELSE IF handler[h].sleep > LunTimeout THEN Return(h)
     ELSE Put(h, [handler[h] EXCEPT !.sleep = @ + 1])
  /\ UNCHANGED <<mapping, disk, kernel, phase>>

----------------------------------------------------------------------------
(* The application and the faults.                                         *)

Write(n, v) ==
  /\ phase[n][v] = "published"
  /\ \E w \in Reaches(n, target[n][v]) :
       /\ disk[w] \in {"empty", "formatted"}
       /\ disk' = [disk EXCEPT ![w] = "written"]
  /\ UNCHANGED <<mapping, kernel, phase, handler, excused, faults>>

Fault == faults < MaxFaults /\ faults' = faults + 1

\* Unstaging a raw device finds it by name, each time.
CutShort(h) == handler[h].op = "Unstage" /\ IsBlock(h)

\* Slip: mappings that cannot be listed are taken for gone.
AfterFailureUnheeded(h) ==
  [handler[h] EXCEPT !.pc = IF @ = "getLuns" THEN "reply" ELSE "idle"]

AfterFailure(h) ==
  CASE handler[h].pc = "blkid" -> [handler[h] EXCEPT !.pc = "format"]
    [] handler[h].pc = "findDevice" ->
         [handler[h] EXCEPT !.pc = IF IsBlock(h) THEN "removeDevice" ELSE "unmountStaging"]
    [] handler[h].pc = "unmountStaging" -> [handler[h] EXCEPT !.pc = "removeDevice"]
    [] handler[h].pc = "removeDevice" -> [handler[h] EXCEPT !.pc = "removeStaging"]
    [] handler[h].pc = "removeDir" -> [handler[h] EXCEPT !.pc = "reply"]
    [] OTHER -> Idle

\* A REST call or a command fails; its effect is the step before, if it had one.
Fail(h) ==
  /\ handler[h].pc # "idle" /\ Fault
  /\ handler[h].pc = "blkid" => BlkidFails
  /\ Put(h, AfterFailure(h))
  /\ excused' = IF CutShort(h) \/ handler[h].pc = "unmountStaging"
                THEN excused \cup {Node(h)} ELSE excused
  /\ UNCHANGED <<mapping, disk, kernel, phase>>

\* The volume group is away: ControllerUnpublishVolume takes it for gone.
ResolveNotFound(h) ==
  /\ handler[h].pc = "getLuns" /\ Fault
  /\ Goto(h, "reply")
  /\ excused' = excused \cup {Node(h)}
  /\ UNCHANGED <<mapping, disk, kernel, phase>>

\* The caller gives up; the handler does not notice.
AbandonCall(h) ==
  /\ handler[h].live /\ Fault
  /\ Put(h, [handler[h] EXCEPT !.live = FALSE])
  /\ UNCHANGED <<mapping, disk, kernel, phase, excused>>

OnController(h) == handler[h].op = "Detach"

\* A process of the driver restarts: what its handlers had done stays done.
Restart(gone) ==
  /\ \E h \in Handlers : handler[h].pc # "idle" /\ h \in gone
  /\ handler' = [h \in Handlers |-> IF h \in gone THEN Idle ELSE handler[h]]
  /\ excused' = excused \cup {Node(h) : h \in {g \in gone : CutShort(g)}}

RestartController ==
  /\ Fault /\ Restart({h \in Handlers : OnController(h)})
  /\ UNCHANGED <<mapping, disk, kernel, phase>>

RestartNodePlugin(n) ==
  /\ Fault /\ Restart({h \in Handlers : ~OnController(h) /\ Node(h) = n})
  /\ UNCHANGED <<mapping, disk, kernel, phase>>

\* The node reboots: devices and mounts are gone, directories and links stay,
\* and its volumes are staged again or torn down.
AfterReboot(path) == IF path.is = "mount" THEN Dir ELSE path
Again(p) == IF p \in {"staged", "publishing", "published"} THEN "staging" ELSE p

NodeReboot(n) ==
  /\ Fault
  /\ device' = [device EXCEPT ![n] = [d \in Devices |-> None]]
  /\ staging' = [staging EXCEPT ![n] = [v \in Volumes |-> AfterReboot(@[v])]]
  /\ target' = [target EXCEPT ![n] = [v \in Volumes |-> AfterReboot(@[v])]]
  /\ phase' = [phase EXCEPT ![n] = [v \in Volumes |-> Again(@[v])]]
  /\ LET gone == {h \in Handlers : ~OnController(h) /\ Node(h) = n} IN
     /\ handler' = [h \in Handlers |-> IF h \in gone THEN Idle ELSE handler[h]]
     /\ excused' = IF \E p \in Paths(n) : p.is = "link" THEN excused \cup {n} ELSE excused
  /\ UNCHANGED <<mapping, disk>>

----------------------------------------------------------------------------
StageStep(h) ==
  \/ Map(h) \/ StatPath(h) \/ DeviceFound(h) \/ Sleep(h) \/ DeadlineExceeded(h)
  \/ Link(h) \/ Blkid(h) \/ Format(h) \/ Mount(h)
PublishStep(h) ==
  \/ FindStaged(h) \/ LinkTarget(h) \/ MountTarget(h)
  \/ CheckTarget(h) \/ UnmountTarget(h) \/ RemoveTarget(h) \/ RemoveDir(h)
UnstageStep(h) ==
  \/ FindDevice(h) \/ UnmountStaging(h) \/ RemoveDevice(h) \/ RemoveStaging(h)
DetachStep(h) == GetLuns(h) \/ DestroyLun(h) \/ LunsDestroyed(h) \/ Verify(h)
HandlerStep(h) ==
  StageStep(h) \/ PublishStep(h) \/ UnstageStep(h) \/ DetachStep(h) \/ Reply(h)

SetUp(h, n, v) == NodeStageVolume(h, n, v) \/ NodePublishVolume(h, n, v)
TearDown(h, n, v) ==
  \/ NodeUnpublishVolume(h, n, v) \/ NodeUnstageVolume(h, n, v)
  \/ ControllerUnpublishVolume(h, n, v)

Environment ==
  \/ \E n \in Nodes, v \in Volumes : ControllerPublishVolume(n, v) \/ Write(n, v)
  \/ \E n \in Nodes, d \in Devices, a \in Addresses : DeviceAppears(n, d, a)
  \/ \E h \in Handlers : Fail(h) \/ ResolveNotFound(h) \/ AbandonCall(h)
  \/ RestartController
  \/ \E n \in Nodes : RestartNodePlugin(n) \/ NodeReboot(n)

Next ==
  \/ \E h \in Handlers :
       HandlerStep(h) \/ \E n \in Nodes, v \in Volumes : SetUp(h, n, v) \/ TearDown(h, n, v)
  \/ Environment

Spec == Init /\ [][Next]_vars

-----------------------------------------------------------------------------
(* Properties.                                                             *)

PathStates ==
  [is : {"absent", "dir", "link", "mount"}, dev : Devices \cup {None},
   at : Addresses \cup {None}]

StagePcs == {"map", "stat", "wait", "link", "blkid", "format", "mount"}
PublishPcs == {"findStaged", "linkTarget", "mountTarget"}
UnpublishPcs == {"checkTarget", "unmountTarget", "removeTarget", "removeDir"}
UnstagePcs == {"findDevice", "unmountStaging", "removeDevice", "removeStaging"}
DetachPcs == {"getLuns", "destroyLuns", "verify"}

Ops == {"Stage", "Publish", "Unpublish", "Unstage", "Detach"}
Pcs == StagePcs \cup PublishPcs \cup UnpublishPcs \cup UnstagePcs \cup DetachPcs
       \cup {"idle", "reply"}

Local ==
  [op : Ops \cup {"none"}, pc : Pcs,
   node : Nodes \cup {None}, volume : Volumes \cup {None}, at : Addresses \cup {None},
   dev : Devices \cup {None}, seen : Devices \cup {None}, sleep : Nat, waited : Nat,
   luns : SUBSET Mappings, live : BOOLEAN]

\* Every variable keeps to its type; a handler at work knows its node and volume.
TypeOK ==
  /\ mapping \subseteq Mappings
  /\ disk \in [Volumes -> {"empty", "formatted", "written", "lost"}]
  /\ device \in [Nodes -> [Devices -> Addresses \cup {None}]]
  /\ staging \in [Nodes -> [Volumes -> PathStates]]
  /\ target \in [Nodes -> [Volumes -> PathStates]]
  /\ phase \in [Nodes -> [Volumes -> Phases]]
  /\ \A h \in Handlers :
       /\ handler[h] \in Local
       /\ handler[h].pc # "idle" => Node(h) # None /\ Volume(h) # None
  /\ excused \subseteq Nodes
  /\ faults \in 0 .. MaxFaults

Quiet(n) == n \notin excused

\* No step takes what the application wrote: no second mkfs (NS 688), no RemoveAll of
\* a path that is mounted (NS 804, 1109, 1121), whatever fails once, restarts or is given up.
DataSurvives == (\A n \in Nodes : Quiet(n)) => \A v \in Volumes : disk[v] # "lost"

\* What a pod has at its target path is its own volume, through LUN numbers and
\* device names that are used again (NS 603, 631, 654, 884, 894).
PublishedReachesVolume ==
  \A n \in Nodes, v \in Volumes :
    Quiet(n) /\ phase[n][v] = "published" => Reaches(n, target[n][v]) = {v}

\* ControllerUnpublishVolume says OK only when the node can no longer reach the
\* volume (CS 1427-1457); the volume may then go to another node.
DetachedIsUnmapped ==
  \A n \in Nodes, v \in Volumes :
    Quiet(n) /\ phase[n][v] = "detached" =>
      ~\E m \in mapping : m.volume = v /\ m.node = n

\* The device NodeUnstageVolume deletes by its name (NS 792) is not one that another
\* volume has got since.
OthersKeepTheirDevices ==
  [][\A h \in Handlers : RemoveDevice(h) /\ Quiet(Node(h)) =>
       ReachedBy(Node(h), handler[h].dev) \subseteq {Volume(h)}]_vars

\* NodeStageVolume gives up on a device after ISCSITimeout seconds at the earliest, and
\* before twice as many: the deadline is compared with one sleep, where the sleeps 1, 2,
\* 4, ... add up (NS 633-653).  README.md:120 calls iSCSITimeout the maximum time for the
\* discovery and NS 639 says that it is what was waited; it is neither: 300 are 511.
WaitsUpToTwice ==
  [][\A h \in Handlers :
       At(h, "wait") /\ handler'[h].pc = "idle" =>
         ISCSITimeout <= handler[h].waited /\ handler[h].waited < 2 * ISCSITimeout]_vars
=============================================================================
