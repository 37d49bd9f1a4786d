-------------------------- MODULE TargetAllocation --------------------------
(***************************************************************************)
(* How NodeStageVolume gives a volume a LUN (nodeServer.go): the host group *)
(* of the node, the target and target group (ResolveTargetGroup when the   *)
(* driver allocates targets, CreateNewTargetTg otherwise or when none      *)
(* fits), CHAP, and the LUN mapping.  Every node runs this against the one *)
(* appliance, a step for each REST call, and nothing holds the appliance   *)
(* still between two calls.                                                *)
(*                                                                         *)
(* Only targets with the prefix of the driver are in the model: the others *)
(* are skipped.  A target group of the driver has its target as its only   *)
(* member and the two share a name.                                        *)
(***************************************************************************)
EXTENDS Naturals, FiniteSets

CONSTANTS
  Nodes,              \* nodes, each with one initiator (IQN)
  Volumes,            \* volumes to be staged
  NodeOf,             \* the node each volume is staged on
  ChapVolumes,        \* volumes with useChapAuth=true
  Targets,            \* names of targets and of their groups
  HostGroups,         \* names of host groups
  None,               \* the empty name
  Dynamic,            \* dynamicTargetLunAllocation
  DefaultTarget,      \* the target the volume context names, or None
  DefaultHostGroup,   \* the host group that is configured, or None
  NumOfLunsPerTarget, \* numOfLunsPerTarget
  Handlers,           \* slots of concurrent NodeStageVolume handlers
  Overlap,            \* which handlers may overlap: "none", "nodes" or "any"
  MaxFaults           \* bound: failed REST calls

ASSUME NodesAssumption == NodeOf \in [Volumes -> Nodes] /\ ChapVolumes \subseteq Volumes
ASSUME NamesAssumption ==
  /\ None \notin Targets \cup HostGroups \cup Nodes
  /\ DefaultTarget \in Targets \cup {None}
  /\ DefaultTarget = None => Dynamic
  /\ DefaultHostGroup \in HostGroups \cup {None}
ASSUME LimitAssumption == NumOfLunsPerTarget \in Nat \ {0}
ASSUME ModeAssumption ==
  Dynamic \in BOOLEAN /\ Overlap \in {"none", "nodes", "any"} /\ MaxFaults \in Nat

VARIABLES
  authentication,   \* of each target: "absent" before it exists, "none", "chap"
  targetGroups,     \* target groups that exist
  members,          \* the member of each host group the driver has made, or None
  initiators,       \* nodes whose remote initiator has the CHAP credentials
  mappings,         \* LUN mappings: volume, target group, host group
  staged,           \* volumes that are staged
  stage,            \* the handlers
  faults            \* failed REST calls so far

appliance == <<authentication, targetGroups, members, initiators, mappings>>
vars == <<appliance, staged, stage, faults>>

(* A handler: what it is at, and the local variables of the code.  min and  *)
(* group are minLuns and minTargetGroup; todo holds the groups the loop has *)
(* yet to visit, cand and count the one it visits; noGroup is the error of  *)
(* CreateUpdateTargetGroup that CreateNewTargetTg still has to answer.     *)
Idle == [pc |-> "idle", volume |-> None, hostGroup |-> None, todo |-> {},
         cand |-> None, count |-> 0, min |-> 0, group |-> None, noGroup |-> FALSE]

Chap(h) == stage[h].volume \in ChapVolumes
NodeAt(h) == NodeOf[stage[h].volume]
Luns(g) == {m \in mappings : m.group = g}
Mappings(v, g, hg) ==
  {m \in mappings : m.volume = v /\ m.hostGroup = hg /\ g \in {m.group, None}}

Init ==
  /\ authentication = [t \in Targets |-> "absent"]
  /\ targetGroups = {}
  /\ members = [hg \in HostGroups |-> None]
  /\ initiators = {}
  /\ mappings = {}
  /\ staged = {}
  /\ stage = [h \in Handlers |-> Idle]
  /\ faults = 0

----------------------------------------------------------------------------
(* The kubelets: stage a volume again after an error, or while an earlier  *)
(* call for it still runs, or when a restarted node has lost its mounts.   *)

MayOverlap(v) ==
  \A h \in Handlers :
    stage[h].pc # "idle" =>
      \/ Overlap = "any"
      \/ Overlap = "nodes" /\ NodeAt(h) # NodeOf[v]

NodeStageVolume(h, v) ==
  /\ stage[h].pc = "idle"
  /\ MayOverlap(v)
  /\ stage' = [stage EXCEPT ![h] = [Idle EXCEPT !.pc = "hosts", !.volume = v]]
  /\ UNCHANGED <<appliance, staged, faults>>

NodeUnstageVolume(v) ==
  /\ v \in staged
  /\ staged' = staged \ {v}
  /\ UNCHANGED <<appliance, stage, faults>>

(* A call of ControllerUnpublishVolume gets as far as removing m; a call to *)
(* stage that was given up may still run.                                  *)
ControllerUnpublishVolume(m) ==
  /\ m.volume \notin staged
  /\ mappings' = mappings \ {m}
  /\ UNCHANGED <<authentication, targetGroups, members, initiators, staged, stage, faults>>

----------------------------------------------------------------------------
(* A handler, call by call.                                                *)

Put(h, local) == stage' = [stage EXCEPT ![h] = local]
Goto(h, pc) == Put(h, [stage[h] EXCEPT !.pc = pc])
Return(h) == Put(h, Idle)

AfterHostGroup == IF Dynamic THEN "groups" ELSE "newTarget"

(* Were the host groups not looked at first. *)
GetHostGroupsNever(h) ==
  /\ stage[h].pc = "hosts"
  /\ Goto(h, "newHost")
  /\ UNCHANGED <<appliance, staged, faults>>

(* The configured host group, which is shared and not looked at, or the one *)
(* that has the node's initiator.                                          *)
HasHostGroup(h, hg) ==
  IF DefaultHostGroup = None THEN members[hg] = NodeAt(h) ELSE hg = DefaultHostGroup

(* The node's host group, or a new one with a name of its own. *)
GetHostGroups(h) ==
  /\ stage[h].pc = "hosts"
  /\ \/ \E hg \in HostGroups :
          /\ HasHostGroup(h, hg)
          /\ Put(h, [stage[h] EXCEPT !.pc = AfterHostGroup, !.hostGroup = hg])
     \/ /\ DefaultHostGroup = None
        /\ \A hg \in HostGroups : ~HasHostGroup(h, hg)
        /\ Goto(h, "newHost")
  /\ UNCHANGED <<appliance, staged, faults>>

CreateHostGroup(h) ==
  /\ stage[h].pc = "newHost"
  /\ \E hg \in HostGroups :
       /\ members[hg] = None
       /\ members' = [members EXCEPT ![hg] = NodeAt(h)]
       /\ Put(h, [stage[h] EXCEPT !.pc = AfterHostGroup, !.hostGroup = hg])
  /\ UNCHANGED <<authentication, targetGroups, initiators, mappings, staged, faults>>

(* The head of ResolveTargetGroup's loop: the next group, or the best found, *)
(* or a new target when none fits.                                          *)
Loop(local) ==
  [local EXCEPT
     !.pc = IF local.todo # {} THEN "count"
            ELSE IF local.group # None THEN "check" ELSE "newTarget",
     !.cand = None, !.count = 0]

GetTargetGroups(h) ==
  /\ stage[h].pc = "groups"
  /\ Put(h, Loop([stage[h] EXCEPT !.todo = targetGroups]))
  /\ UNCHANGED <<appliance, staged, faults>>

(* With a limit one too high. *)
FitsInclusive(local, n) ==
  (local.min = 0 \/ n < local.min) /\ n <= NumOfLunsPerTarget

(* A group with n LUNs is better than what the loop has, and has room. *)
Fits(local, n) ==
  (local.min = 0 \/ n < local.min) /\ n < NumOfLunsPerTarget

CountLuns(h) ==
  /\ stage[h].pc = "count"
  /\ \E g \in stage[h].todo :
       LET n == Cardinality(Luns(g))
           rest == [stage[h] EXCEPT !.todo = @ \ {g}]
       IN Put(h, IF Fits(stage[h], n)
                 THEN [rest EXCEPT !.pc = "target", !.cand = g, !.count = n]
                 ELSE Loop(rest))
  /\ UNCHANGED <<appliance, staged, faults>>

(* minLuns, minTargetGroup and target are set to the group looked at. *)
Choose(local) ==
  Loop([local EXCEPT !.min = local.count, !.group = local.cand])

(* Were any target good for a volume without CHAP. *)
GetISCSITargetForChapOnly(h) ==
  /\ stage[h].pc = "target"
  /\ Put(h, IF Chap(h) /\ authentication[stage[h].cand] # "chap" THEN Loop(stage[h])
            ELSE IF Chap(h) THEN [stage[h] EXCEPT !.pc = "credentials"]
            ELSE Choose(stage[h]))
  /\ UNCHANGED <<appliance, staged, faults>>

(* Were any target good for a volume with CHAP. *)
GetISCSITargetForPlainOnly(h) ==
  /\ stage[h].pc = "target"
  /\ Put(h, IF ~Chap(h) /\ authentication[stage[h].cand] = "chap" THEN Loop(stage[h])
            ELSE IF Chap(h) THEN [stage[h] EXCEPT !.pc = "credentials"]
            ELSE Choose(stage[h]))
  /\ UNCHANGED <<appliance, staged, faults>>

(* A target that does not authenticate as the volume asks is skipped. *)
GetISCSITarget(h) ==
  /\ stage[h].pc = "target"
  /\ Put(h, IF Chap(h) # (authentication[stage[h].cand] = "chap") THEN Loop(stage[h])
            ELSE IF Chap(h) THEN [stage[h] EXCEPT !.pc = "credentials"]
            ELSE Choose(stage[h]))
  /\ UNCHANGED <<appliance, staged, faults>>

(* SetChapAuth for a target that has CHAP: the node's initiator is created  *)
(* or updated.                                                             *)
SetChapAuth(h) ==
  /\ stage[h].pc = "credentials"
  /\ initiators' = initiators \cup {NodeAt(h)}
  /\ Put(h, Choose(stage[h]))
  /\ UNCHANGED <<authentication, targetGroups, members, mappings, staged, faults>>

----------------------------------------------------------------------------
(* CreateNewTargetTg: the target the volume context names, which may be     *)
(* there already, or else one with a name of its own.                      *)

(* Were a target of its own made for every volume that asks. *)
CreateISCSITargetAlways(h) ==
  /\ stage[h].pc = "newTarget"
  /\ \E t \in Targets :
       /\ authentication[t] = "absent"
       /\ authentication' = [authentication EXCEPT ![t] = "none"]
       /\ Put(h, [stage[h] EXCEPT !.pc = "newGroup", !.group = t])
  /\ UNCHANGED <<targetGroups, members, initiators, mappings, staged, faults>>

CreateISCSITarget(h) ==
  /\ stage[h].pc = "newTarget"
  /\ \E t \in Targets :
       /\ IF DefaultTarget = None THEN authentication[t] = "absent" ELSE t = DefaultTarget
       /\ authentication' =
            [authentication EXCEPT ![t] = IF @ = "absent" THEN "none" ELSE @]
       /\ Put(h, [stage[h] EXCEPT !.pc = "newGroup", !.group = t])
  /\ UNCHANGED <<targetGroups, members, initiators, mappings, staged, faults>>

CreateUpdateTargetGroup(h) ==
  /\ stage[h].pc = "newGroup"
  /\ targetGroups' = targetGroups \cup {stage[h].group}
  /\ Goto(h, IF Chap(h) THEN "newCredentials" ELSE "check")
  /\ UNCHANGED <<authentication, members, initiators, mappings, staged, faults>>

SetChapAuthOfNew(h) ==
  /\ stage[h].pc = "newCredentials"
  /\ initiators' = initiators \cup {NodeAt(h)}
  /\ Goto(h, "secure")
  /\ UNCHANGED <<authentication, targetGroups, members, mappings, staged, faults>>

(* The target is secured, and CreateNewTargetTg returns: what it has to say *)
(* of the group ends the call, unless the configuration is static.         *)
UpdateISCSITarget(h) ==
  /\ stage[h].pc = "secure"
  /\ authentication' = [authentication EXCEPT ![stage[h].group] = "chap"]
  /\ IF stage[h].noGroup /\ Dynamic THEN Return(h) ELSE Goto(h, "check")
  /\ UNCHANGED <<targetGroups, members, initiators, mappings, staged, faults>>

----------------------------------------------------------------------------
(* The mapping.  An empty group selects mappings of every group.            *)

CheckMapping(h) ==
  /\ stage[h].pc = "check"
  /\ Goto(h, IF Mappings(stage[h].volume, stage[h].group, stage[h].hostGroup) = {}
             THEN "map" ELSE "attach")
  /\ UNCHANGED <<appliance, staged, faults>>

(* The appliance refuses a group it does not have; what it makes of an      *)
(* empty one is left open.                                                 *)
CreateISCSIMapping(h) ==
  LET m == [volume |-> stage[h].volume, group |-> stage[h].group,
            hostGroup |-> stage[h].hostGroup]
  IN
  /\ stage[h].pc = "map"
  /\ \/ /\ m.group \in targetGroups \cup {None}
        /\ mappings' = mappings \cup {m}
        /\ Goto(h, "verify")
     \/ /\ m.group \notin targetGroups
        /\ Return(h)
        /\ UNCHANGED mappings
  /\ UNCHANGED <<authentication, targetGroups, members, initiators, staged, faults>>

VerifyMapping(h) ==
  /\ stage[h].pc = "verify"
  /\ IF Mappings(stage[h].volume, stage[h].group, stage[h].hostGroup) = {}
     THEN Return(h) ELSE Goto(h, "attach")
  /\ UNCHANGED <<appliance, staged, faults>>

(* Login, rescan, wait for the device, format and mount.  *)
Attach(h) ==
  /\ stage[h].pc = "attach"
  /\ staged' = staged \cup {stage[h].volume}
  /\ Return(h)
  /\ UNCHANGED <<appliance, faults>>

----------------------------------------------------------------------------
(* A REST call, or the attachment, fails.  ResolveTargetGroup answers empty *)
(* names and no error when it cannot list.  CreateNewTargetTg answers its   *)
(* error, though for a volume with CHAP that of the group only once the     *)
(* target is secured: the block in between has an err of its own.  The      *)
(* static configuration goes on whatever CreateNewTargetTg answers.        *)

InLists == {"groups", "count"}
InCreateNew == {"newTarget", "newGroup", "newCredentials", "secure"}

AfterFailure(h) ==
  LET s == stage[h]
      securedFirst == s.pc = "newGroup" /\ Chap(h)
      errorIsDropped == s.pc \in InCreateNew /\ ~Dynamic
  IN CASE s.pc \in InLists -> [s EXCEPT !.pc = "check", !.group = None, !.todo = {}]
       [] securedFirst -> [s EXCEPT !.pc = "newCredentials", !.noGroup = TRUE]
       [] errorIsDropped /\ ~securedFirst ->
            [s EXCEPT !.pc = "check", !.group = DefaultTarget]
       [] OTHER -> Idle

(* Bound: the names of the model are used up, and the appliance refuses.   *)
NamesUsedUp(h) ==
  \/ stage[h].pc = "newHost" /\ \A hg \in HostGroups : members[hg] # None
  \/ /\ stage[h].pc = "newTarget" /\ DefaultTarget = None
     /\ \A t \in Targets : authentication[t] # "absent"

Fail(h) ==
  /\ stage[h].pc # "idle"
  /\ \/ faults < MaxFaults /\ faults' = faults + 1
     \/ NamesUsedUp(h) /\ UNCHANGED faults
  /\ Put(h, AfterFailure(h))
  /\ UNCHANGED <<appliance, staged>>

Stage(h) ==
  \/ GetHostGroups(h) \/ CreateHostGroup(h)
  \/ GetTargetGroups(h) \/ CountLuns(h) \/ GetISCSITarget(h) \/ SetChapAuth(h)
  \/ CreateISCSITarget(h) \/ CreateUpdateTargetGroup(h)
  \/ SetChapAuthOfNew(h) \/ UpdateISCSITarget(h)
  \/ CheckMapping(h) \/ CreateISCSIMapping(h) \/ VerifyMapping(h) \/ Attach(h)
  \/ Fail(h)

Next ==
  \/ \E h \in Handlers : Stage(h) \/ \E v \in Volumes : NodeStageVolume(h, v)
  \/ \E v \in Volumes : NodeUnstageVolume(v)
  \/ \E m \in mappings : ControllerUnpublishVolume(m)

Spec == Init /\ [][Next]_vars

-----------------------------------------------------------------------------
(* Properties.                                                             *)

(* Types; what the loop looks at further has room, and the calls that make  *)
(* a target have a name for it.                                            *)
TypeOK ==
  /\ authentication \in [Targets -> {"absent", "none", "chap"}]
  /\ targetGroups \subseteq Targets
  /\ members \in [HostGroups -> Nodes \cup {None}]
  /\ initiators \subseteq Nodes
  /\ mappings \subseteq
       [volume : Volumes, group : Targets \cup {None}, hostGroup : HostGroups]
  /\ staged \subseteq Volumes
  /\ faults \in 0 .. MaxFaults
  /\ DOMAIN stage = Handlers
  /\ \A h \in Handlers :
       /\ stage[h].pc \in {"idle", "hosts", "newHost", "groups", "count", "target",
                           "credentials", "check", "map", "verify", "attach"}
                          \cup InCreateNew
       /\ stage[h].pc # "idle" => stage[h].volume \in Volumes
       /\ stage[h].hostGroup \in HostGroups \cup {None}
       /\ stage[h].todo \subseteq Targets
       /\ stage[h].pc \in {"target", "credentials"} => stage[h].cand \in Targets
       /\ stage[h].count \in 0 .. NumOfLunsPerTarget - 1
       /\ stage[h].min \in 0 .. NumOfLunsPerTarget - 1
       /\ stage[h].pc \in InCreateNew \ {"newTarget"} => stage[h].group \in Targets

(* No target is given more LUNs than numOfLunsPerTarget allows              *)
(* (README.md:113), however volumes come, go and are staged again.          *)
LimitRespected == \A g \in Targets : Cardinality(Luns(g)) <= NumOfLunsPerTarget

(* A volume with CHAP is behind a target that asks for it, and its node has *)
(* the credentials, although targets are made and secured in several calls, *)
(* some of which fail (README.md:114, nodeServer.go:275).  A mapping of no  *)
(* group in particular is the appliance's to interpret.                    *)
ChapVolumesAuthenticate ==
  \A m \in mappings :
    m.volume \in ChapVolumes /\ m.group # None =>
      authentication[m.group] = "chap" /\ NodeOf[m.volume] \in initiators

(* A volume without CHAP is behind a target that does not ask for it        *)
(* (nodeServer.go:292): its node could not log in again.                    *)
PlainVolumesAvoidChap ==
  \A m \in mappings :
    m.volume \notin ChapVolumes /\ m.group # None => authentication[m.group] # "chap"

(* The initiator of a node is a member of one host group                    *)
(* (nodeServer.go:913).                                                    *)
InitiatorInOneHostGroup ==
  \A hg1, hg2 \in HostGroups :
    members[hg1] = members[hg2] /\ members[hg1] # None => hg1 = hg2

(* However often a volume is staged, it has one mapping (nodeServer.go:573  *)
(* and :659).                                                              *)
OneMappingPerVolume ==
  \A m1, m2 \in mappings : m1.volume = m2.volume => m1 = m2
=============================================================================
