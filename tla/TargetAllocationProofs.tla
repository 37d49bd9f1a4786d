----------------------- MODULE TargetAllocationProofs -----------------------
(***************************************************************************)
(* Proofs about TargetAllocation, for every number of nodes, volumes,      *)
(* targets, host groups, handlers and failures.                            *)
(***************************************************************************)
EXTENDS TargetAllocation, FiniteSetTheorems, TLAPS

-----------------------------------------------------------------------------
(* The typing invariant: a handler is a record of these fields, and knows   *)
(* at each call what the call needs.                                       *)

Steps ==
  {"idle", "hosts", "newHost", "groups", "count", "target", "credentials",
   "check", "map", "verify", "attach"} \cup InCreateNew

StageStates ==
  [pc : Steps, volume : Volumes \cup {None}, hostGroup : HostGroups \cup {None},
   todo : SUBSET Targets, cand : Targets \cup {None}, count : 0 .. NumOfLunsPerTarget - 1,
   min : 0 .. NumOfLunsPerTarget - 1, group : Targets \cup {None}, noGroup : BOOLEAN]

Knows(s) ==
  /\ s.pc # "idle" => s.volume \in Volumes
  /\ s.pc \notin {"idle", "hosts", "newHost"} => s.hostGroup \in HostGroups
  /\ s.pc \in {"target", "credentials"} => s.cand \in Targets
  /\ s.pc \in InCreateNew \ {"newTarget"} => s.group \in Targets

ApplianceInv ==
  /\ authentication \in [Targets -> {"absent", "none", "chap"}]
  /\ targetGroups \subseteq Targets
  /\ members \in [HostGroups -> Nodes \cup {None}]
  /\ initiators \subseteq Nodes
  /\ mappings \subseteq
       [volume : Volumes, group : Targets \cup {None}, hostGroup : HostGroups]
  /\ IsFiniteSet(mappings)

StageInv ==
  /\ stage \in [Handlers -> StageStates]
  /\ \A h \in Handlers : Knows(stage[h])

TypeInv == ApplianceInv /\ StageInv /\ staged \subseteq Volumes /\ faults \in 0 .. MaxFaults

-----------------------------------------------------------------------------
(* The CHAP invariant.                                                     *)

\* Behind this target a volume is authenticated, and its node can log in.
Secured(v, g, auth, inits) == auth[g] = "chap" /\ NodeOf[v] \in inits

\* A handler for a volume with CHAP that has chosen a target has chosen a
\* secured one, unless it is at work on securing it.
ChoiceIsSecured(s, auth, inits) ==
  s.volume \in ChapVolumes =>
    /\ s.pc \notin InCreateNew /\ s.group # None => Secured(s.volume, s.group, auth, inits)
    /\ s.pc = "credentials" => auth[s.cand] = "chap"
    /\ s.pc = "secure" => NodeOf[s.volume] \in inits

ChoicesAreSecured ==
  \A h \in Handlers : ChoiceIsSecured(stage[h], authentication, initiators)

ChapInv == ChoicesAreSecured /\ ChapVolumesAuthenticate

-----------------------------------------------------------------------------
(* The host group invariant.                                               *)

\* Two handlers under way are those of different nodes.
NodesTakeTurns ==
  \A g, h \in Handlers :
    stage[g].pc # "idle" /\ stage[h].pc # "idle" /\ g # h => NodeAt(g) # NodeAt(h)

\* A node about to create a host group has none.
NewHostsAreNew ==
  \A h \in Handlers : stage[h].pc = "newHost" =>
    \A hg \in HostGroups : members[hg] # NodeAt(h)

HostInv == NodesTakeTurns /\ NewHostsAreNew /\ InitiatorInOneHostGroup

-----------------------------------------------------------------------------
(* The limit invariant.                                                    *)

OneAtATime ==
  \A g, h \in Handlers : stage[g].pc # "idle" /\ stage[h].pc # "idle" => g = h

LunsIn(g, maps) == {m \in maps : m.group = g}
HasRoom(g, maps) == Cardinality(LunsIn(g, maps)) < NumOfLunsPerTarget

\* A target that has just been made has no LUNs, and what the loop chose or
\* looks at has room until the volume is mapped.
RoomIsKept(s, maps, auth) ==
  /\ s.pc \in InCreateNew \ {"newTarget"} => auth[s.group] # "absent" /\ LunsIn(s.group, maps) = {}
  /\ s.pc \notin InCreateNew \cup {"idle", "verify", "attach"} /\ s.group # None =>
       HasRoom(s.group, maps)
  /\ s.pc \in {"target", "credentials"} => HasRoom(s.cand, maps)

ChoicesHaveRoom == \A h \in Handlers : RoomIsKept(stage[h], mappings, authentication)

\* What does not exist yet has no LUNs and no group to be found by.
AbsentAreEmpty ==
  \A t \in Targets : authentication[t] = "absent" => Luns(t) = {} /\ t \notin targetGroups

LimitInv == OneAtATime /\ ChoicesHaveRoom /\ AbsentAreEmpty /\ LimitRespected

-----------------------------------------------------------------------------
(* What one handler's record may become.                                   *)

LEMMA PutType ==
  ASSUME StageInv, NEW h \in Handlers, NEW local \in StageStates, Knows(local), Put(h, local)
  PROVE  StageInv'
BY DEF StageInv, Put

LEMMA IdleType == Idle \in StageStates /\ Knows(Idle)
BY LimitAssumption DEF Idle, StageStates, Steps, Knows, InCreateNew

LEMMA ReturnType ==
  ASSUME StageInv, NEW h \in Handlers, Return(h)
  PROVE  StageInv'
BY IdleType, PutType DEF Return

\* Moving on to a step that needs no more than the handler has.
LEMMA GotoType ==
  ASSUME StageInv, NEW h \in Handlers, NEW pc \in Steps, Goto(h, pc),
         Knows([stage[h] EXCEPT !.pc = pc])
  PROVE  StageInv'
<1>1. [stage[h] EXCEPT !.pc = pc] \in StageStates
  BY DEF StageInv, StageStates
<1> QED
  BY <1>1, PutType DEF Goto

\* The loop keeps the volume and the choice, or takes the group looked at.
LEMMA LoopKeeps ==
  ASSUME NEW s \in StageStates
  PROVE  /\ Loop(s).pc \in {"count", "check", "newTarget"}
         /\ Loop(s).volume = s.volume /\ Loop(s).group = s.group
<1> DEFINE pc == IF s.todo # {} THEN "count" ELSE IF s.group # None THEN "check" ELSE "newTarget"
<1>1. pc \in {"count", "check", "newTarget"}
  OBVIOUS
<1>2. Loop(s) = [s EXCEPT !.pc = pc, !.cand = None, !.count = 0]
  BY DEF Loop
<1> HIDE DEF pc
<1> QED
  BY <1>1, <1>2 DEF StageStates

LEMMA ChooseKeeps ==
  ASSUME NEW s \in StageStates
  PROVE  /\ Choose(s).pc \in {"count", "check", "newTarget"}
         /\ Choose(s).volume = s.volume /\ Choose(s).group = s.cand
<1> DEFINE r == [s EXCEPT !.min = s.count, !.group = s.cand]
<1>1. r \in StageStates /\ r.volume = s.volume /\ r.group = s.cand
  BY DEF StageStates
<1> HIDE DEF r
<1> QED
  BY <1>1, LoopKeeps DEF Choose, r

LEMMA LoopType ==
  ASSUME NEW s \in StageStates, s.volume \in Volumes, s.hostGroup \in HostGroups
  PROVE  Loop(s) \in StageStates /\ Knows(Loop(s))
<1> DEFINE pc == IF s.todo # {} THEN "count" ELSE IF s.group # None THEN "check" ELSE "newTarget"
<1>1. pc \in {"count", "check", "newTarget"}
  OBVIOUS
<1>2. pc \in Steps
  BY <1>1 DEF Steps, InCreateNew
<1>3. 0 \in 0 .. NumOfLunsPerTarget - 1
  BY LimitAssumption
<1>4. Loop(s) = [s EXCEPT !.pc = pc, !.cand = None, !.count = 0]
  BY DEF Loop
<1> HIDE DEF pc
<1>5. Loop(s) \in StageStates
  BY <1>2, <1>3, <1>4 DEF StageStates
<1>6. Loop(s).pc = pc /\ Loop(s).volume = s.volume /\ Loop(s).hostGroup = s.hostGroup
  BY <1>4 DEF StageStates
<1> QED
  BY <1>1, <1>5, <1>6 DEF Knows, InCreateNew

LEMMA ChooseType ==
  ASSUME NEW s \in StageStates, s.volume \in Volumes, s.hostGroup \in HostGroups
  PROVE  Choose(s) \in StageStates /\ Knows(Choose(s))
<1> DEFINE r == [s EXCEPT !.min = s.count, !.group = s.cand]
<1>1. r \in StageStates /\ r.volume = s.volume /\ r.hostGroup = s.hostGroup
  BY DEF StageStates
<1> QED
  BY <1>1, LoopType DEF Choose

LEMMA CountIsNatural ==
  ASSUME ApplianceInv, NEW g
  PROVE  Cardinality(Luns(g)) \in Nat
<1>1. Luns(g) \in SUBSET mappings
  BY DEF Luns
<1>2. IsFiniteSet(Luns(g))
  BY <1>1, FS_Subset DEF ApplianceInv
<1> QED
  BY <1>2, FS_CardinalityType

-----------------------------------------------------------------------------
(* The typing invariant holds in every state.                              *)

LEMMA TypeInit == Init => TypeInv
<1> SUFFICES ASSUME Init PROVE TypeInv
  OBVIOUS
<1>1. IsFiniteSet({})
  BY FS_EmptySet
<1>2. ApplianceInv
  BY <1>1 DEF Init, ApplianceInv
<1>3. StageInv
  BY IdleType DEF Init, StageInv
<1> QED
  BY <1>2, <1>3, ModeAssumption DEF Init, TypeInv

\* The host group.
LEMMA HostType ==
  ASSUME TypeInv, NEW h \in Handlers, GetHostGroups(h) \/ CreateHostGroup(h)
  PROVE  TypeInv'
<1> DEFINE found(hg) == [stage[h] EXCEPT !.pc = AfterHostGroup, !.hostGroup = hg]
<1>1. AfterHostGroup \in Steps /\ AfterHostGroup \in {"groups", "newTarget"}
  BY DEF AfterHostGroup, Steps, InCreateNew
<1>2. stage[h].volume \in Volumes
  BY DEF GetHostGroups, HasHostGroup, CreateHostGroup, TypeInv, StageInv, Knows
<1>3. ASSUME NEW hg \in HostGroups PROVE found(hg) \in StageStates /\ Knows(found(hg))
  BY <1>1, <1>2 DEF TypeInv, StageInv, StageStates, Knows, InCreateNew
<1>4. CASE GetHostGroups(h)
  <2>1. CASE \E hg \in HostGroups : Put(h, found(hg))
    <3>1. StageInv'
      BY <1>3, <2>1, PutType DEF TypeInv
    <3> QED
      BY <3>1, <1>4 DEF GetHostGroups, HasHostGroup, TypeInv, ApplianceInv, appliance
  <2>2. CASE Goto(h, "newHost")
    <3>1. Knows([stage[h] EXCEPT !.pc = "newHost"])
      BY <1>2 DEF TypeInv, StageInv, StageStates, Knows, InCreateNew
    <3>2. StageInv'
      BY <3>1, <2>2, GotoType DEF TypeInv, Steps
    <3> QED
      BY <3>2, <1>4 DEF GetHostGroups, HasHostGroup, TypeInv, ApplianceInv, appliance
  <2> QED
    BY <1>4, <2>1, <2>2 DEF GetHostGroups, HasHostGroup
<1>5. CASE CreateHostGroup(h)
  <2>1. PICK hg \in HostGroups :
          members' = [members EXCEPT ![hg] = NodeAt(h)] /\ Put(h, found(hg))
    BY <1>5 DEF CreateHostGroup
  <2>2. NodeAt(h) \in Nodes
    BY <1>2, NodesAssumption DEF NodeAt
  <2>3. StageInv'
    BY <1>3, <2>1, PutType DEF TypeInv
  <2> QED
    BY <1>5, <2>1, <2>2, <2>3 DEF CreateHostGroup, TypeInv, ApplianceInv
<1> QED
  BY <1>4, <1>5

\* The loop over the target groups.
LEMMA LoopStepType ==
  ASSUME TypeInv, NEW h \in Handlers,
         GetTargetGroups(h) \/ CountLuns(h) \/ GetISCSITarget(h) \/ SetChapAuth(h)
  PROVE  TypeInv'
<1>1. /\ stage[h] \in StageStates /\ Knows(stage[h])
      /\ stage[h].volume \in Volumes /\ stage[h].hostGroup \in HostGroups
  BY DEF GetTargetGroups, CountLuns, GetISCSITarget, SetChapAuth, TypeInv, StageInv, Knows
<1>2. CASE GetTargetGroups(h)
  <2> DEFINE s == [stage[h] EXCEPT !.todo = targetGroups]
  <2>1. s \in StageStates /\ s.volume \in Volumes /\ s.hostGroup \in HostGroups
    BY <1>1 DEF StageStates, TypeInv, ApplianceInv
  <2>2. StageInv'
    BY <1>2, <2>1, LoopType, PutType DEF GetTargetGroups, TypeInv
  <2> QED
    BY <1>2, <2>2 DEF GetTargetGroups, TypeInv, ApplianceInv, appliance
<1>3. CASE CountLuns(h)
  <2>1. PICK g \in stage[h].todo :
          LET n == Cardinality(Luns(g))
              rest == [stage[h] EXCEPT !.todo = @ \ {g}]
          IN Put(h, IF Fits(stage[h], n)
                    THEN [rest EXCEPT !.pc = "target", !.cand = g, !.count = n]
                    ELSE Loop(rest))
    BY <1>3 DEF CountLuns
  <2> DEFINE n == Cardinality(Luns(g))
             rest == [stage[h] EXCEPT !.todo = @ \ {g}]
             next == [rest EXCEPT !.pc = "target", !.cand = g, !.count = n]
  <2>2. rest \in StageStates /\ rest.volume \in Volumes /\ rest.hostGroup \in HostGroups
    BY <1>1 DEF StageStates
  <2>3. g \in Targets
    BY <1>1 DEF StageStates
  <2>4. ASSUME Fits(stage[h], n) PROVE next \in StageStates /\ Knows(next)
    <3>1. n \in Nat
      BY CountIsNatural DEF TypeInv
    <3>2. n \in 0 .. NumOfLunsPerTarget - 1
      BY <2>4, <3>1, LimitAssumption DEF Fits
    <3> HIDE DEF n, rest
    <3>3. next \in StageStates /\ next.pc = "target" /\ next.cand = g
          /\ next.volume = rest.volume /\ next.hostGroup = rest.hostGroup
      BY <2>2, <2>3, <3>2 DEF StageStates, Steps
    <3> QED
      BY <2>2, <2>3, <3>3 DEF Knows, InCreateNew
  <2>5. StageInv'
    <3> HIDE DEF next, rest, n
    <3>1. CASE Fits(stage[h], n)
      BY <2>1, <2>4, <3>1, PutType DEF TypeInv, next, rest, n
    <3>2. CASE ~Fits(stage[h], n)
      <4>1. Put(h, Loop(rest))
        BY <2>1, <3>2 DEF rest, n
      <4> QED
        BY <2>2, <4>1, LoopType, PutType DEF TypeInv
    <3> QED
      BY <3>1, <3>2
  <2> QED
    BY <1>3, <2>5 DEF CountLuns, TypeInv, ApplianceInv, appliance
<1>4. CASE GetISCSITarget(h)
  <2> DEFINE next == [stage[h] EXCEPT !.pc = "credentials"]
  <2>1. next \in StageStates /\ Knows(next)
    BY <1>1, <1>4 DEF GetISCSITarget, StageStates, Steps, Knows, InCreateNew
  <2>2. StageInv'
    BY <1>1, <1>4, <2>1, LoopType, ChooseType, PutType DEF GetISCSITarget, TypeInv
  <2> QED
    BY <1>4, <2>2 DEF GetISCSITarget, TypeInv, ApplianceInv, appliance
<1>5. CASE SetChapAuth(h)
  <2>1. StageInv'
    BY <1>1, <1>5, ChooseType, PutType DEF SetChapAuth, TypeInv
  <2>2. NodeAt(h) \in Nodes
    BY <1>1, NodesAssumption DEF NodeAt
  <2> QED
    BY <1>5, <2>1, <2>2 DEF SetChapAuth, TypeInv, ApplianceInv
<1> QED
  BY <1>2, <1>3, <1>4, <1>5

\* Making a new target, its group, and securing it.
LEMMA NewTargetType ==
  ASSUME TypeInv, NEW h \in Handlers,
         \/ CreateISCSITarget(h) \/ CreateUpdateTargetGroup(h)
         \/ SetChapAuthOfNew(h) \/ UpdateISCSITarget(h)
  PROVE  TypeInv'
<1>1. /\ stage[h] \in StageStates /\ Knows(stage[h])
      /\ stage[h].volume \in Volumes /\ stage[h].hostGroup \in HostGroups
  BY DEF CreateISCSITarget, CreateUpdateTargetGroup, SetChapAuthOfNew, UpdateISCSITarget,
         TypeInv, StageInv, Knows
<1>2. CASE CreateISCSITarget(h)
  <2> DEFINE next(t) == [stage[h] EXCEPT !.pc = "newGroup", !.group = t]
  <2>1. PICK t \in Targets :
          /\ authentication' = [authentication EXCEPT ![t] = IF @ = "absent" THEN "none" ELSE @]
          /\ Put(h, next(t))
    BY <1>2 DEF CreateISCSITarget
  <2>2. next(t) \in StageStates /\ Knows(next(t))
    BY <1>1 DEF StageStates, Steps, Knows, InCreateNew
  <2>3. StageInv'
    BY <2>1, <2>2, PutType DEF TypeInv
  <2> QED
    BY <1>2, <2>1, <2>3 DEF CreateISCSITarget, TypeInv, ApplianceInv
<1>3. ASSUME stage[h].pc \in InCreateNew, NEW pc \in {"newCredentials", "secure", "check"}, Goto(h, pc),
             stage[h].pc # "newTarget"
      PROVE  StageInv'
  <2>1. pc \in Steps /\ Knows([stage[h] EXCEPT !.pc = pc])
    BY <1>1, <1>3 DEF StageStates, Steps, Knows, InCreateNew
  <2> QED
    BY <1>3, <2>1, GotoType DEF TypeInv
<1>4. CASE CreateUpdateTargetGroup(h)
  <2>1. StageInv'
    BY <1>3, <1>4 DEF CreateUpdateTargetGroup, InCreateNew
  <2>2. stage[h].group \in Targets
    BY <1>1, <1>4 DEF CreateUpdateTargetGroup, Knows, InCreateNew
  <2> QED
    BY <1>4, <2>1, <2>2 DEF CreateUpdateTargetGroup, TypeInv, ApplianceInv
<1>5. CASE SetChapAuthOfNew(h)
  <2>1. StageInv'
    BY <1>3, <1>5 DEF SetChapAuthOfNew, InCreateNew
  <2>2. NodeAt(h) \in Nodes
    BY <1>1, NodesAssumption DEF NodeAt
  <2> QED
    BY <1>5, <2>1, <2>2 DEF SetChapAuthOfNew, TypeInv, ApplianceInv
<1>6. CASE UpdateISCSITarget(h)
  <2>1. StageInv'
    BY <1>3, <1>6, ReturnType DEF UpdateISCSITarget, InCreateNew, TypeInv
  <2> QED
    BY <1>6, <2>1 DEF UpdateISCSITarget, TypeInv, ApplianceInv
<1> QED
  BY <1>2, <1>4, <1>5, <1>6

\* The mapping and the attachment.
LEMMA MapType ==
  ASSUME TypeInv, NEW h \in Handlers,
         CheckMapping(h) \/ CreateISCSIMapping(h) \/ VerifyMapping(h) \/ Attach(h)
  PROVE  TypeInv'
<1>1. /\ stage[h] \in StageStates /\ Knows(stage[h])
      /\ stage[h].volume \in Volumes /\ stage[h].hostGroup \in HostGroups
  BY DEF CheckMapping, CreateISCSIMapping, VerifyMapping, Attach, TypeInv, StageInv, Knows
<1>2. ASSUME NEW pc \in {"map", "verify", "attach"}, Goto(h, pc)
      PROVE  StageInv'
  <2>1. pc \in Steps /\ Knows([stage[h] EXCEPT !.pc = pc])
    BY <1>1 DEF StageStates, Steps, Knows, InCreateNew
  <2> QED
    BY <1>2, <2>1, GotoType DEF TypeInv
<1>3. CASE CheckMapping(h)
  <2>1. StageInv'
    BY <1>2, <1>3 DEF CheckMapping
  <2> QED
    BY <1>3, <2>1 DEF CheckMapping, TypeInv, ApplianceInv, appliance
<1>4. CASE CreateISCSIMapping(h)
  <2> DEFINE m == [volume |-> stage[h].volume, group |-> stage[h].group,
                   hostGroup |-> stage[h].hostGroup]
  <2>1. m \in [volume : Volumes, group : Targets \cup {None}, hostGroup : HostGroups]
    BY <1>1 DEF StageStates
  <2>2. StageInv'
    BY <1>2, <1>4, ReturnType DEF CreateISCSIMapping, TypeInv
  <2>3. mappings' = mappings \cup {m} \/ mappings' = mappings
    BY <1>4 DEF CreateISCSIMapping
  <2> HIDE DEF m
  <2>4. IsFiniteSet(mappings')
    <3>1. IsFiniteSet(mappings)
      BY DEF TypeInv, ApplianceInv
    <3>2. IsFiniteSet(mappings \cup {m})
      BY <3>1, FS_AddElement
    <3> QED
      BY <2>3, <3>1, <3>2
  <2> QED
    BY <1>4, <2>1, <2>2, <2>3, <2>4 DEF CreateISCSIMapping, TypeInv, ApplianceInv
<1>5. CASE VerifyMapping(h)
  <2>1. StageInv'
    BY <1>2, <1>5, ReturnType DEF VerifyMapping, TypeInv
  <2> QED
    BY <1>5, <2>1 DEF VerifyMapping, TypeInv, ApplianceInv, appliance
<1>6. CASE Attach(h)
  <2>1. StageInv'
    BY <1>6, ReturnType DEF Attach, TypeInv
  <2> QED
    BY <1>1, <1>6, <2>1 DEF Attach, TypeInv, ApplianceInv, appliance
<1> QED
  BY <1>3, <1>4, <1>5, <1>6

\* Whatever fails, the handler goes on with what it has, or returns.
LEMMA FailType ==
  ASSUME TypeInv, NEW h \in Handlers, Fail(h)
  PROVE  TypeInv'
<1>1. stage[h] \in StageStates /\ Knows(stage[h]) /\ stage[h].volume \in Volumes
  BY DEF Fail, TypeInv, StageInv, Knows
<1>2. AfterFailure(h) \in StageStates /\ Knows(AfterFailure(h))
  <2>1. CASE stage[h].pc \in InLists
    BY <1>1, <2>1 DEF AfterFailure, StageStates, Steps, Knows, InLists, InCreateNew
  <2>2. CASE stage[h].pc = "newGroup" /\ Chap(h)
    <3>1. AfterFailure(h) = [stage[h] EXCEPT !.pc = "newCredentials", !.noGroup = TRUE]
      BY <2>2 DEF AfterFailure, InLists, InCreateNew
    <3> QED
      BY <1>1, <2>2, <3>1 DEF StageStates, Steps, Knows, InCreateNew
  <2>3. CASE stage[h].pc \in InCreateNew /\ ~Dynamic /\ ~(stage[h].pc = "newGroup" /\ Chap(h))
    <3>1. AfterFailure(h) = [stage[h] EXCEPT !.pc = "check", !.group = DefaultTarget]
      BY <2>3 DEF AfterFailure, InLists, InCreateNew
    <3>2. DefaultTarget \in Targets \cup {None}
      BY NamesAssumption
    <3> QED
      BY <1>1, <2>3, <3>1, <3>2 DEF StageStates, Steps, Knows, InCreateNew
  <2>4. CASE /\ stage[h].pc \notin InLists
             /\ ~(stage[h].pc = "newGroup" /\ Chap(h))
             /\ ~(stage[h].pc \in InCreateNew /\ ~Dynamic)
    <3>1. AfterFailure(h) = Idle
      BY <2>4 DEF AfterFailure
    <3> QED
      BY <3>1, IdleType
  <2> QED
    BY <2>1, <2>2, <2>3, <2>4
<1>3. StageInv'
  BY <1>2, PutType DEF Fail, TypeInv
<1>4. faults' \in 0 .. MaxFaults
  BY ModeAssumption DEF Fail, TypeInv
<1> QED
  BY <1>3, <1>4 DEF Fail, TypeInv, ApplianceInv, appliance

\* The kubelets and ControllerUnpublishVolume.
LEMMA CallerType ==
  ASSUME TypeInv,
         \/ \E h \in Handlers, v \in Volumes : NodeStageVolume(h, v)
         \/ \E v \in Volumes : NodeUnstageVolume(v)
         \/ \E m \in mappings : ControllerUnpublishVolume(m)
  PROVE  TypeInv'
<1>1. ASSUME NEW h \in Handlers, NEW v \in Volumes, NodeStageVolume(h, v)
      PROVE  TypeInv'
  <2> DEFINE local == [Idle EXCEPT !.pc = "hosts", !.volume = v]
  <2>1. local \in StageStates /\ Knows(local)
    BY IdleType DEF Idle, StageStates, Steps, Knows, InCreateNew
  <2>2. StageInv'
    BY <1>1, <2>1, PutType DEF NodeStageVolume, Put, TypeInv
  <2> QED
    BY <1>1, <2>2 DEF NodeStageVolume, TypeInv, ApplianceInv, appliance
<1>2. ASSUME NEW v \in Volumes, NodeUnstageVolume(v) PROVE TypeInv'
  BY <1>2 DEF NodeUnstageVolume, TypeInv, ApplianceInv, StageInv, appliance
<1>3. ASSUME NEW m \in mappings, ControllerUnpublishVolume(m) PROVE TypeInv'
  <2>1. IsFiniteSet(mappings')
    BY <1>3, FS_RemoveElement DEF ControllerUnpublishVolume, TypeInv, ApplianceInv
  <2> QED
    BY <1>3, <2>1 DEF ControllerUnpublishVolume, TypeInv, ApplianceInv, StageInv
<1> QED
  BY <1>1, <1>2, <1>3

LEMMA Typing == Spec => []TypeInv
<1>1. TypeInv /\ Next => TypeInv'
  BY HostType, LoopStepType, NewTargetType, MapType, FailType, CallerType DEF Next, Stage
<1>2. TypeInv /\ UNCHANGED vars => TypeInv'
  BY DEF TypeInv, ApplianceInv, StageInv, vars, appliance
<1> QED
  BY <1>1, <1>2, TypeInit, PTL DEF Spec

\* Every state is well typed: the loop of ResolveTargetGroup only looks further
\* at groups with room, and whoever makes a target or maps a volume has the
\* names it needs.
THEOREM TargetTypeCorrect == Spec => []TypeOK
<1>1. TypeInv => TypeOK
  BY DEF TypeInv, ApplianceInv, StageInv, StageStates, Knows, Steps, TypeOK
<1> QED
  BY <1>1, Typing, PTL

-----------------------------------------------------------------------------
(* Volumes with CHAP.                                                      *)

\* What is secured stays so: no call takes CHAP off a target or credentials
\* off an initiator.
LEMMA SecuredStays ==
  ASSUME TypeInv, Next
  PROVE  /\ \A t \in Targets : authentication[t] = "chap" => authentication'[t] = "chap"
         /\ initiators \subseteq initiators'
<1>1. ASSUME NEW h \in Handlers, Stage(h)
      PROVE  /\ \A t \in Targets : authentication[t] = "chap" => authentication'[t] = "chap"
             /\ initiators \subseteq initiators'
  <2>1. CASE CreateISCSITarget(h)
    BY <2>1 DEF CreateISCSITarget, TypeInv, ApplianceInv
  <2>2. CASE UpdateISCSITarget(h)
    BY <2>2 DEF UpdateISCSITarget, TypeInv, ApplianceInv
  <2>3. CASE SetChapAuth(h) \/ SetChapAuthOfNew(h)
    BY <2>3 DEF SetChapAuth, SetChapAuthOfNew
  <2> QED
    BY <1>1, <2>1, <2>2, <2>3 DEF Stage, GetHostGroups, HasHostGroup, CreateHostGroup, GetTargetGroups, CountLuns,
       GetISCSITarget, CreateUpdateTargetGroup, CheckMapping, CreateISCSIMapping, VerifyMapping,
       Attach, Fail, appliance
<1> QED
  BY <1>1 DEF Next, NodeStageVolume, NodeUnstageVolume, ControllerUnpublishVolume, appliance

LEMMA ChoiceStays ==
  ASSUME TypeInv, Next, NEW h \in Handlers, ChoiceIsSecured(stage[h], authentication, initiators)
  PROVE  ChoiceIsSecured(stage[h], authentication', initiators')
<1>1. stage[h] \in StageStates /\ Knows(stage[h])
  BY DEF TypeInv, StageInv
<1> QED
  BY <1>1, SecuredStays DEF ChoiceIsSecured, Secured, StageStates, Knows

\* It is enough to look at the handler that moves.
LEMMA PutSecured ==
  ASSUME TypeInv, Next, ChoicesAreSecured, NEW h \in Handlers, NEW local, Put(h, local),
         ChoiceIsSecured(local, authentication', initiators')
  PROVE  ChoicesAreSecured'
<1>1. \A g \in Handlers : stage'[g] = IF g = h THEN local ELSE stage[g]
  BY DEF Put, TypeInv, StageInv
<1>2. ASSUME NEW g \in Handlers PROVE ChoiceIsSecured(stage'[g], authentication', initiators')
  <2>1. CASE g = h
    BY <1>1, <2>1
  <2>2. CASE g # h
    BY <1>1, <2>2, ChoiceStays DEF ChoicesAreSecured
  <2> QED
    BY <2>1, <2>2
<1> QED
  BY <1>2 DEF ChoicesAreSecured

LEMMA IdleSecured == ASSUME NEW auth, NEW inits PROVE ChoiceIsSecured(Idle, auth, inits)
BY DEF ChoiceIsSecured, Idle

\* Another round of the loop keeps the choice made so far.
LEMMA LoopSecured ==
  ASSUME NEW s \in StageStates, NEW auth, NEW inits,
         s.volume \in ChapVolumes /\ s.group # None => Secured(s.volume, s.group, auth, inits)
  PROVE  ChoiceIsSecured(Loop(s), auth, inits)
BY LoopKeeps DEF ChoiceIsSecured

LEMMA ChooseSecured ==
  ASSUME NEW s \in StageStates, NEW auth, NEW inits,
         s.volume \in ChapVolumes /\ s.cand # None => Secured(s.volume, s.cand, auth, inits)
  PROVE  ChoiceIsSecured(Choose(s), auth, inits)
BY ChooseKeeps DEF ChoiceIsSecured

\* The loop over the target groups.
LEMMA LoopStepSecured ==
  ASSUME TypeInv, Next, ChoicesAreSecured, NEW h \in Handlers,
         GetTargetGroups(h) \/ CountLuns(h) \/ GetISCSITarget(h) \/ SetChapAuth(h)
  PROVE  ChoicesAreSecured'
<1>1. stage[h] \in StageStates /\ Knows(stage[h])
  BY DEF TypeInv, StageInv
<1>2. ChoiceIsSecured(stage[h], authentication, initiators)
  BY DEF ChoicesAreSecured
<1>3. stage[h].pc \notin InCreateNew
  BY DEF GetTargetGroups, CountLuns, GetISCSITarget, SetChapAuth, InCreateNew
<1>4. stage[h].volume \in ChapVolumes /\ stage[h].group # None =>
        Secured(stage[h].volume, stage[h].group, authentication, initiators)
  BY <1>2, <1>3 DEF ChoiceIsSecured
<1>5. CASE GetTargetGroups(h)
  <2> DEFINE s == [stage[h] EXCEPT !.todo = targetGroups]
  <2>1. s \in StageStates /\ s.volume = stage[h].volume /\ s.group = stage[h].group
    BY <1>1 DEF StageStates, TypeInv, ApplianceInv
  <2>2. Put(h, Loop(s)) /\ authentication' = authentication /\ initiators' = initiators
    BY <1>5 DEF GetTargetGroups, appliance
  <2> HIDE DEF s
  <2>3. ChoiceIsSecured(Loop(s), authentication', initiators')
    BY <1>4, <2>1, <2>2, LoopSecured
  <2> QED
    BY <2>2, <2>3, PutSecured
<1>6. CASE CountLuns(h)
  <2>1. PICK g \in stage[h].todo :
          LET n == Cardinality(Luns(g))
              rest == [stage[h] EXCEPT !.todo = @ \ {g}]
          IN Put(h, IF Fits(stage[h], n)
                    THEN [rest EXCEPT !.pc = "target", !.cand = g, !.count = n]
                    ELSE Loop(rest))
    BY <1>6 DEF CountLuns
  <2> DEFINE n == Cardinality(Luns(g))
             rest == [stage[h] EXCEPT !.todo = @ \ {g}]
             next == [rest EXCEPT !.pc = "target", !.cand = g, !.count = n]
  <2>2. rest \in StageStates /\ rest.volume = stage[h].volume /\ rest.group = stage[h].group
    BY <1>1 DEF StageStates
  <2>3. authentication' = authentication /\ initiators' = initiators
    BY <1>6 DEF CountLuns, appliance
  <2>4. ChoiceIsSecured(next, authentication', initiators')
    <3> HIDE DEF n, rest
    <3>1. next.pc = "target" /\ next.volume = rest.volume /\ next.group = rest.group
      BY <2>2 DEF StageStates
    <3> QED
      BY <1>4, <2>2, <2>3, <3>1 DEF ChoiceIsSecured
  <2> HIDE DEF next, rest, n
  <2>5. ChoiceIsSecured(Loop(rest), authentication', initiators')
    BY <1>4, <2>2, <2>3, LoopSecured
  <2>6. CASE Fits(stage[h], n)
    <3>1. Put(h, next)
      BY <2>1, <2>6 DEF next, rest, n
    <3> QED
      BY <2>4, <3>1, PutSecured
  <2>7. CASE ~Fits(stage[h], n)
    <3>1. Put(h, Loop(rest))
      BY <2>1, <2>7 DEF rest, n
    <3> QED
      BY <2>5, <3>1, PutSecured
  <2> QED
    BY <2>6, <2>7
<1>7. CASE GetISCSITarget(h)
  <2>1. authentication' = authentication /\ initiators' = initiators
    BY <1>7 DEF GetISCSITarget, appliance
  <2>2. CASE Put(h, Loop(stage[h]))
    BY <1>1, <1>4, <2>1, <2>2, LoopSecured, PutSecured
  <2>3. CASE /\ Put(h, [stage[h] EXCEPT !.pc = "credentials"])
             /\ authentication[stage[h].cand] = "chap"
    <3> DEFINE next == [stage[h] EXCEPT !.pc = "credentials"]
    <3>1. /\ next.pc = "credentials" /\ next.volume = stage[h].volume
          /\ next.group = stage[h].group /\ next.cand = stage[h].cand
      BY <1>1 DEF StageStates
    <3> HIDE DEF next
    <3>2. ChoiceIsSecured(next, authentication', initiators')
      BY <1>4, <2>1, <2>3, <3>1 DEF ChoiceIsSecured, InCreateNew
    <3> QED
      BY <2>3, <3>2, PutSecured DEF next
  <2>4. CASE Put(h, Choose(stage[h])) /\ stage[h].volume \notin ChapVolumes
    BY <1>1, <2>1, <2>4, ChooseSecured, PutSecured
  <2>5. CASE Chap(h)
    <3>1. CASE authentication[stage[h].cand] = "chap"
      BY <1>7, <2>3, <2>5, <3>1 DEF GetISCSITarget
    <3>2. CASE authentication[stage[h].cand] # "chap"
      BY <1>7, <2>2, <2>5, <3>2 DEF GetISCSITarget
    <3> QED
      BY <3>1, <3>2
  <2>6. CASE ~Chap(h)
    <3>1. CASE authentication[stage[h].cand] = "chap"
      BY <1>7, <2>2, <2>6, <3>1 DEF GetISCSITarget
    <3>2. CASE authentication[stage[h].cand] # "chap"
      BY <1>7, <2>4, <2>6, <3>2 DEF GetISCSITarget, Chap
    <3> QED
      BY <3>1, <3>2
  <2> QED
    BY <2>5, <2>6
<1>8. CASE SetChapAuth(h)
  <2>1. authentication' = authentication /\ NodeOf[stage[h].volume] \in initiators'
    BY <1>8 DEF SetChapAuth, NodeAt
  <2>2. stage[h].volume \in ChapVolumes => authentication[stage[h].cand] = "chap"
    BY <1>2, <1>8 DEF SetChapAuth, ChoiceIsSecured
  <2>3. ChoiceIsSecured(Choose(stage[h]), authentication', initiators')
    BY <1>1, <2>1, <2>2, ChooseSecured DEF Secured
  <2> QED
    BY <1>8, <2>3, PutSecured DEF SetChapAuth
<1> QED
  BY <1>5, <1>6, <1>7, <1>8

\* A new target is chosen once it has been secured.
LEMMA NewTargetSecured ==
  ASSUME TypeInv, Next, ChoicesAreSecured, NEW h \in Handlers,
         \/ CreateISCSITarget(h) \/ CreateUpdateTargetGroup(h)
         \/ SetChapAuthOfNew(h) \/ UpdateISCSITarget(h)
  PROVE  ChoicesAreSecured'
<1>1. stage[h] \in StageStates /\ Knows(stage[h])
  BY DEF TypeInv, StageInv
<1>2. ChoiceIsSecured(stage[h], authentication, initiators)
  BY DEF ChoicesAreSecured
<1>3. CASE CreateISCSITarget(h)
  <2> DEFINE next(t) == [stage[h] EXCEPT !.pc = "newGroup", !.group = t]
  <2>1. PICK t \in Targets : Put(h, next(t))
    BY <1>3 DEF CreateISCSITarget
  <2>2. next(t).pc = "newGroup"
    BY <1>1 DEF StageStates
  <2> HIDE DEF next
  <2>3. ChoiceIsSecured(next(t), authentication', initiators')
    BY <2>2 DEF ChoiceIsSecured, InCreateNew
  <2> QED
    BY <2>1, <2>3, PutSecured
<1>4. ASSUME NEW pc, Goto(h, pc), ChoiceIsSecured([stage[h] EXCEPT !.pc = pc], authentication', initiators')
      PROVE  ChoicesAreSecured'
  BY <1>4, PutSecured DEF Goto
<1>5. ASSUME NEW pc
      PROVE  LET s == [stage[h] EXCEPT !.pc = pc]
             IN s.pc = pc /\ s.volume = stage[h].volume /\ s.group = stage[h].group
  BY <1>1 DEF StageStates
<1>6. CASE CreateUpdateTargetGroup(h)
  <2> DEFINE next(pc) == [stage[h] EXCEPT !.pc = pc]
  <2>1. CASE Chap(h)
    <3>1. ChoiceIsSecured(next("newCredentials"), authentication', initiators')
      BY <1>5 DEF ChoiceIsSecured, InCreateNew
    <3>2. Goto(h, "newCredentials")
      BY <1>6, <2>1 DEF CreateUpdateTargetGroup
    <3> QED
      BY <3>1, <3>2, <1>4
  <2>2. CASE ~Chap(h)
    <3>1. ChoiceIsSecured(next("check"), authentication', initiators')
      BY <1>5, <2>2 DEF ChoiceIsSecured, Chap
    <3>2. Goto(h, "check")
      BY <1>6, <2>2 DEF CreateUpdateTargetGroup
    <3> QED
      BY <3>1, <3>2, <1>4
  <2> QED
    BY <2>1, <2>2
<1>7. CASE SetChapAuthOfNew(h)
  <2>1. NodeOf[stage[h].volume] \in initiators'
    BY <1>7 DEF SetChapAuthOfNew, NodeAt
  <2>2. ChoiceIsSecured([stage[h] EXCEPT !.pc = "secure"], authentication', initiators')
    BY <1>5, <2>1 DEF ChoiceIsSecured, InCreateNew
  <2> QED
    BY <1>4, <1>7, <2>2 DEF SetChapAuthOfNew
<1>8. CASE UpdateISCSITarget(h)
  <2>1. stage[h].group \in Targets
    BY <1>1, <1>8 DEF UpdateISCSITarget, Knows, InCreateNew
  <2>2. authentication'[stage[h].group] = "chap"
    BY <1>8, <2>1 DEF UpdateISCSITarget, TypeInv, ApplianceInv
  <2>3. stage[h].volume \in ChapVolumes => NodeOf[stage[h].volume] \in initiators'
    BY <1>2, <1>8 DEF UpdateISCSITarget, ChoiceIsSecured
  <2>4. ChoiceIsSecured([stage[h] EXCEPT !.pc = "check"], authentication', initiators')
    BY <1>5, <2>2, <2>3 DEF ChoiceIsSecured, Secured
  <2>5. Return(h) \/ Goto(h, "check")
    BY <1>8 DEF UpdateISCSITarget
  <2> QED
    BY <1>4, <2>4, <2>5, IdleSecured, PutSecured DEF Return
<1> QED
  BY <1>3, <1>6, <1>7, <1>8

\* Steps that leave the choice alone, or give it up.
LEMMA RestSecured ==
  ASSUME TypeInv, Next, ChoicesAreSecured, NEW h \in Handlers,
         \/ GetHostGroups(h) \/ CreateHostGroup(h)
         \/ CheckMapping(h) \/ CreateISCSIMapping(h) \/ VerifyMapping(h) \/ Attach(h)
  PROVE  ChoicesAreSecured'
<1>1. stage[h] \in StageStates
  BY DEF TypeInv, StageInv
<1>2. /\ stage[h].pc \notin InCreateNew
      /\ ChoiceIsSecured(stage[h], authentication', initiators')
  BY ChoiceStays DEF ChoicesAreSecured, GetHostGroups, HasHostGroup, CreateHostGroup, CheckMapping,
     CreateISCSIMapping, VerifyMapping, Attach, InCreateNew
<1>3. ASSUME NEW local, local.pc \notin {"credentials", "secure"}, local.volume = stage[h].volume,
             local.group = stage[h].group, Put(h, local)
      PROVE  ChoicesAreSecured'
  <2>1. ChoiceIsSecured(local, authentication', initiators')
    BY <1>2, <1>3 DEF ChoiceIsSecured
  <2> QED
    BY <1>3, <2>1, PutSecured
<1>4. ASSUME NEW pc \in Steps \ {"credentials", "secure"}, Goto(h, pc) PROVE ChoicesAreSecured'
  <2> DEFINE local == [stage[h] EXCEPT !.pc = pc]
  <2>1. local.pc = pc /\ local.volume = stage[h].volume /\ local.group = stage[h].group
    BY <1>1 DEF StageStates
  <2> HIDE DEF local
  <2> QED
    BY <1>3, <1>4, <2>1 DEF Goto, local
<1>5. ASSUME NEW hg \in HostGroups,
             Put(h, [stage[h] EXCEPT !.pc = AfterHostGroup, !.hostGroup = hg])
      PROVE  ChoicesAreSecured'
  <2> DEFINE local == [stage[h] EXCEPT !.pc = AfterHostGroup, !.hostGroup = hg]
  <2>1. local.pc = AfterHostGroup /\ local.volume = stage[h].volume /\ local.group = stage[h].group
    BY <1>1 DEF StageStates
  <2> HIDE DEF local
  <2>2. local.pc \notin {"credentials", "secure"}
    BY <2>1 DEF AfterHostGroup
  <2> QED
    BY <1>3, <1>5, <2>1, <2>2 DEF local
<1>6. ASSUME Return(h) PROVE ChoicesAreSecured'
  BY <1>6, IdleSecured, PutSecured DEF Return
<1> QED
  BY <1>4, <1>5, <1>6 DEF GetHostGroups, HasHostGroup, CreateHostGroup, CheckMapping, CreateISCSIMapping,
     VerifyMapping, Attach, Steps

\* Where targets are allocated, a failure gives the choice up or ends the call,
\* or comes before the target is secured.
LEMMA FailSecured ==
  ASSUME Dynamic, TypeInv, Next, ChoicesAreSecured, NEW h \in Handlers, Fail(h)
  PROVE  ChoicesAreSecured'
<1>1. stage[h] \in StageStates
  BY DEF TypeInv, StageInv
<1>2. ChoiceIsSecured(AfterFailure(h), authentication', initiators')
  <2>1. CASE stage[h].pc \in InLists
    <3> DEFINE next == [stage[h] EXCEPT !.pc = "check", !.group = None, !.todo = {}]
    <3>1. AfterFailure(h) = next
      BY <2>1 DEF AfterFailure, InLists
    <3>2. next.pc = "check" /\ next.group = None
      BY <1>1 DEF StageStates
    <3> HIDE DEF next
    <3> QED
      BY <3>1, <3>2 DEF ChoiceIsSecured
  <2>2. CASE stage[h].pc = "newGroup" /\ Chap(h)
    <3> DEFINE next == [stage[h] EXCEPT !.pc = "newCredentials", !.noGroup = TRUE]
    <3>1. AfterFailure(h) = next
      BY <2>2 DEF AfterFailure, InLists, InCreateNew
    <3>2. next.pc = "newCredentials"
      BY <1>1 DEF StageStates
    <3> HIDE DEF next
    <3> QED
      BY <3>1, <3>2 DEF ChoiceIsSecured, InCreateNew
  <2>3. CASE stage[h].pc \notin InLists /\ ~(stage[h].pc = "newGroup" /\ Chap(h))
    <3>1. AfterFailure(h) = Idle
      BY <2>3 DEF AfterFailure
    <3> QED
      BY <3>1, IdleSecured
  <2> QED
    BY <2>1, <2>2, <2>3
<1> QED
  BY <1>2, PutSecured DEF Fail

LEMMA ChoicesStep ==
  ASSUME Dynamic, TypeInv, Next, ChoicesAreSecured
  PROVE  ChoicesAreSecured'
<1>1. ASSUME NEW h \in Handlers, NEW v \in Volumes, NodeStageVolume(h, v) PROVE ChoicesAreSecured'
  <2> DEFINE local == [Idle EXCEPT !.pc = "hosts", !.volume = v]
  <2>1. local.pc = "hosts" /\ local.group = None
    BY DEF Idle
  <2> HIDE DEF local
  <2>2. ChoiceIsSecured(local, authentication', initiators')
    BY <2>1 DEF ChoiceIsSecured
  <2> QED
    BY <1>1, <2>2, PutSecured DEF NodeStageVolume, Put, local
<1>2. ASSUME UNCHANGED stage PROVE ChoicesAreSecured'
  BY <1>2, ChoiceStays DEF ChoicesAreSecured
<1>3. ASSUME NEW h \in Handlers, Stage(h) PROVE ChoicesAreSecured'
  BY <1>3, LoopStepSecured, NewTargetSecured, RestSecured, FailSecured DEF Stage
<1> QED
  BY <1>1, <1>2, <1>3 DEF Next, NodeUnstageVolume, ControllerUnpublishVolume

\* A mapping is only ever made behind the target chosen.
LEMMA MappingsStep ==
  ASSUME TypeInv, Next, ChapInv
  PROVE  ChapVolumesAuthenticate'
<1>1. ASSUME NEW m \in mappings', m.volume \in ChapVolumes, m.group # None
      PROVE  authentication'[m.group] = "chap" /\ NodeOf[m.volume] \in initiators'
  <2>1. CASE m \in mappings
    <3>1. m.group \in Targets
      BY <1>1, <2>1 DEF TypeInv, ApplianceInv
    <3> QED
      BY <1>1, <2>1, <3>1, SecuredStays DEF ChapInv, ChapVolumesAuthenticate
  <2>2. CASE m \notin mappings
    <3>1. PICK h \in Handlers : CreateISCSIMapping(h)
      BY <1>1, <2>2 DEF Next, Stage, GetHostGroups, HasHostGroup, CreateHostGroup, GetTargetGroups, CountLuns,
         GetISCSITarget, SetChapAuth, CreateISCSITarget, CreateUpdateTargetGroup, SetChapAuthOfNew,
         UpdateISCSITarget, CheckMapping, VerifyMapping, Attach, Fail, NodeStageVolume,
         NodeUnstageVolume, ControllerUnpublishVolume, appliance
    <3>2. m.volume = stage[h].volume /\ m.group = stage[h].group
      BY <1>1, <2>2, <3>1 DEF CreateISCSIMapping
    <3>3. ChoiceIsSecured(stage[h], authentication', initiators')
      BY ChoiceStays DEF ChapInv, ChoicesAreSecured
    <3> QED
      BY <1>1, <3>1, <3>2, <3>3 DEF CreateISCSIMapping, ChoiceIsSecured, Secured, InCreateNew
  <2> QED
    BY <2>1, <2>2
<1> QED
  BY <1>1 DEF ChapVolumesAuthenticate

\* A volume with CHAP is behind a target that asks for it, with credentials on
\* its node, whatever stages overlap and fail, where targets are allocated: the
\* choice is secured before the volume is mapped, and nothing undoes it.
THEOREM ChapVolumesStaySecured == ASSUME Dynamic PROVE Spec => []ChapVolumesAuthenticate
<1>1. Init => ChapInv
  BY IdleSecured DEF Init, ChapInv, ChoicesAreSecured, ChapVolumesAuthenticate
<1>2. TypeInv /\ ChapInv /\ Next => ChapInv'
  BY ChoicesStep, MappingsStep DEF ChapInv
<1>3. ChapInv /\ UNCHANGED vars => ChapInv'
  BY DEF ChapInv, ChoicesAreSecured, ChapVolumesAuthenticate, vars, appliance
<1>4. ChapInv => ChapVolumesAuthenticate
  BY DEF ChapInv
<1> QED
  BY <1>1, <1>2, <1>3, <1>4, Typing, PTL DEF Spec

-----------------------------------------------------------------------------
(* Host groups.                                                            *)

\* A call moves one handler, which stays at work on its volume or returns.
Moves(h) ==
  /\ \A g \in Handlers \ {h} : stage'[g] = stage[g]
  /\ stage'[h].pc = "idle" \/ stage'[h].volume = stage[h].volume
  /\ stage'[h].pc = "newHost" => GetHostGroups(h) /\ \A hg \in HostGroups : members[hg] # NodeAt(h)

LEMMA PutMoves ==
  ASSUME TypeInv, NEW h \in Handlers, NEW local, Put(h, local),
         local.pc = "idle" \/ local.volume = stage[h].volume,
         local.pc = "newHost" => GetHostGroups(h) /\ \A hg \in HostGroups : members[hg] # NodeAt(h)
  PROVE  Moves(h)
<1>1. \A g \in Handlers : stage'[g] = IF g = h THEN local ELSE stage[g]
  BY DEF Put, TypeInv, StageInv
<1> QED
  BY <1>1 DEF Moves

LEMMA StageMoves ==
  ASSUME TypeInv, NEW h \in Handlers, Stage(h)
  PROVE  stage[h].pc # "idle" /\ Moves(h)
<1>1. stage[h] \in StageStates
  BY DEF TypeInv, StageInv
<1>2. stage[h].pc # "idle"
  BY DEF Stage, GetHostGroups, HasHostGroup, CreateHostGroup, GetTargetGroups, CountLuns, GetISCSITarget,
     SetChapAuth, CreateISCSITarget, CreateUpdateTargetGroup, SetChapAuthOfNew, UpdateISCSITarget,
     CheckMapping, CreateISCSIMapping, VerifyMapping, Attach, Fail
<1> SUFFICES Moves(h)
  BY <1>2
<1>3. ASSUME Return(h) PROVE Moves(h)
  BY <1>3, PutMoves DEF Return, Idle
<1>4. ASSUME NEW pc \in Steps, Goto(h, pc), pc # "newHost" PROVE Moves(h)
  <2> DEFINE local == [stage[h] EXCEPT !.pc = pc]
  <2>1. local.pc = pc /\ local.volume = stage[h].volume
    BY <1>1 DEF StageStates
  <2> HIDE DEF local
  <2> QED
    BY <1>4, <2>1, PutMoves DEF Goto, local
<1>5. CASE GetHostGroups(h) /\ Goto(h, "newHost")
  <2> DEFINE local == [stage[h] EXCEPT !.pc = "newHost"]
  <2>1. local.pc = "newHost" /\ local.volume = stage[h].volume
    BY <1>1 DEF StageStates
  <2>2. \A hg \in HostGroups : members[hg] # NodeAt(h)
    <3>1. ASSUME NEW hg \in HostGroups,
                 Put(h, [stage[h] EXCEPT !.pc = AfterHostGroup, !.hostGroup = hg])
          PROVE  FALSE
      <4>1. stage'[h].pc = AfterHostGroup
        BY <1>1, <3>1 DEF Put, TypeInv, StageInv, StageStates
      <4>2. stage'[h].pc = "newHost"
        BY <1>1, <1>5 DEF Goto, Put, TypeInv, StageInv, StageStates
      <4> QED
        BY <4>1, <4>2 DEF AfterHostGroup
    <3> QED
      BY <1>5, <3>1 DEF GetHostGroups, HasHostGroup
  <2> HIDE DEF local
  <2> QED
    BY <1>5, <2>1, <2>2, PutMoves DEF Goto, local
<1>6. ASSUME NEW hg \in HostGroups,
             Put(h, [stage[h] EXCEPT !.pc = AfterHostGroup, !.hostGroup = hg])
      PROVE  Moves(h)
  <2> DEFINE local == [stage[h] EXCEPT !.pc = AfterHostGroup, !.hostGroup = hg]
  <2>1. local.pc = AfterHostGroup /\ local.volume = stage[h].volume
    BY <1>1 DEF StageStates
  <2> HIDE DEF local
  <2>2. local.pc # "newHost"
    BY <2>1 DEF AfterHostGroup
  <2> QED
    BY <1>6, <2>1, <2>2, PutMoves DEF local
<1>7. CASE GetTargetGroups(h)
  <2> DEFINE s == [stage[h] EXCEPT !.todo = targetGroups]
  <2>1. s \in StageStates /\ s.volume = stage[h].volume
    BY <1>1 DEF StageStates, TypeInv, ApplianceInv
  <2> HIDE DEF s
  <2> QED
    BY <1>7, <2>1, LoopKeeps, PutMoves DEF GetTargetGroups, s
<1>8. CASE CountLuns(h)
  <2>1. PICK g \in stage[h].todo :
          LET n == Cardinality(Luns(g))
              rest == [stage[h] EXCEPT !.todo = @ \ {g}]
          IN Put(h, IF Fits(stage[h], n)
                    THEN [rest EXCEPT !.pc = "target", !.cand = g, !.count = n]
                    ELSE Loop(rest))
    BY <1>8 DEF CountLuns
  <2> DEFINE n == Cardinality(Luns(g))
             rest == [stage[h] EXCEPT !.todo = @ \ {g}]
             next == [rest EXCEPT !.pc = "target", !.cand = g, !.count = n]
  <2>2. rest \in StageStates /\ rest.volume = stage[h].volume
    BY <1>1 DEF StageStates
  <2> HIDE DEF rest, n
  <2>3. next.pc = "target" /\ next.volume = rest.volume
    BY <2>2 DEF StageStates
  <2> HIDE DEF next
  <2>4. CASE Fits(stage[h], n)
    <3>1. Put(h, next)
      BY <2>1, <2>4 DEF next, rest, n
    <3> QED
      BY <2>2, <2>3, <3>1, PutMoves
  <2>5. CASE ~Fits(stage[h], n)
    <3>1. Put(h, Loop(rest))
      BY <2>1, <2>5 DEF rest, n
    <3> QED
      BY <2>2, <3>1, LoopKeeps, PutMoves
  <2> QED
    BY <2>4, <2>5
<1>9. CASE GetISCSITarget(h)
  <2>1. CASE Put(h, Loop(stage[h])) \/ Put(h, Choose(stage[h]))
    BY <1>1, <2>1, LoopKeeps, ChooseKeeps, PutMoves
  <2>2. CASE Goto(h, "credentials")
    BY <1>4, <2>2 DEF Steps
  <2>3. \/ Put(h, Loop(stage[h])) \/ Put(h, Choose(stage[h])) \/ Goto(h, "credentials")
    BY <1>9, Zenon DEF GetISCSITarget, Goto
  <2> QED
    BY <2>1, <2>2, <2>3
<1>10. CASE SetChapAuth(h)
  BY <1>1, <1>10, ChooseKeeps, PutMoves DEF SetChapAuth
<1>11. CASE CreateISCSITarget(h)
  <2> DEFINE next(t) == [stage[h] EXCEPT !.pc = "newGroup", !.group = t]
  <2>1. PICK t \in Targets : Put(h, next(t))
    BY <1>11 DEF CreateISCSITarget
  <2>2. next(t).pc = "newGroup" /\ next(t).volume = stage[h].volume
    BY <1>1 DEF StageStates
  <2> HIDE DEF next
  <2> QED
    BY <2>1, <2>2, PutMoves
<1>12. CASE Fail(h)
  <2>1. Put(h, AfterFailure(h))
    BY <1>12 DEF Fail
  <2>2. /\ AfterFailure(h).pc = "idle" \/ AfterFailure(h).volume = stage[h].volume
        /\ AfterFailure(h).pc # "newHost"
    <3>1. CASE stage[h].pc \in InLists
      <4> DEFINE next == [stage[h] EXCEPT !.pc = "check", !.group = None, !.todo = {}]
      <4>1. AfterFailure(h) = next
        BY <3>1 DEF AfterFailure, InLists, InCreateNew
      <4>2. next.pc = "check" /\ next.volume = stage[h].volume
        BY <1>1 DEF StageStates
      <4> QED
        BY <4>1, <4>2
    <3>2. CASE stage[h].pc = "newGroup" /\ Chap(h)
      <4>1. AfterFailure(h) = [stage[h] EXCEPT !.pc = "newCredentials", !.noGroup = TRUE]
        BY <3>2 DEF AfterFailure, InLists, InCreateNew
      <4> QED
        BY <1>1, <4>1 DEF StageStates
    <3>3. CASE stage[h].pc \in InCreateNew /\ ~Dynamic /\ ~(stage[h].pc = "newGroup" /\ Chap(h))
      <4>1. AfterFailure(h) = [stage[h] EXCEPT !.pc = "check", !.group = DefaultTarget]
        BY <3>3 DEF AfterFailure, InLists, InCreateNew
      <4> QED
        BY <1>1, <4>1 DEF StageStates
    <3>4. CASE /\ stage[h].pc \notin InLists
               /\ ~(stage[h].pc = "newGroup" /\ Chap(h))
               /\ ~(stage[h].pc \in InCreateNew /\ ~Dynamic)
      BY <3>4 DEF AfterFailure, Idle
    <3> QED
      BY <3>1, <3>2, <3>3, <3>4
  <2> QED
    BY <2>1, <2>2, PutMoves
<1>13. CASE GetHostGroups(h) \/ CreateHostGroup(h)
  BY <1>5, <1>6, <1>13 DEF GetHostGroups, HasHostGroup, CreateHostGroup
<1>14. CASE \/ CreateUpdateTargetGroup(h) \/ SetChapAuthOfNew(h) \/ UpdateISCSITarget(h)
           \/ CheckMapping(h) \/ CreateISCSIMapping(h) \/ VerifyMapping(h) \/ Attach(h)
  BY <1>3, <1>4, <1>14 DEF CreateUpdateTargetGroup, SetChapAuthOfNew, UpdateISCSITarget,
     CheckMapping, CreateISCSIMapping, VerifyMapping, Attach, Steps, InCreateNew
<1> QED
  BY <1>2, <1>7, <1>8, <1>9, <1>10, <1>11, <1>12, <1>13, <1>14 DEF Stage

LEMMA TurnsStep ==
  ASSUME Overlap # "any", TypeInv, HostInv, Next
  PROVE  NodesTakeTurns'
<1>1. ASSUME NEW h \in Handlers, NEW v \in Volumes, NodeStageVolume(h, v) PROVE NodesTakeTurns'
  <2>1. \A g \in Handlers : stage'[g] = IF g = h THEN [Idle EXCEPT !.pc = "hosts", !.volume = v] ELSE stage[g]
    BY <1>1 DEF NodeStageVolume, TypeInv, StageInv
  <2>2. stage'[h].volume = v
    BY <2>1 DEF Idle
  <2>3. \A g \in Handlers : stage[g].pc # "idle" => NodeAt(g) # NodeOf[v]
    BY <1>1 DEF NodeStageVolume, MayOverlap
  <2> QED
    BY <2>1, <2>2, <2>3 DEF NodesTakeTurns, NodeAt, HostInv
<1>2. ASSUME NEW h \in Handlers, Stage(h) PROVE NodesTakeTurns'
  BY <1>2, StageMoves DEF Moves, HostInv, NodesTakeTurns, NodeAt
<1>3. ASSUME UNCHANGED stage PROVE NodesTakeTurns'
  BY <1>3 DEF HostInv, NodesTakeTurns, NodeAt
<1> QED
  BY <1>1, <1>2, <1>3 DEF Next, NodeUnstageVolume, ControllerUnpublishVolume

LEMMA MembersChange ==
  ASSUME NEW h \in Handlers, Stage(h)
  PROVE  UNCHANGED members \/ CreateHostGroup(h)
BY DEF Stage, GetHostGroups, HasHostGroup, CreateHostGroup, GetTargetGroups, CountLuns, GetISCSITarget,
   SetChapAuth, CreateISCSITarget, CreateUpdateTargetGroup, SetChapAuthOfNew, UpdateISCSITarget,
   CheckMapping, CreateISCSIMapping, VerifyMapping, Attach, Fail, appliance

LEMMA MembersStep ==
  ASSUME TypeInv, HostInv, Next
  PROVE  InitiatorInOneHostGroup'
<1>1. CASE UNCHANGED members
  BY <1>1 DEF HostInv, InitiatorInOneHostGroup
<1>2. ASSUME NEW h \in Handlers, CreateHostGroup(h) PROVE InitiatorInOneHostGroup'
  <2>1. PICK hg \in HostGroups : members[hg] = None /\ members' = [members EXCEPT ![hg] = NodeAt(h)]
    BY <1>2 DEF CreateHostGroup
  <2>2. \A g \in HostGroups : members'[g] = IF g = hg THEN NodeAt(h) ELSE members[g]
    BY <2>1 DEF TypeInv, ApplianceInv
  <2>3. \A g \in HostGroups : members[g] # NodeAt(h)
    BY <1>2 DEF CreateHostGroup, HostInv, NewHostsAreNew
  <2> QED
    BY <2>2, <2>3 DEF HostInv, InitiatorInOneHostGroup
<1> QED
  BY <1>1, <1>2, MembersChange DEF Next, NodeStageVolume, NodeUnstageVolume,
     ControllerUnpublishVolume, appliance

LEMMA NewHostsStep ==
  ASSUME TypeInv, HostInv, Next
  PROVE  NewHostsAreNew'
<1>1. ASSUME NEW h \in Handlers, NEW v \in Volumes, NodeStageVolume(h, v) PROVE NewHostsAreNew'
  <2>1. \A g \in Handlers : stage'[g] = IF g = h THEN [Idle EXCEPT !.pc = "hosts", !.volume = v] ELSE stage[g]
    BY <1>1 DEF NodeStageVolume, TypeInv, StageInv
  <2>2. stage'[h].pc = "hosts"
    BY <2>1 DEF Idle
  <2>3. UNCHANGED members
    BY <1>1 DEF NodeStageVolume, appliance
  <2> QED
    BY <2>1, <2>2, <2>3 DEF HostInv, NewHostsAreNew, NodeAt
<1>2. ASSUME NEW h \in Handlers, Stage(h) PROVE NewHostsAreNew'
  <2> SUFFICES ASSUME NEW g \in Handlers, stage'[g].pc = "newHost", NEW hg \in HostGroups
               PROVE  members'[hg] # NodeOf[stage'[g].volume]
    BY DEF NewHostsAreNew, NodeAt
  <2>1. stage[h].pc # "idle" /\ Moves(h)
    BY <1>2, StageMoves
  <2>2. CASE g = h
    <3>1. GetHostGroups(h) /\ members[hg] # NodeAt(h) /\ stage'[h].volume = stage[h].volume
      BY <2>1, <2>2 DEF Moves
    <3> QED
      BY <2>2, <3>1 DEF GetHostGroups, HasHostGroup, appliance, NodeAt
  <2>3. CASE g # h
    <3>1. stage'[g] = stage[g]
      BY <2>1, <2>3 DEF Moves
    <3>2. members[hg] # NodeAt(g)
      BY <3>1 DEF HostInv, NewHostsAreNew
    <3>3. NodeAt(h) # NodeAt(g)
      BY <2>1, <2>3, <3>1 DEF HostInv, NodesTakeTurns
    <3>4. members'[hg] \in {members[hg], NodeAt(h)}
      BY <1>2, MembersChange DEF CreateHostGroup, TypeInv, ApplianceInv
    <3> QED
      BY <3>1, <3>2, <3>3, <3>4 DEF NodeAt
  <2> QED
    BY <2>2, <2>3
<1>3. ASSUME UNCHANGED <<stage, members>> PROVE NewHostsAreNew'
  BY <1>3 DEF HostInv, NewHostsAreNew, NodeAt
<1> QED
  BY <1>1, <1>2, <1>3 DEF Next, NodeUnstageVolume, ControllerUnpublishVolume, appliance

\* When the stages under way are those of different nodes, the initiator of a
\* node is in one host group: the check of GetHostGroups still holds when
\* CreateHostGroup acts on it, since only the node itself could undo it.
THEOREM InitiatorsStayApart == ASSUME Overlap # "any" PROVE Spec => []InitiatorInOneHostGroup
<1>1. Init => HostInv
  BY DEF Init, Idle, HostInv, NodesTakeTurns, NewHostsAreNew, InitiatorInOneHostGroup
<1>2. TypeInv /\ HostInv /\ Next => HostInv'
  BY TurnsStep, NewHostsStep, MembersStep DEF HostInv
<1>3. HostInv /\ UNCHANGED vars => HostInv'
  BY DEF HostInv, NodesTakeTurns, NewHostsAreNew, InitiatorInOneHostGroup, NodeAt, vars, appliance
<1>4. HostInv => InitiatorInOneHostGroup
  BY DEF HostInv
<1> QED
  BY <1>1, <1>2, <1>3, <1>4, Typing, PTL DEF Spec

-----------------------------------------------------------------------------
(* The limit of a target.                                                  *)

LEMMA OneStep ==
  ASSUME Overlap = "none", TypeInv, OneAtATime, Next
  PROVE  OneAtATime'
<1>1. ASSUME NEW h \in Handlers, NEW v \in Volumes, NodeStageVolume(h, v) PROVE OneAtATime'
  <2>1. \A g \in Handlers : stage[g].pc = "idle"
    BY <1>1 DEF NodeStageVolume, MayOverlap
  <2>2. \A g \in Handlers \ {h} : stage'[g] = stage[g]
    BY <1>1 DEF NodeStageVolume, TypeInv, StageInv
  <2> QED
    BY <2>1, <2>2 DEF OneAtATime
<1>2. ASSUME NEW h \in Handlers, Stage(h) PROVE OneAtATime'
  BY <1>2, StageMoves DEF Moves, OneAtATime
<1>3. ASSUME UNCHANGED stage PROVE OneAtATime'
  BY <1>3 DEF OneAtATime
<1> QED
  BY <1>1, <1>2, <1>3 DEF Next, NodeUnstageVolume, ControllerUnpublishVolume

LEMMA FewerHaveRoom ==
  ASSUME NEW maps, IsFiniteSet(maps), NEW fewer \in SUBSET maps, NEW g
  PROVE  /\ Cardinality(LunsIn(g, fewer)) <= Cardinality(LunsIn(g, maps))
         /\ Cardinality(LunsIn(g, fewer)) \in Nat /\ Cardinality(LunsIn(g, maps)) \in Nat
<1>1. LunsIn(g, maps) \in SUBSET maps /\ LunsIn(g, fewer) \in SUBSET LunsIn(g, maps)
  BY DEF LunsIn
<1>2. IsFiniteSet(LunsIn(g, maps))
  BY <1>1, FS_Subset
<1>3. /\ IsFiniteSet(LunsIn(g, fewer))
      /\ Cardinality(LunsIn(g, fewer)) <= Cardinality(LunsIn(g, maps))
  BY <1>1, <1>2, FS_Subset
<1> QED
  BY <1>2, <1>3, FS_CardinalityType

\* What was made stays made.
LEMMA MadeStays ==
  ASSUME TypeInv, Next
  PROVE  \A t \in Targets : authentication[t] # "absent" => authentication'[t] # "absent"
<1>1. ASSUME NEW h \in Handlers, Stage(h)
      PROVE  \A t \in Targets : authentication[t] # "absent" => authentication'[t] # "absent"
  <2>1. CASE CreateISCSITarget(h)
    BY <2>1 DEF CreateISCSITarget, TypeInv, ApplianceInv
  <2>2. CASE UpdateISCSITarget(h)
    BY <2>2 DEF UpdateISCSITarget, TypeInv, ApplianceInv
  <2> QED
    BY <1>1, <2>1, <2>2 DEF Stage, GetHostGroups, HasHostGroup, CreateHostGroup, GetTargetGroups, CountLuns,
       GetISCSITarget, SetChapAuth, CreateUpdateTargetGroup, SetChapAuthOfNew, CheckMapping,
       CreateISCSIMapping, VerifyMapping, Attach, Fail, appliance
<1> QED
  BY <1>1 DEF Next, NodeStageVolume, NodeUnstageVolume, ControllerUnpublishVolume, appliance

LEMMA RoomStays ==
  ASSUME TypeInv, Next, NEW s \in StageStates, Knows(s), RoomIsKept(s, mappings, authentication),
         mappings' \subseteq mappings
  PROVE  RoomIsKept(s, mappings', authentication')
<1>1. ASSUME NEW g, HasRoom(g, mappings) PROVE HasRoom(g, mappings')
  BY <1>1, FewerHaveRoom, LimitAssumption DEF HasRoom, TypeInv, ApplianceInv
<1>2. ASSUME NEW g, LunsIn(g, mappings) = {} PROVE LunsIn(g, mappings') = {}
  BY <1>2 DEF LunsIn
<1>3. s.pc \in InCreateNew \ {"newTarget"} => s.group \in Targets
  BY DEF Knows
<1> QED
  BY <1>1, <1>2, <1>3, MadeStays DEF RoomIsKept

LEMMA PutRoom ==
  ASSUME TypeInv, Next, OneAtATime, NEW h \in Handlers, stage[h].pc # "idle",
         NEW local, Put(h, local), RoomIsKept(local, mappings', authentication')
  PROVE  ChoicesHaveRoom'
<1>1. \A g \in Handlers : stage'[g] = IF g = h THEN local ELSE stage[g]
  BY DEF Put, TypeInv, StageInv
<1>2. \A g \in Handlers : g # h => stage[g].pc = "idle"
  BY DEF OneAtATime
<1>3. ASSUME NEW g \in Handlers PROVE RoomIsKept(stage'[g], mappings', authentication')
  <2>1. CASE g = h
    BY <1>1, <2>1
  <2>2. CASE g # h
    BY <1>1, <1>2, <2>2 DEF RoomIsKept, InCreateNew
  <2> QED
    BY <2>1, <2>2
<1> QED
  BY <1>3 DEF ChoicesHaveRoom

LEMMA IdleRoom == ASSUME NEW maps, NEW auth PROVE RoomIsKept(Idle, maps, auth)
BY DEF RoomIsKept, Idle, InCreateNew

LEMMA LoopRoom ==
  ASSUME NEW s \in StageStates, NEW maps, NEW auth, s.group # None => HasRoom(s.group, maps)
  PROVE  RoomIsKept(Loop(s), maps, auth)
BY LoopKeeps DEF RoomIsKept, InCreateNew

LEMMA ChooseRoom ==
  ASSUME NEW s \in StageStates, NEW maps, NEW auth, s.cand # None => HasRoom(s.cand, maps)
  PROVE  RoomIsKept(Choose(s), maps, auth)
BY ChooseKeeps DEF RoomIsKept, InCreateNew

\* The loop looks further only at groups with room, and chooses among them.
LEMMA LoopStepRoom ==
  ASSUME TypeInv, Next, LimitInv, NEW h \in Handlers,
         GetTargetGroups(h) \/ CountLuns(h) \/ GetISCSITarget(h) \/ SetChapAuth(h)
  PROVE  ChoicesHaveRoom'
<1>1. stage[h] \in StageStates /\ Knows(stage[h])
  BY DEF TypeInv, StageInv
<1>2. RoomIsKept(stage[h], mappings, authentication) /\ OneAtATime
  BY DEF LimitInv, ChoicesHaveRoom
<1>3. stage[h].pc \in {"groups", "count", "target", "credentials"}
  BY DEF GetTargetGroups, CountLuns, GetISCSITarget, SetChapAuth
<1>4. mappings' = mappings /\ authentication' = authentication
  BY DEF GetTargetGroups, CountLuns, GetISCSITarget, SetChapAuth, appliance
<1>5. stage[h].group # None => HasRoom(stage[h].group, mappings)
  BY <1>2, <1>3 DEF RoomIsKept, InCreateNew
<1>6. ASSUME NEW local, Put(h, local), RoomIsKept(local, mappings, authentication)
      PROVE  ChoicesHaveRoom'
  BY <1>2, <1>3, <1>4, <1>6, PutRoom
<1>7. CASE GetTargetGroups(h)
  <2> DEFINE s == [stage[h] EXCEPT !.todo = targetGroups]
  <2>1. s \in StageStates /\ s.group = stage[h].group
    BY <1>1 DEF StageStates, TypeInv, ApplianceInv
  <2> HIDE DEF s
  <2>2. RoomIsKept(Loop(s), mappings, authentication)
    BY <1>5, <2>1, LoopRoom
  <2> QED
    BY <1>6, <1>7, <2>2 DEF GetTargetGroups, s
<1>8. CASE CountLuns(h)
  <2>1. PICK g \in stage[h].todo :
          LET n == Cardinality(Luns(g))
              rest == [stage[h] EXCEPT !.todo = @ \ {g}]
          IN Put(h, IF Fits(stage[h], n)
                    THEN [rest EXCEPT !.pc = "target", !.cand = g, !.count = n]
                    ELSE Loop(rest))
    BY <1>8 DEF CountLuns
  <2> DEFINE n == Cardinality(Luns(g))
             rest == [stage[h] EXCEPT !.todo = @ \ {g}]
             next == [rest EXCEPT !.pc = "target", !.cand = g, !.count = n]
  <2>2. rest \in StageStates /\ rest.group = stage[h].group
    BY <1>1 DEF StageStates
  <2>3. Fits(stage[h], n) => HasRoom(g, mappings)
    BY DEF Fits, HasRoom, Luns, LunsIn
  <2> HIDE DEF rest, n
  <2>4. next.pc = "target" /\ next.cand = g /\ next.group = rest.group
    BY <2>2 DEF StageStates
  <2> HIDE DEF next
  <2>5. CASE Fits(stage[h], n)
    <3>1. Put(h, next)
      BY <2>1, <2>5 DEF next, rest, n
    <3>2. RoomIsKept(next, mappings, authentication)
      BY <1>5, <2>2, <2>3, <2>4, <2>5 DEF RoomIsKept, InCreateNew
    <3> QED
      BY <1>6, <3>1, <3>2
  <2>6. CASE ~Fits(stage[h], n)
    <3>1. Put(h, Loop(rest))
      BY <2>1, <2>6 DEF rest, n
    <3>2. RoomIsKept(Loop(rest), mappings, authentication)
      BY <1>5, <2>2, LoopRoom
    <3> QED
      BY <1>6, <3>1, <3>2
  <2> QED
    BY <2>5, <2>6
<1>9. ASSUME stage[h].pc \in {"target", "credentials"}
      PROVE  HasRoom(stage[h].cand, mappings)
  BY <1>2, <1>9 DEF RoomIsKept
<1>10. CASE GetISCSITarget(h)
  <2>1. CASE Put(h, Loop(stage[h]))
    BY <1>1, <1>5, <1>6, <2>1, LoopRoom
  <2>2. CASE Put(h, Choose(stage[h]))
    <3>1. HasRoom(stage[h].cand, mappings)
      BY <1>9, <1>10 DEF GetISCSITarget
    <3> QED
      BY <1>1, <1>6, <2>2, <3>1, ChooseRoom
  <2>3. CASE Goto(h, "credentials")
    <3> DEFINE next == [stage[h] EXCEPT !.pc = "credentials"]
    <3>1. next.pc = "credentials" /\ next.cand = stage[h].cand /\ next.group = stage[h].group
      BY <1>1 DEF StageStates
    <3>2. HasRoom(stage[h].cand, mappings)
      BY <1>9, <1>10 DEF GetISCSITarget
    <3> HIDE DEF next
    <3>3. RoomIsKept(next, mappings, authentication)
      BY <1>5, <3>1, <3>2 DEF RoomIsKept, InCreateNew
    <3> QED
      BY <1>6, <2>3, <3>3 DEF Goto, next
  <2>4. Put(h, Loop(stage[h])) \/ Put(h, Choose(stage[h])) \/ Goto(h, "credentials")
    BY <1>10, Zenon DEF GetISCSITarget, Goto
  <2> QED
    BY <2>1, <2>2, <2>3, <2>4
<1>11. CASE SetChapAuth(h)
  <2>1. HasRoom(stage[h].cand, mappings)
    BY <1>9, <1>11 DEF SetChapAuth
  <2>2. RoomIsKept(Choose(stage[h]), mappings, authentication)
    BY <1>1, <2>1, ChooseRoom
  <2> QED
    BY <1>6, <1>11, <2>2 DEF SetChapAuth
<1> QED
  BY <1>7, <1>8, <1>10, <1>11

\* A new target has no LUNs until its volume is mapped.
LEMMA NewTargetRoom ==
  ASSUME DefaultTarget = None, TypeInv, Next, LimitInv, NEW h \in Handlers,
         \/ CreateISCSITarget(h) \/ CreateUpdateTargetGroup(h)
         \/ SetChapAuthOfNew(h) \/ UpdateISCSITarget(h)
  PROVE  ChoicesHaveRoom'
<1>1. stage[h] \in StageStates /\ Knows(stage[h])
  BY DEF TypeInv, StageInv
<1>2. RoomIsKept(stage[h], mappings, authentication) /\ OneAtATime
  BY DEF LimitInv, ChoicesHaveRoom
<1>3. mappings' = mappings /\ stage[h].pc \in InCreateNew
  BY DEF CreateISCSITarget, CreateUpdateTargetGroup, SetChapAuthOfNew, UpdateISCSITarget, InCreateNew
<1>4. ASSUME NEW local, Put(h, local), RoomIsKept(local, mappings, authentication')
      PROVE  ChoicesHaveRoom'
  BY <1>2, <1>3, <1>4, PutRoom DEF InCreateNew
<1>5. CASE CreateISCSITarget(h)
  <2> DEFINE next(t) == [stage[h] EXCEPT !.pc = "newGroup", !.group = t]
  <2>1. PICK t \in Targets :
          /\ authentication[t] = "absent"
          /\ authentication' = [authentication EXCEPT ![t] = IF @ = "absent" THEN "none" ELSE @]
          /\ Put(h, next(t))
    BY <1>5 DEF CreateISCSITarget
  <2>2. next(t).pc = "newGroup" /\ next(t).group = t
    BY <1>1 DEF StageStates
  <2>3. authentication'[t] # "absent"
    BY <2>1 DEF TypeInv, ApplianceInv
  <2>4. LunsIn(t, mappings) = {}
    BY <2>1 DEF LimitInv, AbsentAreEmpty, Luns, LunsIn
  <2> HIDE DEF next
  <2>5. RoomIsKept(next(t), mappings, authentication')
    BY <2>2, <2>3, <2>4 DEF RoomIsKept, InCreateNew
  <2> QED
    BY <1>4, <2>1, <2>5
<1>6. ASSUME NEW pc \in {"newCredentials", "secure", "check"}, Goto(h, pc), stage[h].pc # "newTarget"
      PROVE  ChoicesHaveRoom'
  <2> DEFINE next == [stage[h] EXCEPT !.pc = pc]
  <2>1. next.pc = pc /\ next.group = stage[h].group
    BY <1>1 DEF StageStates
  <2>2. stage[h].group \in Targets
    BY <1>1, <1>3, <1>6 DEF Knows
  <2>3. authentication'[stage[h].group] # "absent" /\ LunsIn(stage[h].group, mappings) = {}
    BY <1>2, <1>3, <1>6, <2>2, MadeStays DEF RoomIsKept
  <2>4. HasRoom(stage[h].group, mappings)
    BY <2>3, FS_EmptySet, LimitAssumption DEF HasRoom
  <2> HIDE DEF next
  <2>5. RoomIsKept(next, mappings, authentication')
    BY <1>6, <2>1, <2>3, <2>4 DEF RoomIsKept, InCreateNew
  <2> QED
    BY <1>4, <1>6, <2>5 DEF Goto, next
<1>7. ASSUME Return(h) PROVE ChoicesHaveRoom'
  BY <1>4, <1>7, IdleRoom DEF Return
<1> QED
  BY <1>5, <1>6, <1>7 DEF CreateUpdateTargetGroup, SetChapAuthOfNew, UpdateISCSITarget

\* Calls that keep the choice, and those that end with it.
LEMMA RestRoom ==
  ASSUME TypeInv, Next, LimitInv, NEW h \in Handlers,
         \/ GetHostGroups(h) \/ CreateHostGroup(h)
         \/ CheckMapping(h) \/ CreateISCSIMapping(h) \/ VerifyMapping(h) \/ Attach(h)
  PROVE  ChoicesHaveRoom'
<1>1. stage[h] \in StageStates /\ stage[h].pc # "idle" /\ OneAtATime
  BY DEF TypeInv, StageInv, LimitInv, GetHostGroups, HasHostGroup, CreateHostGroup, CheckMapping,
     CreateISCSIMapping, VerifyMapping, Attach
<1>2. ASSUME Return(h) PROVE ChoicesHaveRoom'
  BY <1>1, <1>2, IdleRoom, PutRoom DEF Return
<1>3. ASSUME NEW pc \in {"verify", "attach"}, Goto(h, pc) PROVE ChoicesHaveRoom'
  <2> DEFINE next == [stage[h] EXCEPT !.pc = pc]
  <2>1. next.pc = pc
    BY <1>1 DEF StageStates
  <2> HIDE DEF next
  <2>2. RoomIsKept(next, mappings', authentication')
    BY <2>1, <1>3 DEF RoomIsKept, InCreateNew
  <2> QED
    BY <1>1, <1>3, <2>2, PutRoom DEF Goto, next
<1>4. ASSUME NEW local, Put(h, local), local.group = stage[h].group,
             local.pc \in {"newHost", "groups", "newTarget", "map"},
             stage[h].pc \in {"hosts", "newHost", "check"}, mappings' = mappings
      PROVE  ChoicesHaveRoom'
  <2>1. local.group # None => HasRoom(local.group, mappings)
    BY <1>4 DEF LimitInv, ChoicesHaveRoom, RoomIsKept, InCreateNew
  <2>2. RoomIsKept(local, mappings', authentication')
    BY <1>4, <2>1 DEF RoomIsKept, InCreateNew
  <2> QED
    BY <1>1, <1>4, <2>2, PutRoom
<1>5. ASSUME NEW pc \in {"newHost", "map"}, Goto(h, pc), stage[h].pc \in {"hosts", "check"},
             mappings' = mappings
      PROVE  ChoicesHaveRoom'
  <2> DEFINE next == [stage[h] EXCEPT !.pc = pc]
  <2>1. next.pc = pc /\ next.group = stage[h].group
    BY <1>1 DEF StageStates
  <2> HIDE DEF next
  <2> QED
    BY <1>4, <1>5, <2>1 DEF Goto, next
<1>6. ASSUME NEW hg, Put(h, [stage[h] EXCEPT !.pc = AfterHostGroup, !.hostGroup = hg]),
             stage[h].pc \in {"hosts", "newHost"}, mappings' = mappings
      PROVE  ChoicesHaveRoom'
  <2> DEFINE next == [stage[h] EXCEPT !.pc = AfterHostGroup, !.hostGroup = hg]
  <2>1. next.pc = AfterHostGroup /\ next.group = stage[h].group
    BY <1>1 DEF StageStates
  <2> HIDE DEF next
  <2>2. next.pc \in {"groups", "newTarget"}
    BY <2>1 DEF AfterHostGroup
  <2> QED
    BY <1>4, <1>6, <2>1, <2>2 DEF next
<1>7. CASE GetHostGroups(h) \/ CreateHostGroup(h)
  BY <1>5, <1>6, <1>7 DEF GetHostGroups, HasHostGroup, CreateHostGroup, appliance
<1> QED
  BY <1>2, <1>3, <1>5, <1>7 DEF CheckMapping, CreateISCSIMapping, VerifyMapping, Attach, appliance

\* A failure gives the choice up, or leaves a new target that has no LUNs.
LEMMA FailRoom ==
  ASSUME DefaultTarget = None, TypeInv, Next, LimitInv, NEW h \in Handlers, Fail(h)
  PROVE  ChoicesHaveRoom'
<1>1. stage[h] \in StageStates /\ Knows(stage[h]) /\ stage[h].pc # "idle" /\ OneAtATime
  BY DEF TypeInv, StageInv, LimitInv, Fail
<1>2. mappings' = mappings /\ authentication' = authentication
  BY DEF Fail, appliance
<1>3. RoomIsKept(AfterFailure(h), mappings', authentication')
  <2>1. CASE stage[h].pc \in InLists
    <3> DEFINE next == [stage[h] EXCEPT !.pc = "check", !.group = None, !.todo = {}]
    <3>1. AfterFailure(h) = next
      BY <2>1 DEF AfterFailure, InLists, InCreateNew
    <3>2. next.pc = "check" /\ next.group = None
      BY <1>1 DEF StageStates
    <3> HIDE DEF next
    <3> QED
      BY <3>1, <3>2 DEF RoomIsKept, InCreateNew
  <2>2. CASE stage[h].pc = "newGroup" /\ Chap(h)
    <3> DEFINE next == [stage[h] EXCEPT !.pc = "newCredentials", !.noGroup = TRUE]
    <3>1. AfterFailure(h) = next
      BY <2>2 DEF AfterFailure, InLists, InCreateNew
    <3>2. next.pc = "newCredentials" /\ next.group = stage[h].group
      BY <1>1 DEF StageStates
    <3>3. RoomIsKept(stage[h], mappings, authentication)
      BY DEF LimitInv, ChoicesHaveRoom
    <3> HIDE DEF next
    <3> QED
      BY <1>2, <2>2, <3>1, <3>2, <3>3 DEF RoomIsKept, InCreateNew
  <2>3. CASE stage[h].pc \notin InLists /\ ~(stage[h].pc = "newGroup" /\ Chap(h))
    <3>1. AfterFailure(h) = Idle
      BY <2>3, NamesAssumption DEF AfterFailure
    <3> QED
      BY <3>1, IdleRoom
  <2> QED
    BY <2>1, <2>2, <2>3
<1> QED
  BY <1>1, <1>3, PutRoom DEF Fail

LEMMA RoomStep ==
  ASSUME Overlap = "none", DefaultTarget = None, TypeInv, LimitInv, Next
  PROVE  ChoicesHaveRoom'
<1>1. ASSUME NEW h \in Handlers, NEW v \in Volumes, NodeStageVolume(h, v) PROVE ChoicesHaveRoom'
  <2> DEFINE local == [Idle EXCEPT !.pc = "hosts", !.volume = v]
  <2>1. local.pc = "hosts" /\ local.group = None
    BY DEF Idle
  <2>2. \A g \in Handlers : stage'[g] = IF g = h THEN local ELSE stage[g]
    BY <1>1 DEF NodeStageVolume, TypeInv, StageInv
  <2>3. \A g \in Handlers : stage[g].pc = "idle"
    BY <1>1 DEF NodeStageVolume, MayOverlap
  <2> HIDE DEF local
  <2> QED
    BY <2>1, <2>2, <2>3 DEF ChoicesHaveRoom, RoomIsKept, InCreateNew
<1>2. ASSUME UNCHANGED stage, mappings' \subseteq mappings PROVE ChoicesHaveRoom'
  BY <1>2, RoomStays DEF ChoicesHaveRoom, LimitInv, TypeInv, StageInv
<1>3. ASSUME NEW h \in Handlers, Stage(h) PROVE ChoicesHaveRoom'
  BY <1>3, LoopStepRoom, NewTargetRoom, RestRoom, FailRoom DEF Stage
<1> QED
  BY <1>1, <1>2, <1>3 DEF Next, NodeUnstageVolume, ControllerUnpublishVolume, appliance

\* Only CreateISCSIMapping makes a mapping, of the group chosen.
LEMMA MappingsChange ==
  ASSUME Next
  PROVE  \/ mappings' \subseteq mappings
         \/ \E h \in Handlers :
              /\ CreateISCSIMapping(h)
              /\ stage[h].group \in targetGroups \cup {None}
              /\ \E m : mappings' = mappings \cup {m} /\ m.group = stage[h].group
BY DEF Next, Stage, GetHostGroups, HasHostGroup, CreateHostGroup, GetTargetGroups, CountLuns,
   GetISCSITarget, SetChapAuth, CreateISCSITarget, CreateUpdateTargetGroup, SetChapAuthOfNew,
   UpdateISCSITarget, CheckMapping, CreateISCSIMapping, VerifyMapping, Attach, Fail, NodeStageVolume,
   NodeUnstageVolume, ControllerUnpublishVolume, appliance

LEMMA AbsentStep ==
  ASSUME TypeInv, LimitInv, Next
  PROVE  AbsentAreEmpty'
<1> SUFFICES ASSUME NEW t \in Targets, authentication'[t] = "absent"
             PROVE  Luns(t)' = {} /\ t \notin targetGroups'
  BY DEF AbsentAreEmpty
<1>1. authentication[t] = "absent" /\ Luns(t) = {} /\ t \notin targetGroups
  BY MadeStays DEF LimitInv, AbsentAreEmpty
<1>2. Luns(t)' = {}
  <2>1. CASE mappings' \subseteq mappings
    BY <1>1, <2>1 DEF Luns
  <2>2. CASE ~(mappings' \subseteq mappings)
    <3>1. \E h \in Handlers : \E m :
            /\ stage[h].group \in targetGroups \cup {None}
            /\ mappings' = mappings \cup {m} /\ m.group = stage[h].group
      BY <2>2, MappingsChange
    <3>2. PICK m : mappings' = mappings \cup {m} /\ m.group \in targetGroups \cup {None}
      BY <3>1
    <3>3. m.group # t
      BY <1>1, <3>2, NamesAssumption
    <3> QED
      BY <1>1, <3>2, <3>3 DEF Luns
  <2> QED
    BY <2>1, <2>2
<1>3. ASSUME t \in targetGroups' PROVE FALSE
  <2>1. PICK h \in Handlers : CreateUpdateTargetGroup(h) /\ stage[h].group = t
    BY <1>1, <1>3 DEF Next, Stage, GetHostGroups, HasHostGroup, CreateHostGroup, GetTargetGroups, CountLuns,
       GetISCSITarget, SetChapAuth, CreateISCSITarget, CreateUpdateTargetGroup, SetChapAuthOfNew,
       UpdateISCSITarget, CheckMapping, CreateISCSIMapping, VerifyMapping, Attach, Fail,
       NodeStageVolume, NodeUnstageVolume, ControllerUnpublishVolume, appliance
  <2>2. RoomIsKept(stage[h], mappings, authentication)
    BY DEF LimitInv, ChoicesHaveRoom
  <2> QED
    BY <1>1, <2>1, <2>2 DEF CreateUpdateTargetGroup, RoomIsKept, InCreateNew
<1> QED
  BY <1>2, <1>3

\* The one new LUN goes to a target that has room for it.
LEMMA LimitStep ==
  ASSUME TypeInv, LimitInv, Next
  PROVE  LimitRespected'
<1> SUFFICES ASSUME NEW t \in Targets
             PROVE  Cardinality(LunsIn(t, mappings')) <= NumOfLunsPerTarget
  BY DEF LimitRespected, Luns, LunsIn
<1>1. Cardinality(LunsIn(t, mappings)) <= NumOfLunsPerTarget
  BY DEF LimitInv, LimitRespected, Luns, LunsIn
<1>2. IsFiniteSet(mappings)
  BY DEF TypeInv, ApplianceInv
<1>3. CASE mappings' \subseteq mappings
  BY <1>1, <1>2, <1>3, FewerHaveRoom, LimitAssumption
<1>4. CASE ~(mappings' \subseteq mappings)
  <2>0. PICK h \in Handlers :
          CreateISCSIMapping(h) /\ \E m : mappings' = mappings \cup {m} /\ m.group = stage[h].group
    BY <1>4, MappingsChange
  <2>1. PICK m : CreateISCSIMapping(h) /\ mappings' = mappings \cup {m} /\ m.group = stage[h].group
    BY <2>0
  <2>2. CASE m.group # t
    <3>1. LunsIn(t, mappings') = LunsIn(t, mappings)
      BY <2>1, <2>2 DEF LunsIn
    <3> QED
      BY <1>1, <3>1
  <2>3. CASE m.group = t
    <3>1. RoomIsKept(stage[h], mappings, authentication)
      BY DEF LimitInv, ChoicesHaveRoom
    <3>2. Cardinality(LunsIn(t, mappings)) < NumOfLunsPerTarget
      BY <2>1, <2>3, <3>1, NamesAssumption DEF CreateISCSIMapping, RoomIsKept, HasRoom, InCreateNew
    <3>3. LunsIn(t, mappings') = LunsIn(t, mappings) \cup {m}
      BY <2>1, <2>3 DEF LunsIn
    <3>4. IsFiniteSet(LunsIn(t, mappings)) /\ Cardinality(LunsIn(t, mappings)) \in Nat
      <4>1. LunsIn(t, mappings) \in SUBSET mappings
        BY DEF LunsIn
      <4>2. IsFiniteSet(LunsIn(t, mappings))
        BY <1>2, <4>1, FS_Subset
      <4> QED
        BY <4>2, FS_CardinalityType
    <3> DEFINE L == LunsIn(t, mappings)
               n == Cardinality(L)
               k == Cardinality(L \cup {m})
    <3>5. k = IF m \in L THEN n ELSE n + 1
      BY <3>4, FS_AddElement
    <3>6. n \in Nat /\ n < NumOfLunsPerTarget
      BY <3>2, <3>4
    <3>7. Cardinality(LunsIn(t, mappings')) = k
      BY <3>3
    <3> HIDE DEF n, k, L
    <3>8. k <= NumOfLunsPerTarget
      BY <3>5, <3>6, LimitAssumption
    <3> QED
      BY <3>7, <3>8
  <2> QED
    BY <2>2, <2>3
<1> QED
  BY <1>3, <1>4

LEMMA LimitHolds ==
  ASSUME Overlap = "none", DefaultTarget = None
  PROVE  Spec => [](TypeInv /\ LimitInv)
<1>1. Init => LimitInv
  <2> SUFFICES ASSUME Init PROVE LimitInv
    OBVIOUS
  <2>1. \A g : LunsIn(g, mappings) = {} /\ Luns(g) = {}
    BY DEF Init, LunsIn, Luns
  <2>2. LimitRespected
    BY <2>1, FS_EmptySet, LimitAssumption DEF LimitRespected
  <2>3. ChoicesHaveRoom
    BY IdleRoom DEF Init, ChoicesHaveRoom
  <2> QED
    BY <2>1, <2>2, <2>3 DEF Init, Idle, LimitInv, OneAtATime, AbsentAreEmpty
<1>2. TypeInv /\ LimitInv /\ Next => LimitInv'
  BY OneStep, RoomStep, AbsentStep, LimitStep DEF LimitInv
<1>3. LimitInv /\ UNCHANGED vars => LimitInv'
  BY DEF LimitInv, OneAtATime, ChoicesHaveRoom, AbsentAreEmpty, LimitRespected, Luns, vars, appliance
<1> QED
  BY <1>1, <1>2, <1>3, Typing, PTL DEF Spec

\* No target is given more LUNs than its limit, however volumes come, go, fail
\* and are staged again, when they are staged one at a time and no target is
\* configured: what ResolveTargetGroup counted still holds at the mapping.
THEOREM LimitIsKept ==
  ASSUME Overlap = "none", DefaultTarget = None
  PROVE  Spec => []LimitRespected
<1>1. LimitInv => LimitRespected
  BY DEF LimitInv
<1> QED
  BY <1>1, LimitHolds, PTL

-----------------------------------------------------------------------------
(* Volumes without CHAP.                                                   *)

\* A handler for a volume without CHAP secures no target, and has chosen one
\* that does not ask for CHAP.
ChoiceIsPlain(s, auth) ==
  /\ s.pc \in {"credentials", "newCredentials", "secure"} => s.volume \in ChapVolumes
  /\ s.pc # "idle" /\ s.volume \notin ChapVolumes /\ s.group # None => auth[s.group] # "chap"

ChoicesArePlain == \A h \in Handlers : ChoiceIsPlain(stage[h], authentication)

PlainInv == ChoicesArePlain /\ PlainVolumesAvoidChap

LEMMA PutPlain ==
  ASSUME TypeInv, OneAtATime, NEW h \in Handlers, stage[h].pc # "idle",
         NEW local, Put(h, local), ChoiceIsPlain(local, authentication')
  PROVE  ChoicesArePlain'
<1>1. \A g \in Handlers : stage'[g] = IF g = h THEN local ELSE stage[g]
  BY DEF Put, TypeInv, StageInv
<1>2. \A g \in Handlers : g # h => stage[g].pc = "idle"
  BY DEF OneAtATime
<1>3. ASSUME NEW g \in Handlers PROVE ChoiceIsPlain(stage'[g], authentication')
  <2>1. CASE g = h
    BY <1>1, <2>1
  <2>2. CASE g # h
    BY <1>1, <1>2, <2>2 DEF ChoiceIsPlain
  <2> QED
    BY <2>1, <2>2
<1> QED
  BY <1>3 DEF ChoicesArePlain

\* A call that leaves the targets alone keeps the choice, or gives it up.
LEMMA KeepPlain ==
  ASSUME TypeInv, OneAtATime, ChoicesArePlain, NEW h \in Handlers, stage[h].pc # "idle",
         authentication' = authentication, NEW local, Put(h, local),
         local.volume = stage[h].volume, local.group \in {stage[h].group, None},
         local.pc \in {"credentials", "newCredentials", "secure"} => Chap(h)
  PROVE  ChoicesArePlain'
<1>1. ChoiceIsPlain(local, authentication')
  BY DEF ChoicesArePlain, ChoiceIsPlain, Chap
<1> QED
  BY <1>1, PutPlain

LEMMA LoopStepPlain ==
  ASSUME TypeInv, OneAtATime, ChoicesArePlain, NEW h \in Handlers,
         GetTargetGroups(h) \/ CountLuns(h) \/ GetISCSITarget(h) \/ SetChapAuth(h)
  PROVE  ChoicesArePlain'
<1>1. stage[h] \in StageStates
  BY DEF TypeInv, StageInv
<1>2. stage[h].pc # "idle" /\ authentication' = authentication
  BY DEF GetTargetGroups, CountLuns, GetISCSITarget, SetChapAuth, appliance
<1>3. ASSUME NEW s \in StageStates, s.volume = stage[h].volume, s.group = stage[h].group, Put(h, Loop(s))
      PROVE  ChoicesArePlain'
  BY <1>2, <1>3, LoopKeeps, KeepPlain
<1>4. ASSUME Put(h, Choose(stage[h])), ~Chap(h) => authentication[stage[h].cand] # "chap"
      PROVE  ChoicesArePlain'
  <2>1. ChoiceIsPlain(Choose(stage[h]), authentication')
    BY <1>1, <1>2, <1>4, ChooseKeeps DEF ChoiceIsPlain, Chap
  <2> QED
    BY <1>2, <1>4, <2>1, PutPlain
<1>5. CASE GetTargetGroups(h)
  <2> DEFINE s == [stage[h] EXCEPT !.todo = targetGroups]
  <2>1. s \in StageStates /\ s.volume = stage[h].volume /\ s.group = stage[h].group
    BY <1>1 DEF StageStates, TypeInv, ApplianceInv
  <2>2. Put(h, Loop(s))
    BY <1>5 DEF GetTargetGroups
  <2> HIDE DEF s
  <2> QED
    BY <1>3, <2>1, <2>2
<1>6. CASE CountLuns(h)
  <2>1. PICK g \in stage[h].todo :
          LET n == Cardinality(Luns(g))
              rest == [stage[h] EXCEPT !.todo = @ \ {g}]
          IN Put(h, IF Fits(stage[h], n)
                    THEN [rest EXCEPT !.pc = "target", !.cand = g, !.count = n]
                    ELSE Loop(rest))
    BY <1>6 DEF CountLuns
  <2> DEFINE n == Cardinality(Luns(g))
             rest == [stage[h] EXCEPT !.todo = @ \ {g}]
             next == [rest EXCEPT !.pc = "target", !.cand = g, !.count = n]
  <2>2. rest \in StageStates /\ rest.volume = stage[h].volume /\ rest.group = stage[h].group
    BY <1>1 DEF StageStates
  <2> HIDE DEF rest, n
  <2>3. next.pc = "target" /\ next.volume = rest.volume /\ next.group = rest.group
    BY <2>2 DEF StageStates
  <2> HIDE DEF next
  <2>4. Put(h, next) \/ Put(h, Loop(rest))
    BY <2>1 DEF next, rest, n
  <2> QED
    BY <1>2, <1>3, <2>2, <2>3, <2>4, KeepPlain
<1>7. CASE GetISCSITarget(h)
  <2>1. CASE Chap(h) # (authentication[stage[h].cand] = "chap")
    BY <1>1, <1>3, <1>7, <2>1 DEF GetISCSITarget
  <2>2. CASE Chap(h) = (authentication[stage[h].cand] = "chap") /\ Chap(h)
    <3> DEFINE next == [stage[h] EXCEPT !.pc = "credentials"]
    <3>1. next.volume = stage[h].volume /\ next.group = stage[h].group
      BY <1>1 DEF StageStates
    <3>2. Put(h, next)
      BY <1>7, <2>2 DEF GetISCSITarget
    <3> HIDE DEF next
    <3> QED
      BY <1>2, <2>2, <3>1, <3>2, KeepPlain
  <2>3. CASE Chap(h) = (authentication[stage[h].cand] = "chap") /\ ~Chap(h)
    BY <1>4, <1>7, <2>3 DEF GetISCSITarget
  <2> QED
    BY <2>1, <2>2, <2>3 DEF Chap
<1>8. CASE SetChapAuth(h)
  <2>1. Chap(h)
    BY <1>8 DEF SetChapAuth, ChoicesArePlain, ChoiceIsPlain, Chap
  <2> QED
    BY <1>4, <1>8, <2>1 DEF SetChapAuth
<1> QED
  BY <1>5, <1>6, <1>7, <1>8

LEMMA NewTargetPlain ==
  ASSUME DefaultTarget = None, TypeInv, OneAtATime, ChoicesArePlain, NEW h \in Handlers,
         \/ CreateISCSITarget(h) \/ CreateUpdateTargetGroup(h)
         \/ SetChapAuthOfNew(h) \/ UpdateISCSITarget(h)
  PROVE  ChoicesArePlain'
<1>1. stage[h] \in StageStates
  BY DEF TypeInv, StageInv
<1>2. stage[h].pc # "idle"
  BY DEF CreateISCSITarget, CreateUpdateTargetGroup, SetChapAuthOfNew, UpdateISCSITarget
<1>3. CASE CreateISCSITarget(h)
  <2> DEFINE next(t) == [stage[h] EXCEPT !.pc = "newGroup", !.group = t]
  <2>1. PICK t \in Targets :
          /\ authentication[t] = "absent"
          /\ authentication' = [authentication EXCEPT ![t] = IF @ = "absent" THEN "none" ELSE @]
          /\ Put(h, next(t))
    BY <1>3 DEF CreateISCSITarget
  <2>2. next(t).pc = "newGroup" /\ next(t).group = t
    BY <1>1 DEF StageStates
  <2>3. authentication'[t] = "none"
    BY <2>1 DEF TypeInv, ApplianceInv
  <2> HIDE DEF next
  <2>4. ChoiceIsPlain(next(t), authentication')
    BY <2>2, <2>3 DEF ChoiceIsPlain
  <2> QED
    BY <1>2, <2>1, <2>4, PutPlain
<1>4. ASSUME NEW pc, Goto(h, pc)
      PROVE  \E local : /\ Put(h, local) /\ local.pc = pc
                        /\ local.volume = stage[h].volume /\ local.group = stage[h].group
  <2> DEFINE next == [stage[h] EXCEPT !.pc = pc]
  <2>1. next.pc = pc /\ next.volume = stage[h].volume /\ next.group = stage[h].group
    BY <1>1 DEF StageStates
  <2>2. Put(h, next)
    BY <1>4 DEF Goto
  <2> HIDE DEF next
  <2> QED
    BY <2>1, <2>2
<1>5. CASE CreateUpdateTargetGroup(h)
  <2>1. PICK local : /\ Put(h, local) /\ local.pc = IF Chap(h) THEN "newCredentials" ELSE "check"
                     /\ local.volume = stage[h].volume /\ local.group = stage[h].group
    BY <1>4, <1>5 DEF CreateUpdateTargetGroup
  <2>2. authentication' = authentication
    BY <1>5 DEF CreateUpdateTargetGroup
  <2> QED
    BY <1>2, <2>1, <2>2, KeepPlain
<1>6. ASSUME stage[h].pc \in {"newCredentials", "secure"} PROVE Chap(h)
  BY <1>6 DEF ChoicesArePlain, ChoiceIsPlain, Chap
<1>7. CASE SetChapAuthOfNew(h) \/ UpdateISCSITarget(h)
  <2>1. Chap(h)
    BY <1>6, <1>7 DEF SetChapAuthOfNew, UpdateISCSITarget
  <2>2. Return(h) \/ Goto(h, "secure") \/ Goto(h, "check")
    BY <1>7 DEF SetChapAuthOfNew, UpdateISCSITarget
  <2>3. CASE Return(h)
    BY <1>2, <2>3, PutPlain DEF Return, Idle, ChoiceIsPlain
  <2>4. CASE ~Return(h)
    <3>1. PICK local : Put(h, local) /\ local.volume = stage[h].volume
      BY <1>4, <2>2, <2>4
    <3>2. ChoiceIsPlain(local, authentication')
      BY <2>1, <3>1 DEF ChoiceIsPlain, Chap
    <3> QED
      BY <1>2, <3>1, <3>2, PutPlain
  <2> QED
    BY <2>3, <2>4
<1> QED
  BY <1>3, <1>5, <1>7

LEMMA RestPlain ==
  ASSUME TypeInv, OneAtATime, ChoicesArePlain, NEW h \in Handlers,
         \/ GetHostGroups(h) \/ CreateHostGroup(h)
         \/ CheckMapping(h) \/ CreateISCSIMapping(h) \/ VerifyMapping(h) \/ Attach(h)
  PROVE  ChoicesArePlain'
<1>1. stage[h] \in StageStates /\ stage[h].pc # "idle" /\ authentication' = authentication
  BY DEF TypeInv, StageInv, GetHostGroups, HasHostGroup, CreateHostGroup, CheckMapping, CreateISCSIMapping,
     VerifyMapping, Attach, appliance
<1>2. ASSUME Return(h) PROVE ChoicesArePlain'
  BY <1>1, <1>2, PutPlain DEF Return, Idle, ChoiceIsPlain
<1>3. ASSUME NEW pc \in {"newHost", "map", "verify", "attach"}, Goto(h, pc) PROVE ChoicesArePlain'
  <2> DEFINE next == [stage[h] EXCEPT !.pc = pc]
  <2>1. next.pc = pc /\ next.volume = stage[h].volume /\ next.group = stage[h].group
    BY <1>1 DEF StageStates
  <2>2. Put(h, next)
    BY <1>3 DEF Goto
  <2> HIDE DEF next
  <2> QED
    BY <1>1, <1>3, <2>1, <2>2, KeepPlain
<1>4. ASSUME NEW hg, Put(h, [stage[h] EXCEPT !.pc = AfterHostGroup, !.hostGroup = hg])
      PROVE  ChoicesArePlain'
  <2> DEFINE next == [stage[h] EXCEPT !.pc = AfterHostGroup, !.hostGroup = hg]
  <2>1. next.pc = AfterHostGroup /\ next.volume = stage[h].volume /\ next.group = stage[h].group
    BY <1>1 DEF StageStates
  <2> HIDE DEF next
  <2>2. next.pc \in {"groups", "newTarget"}
    BY <2>1 DEF AfterHostGroup
  <2> QED
    BY <1>1, <1>4, <2>1, <2>2, KeepPlain DEF next
<1>5. CASE GetHostGroups(h) \/ CreateHostGroup(h)
  BY <1>3, <1>4, <1>5 DEF GetHostGroups, HasHostGroup, CreateHostGroup
<1> QED
  BY <1>2, <1>3, <1>5 DEF CheckMapping, CreateISCSIMapping, VerifyMapping, Attach

LEMMA FailPlain ==
  ASSUME DefaultTarget = None, TypeInv, OneAtATime, ChoicesArePlain, NEW h \in Handlers, Fail(h)
  PROVE  ChoicesArePlain'
<1>1. /\ stage[h] \in StageStates /\ stage[h].pc # "idle"
      /\ authentication' = authentication /\ Put(h, AfterFailure(h))
  BY DEF TypeInv, StageInv, Fail, appliance
<1>2. CASE stage[h].pc \in InLists
  <2> DEFINE next == [stage[h] EXCEPT !.pc = "check", !.group = None, !.todo = {}]
  <2>1. AfterFailure(h) = next
    BY <1>2 DEF AfterFailure, InLists, InCreateNew
  <2>2. next.pc = "check" /\ next.group = None /\ next.volume = stage[h].volume
    BY <1>1 DEF StageStates
  <2> HIDE DEF next
  <2> QED
    BY <1>1, <2>1, <2>2, KeepPlain
<1>3. CASE stage[h].pc = "newGroup" /\ Chap(h)
  <2> DEFINE next == [stage[h] EXCEPT !.pc = "newCredentials", !.noGroup = TRUE]
  <2>1. AfterFailure(h) = next
    BY <1>3 DEF AfterFailure, InLists, InCreateNew
  <2>2. next.group = stage[h].group /\ next.volume = stage[h].volume
    BY <1>1 DEF StageStates
  <2> HIDE DEF next
  <2> QED
    BY <1>1, <1>3, <2>1, <2>2, KeepPlain
<1>4. CASE stage[h].pc \notin InLists /\ ~(stage[h].pc = "newGroup" /\ Chap(h))
  <2>1. AfterFailure(h) = Idle
    BY <1>4, NamesAssumption DEF AfterFailure
  <2>2. ChoiceIsPlain(Idle, authentication')
    BY DEF ChoiceIsPlain, Idle
  <2> QED
    BY <1>1, <2>1, <2>2, PutPlain
<1> QED
  BY <1>2, <1>3, <1>4

LEMMA PlainChoicesStep ==
  ASSUME Overlap = "none", DefaultTarget = None, TypeInv, OneAtATime, ChoicesArePlain, Next
  PROVE  ChoicesArePlain'
<1>1. ASSUME NEW h \in Handlers, NEW v \in Volumes, NodeStageVolume(h, v) PROVE ChoicesArePlain'
  <2> DEFINE local == [Idle EXCEPT !.pc = "hosts", !.volume = v]
  <2>1. local.pc = "hosts" /\ local.group = None
    BY DEF Idle
  <2>2. \A g \in Handlers : stage'[g] = IF g = h THEN local ELSE stage[g]
    BY <1>1 DEF NodeStageVolume, TypeInv, StageInv
  <2>3. \A g \in Handlers : stage[g].pc = "idle"
    BY <1>1 DEF NodeStageVolume, MayOverlap
  <2> HIDE DEF local
  <2> QED
    BY <2>1, <2>2, <2>3 DEF ChoicesArePlain, ChoiceIsPlain
<1>2. ASSUME UNCHANGED <<stage, authentication>> PROVE ChoicesArePlain'
  BY <1>2 DEF ChoicesArePlain
<1>3. ASSUME NEW h \in Handlers, Stage(h) PROVE ChoicesArePlain'
  BY <1>3, LoopStepPlain, NewTargetPlain, RestPlain, FailPlain DEF Stage
<1> QED
  BY <1>1, <1>2, <1>3 DEF Next, NodeUnstageVolume, ControllerUnpublishVolume, appliance

\* CHAP comes to a target only while it is new and has no LUNs.
LEMMA ChapComes ==
  ASSUME TypeInv, LimitInv, Next, NEW t \in Targets,
         authentication[t] # "chap", authentication'[t] = "chap"
  PROVE  LunsIn(t, mappings) = {} /\ mappings' = mappings
<1>1. PICK h \in Handlers : CreateISCSITarget(h) \/ UpdateISCSITarget(h)
  BY DEF Next, Stage, GetHostGroups, HasHostGroup, CreateHostGroup, GetTargetGroups, CountLuns, GetISCSITarget,
     SetChapAuth, CreateUpdateTargetGroup, SetChapAuthOfNew, CheckMapping, CreateISCSIMapping,
     VerifyMapping, Attach, Fail, NodeStageVolume, NodeUnstageVolume, ControllerUnpublishVolume, appliance
<1>2. CASE CreateISCSITarget(h)
  BY <1>2 DEF CreateISCSITarget, TypeInv, ApplianceInv
<1>3. CASE UpdateISCSITarget(h)
  <2>1. t = stage[h].group /\ stage[h].pc = "secure" /\ mappings' = mappings
    BY <1>3 DEF UpdateISCSITarget, TypeInv, ApplianceInv
  <2>2. RoomIsKept(stage[h], mappings, authentication)
    BY DEF LimitInv, ChoicesHaveRoom
  <2> QED
    BY <2>1, <2>2 DEF RoomIsKept, InCreateNew
<1> QED
  BY <1>1, <1>2, <1>3

LEMMA PlainMappingsStep ==
  ASSUME TypeInv, LimitInv, PlainInv, Next
  PROVE  PlainVolumesAvoidChap'
<1> SUFFICES ASSUME NEW m \in mappings', m.volume \notin ChapVolumes, m.group # None,
                    authentication'[m.group] = "chap"
             PROVE  FALSE
  BY DEF PlainVolumesAvoidChap
<1>1. CASE m \in mappings
  <2>1. m.group \in Targets /\ authentication[m.group] # "chap"
    BY <1>1 DEF PlainInv, PlainVolumesAvoidChap, TypeInv, ApplianceInv
  <2> QED
    BY <1>1, <2>1, ChapComes DEF LunsIn
<1>2. CASE m \notin mappings
  <2>1. PICK h \in Handlers : CreateISCSIMapping(h)
    BY <1>2 DEF Next, Stage, GetHostGroups, HasHostGroup, CreateHostGroup, GetTargetGroups, CountLuns,
       GetISCSITarget, SetChapAuth, CreateISCSITarget, CreateUpdateTargetGroup, SetChapAuthOfNew,
       UpdateISCSITarget, CheckMapping, VerifyMapping, Attach, Fail, NodeStageVolume,
       NodeUnstageVolume, ControllerUnpublishVolume, appliance
  <2>2. m.volume = stage[h].volume /\ m.group = stage[h].group /\ authentication' = authentication
    BY <1>2, <2>1 DEF CreateISCSIMapping
  <2> QED
    BY <2>1, <2>2 DEF CreateISCSIMapping, PlainInv, ChoicesArePlain, ChoiceIsPlain
<1> QED
  BY <1>1, <1>2

\* A volume without CHAP is behind a target that does not ask for it, when volumes
\* are staged one at a time and no target is configured: a target is only secured
\* while it is new, and one is new to nobody but the stage that makes it.
THEOREM PlainVolumesStayPlain ==
  ASSUME Overlap = "none", DefaultTarget = None
  PROVE  Spec => []PlainVolumesAvoidChap
<1>1. Init => PlainInv
  BY DEF Init, Idle, PlainInv, ChoicesArePlain, ChoiceIsPlain, PlainVolumesAvoidChap
<1>2. TypeInv /\ LimitInv /\ PlainInv /\ Next => PlainInv'
  BY PlainChoicesStep, PlainMappingsStep DEF PlainInv, LimitInv
<1>3. PlainInv /\ UNCHANGED vars => PlainInv'
  BY DEF PlainInv, ChoicesArePlain, PlainVolumesAvoidChap, vars, appliance
<1>4. PlainInv => PlainVolumesAvoidChap
  BY DEF PlainInv
<1> QED
  BY <1>1, <1>2, <1>3, <1>4, LimitHolds, PTL DEF Spec

-----------------------------------------------------------------------------
(* One mapping for each volume, behind a configured target.                *)

Unhosted == {"idle", "hosts", "newHost"}

\* The host group of a volume: the one configured, or its node's own.
Hosts(hg, v, mem) ==
  IF DefaultHostGroup = None THEN mem[hg] = NodeOf[v] ELSE hg = DefaultHostGroup

\* With a configured target a handler lists none, has the host group of its
\* volume, and takes the target that is configured.
Guided(s, mem) ==
  /\ s.pc \notin {"groups", "count", "target", "credentials"}
  /\ s.pc = "newHost" => DefaultHostGroup = None
  /\ s.pc \notin Unhosted => Hosts(s.hostGroup, s.volume, mem)
  /\ s.pc \notin Unhosted \cup {"newTarget"} => s.group = DefaultTarget

AllGuided == \A h \in Handlers : Guided(stage[h], members)

MappingsAreOwn ==
  \A m \in mappings : m.group = DefaultTarget /\ Hosts(m.hostGroup, m.volume, members)

OwnInv == AllGuided /\ MappingsAreOwn

\* A host group keeps its initiator.
LEMMA MembersStay ==
  ASSUME TypeInv, Next
  PROVE  \A hg \in HostGroups : members[hg] # None => members'[hg] = members[hg]
<1>1. ASSUME NEW h \in Handlers, CreateHostGroup(h), NEW hg \in HostGroups, members[hg] # None
      PROVE  members'[hg] = members[hg]
  BY <1>1 DEF CreateHostGroup, TypeInv, ApplianceInv
<1> QED
  BY <1>1, MembersChange DEF Next, NodeStageVolume, NodeUnstageVolume, ControllerUnpublishVolume,
     appliance

LEMMA NodesAreNodes == \A v \in Volumes : NodeOf[v] # None
BY NodesAssumption, NamesAssumption

LEMMA GuidedStays ==
  ASSUME TypeInv, Next, NEW h \in Handlers, Guided(stage[h], members)
  PROVE  Guided(stage[h], members')
<1>1. Knows(stage[h])
  BY DEF TypeInv, StageInv
<1> QED
  BY <1>1, MembersStay, NodesAreNodes DEF Guided, Hosts, Knows, Unhosted

LEMMA PutGuided ==
  ASSUME TypeInv, Next, AllGuided, NEW h \in Handlers, NEW local, Put(h, local),
         Guided(local, members')
  PROVE  AllGuided'
<1>1. \A g \in Handlers : stage'[g] = IF g = h THEN local ELSE stage[g]
  BY DEF Put, TypeInv, StageInv
<1>2. ASSUME NEW g \in Handlers PROVE Guided(stage'[g], members')
  BY <1>1, GuidedStays DEF AllGuided
<1> QED
  BY <1>2 DEF AllGuided

\* Past the choice of the host group and the target a handler keeps both.
LEMMA GotoGuided ==
  ASSUME TypeInv, Next, AllGuided, NEW h \in Handlers, NEW pc, Goto(h, pc),
         \/ pc = "newHost" /\ DefaultHostGroup = None
         \/ /\ pc \in {"newCredentials", "secure", "check", "map", "verify", "attach"}
            /\ stage[h].pc \notin Unhosted \cup {"newTarget"}
  PROVE  AllGuided'
<1> DEFINE next == [stage[h] EXCEPT !.pc = pc]
<1>1. /\ next.pc = pc /\ next.volume = stage[h].volume
      /\ next.group = stage[h].group /\ next.hostGroup = stage[h].hostGroup
  BY DEF TypeInv, StageInv, StageStates
<1>2. Put(h, next)
  BY DEF Goto
<1> HIDE DEF next
<1>3. Guided(stage[h], members')
  BY GuidedStays DEF AllGuided
<1>4. Guided(next, members')
  BY <1>1, <1>3 DEF Guided, Unhosted
<1> QED
  BY <1>2, <1>4, PutGuided

LEMMA IdleGuided == ASSUME NEW mem PROVE Guided(Idle, mem)
BY DEF Guided, Idle, Unhosted

LEMMA FailGuided ==
  ASSUME ~Dynamic, TypeInv, Next, AllGuided, NEW h \in Handlers, Fail(h)
  PROVE  AllGuided'
<1>1. stage[h] \in StageStates /\ Put(h, AfterFailure(h))
  BY DEF TypeInv, StageInv, Fail
<1>2. stage[h].pc \notin InLists /\ Guided(stage[h], members')
  BY GuidedStays DEF AllGuided, Guided, InLists
<1>3. CASE stage[h].pc = "newGroup" /\ Chap(h)
  <2> DEFINE next == [stage[h] EXCEPT !.pc = "newCredentials", !.noGroup = TRUE]
  <2>1. AfterFailure(h) = next
    BY <1>3 DEF AfterFailure, InLists, InCreateNew
  <2>2. /\ next.pc = "newCredentials" /\ next.group = stage[h].group
        /\ next.volume = stage[h].volume /\ next.hostGroup = stage[h].hostGroup
    BY <1>1 DEF StageStates
  <2> HIDE DEF next
  <2>3. Guided(next, members')
    BY <1>2, <1>3, <2>2 DEF Guided, Unhosted
  <2> QED
    BY <1>1, <2>1, <2>3, PutGuided
<1>4. CASE stage[h].pc \in InCreateNew /\ ~(stage[h].pc = "newGroup" /\ Chap(h))
  <2> DEFINE next == [stage[h] EXCEPT !.pc = "check", !.group = DefaultTarget]
  <2>1. AfterFailure(h) = next
    BY <1>2, <1>4 DEF AfterFailure
  <2>2. /\ next.pc = "check" /\ next.group = DefaultTarget
        /\ next.volume = stage[h].volume /\ next.hostGroup = stage[h].hostGroup
    BY <1>1 DEF StageStates
  <2> HIDE DEF next
  <2>3. Guided(next, members')
    BY <1>2, <1>4, <2>2 DEF Guided, Unhosted, InCreateNew
  <2> QED
    BY <1>1, <2>1, <2>3, PutGuided
<1>5. CASE stage[h].pc \notin InCreateNew
  <2>1. AfterFailure(h) = Idle
    BY <1>2, <1>5 DEF AfterFailure, InCreateNew
  <2> QED
    BY <1>1, <2>1, IdleGuided, PutGuided
<1> QED
  BY <1>3, <1>4, <1>5 DEF InCreateNew

LEMMA AllGuidedStep ==
  ASSUME ~Dynamic, TypeInv, AllGuided, Next
  PROVE  AllGuided'
<1>1. ASSUME NEW h \in Handlers, NEW v \in Volumes, NodeStageVolume(h, v) PROVE AllGuided'
  <2> DEFINE local == [Idle EXCEPT !.pc = "hosts", !.volume = v]
  <2>1. local.pc = "hosts"
    BY DEF Idle
  <2>2. Put(h, local)
    BY <1>1 DEF NodeStageVolume, Put
  <2> HIDE DEF local
  <2>3. Guided(local, members')
    BY <2>1 DEF Guided, Unhosted
  <2> QED
    BY <2>2, <2>3, PutGuided
<1>2. ASSUME NEW h \in Handlers, NEW hg \in HostGroups, Hosts(hg, stage[h].volume, members'),
             Put(h, [stage[h] EXCEPT !.pc = AfterHostGroup, !.hostGroup = hg])
      PROVE  AllGuided'
  <2> DEFINE next == [stage[h] EXCEPT !.pc = "newTarget", !.hostGroup = hg]
  <2>1. next.pc = "newTarget" /\ next.hostGroup = hg /\ next.volume = stage[h].volume
    BY DEF TypeInv, StageInv, StageStates
  <2>2. Put(h, next)
    BY <1>2 DEF AfterHostGroup
  <2> HIDE DEF next
  <2>3. Guided(next, members')
    BY <1>2, <2>1 DEF Guided, Unhosted
  <2> QED
    BY <2>2, <2>3, PutGuided
<1>3. ASSUME NEW h \in Handlers, GetHostGroups(h) PROVE AllGuided'
  <2>1. CASE DefaultHostGroup = None /\ Goto(h, "newHost")
    BY <2>1, GotoGuided
  <2>2. ASSUME NEW hg \in HostGroups,
               IF DefaultHostGroup = None THEN members[hg] = NodeAt(h) ELSE hg = DefaultHostGroup,
               Put(h, [stage[h] EXCEPT !.pc = AfterHostGroup, !.hostGroup = hg])
        PROVE  AllGuided'
    <3>1. Hosts(hg, stage[h].volume, members')
      BY <1>3, <2>2 DEF GetHostGroups, HasHostGroup, appliance, Hosts, NodeAt
    <3> QED
      BY <1>2, <2>2, <3>1
  <2> QED
    BY <1>3, <2>1, <2>2 DEF GetHostGroups, HasHostGroup
<1>4. ASSUME NEW h \in Handlers, CreateHostGroup(h) PROVE AllGuided'
  <2>1. PICK hg \in HostGroups :
          /\ members' = [members EXCEPT ![hg] = NodeAt(h)]
          /\ Put(h, [stage[h] EXCEPT !.pc = AfterHostGroup, !.hostGroup = hg])
    BY <1>4 DEF CreateHostGroup
  <2>2. members'[hg] = NodeAt(h)
    BY <2>1 DEF TypeInv, ApplianceInv
  <2>3. DefaultHostGroup = None
    BY <1>4 DEF CreateHostGroup, AllGuided, Guided
  <2>4. Hosts(hg, stage[h].volume, members')
    BY <2>2, <2>3 DEF Hosts, NodeAt
  <2> QED
    BY <1>2, <2>1, <2>4
<1>5. ASSUME NEW h \in Handlers,
             GetTargetGroups(h) \/ CountLuns(h) \/ GetISCSITarget(h) \/ SetChapAuth(h)
      PROVE  AllGuided'
  BY <1>5 DEF AllGuided, Guided, GetTargetGroups, CountLuns, GetISCSITarget, SetChapAuth
<1>6. ASSUME NEW h \in Handlers, CreateISCSITarget(h) PROVE AllGuided'
  <2> DEFINE next == [stage[h] EXCEPT !.pc = "newGroup", !.group = DefaultTarget]
  <2>1. /\ next.pc = "newGroup" /\ next.group = DefaultTarget
        /\ next.volume = stage[h].volume /\ next.hostGroup = stage[h].hostGroup
    BY DEF TypeInv, StageInv, StageStates
  <2>2. Put(h, next) /\ stage[h].pc = "newTarget"
    BY <1>6, NamesAssumption DEF CreateISCSITarget
  <2> HIDE DEF next
  <2>3. Guided(stage[h], members')
    BY GuidedStays DEF AllGuided
  <2>4. Guided(next, members')
    BY <2>1, <2>2, <2>3 DEF Guided, Unhosted
  <2> QED
    BY <2>2, <2>4, PutGuided
<1>7. ASSUME NEW h \in Handlers, Return(h) PROVE AllGuided'
  BY <1>7, IdleGuided, PutGuided DEF Return
<1>8. ASSUME NEW h \in Handlers,
             \/ CreateUpdateTargetGroup(h) \/ SetChapAuthOfNew(h) \/ UpdateISCSITarget(h)
             \/ CheckMapping(h) \/ CreateISCSIMapping(h) \/ VerifyMapping(h) \/ Attach(h)
      PROVE  AllGuided'
  BY <1>7, <1>8, GotoGuided DEF CreateUpdateTargetGroup, SetChapAuthOfNew, UpdateISCSITarget,
     CheckMapping, CreateISCSIMapping, VerifyMapping, Attach, Unhosted
<1>9. ASSUME UNCHANGED <<stage, members>> PROVE AllGuided'
  BY <1>9 DEF AllGuided
<1> QED
  BY <1>1, <1>3, <1>4, <1>5, <1>6, <1>8, <1>9, FailGuided DEF Next, Stage, NodeUnstageVolume,
     ControllerUnpublishVolume, appliance

LEMMA OwnMappingsStep ==
  ASSUME TypeInv, OwnInv, Next
  PROVE  MappingsAreOwn'
<1> SUFFICES ASSUME NEW m \in mappings'
             PROVE  m.group = DefaultTarget /\ Hosts(m.hostGroup, m.volume, members')
  BY DEF MappingsAreOwn
<1>1. CASE m \in mappings
  <2>1. m.volume \in Volumes /\ m.hostGroup \in HostGroups
    BY <1>1 DEF TypeInv, ApplianceInv
  <2> QED
    BY <1>1, <2>1, MembersStay, NodesAreNodes DEF OwnInv, MappingsAreOwn, Hosts
<1>2. CASE m \notin mappings
  <2>1. PICK h \in Handlers : CreateISCSIMapping(h)
    BY <1>2 DEF Next, Stage, GetHostGroups, HasHostGroup, CreateHostGroup, GetTargetGroups, CountLuns,
       GetISCSITarget, SetChapAuth, CreateISCSITarget, CreateUpdateTargetGroup, SetChapAuthOfNew,
       UpdateISCSITarget, CheckMapping, VerifyMapping, Attach, Fail, NodeStageVolume,
       NodeUnstageVolume, ControllerUnpublishVolume, appliance
  <2>2. /\ m.volume = stage[h].volume /\ m.group = stage[h].group
        /\ m.hostGroup = stage[h].hostGroup /\ stage[h].pc = "map" /\ members' = members
    BY <1>2, <2>1 DEF CreateISCSIMapping
  <2> QED
    BY <2>2 DEF OwnInv, AllGuided, Guided, Unhosted
<1> QED
  BY <1>1, <1>2

\* However often a volume is staged and whatever fails, it has one mapping, when a
\* target is configured and the stages under way are those of different nodes: every
\* stage of the volume looks for its mapping behind the same target and host group.
THEOREM VolumesAreMappedOnce ==
  ASSUME ~Dynamic, Overlap # "any"
  PROVE  Spec => []OneMappingPerVolume
<1>1. Init => OwnInv
  BY IdleGuided DEF Init, OwnInv, AllGuided, MappingsAreOwn
<1>2. TypeInv /\ OwnInv /\ Next => OwnInv'
  BY AllGuidedStep, OwnMappingsStep DEF OwnInv
<1>3. OwnInv /\ UNCHANGED vars => OwnInv'
  BY DEF OwnInv, AllGuided, MappingsAreOwn, vars, appliance
<1>4. TypeInv /\ OwnInv /\ InitiatorInOneHostGroup => OneMappingPerVolume
  <2> SUFFICES ASSUME TypeInv, OwnInv, InitiatorInOneHostGroup,
                      NEW m1 \in mappings, NEW m2 \in mappings, m1.volume = m2.volume
               PROVE  m1 = m2
    BY DEF OneMappingPerVolume
  <2>1. /\ m1 \in [volume : Volumes, group : Targets \cup {None}, hostGroup : HostGroups]
        /\ m2 \in [volume : Volumes, group : Targets \cup {None}, hostGroup : HostGroups]
    BY DEF TypeInv, ApplianceInv
  <2>2. /\ m1.group = m2.group
        /\ Hosts(m1.hostGroup, m1.volume, members) /\ Hosts(m2.hostGroup, m2.volume, members)
    BY DEF OwnInv, MappingsAreOwn
  <2>3. NodeOf[m1.volume] # None
    BY <2>1, NodesAreNodes
  <2>4. m1.hostGroup = m2.hostGroup
    BY <2>1, <2>2, <2>3 DEF InitiatorInOneHostGroup, Hosts
  <2> QED
    BY <2>1, <2>2, <2>4
<1> QED
  BY <1>1, <1>2, <1>3, <1>4, Typing, InitiatorsStayApart, PTL DEF Spec

=============================================================================
