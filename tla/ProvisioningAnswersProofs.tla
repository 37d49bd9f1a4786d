---------------------- MODULE ProvisioningAnswersProofs ----------------------
(***************************************************************************)
(* What CreateVolume's answer tells the CO: that the volume holds what was *)
(* asked for, has the capacity reported and is where it was asked for; and *)
(* that what it does not tell the CO of has not been left behind.          *)
(***************************************************************************)
EXTENDS ProvisioningRefinementProofs

-----------------------------------------------------------------------------
(* What a claim that is bound, or about to be, relies on.                  *)

\* A bound clone holds what its source held when it was first asked for.
ClonesHold ==
    \A n \in Names : claim[n].phase = "bound" /\ Kind(n) = "volume" =>
        LET held == volume[claim[n].vol].content  since == claim[n].since IN
        since # NoContent /\ held.root = since.root /\ since.writes <= held.writes

\* A CreateVolume call that has chosen an entry chose one of the zone, and the one
\* that its parameters or its source name.
Chosen(h) ==
    LET n == handler[h].obj  c == handler[h].vol.config IN
    handler[h].op = "CreateVolume" =>
        /\ Kind(n) = "none" => handler[h].snap = NoSnapshot
        /\ handler[h].pc = "resolve" => handler[h].vol = NoVolume
        /\ handler[h].pc # "resolve" =>
             /\ Claim[n].zone \in {NoZone, Zone[c]}
             /\ Kind(n) = "none" => Claim[n].config \in {AnyConfig, c}
             /\ Kind(n) = "volume" => handler[h].snap.volume.config = c

EntriesChosen == \A h \in Handlers : Chosen(h)

Placed(n) ==
    LET c == claim[n].vol.config IN
    claim[n].phase = "bound" =>
        /\ Claim[n].zone \in {NoZone, Zone[c]}
        /\ Kind(n) = "none" => Claim[n].config \in {AnyConfig, c}
        /\ Kind(n) = "volume" =>
             claim[SourceOf(n)].phase # "unbound" /\ claim[SourceOf(n)].vol.config = c

ClaimsPlaced == \A n \in Names : Placed(n)

\* CreateVolume answers about a plain volume only if it has the size asked for.
Measured(h) ==
    /\ handler[h].op = "CreateVolume" /\ handler[h].pc = "reply" /\ handler[h].live
    /\ Kind(handler[h].obj) = "none"
    => volume[handler[h].vol].size = handler[h].size

SizesMeasured == \A h \in Handlers : Measured(h)

\* All that is proved so far, of one state.
Base == TypeInv /\ Known /\ OwnershipInv /\ ContentInv

-----------------------------------------------------------------------------
(* How a call of CreateVolume goes on.                                     *)

SameCreate(g) ==
    /\ handler'[g].op = handler[g].op /\ handler'[g].obj = handler[g].obj
    /\ handler'[g].snap = handler[g].snap /\ handler'[g].size = handler[g].size
    /\ handler'[g].vol = handler[g].vol
    /\ handler'[g].live => handler[g].live
    /\ handler[g].live /\ ~handler'[g].live => AbandonCall(g)
    /\ handler'[g].pc = "resolve" <=> handler[g].pc = "resolve"

LEMMA CreateStep ==
    ASSUME TypeInv, Next, NEW g \in Handlers, handler'[g].op = "CreateVolume"
    PROVE  SameCreate(g) \/ Resolve(g) \/ \E n \in Names, size \in Sizes : CallCreateVolume(g, n, size)
<1>0. HandlerInv /\ \A h \in Handlers : handler[h] \in HandlerStates /\ GoodHandler(handler[h])
  BY RecordType DEF TypeInv
<1>1. ASSUME handler'[g] = handler[g] PROVE SameCreate(g)
  BY <1>1 DEF SameCreate
<1>2. ASSUME NEW h \in Handlers, ReturnError(h) PROVE SameCreate(g)
  <2>1. handler'[g] = handler[g]
    BY <1>0, <1>2 DEF ReturnError, HandlerInv, Idle
  <2> QED
    BY <1>1, <2>1
<1>3. ASSUME NEW h \in Handlers, NEW pc \in Steps \ {"resolve"}, Goto(h, pc),
             handler[h].pc # "resolve" \/ handler[h].op # "CreateVolume"
      PROVE  SameCreate(g)
  BY <1>0, <1>3 DEF Goto, HandlerInv, HandlerStates, SameCreate
<1>4. ASSUME NEW h \in Handlers, h # g, Calls(h) PROVE SameCreate(g)
  <2>1. ASSUME NEW op, NEW obj, NEW vol, NEW id, NEW size, Start(h, op, obj, vol, id, size)
        PROVE  handler'[g] = handler[g]
    BY <1>0, <1>4, <2>1 DEF Start, HandlerInv
  <2>2. handler'[g] = handler[g]
    BY <1>4, <2>1 DEF Calls, CallCreateVolume, CallDeleteVolume, CallCreateSnapshot, CallDeleteSnapshot
  <2> QED
    BY <1>1, <2>2
<1>5. ASSUME Calls(g) PROVE \E n \in Names, size \in Sizes : CallCreateVolume(g, n, size)
  <2>1. ASSUME NEW op, NEW obj, NEW vol, NEW id, NEW size, Start(g, op, obj, vol, id, size)
        PROVE  op = "CreateVolume"
    BY <1>0, <2>1 DEF Start, HandlerInv
  <2> QED
    BY <1>5, <2>1 DEF Calls, CallDeleteVolume, CallCreateSnapshot, CallDeleteSnapshot
<1>6. ASSUME NEW h \in Handlers, HandlerStep(h) PROVE SameCreate(g) \/ Resolve(g)
  <2>1. CASE Resolve(h)
    <3>1. h # g => handler'[g] = handler[g]
      BY <1>0, <2>1 DEF Resolve, HandlerInv
    <3> QED
      BY <1>1, <2>1, <3>1
  <2>2. CASE ResolveNotFound(h) \/ ResolveWrongZone(h)
    BY <1>2, <1>3, <2>2 DEF ResolveNotFound, ResolveWrongZone, Steps
  <2>3. CASE ResolvePanics(h)
    BY <2>3 DEF ResolvePanics, CrashAll, Idle
  <2>4. CASE CreateNew(h) \/ GetExisting(h) \/ GetSnapshot(h) \/ Clone(h)
    BY <1>2, <1>3, <2>4 DEF CreateNew, GetExisting, GetSnapshot, Clone, At, Steps
  <2>5. CASE ListSnapshots(h) \/ CreateSnapshotOnNS(h) \/ GetCreated(h)
    BY <1>2, <1>3, <2>5 DEF ListSnapshots, CreateSnapshotOnNS, GetCreated, Steps
  <2>6. CASE GetLuns(h) \/ DestroyLun(h)
    <3>1. CASE ReturnError(h)
      BY <1>2, <3>1
    <3>2. CASE ~ReturnError(h)
      <4>1. handler'[g] = handler[g]
        BY <1>0, <2>6, <3>2 DEF GetLuns, DestroyLun, At, HandlerInv, HandlerStates
      <4> QED
        BY <1>1, <4>1
    <3> QED
      BY <3>1, <3>2
  <2>7. CASE DestroyVolume(h) \/ DestroySnapshot(h)
    BY <1>2, <1>3, <2>7 DEF DestroyVolume, DestroySnapshot, At, Steps
  <2>8. CASE Reply(h)
    BY <1>2, <2>8 DEF Reply, ReturnError
  <2> QED
    BY <1>6, <2>1, <2>2, <2>3, <2>4, <2>5, <2>6, <2>7, <2>8 DEF HandlerStep
<1>7. ASSUME Environment PROVE SameCreate(g)
  <2>1. ASSUME NEW h \in Handlers, AbandonCall(h) PROVE SameCreate(g)
    BY <1>0, <2>1 DEF AbandonCall, HandlerInv, HandlerStates, SameCreate
  <2>2. ASSUME NEW h \in Handlers, Fail(h) PROVE SameCreate(g)
    BY <1>2, <2>2 DEF Fail
  <2>3. ASSUME Crash PROVE FALSE
    BY <2>3 DEF Crash, CrashAll, Idle
  <2> QED
    BY <1>1, <1>7, <2>1, <2>2, <2>3 DEF Environment, NodeMaps, NodeUnmaps, Write, PoolExport, PoolImport
<1> QED
  BY <1>4, <1>5, <1>6, <1>7 DEF Next

-----------------------------------------------------------------------------
(* Where: resolveNS looks at the zone and at the entry that is named.      *)

LEMMA ChosenStep ==
    ASSUME TypeInv, Known, OwnershipInv, CallsAreAsked, EntriesChosen, Next
    PROVE  EntriesChosen'
<1> SUFFICES ASSUME NEW g \in Handlers, handler'[g].op = "CreateVolume" PROVE Chosen(g)'
  BY DEF EntriesChosen, Chosen
<1>0. HandlerInv /\ handler[g] \in HandlerStates /\ GoodHandler(handler[g]) /\ Chosen(g)
  BY RecordType DEF TypeInv, EntriesChosen
<1>1. CASE SameCreate(g)
  BY <1>0, <1>1 DEF SameCreate, Chosen
<1>2. CASE Resolve(g)
  <2>1. PICK c \in Candidates(g) :
          handler' = [handler EXCEPT
            ![g].pc  = AfterResolve(g),
            ![g].vol = IF handler[g].op = "CreateVolume" THEN [config |-> c, name |-> handler[g].obj] ELSE @]
    BY <1>2 DEF Resolve
  <2>2. /\ handler'[g].op = handler[g].op /\ handler'[g].obj = handler[g].obj
        /\ handler'[g].snap = handler[g].snap /\ handler'[g].pc = AfterResolve(g)
        /\ handler[g].op = "CreateVolume" => handler'[g].vol = [config |-> c, name |-> handler[g].obj]
    BY <1>0, <2>1 DEF HandlerInv, HandlerStates
  <2> DEFINE n == handler[g].obj
  <2>3. handler[g].op = "CreateVolume" /\ handler[g].pc = "resolve" /\ n \in Names /\ handler[g].vol = NoVolume
    BY <1>0, <1>2, <2>2 DEF Resolve, GoodHandler, Chosen
  <2>4. Kind(n) \in {"none", "volume", "snapshot"}
    BY <2>3, Kinds
  <2>5. AfterResolve(g) # "resolve" /\ handler'[g].vol.config = c
    BY <2>2, <2>3, <2>4 DEF AfterResolve, Kind
  <2>6. c \in Configs /\ Entry(g) \in {c, AnyConfig} /\ Claim[n].zone \in {NoZone, Zone[c]}
    BY <2>3 DEF Candidates, InZone
  <2>7. Kind(n) = "none" => Claim[n].config \in {AnyConfig, c}
    BY <1>0, <2>3, <2>6 DEF Chosen, Entry
  <2>8. ASSUME Kind(n) = "volume" PROVE handler[g].snap.volume.config = c
    <3>1. handler[g].snap \in SnapIds
      BY <1>0, <2>3, <2>8 DEF GoodHandler, Kind
    <3>2. handler[g].snap # NoSnapshot /\ handler[g].snap.volume.config \in Configs
      BY <3>1, NoSnapshotAssumption DEF SnapIds, VolIds
    <3> QED
      BY <2>6, <3>2, ObjectAssumption DEF Entry
  <2> QED
    BY <1>0, <2>2, <2>3, <2>5, <2>6, <2>7, <2>8 DEF Chosen
<1>3. ASSUME NEW n \in Names, NEW size \in Sizes, CallCreateVolume(g, n, size) PROVE Chosen(g)'
  <2>1. Start(g, "CreateVolume", n, NoVolume, SourceSnapshot(n), size)
    BY <1>3 DEF CallCreateVolume
  <2>2. /\ handler'[g].obj = n /\ handler'[g].vol = NoVolume /\ handler'[g].pc = "resolve"
        /\ handler'[g].snap = SourceSnapshot(n)
    BY <1>0, <2>1 DEF Start, HandlerInv
  <2>3. Kind(n) = "none" => SourceSnapshot(n) = NoSnapshot
    BY DEF Kind, SourceSnapshot
  <2> QED
    BY <2>2, <2>3 DEF Chosen
<1> QED
  BY <1>1, <1>2, <1>3, CreateStep

\* A claim that gets bound is bound to the volume its call chose.
LEMMA PlacedStep ==
    ASSUME Base, EntriesChosen, ClaimsPlaced, Next
    PROVE  ClaimsPlaced'
<1> SUFFICES ASSUME NEW n \in Names, claim'[n].phase = "bound"
             PROVE  LET c == claim'[n].vol.config IN
                    /\ Claim[n].zone \in {NoZone, Zone[c]}
                    /\ Kind(n) = "none" => Claim[n].config \in {AnyConfig, c}
                    /\ Kind(n) = "volume" =>
                         claim'[SourceOf(n)].phase # "unbound" /\ claim'[SourceOf(n)].vol.config = c
  BY DEF ClaimsPlaced, Placed
<1>0. TypeInv /\ Known /\ OwnershipInv /\ CallsAreAsked
  BY DEF Base, ContentInv
<1>1. CASE claim[n].phase = "bound"
  <2>1. claim'[n].vol = claim[n].vol /\ Placed(n)
    BY <1>0, <1>1, PhaseStep DEF ClaimsPlaced
  <2>2. ASSUME Kind(n) = "volume"
        PROVE  /\ claim'[SourceOf(n)].phase # "unbound"
               /\ claim'[SourceOf(n)].vol = claim[SourceOf(n)].vol
    <3>1. n \in Requests /\ claim[SourceOf(n)].phase # "unbound"
      BY <1>1, <2>1, <2>2, SnapRequests DEF Placed
    <3> QED
      BY <1>0, <3>1, SourceStep
  <2> QED
    BY <1>1, <2>1, <2>2 DEF Placed
<1>2. CASE claim[n].phase # "bound"
  <2>1. PICK h \in Handlers : BoundBy(h, n)
    BY <1>0, <1>2, PhaseStep
  <2>2. /\ handler[h].op = "CreateVolume" /\ handler[h].obj = n /\ handler[h].pc = "reply"
        /\ claim'[n].vol = handler[h].vol
    BY <2>1 DEF BoundBy
  <2>3. Chosen(h) /\ Asked(h)
    BY <1>0 DEF EntriesChosen, CallsAreAsked
  <2>4. ASSUME Kind(n) = "volume"
        PROVE  /\ claim'[SourceOf(n)].phase # "unbound"
               /\ handler[h].snap.volume = claim'[SourceOf(n)].vol
    <3>1. n \in Requests /\ claim[SourceOf(n)].phase # "unbound" /\ handler[h].snap = IdOf(n)
      BY <2>2, <2>3, <2>4, SnapRequests DEF Asked
    <3>2. claim'[SourceOf(n)].phase # "unbound" /\ claim'[SourceOf(n)].vol = claim[SourceOf(n)].vol
      BY <1>0, <3>1, SourceStep
    <3> QED
      BY <3>1, <3>2 DEF IdOf
  <2> QED
    BY <2>2, <2>3, <2>4 DEF Chosen
<1> QED
  BY <1>1, <1>2

LEMMA PlacedInit == Init => EntriesChosen /\ ClaimsPlaced
  BY DEF Init, Idle, EntriesChosen, Chosen, ClaimsPlaced, Placed

LEMMA PlacedStutter ==
    ASSUME EntriesChosen, ClaimsPlaced, UNCHANGED vars
    PROVE  EntriesChosen' /\ ClaimsPlaced'
  BY DEF vars, EntriesChosen, Chosen, ClaimsPlaced, Placed

LEMMA Basis == Spec => []Base
  BY Holding, PTL DEF Base

\* A volume is where its claim asked for: on an appliance of the zone the CO picked and
\* on the one the StorageClass or the source names, whichever entries the earlier
\* attempts and the late calls of resolveNS tried.
THEOREM VolumesArePlaced == Spec => []PlacedAsRequested
<1>1. Base /\ EntriesChosen /\ ClaimsPlaced /\ [Next]_vars => EntriesChosen' /\ ClaimsPlaced'
  BY ChosenStep, PlacedStep, PlacedStutter DEF Base, ContentInv
<1>2. ASSUME ClaimsPlaced PROVE PlacedAsRequested
  BY <1>2, SnapRequests DEF ClaimsPlaced, Placed, PlacedAsRequested, Kind
<1> QED
  BY <1>1, <1>2, Basis, PlacedInit, PTL DEF Spec

-----------------------------------------------------------------------------
(* What: a clone holds its source's content.                               *)

LEMMA HoldStep ==
    ASSUME Base, ClonesHold, Next
    PROVE  ClonesHold'
<1> SUFFICES ASSUME NEW n \in Names, claim'[n].phase = "bound", Kind(n) = "volume"
             PROVE  /\ claim'[n].since # NoContent
                    /\ volume'[claim'[n].vol].content.root = claim'[n].since.root
                    /\ claim'[n].since.writes <= volume'[claim'[n].vol].content.writes
  BY DEF ClonesHold
<1>0. TypeInv /\ Known /\ OwnershipInv /\ CallsAreAsked /\ n \in Requests /\ n \notin Snaps
  BY SnapRequests DEF Base, ContentInv
<1>1. SinceOf(n) = claim[n].since /\ SinceOf(n)' = claim'[n].since
  BY <1>0 DEF SinceOf
<1>2. SinceOf(n) \in Contents \cup {NoContent}
  BY <1>0, RequestTypes
<1>3. CASE claim[n].phase = "bound"
  <2> DEFINE v == claim[n].vol
  <2>1. /\ claim'[n].vol = v /\ volume[v].content \in Contents /\ volume'[v].content \in Contents
        /\ volume'[v].content.root = volume[v].content.root
        /\ volume[v].content.writes <= volume'[v].content.writes
    BY <1>0, <1>3, CurrentStep
  <2>2. /\ claim[n].since # NoContent /\ volume[v].content.root = claim[n].since.root
        /\ claim[n].since.writes <= volume[v].content.writes
    BY <1>3 DEF ClonesHold
  <2>3. claim'[n].since = claim[n].since /\ claim[n].since \in Contents
    BY <1>0, <1>1, <1>2, <2>2, SinceStep
  <2>4. \A a, b, d \in Contents : a.writes <= b.writes /\ b.writes <= d.writes => a.writes <= d.writes
    BY DEF Contents
  <2> QED
    BY <2>1, <2>2, <2>3, <2>4
<1>4. CASE claim[n].phase # "bound"
  <2>1. PICK h \in Handlers : BoundBy(h, n)
    BY <1>0, <1>4, PhaseStep
  <2>2. /\ handler[h].op = "CreateVolume" /\ handler[h].obj = n /\ handler[h].pc = "reply"
        /\ handler[h].live /\ claim'[n].vol = handler[h].vol /\ UNCHANGED volume
    BY <2>1 DEF BoundBy, Reply, nsVars
  <2>3. claim[n].phase = "unbound" /\ VolumeExists(handler[h].vol) /\ SourceBound(n) /\ SinceOf(n) # NoContent
    BY <1>0, <2>2 DEF OwnershipInv, CreatesAreUnbound, AnswersAreTrue, CallsAreAsked, Asked
  <2>4. handler[h].vol \in VolIds /\ handler[h].vol.name = n
    <3>1. handler[h].vol = [config |-> handler[h].vol.config, name |-> handler[h].obj] /\ handler[h].vol \in VolIds
      BY <1>0, <2>2, RecordType DEF GoodHandler
    <3> QED
      BY <2>2, <3>1
  <2>5. Fresh(n, volume[handler[h].vol].content)
    BY <2>3, <2>4 DEF Base, ContentInv, VolumesAreAsRequested, AsRequested
  <2>6. SinceOf(n)' = SinceOf(n)
    BY <1>0, <2>3, SinceStep
  <2> QED
    BY <1>1, <2>2, <2>3, <2>5, <2>6 DEF Fresh
<1> QED
  BY <1>3, <1>4

-----------------------------------------------------------------------------
(* How much: no step resizes a volume, and EEXIST is only taken for success *)
(* when the sizes agree.                                                   *)

LEMMA SizeKept ==
    ASSUME TypeInv, Next, NEW v \in VolIds, VolumeExists(v), VolumeExists(v)'
    PROVE  volume'[v].size = volume[v].size
<1>0. volume \in [VolIds -> Volumes \cup {Absent}] /\ volume[v] \in Volumes
  BY ContentTypes DEF TypeInv, NsTypeOK
<1>1. ASSUME NEW h \in Handlers, CreateNew(h) \/ Clone(h) PROVE volume'[v] = volume[v]
  BY <1>0, <1>1 DEF CreateNew, NsCreateVolume, Clone, NsCloneSnapshot, nsVars
<1>2. ASSUME NEW x \in VolIds, VolumeExists(x), NsDestroyVolume(x) PROVE volume'[v].size = volume[v].size
  <2>1. CASE NsDestroyAlone(x)
    BY <1>0, <2>1 DEF NsDestroyAlone, VolumeExists
  <2>2. CASE \E w \in VolIds, moved \in SUBSET SnapshotsOf(x) : NsPromoteAndDestroy(x, w, moved)
    <3>1. PICK w \in VolIds, moved \in SUBSET SnapshotsOf(x) : NsPromoteAndDestroy(x, w, moved)
      BY <2>2
    <3>2. volume'[v] = IF v = x THEN Absent
                       ELSE IF v = w THEN [volume[w] EXCEPT !.origin = volume[x].origin]
                       ELSE IF VolumeExists(v) /\ volume[v].origin \in moved
                            THEN [volume[v] EXCEPT !.origin = OwnedBy(@, w)] ELSE volume[v]
      BY <3>1 DEF NsPromoteAndDestroy
    <3>3. v # x
      BY <3>2 DEF VolumeExists
    <3> QED
      BY <1>0, <3>2, <3>3 DEF Volumes
  <2> QED
    BY <1>2, <2>1, <2>2 DEF NsDestroyVolume
<1>3. ASSUME NEW h \in Handlers, DestroyVolume(h) PROVE volume'[v].size = volume[v].size
  <2>1. handler[h].vol \in VolIds
    BY <1>3, RecordType DEF DestroyVolume, At, GoodHandler
  <2> QED
    BY <1>2, <1>3, <2>1 DEF DestroyVolume, Visible, nsVars
<1>4. ASSUME NEW n \in Names, Write(n) PROVE volume'[v].size = volume[v].size
  <2> DEFINE x == claim[n].vol
  <2>1. x \in VolIds /\ VolumeExists(x) /\ NsWrite(x)
    BY <1>4 DEF Write, Visible, TypeInv, CoInv, GoodClaim
  <2>2. volume' = [volume EXCEPT ![x] = [volume[x] EXCEPT !.content = [volume[x].content EXCEPT !.writes = @ + 1]]]
    BY <2>1 DEF NsWrite
  <2> HIDE DEF x
  <2> QED
    BY <1>0, <2>1, <2>2 DEF Volumes
<1>5. ASSUME NEW h \in Handlers, HandlerStep(h)
      PROVE  \/ UNCHANGED volume \/ CreateNew(h) \/ Clone(h) \/ DestroyVolume(h)
  BY <1>5 DEF HandlerStep, Resolve, ResolveNotFound, ResolveWrongZone, ResolvePanics, GetExisting,
     GetSnapshot, ListSnapshots, CreateSnapshotOnNS, NsCreateSnapshot, GetCreated, GetLuns, DestroyLun,
     NsDestroyLunMapping, DestroySnapshot, NsDestroySnapshot, Reply, nsVars
<1>6. ASSUME NEW h \in Handlers, Calls(h) PROVE UNCHANGED volume
  BY <1>6 DEF Calls, CallCreateVolume, CallDeleteVolume, CallCreateSnapshot, CallDeleteSnapshot, nsVars
<1>7. ASSUME Environment PROVE UNCHANGED volume \/ \E n \in Names : Write(n)
  BY <1>7 DEF Environment, NodeMaps, NodeUnmaps, NsCreateLunMapping, NsDestroyLunMapping, Fail,
     AbandonCall, Crash, PoolExport, PoolImport, nsVars
<1> QED
  BY <1>1, <1>3, <1>4, <1>5, <1>6, <1>7 DEF Next

\* A call about a plain volume comes to its answer only with the size asked for.
LEMMA SizeAnswer ==
    ASSUME TypeInv, StepsFit, Next, NEW g \in Handlers, handler'[g].op = "CreateVolume",
           handler'[g].pc = "reply", Kind(handler'[g].obj) = "none"
    PROVE  \/ volume'[handler'[g].vol].size = handler'[g].size
           \/ handler'[g] = handler[g]
           \/ handler'[g] = [handler[g] EXCEPT !.live = FALSE]
<1>0. /\ HandlerInv
      /\ \A h \in Handlers : handler[h] \in HandlerStates /\ GoodHandler(handler[h]) /\ Fits(handler[h])
  BY RecordType DEF TypeInv, StepsFit
<1>1. ASSUME NEW h \in Handlers, ReturnError(h) PROVE handler'[g] = handler[g]
  BY <1>0, <1>1 DEF ReturnError, HandlerInv, Idle
<1>2. ASSUME NEW h \in Handlers, NEW pc \in Steps, Goto(h, pc),
             pc # "reply" \/ handler[h].op # "CreateVolume" \/ Kind(handler[h].obj) # "none"
      PROVE  handler'[g] = handler[g]
  BY <1>0, <1>2 DEF Goto, HandlerInv, HandlerStates
<1>3. ASSUME NEW h \in Handlers, Goto(h, "reply"), volume'[handler[h].vol].size = handler[h].size
      PROVE  handler'[g] = handler[g] \/ volume'[handler'[g].vol].size = handler'[g].size
  BY <1>0, <1>3 DEF Goto, HandlerInv, HandlerStates
<1>4. ASSUME NEW h \in Handlers, Calls(h) PROVE handler'[g] = handler[g]
  <2>1. ASSUME NEW op, NEW obj, NEW vol, NEW id, NEW size, Start(h, op, obj, vol, id, size)
        PROVE  handler'[g] = handler[g]
    BY <1>0, <2>1 DEF Start, HandlerInv
  <2> QED
    BY <1>4, <2>1 DEF Calls, CallCreateVolume, CallDeleteVolume, CallCreateSnapshot, CallDeleteSnapshot
<1>5. ASSUME NEW h \in Handlers, HandlerStep(h)
      PROVE  volume'[handler'[g].vol].size = handler'[g].size \/ handler'[g] = handler[g]
  <2>1. CASE Resolve(h)
    <3>1. AfterResolve(h) # "reply"
      BY <1>0, <2>1, ClaimAssumption DEF Resolve, AfterResolve, GoodHandler, HandlerStates, Ops, ClaimTypes, Sources
    <3> QED
      BY <1>0, <2>1, <3>1 DEF Resolve, HandlerInv, HandlerStates
  <2>2. CASE ResolveNotFound(h) \/ ResolveWrongZone(h)
    BY <1>1, <1>2, <2>2 DEF ResolveNotFound, ResolveWrongZone, Steps
  <2>3. CASE ResolvePanics(h)
    BY <2>3 DEF ResolvePanics, CrashAll, Idle
  <2>4. CASE CreateNew(h)
    <3>1. handler[h].vol \in VolIds
      BY <1>0, <2>4 DEF CreateNew, At, GoodHandler
    <3>2. NsCreateVolume(handler[h].vol, handler[h].size) => volume'[handler[h].vol].size = handler[h].size
      BY <3>1 DEF NsCreateVolume, TypeInv, NsTypeOK
    <3> QED
      BY <1>1, <1>2, <1>3, <2>4, <3>2 DEF CreateNew, Steps
  <2>5. CASE GetExisting(h)
    <3>1. SizeAgrees(h) => volume'[handler[h].vol].size = handler[h].size
      BY <2>5 DEF GetExisting, SizeAgrees, nsVars
    <3> QED
      BY <1>1, <1>3, <2>5, <3>1 DEF GetExisting
  <2>6. CASE Clone(h)
    <3>1. Kind(handler[h].obj) # "none"
      BY <1>0, <2>6 DEF Clone, At, Fits
    <3> QED
      BY <1>1, <1>2, <2>6, <3>1 DEF Clone, Steps
  <2>7. CASE GetSnapshot(h) \/ ListSnapshots(h) \/ CreateSnapshotOnNS(h) \/ GetCreated(h)
    BY <1>1, <1>2, <2>7 DEF GetSnapshot, ListSnapshots, CreateSnapshotOnNS, GetCreated, Steps
  <2>8. CASE GetLuns(h) \/ DestroyLun(h)
    BY <1>0, <1>1, <2>8 DEF GetLuns, DestroyLun, At, HandlerInv, HandlerStates
  <2>9. CASE DestroyVolume(h) \/ DestroySnapshot(h)
    BY <1>1, <1>2, <2>9 DEF DestroyVolume, DestroySnapshot, At, Steps
  <2>10. CASE Reply(h)
    BY <1>1, <2>10 DEF Reply, ReturnError
  <2> QED
    BY <1>5, <2>1, <2>2, <2>3, <2>4, <2>5, <2>6, <2>7, <2>8, <2>9, <2>10 DEF HandlerStep
<1>6. ASSUME Environment
      PROVE  handler'[g] = handler[g] \/ handler'[g] = [handler[g] EXCEPT !.live = FALSE]
  <2>1. ASSUME NEW h \in Handlers, AbandonCall(h)
        PROVE  handler'[g] = handler[g] \/ handler'[g] = [handler[g] EXCEPT !.live = FALSE]
    BY <1>0, <2>1 DEF AbandonCall, HandlerInv
  <2>2. ASSUME NEW h \in Handlers, Fail(h) PROVE handler'[g] = handler[g]
    BY <1>1, <2>2 DEF Fail
  <2>3. ASSUME Crash PROVE FALSE
    BY <2>3 DEF Crash, CrashAll, Idle
  <2> QED
    BY <1>6, <2>1, <2>2, <2>3 DEF Environment, NodeMaps, NodeUnmaps, Write, PoolExport, PoolImport
<1> QED
  BY <1>4, <1>5, <1>6 DEF Next

LEMMA MeasuredStep ==
    ASSUME Base, SizesMeasured, Next
    PROVE  SizesMeasured'
<1> SUFFICES ASSUME NEW g \in Handlers, handler'[g].op = "CreateVolume", handler'[g].pc = "reply",
                    handler'[g].live, Kind(handler'[g].obj) = "none"
             PROVE  volume'[handler'[g].vol].size = handler'[g].size
  BY DEF SizesMeasured, Measured
<1>0. TypeInv /\ OwnershipInv /\ StepsFit /\ handler[g] \in HandlerStates /\ GoodHandler(handler[g])
  BY RecordType DEF Base, ContentInv
<1>1. CASE handler'[g] = handler[g]
  <2>1. handler[g].vol = [config |-> handler[g].vol.config, name |-> handler[g].obj] /\ handler[g].vol \in VolIds
    BY <1>0, <1>1 DEF GoodHandler
  <2>2. handler[g].vol.name = handler[g].obj /\ handler[g].obj \in Names
    BY <1>0, <1>1, <2>1 DEF GoodHandler
  <2>3. VolumeExists(handler[g].vol) /\ claim[handler[g].obj].phase = "unbound"
    BY <1>0, <1>1 DEF OwnershipInv, AnswersAreTrue, CreatesAreUnbound
  <2>4. volume[handler[g].vol].size = handler[g].size
    BY <1>1 DEF SizesMeasured, Measured
  <2>5. \A x \in VolIds : x.name = handler[g].obj /\ VolumeExists(x) => volume'[x].size = volume[x].size
    <3>1. SUFFICES ASSUME NEW n \in Names, n = handler[g].obj, NEW x \in VolIds, x.name = n, VolumeExists(x)
                   PROVE  volume'[x].size = volume[x].size
      BY <2>2
    <3>2. VolumeExists(x)'
      BY <1>0, <2>3, <3>1, KeptVolume
    <3> QED
      BY <1>0, <3>1, <3>2, SizeKept
  <2> QED
    BY <1>1, <2>1, <2>2, <2>3, <2>4, <2>5
<1>2. CASE handler'[g] = [handler[g] EXCEPT !.live = FALSE]
  BY <1>0, <1>2 DEF HandlerStates
<1> QED
  BY <1>0, <1>1, <1>2, SizeAnswer

\* What the CO is told of a plain volume's capacity.
LEMMA CapacityStep ==
    ASSUME Base, SizesMeasured, CapacityAsReported, Next
    PROVE  CapacityAsReported'
<1> SUFFICES ASSUME NEW n \in Names, claim'[n].phase = "bound", Kind(n) = "none"
             PROVE  volume'[claim'[n].vol].size = claim'[n].size
  BY DEF CapacityAsReported, Kind
<1>0. TypeInv /\ Known /\ OwnershipInv /\ claim \in [Names -> ClaimStates]
  BY DEF Base, TypeInv, CoInv
<1>1. CASE claim[n].phase = "bound"
  <2> DEFINE v == claim[n].vol
  <2>1. v \in VolIds /\ claim'[n].vol = v /\ volume[v] # Absent /\ volume'[v] # Absent
    BY <1>0, <1>1, CurrentStep DEF VolumeExists
  <2>2. \A x \in VolIds : volume[x] # Absent /\ volume'[x] # Absent => volume'[x].size = volume[x].size
    BY <1>0, SizeKept DEF VolumeExists
  <2>3. claim'[n].size = claim[n].size
    <3>1. ASSUME NEW h \in Handlers, Calls(h) PROVE claim'[n].size = claim[n].size
      <4>1. ASSUME NEW k \in Names, NEW size \in Sizes, CallCreateVolume(h, k, size)
            PROVE  claim'[n].size = claim[n].size
        BY <1>0, <4>1 DEF CallCreateVolume, ClaimStates
      <4>2. ASSUME NEW k \in Names, CallDeleteVolume(h, k) PROVE claim'[n].size = claim[n].size
        BY <1>0, <4>2 DEF CallDeleteVolume, ClaimStates
      <4>3. ASSUME NEW s \in Snaps, CallCreateSnapshot(h, s) \/ CallDeleteSnapshot(h, s)
            PROVE  claim'[n].size = claim[n].size
        BY <4>3 DEF CallCreateSnapshot, CallDeleteSnapshot
      <4> QED
        BY <3>1, <4>1, <4>2, <4>3 DEF Calls
    <3>2. ASSUME NEW h \in Handlers, Reply(h) PROVE claim'[n].size = claim[n].size
      <4>1. handler[h].op = "CreateVolume" /\ handler[h].live => handler[h].obj # n
        BY <1>0, <1>1 DEF OwnershipInv, CreatesAreUnbound
      <4> QED
        BY <1>0, <3>2, <4>1 DEF Reply, Created, ClaimStates
    <3>3. ASSUME NEW h \in Handlers, HandlerStep(h) PROVE claim'[n].size = claim[n].size
      BY <1>0, <3>2, <3>3, StepClaims
    <3> QED
      BY <1>0, <3>1, <3>3, EnvironmentContinues DEF Next
  <2>4. volume[v].size = claim[n].size
    BY <1>1 DEF CapacityAsReported, Kind
  <2> QED
    BY <2>1, <2>2, <2>3, <2>4
<1>2. CASE claim[n].phase # "bound"
  <2>1. PICK h \in Handlers : BoundBy(h, n)
    BY <1>0, <1>2, PhaseStep
  <2>2. /\ handler[h].op = "CreateVolume" /\ handler[h].obj = n /\ handler[h].pc = "reply" /\ handler[h].live
        /\ claim'[n].vol = handler[h].vol /\ UNCHANGED volume /\ Created(h)
    BY <2>1 DEF BoundBy, Reply, nsVars
  <2>3. claim'[n].size = handler[h].size
    BY <1>0, <2>2 DEF Created, ClaimStates
  <2>4. volume[handler[h].vol].size = handler[h].size
    BY <2>2 DEF SizesMeasured, Measured
  <2> QED
    BY <2>2, <2>3, <2>4
<1> QED
  BY <1>1, <1>2

\* A plain volume has the capacity its CreateVolume reported: overlapping and repeated
\* calls that ask for different capacities are not both answered with success.
THEOREM CapacityIsTrue == Spec => []CapacityAsReported
<1>1. Init => SizesMeasured /\ CapacityAsReported
  BY DEF Init, Idle, SizesMeasured, Measured, CapacityAsReported
<1>2. Base /\ SizesMeasured /\ CapacityAsReported /\ [Next]_vars => SizesMeasured' /\ CapacityAsReported'
  <2>1. ASSUME SizesMeasured, CapacityAsReported, UNCHANGED vars PROVE SizesMeasured' /\ CapacityAsReported'
    BY <2>1 DEF vars, nsVars, SizesMeasured, Measured, CapacityAsReported
  <2> QED
    BY <2>1, MeasuredStep, CapacityStep
<1> QED
  BY <1>1, <1>2, Basis, PTL DEF Spec

-----------------------------------------------------------------------------
(* Where a volume can be, who may still make it, and what deletions leave.  *)

\* Every claim that may be placed anywhere in a zone has an entry in it.
ZonesHaveEntries ==
    \A n \in Names : Placeable(n) => \E c \in Configs : Claim[n].zone \in {NoZone, Zone[c]}

\* A claim that names an entry, or has a source, can be on one entry only.
Belongs(n, c) ==
    CASE Kind(n) = "none"   -> Claim[n].config \in {AnyConfig, c}
      [] Kind(n) = "volume" ->
           claim[SourceOf(n)].phase # "unbound" /\ claim[SourceOf(n)].vol.config = c
      [] OTHER ->
           LET s == Claim[n].source.of IN snap[s].phase # "none" /\ snap[s].id.volume.config = c

CallsBelong ==
    \A h \in Handlers :
        handler[h].op = "CreateVolume" /\ handler[h].pc # "resolve" =>
            Belongs(handler[h].obj, handler[h].vol.config)

VolumesBelong == \A v \in VolIds : VolumeExists(v) => Belongs(v.name, v.config)

ClaimsBelong == \A n \in Names : claim[n].phase # "unbound" => Belongs(n, claim[n].vol.config)

\* The calls that still run after the CO has given them up are of late claims.
GivenUpAreLate ==
    /\ \A h \in Handlers : handler[h].op = "CreateVolume" /\ ~handler[h].live => handler[h].obj \in late
    /\ faults = 0 => late = {}

\* A DeleteVolume that is about to answer, or has answered, leaves nothing.
DeletionsAreDone ==
    /\ \A h \in Handlers :
         handler[h].op = "DeleteVolume" /\ handler[h].pc = "reply" /\ handler[h].obj \notin late =>
             ~VolumeExists(handler[h].vol)
    /\ \A n \in Names :
         claim[n].phase = "released" /\ n \notin late => ~VolumeExists(claim[n].vol)

\* Handler h is about to answer that it has made v.
Answers(h, v) ==
    /\ handler[h].op = "CreateVolume" /\ handler[h].pc = "reply" /\ handler[h].live
    /\ handler[h].vol = v

\* Without faults a volume's claim has it, or is about to be told of it.
FirstTriesHold ==
    faults = 0 =>
        \A v \in VolIds : VolumeExists(v) =>
            \/ claim[v.name].phase # "unbound" /\ claim[v.name].vol = v
            \/ \E h \in Handlers : Answers(h, v)

Belonging == EntriesChosen /\ CallsBelong /\ VolumesBelong /\ ClaimsBelong /\ GivenUpAreLate

LeftInv == exported = {} /\ DeletionsAreDone /\ FirstTriesHold

-----------------------------------------------------------------------------
(* Faults, what is late and what is away.                                  *)

LEMMA EnvironmentStep ==
    ASSUME TypeInv, Next
    PROVE  /\ late \subseteq late'
           /\ faults' \in {faults, faults + 1}
           /\ exported' \subseteq exported \cup Exportable
           /\ late' # late => faults' = faults + 1
<1>1. ASSUME NEW h \in Handlers, Calls(h) \/ HandlerStep(h) PROVE UNCHANGED <<late, envVars>>
  <2>1. CASE Calls(h)
    BY <2>1 DEF Calls, CallCreateVolume, CallDeleteVolume, CallCreateSnapshot, CallDeleteSnapshot
  <2>2. CASE Resolve(h) \/ ResolveNotFound(h) \/ ResolveWrongZone(h) \/ ResolvePanics(h)
    BY <2>2 DEF Resolve, ResolveNotFound, ResolveWrongZone, ResolvePanics, coVars
  <2>3. CASE CreateNew(h) \/ GetExisting(h) \/ GetSnapshot(h) \/ Clone(h)
    BY <2>3 DEF CreateNew, GetExisting, GetSnapshot, Clone, coVars
  <2>4. CASE ListSnapshots(h) \/ CreateSnapshotOnNS(h) \/ GetCreated(h)
    BY <2>4 DEF ListSnapshots, CreateSnapshotOnNS, GetCreated, coVars
  <2>5. CASE GetLuns(h) \/ DestroyLun(h) \/ DestroyVolume(h) \/ DestroySnapshot(h)
    BY <2>5 DEF GetLuns, DestroyLun, DestroyVolume, DestroySnapshot, coVars
  <2>6. CASE Reply(h)
    BY <2>6 DEF Reply
  <2> QED
    BY <1>1, <2>1, <2>2, <2>3, <2>4, <2>5, <2>6 DEF HandlerStep
<1>2. ASSUME NEW n \in Names, NEW host \in Hosts, NodeMaps(n, host) \/ NodeUnmaps(n, host)
      PROVE  UNCHANGED <<late, exported>> /\ faults' \in {faults, faults + 1}
  BY <1>2 DEF NodeMaps, NodeUnmaps, coVars
<1>3. ASSUME NEW n \in Names, Write(n) PROVE UNCHANGED <<late, envVars>>
  BY <1>3 DEF Write, coVars
<1>4. ASSUME NEW h \in Handlers, Fail(h) \/ AbandonCall(h)
      PROVE  late \subseteq late' /\ UNCHANGED exported /\ faults' = faults + 1
  BY <1>4 DEF Fail, AbandonCall, Fault, coVars
<1>5. ASSUME NEW c \in Configs, PoolExport(c) \/ PoolImport(c)
      PROVE  /\ UNCHANGED late /\ faults' \in {faults, faults + 1}
             /\ exported' \subseteq exported \cup Exportable
  BY <1>5 DEF PoolExport, PoolImport, Fault, coVars
<1>6. ASSUME Crash PROVE UNCHANGED <<late, exported>> /\ faults' = faults + 1
  BY <1>6 DEF Crash, Fault, coVars
<1> QED
  BY <1>1, <1>2, <1>3, <1>4, <1>5, <1>6 DEF Next, Environment, envVars

LEMMA GivenUpStep ==
    ASSUME TypeInv, GivenUpAreLate, Next
    PROVE  GivenUpAreLate'
<1>1. faults' = 0 => late' = {}
  <2>1. faults \in Nat
    BY DEF TypeInv, EnvInv
  <2> QED
    BY <2>1, EnvironmentStep DEF GivenUpAreLate
<1>2. ASSUME NEW g \in Handlers, handler'[g].op = "CreateVolume", ~handler'[g].live
      PROVE  handler'[g].obj \in late'
  <2>0. HandlerInv /\ handler[g] \in HandlerStates /\ late \subseteq late'
    BY RecordType, EnvironmentStep DEF TypeInv
  <2>1. CASE SameCreate(g)
    <3>1. CASE handler[g].live
      BY <1>2, <2>1, <3>1 DEF SameCreate, AbandonCall
    <3>2. CASE ~handler[g].live
      BY <1>2, <2>0, <2>1, <3>2 DEF SameCreate, GivenUpAreLate
    <3> QED
      BY <3>1, <3>2
  <2>2. CASE Resolve(g)
    <3>1. /\ handler'[g].op = handler[g].op /\ handler'[g].obj = handler[g].obj
          /\ handler'[g].live = handler[g].live
      BY <2>0, <2>2 DEF Resolve, HandlerInv, HandlerStates
    <3> QED
      BY <1>2, <2>0, <3>1 DEF GivenUpAreLate
  <2>3. ASSUME NEW n \in Names, NEW size \in Sizes, CallCreateVolume(g, n, size) PROVE FALSE
    BY <1>2, <2>0, <2>3 DEF CallCreateVolume, Start, HandlerInv
  <2> QED
    BY <1>2, <2>1, <2>2, <2>3, CreateStep
<1> QED
  BY <1>1, <1>2 DEF GivenUpAreLate

-----------------------------------------------------------------------------
(* Where a volume can be.                                                  *)

LEMMA BelongsStep ==
    ASSUME Base, Next, NEW n \in Names, NEW c, Belongs(n, c)
    PROVE  Belongs(n, c)'
<1>0. TypeInv /\ Known /\ OwnershipInv /\ CallsAreAsked
  BY DEF Base, ContentInv
<1>1. CASE Kind(n) = "none"
  BY <1>1 DEF Belongs, Kind
<1>2. CASE Kind(n) = "volume"
  <2>1. n \in Requests /\ claim[SourceOf(n)].phase # "unbound" /\ claim[SourceOf(n)].vol.config = c
    BY <1>2, SnapRequests DEF Belongs
  <2>2. /\ claim'[SourceOf(n)].phase # "unbound"
        /\ claim'[SourceOf(n)].vol = claim[SourceOf(n)].vol
    BY <1>0, <2>1, SourceStep
  <2> QED
    BY <1>2, <2>1, <2>2 DEF Belongs
<1>3. CASE Kind(n) = "snapshot"
  <2> DEFINE s == Claim[n].source.of
  <2>1. s \in Snaps /\ snap[s].phase # "none" /\ snap[s].id.volume.config = c
    BY <1>3, Kinds DEF Belongs
  <2>2. snap'[s].phase # "none" /\ snap'[s].id = snap[s].id
    BY <1>0, <2>1, SnapPhaseStep
  <2> QED
    BY <1>3, <2>1, <2>2 DEF Belongs
<1> QED
  BY <1>1, <1>2, <1>3, Kinds

LEMMA CallsBelongStep ==
    ASSUME Base, EntriesChosen, CallsBelong, Next
    PROVE  CallsBelong'
<1> SUFFICES ASSUME NEW g \in Handlers, handler'[g].op = "CreateVolume", handler'[g].pc # "resolve"
             PROVE  Belongs(handler[g].obj, handler[g].vol.config)'
  BY DEF CallsBelong
<1>0. /\ TypeInv /\ HandlerInv /\ Asked(g) /\ Chosen(g)
      /\ handler[g] \in HandlerStates /\ GoodHandler(handler[g])
  BY RecordType DEF Base, TypeInv, ContentInv, CallsAreAsked, EntriesChosen
<1>1. PICK n, c : /\ n \in Names /\ Belongs(n, c)
                  /\ handler'[g].obj = n /\ handler'[g].vol.config = c
  <2>1. CASE SameCreate(g)
    <3>1. /\ handler'[g].obj = handler[g].obj /\ handler'[g].vol = handler[g].vol
          /\ handler[g].op = "CreateVolume" /\ handler[g].pc # "resolve"
      BY <2>1 DEF SameCreate
    <3>2. handler[g].obj \in Names /\ Belongs(handler[g].obj, handler[g].vol.config)
      BY <1>0, <3>1 DEF GoodHandler, CallsBelong
    <3> QED
      BY <3>1, <3>2
  <2>2. CASE Resolve(g)
    <3> DEFINE n == handler[g].obj
    <3>1. PICK c \in Candidates(g) :
            handler' = [handler EXCEPT
              ![g].pc  = AfterResolve(g),
              ![g].vol = IF handler[g].op = "CreateVolume" THEN [config |-> c, name |-> handler[g].obj] ELSE @]
      BY <2>2 DEF Resolve
    <3>2. handler[g].op = "CreateVolume" /\ handler[g].pc = "resolve" /\ n \in Names
      BY <1>0, <2>2, <3>1 DEF Resolve, GoodHandler, HandlerInv, HandlerStates
    <3>3. handler'[g].obj = n /\ handler'[g].vol = [config |-> c, name |-> n]
      BY <1>0, <3>1, <3>2 DEF HandlerInv, HandlerStates
    <3>4. c \in Configs /\ Entry(g) \in {c, AnyConfig}
      BY DEF Candidates
    <3>5. ASSUME Kind(n) # "none" PROVE handler[g].snap.volume.config = c
      <4>1. handler[g].snap \in SnapIds
        BY <1>0, <3>2, <3>5 DEF GoodHandler, Kind
      <4>2. handler[g].snap # NoSnapshot /\ handler[g].snap.volume.config \in Configs
        BY <4>1, NoSnapshotAssumption DEF SnapIds, VolIds
      <4> QED
        BY <3>4, <4>2, ObjectAssumption DEF Entry
    <3>6. Belongs(n, c)
      <4>1. CASE Kind(n) = "none"
        BY <1>0, <3>2, <3>4, <4>1 DEF Chosen, Entry, Belongs
      <4>2. CASE Kind(n) = "volume"
        BY <1>0, <3>2, <3>5, <4>2 DEF Asked, IdOf, Belongs
      <4>3. CASE Kind(n) = "snapshot"
        BY <1>0, <3>2, <3>5, <4>3 DEF Asked, Belongs
      <4> QED
        BY <3>2, <4>1, <4>2, <4>3, Kinds
    <3>7. handler'[g].vol.config = c
      BY <3>3
    <3> QED
      BY <3>2, <3>3, <3>6, <3>7
  <2>3. ASSUME NEW m \in Names, NEW size \in Sizes, CallCreateVolume(g, m, size) PROVE FALSE
    BY <1>0, <2>3 DEF CallCreateVolume, Start, HandlerInv
  <2> QED
    BY <1>0, <2>1, <2>2, <2>3, CreateStep
<1>2. Belongs(n, c)'
  BY <1>1, BelongsStep
<1> QED
  BY <1>1, <1>2 DEF Belongs

LEMMA ClaimsBelongStep ==
    ASSUME Base, CallsBelong, ClaimsBelong, Next
    PROVE  ClaimsBelong'
<1> SUFFICES ASSUME NEW n \in Names, claim'[n].phase # "unbound"
             PROVE  Belongs(n, claim[n].vol.config)'
  BY DEF ClaimsBelong
<1>0. TypeInv /\ Known /\ OwnershipInv
  BY DEF Base
<1>1. PICK c : claim'[n].vol.config = c /\ Belongs(n, c)
  <2>1. CASE claim[n].phase # "unbound"
    <3>1. claim'[n].vol = claim[n].vol /\ Belongs(n, claim[n].vol.config)
      BY <1>0, <2>1, PhaseStep DEF ClaimsBelong
    <3> QED
      BY <3>1
  <2>2. CASE claim[n].phase = "unbound"
    <3>1. PICK h \in Handlers : BoundBy(h, n)
      BY <1>0, <2>2, PhaseStep
    <3>2. claim'[n].vol = handler[h].vol /\ Belongs(n, handler[h].vol.config)
      BY <3>1 DEF BoundBy, CallsBelong
    <3> QED
      BY <3>2
  <2> QED
    BY <2>1, <2>2
<1>2. Belongs(n, c)'
  BY <1>1, BelongsStep
<1> QED
  BY <1>1, <1>2 DEF Belongs

\* What makes a volume is a call of its claim that has chosen it.
LEMMA Makers ==
    ASSUME TypeInv, NEW v \in VolIds, NEW h \in Handlers, handler[h].op = "CreateVolume",
           handler[h].pc \in {"create", "clone", "reply"}, handler[h].vol = v
    PROVE  handler[h].obj = v.name /\ v.name \in Names
<1>1. v = [config |-> v.config, name |-> handler[h].obj]
  BY RecordType DEF GoodHandler
<1> QED
  BY <1>1 DEF VolIds

LEMMA VolumesBelongStep ==
    ASSUME Base, CallsBelong, VolumesBelong, Next
    PROVE  VolumesBelong'
<1> SUFFICES ASSUME NEW v \in VolIds, VolumeExists(v)'
             PROVE  Belongs(v.name, v.config)'
  BY DEF VolumesBelong
<1>0. TypeInv /\ v.name \in Names
  BY DEF Base, VolIds
<1> DEFINE n == v.name  c == v.config
<1>1. Belongs(n, c)
  <2>1. CASE VolumeExists(v)
    BY <2>1 DEF VolumesBelong
  <2>2. CASE Made(v)
    <3>1. PICK h \in Handlers : /\ handler[h].op = "CreateVolume" /\ handler[h].vol = v
                                /\ handler[h].pc \in {"create", "clone"}
      BY <2>2 DEF Made
    <3>2. handler[h].obj = n
      BY <1>0, <3>1, Makers
    <3> QED
      BY <3>1, <3>2 DEF CallsBelong
  <2> QED
    BY <1>0, <2>1, <2>2, VolumeStep DEF SameContent, Written
<1> HIDE DEF n, c
<1>2. n \in Names
  BY <1>0 DEF n
<1>3. Belongs(n, c)'
  BY <1>1, <1>2, BelongsStep
<1> QED
  BY <1>3 DEF n, c

LEMMA BelongingHolds == Spec => []Belonging
<1>1. Init => Belonging
  BY PlacedInit DEF Init, NsInit, Idle, Belonging, CallsBelong, VolumesBelong, ClaimsBelong,
     GivenUpAreLate, VolumeExists
<1>2. Base /\ Belonging /\ [Next]_vars => Belonging'
  <2>1. ASSUME Base, Belonging, Next PROVE Belonging'
    BY <2>1, ChosenStep, CallsBelongStep, VolumesBelongStep, ClaimsBelongStep, GivenUpStep
       DEF Base, ContentInv, Belonging
  <2>2. ASSUME Belonging, UNCHANGED vars PROVE Belonging'
    BY <2>2 DEF vars, nsVars, Belonging, EntriesChosen, Chosen, CallsBelong, VolumesBelong,
       ClaimsBelong, Belongs, GivenUpAreLate, VolumeExists
  <2> QED
    BY <2>1, <2>2
<1> QED
  BY <1>1, <1>2, Basis, PTL DEF Spec

-----------------------------------------------------------------------------
(* What a deletion leaves.                                                 *)

\* Only a late CreateVolume makes the volume of a claim that is not unbound.
LEMMA GoneStays ==
    ASSUME Base, GivenUpAreLate, Next, NEW v \in VolIds, ~VolumeExists(v),
           claim[v.name].phase # "unbound", v.name \notin late
    PROVE  ~VolumeExists(v)'
<1> SUFFICES ASSUME VolumeExists(v)' PROVE FALSE
  OBVIOUS
<1>0. TypeInv /\ CreatesAreUnbound
  BY DEF Base, OwnershipInv
<1>1. Made(v)
  BY <1>0, VolumeStep DEF SameContent, Written
<1>2. PICK h \in Handlers : /\ handler[h].op = "CreateVolume" /\ handler[h].vol = v
                            /\ handler[h].pc \in {"create", "clone"}
  BY <1>1 DEF Made
<1>3. handler[h].obj = v.name
  BY <1>0, <1>2, Makers
<1> QED
  BY <1>0, <1>2, <1>3 DEF GivenUpAreLate, CreatesAreUnbound

\* DeleteVolume comes to its answer only when the volume is not there.
LEMMA DeleteAnswer ==
    ASSUME TypeInv, exported = {}, Next, NEW g \in Handlers,
           handler'[g].op = "DeleteVolume", handler'[g].pc = "reply"
    PROVE  \/ volume'[handler'[g].vol] = Absent
           \/ handler'[g] = handler[g]
           \/ handler'[g] = [handler[g] EXCEPT !.live = FALSE]
<1>0. HandlerInv /\ \A h \in Handlers : handler[h] \in HandlerStates /\ GoodHandler(handler[h])
  BY RecordType DEF TypeInv
<1>1. ASSUME NEW h \in Handlers, ReturnError(h) PROVE handler'[g] = handler[g]
  BY <1>0, <1>1 DEF ReturnError, HandlerInv, Idle
<1>2. ASSUME NEW h \in Handlers, NEW pc \in Steps, Goto(h, pc), pc # "reply" \/ handler[h].op # "DeleteVolume"
      PROVE  handler'[g] = handler[g]
  BY <1>0, <1>2 DEF Goto, HandlerInv, HandlerStates
<1>3. ASSUME NEW h \in Handlers, Goto(h, "reply"), volume'[handler[h].vol] = Absent
      PROVE  handler'[g] = handler[g] \/ volume'[handler'[g].vol] = Absent
  BY <1>0, <1>3 DEF Goto, HandlerInv, HandlerStates
<1>4. ASSUME NEW h \in Handlers, Calls(h) PROVE handler'[g] = handler[g]
  <2>1. ASSUME NEW op, NEW obj, NEW vol, NEW id, NEW size, Start(h, op, obj, vol, id, size)
        PROVE  handler'[g] = handler[g]
    BY <1>0, <2>1 DEF Start, HandlerInv
  <2> QED
    BY <1>4, <2>1 DEF Calls, CallCreateVolume, CallDeleteVolume, CallCreateSnapshot, CallDeleteSnapshot
<1>5. ASSUME NEW h \in Handlers, HandlerStep(h)
      PROVE  volume'[handler'[g].vol] = Absent \/ handler'[g] = handler[g]
  <2>1. CASE Resolve(h)
    <3>1. AfterResolve(h) # "reply"
      BY <1>0, <2>1, ClaimAssumption DEF Resolve, AfterResolve, GoodHandler, HandlerStates, Ops, ClaimTypes, Sources
    <3> QED
      BY <1>0, <2>1, <3>1 DEF Resolve, HandlerInv, HandlerStates
  <2>2. CASE ResolveNotFound(h)
    BY <2>2 DEF ResolveNotFound, Tried
  <2>3. CASE ResolveWrongZone(h)
    BY <1>1, <2>3 DEF ResolveWrongZone
  <2>4. CASE ResolvePanics(h)
    BY <2>4 DEF ResolvePanics, CrashAll, Idle
  <2>5. CASE CreateNew(h) \/ GetExisting(h) \/ GetSnapshot(h) \/ Clone(h)
    BY <1>1, <1>2, <2>5 DEF CreateNew, GetExisting, GetSnapshot, Clone, At, Steps
  <2>6. CASE ListSnapshots(h) \/ CreateSnapshotOnNS(h) \/ GetCreated(h)
    BY <1>0, <1>1, <1>2, <2>6 DEF ListSnapshots, CreateSnapshotOnNS, GetCreated, GoodHandler, Steps
  <2>7. CASE GetLuns(h) \/ DestroyLun(h)
    BY <1>0, <1>1, <2>7 DEF GetLuns, DestroyLun, At, HandlerInv, HandlerStates
  <2>8. CASE DestroyVolume(h)
    <3> DEFINE v == handler[h].vol
    <3>1. v \in VolIds /\ volume \in [VolIds -> Volumes \cup {Absent}]
      BY <1>0, <2>8 DEF DestroyVolume, At, GoodHandler, TypeInv, NsTypeOK
    <3>2. NsDestroyVolume(v) => volume'[v] = Absent
      BY <3>1 DEF NsDestroyVolume, NsDestroyAlone, NsPromoteAndDestroy
    <3>3. ~Visible(v) /\ UNCHANGED nsVars => volume'[v] = Absent
      BY DEF Visible, Away, VolumeExists, nsVars
    <3> QED
      BY <1>1, <1>3, <2>8, <3>2, <3>3 DEF DestroyVolume
  <2>9. CASE DestroySnapshot(h)
    BY <1>1, <1>2, <2>9 DEF DestroySnapshot, At, Steps
  <2>10. CASE Reply(h)
    BY <1>1, <2>10 DEF Reply, ReturnError
  <2> QED
    BY <1>5, <2>1, <2>2, <2>3, <2>4, <2>5, <2>6, <2>7, <2>8, <2>9, <2>10 DEF HandlerStep
<1>6. ASSUME Environment
      PROVE  handler'[g] = handler[g] \/ handler'[g] = [handler[g] EXCEPT !.live = FALSE]
  <2>1. ASSUME NEW h \in Handlers, AbandonCall(h)
        PROVE  handler'[g] = handler[g] \/ handler'[g] = [handler[g] EXCEPT !.live = FALSE]
    BY <1>0, <2>1 DEF AbandonCall, HandlerInv
  <2>2. ASSUME NEW h \in Handlers, Fail(h) PROVE handler'[g] = handler[g]
    BY <1>1, <2>2 DEF Fail
  <2>3. ASSUME Crash PROVE FALSE
    BY <2>3 DEF Crash, CrashAll, Idle
  <2> QED
    BY <1>6, <2>1, <2>2, <2>3 DEF Environment, NodeMaps, NodeUnmaps, Write, PoolExport, PoolImport
<1> QED
  BY <1>4, <1>5, <1>6 DEF Next

\* A claim is released by the answer of a DeleteVolume the CO waits for.
LEMMA ReleaseStep ==
    ASSUME TypeInv, Known, Next, NEW n \in Names,
           claim'[n].phase = "released", claim[n].phase # "released"
    PROVE  \E h \in Handlers :
              Reply(h) /\ handler[h].op = "DeleteVolume" /\ handler[h].obj = n
<1>0. claim \in [Names -> ClaimStates]
  BY DEF TypeInv, CoInv
<1>1. ASSUME NEW h \in Handlers, Calls(h) PROVE FALSE
  <2>1. ASSUME NEW m \in Names, NEW size \in Sizes, CallCreateVolume(h, m, size) PROVE FALSE
    BY <1>0, <2>1 DEF CallCreateVolume, ClaimStates
  <2>2. ASSUME NEW m \in Names, CallDeleteVolume(h, m) PROVE FALSE
    BY <1>0, <2>2 DEF CallDeleteVolume, ClaimStates
  <2>3. ASSUME NEW s \in Snaps, CallCreateSnapshot(h, s) \/ CallDeleteSnapshot(h, s) PROVE FALSE
    BY <2>3 DEF CallCreateSnapshot, CallDeleteSnapshot
  <2> QED
    BY <1>1, <2>1, <2>2, <2>3 DEF Calls
<1>2. ASSUME NEW h \in Handlers, Reply(h)
      PROVE  handler[h].op = "DeleteVolume" /\ handler[h].obj = n
  BY <1>0, <1>2 DEF Reply, Created, ClaimStates
<1>3. ASSUME NEW h \in Handlers, HandlerStep(h)
      PROVE  Reply(h) /\ handler[h].op = "DeleteVolume" /\ handler[h].obj = n
  BY <1>2, <1>3, StepClaims
<1> QED
  BY <1>1, <1>3, EnvironmentContinues DEF Next

LEMMA DeletionsStep ==
    ASSUME Base, exported = {}, GivenUpAreLate, DeletionsAreDone, Next
    PROVE  DeletionsAreDone'
<1>0. /\ TypeInv /\ Known /\ OwnershipInv /\ DeletesAreAsked /\ late \subseteq late'
      /\ \A n \in Names : GoodClaim(n, claim[n])
  BY EnvironmentStep DEF Base, OwnershipInv, TypeInv, CoInv
<1>1. ASSUME NEW g \in Handlers, handler'[g].op = "DeleteVolume", handler'[g].pc = "reply",
             handler'[g].obj \notin late'
      PROVE  volume'[handler'[g].vol] = Absent
  <2>1. ASSUME handler[g].op = "DeleteVolume", handler[g].pc = "reply", handler[g].obj \notin late
        PROVE  volume'[handler[g].vol] = Absent
    <3> DEFINE v == handler[g].vol  n == handler[g].obj
    <3>1. n \in Names
      BY <1>0, <2>1, RecordType DEF GoodHandler
    <3>2. claim[n].phase # "unbound" /\ v = claim[n].vol
      BY <1>0, <2>1 DEF DeletesAreAsked
    <3>3. v \in VolIds /\ v.name = n
      BY <1>0, <3>1, <3>2 DEF GoodClaim
    <3>4. ~VolumeExists(v)
      BY <2>1 DEF DeletionsAreDone
    <3>5. PICK x \in VolIds : x = v
      BY <3>3
    <3>6. ~VolumeExists(x)'
      BY <2>1, <3>2, <3>3, <3>4, <3>5, GoneStays
    <3> QED
      BY <3>5, <3>6 DEF VolumeExists
  <2>2. handler[g] \in HandlerStates
    BY <1>0, RecordType
  <2>3. CASE handler'[g] = handler[g]
    BY <1>0, <1>1, <2>1, <2>3
  <2>4. CASE handler'[g] = [handler[g] EXCEPT !.live = FALSE]
    BY <1>0, <1>1, <2>1, <2>2, <2>4 DEF HandlerStates
  <2> QED
    BY <1>0, <1>1, <2>3, <2>4, DeleteAnswer
<1>2. ASSUME NEW n \in Names, claim'[n].phase = "released", n \notin late'
      PROVE  volume'[claim'[n].vol] = Absent
  <2>1. claim[n].phase # "unbound" /\ claim'[n].vol = claim[n].vol
    BY <1>0, <1>2, PhaseStep
  <2>2. PICK v \in VolIds : v = claim[n].vol /\ v.name = n
    BY <1>0, <2>1 DEF GoodClaim
  <2>3. ~VolumeExists(v)
    <3>1. CASE claim[n].phase = "released"
      BY <1>0, <1>2, <2>2, <3>1 DEF DeletionsAreDone
    <3>2. CASE claim[n].phase # "released"
      <4>1. PICK h \in Handlers : Reply(h) /\ handler[h].op = "DeleteVolume" /\ handler[h].obj = n
        BY <1>0, <1>2, <3>2, ReleaseStep
      <4>2. handler[h].vol = v /\ handler[h].pc = "reply"
        BY <1>0, <2>2, <4>1 DEF DeletesAreAsked, Reply
      <4> QED
        BY <1>0, <1>2, <4>1, <4>2 DEF DeletionsAreDone
    <3> QED
      BY <3>1, <3>2
  <2>4. ~VolumeExists(v)'
    BY <1>0, <1>2, <2>1, <2>2, <2>3, GoneStays
  <2> QED
    BY <2>1, <2>2, <2>4 DEF VolumeExists
<1> QED
  BY <1>1, <1>2 DEF DeletionsAreDone, VolumeExists

-----------------------------------------------------------------------------
(* What there is without faults.                                           *)

LEMMA NoPanic ==
    ASSUME ZonesHaveEntries, TypeInv, NEW h \in Handlers
    PROVE  ~ResolvePanics(h)
<1> SUFFICES ASSUME ResolvePanics(h) PROVE FALSE
  OBVIOUS
<1> DEFINE n == handler[h].obj
<1>0. handler[h] \in HandlerStates /\ GoodHandler(handler[h])
  BY RecordType
<1>1. handler[h].pc = "resolve" /\ Entry(h) = AnyConfig /\ Candidates(h) = {}
  BY DEF ResolvePanics, Pinned
<1>2. handler[h].snap = NoSnapshot
  <2>1. handler[h].snap \in SnapIds => handler[h].snap.volume.config \in Configs
    BY DEF SnapIds, VolIds
  <2> QED
    BY <1>0, <1>1, <2>1, ObjectAssumption DEF Entry, HandlerStates
<1>3. handler[h].vol = NoVolume
  <2>1. handler[h].vol \in VolIds => handler[h].vol.config \in Configs
    BY DEF VolIds
  <2> QED
    BY <1>0, <1>1, <1>2, <2>1, ObjectAssumption DEF Entry, HandlerStates
<1>4. handler[h].op = "CreateVolume"
  BY <1>0, <1>1, <1>2, <1>3, NoSnapshotAssumption, ObjectAssumption DEF GoodHandler, HandlerStates, Ops
<1>5. n \in Names /\ Placeable(n)
  BY <1>0, <1>1, <1>2, <1>3, <1>4, NoSnapshotAssumption DEF GoodHandler, Entry, Placeable
<1>6. PICK c \in Configs : Claim[n].zone \in {NoZone, Zone[c]}
  BY <1>5 DEF ZonesHaveEntries
<1>7. c \in Candidates(h)
  BY <1>1, <1>6 DEF Candidates, InZone
<1> QED
  BY <1>1, <1>7

\* Without faults the answer that a volume was made is given, not lost.
LEMMA AnswerKept ==
    ASSUME TypeInv, ZonesHaveEntries, Next, faults' = 0, NEW h \in Handlers, NEW v, Answers(h, v)
    PROVE  Answers(h, v)' \/ Reply(h)
<1>0. HandlerInv /\ faults \in Nat /\ \A g \in Handlers : handler[g] \in HandlerStates
  BY RecordType DEF TypeInv, EnvInv
<1>1. /\ handler[h].op = "CreateVolume" /\ handler[h].pc = "reply" /\ handler[h].live
      /\ handler[h].vol = v
  BY DEF Answers
<1>2. ASSUME handler'[h] = handler[h] PROVE Answers(h, v)'
  BY <1>1, <1>2 DEF Answers
<1>3. ASSUME NEW g \in Handlers, Calls(g) PROVE handler'[h] = handler[h]
  <2>1. ASSUME NEW op, NEW obj, NEW vol, NEW id, NEW size, Start(g, op, obj, vol, id, size),
               handler[g].pc = "idle"
        PROVE  handler'[h] = handler[h]
    BY <1>0, <1>1, <2>1 DEF Start, HandlerInv
  <2> QED
    BY <1>3, <2>1 DEF Calls, CallCreateVolume, CallDeleteVolume, CallCreateSnapshot,
       CallDeleteSnapshot, CanCall
<1>4. ASSUME NEW g \in Handlers, HandlerStep(g) PROVE handler'[h] = handler[h] \/ Reply(h)
  <2>1. ASSUME ReturnError(g), g # h PROVE handler'[h] = handler[h]
    BY <1>0, <2>1 DEF ReturnError, HandlerInv
  <2>2. ASSUME NEW pc, Goto(g, pc), g # h PROVE handler'[h] = handler[h]
    BY <1>0, <2>2 DEF Goto, HandlerInv
  <2>3. CASE Resolve(g)
    BY <1>0, <1>1, <2>3 DEF Resolve, HandlerInv
  <2>4. CASE ResolveNotFound(g) \/ ResolveWrongZone(g)
    BY <1>1, <2>1, <2>2, <2>4 DEF ResolveNotFound, ResolveWrongZone
  <2>5. CASE ResolvePanics(g)
    BY <2>5, NoPanic
  <2>6. CASE CreateNew(g) \/ GetExisting(g) \/ GetSnapshot(g) \/ Clone(g)
    BY <1>1, <2>1, <2>2, <2>6 DEF CreateNew, GetExisting, GetSnapshot, Clone, At
  <2>7. CASE ListSnapshots(g) \/ CreateSnapshotOnNS(g) \/ GetCreated(g)
    BY <1>1, <2>1, <2>2, <2>7 DEF ListSnapshots, CreateSnapshotOnNS, GetCreated
  <2>8. CASE GetLuns(g) \/ DestroyLun(g)
    BY <1>0, <1>1, <2>1, <2>8 DEF GetLuns, DestroyLun, At, HandlerInv
  <2>9. CASE DestroyVolume(g) \/ DestroySnapshot(g)
    BY <1>1, <2>1, <2>2, <2>9 DEF DestroyVolume, DestroySnapshot, At
  <2>10. CASE Reply(g)
    BY <2>1, <2>10 DEF Reply, ReturnError
  <2> QED
    BY <1>4, <2>3, <2>4, <2>5, <2>6, <2>7, <2>8, <2>9, <2>10 DEF HandlerStep
<1>5. ASSUME Environment PROVE handler'[h] = handler[h]
  <2>1. ~Fault
    BY <1>0 DEF Fault
  <2>2. \/ \E n \in Names, host \in Hosts : NodeMaps(n, host) \/ NodeUnmaps(n, host)
        \/ \E n \in Names : Write(n)
        \/ \E c \in Configs : PoolImport(c)
    BY <1>5, <2>1 DEF Environment, Fail, AbandonCall, Crash, PoolExport
  <2> QED
    BY <2>2 DEF NodeMaps, NodeUnmaps, Write, PoolImport
<1> QED
  BY <1>2, <1>3, <1>4, <1>5 DEF Next

\* The call that makes a volume answers next.
LEMMA MadeAnswers ==
    ASSUME TypeInv, Next, NEW v \in VolIds, ~VolumeExists(v), VolumeExists(v)'
    PROVE  \E h \in Handlers :
              /\ handler[h].op = "CreateVolume" /\ handler[h].vol = v
              /\ handler'[h] = [handler[h] EXCEPT !.pc = "reply"]
<1>0. HandlerInv /\ volume \in [VolIds -> Volumes \cup {Absent}]
  BY DEF TypeInv, NsTypeOK
<1>1. PICK h \in Handlers : CreateNew(h) \/ Clone(h)
  <2>1. Made(v)
    BY VolumeStep DEF SameContent, Written
  <2>2. ASSUME NEW h \in Handlers, HandlerStep(h), ~CreateNew(h), ~Clone(h)
        PROVE  UNCHANGED volume \/ DestroyVolume(h)
    BY <2>2 DEF HandlerStep, Resolve, ResolveNotFound, ResolveWrongZone, ResolvePanics, GetExisting,
       GetSnapshot, ListSnapshots, CreateSnapshotOnNS, NsCreateSnapshot, GetCreated, GetLuns, DestroyLun,
       NsDestroyLunMapping, DestroySnapshot, NsDestroySnapshot, Reply, nsVars
  <2>3. ASSUME NEW h \in Handlers, DestroyVolume(h) PROVE ~VolumeExists(v)'
    <3>1. handler[h].vol \in VolIds
      BY <2>3, RecordType DEF DestroyVolume, At, GoodHandler
    <3>2. VolumeExists(handler[h].vol) /\ NsDestroyVolume(handler[h].vol) => ~VolumeExists(v)'
      BY <3>1, PromotionContents DEF SameContent
    <3>3. UNCHANGED nsVars => ~VolumeExists(v)'
      BY DEF nsVars, VolumeExists
    <3> QED
      BY <2>3, <3>2, <3>3 DEF DestroyVolume, Visible
  <2>4. ASSUME NEW h \in Handlers, Calls(h) PROVE UNCHANGED volume
    BY <2>4 DEF Calls, CallCreateVolume, CallDeleteVolume, CallCreateSnapshot, CallDeleteSnapshot, nsVars
  <2>5. ASSUME Environment PROVE UNCHANGED volume \/ \E n \in Names : Write(n)
    BY <2>5 DEF Environment, NodeMaps, NodeUnmaps, NsCreateLunMapping, NsDestroyLunMapping, Fail,
       AbandonCall, Crash, PoolExport, PoolImport, nsVars
  <2>6. ASSUME NEW n \in Names, Write(n) PROVE ~VolumeExists(v)'
    <3>1. VolumeExists(claim[n].vol) /\ NsWrite(claim[n].vol)
      BY <2>6 DEF Write, Visible
    <3> QED
      BY <1>0, <3>1 DEF NsWrite, VolumeExists
  <2> QED
    BY <2>2, <2>3, <2>4, <2>5, <2>6 DEF Next, VolumeExists
<1>2. Goto(h, "reply") /\ handler[h].vol = v /\ handler[h].op = "CreateVolume"
  <2>1. CASE UNCHANGED volume
    BY <2>1 DEF VolumeExists
  <2>2. CASE ~UNCHANGED volume
    BY <1>0, <1>1, <2>2 DEF CreateNew, Clone, At, NsCreateVolume, NsCloneSnapshot, nsVars, VolumeExists
  <2> QED
    BY <2>1, <2>2
<1> QED
  BY <1>0, <1>2 DEF Goto, HandlerInv

LEMMA FirstTriesStep ==
    ASSUME ZonesHaveEntries, Base, GivenUpAreLate, FirstTriesHold, Next
    PROVE  FirstTriesHold'
<1> SUFFICES ASSUME faults' = 0, NEW v \in VolIds, VolumeExists(v)'
             PROVE  \/ claim'[v.name].phase # "unbound" /\ claim'[v.name].vol = v
                    \/ \E h \in Handlers : Answers(h, v)'
  BY DEF FirstTriesHold
<1>0. /\ TypeInv /\ Known /\ OwnershipInv /\ v.name \in Names /\ faults \in Nat
      /\ claim \in [Names -> ClaimStates]
  BY DEF Base, VolIds, TypeInv, EnvInv, CoInv
<1>1. faults = 0
  BY <1>0, EnvironmentStep
<1>2. CASE claim[v.name].phase # "unbound" /\ claim[v.name].vol = v
  BY <1>0, <1>2, PhaseStep
<1>3. ASSUME NEW h \in Handlers, Answers(h, v)
      PROVE  \/ claim'[v.name].phase # "unbound" /\ claim'[v.name].vol = v
             \/ Answers(h, v)'
  <2>1. CASE Reply(h)
    <3>1. /\ handler[h].op = "CreateVolume" /\ handler[h].live /\ handler[h].vol = v
          /\ handler[h].pc = "reply"
      BY <1>3 DEF Answers
    <3>2. handler[h].obj = v.name
      BY <1>0, <3>1, Makers
    <3> QED
      BY <1>0, <2>1, <3>1, <3>2 DEF Reply, Created, ClaimStates
  <2> QED
    BY <1>0, <1>3, <2>1, AnswerKept
<1>4. CASE ~VolumeExists(v)
  <2>1. PICK h \in Handlers : /\ handler[h].op = "CreateVolume" /\ handler[h].vol = v
                              /\ handler'[h] = [handler[h] EXCEPT !.pc = "reply"]
    BY <1>0, <1>4, MadeAnswers
  <2>2. handler[h].live /\ handler[h] \in HandlerStates
    BY <1>0, <1>1, <2>1, RecordType DEF GivenUpAreLate
  <2> QED
    BY <2>1, <2>2 DEF Answers, HandlerStates
<1> QED
  BY <1>1, <1>2, <1>3, <1>4 DEF FirstTriesHold

-----------------------------------------------------------------------------
(* Nothing is left behind.                                                 *)

LEMMA LeftInit == Init => LeftInv
  BY DEF Init, NsInit, Idle, LeftInv, DeletionsAreDone, FirstTriesHold, VolumeExists

LEMMA LeftStutter ==
    ASSUME LeftInv, UNCHANGED vars
    PROVE  LeftInv'
  BY DEF vars, nsVars, LeftInv, DeletionsAreDone, FirstTriesHold, Answers, VolumeExists

LEMMA LeftStep ==
    ASSUME Exportable = {}, ZonesHaveEntries, Base, Belonging, LeftInv, Next
    PROVE  LeftInv'
<1>1. exported' = {}
  BY EnvironmentStep DEF LeftInv, Base
<1>2. DeletionsAreDone' /\ FirstTriesHold'
  BY DeletionsStep, FirstTriesStep DEF LeftInv, Belonging
<1> QED
  BY <1>1, <1>2 DEF LeftInv

LEMMA LeftHasReason ==
    ASSUME Base, Belonging, LeftInv
    PROVE  NothingLeftBehind
<1> SUFFICES ASSUME NEW v \in VolIds, VolumeExists(v), claim[v.name].phase # "unbound", v.name \notin late
             PROVE  \/ claim[v.name].phase \in {"bound", "deleting"} /\ claim[v.name].vol = v
                    \/ Placeable(v.name) /\ faults > 0 /\ claim[v.name].vol # v
  BY DEF NothingLeftBehind
<1> DEFINE n == v.name  w == claim[n].vol
<1>0. n \in Names /\ claim[n] \in ClaimStates /\ w \in VolIds /\ w.name = n /\ faults \in Nat
  BY DEF VolIds, Base, TypeInv, CoInv, GoodClaim, EnvInv
<1>1. CASE w = v
  BY <1>0, <1>1 DEF LeftInv, DeletionsAreDone, ClaimStates
<1>2. CASE w # v /\ Placeable(n)
  <2>1. ASSUME NEW h \in Handlers, Answers(h, v) PROVE FALSE
    <3>1. handler[h].obj = n /\ handler[h].op = "CreateVolume" /\ handler[h].live
      BY <2>1, Makers DEF Answers, Base
    <3> QED
      BY <3>1 DEF Base, OwnershipInv, CreatesAreUnbound
  <2>2. faults # 0
    BY <1>2, <2>1 DEF LeftInv, FirstTriesHold
  <2> QED
    BY <1>0, <1>2, <2>2
<1>3. CASE w # v /\ ~Placeable(n)
  <2>1. Belongs(n, v.config) /\ Belongs(n, w.config)
    BY <1>0 DEF Belonging, VolumesBelong, ClaimsBelong
  <2>2. v.config = w.config
    BY <1>0, <1>3, <2>1, Kinds DEF Belongs, Placeable, Kind
  <2>3. v = [config |-> v.config, name |-> n] /\ w = [config |-> w.config, name |-> w.name]
    BY <1>0 DEF VolIds
  <2> QED
    BY <1>0, <1>3, <2>2, <2>3
<1> QED
  BY <1>1, <1>2, <1>3

\* Where the pools stay and every zone asked for has an entry, nothing is left behind:
\* a volume that exists is its claim's own, or the claim is not bound yet, or it is one
\* of the two kinds the code loses sight of, a copy that a failed attempt left on
\* another appliance and a volume made by a call the CO had given up.
THEOREM NothingIsLeft ==
    ASSUME Exportable = {}, ZonesHaveEntries
    PROVE  Spec => []NothingLeftBehind
<1>1. Base /\ Belonging /\ LeftInv /\ [Next]_vars => LeftInv'
  BY LeftStep, LeftStutter
<1> QED
  BY <1>1, Basis, BelongingHolds, LeftInit, LeftHasReason, PTL DEF Spec
-----------------------------------------------------------------------------
(* What a restored volume holds, when its snapshot may be gone meanwhile.  *)

Restored(n) == Kind(n) = "snapshot"

SnapOf(n) == Claim[n].source.of

\* The volume that snapshot s was taken of is gone for good once it is gone.
Settled(s) ==
    /\ claim[SourceOf(s)].phase # "unbound"
    /\ claim[SourceOf(s)].phase = "bound" \/ SourceOf(s) \notin late

\* A snapshot goes with the volume it is on.
SnapshotsHaveVolumes == \A x \in SnapIds : SnapshotExists(x) => VolumeExists(x.volume)

ReadyAreThere ==
    \A s \in Snaps :
        snap[s].phase = "ready" /\ Settled(s) /\ VolumeExists(claim[SourceOf(s)].vol) =>
            SnapshotExists(snap[s].id)

\* What a ready snapshot holds is what a claim found there when it first asked.
SnapshotsStay ==
    \A n \in Names : Restored(n) /\ claim[n].since # NoContent =>
        LET s == SnapOf(n) IN
        /\ snap[s].phase # "none"
        /\ snap[s].phase = "ready" /\ Settled(s) /\ SnapshotExists(snap[s].id) =>
             snapshot[snap[s].id].content = claim[n].since

\* A call that restores keeps the snapshot from being deleted, and what it found
\* missing it will not find later.
CallsRestore ==
    \A h \in Handlers, n \in Names :
        handler[h].op = "CreateVolume" /\ handler[h].obj = n /\ Restored(n) =>
        LET s == SnapOf(n) IN
        /\ handler[h].live => snap[s].phase = "ready"
        /\ Settled(s) /\ claim[n].since = NoContent => ~VolumeExists(claim[SourceOf(s)].vol)

\* A volume found by a claim that is not bound yet holds what its snapshot held.
RestoredAreWhole ==
    \A v \in VolIds : VolumeExists(v) /\ Restored(v.name) =>
        LET n == v.name  s == SnapOf(n) IN
        Settled(s) =>
            /\ claim[n].since # NoContent
            /\ claim[n].phase = "unbound" /\ snap[s].phase = "ready" =>
                 volume[v].content = claim[n].since

RestoresHold ==
    \A n \in Names : claim[n].phase = "bound" /\ Restored(n) /\ Settled(SnapOf(n)) =>
        LET held == volume[claim[n].vol].content  since == claim[n].since IN
        since # NoContent /\ held.root = since.root /\ since.writes <= held.writes

RestoreInv ==
    /\ SnapshotsHaveVolumes /\ ReadyAreThere /\ SnapshotsStay
    /\ CallsRestore /\ RestoredAreWhole /\ RestoresHold

-----------------------------------------------------------------------------
(* A snapshot goes with its volume or when its own deletion is asked for.  *)

LEMMA VolumeGone ==
    ASSUME TypeInv, Next, NEW v \in VolIds, VolumeExists(v), ~VolumeExists(v)'
    PROVE  \E h \in Handlers : DestroyVolume(h) /\ handler[h].vol = v /\ NsDestroyVolume(v)
<1>1. UNCHANGED volume => FALSE
  BY DEF VolumeExists
<1>2. ASSUME NEW h \in Handlers, DestroyVolume(h)
      PROVE  handler[h].vol = v /\ NsDestroyVolume(v)
  <2>1. handler[h].vol \in VolIds /\ NsTypeOK
    BY <1>2, RecordType DEF DestroyVolume, At, GoodHandler, TypeInv
  <2>2. VolumeExists(handler[h].vol) /\ NsDestroyVolume(handler[h].vol)
    BY <1>1, <1>2 DEF DestroyVolume, Visible, nsVars
  <2> QED
    BY <2>1, <2>2, DestroyVolumeType
<1>3. ~\E h \in Handlers : CreateNew(h) \/ Clone(h)
  <2>0. volume \in [VolIds -> Volumes \cup {Absent}]
    BY DEF TypeInv, NsTypeOK
  <2>1. ASSUME NEW h \in Handlers, CreateNew(h) PROVE FALSE
    BY <1>1, <2>0, <2>1 DEF CreateNew, NsCreateVolume, VolumeExists, nsVars
  <2>2. ASSUME NEW h \in Handlers, Clone(h) PROVE FALSE
    BY <1>1, <2>0, <2>2 DEF Clone, NsCloneSnapshot, VolumeExists, nsVars
  <2> QED
    BY <2>1, <2>2
<1>4. ASSUME NEW n \in Names, Write(n) PROVE FALSE
  <2>1. VolumeExists(v)' \/ \E h \in Handlers : handler[h].op = "DeleteVolume" /\ handler[h].vol = v
    BY VolumeLoss
  <2>2. NsTypeOK /\ VolumeExists(claim[n].vol) /\ claim[n].vol \in VolIds /\ NsWrite(claim[n].vol)
    BY <1>4 DEF Write, Visible, TypeInv, CoInv, GoodClaim
  <2>3. NsTypeOK' /\ volume[claim[n].vol] \in Volumes
    BY <2>2, WriteType DEF NsTypeOK, VolumeExists
  <2>4. [volume[claim[n].vol] EXCEPT !.content.writes = @ + 1] \in Volumes
    BY <2>3 DEF Volumes, Contents
  <2> QED
    BY <2>2, <2>4, AbsentAssumption DEF NsWrite, NsTypeOK, VolumeExists
<1>5. ASSUME NEW h \in Handlers, HandlerStep(h)
      PROVE  \/ UNCHANGED volume \/ CreateNew(h) \/ Clone(h) \/ DestroyVolume(h)
  BY <1>5 DEF HandlerStep, Resolve, ResolveNotFound, ResolveWrongZone, ResolvePanics, GetExisting,
     GetSnapshot, ListSnapshots, CreateSnapshotOnNS, NsCreateSnapshot, GetCreated, GetLuns, DestroyLun,
     NsDestroyLunMapping, DestroySnapshot, NsDestroySnapshot, Reply, nsVars
<1>6. ASSUME NEW h \in Handlers, Calls(h) PROVE UNCHANGED volume
  BY <1>6 DEF Calls, CallCreateVolume, CallDeleteVolume, CallCreateSnapshot, CallDeleteSnapshot, nsVars
<1>7. ASSUME Environment PROVE UNCHANGED volume \/ \E n \in Names : Write(n)
  BY <1>7 DEF Environment, NodeMaps, NodeUnmaps, NsCreateLunMapping, NsDestroyLunMapping, Fail,
     AbandonCall, Crash, PoolExport, PoolImport, nsVars
<1> QED
  BY <1>1, <1>2, <1>3, <1>4, <1>5, <1>6, <1>7 DEF Next

\* What the destruction of v leaves is on other volumes, which are there.
LEMMA DestroyHosts ==
    ASSUME TypeInv, SnapshotsHaveVolumes, NEW v \in VolIds, VolumeExists(v), NsDestroyVolume(v),
           NEW x \in SnapIds
    PROVE  /\ ~VolumeExists(v)'
           /\ SnapshotExists(x)' => x.volume # v /\ VolumeExists(x.volume) /\ VolumeExists(x.volume)'
           /\ SnapshotExists(x) /\ x.volume # v => snapshot'[x] = snapshot[x]
<1>0. x.volume \in VolIds /\ NsTypeOK
  BY DEF SnapIds, TypeInv
<1>1. ~VolumeExists(v)'
  <2>1. NsDestroyAlone(v) => volume'[v] = Absent
    BY <1>0 DEF NsDestroyAlone, NsTypeOK
  <2>2. ASSUME NEW w \in VolIds, NEW moved \in SUBSET SnapshotsOf(v), NsPromoteAndDestroy(v, w, moved)
        PROVE  volume'[v] = Absent
    BY <2>2 DEF NsPromoteAndDestroy
  <2> QED
    BY <2>1, <2>2 DEF NsDestroyVolume, VolumeExists
<1>2. SnapshotExists(x)' => x.volume # v /\ VolumeExists(x.volume)
  <2>1. CASE NsDestroyAlone(v)
    BY <2>1 DEF NsDestroyAlone, SnapshotExists, SnapshotsHaveVolumes
  <2>2. CASE \E w \in VolIds, moved \in SUBSET SnapshotsOf(v) : NsPromoteAndDestroy(v, w, moved)
    <3>1. PICK w \in VolIds, moved \in SUBSET SnapshotsOf(v) : NsPromoteAndDestroy(v, w, moved)
      BY <2>2
    <3>2. VolumeExists(w)
      BY <3>1 DEF NsPromoteAndDestroy, Clones
    <3>3. SnapshotExists(x)' => x.volume # v /\ (x.volume = w \/ SnapshotExists(x))
      BY <3>1 DEF NsPromoteAndDestroy, SnapshotExists
    <3> QED
      BY <3>2, <3>3 DEF SnapshotsHaveVolumes
  <2> QED
    BY <2>1, <2>2 DEF NsDestroyVolume
<1>3. x.volume # v /\ VolumeExists(x.volume) => volume'[x.volume] # Absent
  <2>1. \A y \in VolIds \ {v} : VolumeExists(y) => volume'[y] # Absent
    BY <1>0, DestroyVolumeType DEF VolumeExists
  <2> QED
    BY <1>0, <2>1
<1>4. SnapshotExists(x) /\ x.volume # v => snapshot'[x] = snapshot[x]
  BY PromotionSnapshots DEF SameSnapshot
<1> QED
  BY <1>1, <1>2, <1>3, <1>4 DEF VolumeExists

\* A snapshot is only found on a volume that was and is there; it goes, and what it
\* holds changes, only with the volume or in a DeleteSnapshot.
LEMMA SnapshotHosts ==
    ASSUME TypeInv, SnapshotsHaveVolumes, Next, NEW x \in SnapIds
    PROVE  /\ snapshot'[x] # Absent => VolumeExists(x.volume) /\ volume'[x.volume] # Absent
           /\ SnapshotExists(x) /\ volume'[x.volume] # Absent =>
                \/ snapshot'[x] = snapshot[x]
                \/ \E h \in Handlers : handler[h].op = "DeleteSnapshot" /\ handler[h].snap = x
<1> DEFINE Result ==
      /\ snapshot'[x] # Absent => VolumeExists(x.volume) /\ volume'[x.volume] # Absent
      /\ SnapshotExists(x) /\ volume'[x.volume] # Absent =>
           \/ snapshot'[x] = snapshot[x]
           \/ \E h \in Handlers : handler[h].op = "DeleteSnapshot" /\ handler[h].snap = x
<1>0. x.volume \in VolIds /\ snapshot \in [SnapIds -> Snapshots \cup {Absent}]
  BY DEF SnapIds, TypeInv, NsTypeOK
<1>1. ASSUME NEW v \in VolIds, VolumeExists(v), NsDestroyVolume(v) PROVE Result
  BY <1>1, DestroyHosts DEF VolumeExists, SnapshotExists
<1>2. CASE ~\E h \in Handlers : DestroyVolume(h) /\ NsDestroyVolume(handler[h].vol)
  <2>1. VolumeExists(x.volume) => volume'[x.volume] # Absent
    <3>1. \A y \in VolIds : VolumeExists(y) => volume'[y] # Absent
      BY <1>2, VolumeGone DEF VolumeExists
    <3> QED
      BY <1>0, <3>1
  <2>2. CASE UNCHANGED snapshot
    BY <2>1, <2>2 DEF SnapshotsHaveVolumes, SnapshotExists
  <2>3. ASSUME NEW h \in Handlers, CreateSnapshotOnNS(h), ~UNCHANGED snapshot PROVE Result
    <3>1. /\ NsCreateSnapshot(handler[h].snap) /\ ~SnapshotExists(handler[h].snap)
          /\ VolumeExists(handler[h].snap.volume)
      BY <2>3 DEF CreateSnapshotOnNS, Visible, nsVars
    <3>2. x # handler[h].snap => snapshot'[x] = snapshot[x]
      BY <1>0, <3>1 DEF NsCreateSnapshot
    <3> QED
      BY <2>1, <3>1, <3>2 DEF SnapshotsHaveVolumes, SnapshotExists
  <2>4. ASSUME NEW h \in Handlers, DestroySnapshot(h), ~UNCHANGED snapshot PROVE Result
    <3>1. NsDestroySnapshot(handler[h].snap) /\ handler[h].op = "DeleteSnapshot"
      BY <2>4 DEF DestroySnapshot, At, nsVars
    <3>2. snapshot'[x] = IF x = handler[h].snap THEN Absent ELSE snapshot[x]
      BY <1>0, <3>1 DEF NsDestroySnapshot
    <3> QED
      BY <2>1, <3>1, <3>2 DEF SnapshotsHaveVolumes, SnapshotExists
  <2>5. ASSUME NEW h \in Handlers, HandlerStep(h)
        PROVE  \/ UNCHANGED snapshot \/ CreateSnapshotOnNS(h) \/ DestroySnapshot(h)
    <3>1. DestroyVolume(h) => UNCHANGED snapshot
      BY <1>2 DEF DestroyVolume, nsVars
    <3> QED
      BY <2>5, <3>1 DEF HandlerStep, Resolve, ResolveNotFound, ResolveWrongZone, ResolvePanics, CreateNew,
         NsCreateVolume, GetExisting, GetSnapshot, Clone, NsCloneSnapshot, ListSnapshots, GetCreated,
         GetLuns, DestroyLun, NsDestroyLunMapping, Reply, nsVars
  <2>6. ASSUME NEW h \in Handlers, Calls(h) PROVE UNCHANGED snapshot
    BY <2>6 DEF Calls, CallCreateVolume, CallDeleteVolume, CallCreateSnapshot, CallDeleteSnapshot, nsVars
  <2>7. ASSUME Environment PROVE UNCHANGED snapshot
    BY <2>7 DEF Environment, NodeMaps, NodeUnmaps, NsCreateLunMapping, NsDestroyLunMapping, Write,
       NsWrite, Fail, AbandonCall, Crash, PoolExport, PoolImport, nsVars
  <2> QED
    BY <2>2, <2>3, <2>4, <2>5, <2>6, <2>7 DEF Next
<1>3. ASSUME NEW h \in Handlers, DestroyVolume(h), NsDestroyVolume(handler[h].vol) PROVE Result
  <2>1. handler[h].vol \in VolIds
    BY <1>3, RecordType DEF DestroyVolume, At, GoodHandler
  <2>2. CASE VolumeExists(handler[h].vol)
    BY <1>1, <1>3, <2>1, <2>2
  <2>3. CASE ~VolumeExists(handler[h].vol)
    <3>1. UNCHANGED nsVars
      BY <1>3, <2>3 DEF DestroyVolume, Visible
    <3> QED
      BY <3>1 DEF nsVars, SnapshotsHaveVolumes, SnapshotExists, VolumeExists
  <2> QED
    BY <2>2, <2>3
<1> QED
  BY <1>2, <1>3

-----------------------------------------------------------------------------
(* The snapshots the CO knows of.                                          *)

LEMMA Restores ==
    ASSUME NEW n \in Names, Restored(n)
    PROVE  /\ SnapOf(n) \in Snaps
           /\ Claim[n].source = [kind |-> "snapshot", of |-> SnapOf(n)]
           /\ Claim[n].source.kind = "snapshot" /\ Claim[n].source.of = SnapOf(n)
<1>1. Claim[n].source \in Sources
  BY ClaimAssumption DEF ClaimTypes
<1> QED
  BY <1>1 DEF Restored, Kind, SnapOf, Sources

\* A snapshot that has been reported, or deleted since, has its id from its claims.
LEMMA SnapFacts ==
    ASSUME Base, NEW s \in Snaps, snap[s].phase # "none"
    PROVE  /\ SourceOf(s) \in Names /\ claim[SourceOf(s)].phase # "unbound"
           /\ claim[SourceOf(s)].vol \in VolIds /\ claim[SourceOf(s)].vol.name = SourceOf(s)
           /\ snap[s].id = IdOf(s) /\ snap[s].id \in SnapIds
           /\ snap[s].id.volume = claim[SourceOf(s)].vol /\ snap[s].id.tag = TagOf(s)
<1>1. TypeInv /\ ReadyStay /\ s \in Requests
  BY SnapRequests DEF Base, ContentInv
<1>2. snap[s].id = IdOf(s) /\ claim[SourceOf(s)].phase # "unbound"
  BY <1>1 DEF ReadyStay
<1>3. SourceOf(s) \in Names /\ TagOf(s) \in Tags
      /\ claim[SourceOf(s)].vol \in VolIds /\ claim[SourceOf(s)].vol.name = SourceOf(s)
  BY <1>1, <1>2, RequestTypes
<1>4. IdOf(s) \in SnapIds
  BY <1>3 DEF IdOf, SnapIds
<1> QED
  BY <1>2, <1>3, <1>4 DEF IdOf

\* And keeps it; its volume can only cease to be gone for good.
LEMMA SnapKept ==
    ASSUME Base, GivenUpAreLate, Next, NEW s \in Snaps, snap[s].phase # "none"
    PROVE  /\ snap'[s].phase # "none" /\ snap'[s].id = snap[s].id
           /\ snap'[s].phase = "ready" => snap[s].phase = "ready"
           /\ claim'[SourceOf(s)].vol = claim[SourceOf(s)].vol
           /\ Settled(s)' => Settled(s)
<1>0. TypeInv /\ Known /\ OwnershipInv /\ CallsAreAsked
  BY DEF Base, ContentInv
<1>1. SourceOf(s) \in Names /\ claim[SourceOf(s)].phase # "unbound"
  BY SnapFacts
<1>2. /\ claim'[SourceOf(s)].vol = claim[SourceOf(s)].vol
      /\ claim'[SourceOf(s)].phase = "bound" => claim[SourceOf(s)].phase = "bound"
  BY <1>0, <1>1, PhaseStep
<1>3. late \subseteq late'
  BY <1>0, EnvironmentStep
<1> QED
  BY <1>0, <1>1, <1>2, <1>3, SnapPhaseStep DEF Settled

\* The volume of a settled snapshot does not come back.
LEMMA GoneForGood ==
    ASSUME Base, GivenUpAreLate, Next, NEW s \in Snaps, snap[s].phase # "none", Settled(s),
           ~VolumeExists(claim[SourceOf(s)].vol)
    PROVE  volume'[claim[SourceOf(s)].vol] = Absent
<1> DEFINE m == SourceOf(s)  v == claim[m].vol
<1>1. m \in Names /\ claim[m].phase # "unbound" /\ v \in VolIds /\ v.name = m
  BY SnapFacts
<1>2. m \notin late
  BY <1>1 DEF Settled, Base, OwnershipInv, BoundVolumesExist
<1>3. \A y \in VolIds : ~VolumeExists(y) /\ claim[y.name].phase # "unbound" /\ y.name \notin late =>
        volume'[y] = Absent
  BY GoneStays DEF VolumeExists
<1> QED
  BY <1>1, <1>2, <1>3

\* DeleteSnapshot works on a snapshot whose deletion was asked for.
LEMMA ReadyAreSafe ==
    ASSUME Base, NEW s \in Snaps, snap[s].phase = "ready",
           NEW h \in Handlers, handler[h].op = "DeleteSnapshot"
    PROVE  handler[h].snap # snap[s].id
<1> DEFINE t == handler[h].obj
<1>1. t \in Snaps /\ s \in Requests /\ t \in Requests
  BY RecordType, SnapRequests DEF GoodHandler, Base
<1>2. snap[t].phase \in {"deleting", "released"} /\ handler[h].snap = snap[t].id
  BY DEF Base, ContentInv, CallsAreAsked, Asked
<1> HIDE DEF t
<1>3. snap[t].id.tag = TagOf(t) /\ snap[s].id.tag = TagOf(s)
  BY <1>1, <1>2, SnapFacts
<1> QED
  BY <1>1, <1>2, <1>3, TagsAreTheirs

\* A ready snapshot keeps what it holds as long as its volume is there.
LEMMA ReadyHolds ==
    ASSUME Base, SnapshotsHaveVolumes, Next, NEW s \in Snaps, snap[s].phase = "ready",
           SnapshotExists(snap[s].id), volume'[snap[s].id.volume] # Absent
    PROVE  snapshot'[snap[s].id] = snapshot[snap[s].id]
<1> DEFINE x == snap[s].id
<1>1. x \in SnapIds
  BY SnapFacts
<1>2. \A h \in Handlers : handler[h].op = "DeleteSnapshot" => handler[h].snap # x
  BY ReadyAreSafe
<1>3. \A y \in SnapIds : SnapshotExists(y) /\ volume'[y.volume] # Absent =>
        \/ snapshot'[y] = snapshot[y]
        \/ \E h \in Handlers : handler[h].op = "DeleteSnapshot" /\ handler[h].snap = y
  BY SnapshotHosts DEF Base
<1> HIDE DEF x
<1> QED
  BY <1>1, <1>2, <1>3 DEF x

\* What a claim found at its source it found when it first asked.
LEMMA FoundOnce ==
    ASSUME TypeInv, Known, Next, NEW n \in Names
    PROVE  \/ claim'[n].since = claim[n].since
           \/ /\ claim[n].since = NoContent /\ claim[n].phase = "unbound" /\ SourceReady(n)
              /\ claim'[n].since = SourceContent(n) /\ UNCHANGED <<nsVars, snap>>
<1> DEFINE Found == /\ claim[n].since = NoContent /\ claim[n].phase = "unbound" /\ SourceReady(n)
                    /\ claim'[n].since = SourceContent(n) /\ UNCHANGED <<nsVars, snap>>
<1>0. claim \in [Names -> ClaimStates]
  BY DEF TypeInv, CoInv
<1>1. ASSUME NEW h \in Handlers, NEW k \in Names, NEW size \in Sizes, CallCreateVolume(h, k, size)
      PROVE  claim'[n].since = claim[n].since \/ Found
  <2>1. claim'[n].since = IF n = k /\ claim[n].since = NoContent THEN SourceContent(n) ELSE claim[n].since
    BY <1>0, <1>1 DEF CallCreateVolume, ClaimStates
  <2> QED
    BY <1>1, <2>1 DEF CallCreateVolume
<1>2. ASSUME NEW h \in Handlers, NEW k \in Names, CallDeleteVolume(h, k)
      PROVE  claim'[n].since = claim[n].since
  BY <1>0, <1>2 DEF CallDeleteVolume, ClaimStates
<1>3. ASSUME NEW h \in Handlers, NEW s \in Snaps, CallCreateSnapshot(h, s) \/ CallDeleteSnapshot(h, s)
      PROVE  claim'[n].since = claim[n].since
  BY <1>3 DEF CallCreateSnapshot, CallDeleteSnapshot
<1>4. ASSUME NEW h \in Handlers, Reply(h) PROVE claim'[n].since = claim[n].since
  <2>1. CASE UNCHANGED claim
    BY <2>1
  <2>2. CASE claim' = [claim EXCEPT ![handler[h].obj].phase = "bound",
                                    ![handler[h].obj].vol = handler[h].vol,
                                    ![handler[h].obj].size = handler[h].size]
    BY <1>0, <2>2 DEF ClaimStates
  <2>3. CASE claim' = [claim EXCEPT ![handler[h].obj].phase = "released"]
    BY <1>0, <2>3 DEF ClaimStates
  <2> QED
    BY <1>4, <2>1, <2>2, <2>3 DEF Reply, Created
<1> HIDE DEF Found
<1>5. claim'[n].since = claim[n].since \/ Found
  BY <1>1, <1>2, <1>3, <1>4, StepClaims, EnvironmentContinues DEF Next, Calls
<1> QED
  BY <1>5 DEF Found

\* A ready snapshot stops being ready when its deletion is asked for.
LEMMA ReadyEnds ==
    ASSUME TypeInv, Known, CallsAreAsked, Next, NEW s \in Snaps,
           snap[s].phase = "ready", snap'[s].phase # "ready"
    PROVE  \E h \in Handlers : CallDeleteSnapshot(h, s)
<1>0. snap \in [Snaps -> SnapStates]
  BY DEF TypeInv, CoInv
<1>1. ASSUME NEW h \in Handlers, Calls(h) PROVE CallDeleteSnapshot(h, s)
  <2>1. ASSUME NEW t \in Snaps, CallCreateSnapshot(h, t) PROVE FALSE
    BY <1>0, <2>1 DEF CallCreateSnapshot, SnapStates
  <2>2. ASSUME NEW t \in Snaps, CallDeleteSnapshot(h, t) PROVE t = s
    BY <1>0, <2>2 DEF CallDeleteSnapshot, SnapStates
  <2>3. ASSUME NEW n \in Names, CallDeleteVolume(h, n) \/ \E size \in Sizes : CallCreateVolume(h, n, size)
        PROVE  FALSE
    BY <2>3 DEF CallDeleteVolume, CallCreateVolume
  <2> QED
    BY <1>1, <2>1, <2>2, <2>3 DEF Calls
<1>2. ASSUME NEW h \in Handlers, Reply(h) PROVE FALSE
  <2>1. \/ snap'[s].phase = snap[s].phase \/ snap'[s].phase = "ready"
        \/ handler[h].op = "DeleteSnapshot" /\ handler[h].obj = s
    BY <1>0, <1>2 DEF Reply, Snapped, SnapStates
  <2> QED
    BY <2>1 DEF CallsAreAsked, Asked
<1>3. ASSUME NEW h \in Handlers, HandlerStep(h) PROVE FALSE
  BY <1>2, <1>3, StepClaims
<1> QED
  BY <1>1, <1>3, EnvironmentContinues DEF Next

-----------------------------------------------------------------------------
(* The parts of what restoring relies on, one by one.                      *)

LEMMA HostsStep ==
    ASSUME TypeInv, SnapshotsHaveVolumes, Next
    PROVE  SnapshotsHaveVolumes'
<1> SUFFICES ASSUME NEW x \in SnapIds, snapshot'[x] # Absent PROVE volume'[x.volume] # Absent
  BY DEF SnapshotsHaveVolumes, SnapshotExists, VolumeExists
<1> QED
  BY SnapshotHosts

LEMMA ReadyThereStep ==
    ASSUME Base, GivenUpAreLate, SnapshotsHaveVolumes, ReadyAreThere, Next
    PROVE  ReadyAreThere'
<1> SUFFICES ASSUME NEW s \in Snaps, snap'[s].phase = "ready", Settled(s)',
                    volume'[claim'[SourceOf(s)].vol] # Absent
             PROVE  snapshot'[snap'[s].id] # Absent
  BY DEF ReadyAreThere, SnapshotExists, VolumeExists
<1>0. TypeInv /\ Known /\ CallsAreAsked /\ SnapAnswersAreTrue
  BY DEF Base, ContentInv
<1>1. CASE snap[s].phase # "none"
  <2>1. /\ snap[s].phase = "ready" /\ Settled(s) /\ snap'[s].id = snap[s].id
        /\ claim'[SourceOf(s)].vol = claim[SourceOf(s)].vol
    BY <1>1, SnapKept
  <2>2. snap[s].id.volume = claim[SourceOf(s)].vol
    BY <1>1, SnapFacts
  <2>3. VolumeExists(claim[SourceOf(s)].vol)
    BY <1>1, <2>1, GoneForGood
  <2>4. SnapshotExists(snap[s].id)
    BY <2>1, <2>3 DEF ReadyAreThere
  <2> QED
    BY <2>1, <2>2, <2>4, ReadyHolds DEF SnapshotExists
<1>2. CASE snap[s].phase = "none"
  <2>1. PICK h \in Handlers : ReadyBy(h, s)
    BY <1>0, <1>2, SnapPhaseStep
  <2>2. SnapshotExists(handler[h].snap)
    BY <1>0, <2>1 DEF ReadyBy, SnapAnswersAreTrue
  <2> QED
    BY <2>1, <2>2 DEF ReadyBy, nsVars, SnapshotExists
<1> QED
  BY <1>1, <1>2

LEMMA SnapshotsStayStep ==
    ASSUME Base, GivenUpAreLate, SnapshotsHaveVolumes, ReadyAreThere, SnapshotsStay, Next
    PROVE  SnapshotsStay'
<1> SUFFICES ASSUME NEW n \in Names, Restored(n), claim'[n].since # NoContent
             PROVE  LET s == SnapOf(n) IN
                    /\ snap'[s].phase # "none"
                    /\ snap'[s].phase = "ready" /\ Settled(s)' /\ snapshot'[snap'[s].id] # Absent =>
                         snapshot'[snap'[s].id].content = claim'[n].since
  BY DEF SnapshotsStay, SnapshotExists
<1> DEFINE s == SnapOf(n)
<1>0. TypeInv /\ Known /\ s \in Snaps
  BY Restores DEF Base
<1>1. CASE claim[n].since # NoContent
  <2>1. snap[s].phase # "none" /\ claim'[n].since = claim[n].since
    BY <1>0, <1>1, FoundOnce DEF SnapshotsStay
  <2> HIDE DEF s
  <2>2. /\ snap'[s].phase # "none" /\ snap'[s].id = snap[s].id
        /\ snap'[s].phase = "ready" => snap[s].phase = "ready"
        /\ Settled(s)' => Settled(s)
    BY <1>0, <2>1, SnapKept
  <2>3. snap[s].id \in SnapIds /\ snap[s].id.volume = claim[SourceOf(s)].vol
    BY <1>0, <2>1, SnapFacts
  <2>4. ASSUME snap'[s].phase = "ready", Settled(s)', snapshot'[snap'[s].id] # Absent
        PROVE  snapshot'[snap'[s].id].content = claim'[n].since
    <3>1. VolumeExists(snap[s].id.volume) /\ volume'[snap[s].id.volume] # Absent
      <4>1. \A y \in SnapIds : snapshot'[y] # Absent => VolumeExists(y.volume) /\ volume'[y.volume] # Absent
        BY <1>0, SnapshotHosts
      <4> QED
        BY <2>2, <2>3, <2>4, <4>1
    <3>2. SnapshotExists(snap[s].id)
      BY <1>0, <2>2, <2>3, <2>4, <3>1 DEF ReadyAreThere
    <3>3. snapshot'[snap[s].id] = snapshot[snap[s].id]
      BY <1>0, <2>2, <2>4, <3>1, <3>2, ReadyHolds
    <3>4. snapshot[snap[s].id].content = claim[n].since
      BY <1>1, <2>2, <2>4, <3>2 DEF s, SnapshotsStay
    <3> QED
      BY <2>1, <2>2, <3>3, <3>4
  <2> QED
    BY <2>2, <2>4 DEF s
<1>2. CASE claim[n].since = NoContent
  <2>1. SourceReady(n) /\ claim'[n].since = SourceContent(n) /\ UNCHANGED <<nsVars, snap>>
    BY <1>0, <1>2, FoundOnce
  <2>2. Claim[n].source.kind = "snapshot" /\ Claim[n].source.of = s
    BY Restores
  <2>3. snap[s].phase = "ready"
    BY <2>1, <2>2 DEF SourceReady
  <2>4. SnapshotExists(snap[s].id) /\ claim'[n].since = snapshot[snap[s].id].content
    BY <2>1, <2>2 DEF SourceContent
  <2> QED
    BY <2>1, <2>3, <2>4 DEF nsVars
<1> QED
  BY <1>1, <1>2

LEMMA CallsRestoreStep ==
    ASSUME Base, GivenUpAreLate, ReadyAreThere, CallsRestore, Next
    PROVE  CallsRestore'
<1> SUFFICES ASSUME NEW h \in Handlers, NEW n \in Names, NEW s, s = SnapOf(n), Restored(n),
                    handler'[h].op = "CreateVolume", handler'[h].obj = n
             PROVE  /\ handler'[h].live => snap'[s].phase = "ready"
                    /\ Settled(s)' /\ claim'[n].since = NoContent =>
                         volume'[claim'[SourceOf(s)].vol] = Absent
  BY DEF CallsRestore, VolumeExists
<1>0. /\ TypeInv /\ Known /\ OwnershipInv /\ CallsAreAsked /\ HandlerInv
      /\ handler[h] \in HandlerStates /\ GoodHandler(handler[h])
  BY RecordType DEF Base, TypeInv, ContentInv
<1>1. ASSUME handler[h].op = "CreateVolume", handler[h].obj = n, handler'[h].live => handler[h].live
      PROVE  /\ handler'[h].live => snap'[s].phase = "ready"
             /\ Settled(s)' /\ claim'[n].since = NoContent =>
                  volume'[claim'[SourceOf(s)].vol] = Absent
  <2>1. /\ s \in Snaps /\ snap[s].phase # "none"
        /\ Claim[n].source = [kind |-> "snapshot", of |-> s]
    <3>1. s \in Snaps /\ Claim[n].source = [kind |-> "snapshot", of |-> s]
      BY Restores
    <3> QED
      BY <1>0, <1>1, <3>1 DEF CallsAreAsked, Asked, Restored, SnapOf
  <2>2. /\ handler[h].live => snap[s].phase = "ready"
        /\ Settled(s) /\ claim[n].since = NoContent => ~VolumeExists(claim[SourceOf(s)].vol)
    BY <1>1 DEF CallsRestore
  <2>3. ASSUME handler'[h].live PROVE snap'[s].phase = "ready"
    <3> SUFFICES ASSUME snap'[s].phase # "ready" PROVE FALSE
      OBVIOUS
    <3>1. handler[h].live /\ snap[s].phase = "ready"
      BY <1>1, <2>2, <2>3
    <3>2. PICK g \in Handlers : CallDeleteSnapshot(g, s)
      BY <1>0, <2>1, <3>1, ReadyEnds
    <3>3. claim[n].phase = "unbound"
      BY <1>1, <3>1, <1>0 DEF OwnershipInv, CreatesAreUnbound
    <3>4. Waiting(n)
      BY <1>1, <3>1 DEF Waiting
    <3>5. InUse([kind |-> "snapshot", of |-> s])
      BY <2>1, <3>3, <3>4 DEF InUse
    <3> QED
      BY <3>2, <3>5 DEF CallDeleteSnapshot
  <2>4. ASSUME Settled(s)', claim'[n].since = NoContent
        PROVE  volume'[claim'[SourceOf(s)].vol] = Absent
    <3>1. Settled(s) /\ claim'[SourceOf(s)].vol = claim[SourceOf(s)].vol
      BY <2>1, <2>4, SnapKept
    <3>2. claim[n].since = NoContent
      BY <1>0, <2>1, <2>4, FoundOnce
    <3>3. ~VolumeExists(claim[SourceOf(s)].vol)
      BY <2>2, <3>1, <3>2
    <3> QED
      BY <2>1, <3>1, <3>3, GoneForGood
  <2> QED
    BY <2>3, <2>4
<1>2. CASE SameCreate(h)
  BY <1>1, <1>2 DEF SameCreate
<1>3. CASE Resolve(h)
  <2>1. /\ handler'[h].op = handler[h].op /\ handler'[h].obj = handler[h].obj
        /\ handler'[h].live = handler[h].live
    BY <1>0, <1>3 DEF Resolve, HandlerInv, HandlerStates
  <2> QED
    BY <1>1, <2>1
<1>4. ASSUME NEW k \in Names, NEW size \in Sizes, CallCreateVolume(h, k, size)
      PROVE  /\ handler'[h].live => snap'[s].phase = "ready"
             /\ Settled(s)' /\ claim'[n].since = NoContent =>
                  volume'[claim'[SourceOf(s)].vol] = Absent
  <2>1. n = k /\ SourceReady(k) /\ UNCHANGED <<nsVars, snap>>
    BY <1>0, <1>4 DEF CallCreateVolume, Start, HandlerInv
  <2>2. s \in Snaps /\ Claim[n].source.kind = "snapshot" /\ Claim[n].source.of = s
    BY Restores
  <2>3. snap[s].phase = "ready" /\ snap'[s].phase = "ready"
    BY <2>1, <2>2 DEF SourceReady
  <2>4. claim'[n].since = IF claim[n].since = NoContent THEN SourceContent(n) ELSE claim[n].since
    BY <1>0, <1>4, <2>1 DEF CallCreateVolume, TypeInv, CoInv, ClaimStates
  <2>5. ASSUME Settled(s)', claim'[n].since = NoContent
        PROVE  volume'[claim'[SourceOf(s)].vol] = Absent
    <3>1. Settled(s) /\ claim'[SourceOf(s)].vol = claim[SourceOf(s)].vol
      BY <2>2, <2>3, <2>5, SnapKept
    <3>2. SourceContent(n) = NoContent
      BY <2>4, <2>5
    <3>3. ~SnapshotExists(snap[s].id)
      <4>1. SnapshotExists(snap[s].id) => SourceContent(n) = snapshot[snap[s].id].content
        BY <2>2 DEF SourceContent
      <4>2. SnapshotExists(snap[s].id) => snapshot[snap[s].id].content \in Contents
        BY <1>0, <2>2, <2>3, SnapFacts, ContentTypes
      <4> QED
        BY <3>2, <4>1, <4>2, NoContentAssumption
    <3>4. ~VolumeExists(claim[SourceOf(s)].vol)
      BY <2>2, <2>3, <3>1, <3>3 DEF ReadyAreThere
    <3> QED
      BY <2>1, <3>1, <3>4 DEF nsVars, VolumeExists
  <2> QED
    BY <2>3, <2>5
<1> QED
  BY <1>0, <1>2, <1>3, <1>4, CreateStep

LEMMA RestoredStep ==
    ASSUME Base, Belonging, SnapshotsHaveVolumes, SnapshotsStay, CallsRestore, RestoredAreWhole, Next
    PROVE  RestoredAreWhole'
<1> SUFFICES ASSUME NEW v \in VolIds, volume'[v] # Absent, NEW n, n = v.name, NEW s, s = SnapOf(n),
                    Restored(n), Settled(s)'
             PROVE  /\ claim'[n].since # NoContent
                    /\ claim'[n].phase = "unbound" /\ snap'[s].phase = "ready" =>
                         volume'[v].content = claim'[n].since
  BY DEF RestoredAreWhole, VolumeExists
<1>0. /\ TypeInv /\ Known /\ OwnershipInv /\ CallsAreAsked /\ StepsFit /\ GivenUpAreLate
      /\ n \in Names /\ s \in Snaps
  BY Restores DEF Base, ContentInv, Belonging, VolIds
<1>1. claim[n].since # NoContent => claim'[n].since = claim[n].since
  BY <1>0, FoundOnce
<1>2. CASE VolumeExists(v)
  <2>1. snap[s].phase # "none"
    BY <1>2 DEF Belonging, VolumesBelong, Belongs, Restored, SnapOf
  <2>2. Settled(s) /\ (snap'[s].phase = "ready" => snap[s].phase = "ready")
    BY <1>0, <2>1, SnapKept
  <2>3. /\ claim[n].since # NoContent
        /\ claim[n].phase = "unbound" /\ snap[s].phase = "ready" => volume[v].content = claim[n].since
    BY <1>2, <2>2 DEF RestoredAreWhole
  <2>4. ASSUME claim'[n].phase = "unbound" PROVE volume'[v].content = volume[v].content
    <3>1. claim[n].phase = "unbound"
      BY <1>0, <2>4, PhaseStep
    <3>2. ~Written(v)
      BY <3>1 DEF Written, OwnershipInv, BoundVolumesExist, Base
    <3>3. SameContent(v) \/ Written(v) \/ Made(v)
      BY <1>0, VolumeStep DEF VolumeExists
    <3> QED
      BY <1>2, <3>2, <3>3 DEF SameContent, Made
  <2>5. claim'[n].phase = "unbound" => claim[n].phase = "unbound"
    BY <1>0, PhaseStep
  <2> QED
    BY <1>1, <2>2, <2>3, <2>4, <2>5
<1>3. CASE ~VolumeExists(v)
  <2>1. Made(v)
    BY <1>0, <1>3, VolumeStep DEF VolumeExists, SameContent, Written
  <2>2. PICK h \in Handlers :
          /\ handler[h].op = "CreateVolume" /\ handler[h].vol = v
          /\ UNCHANGED <<snapshot, claim, snap>>
          /\ \/ handler[h].pc = "create"
             \/ /\ handler[h].pc = "clone" /\ SnapshotExists(handler[h].snap)
                /\ volume'[v].content = snapshot[handler[h].snap].content
    BY <2>1 DEF Made
  <2>3. handler[h].obj = n
    BY <1>0, <2>2, Makers
  <2>4. SnapshotExists(handler[h].snap) /\ volume'[v].content = snapshot[handler[h].snap].content
    <3>1. handler[h].pc # "create"
      BY <1>0, <2>2, <2>3 DEF StepsFit, Fits, Restored
    <3> QED
      BY <2>2, <3>1
  <2>5. snap[s].phase # "none" /\ handler[h].snap = snap[s].id
    BY <1>0, <2>2, <2>3 DEF CallsAreAsked, Asked, Restored, SnapOf
  <2>6. Settled(s)
    BY <1>0, <2>5, SnapKept
  <2>7. snap[s].id \in SnapIds /\ snap[s].id.volume = claim[SourceOf(s)].vol
    BY <1>0, <2>5, SnapFacts
  <2>8. VolumeExists(claim[SourceOf(s)].vol)
    BY <2>4, <2>5, <2>7 DEF SnapshotsHaveVolumes
  <2>9. claim[n].since # NoContent
    BY <1>0, <2>2, <2>3, <2>6, <2>8 DEF CallsRestore
  <2>10. snap[s].phase = "ready" => snapshot[snap[s].id].content = claim[n].since
    BY <1>0, <2>4, <2>5, <2>6, <2>9 DEF SnapshotsStay
  <2> QED
    BY <2>2, <2>4, <2>5, <2>9, <2>10
<1> QED
  BY <1>2, <1>3

LEMMA RestoresHoldStep ==
    ASSUME Base, Belonging, CallsRestore, RestoredAreWhole, RestoresHold, Next
    PROVE  RestoresHold'
<1> SUFFICES ASSUME NEW n \in Names, claim'[n].phase = "bound", Restored(n),
                    NEW s, s = SnapOf(n), Settled(s)'
             PROVE  /\ claim'[n].since # NoContent
                    /\ volume'[claim'[n].vol].content.root = claim'[n].since.root
                    /\ claim'[n].since.writes <= volume'[claim'[n].vol].content.writes
  BY DEF RestoresHold
<1>0. TypeInv /\ Known /\ OwnershipInv /\ CallsAreAsked /\ GivenUpAreLate /\ s \in Snaps
  BY Restores DEF Base, ContentInv, Belonging
<1>1. claim[n].since \in Contents \cup {NoContent}
  BY <1>0 DEF TypeInv, CoInv, ClaimStates
<1>2. claim[n].since # NoContent => claim'[n].since = claim[n].since
  BY <1>0, FoundOnce
<1>3. CASE claim[n].phase = "bound"
  <2> DEFINE v == claim[n].vol
  <2>1. snap[s].phase # "none"
    BY <1>3 DEF Belonging, ClaimsBelong, Belongs, Restored, SnapOf
  <2>2. Settled(s)
    BY <1>0, <2>1, SnapKept
  <2>3. /\ claim[n].since # NoContent /\ volume[v].content.root = claim[n].since.root
        /\ claim[n].since.writes <= volume[v].content.writes
    BY <1>3, <2>2 DEF RestoresHold
  <2>4. /\ claim'[n].vol = v /\ volume[v].content \in Contents /\ volume'[v].content \in Contents
        /\ volume'[v].content.root = volume[v].content.root
        /\ volume[v].content.writes <= volume'[v].content.writes
    BY <1>0, <1>3, CurrentStep
  <2>5. \A a, b, d \in Contents : a.writes <= b.writes /\ b.writes <= d.writes => a.writes <= d.writes
    BY DEF Contents
  <2> QED
    BY <1>1, <1>2, <2>3, <2>4, <2>5
<1>4. CASE claim[n].phase # "bound"
  <2>1. PICK h \in Handlers : BoundBy(h, n)
    BY <1>0, <1>4, PhaseStep
  <2>2. /\ handler[h].op = "CreateVolume" /\ handler[h].obj = n /\ handler[h].pc = "reply"
        /\ handler[h].live /\ claim'[n].vol = handler[h].vol /\ UNCHANGED volume
    BY <2>1 DEF BoundBy, Reply, nsVars
  <2>3. claim[n].phase = "unbound" /\ VolumeExists(handler[h].vol) /\ snap[s].phase = "ready"
    BY <1>0, <2>2 DEF OwnershipInv, CreatesAreUnbound, AnswersAreTrue, CallsRestore
  <2>4. handler[h].vol \in VolIds /\ handler[h].vol.name = n
    <3>1. handler[h].vol = [config |-> handler[h].vol.config, name |-> handler[h].obj] /\ handler[h].vol \in VolIds
      BY <1>0, <2>2, RecordType DEF GoodHandler
    <3> QED
      BY <2>2, <3>1
  <2>5. Settled(s)
    BY <1>0, <2>3, SnapKept
  <2>6. claim[n].since # NoContent /\ volume[handler[h].vol].content = claim[n].since
    BY <2>3, <2>4, <2>5 DEF RestoredAreWhole
  <2>7. claim[n].since.writes <= claim[n].since.writes
    BY <1>1, <2>6 DEF Contents
  <2> QED
    BY <1>2, <2>2, <2>6, <2>7
<1> QED
  BY <1>3, <1>4

LEMMA RestoreInit == Init => ClonesHold /\ RestoreInv
<1> SUFFICES ASSUME Init PROVE ClonesHold /\ RestoreInv
  OBVIOUS
<1>1. \A n \in Names : claim[n].phase = "unbound" /\ claim[n].since = NoContent
  BY DEF Init
<1>2. \A s \in Snaps : snap[s].phase = "none"
  BY DEF Init
<1>3. /\ \A v \in VolIds : ~VolumeExists(v)
      /\ \A x \in SnapIds : ~SnapshotExists(x)
      /\ \A h \in Handlers : handler[h].op = "none"
  BY DEF Init, NsInit, Idle, VolumeExists, SnapshotExists
<1> QED
  BY <1>1, <1>2, <1>3 DEF ClonesHold, RestoreInv, SnapshotsHaveVolumes, ReadyAreThere, SnapshotsStay,
     CallsRestore, RestoredAreWhole, RestoresHold

LEMMA RestoreStutter ==
    ASSUME ClonesHold, RestoreInv, UNCHANGED vars
    PROVE  ClonesHold' /\ RestoreInv'
<1> USE DEF vars, nsVars, RestoreInv, VolumeExists, SnapshotExists, Settled
<1>1. ClonesHold' /\ SnapshotsHaveVolumes' /\ RestoresHold'
  BY DEF ClonesHold, SnapshotsHaveVolumes, RestoresHold
<1>2. ReadyAreThere' /\ SnapshotsStay'
  BY DEF ReadyAreThere, SnapshotsStay
<1>3. CallsRestore' /\ RestoredAreWhole'
  BY DEF CallsRestore, RestoredAreWhole
<1> QED
  BY <1>1, <1>2, <1>3

\* What a bound claim asked for is what its volume holds.
LEMMA AskedIsHeld ==
    ASSUME Base, ClonesHold, Belonging, RestoresHold
    PROVE  ContentAsRequested
<1> SUFFICES ASSUME NEW n \in Names, claim[n].phase = "bound"
             PROVE  LET held == volume[claim[n].vol].content  since == claim[n].since IN
                    IF Claim[n].source.kind = "none" THEN held.root = n
                    ELSE ~SourceRemade(n) =>
                           since # NoContent /\ held.root = since.root /\ held.writes >= since.writes
  BY DEF ContentAsRequested
<1> DEFINE v == claim[n].vol
<1>1. v \in VolIds /\ v.name = n /\ VolumeExists(v)
  BY DEF Base, TypeInv, CoInv, GoodClaim, OwnershipInv, BoundVolumesExist
<1>2. volume[v].content \in Contents /\ claim[n].since \in Contents \cup {NoContent}
  BY <1>1, ContentTypes DEF Base, TypeInv, CoInv, ClaimStates
<1>3. \A a, b \in Contents : a.writes <= b.writes => b.writes >= a.writes
  BY DEF Contents
<1>4. CASE Kind(n) = "none"
  <2>1. AsRequested(v)
    BY <1>1 DEF Base, ContentInv, VolumesAreAsRequested
  <2> HIDE DEF v
  <2>2. volume[v].content.root = n
    BY <1>1, <1>4, <2>1 DEF AsRequested
  <2> QED
    BY <1>4, <2>2 DEF v, Kind
<1>5. CASE Kind(n) = "volume"
  <2>1. /\ claim[n].since # NoContent /\ volume[v].content.root = claim[n].since.root
        /\ claim[n].since.writes <= volume[v].content.writes
    BY <1>5 DEF ClonesHold
  <2> HIDE DEF v
  <2>2. volume[v].content.writes >= claim[n].since.writes
    BY <1>2, <1>3, <2>1
  <2> QED
    BY <1>5, <2>1, <2>2 DEF v, Kind
<1>6. CASE Kind(n) = "snapshot"
  <2> SUFFICES ASSUME ~SourceRemade(n)
               PROVE  /\ claim[n].since # NoContent /\ volume[v].content.root = claim[n].since.root
                      /\ volume[v].content.writes >= claim[n].since.writes
    BY <1>6 DEF Kind
  <2> DEFINE s == SnapOf(n)
  <2>0. Restored(n)
    BY <1>6 DEF Restored
  <2>1. s \in Snaps /\ Claim[n].source.kind = "snapshot" /\ Claim[n].source.of = s
    BY <2>0, Restores
  <2>2. snap[s].phase # "none"
    BY <1>6 DEF Belonging, ClaimsBelong, Belongs, SnapOf
  <2>3. Settled(s)
    <3>1. SourceOf(s) = SnapClaim[s].volume /\ claim[SourceOf(s)].phase # "unbound"
      BY <2>1, <2>2, SnapFacts, SnapRequests
    <3> HIDE DEF s
    <3> QED
      BY <2>1, <3>1 DEF Settled, SourceRemade
  <2>4. /\ claim[n].since # NoContent /\ volume[v].content.root = claim[n].since.root
        /\ claim[n].since.writes <= volume[v].content.writes
    BY <2>0, <2>3 DEF RestoresHold
  <2> HIDE DEF v
  <2> QED
    BY <1>2, <1>3, <2>4
<1> QED
  BY <1>4, <1>5, <1>6, Kinds

\* A volume holds what its claim asked for: nothing, what its source held when
\* CreateVolume was first called, or what the snapshot it restores held then.  The
\* snapshot may be deleted, moved to a clone or go with its volume meanwhile, and
\* what is created again in its place is not taken for it.
THEOREM ContentsAreKept == Spec => []ContentAsRequested
<1>1. Base /\ Belonging /\ ClonesHold /\ RestoreInv /\ [Next]_vars => ClonesHold' /\ RestoreInv'
  <2>1. ASSUME Base, Belonging, ClonesHold, RestoreInv, Next PROVE ClonesHold' /\ RestoreInv'
    <3>1. TypeInv /\ GivenUpAreLate
      BY <2>1 DEF Base, Belonging
    <3> QED
      BY <2>1, <3>1, HoldStep, HostsStep, ReadyThereStep, SnapshotsStayStep, CallsRestoreStep,
         RestoredStep, RestoresHoldStep DEF RestoreInv
  <2> QED
    BY <2>1, RestoreStutter
<1>2. Base /\ Belonging /\ ClonesHold /\ RestoreInv => ContentAsRequested
  BY AskedIsHeld DEF RestoreInv
<1> QED
  BY <1>1, <1>2, Basis, BelongingHolds, RestoreInit, PTL DEF Spec

=============================================================================
