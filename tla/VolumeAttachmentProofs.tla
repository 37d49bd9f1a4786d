----------------------- MODULE VolumeAttachmentProofs -----------------------
(***************************************************************************)
(* Proofs about VolumeAttachment, for every number of nodes, volumes,      *)
(* devices, addresses, handlers and failures, and any timeouts.  First the *)
(* types; then the invariant of detaching; then, on top of it, the names   *)
(* of devices, who works on a volume, what a quiet node holds for it, and  *)
(* what is written there.                                                  *)
(***************************************************************************)
EXTENDS VolumeAttachment, TLAPS

-----------------------------------------------------------------------------
(* The typing invariant.                                                   *)

\* A call takes the steps of its operation, and knows its node and volume; the sleeps
\* of the wait so far come to one less than the next.
Good(r) ==
  /\ r.pc = "idle" => r = Idle
  /\ r.pc # "idle" => r.node \in Nodes /\ r.volume \in Volumes
  /\ r.pc \in StagePcs => r.op = "Stage"
  /\ r.pc \in PublishPcs => r.op = "Publish"
  /\ r.pc \in UnpublishPcs => r.op = "Unpublish"
  /\ r.pc \in UnstagePcs => r.op = "Unstage"
  /\ r.pc \in DetachPcs => r.op = "Detach"
  /\ r.pc \in {"map", "stat"} => r.waited = 0
  /\ r.pc = "wait" => r.sleep \in 1 .. 2 * ISCSITimeout /\ r.waited = r.sleep - 1

HandlersInv ==
  /\ handler \in [Handlers -> Local]
  /\ \A h \in Handlers : Good(handler[h])

PathsInv ==
  /\ staging \in [Nodes -> [Volumes -> PathStates]]
  /\ target \in [Nodes -> [Volumes -> PathStates]]

WorldInv ==
  /\ mapping \subseteq Mappings
  /\ disk \in [Volumes -> {"empty", "formatted", "written", "lost"}]
  /\ device \in [Nodes -> [Devices -> Addresses \cup {None}]]
  /\ PathsInv
  /\ phase \in [Nodes -> [Volumes -> Phases]]
  /\ excused \subseteq Nodes
  /\ faults \in 0 .. MaxFaults

TypeInv == HandlersInv /\ WorldInv

-----------------------------------------------------------------------------
(* Handlers.                                                               *)

\* A call goes on, for the same volume on the same node.
Same(r, old) ==
  /\ r.op = old.op /\ r.node = old.node /\ r.volume = old.volume
  /\ r.live \in {old.live, FALSE}

\* ControllerUnpublishVolume comes to its answer only when the volume has no mapping, or
\* its node is excused.
Answers(h) ==
  handler'[h].op = "Detach" /\ handler'[h].pc = "reply" =>
    handler[h].pc = "reply" \/ LunsOf(h) = {} \/ handler[h].node \in excused'

GoesOn(h) == handler'[h] = Idle \/ (Same(handler'[h], handler[h]) /\ Answers(h))

Moves(h) == GoesOn(h) /\ \A g \in Handlers \ {h} : handler'[g] = handler[g]

\* The updates handlers make of their state stay in its type, ...
LEMMA LocalUpdates ==
  ASSUME NEW old \in Local, NEW pc \in Pcs
  PROVE  /\ [old EXCEPT !.pc = pc] \in Local
         /\ \A d \in Devices \cup {None} : /\ [old EXCEPT !.dev = d, !.pc = pc] \in Local
                                        /\ [old EXCEPT !.pc = pc, !.dev = d] \in Local
         /\ \A a \in Addresses \cup {None} : [old EXCEPT !.pc = pc, !.at = a] \in Local
         /\ \A sleep \in Nat :
              /\ [old EXCEPT !.pc = pc, !.sleep = sleep] \in Local
              /\ \A d \in Devices \cup {None} :
                   [old EXCEPT !.pc = pc, !.sleep = sleep, !.seen = d] \in Local
         /\ \A luns \in SUBSET Mappings : [old EXCEPT !.pc = pc, !.luns = luns] \in Local
<1>1. [old EXCEPT !.pc = pc] \in Local
  BY Zenon DEF Local
<1>2. ASSUME NEW d \in Devices \cup {None} PROVE [old EXCEPT !.dev = d, !.pc = pc] \in Local
  BY Zenon DEF Local
<1>3. ASSUME NEW d \in Devices \cup {None} PROVE [old EXCEPT !.pc = pc, !.dev = d] \in Local
  BY Zenon DEF Local
<1>4. ASSUME NEW a \in Addresses \cup {None} PROVE [old EXCEPT !.pc = pc, !.at = a] \in Local
  BY Zenon DEF Local
<1>5. ASSUME NEW sleep \in Nat PROVE [old EXCEPT !.pc = pc, !.sleep = sleep] \in Local
  BY Zenon DEF Local
<1>6. ASSUME NEW sleep \in Nat, NEW d \in Devices \cup {None}
      PROVE  [old EXCEPT !.pc = pc, !.sleep = sleep, !.seen = d] \in Local
  BY Zenon DEF Local
<1>7. ASSUME NEW luns \in SUBSET Mappings PROVE [old EXCEPT !.pc = pc, !.luns = luns] \in Local
  BY Zenon DEF Local
<1> QED
  BY <1>1, <1>2, <1>3, <1>4, <1>5, <1>6, <1>7

\* ... those of a wait, a list of mappings and a call given up as well, ...
LEMMA LocalKeepsPc ==
  ASSUME NEW old \in Local
  PROVE  /\ \A waited, sleep \in Nat : [old EXCEPT !.waited = waited, !.sleep = sleep] \in Local
         /\ \A sleep \in Nat : [old EXCEPT !.sleep = sleep] \in Local
         /\ \A luns \in SUBSET Mappings : [old EXCEPT !.luns = luns] \in Local
         /\ [old EXCEPT !.live = FALSE] \in Local
<1>1. ASSUME NEW waited \in Nat, NEW sleep \in Nat
      PROVE  [old EXCEPT !.waited = waited, !.sleep = sleep] \in Local
  BY Zenon DEF Local
<1>2. ASSUME NEW sleep \in Nat PROVE [old EXCEPT !.sleep = sleep] \in Local
  BY Zenon DEF Local
<1>3. ASSUME NEW luns \in SUBSET Mappings PROVE [old EXCEPT !.luns = luns] \in Local
  BY Zenon DEF Local
<1>4. [old EXCEPT !.live = FALSE] \in Local
  BY Zenon DEF Local
<1> QED
  BY <1>1, <1>2, <1>3, <1>4

\* ... and those of a device found and of a new call.
LEMMA LocalFound ==
  ASSUME NEW old \in Local, NEW pc \in Pcs, NEW d \in Devices
  PROVE  [old EXCEPT !.dev = d, !.at = None, !.seen = None, !.sleep = 0, !.waited = 0, !.pc = pc]
           \in Local
<1>1. 0 \in Nat /\ d \in Devices \cup {None} /\ None \in Devices \cup {None}
      /\ None \in Addresses \cup {None}
  OBVIOUS
<1> QED
  BY <1>1, Zenon DEF Local

LEMMA LocalCalled ==
  ASSUME NEW old \in Local, NEW op \in Ops, NEW pc \in Pcs, NEW n \in Nodes, NEW v \in Volumes
  PROVE  [old EXCEPT !.op = op, !.pc = pc, !.node = n, !.volume = v, !.live = TRUE] \in Local
BY Zenon DEF Local

LEMMA PcsKnown ==
  /\ StagePcs \subseteq Pcs /\ PublishPcs \subseteq Pcs /\ UnpublishPcs \subseteq Pcs
  /\ UnstagePcs \subseteq Pcs /\ DetachPcs \subseteq Pcs /\ "idle" \in Pcs /\ "reply" \in Pcs
BY DEF Pcs

LEMMA IdleGood == Idle \in Local /\ Good(Idle)
<1>1. /\ Idle.op = "none" /\ Idle.pc = "idle" /\ Idle.node = None /\ Idle.volume = None
      /\ Idle.at = None /\ Idle.dev = None /\ Idle.seen = None /\ Idle.sleep = 0
      /\ Idle.waited = 0 /\ Idle.luns = {} /\ Idle.live = FALSE
  BY DEF Idle
<1>2. Idle \in Local
  BY PcsKnown DEF Idle, Local
<1> QED
  BY <1>1, <1>2 DEF Good, StagePcs, PublishPcs, UnpublishPcs, UnstagePcs, DetachPcs

LEMMA IdleFields ==
  Idle.op = "none" /\ Idle.pc = "idle" /\ Idle.node = None /\ Idle.volume = None /\ Idle.live = FALSE
BY DEF Idle

\* What is known of a handler at work.
LEMMA AtWork ==
  ASSUME TypeInv, NEW h \in Handlers, handler[h].pc # "idle"
  PROVE  /\ HandlersInv /\ handler[h] \in Local /\ Good(handler[h])
         /\ Node(h) \in Nodes /\ Volume(h) \in Volumes
BY DEF TypeInv, HandlersInv, Good, Node, Volume

LEMMA PutMoves ==
  ASSUME HandlersInv, NEW h \in Handlers, NEW r \in Local, Good(r), Put(h, r),
         Same(r, handler[h]),
         r.op = "Detach" /\ r.pc = "reply" =>
           handler[h].pc = "reply" \/ LunsOf(h) = {} \/ handler[h].node \in excused'
  PROVE  HandlersInv' /\ Moves(h) /\ handler'[h] = r
<1>1. \A g \in Handlers : handler'[g] = IF g = h THEN r ELSE handler[g]
  BY DEF HandlersInv, Put
<1>2. handler' \in [Handlers -> Local]
  BY DEF HandlersInv, Put
<1>3. HandlersInv'
  BY <1>1, <1>2 DEF HandlersInv
<1> QED
  BY <1>1, <1>3 DEF Moves, GoesOn, Answers

LEMMA ReturnMoves ==
  ASSUME HandlersInv, NEW h \in Handlers, Return(h)
  PROVE  HandlersInv' /\ Moves(h) /\ handler'[h] = Idle
<1>1. \A g \in Handlers : handler'[g] = IF g = h THEN Idle ELSE handler[g]
  BY DEF HandlersInv, Put, Return
<1>2. handler' \in [Handlers -> Local]
  BY IdleGood DEF HandlersInv, Put, Return
<1>3. HandlersInv'
  BY <1>1, <1>2, IdleGood DEF HandlersInv
<1> QED
  BY <1>1, <1>3 DEF Moves, GoesOn

\* A step to another of the same operation, or to the answer of another than Detach.
SameOp(pc, old) ==
  \/ old \in StagePcs /\ pc \in (StagePcs \ {"map", "stat", "wait"}) \cup {"reply"}
  \/ old \in PublishPcs /\ pc \in PublishPcs \cup {"reply"}
  \/ old \in UnpublishPcs /\ pc \in UnpublishPcs \cup {"reply"}
  \/ old \in UnstagePcs /\ pc \in UnstagePcs \cup {"reply"}
  \/ old \in DetachPcs /\ pc \in DetachPcs

LEMMA GoodStep ==
  ASSUME HandlersInv, NEW h \in Handlers, NEW r \in Local, SameOp(r.pc, handler[h].pc),
         Same(r, handler[h])
  PROVE  Good(r) /\ (r.op = "Detach" => r.pc # "reply")
<1>1. Good(handler[h])
  BY DEF HandlersInv
<1> QED
  BY <1>1 DEF Good, Same, SameOp, StagePcs, PublishPcs, UnpublishPcs, UnstagePcs, DetachPcs

LEMMA StepMoves ==
  ASSUME HandlersInv, NEW h \in Handlers, NEW r \in Local, SameOp(r.pc, handler[h].pc),
         Same(r, handler[h]), Put(h, r)
  PROVE  HandlersInv' /\ Moves(h) /\ handler'[h] = r
BY GoodStep, PutMoves

LEMMA GotoMoves ==
  ASSUME HandlersInv, NEW h \in Handlers, NEW pc \in Pcs, SameOp(pc, handler[h].pc), Goto(h, pc)
  PROVE  HandlersInv' /\ Moves(h)
<1> DEFINE r == [handler[h] EXCEPT !.pc = pc]
<1>1. handler[h] \in Local
  BY DEF HandlersInv
<1>2. r \in Local /\ r.pc = pc /\ Same(r, handler[h])
  <2>1. r \in Local
    BY <1>1, LocalUpdates
  <2> QED
    BY <1>1, <2>1 DEF Local, Same
<1>3. Put(h, r)
  BY DEF Goto
<1> HIDE DEF r
<1>4. SameOp(r.pc, handler[h].pc)
  BY <1>2
<1> QED
  BY <1>2, <1>3, <1>4, StepMoves

-----------------------------------------------------------------------------
(* Paths.                                                                  *)

LEMMA PathKinds ==
  ASSUME TypeInv, NEW n \in Nodes, NEW d \in Devices \cup {None}, NEW p \in PathStates
  PROVE  /\ NoPath \in PathStates /\ Dir \in PathStates /\ LinkTo(d) \in PathStates
         /\ d # None => MountOf(n, d) \in PathStates
         /\ [p EXCEPT !.at = None] \in PathStates
<1>1. NoPath \in PathStates /\ Dir \in PathStates /\ LinkTo(d) \in PathStates
  BY DEF NoPath, Dir, LinkTo, PathStates
<1>2. ASSUME d # None PROVE MountOf(n, d) \in PathStates
  <2>1. device[n][d] \in Addresses \cup {None}
    BY <1>2 DEF TypeInv, WorldInv
  <2> QED
    BY <2>1 DEF MountOf, PathStates
<1>3. [p EXCEPT !.at = None] \in PathStates
  BY DEF PathStates
<1> QED
  BY <1>1, <1>2, <1>3

AllPaths == [Nodes -> [Volumes -> PathStates]]

LEMMA PathSet ==
  ASSUME NEW paths \in AllPaths, NEW h \in Handlers, Node(h) \in Nodes, Volume(h) \in Volumes,
         NEW p \in PathStates
  PROVE  SetPath(paths, h, p) \in AllPaths
BY DEF SetPath, AllPaths

LEMMA PathAt ==
  ASSUME TypeInv, NEW h \in Handlers, Node(h) \in Nodes, Volume(h) \in Volumes
  PROVE  /\ staging \in AllPaths /\ target \in AllPaths
         /\ staging[Node(h)][Volume(h)] \in PathStates /\ target[Node(h)][Volume(h)] \in PathStates
BY DEF TypeInv, WorldInv, PathsInv, AllPaths

LEMMA PathsGood ==
  ASSUME staging' \in AllPaths, target' \in AllPaths
  PROVE  PathsInv'
BY DEF PathsInv, AllPaths

\* What a handler leaves alone while it works on paths only.
LEMMA OnlyPaths ==
  ASSUME TypeInv, NEW h \in Handlers, NEW pc, At(h, pc),
         UNCHANGED <<mapping, disk, device, phase>>, PathsInv'
  PROVE  WorldInv'
BY DEF TypeInv, WorldInv, At

LEMMA OnlyLocals ==
  ASSUME TypeInv, NEW h \in Handlers, NEW pc, At(h, pc),
         UNCHANGED <<mapping, disk, kernel, phase>>
  PROVE  WorldInv'
BY DEF TypeInv, WorldInv, At, kernel, PathsInv

-----------------------------------------------------------------------------
(* NodeStageVolume.                                                        *)

LEMMA MapMoves ==
  ASSUME TypeInv, NEW h \in Handlers, Map(h)
  PROVE  TypeInv' /\ Moves(h)
<1>1. handler[h].pc = "map" /\ At(h, "map")
  BY DEF Map, At
<1>2. /\ HandlersInv /\ handler[h] \in Local /\ Good(handler[h])
      /\ Node(h) \in Nodes /\ Volume(h) \in Volumes
  BY <1>1, AtWork
<1> DEFINE r(a) == [handler[h] EXCEPT !.pc = "stat", !.at = a]
<1>3. ASSUME NEW a \in Addresses, Put(h, r(a)) PROVE HandlersInv' /\ Moves(h)
  <2>1. /\ r(a) \in Local /\ r(a).pc = "stat" /\ Same(r(a), handler[h])
        /\ r(a).waited = handler[h].waited
    <3>1. "stat" \in Pcs /\ a \in Addresses \cup {None}
      BY DEF Pcs, StagePcs
    <3>2. r(a) \in Local
      BY <1>2, <3>1, LocalUpdates
    <3> QED
      BY <1>2, <3>2 DEF Local, Same
  <2>2. Put(h, r(a))
    BY <1>3
  <2> HIDE DEF r
  <2>3. Good(r(a))
    BY <1>1, <1>2, <2>1 DEF Good, Same, StagePcs, PublishPcs, UnpublishPcs, UnstagePcs, DetachPcs
  <2> QED
    BY <1>2, <2>1, <2>2, <2>3, PutMoves
<1>4. \A m \in mapping : m.at \in Addresses
  BY DEF TypeInv, WorldInv, Mappings
<1>5. \/ \E a \in Addresses : Put(h, r(a))
      \/ Return(h)
  BY <1>4 DEF Map
<1> HIDE DEF r
<1>6. HandlersInv' /\ Moves(h)
  BY <1>2, <1>3, <1>5, ReturnMoves
<1>7. mapping' \subseteq Mappings
  <2>1. \A a \in Addresses : [volume |-> Volume(h), node |-> Node(h), at |-> a] \in Mappings
    BY <1>2 DEF Mappings
  <2>2. mapping' = mapping \/ \E a \in Addresses :
          mapping' = mapping \cup {[volume |-> Volume(h), node |-> Node(h), at |-> a]}
    BY DEF Map
  <2>3. mapping \subseteq Mappings
    BY DEF TypeInv, WorldInv
  <2> QED
    BY <2>1, <2>2, <2>3
<1>8. UNCHANGED <<disk, device, staging, target, phase, excused, faults>>
  BY <1>1 DEF Map, At, kernel
<1> QED
  BY <1>6, <1>7, <1>8 DEF TypeInv, WorldInv, PathsInv

LEMMA StatPathMoves ==
  ASSUME TypeInv, NEW h \in Handlers, StatPath(h)
  PROVE  TypeInv' /\ Moves(h)
<1> DEFINE p == staging[Node(h)][Volume(h)]
           seen == IF p.is = "mount" THEN p.dev ELSE None
           r == [handler[h] EXCEPT !.pc = "wait", !.sleep = 1, !.seen = seen]
<1>1. /\ handler[h].pc = "stat" /\ At(h, "stat") /\ Put(h, r)
      /\ UNCHANGED <<mapping, disk, kernel, phase>>
  BY DEF StatPath, At
<1>2. /\ HandlersInv /\ handler[h] \in Local /\ Good(handler[h])
      /\ Node(h) \in Nodes /\ Volume(h) \in Volumes
  BY <1>1, AtWork
<1>3. seen \in Devices \cup {None}
  BY <1>2, PathAt DEF PathStates
<1> HIDE DEF seen
<1>4. /\ r \in Local /\ r.pc = "wait" /\ r.sleep = 1 /\ Same(r, handler[h])
      /\ r.waited = handler[h].waited
  <2>1. "wait" \in Pcs
    BY DEF Pcs, StagePcs
  <2>2. 1 \in Nat
    OBVIOUS
  <2>3. r \in Local
    BY <1>2, <1>3, <2>1, <2>2, LocalUpdates
  <2> QED
    BY <1>2, <1>3, <2>3 DEF Local, Same
<1>5. handler[h].op = "Stage" /\ handler[h].waited = 0
  BY <1>1, <1>2 DEF Good, StagePcs
<1>6. 1 \in 1 .. 2 * ISCSITimeout
  BY WaitAssumption
<1> HIDE DEF r
<1>7. r.sleep \in 1 .. 2 * ISCSITimeout /\ r.waited = r.sleep - 1
  BY <1>4, <1>5, <1>6
<1>8. Good(r)
  BY <1>1, <1>2, <1>4, <1>5, <1>7 DEF Good, Same, StagePcs, PublishPcs, UnpublishPcs, UnstagePcs,
     DetachPcs
<1> QED
  BY <1>1, <1>2, <1>4, <1>8, PutMoves, OnlyLocals DEF TypeInv

LEMMA DeviceFoundMoves ==
  ASSUME TypeInv, NEW h \in Handlers, DeviceFound(h)
  PROVE  TypeInv' /\ Moves(h) /\ handler'[h].pc # "idle"
<1> DEFINE pc(d) == IF handler[h].seen = d THEN "reply" ELSE IF IsBlock(h) THEN "link" ELSE "blkid"
           r(d) == [handler[h] EXCEPT !.dev = d, !.at = None, !.seen = None, !.sleep = 0,
                      !.waited = 0, !.pc = pc(d)]
<1>1. /\ handler[h].pc = "wait" /\ At(h, "wait")
      /\ UNCHANGED <<mapping, disk, kernel, phase>>
  BY DEF DeviceFound, At
<1>2. PICK d \in Devices : Put(h, r(d))
  BY DEF DeviceFound
<1>3. HandlersInv /\ handler[h] \in Local
  BY <1>1, AtWork
<1>4. pc(d) \in {"reply", "link", "blkid"}
  OBVIOUS
<1> HIDE DEF pc
<1>5. r(d) \in Local /\ Same(r(d), handler[h]) /\ r(d).pc = pc(d)
  <2>1. pc(d) \in Pcs
    BY <1>4 DEF Pcs, StagePcs
  <2>2. r(d) \in Local
    BY <1>3, <1>4, <2>1, LocalFound
  <2> QED
    BY <1>3, <1>4, <2>2 DEF Local, Same
<1>6. SameOp(r(d).pc, handler[h].pc)
  BY <1>1, <1>4, <1>5 DEF SameOp, StagePcs
<1>7. r(d).pc # "idle"
  BY <1>4, <1>5
<1> HIDE DEF r
<1> QED
  BY <1>1, <1>2, <1>3, <1>5, <1>6, <1>7, StepMoves, OnlyLocals DEF TypeInv

LEMMA SleepMoves ==
  ASSUME TypeInv, NEW h \in Handlers, Sleep(h)
  PROVE  TypeInv' /\ Moves(h) /\ handler'[h].pc # "idle"
<1> DEFINE r == [handler[h] EXCEPT !.waited = @ + handler[h].sleep, !.sleep = 2 * @]
<1>1. /\ handler[h].pc = "wait" /\ At(h, "wait") /\ Put(h, r)
      /\ handler[h].sleep <= ISCSITimeout /\ UNCHANGED <<mapping, disk, kernel, phase>>
  BY DEF Sleep, At
<1>2. HandlersInv /\ handler[h] \in Local /\ Good(handler[h])
  BY <1>1, AtWork
<1>3. handler[h].sleep \in Nat /\ handler[h].waited \in Nat
  BY <1>2 DEF Local
<1>4. handler[h].waited + handler[h].sleep \in Nat /\ 2 * handler[h].sleep \in Nat
  BY <1>3
<1>5. /\ r \in Local /\ r.pc = handler[h].pc /\ r.sleep = 2 * handler[h].sleep
      /\ r.waited = handler[h].waited + handler[h].sleep /\ Same(r, handler[h])
  <2>1. r \in Local
    BY <1>2, <1>4, LocalKeepsPc
  <2> QED
    BY <1>2, <1>4, <2>1 DEF Local, Same
<1>6. /\ handler[h].op = "Stage" /\ handler[h].waited = handler[h].sleep - 1
      /\ handler[h].sleep >= 1
  BY <1>1, <1>2, <1>3 DEF Good, StagePcs
<1>7. r.sleep \in 1 .. 2 * ISCSITimeout /\ r.waited = r.sleep - 1
  BY <1>1, <1>3, <1>5, <1>6, WaitAssumption
<1> HIDE DEF r
<1>8. Good(r)
  BY <1>1, <1>2, <1>5, <1>6, <1>7 DEF Good, Same, StagePcs, PublishPcs, UnpublishPcs,
     UnstagePcs, DetachPcs
<1>9. r.pc # "reply"
  BY <1>1, <1>5
<1> QED
  BY <1>1, <1>2, <1>5, <1>8, <1>9, PutMoves, OnlyLocals DEF TypeInv

LEMMA DeadlineMoves ==
  ASSUME TypeInv, NEW h \in Handlers, DeadlineExceeded(h)
  PROVE  TypeInv' /\ Moves(h)
BY ReturnMoves, OnlyLocals DEF DeadlineExceeded, TypeInv

LEMMA LinkMoves ==
  ASSUME TypeInv, NEW h \in Handlers, Link(h)
  PROVE  TypeInv' /\ Moves(h)
<1>1. /\ handler[h].pc = "link" /\ At(h, "link")
      /\ UNCHANGED <<mapping, disk, device, target, phase>>
  BY DEF Link, At
<1>2. /\ HandlersInv /\ handler[h] \in Local /\ Node(h) \in Nodes /\ Volume(h) \in Volumes
      /\ handler[h].dev \in Devices \cup {None} /\ staging \in AllPaths /\ target \in AllPaths
  BY <1>1, AtWork, PathAt DEF Local
<1>3. SameOp("reply", handler[h].pc) /\ "reply" \in Pcs
  BY <1>1 DEF SameOp, StagePcs, Pcs
<1>4. HandlersInv' /\ Moves(h)
  BY <1>2, <1>3, ReturnMoves, GotoMoves DEF Link
<1>5. staging' \in AllPaths
  <2>1. LinkTo(handler[h].dev) \in PathStates
    BY <1>2 DEF LinkTo, PathStates
  <2> QED
    BY <1>2, <2>1, PathSet DEF Link
<1> QED
  BY <1>1, <1>2, <1>4, <1>5, PathsGood, OnlyPaths DEF TypeInv

LEMMA BlkidMoves ==
  ASSUME TypeInv, NEW h \in Handlers, Blkid(h)
  PROVE  TypeInv' /\ Moves(h)
<1> DEFINE pc == IF HasFileSystem(h) THEN "mount" ELSE "format"
<1>1. /\ handler[h].pc = "blkid" /\ At(h, "blkid") /\ Goto(h, pc)
      /\ UNCHANGED <<mapping, disk, kernel, phase>>
  BY DEF Blkid, At
<1>2. SameOp(pc, handler[h].pc) /\ pc \in Pcs
  BY <1>1 DEF SameOp, StagePcs, Pcs
<1> HIDE DEF pc
<1> QED
  BY <1>1, <1>2, AtWork, GotoMoves, OnlyLocals DEF TypeInv

LEMMA FormatMoves ==
  ASSUME TypeInv, NEW h \in Handlers, Format(h)
  PROVE  TypeInv' /\ Moves(h)
<1>1. /\ handler[h].pc = "format" /\ At(h, "format")
  BY DEF Format, At
<1>2. SameOp("mount", handler[h].pc) /\ "mount" \in Pcs
  BY DEF SameOp, StagePcs, Pcs, Format, At
<1>3. HandlersInv' /\ Moves(h)
  BY <1>2, ReturnMoves, GotoMoves DEF TypeInv, Format
<1>4. disk' \in [Volumes -> {"empty", "formatted", "written", "lost"}]
  BY DEF Format, TypeInv, WorldInv
<1>5. UNCHANGED <<mapping, device, staging, target, phase, excused, faults>>
  BY DEF Format, At, kernel
<1> QED
  BY <1>3, <1>4, <1>5 DEF TypeInv, WorldInv, PathsInv

LEMMA MountedPaths ==
  ASSUME TypeInv, NEW h \in Handlers, handler[h].pc # "idle", NEW paths \in AllPaths, NEW after,
         \/ after = paths
         \/ HasFileSystem(h) /\ after = SetPath(paths, h, MountOf(Node(h), handler[h].dev))
         \/ after = SetPath(paths, h, Dir)
  PROVE  after \in AllPaths
<1>1. /\ Node(h) \in Nodes /\ Volume(h) \in Volumes /\ handler[h].dev \in Devices \cup {None}
  BY AtWork DEF Local
<1>2. HasFileSystem(h) => handler[h].dev # None
  BY DEF HasFileSystem, ReachedBy
<1>3. /\ HasFileSystem(h) => MountOf(Node(h), handler[h].dev) \in PathStates
      /\ Dir \in PathStates
  BY <1>1, <1>2, PathKinds DEF Dir, PathStates
<1> QED
  BY <1>1, <1>3, PathSet

LEMMA MountMoves ==
  ASSUME TypeInv, NEW h \in Handlers, Mount(h) \/ MountTarget(h)
  PROVE  TypeInv' /\ Moves(h)
<1> DEFINE pc == handler[h].pc
<1>1. /\ pc \in {"mount", "mountTarget"} /\ At(h, pc)
      /\ UNCHANGED <<mapping, disk, device, phase>>
  BY DEF Mount, MountTarget, At
<1>2. /\ HandlersInv /\ Node(h) \in Nodes /\ Volume(h) \in Volumes
      /\ staging \in AllPaths /\ target \in AllPaths
  BY <1>1, AtWork, PathAt
<1>3. SameOp("reply", pc) /\ "reply" \in Pcs
  BY <1>1 DEF SameOp, StagePcs, PublishPcs, Pcs
<1>4. Goto(h, "reply") \/ Return(h)
  BY DEF Mount, MountTarget, Mounted
<1>5. HandlersInv' /\ Moves(h)
  BY <1>2, <1>3, <1>4, ReturnMoves, GotoMoves
<1>6. staging' \in AllPaths /\ target' \in AllPaths
  <2>1. CASE Mount(h)
    <3>1. /\ target' = target
          /\ \/ staging' = staging
             \/ HasFileSystem(h) /\ staging' = SetPath(staging, h, MountOf(Node(h), handler[h].dev))
             \/ staging' = SetPath(staging, h, Dir)
      BY <2>1 DEF Mount, Mounted
    <3> QED
      BY <1>1, <1>2, <3>1, MountedPaths
  <2>2. CASE MountTarget(h)
    <3>1. /\ staging' = staging
          /\ \/ target' = target
             \/ HasFileSystem(h) /\ target' = SetPath(target, h, MountOf(Node(h), handler[h].dev))
             \/ target' = SetPath(target, h, Dir)
      BY <2>2 DEF MountTarget, Mounted
    <3> QED
      BY <1>1, <1>2, <3>1, MountedPaths
  <2> QED
    BY <2>1, <2>2
<1> QED
  BY <1>1, <1>5, <1>6, PathsGood, OnlyPaths DEF TypeInv

LEMMA StageMoves ==
  ASSUME TypeInv, NEW h \in Handlers, StageStep(h)
  PROVE  TypeInv' /\ Moves(h)
BY MapMoves, StatPathMoves, DeviceFoundMoves, SleepMoves, DeadlineMoves, LinkMoves, BlkidMoves,
   FormatMoves, MountMoves DEF StageStep

-----------------------------------------------------------------------------
(* NodePublishVolume, NodeUnpublishVolume and NodeUnstageVolume.           *)

LEMMA FindStagedMoves ==
  ASSUME TypeInv, NEW h \in Handlers, FindStaged(h)
  PROVE  TypeInv' /\ Moves(h)
<1> DEFINE d == staging[Node(h)][Volume(h)].dev
           pc == IF IsBlock(h) THEN "linkTarget" ELSE "mountTarget"
           r == [handler[h] EXCEPT !.dev = d, !.pc = pc]
<1>1. /\ handler[h].pc = "findStaged" /\ At(h, "findStaged") /\ (Put(h, r) \/ Return(h))
      /\ UNCHANGED <<mapping, disk, kernel, phase>>
  BY DEF FindStaged, At
<1>2. /\ HandlersInv /\ handler[h] \in Local /\ d \in Devices \cup {None}
  BY <1>1, AtWork, PathAt DEF PathStates
<1>3. pc \in {"linkTarget", "mountTarget"}
  OBVIOUS
<1> HIDE DEF d, pc
<1>4. r \in Local /\ r.pc = pc /\ Same(r, handler[h])
  <2>1. pc \in Pcs
    BY <1>3 DEF Pcs, PublishPcs
  <2>2. r \in Local
    BY <1>2, <1>3, <2>1, LocalUpdates
  <2> QED
    BY <1>2, <1>3, <2>2 DEF Local, Same
<1>5. SameOp(r.pc, handler[h].pc)
  BY <1>1, <1>3, <1>4 DEF SameOp, PublishPcs
<1> HIDE DEF r
<1> QED
  BY <1>1, <1>2, <1>4, <1>5, StepMoves, ReturnMoves, OnlyLocals DEF TypeInv

LEMMA LinkTargetMoves ==
  ASSUME TypeInv, NEW h \in Handlers, LinkTarget(h)
  PROVE  TypeInv' /\ Moves(h)
<1>1. /\ handler[h].pc = "linkTarget" /\ At(h, "linkTarget")
      /\ UNCHANGED <<mapping, disk, device, staging, phase>>
  BY DEF LinkTarget, At
<1>2. /\ HandlersInv /\ handler[h] \in Local /\ Node(h) \in Nodes /\ Volume(h) \in Volumes
      /\ handler[h].dev \in Devices \cup {None} /\ staging \in AllPaths /\ target \in AllPaths
  BY <1>1, AtWork, PathAt DEF Local
<1>3. SameOp("reply", handler[h].pc) /\ "reply" \in Pcs
  BY <1>1 DEF SameOp, PublishPcs, Pcs
<1>4. HandlersInv' /\ Moves(h)
  BY <1>2, <1>3, ReturnMoves, GotoMoves DEF LinkTarget
<1>5. target' \in AllPaths
  <2>1. LinkTo(handler[h].dev) \in PathStates
    BY <1>2 DEF LinkTo, PathStates
  <2> QED
    BY <1>2, <2>1, PathSet DEF LinkTarget
<1> QED
  BY <1>1, <1>2, <1>4, <1>5, PathsGood, OnlyPaths DEF TypeInv

LEMMA CheckTargetMoves ==
  ASSUME TypeInv, NEW h \in Handlers, CheckTarget(h)
  PROVE  TypeInv' /\ Moves(h)
<1> DEFINE p == target[Node(h)][Volume(h)]
           pc == CASE p.is = "mount" -> "unmountTarget"
                   [] p.is = "link" /\ device[Node(h)][p.dev] # None -> "unmountTarget"
                   [] p.is = "dir" -> "removeDir"
                   [] OTHER -> "reply"
<1>1. /\ handler[h].pc = "checkTarget" /\ At(h, "checkTarget") /\ Goto(h, pc)
      /\ UNCHANGED <<mapping, disk, kernel, phase>>
  BY DEF CheckTarget, At
<1>2. pc \in {"unmountTarget", "removeDir", "reply"}
  OBVIOUS
<1> HIDE DEF pc
<1>3. SameOp(pc, handler[h].pc) /\ pc \in Pcs
  BY <1>1, <1>2 DEF SameOp, UnpublishPcs, Pcs
<1> QED
  BY <1>1, <1>3, AtWork, GotoMoves, OnlyLocals DEF TypeInv

LEMMA UnmountMoves ==
  ASSUME TypeInv, NEW h \in Handlers, UnmountTarget(h) \/ UnmountStaging(h)
  PROVE  TypeInv' /\ Moves(h)
<1> DEFINE pc == handler[h].pc
<1>1. /\ At(h, pc) /\ UNCHANGED <<mapping, disk, device, phase>>
      /\ \/ pc = "unmountTarget" /\ Goto(h, "removeTarget")
         \/ pc = "unmountStaging" /\ Goto(h, "removeDevice")
  BY DEF UnmountTarget, UnmountStaging, At
<1>2. /\ HandlersInv /\ Node(h) \in Nodes /\ Volume(h) \in Volumes
      /\ staging \in AllPaths /\ target \in AllPaths
  BY <1>1, AtWork, PathAt
<1>3. /\ pc = "unmountTarget" => SameOp("removeTarget", pc)
      /\ pc = "unmountStaging" => SameOp("removeDevice", pc)
  BY DEF SameOp, UnpublishPcs, UnstagePcs
<1>4. "removeTarget" \in Pcs /\ "removeDevice" \in Pcs
  BY DEF UnpublishPcs, UnstagePcs, Pcs
<1>5. HandlersInv' /\ Moves(h)
  BY <1>1, <1>2, <1>3, <1>4, GotoMoves
<1>6. staging' \in AllPaths /\ target' \in AllPaths
  BY <1>2, PathSet DEF UnmountTarget, UnmountStaging, Unmounted, Dir, PathStates
<1> QED
  BY <1>1, <1>5, <1>6, PathsGood, OnlyPaths DEF TypeInv

\* The disks, after files were removed or not.
LEMMA EmptiedGood ==
  ASSUME TypeInv, NEW h \in Handlers, NEW path, disk' = disk \/ disk' = Emptied(h, path)
  PROVE  disk' \in [Volumes -> {"empty", "formatted", "written", "lost"}]
BY DEF Emptied, TypeInv, WorldInv

LEMMA RemoveMoves ==
  ASSUME TypeInv, NEW h \in Handlers, RemoveTarget(h) \/ RemoveDir(h) \/ RemoveStaging(h)
  PROVE  TypeInv' /\ Moves(h)
<1> DEFINE pc == handler[h].pc
<1>1. /\ pc \in {"removeTarget", "removeDir", "removeStaging"} /\ At(h, pc)
      /\ UNCHANGED <<mapping, device, phase>> /\ (Goto(h, "reply") \/ Return(h))
  BY DEF RemoveTarget, RemoveDir, RemoveStaging, Removed, At
<1>2. /\ HandlersInv /\ Node(h) \in Nodes /\ Volume(h) \in Volumes
      /\ staging \in AllPaths /\ target \in AllPaths
  BY <1>1, AtWork, PathAt
<1>3. SameOp("reply", pc) /\ "reply" \in Pcs
  BY <1>1 DEF SameOp, UnpublishPcs, UnstagePcs, Pcs
<1>4. HandlersInv' /\ Moves(h)
  BY <1>1, <1>2, <1>3, GotoMoves, ReturnMoves
<1>5. staging' \in AllPaths /\ target' \in AllPaths
  BY <1>2, PathSet DEF RemoveTarget, RemoveDir, RemoveStaging, Removed, NoPath, PathStates
<1>6. disk' \in [Volumes -> {"empty", "formatted", "written", "lost"}]
  BY EmptiedGood DEF RemoveTarget, RemoveDir, RemoveStaging, Removed
<1>7. PathsInv'
  BY <1>5, PathsGood
<1> QED
  BY <1>1, <1>4, <1>6, <1>7 DEF TypeInv, WorldInv, At

LEMMA FindDeviceMoves ==
  ASSUME TypeInv, NEW h \in Handlers, FindDevice(h)
  PROVE  TypeInv' /\ Moves(h)
<1> DEFINE d == staging[Node(h)][Volume(h)].dev
           pc == IF IsBlock(h) THEN "removeDevice" ELSE "unmountStaging"
           r == [handler[h] EXCEPT !.dev = d, !.pc = pc]
<1>1. /\ handler[h].pc = "findDevice" /\ At(h, "findDevice") /\ Put(h, r)
      /\ UNCHANGED <<mapping, disk, kernel, phase>>
  BY DEF FindDevice, At
<1>2. /\ HandlersInv /\ handler[h] \in Local /\ d \in Devices \cup {None}
  BY <1>1, AtWork, PathAt DEF PathStates
<1>3. pc \in {"removeDevice", "unmountStaging"}
  OBVIOUS
<1> HIDE DEF d, pc
<1>4. r \in Local /\ r.pc = pc /\ Same(r, handler[h])
  <2>1. pc \in Pcs
    BY <1>3 DEF Pcs, UnstagePcs
  <2>2. r \in Local
    BY <1>2, <1>3, <2>1, LocalUpdates
  <2> QED
    BY <1>2, <1>3, <2>2 DEF Local, Same
<1>5. SameOp(r.pc, handler[h].pc)
  BY <1>1, <1>3, <1>4 DEF SameOp, UnstagePcs
<1> HIDE DEF r
<1> QED
  BY <1>1, <1>2, <1>4, <1>5, StepMoves, OnlyLocals DEF TypeInv

LEMMA DetachedPaths ==
  ASSUME NEW paths \in AllPaths, NEW n \in Nodes, NEW d
  PROVE  Detached(paths, n, d) \in AllPaths
<1> DEFINE row == [v \in Volumes |->
     IF paths[n][v].is = "mount" /\ paths[n][v].dev = d
     THEN [paths[n][v] EXCEPT !.at = None] ELSE paths[n][v]]
<1>1. ASSUME NEW v \in Volumes PROVE row[v] \in PathStates
  <2>1. paths[n][v] \in PathStates
    BY DEF AllPaths
  <2>2. [paths[n][v] EXCEPT !.at = None] \in PathStates
    BY <2>1 DEF PathStates
  <2> QED
    BY <2>1, <2>2
<1>2. row \in [Volumes -> PathStates]
  BY <1>1
<1>3. Detached(paths, n, d) = [paths EXCEPT ![n] = row]
  BY DEF Detached
<1> HIDE DEF row
<1> QED
  BY <1>2, <1>3 DEF AllPaths

LEMMA RemoveDeviceMoves ==
  ASSUME TypeInv, NEW h \in Handlers, RemoveDevice(h)
  PROVE  TypeInv' /\ Moves(h)
<1> DEFINE r == [handler[h] EXCEPT !.pc = "removeStaging", !.dev = None]
<1>1. /\ handler[h].pc = "removeDevice" /\ At(h, "removeDevice") /\ Put(h, r)
      /\ UNCHANGED <<mapping, disk, phase>>
  BY DEF RemoveDevice, At
<1>2. /\ HandlersInv /\ handler[h] \in Local /\ Node(h) \in Nodes /\ Volume(h) \in Volumes
      /\ staging \in AllPaths /\ target \in AllPaths
  BY <1>1, AtWork, PathAt
<1>3. r \in Local /\ r.pc = "removeStaging" /\ Same(r, handler[h])
  <2>1. "removeStaging" \in Pcs
    BY DEF Pcs, UnstagePcs
  <2>2. None \in Devices \cup {None}
    OBVIOUS
  <2>3. r \in Local
    BY <1>2, <2>1, <2>2, LocalUpdates
  <2> QED
    BY <1>2, <2>3 DEF Local, Same
<1>4. SameOp(r.pc, handler[h].pc)
  BY <1>1, <1>3 DEF SameOp, UnstagePcs
<1> HIDE DEF r
<1>5. HandlersInv' /\ Moves(h)
  BY <1>1, <1>2, <1>3, <1>4, StepMoves
<1>6. staging' \in AllPaths /\ target' \in AllPaths
  BY <1>2, DetachedPaths DEF RemoveDevice, kernel
<1>7. device' \in [Nodes -> [Devices -> Addresses \cup {None}]]
  BY DEF RemoveDevice, kernel, TypeInv, WorldInv
<1>8. PathsInv'
  BY <1>6, PathsGood
<1> QED
  BY <1>1, <1>5, <1>7, <1>8 DEF TypeInv, WorldInv, At

LEMMA OnNodeMoves ==
  ASSUME TypeInv, NEW h \in Handlers, PublishStep(h) \/ UnstageStep(h)
  PROVE  TypeInv' /\ Moves(h)
BY FindStagedMoves, LinkTargetMoves, MountMoves, CheckTargetMoves, UnmountMoves, RemoveMoves,
   FindDeviceMoves, RemoveDeviceMoves DEF PublishStep, UnstageStep

-----------------------------------------------------------------------------
(* ControllerUnpublishVolume, and the answer.                              *)

LEMMA GetLunsMoves ==
  ASSUME TypeInv, NEW h \in Handlers, GetLuns(h)
  PROVE  TypeInv' /\ Moves(h)
<1> DEFINE luns == LunsOf(h)
           r == [handler[h] EXCEPT !.pc = "destroyLuns", !.luns = luns]
<1>1. /\ handler[h].pc = "getLuns" /\ At(h, "getLuns") /\ Put(h, r)
      /\ UNCHANGED <<mapping, disk, kernel, phase>>
  BY DEF GetLuns, At
<1>2. /\ HandlersInv /\ handler[h] \in Local /\ luns \subseteq Mappings
  BY <1>1, AtWork DEF LunsOf, TypeInv, WorldInv
<1> HIDE DEF luns
<1>3. r \in Local /\ r.pc = "destroyLuns" /\ Same(r, handler[h])
  <2>1. "destroyLuns" \in Pcs
    BY DEF Pcs, DetachPcs
  <2>2. luns \in SUBSET Mappings
    BY <1>2
  <2>3. r \in Local
    BY <1>2, <2>1, <2>2, LocalUpdates
  <2> QED
    BY <1>2, <2>3 DEF Local, Same
<1>4. SameOp(r.pc, handler[h].pc)
  BY <1>1, <1>3 DEF SameOp, DetachPcs
<1> HIDE DEF r
<1> QED
  BY <1>1, <1>2, <1>3, <1>4, StepMoves, OnlyLocals DEF TypeInv

LEMMA DestroyLunMoves ==
  ASSUME TypeInv, NEW h \in Handlers, DestroyLun(h)
  PROVE  TypeInv' /\ Moves(h)
<1> DEFINE r(m) == [handler[h] EXCEPT !.luns = @ \ {m}]
<1>1. /\ handler[h].pc = "destroyLuns" /\ At(h, "destroyLuns")
      /\ UNCHANGED <<disk, kernel, phase>>
  BY DEF DestroyLun, At
<1>2. PICK m \in handler[h].luns :
        IF m \in mapping THEN mapping' = mapping \ {m} /\ Put(h, r(m))
        ELSE Return(h) /\ UNCHANGED mapping
  BY DEF DestroyLun
<1>3. HandlersInv /\ handler[h] \in Local
  BY <1>1, AtWork
<1>4. handler[h].luns \ {m} \subseteq Mappings
  BY <1>3 DEF Local
<1>5. r(m) \in Local /\ r(m).pc = handler[h].pc /\ Same(r(m), handler[h])
  <2>1. r(m) \in Local
    BY <1>3, <1>4, LocalKeepsPc
  <2> QED
    BY <1>3, <1>4, <2>1 DEF Local, Same
<1>6. SameOp(r(m).pc, handler[h].pc)
  BY <1>1, <1>5 DEF SameOp, DetachPcs
<1> HIDE DEF r
<1>7. HandlersInv' /\ Moves(h) /\ mapping' \subseteq mapping
  BY <1>2, <1>3, <1>5, <1>6, StepMoves, ReturnMoves
<1> QED
  BY <1>1, <1>7 DEF TypeInv, WorldInv, At, kernel, PathsInv

LEMMA LunsDestroyedMoves ==
  ASSUME TypeInv, NEW h \in Handlers, LunsDestroyed(h)
  PROVE  TypeInv' /\ Moves(h)
<1> DEFINE r == [handler[h] EXCEPT !.pc = "verify", !.sleep = 2]
<1>1. /\ handler[h].pc = "destroyLuns" /\ At(h, "destroyLuns") /\ Put(h, r)
      /\ UNCHANGED <<mapping, disk, kernel, phase>>
  BY DEF LunsDestroyed, At
<1>2. HandlersInv /\ handler[h] \in Local
  BY <1>1, AtWork
<1>3. r \in Local /\ r.pc = "verify" /\ Same(r, handler[h])
  <2>1. "verify" \in Pcs
    BY DEF Pcs, DetachPcs
  <2>2. 2 \in Nat
    OBVIOUS
  <2>3. r \in Local
    BY <1>2, <2>1, <2>2, LocalUpdates
  <2> QED
    BY <1>2, <2>3 DEF Local, Same
<1>4. SameOp(r.pc, handler[h].pc)
  BY <1>1, <1>3 DEF SameOp, DetachPcs
<1> HIDE DEF r
<1> QED
  BY <1>1, <1>2, <1>3, <1>4, StepMoves, OnlyLocals DEF TypeInv

\* A call goes to its answer, when Answers allows it.
LEMMA AnswerMoves ==
  ASSUME TypeInv, NEW h \in Handlers, handler[h].pc # "idle", Goto(h, "reply"),
         LunsOf(h) = {} \/ handler[h].node \in excused'
  PROVE  HandlersInv' /\ Moves(h)
<1> DEFINE r == [handler[h] EXCEPT !.pc = "reply"]
<1>1. HandlersInv /\ handler[h] \in Local /\ Good(handler[h]) /\ Put(h, r)
  BY AtWork DEF Goto
<1>2. "reply" \in Pcs
  BY DEF Pcs
<1>3. r \in Local /\ r.pc = "reply" /\ Same(r, handler[h])
  <2>1. r \in Local
    BY <1>1, <1>2, LocalUpdates
  <2> QED
    BY <1>1, <1>2, <2>1 DEF Local, Same
<1> HIDE DEF r
<1>4. Good(r)
  BY <1>1, <1>3 DEF Good, Same, StagePcs, PublishPcs, UnpublishPcs, UnstagePcs, DetachPcs
<1> QED
  BY <1>1, <1>3, <1>4, PutMoves

LEMMA VerifyMoves ==
  ASSUME TypeInv, NEW h \in Handlers, Verify(h)
  PROVE  TypeInv' /\ Moves(h)
<1> DEFINE r == [handler[h] EXCEPT !.sleep = @ + 1]
<1>1. /\ handler[h].pc = "verify" /\ At(h, "verify")
      /\ UNCHANGED <<mapping, disk, kernel, phase>>
      /\ \/ LunsOf(h) = {} /\ Goto(h, "reply")
         \/ Put(h, r)
         \/ Return(h)
  BY DEF Verify, At
<1>2. HandlersInv /\ handler[h] \in Local
  BY <1>1, AtWork
<1>3. handler[h].sleep + 1 \in Nat
  BY <1>2 DEF Local
<1>4. r \in Local /\ r.pc = handler[h].pc /\ Same(r, handler[h])
  <2>1. r \in Local
    BY <1>2, <1>3, LocalKeepsPc
  <2> QED
    BY <1>2, <1>3, <2>1 DEF Local, Same
<1>5. SameOp(r.pc, handler[h].pc)
  BY <1>1, <1>4 DEF SameOp, DetachPcs
<1> HIDE DEF r
<1>6. HandlersInv' /\ Moves(h)
  BY <1>1, <1>2, <1>4, <1>5, StepMoves, ReturnMoves, AnswerMoves
<1> QED
  BY <1>1, <1>6, OnlyLocals DEF TypeInv

LEMMA ReplyMoves ==
  ASSUME TypeInv, NEW h \in Handlers, Reply(h)
  PROVE  TypeInv' /\ Moves(h) /\ handler'[h] = Idle
<1>1. /\ handler[h].pc = "reply" /\ Return(h)
      /\ UNCHANGED <<mapping, disk, device, staging, excused, faults>>
  BY DEF Reply, At
<1>2. /\ HandlersInv /\ Node(h) \in Nodes /\ Volume(h) \in Volumes
      /\ staging \in AllPaths /\ target \in AllPaths
  BY <1>1, AtWork, PathAt
<1>3. HandlersInv' /\ Moves(h) /\ handler'[h] = Idle
  BY <1>1, <1>2, ReturnMoves
<1>4. staging' \in AllPaths /\ target' \in AllPaths
  BY <1>1, <1>2, PathSet DEF Reply, NoPath, PathStates
<1>5. Answered(handler[h].op) \in Phases
  BY DEF Answered, Phases
<1>6. phase' \in [Nodes -> [Volumes -> Phases]]
  <2>1. \/ phase' = phase
        \/ phase' = SetPath(phase, h, Answered(handler[h].op))
    BY DEF Reply, SetPath
  <2>2. phase \in [Nodes -> [Volumes -> Phases]]
    BY DEF TypeInv, WorldInv
  <2> QED
    BY <1>5, <2>1, <2>2 DEF SetPath
<1>7. PathsInv'
  BY <1>4, PathsGood
<1> QED
  BY <1>1, <1>3, <1>6, <1>7 DEF TypeInv, WorldInv

LEMMA HandlerMoves ==
  ASSUME TypeInv, NEW h \in Handlers, HandlerStep(h)
  PROVE  TypeInv' /\ Moves(h)
BY StageMoves, OnNodeMoves, GetLunsMoves, DestroyLunMoves, LunsDestroyedMoves, VerifyMoves,
   ReplyMoves DEF HandlerStep, DetachStep

-----------------------------------------------------------------------------
(* Faults.                                                                 *)

LEMMA FaultCounted ==
  ASSUME TypeInv, Fault
  PROVE  faults' \in 0 .. MaxFaults /\ faults' # faults
BY FaultAssumption DEF Fault, TypeInv, WorldInv

LEMMA FailMoves ==
  ASSUME TypeInv, NEW h \in Handlers, Fail(h)
  PROVE  TypeInv' /\ Moves(h)
<1>1. /\ handler[h].pc # "idle" /\ Put(h, AfterFailure(h))
      /\ UNCHANGED <<mapping, disk, kernel, phase>>
  BY DEF Fail
<1>2. HandlersInv /\ handler[h] \in Local /\ Node(h) \in Nodes
  BY <1>1, AtWork
<1>3. \/ AfterFailure(h) = Idle
      \/ \E pc \in Pcs : SameOp(pc, handler[h].pc)
                            /\ AfterFailure(h) = [handler[h] EXCEPT !.pc = pc]
  <2>1. /\ handler[h].pc = "blkid" => SameOp("format", handler[h].pc)
        /\ handler[h].pc = "findDevice" => /\ SameOp("removeDevice", handler[h].pc)
                                           /\ SameOp("unmountStaging", handler[h].pc)
        /\ handler[h].pc = "unmountStaging" => SameOp("removeDevice", handler[h].pc)
        /\ handler[h].pc = "removeDevice" => SameOp("removeStaging", handler[h].pc)
        /\ handler[h].pc = "removeDir" => SameOp("reply", handler[h].pc)
    BY DEF SameOp, StagePcs, UnpublishPcs, UnstagePcs
  <2>2. {"format", "removeDevice", "unmountStaging", "removeStaging", "reply"} \subseteq Pcs
    BY DEF Pcs, StagePcs, UnpublishPcs, UnstagePcs
  <2> QED
    BY <2>1, <2>2 DEF AfterFailure
<1>4. HandlersInv' /\ Moves(h)
  <2>1. CASE AfterFailure(h) = Idle
    BY <1>1, <1>2, <2>1, ReturnMoves DEF Return
  <2>2. ASSUME NEW pc \in Pcs, SameOp(pc, handler[h].pc),
               AfterFailure(h) = [handler[h] EXCEPT !.pc = pc]
        PROVE  HandlersInv' /\ Moves(h)
    BY <1>1, <1>2, <2>2, GotoMoves DEF Goto
  <2> QED
    BY <1>3, <2>1, <2>2
<1>5. excused' \subseteq Nodes
  BY <1>2 DEF Fail, TypeInv, WorldInv
<1>6. faults' \in 0 .. MaxFaults
  BY FaultCounted DEF Fail
<1> QED
  BY <1>1, <1>4, <1>5, <1>6 DEF TypeInv, WorldInv, kernel, PathsInv

LEMMA NotFoundMoves ==
  ASSUME TypeInv, NEW h \in Handlers, ResolveNotFound(h)
  PROVE  TypeInv' /\ Moves(h)
<1>1. /\ handler[h].pc # "idle" /\ Goto(h, "reply") /\ excused' = excused \cup {Node(h)}
      /\ UNCHANGED <<mapping, disk, kernel, phase>>
  BY DEF ResolveNotFound
<1>2. Node(h) \in Nodes /\ Node(h) = handler[h].node
  BY <1>1, AtWork DEF Node
<1>3. HandlersInv' /\ Moves(h)
  BY <1>1, <1>2, AnswerMoves
<1>4. faults' \in 0 .. MaxFaults
  BY FaultCounted DEF ResolveNotFound
<1> QED
  BY <1>1, <1>2, <1>3, <1>4 DEF TypeInv, WorldInv, kernel, PathsInv

LEMMA AbandonMoves ==
  ASSUME TypeInv, NEW h \in Handlers, AbandonCall(h)
  PROVE  TypeInv' /\ Moves(h)
<1> DEFINE r == [handler[h] EXCEPT !.live = FALSE]
<1>1. /\ handler[h].live /\ Put(h, r)
      /\ UNCHANGED <<mapping, disk, kernel, phase, excused>>
  BY DEF AbandonCall
<1>2. HandlersInv /\ handler[h] \in Local /\ Good(handler[h])
  BY DEF TypeInv, HandlersInv
<1>3. handler[h].pc # "idle"
  BY <1>1, <1>2, IdleFields DEF Good
<1>4. /\ r \in Local /\ r.pc = handler[h].pc /\ Same(r, handler[h])
      /\ r.sleep = handler[h].sleep /\ r.waited = handler[h].waited
  <2>1. r \in Local
    BY <1>2, LocalKeepsPc
  <2> QED
    BY <1>2, <2>1 DEF Local, Same
<1> HIDE DEF r
<1>5. Good(r)
  BY <1>2, <1>3, <1>4 DEF Good, Same
<1>6. HandlersInv' /\ Moves(h)
  BY <1>1, <1>2, <1>4, <1>5, PutMoves
<1>7. faults' \in 0 .. MaxFaults
  BY FaultCounted DEF AbandonCall
<1> QED
  BY <1>1, <1>6, <1>7 DEF TypeInv, WorldInv, kernel, PathsInv

\* All handlers go on at once, in a step of one and in a restart.
AllGoOn == \A g \in Handlers : GoesOn(g)

LEMMA MovesGoOn ==
  ASSUME HandlersInv, NEW h \in Handlers, Moves(h)
  PROVE  AllGoOn
BY DEF AllGoOn, Moves, GoesOn, Same, Answers

LEMMA GoneGoOn ==
  ASSUME HandlersInv, NEW gone, handler' = [h \in Handlers |-> IF h \in gone THEN Idle ELSE handler[h]]
  PROVE  HandlersInv' /\ AllGoOn
<1>1. \A h \in Handlers : handler'[h] = IF h \in gone THEN Idle ELSE handler[h]
  OBVIOUS
<1>2. handler' \in [Handlers -> Local]
  BY IdleGood DEF HandlersInv
<1>3. HandlersInv'
  BY <1>1, <1>2, IdleGood DEF HandlersInv
<1>4. AllGoOn
  BY <1>1 DEF AllGoOn, GoesOn, Same, Answers
<1> QED
  BY <1>3, <1>4

LEMMA RestartGoesOn ==
  ASSUME TypeInv, RestartController \/ \E n \in Nodes : RestartNodePlugin(n)
  PROVE  TypeInv' /\ AllGoOn /\ excused \subseteq excused'
<1>1. PICK gone \in SUBSET Handlers : Restart(gone)
  <2>1. CASE RestartController
    BY <2>1 DEF RestartController
  <2>2. ASSUME NEW n \in Nodes, RestartNodePlugin(n)
        PROVE  \E gone \in SUBSET Handlers : Restart(gone)
    <3>1. Restart({h \in Handlers : ~OnController(h) /\ Node(h) = n})
      BY <2>2 DEF RestartNodePlugin
    <3> QED
      BY <3>1
  <2> QED
    BY <2>1, <2>2
<1>2. Fault /\ UNCHANGED <<mapping, disk, kernel, phase>>
  BY DEF RestartController, RestartNodePlugin
<1>3. HandlersInv' /\ AllGoOn
  BY <1>1, GoneGoOn DEF Restart, TypeInv
<1>4. ASSUME NEW h \in gone, CutShort(h) PROVE Node(h) \in Nodes
  BY <1>4, IdleFields DEF CutShort, TypeInv, HandlersInv, Good, Node
<1>5. excused' \subseteq Nodes /\ excused \subseteq excused'
  BY <1>1, <1>4 DEF Restart, TypeInv, WorldInv
<1>6. faults' \in 0 .. MaxFaults
  BY <1>2, FaultCounted
<1> QED
  BY <1>2, <1>3, <1>5, <1>6 DEF TypeInv, WorldInv, kernel, PathsInv

LEMMA RebootGoesOn ==
  ASSUME TypeInv, NEW n \in Nodes, NodeReboot(n)
  PROVE  TypeInv' /\ AllGoOn /\ excused \subseteq excused'
<1>1. HandlersInv' /\ AllGoOn
  BY GoneGoOn DEF NodeReboot, TypeInv
<1>2. device' \in [Nodes -> [Devices -> Addresses \cup {None}]]
  BY DEF NodeReboot, TypeInv, WorldInv
<1>3. ASSUME NEW p \in PathStates PROVE AfterReboot(p) \in PathStates
  BY DEF AfterReboot, Dir, PathStates
<1>4. staging' \in AllPaths /\ target' \in AllPaths
  BY <1>3 DEF NodeReboot, TypeInv, WorldInv, PathsInv, AllPaths
<1>5. ASSUME NEW p \in Phases PROVE Again(p) \in Phases
  BY DEF Again, Phases
<1>6. phase' \in [Nodes -> [Volumes -> Phases]]
  BY <1>5 DEF NodeReboot, TypeInv, WorldInv
<1>7. excused' \subseteq Nodes /\ excused \subseteq excused'
  BY DEF NodeReboot, TypeInv, WorldInv
<1>8. faults' \in 0 .. MaxFaults /\ PathsInv'
  BY <1>4, FaultCounted, PathsGood DEF NodeReboot
<1> QED
  BY <1>1, <1>2, <1>6, <1>7, <1>8 DEF NodeReboot, TypeInv, WorldInv

-----------------------------------------------------------------------------
(* New calls, and the rest of the environment.                             *)

\* The calls of the CO, with what each begins.
Begun == [Stage |-> "staging", Publish |-> "publishing", Unpublish |-> "unpublishing",
          Unstage |-> "unstaging", Detach |-> "detaching"]
FirstPc == [Stage |-> "map", Publish |-> "findStaged", Unpublish |-> "checkTarget",
            Unstage |-> "findDevice", Detach |-> "getLuns"]
From == [Stage |-> {"attached", "staging"}, Publish |-> {"staged", "publishing"},
         Unpublish |-> {"publishing", "published", "unpublishing"},
         Unstage |-> {"staging", "staged", "unstaging"}, Detach |-> {"attached", "detaching"}]

\* h is called for v on n.
Called(h, n, v, op) ==
  /\ handler[h].pc = "idle" /\ phase[n][v] \in From[op]
  /\ \A g \in Handlers : ~(handler[g].live /\ handler[g].node = n /\ handler[g].volume = v)
  /\ phase' = [phase EXCEPT ![n][v] = Begun[op]]
  /\ handler' = [handler EXCEPT ![h] =
       [Idle EXCEPT !.op = op, !.pc = FirstPc[op], !.node = n, !.volume = v, !.live = TRUE]]
  /\ excused' = IF \E g \in Handlers : handler[g].volume = v THEN excused \cup {n} ELSE excused
  /\ UNCHANGED <<mapping, disk, kernel, faults>>

LEMMA CallsBegin ==
  ASSUME NEW h \in Handlers, NEW n \in Nodes, NEW v \in Volumes, SetUp(h, n, v) \/ TearDown(h, n, v)
  PROVE  \E op \in Ops : Called(h, n, v, op)
<1>1. CASE NodeStageVolume(h, n, v)
  <2>1. Called(h, n, v, "Stage")
    BY <1>1 DEF NodeStageVolume, Call, Called, Begun, FirstPc, From
  <2> QED
    BY <2>1 DEF Ops
<1>2. CASE NodePublishVolume(h, n, v)
  <2>1. Called(h, n, v, "Publish")
    BY <1>2 DEF NodePublishVolume, Call, Called, Begun, FirstPc, From
  <2> QED
    BY <2>1 DEF Ops
<1>3. CASE NodeUnpublishVolume(h, n, v)
  <2>1. Called(h, n, v, "Unpublish")
    BY <1>3 DEF NodeUnpublishVolume, Call, Called, Begun, FirstPc, From
  <2> QED
    BY <2>1 DEF Ops
<1>4. CASE NodeUnstageVolume(h, n, v)
  <2>1. Called(h, n, v, "Unstage")
    BY <1>4 DEF NodeUnstageVolume, Call, Called, Begun, FirstPc, From
  <2> QED
    BY <2>1 DEF Ops
<1>5. CASE ControllerUnpublishVolume(h, n, v)
  <2>1. Called(h, n, v, "Detach")
    BY <1>5 DEF ControllerUnpublishVolume, Call, Called, Begun, FirstPc, From
  <2> QED
    BY <2>1 DEF Ops
<1> QED
  BY <1>1, <1>2, <1>3, <1>4, <1>5 DEF SetUp, TearDown

LEMMA OpFacts ==
  ASSUME NEW op \in Ops
  PROVE  /\ op # "none" /\ Begun[op] \in Phases /\ Begun[op] \notin {"detached", "attached"}
         /\ "detached" \notin From[op]
         /\ FirstPc[op] \in Pcs \ {"idle", "reply", "wait"}
         /\ FirstPc[op] \in StagePcs => op = "Stage"
         /\ FirstPc[op] \in PublishPcs => op = "Publish"
         /\ FirstPc[op] \in UnpublishPcs => op = "Unpublish"
         /\ FirstPc[op] \in UnstagePcs => op = "Unstage"
         /\ FirstPc[op] \in DetachPcs => op = "Detach"
BY DEF Ops, Begun, FirstPc, From, Phases, Pcs, StagePcs, PublishPcs, UnpublishPcs, UnstagePcs, DetachPcs

LEMMA CalledGood ==
  ASSUME TypeInv, NEW h \in Handlers, NEW n \in Nodes, NEW v \in Volumes, NEW op \in Ops,
         Called(h, n, v, op)
  PROVE  /\ TypeInv' /\ excused \subseteq excused'
         /\ \A g \in Handlers \ {h} : handler'[g] = handler[g]
         /\ handler'[h].op = op /\ handler'[h].node = n /\ handler'[h].volume = v
         /\ handler'[h].live = TRUE /\ handler'[h].pc # "reply"
<1> DEFINE pc == FirstPc[op]
           r == [Idle EXCEPT !.op = op, !.pc = pc, !.node = n, !.volume = v, !.live = TRUE]
<1>1. handler' = [handler EXCEPT ![h] = r] /\ handler \in [Handlers -> Local]
  BY DEF Called, TypeInv, HandlersInv
<1>2. pc \in Pcs \ {"idle", "reply", "wait"}
  BY OpFacts
<1> HIDE DEF pc
<1>3. /\ r.op = op /\ r.pc = pc /\ r.node = n /\ r.volume = v /\ r.live = TRUE /\ r.waited = 0
  BY DEF Idle
<1>4. r \in Local
  BY <1>2, IdleGood, LocalCalled
<1> HIDE DEF r
<1>5. Good(r)
  BY <1>2, <1>3, OpFacts DEF Good, pc
<1>6. HandlersInv' /\ handler'[h] = r /\ \A g \in Handlers \ {h} : handler'[g] = handler[g]
  BY <1>1, <1>4, <1>5 DEF TypeInv, HandlersInv
<1>7. phase' \in [Nodes -> [Volumes -> Phases]]
  BY OpFacts DEF Called, TypeInv, WorldInv
<1>8. excused' \subseteq Nodes /\ excused \subseteq excused'
  BY DEF Called, TypeInv, WorldInv
<1>9. UNCHANGED <<mapping, disk, device, staging, target, faults>>
  BY DEF Called, kernel
<1> QED
  BY <1>2, <1>3, <1>6, <1>7, <1>8, <1>9 DEF TypeInv, WorldInv, PathsInv

LEMMA WorldMoves ==
  ASSUME TypeInv,
         \/ \E n \in Nodes, v \in Volumes : ControllerPublishVolume(n, v) \/ Write(n, v)
         \/ \E n \in Nodes, d \in Devices, a \in Addresses : DeviceAppears(n, d, a)
  PROVE  TypeInv' /\ UNCHANGED <<mapping, handler, excused, faults>>
<1>1. ASSUME NEW n \in Nodes, NEW v \in Volumes, ControllerPublishVolume(n, v)
      PROVE  phase' \in [Nodes -> [Volumes -> Phases]]
             /\ UNCHANGED <<mapping, disk, kernel, handler, excused, faults>>
  BY <1>1 DEF ControllerPublishVolume, TypeInv, WorldInv, Phases
<1>2. ASSUME NEW n \in Nodes, NEW v \in Volumes, Write(n, v)
      PROVE  disk' \in [Volumes -> {"empty", "formatted", "written", "lost"}]
             /\ UNCHANGED <<mapping, phase, kernel, handler, excused, faults>>
  BY <1>2 DEF Write, TypeInv, WorldInv
<1>3. ASSUME NEW n \in Nodes, NEW d \in Devices, NEW a \in Addresses, DeviceAppears(n, d, a)
      PROVE  device' \in [Nodes -> [Devices -> Addresses \cup {None}]]
             /\ UNCHANGED <<mapping, disk, staging, target, phase, handler, excused, faults>>
  BY <1>3 DEF DeviceAppears, TypeInv, WorldInv
<1> QED
  BY <1>1, <1>2, <1>3 DEF TypeInv, WorldInv, HandlersInv, kernel, PathsInv

-----------------------------------------------------------------------------
(* The next state, summed up.                                              *)

LEMMA TypeInit ==
  ASSUME Init
  PROVE  TypeInv
<1>1. HandlersInv
  BY IdleGood DEF Init, HandlersInv
<1>2. NoPath \in PathStates
  BY DEF NoPath, PathStates
<1>3. WorldInv
  BY <1>2, FaultAssumption DEF Init, WorldInv, PathsInv, Phases
<1> QED
  BY <1>1, <1>3 DEF TypeInv

LEMMA HandlerKeeps ==
  ASSUME NEW h \in Handlers, HandlerStep(h)
  PROVE  UNCHANGED <<excused, faults>> /\ (Reply(h) \/ UNCHANGED phase)
<1>1. StageStep(h) => UNCHANGED <<excused, faults, phase>>
  BY DEF StageStep, Map, StatPath, DeviceFound, Sleep, DeadlineExceeded, Link, Blkid, Format, Mount, At
<1>2. PublishStep(h) => UNCHANGED <<excused, faults, phase>>
  BY DEF PublishStep, FindStaged, LinkTarget, MountTarget, CheckTarget, UnmountTarget, RemoveTarget,
     RemoveDir, At
<1>3. UnstageStep(h) => UNCHANGED <<excused, faults, phase>>
  BY DEF UnstageStep, FindDevice, UnmountStaging, RemoveDevice, RemoveStaging, At
<1>4. DetachStep(h) => UNCHANGED <<excused, faults, phase>>
  BY DEF DetachStep, GetLuns, DestroyLun, LunsDestroyed, Verify, At
<1>5. Reply(h) => UNCHANGED <<excused, faults>>
  BY DEF Reply, At
<1> QED
  BY <1>1, <1>2, <1>3, <1>4, <1>5 DEF HandlerStep

\* A mapping that is new was made by a NodeStageVolume for its volume and node.
Grows ==
  \A m \in mapping' \ mapping :
    \E h \in Handlers : handler[h].pc = "map" /\ Node(h) = m.node /\ Volume(h) = m.volume

LEMMA HandlerGrows ==
  ASSUME TypeInv, NEW h \in Handlers, HandlerStep(h)
  PROVE  Grows
<1>1. CASE Map(h)
  <2>1. handler[h].pc = "map"
    BY <1>1 DEF Map, At
  <2>2. mapping' = mapping \/ \E a \in Addresses :
          mapping' = mapping \cup {[volume |-> Volume(h), node |-> Node(h), at |-> a]}
    BY <1>1 DEF Map
  <2> QED
    BY <2>1, <2>2 DEF Grows
<1>2. StageStep(h) => Map(h) \/ UNCHANGED mapping
  BY DEF StageStep, StatPath, DeviceFound, Sleep, DeadlineExceeded, Link, Blkid, Format, Mount
<1>3. PublishStep(h) => UNCHANGED mapping
  BY DEF PublishStep, FindStaged, LinkTarget, MountTarget, CheckTarget, UnmountTarget, RemoveTarget,
     RemoveDir
<1>4. UnstageStep(h) => UNCHANGED mapping
  BY DEF UnstageStep, FindDevice, UnmountStaging, RemoveDevice, RemoveStaging
<1>5. DetachStep(h) => mapping' \subseteq mapping
  BY DEF DetachStep, GetLuns, DestroyLun, LunsDestroyed, Verify
<1>6. Reply(h) => UNCHANGED mapping
  BY DEF Reply
<1> QED
  BY <1>1, <1>2, <1>3, <1>4, <1>5, <1>6 DEF HandlerStep, Grows

\* What a step does that begins no call: every handler goes on or returns, mappings
\* are made for those at work, and no excuse is taken back.
Quietly == AllGoOn /\ Grows /\ excused \subseteq excused'

LEMMA StepKinds ==
  ASSUME TypeInv, Next
  PROVE  /\ TypeInv'
         /\ \/ \E h \in Handlers, n \in Nodes, v \in Volumes, op \in Ops : Called(h, n, v, op)
            \/ Quietly /\ \E h \in Handlers : Reply(h)
            \/ Quietly /\ \E n \in Nodes, v \in Volumes : ControllerPublishVolume(n, v)
            \/ Quietly /\ \E n \in Nodes : NodeReboot(n)
            \/ Quietly /\ UNCHANGED phase
<1> DEFINE Goal ==
         /\ TypeInv'
         /\ \/ \E h \in Handlers, n \in Nodes, v \in Volumes, op \in Ops : Called(h, n, v, op)
            \/ Quietly /\ \E h \in Handlers : Reply(h)
            \/ Quietly /\ \E n \in Nodes, v \in Volumes : ControllerPublishVolume(n, v)
            \/ Quietly /\ \E n \in Nodes : NodeReboot(n)
            \/ Quietly /\ UNCHANGED phase
<1>1. ASSUME NEW h \in Handlers, HandlerStep(h) PROVE Goal
  <2>1. TypeInv' /\ AllGoOn
    BY <1>1, HandlerMoves, MovesGoOn DEF TypeInv
  <2>2. Grows /\ UNCHANGED excused /\ (Reply(h) \/ UNCHANGED phase)
    BY <1>1, HandlerGrows, HandlerKeeps
  <2> QED
    BY <2>1, <2>2 DEF Quietly
<1>2. ASSUME NEW h \in Handlers, NEW n \in Nodes, NEW v \in Volumes, SetUp(h, n, v) \/ TearDown(h, n, v)
      PROVE  Goal
  <2>1. PICK op \in Ops : Called(h, n, v, op)
    BY <1>2, CallsBegin
  <2> QED
    BY <2>1, CalledGood
<1>3. ASSUME \/ \E n \in Nodes, v \in Volumes : ControllerPublishVolume(n, v) \/ Write(n, v)
             \/ \E n \in Nodes, d \in Devices, a \in Addresses : DeviceAppears(n, d, a)
      PROVE  Goal
  <2>1. TypeInv' /\ UNCHANGED <<mapping, handler, excused>>
    BY <1>3, WorldMoves
  <2>2. Quietly
    BY <2>1 DEF Quietly, Grows, AllGoOn, GoesOn, Same, Answers
  <2>3. UNCHANGED phase \/ \E n \in Nodes, v \in Volumes : ControllerPublishVolume(n, v)
    BY <1>3 DEF Write, DeviceAppears
  <2> QED
    BY <2>1, <2>2, <2>3
<1>4. ASSUME NEW h \in Handlers, Fail(h) \/ ResolveNotFound(h) \/ AbandonCall(h)
      PROVE  Goal
  <2>1. TypeInv' /\ AllGoOn
    BY <1>4, FailMoves, NotFoundMoves, AbandonMoves, MovesGoOn DEF TypeInv
  <2>2. UNCHANGED <<mapping, phase>> /\ excused \subseteq excused'
    BY <1>4 DEF Fail, ResolveNotFound, AbandonCall
  <2> QED
    BY <2>1, <2>2 DEF Quietly, Grows
<1>5. ASSUME RestartController \/ \E n \in Nodes : RestartNodePlugin(n)
      PROVE  Goal
  <2>1. TypeInv' /\ AllGoOn /\ excused \subseteq excused'
    BY <1>5, RestartGoesOn
  <2>2. UNCHANGED <<mapping, phase>>
    BY <1>5 DEF RestartController, RestartNodePlugin
  <2> QED
    BY <2>1, <2>2 DEF Quietly, Grows
<1>6. ASSUME NEW n \in Nodes, NodeReboot(n)
      PROVE  Goal
  <2>1. TypeInv' /\ AllGoOn /\ excused \subseteq excused'
    BY <1>6, RebootGoesOn
  <2>2. UNCHANGED mapping
    BY <1>6 DEF NodeReboot
  <2> QED
    BY <1>6, <2>1, <2>2 DEF Quietly, Grows
<1> HIDE DEF Goal
<1>7. Goal
  BY <1>1, <1>2, <1>3, <1>4, <1>5, <1>6 DEF Next, Environment
<1> QED
  BY <1>7 DEF Goal

LEMMA TypeStutters ==
  ASSUME TypeInv, UNCHANGED vars
  PROVE  TypeInv'
BY DEF TypeInv, HandlersInv, WorldInv, PathsInv, vars, kernel

LEMMA TypeHolds == Spec => []TypeInv
<1>1. TypeInv /\ [Next]_vars => TypeInv'
  BY StepKinds, TypeStutters
<1> QED
  BY <1>1, TypeInit, PTL DEF Spec

-----------------------------------------------------------------------------
(* The wait for a device.                                                  *)

WaitOver(h) ==
  At(h, "wait") /\ handler'[h].pc = "idle" =>
    ISCSITimeout <= handler[h].waited /\ handler[h].waited < 2 * ISCSITimeout

LEMMA OnlyTheDeadline ==
  ASSUME TypeInv, NEW h \in Handlers, At(h, "wait"), handler'[h].pc = "idle", Next
  PROVE  DeadlineExceeded(h)
<1>1. handler[h].pc = "wait" /\ faults' = faults /\ handler'[h] # handler[h]
  BY DEF At
<1>2. ASSUME NEW g \in Handlers, HandlerStep(g) PROVE DeadlineExceeded(h)
  <2>1. g = h
    BY <1>1, <1>2, HandlerMoves DEF Moves
  <2>2. \/ StatPath(h) \/ Map(h) \/ Link(h) \/ Blkid(h) \/ Format(h) \/ Mount(h)
        \/ PublishStep(h) \/ UnstageStep(h) \/ DetachStep(h) \/ Reply(h)
        => handler[h].pc # "wait"
    BY DEF StatPath, Map, Link, Blkid, Format, Mount, PublishStep, FindStaged, LinkTarget,
       MountTarget, CheckTarget, UnmountTarget, RemoveTarget, RemoveDir, UnstageStep, FindDevice,
       UnmountStaging, RemoveDevice, RemoveStaging, DetachStep, GetLuns, DestroyLun,
       LunsDestroyed, Verify, Reply, At
  <2>3. ~DeviceFound(h) /\ ~Sleep(h)
    BY DeviceFoundMoves, SleepMoves
  <2> QED
    BY <1>1, <1>2, <2>1, <2>2, <2>3 DEF HandlerStep, StageStep
<1>3. ASSUME NEW g \in Handlers, NEW n \in Nodes, NEW v \in Volumes,
             SetUp(g, n, v) \/ TearDown(g, n, v)
      PROVE  FALSE
  <2>1. PICK op \in Ops : Called(g, n, v, op)
    BY <1>3, CallsBegin
  <2>2. g # h
    BY <1>1, <2>1 DEF Called
  <2> QED
    BY <1>1, <2>1, <2>2, CalledGood
<1>4. ASSUME \/ \E n \in Nodes, v \in Volumes : ControllerPublishVolume(n, v) \/ Write(n, v)
             \/ \E n \in Nodes, d \in Devices, a \in Addresses : DeviceAppears(n, d, a)
      PROVE  FALSE
  BY <1>1, <1>4, WorldMoves
<1>5. ASSUME \/ \E g \in Handlers : Fail(g) \/ ResolveNotFound(g) \/ AbandonCall(g)
             \/ RestartController
             \/ \E n \in Nodes : RestartNodePlugin(n) \/ NodeReboot(n)
      PROVE  FALSE
  <2>1. Fault
    BY <1>5 DEF Fail, ResolveNotFound, AbandonCall, RestartController, RestartNodePlugin, NodeReboot
  <2> QED
    BY <1>1, <2>1, FaultCounted
<1> QED
  BY <1>2, <1>3, <1>4, <1>5 DEF Next, Environment

LEMMA DeadlineWaited ==
  ASSUME TypeInv, NEW h \in Handlers, DeadlineExceeded(h)
  PROVE  ISCSITimeout <= handler[h].waited /\ handler[h].waited < 2 * ISCSITimeout
<1>1. handler[h].pc = "wait" /\ handler[h].sleep > ISCSITimeout
  BY DEF DeadlineExceeded, At
<1>2. handler[h].sleep \in 1 .. 2 * ISCSITimeout /\ handler[h].waited = handler[h].sleep - 1
  BY <1>1 DEF TypeInv, HandlersInv, Good
<1> QED
  BY <1>1, <1>2, WaitAssumption

-----------------------------------------------------------------------------
(* The invariant of detaching.                                             *)

\* One live call at a time for a volume on a node.
OneCallEach ==
  \A g, h \in Handlers :
    handler[g].live /\ handler[h].live /\ Node(g) = Node(h) /\ Volume(g) = Volume(h) => g = h

\* The CO waits for what the call was made for.
CallsFitPhase ==
  \A h \in Handlers :
    handler[h].live => handler[h].op \in Ops /\ phase[Node(h)][Volume(h)] = Begun[handler[h].op]

\* On a quiet node no other handler, late ones included, works on the volume of a live call.
CallsAreAlone ==
  \A g, h \in Handlers :
    handler[h].live /\ Quiet(Node(h)) /\ Node(g) = Node(h) /\ Volume(g) = Volume(h) => g = h

Unmapped(n, v) == ~\E m \in mapping : m.volume = v /\ m.node = n

\* A detach about to answer has no mapping left.
DetachesAreTrue ==
  \A h \in Handlers :
    handler[h].live /\ handler[h].op = "Detach" /\ handler[h].pc = "reply" /\ Quiet(Node(h)) =>
      Unmapped(Node(h), Volume(h))

\* Nobody works on a volume that is detached.
DetachedAreLeft ==
  \A n \in Nodes, v \in Volumes :
    Quiet(n) /\ phase[n][v] = "detached" =>
      Unmapped(n, v) /\ \A h \in Handlers : ~(Node(h) = n /\ Volume(h) = v)

CallsInv == OneCallEach /\ CallsFitPhase /\ CallsAreAlone
DetachInv == CallsInv /\ DetachesAreTrue /\ DetachedAreLeft

LEMMA DetachInit ==
  ASSUME Init
  PROVE  DetachInv
<1>1. \A h \in Handlers : handler[h].live = FALSE /\ Node(h) = None
  BY IdleFields DEF Init, Node
<1> QED
  BY <1>1, NoneAssumption DEF Init, DetachInv, CallsInv, OneCallEach, CallsFitPhase, CallsAreAlone,
     DetachesAreTrue, DetachedAreLeft, Unmapped

\* A live handler is at work.
LEMMA LiveIsAtWork ==
  ASSUME TypeInv, NEW h \in Handlers
  PROVE  /\ handler[h].live \in BOOLEAN
         /\ handler[h].live => handler[h].pc # "idle" /\ Node(h) \in Nodes /\ Volume(h) \in Volumes
         /\ Node(h) \in Nodes => Volume(h) \in Volumes /\ handler[h].pc # "idle"
<1>1. handler[h] \in Local /\ Good(handler[h])
  BY DEF TypeInv, HandlersInv
<1> QED
  BY <1>1, IdleFields, NoneAssumption DEF Local, Good, Node, Volume

\* A handler that is about a volume after a quiet step was about it before.
LEMMA WentOn ==
  ASSUME TypeInv, Quietly, NEW h \in Handlers
  PROVE  /\ Node(h)' \in Nodes => /\ Node(h)' = Node(h) /\ Volume(h)' = Volume(h)
                                  /\ handler'[h].op = handler[h].op
         /\ handler'[h].live = TRUE => handler[h].live = TRUE
<1>1. CASE handler'[h] = Idle
  BY <1>1, IdleFields, NoneAssumption DEF Node
<1>2. CASE Same(handler'[h], handler[h])
  BY <1>2 DEF Same, Node, Volume
<1> QED
  BY <1>1, <1>2 DEF Quietly, AllGoOn, GoesOn

\* A live handler after a quiet step.
LEMMA LiveWentOn ==
  ASSUME TypeInv, TypeInv', Quietly, NEW h \in Handlers, (handler[h].live)'
  PROVE  /\ handler[h].live /\ handler'[h] # Idle /\ Node(h)' \in Nodes /\ Node(h) \in Nodes
         /\ Node(h)' = Node(h) /\ Volume(h)' = Volume(h) /\ Volume(h) \in Volumes
         /\ handler'[h].op = handler[h].op
<1>1. handler'[h] \in Local /\ Good(handler'[h])
  BY DEF TypeInv, HandlersInv, Good
<1>2. handler'[h].live = TRUE
  BY <1>1 DEF Local
<1>3. handler'[h].pc # "idle" /\ handler'[h] # Idle
  BY <1>1, <1>2, IdleFields DEF Good
<1>4. Node(h)' \in Nodes
  BY <1>1, <1>3 DEF Good, Node
<1> QED
  BY <1>2, <1>3, <1>4, WentOn, LiveIsAtWork

LEMMA QuietCalls ==
  ASSUME TypeInv, TypeInv', Quietly, DetachInv
  PROVE  OneCallEach' /\ CallsAreAlone'
<1>1. ASSUME NEW h \in Handlers, (handler[h].live)'
      PROVE  /\ handler[h].live /\ Node(h)' \in Nodes
             /\ Node(h)' = Node(h) /\ Volume(h)' = Volume(h)
  BY <1>1, LiveWentOn
<1>2. OneCallEach'
  BY <1>1 DEF OneCallEach, DetachInv, CallsInv
<1>3. ASSUME NEW g \in Handlers, NEW h \in Handlers, (handler[h].live)', Quiet(Node(h))',
             Node(g)' = Node(h)', Volume(g)' = Volume(h)'
      PROVE  g = h
  <2>1. /\ handler[h].live /\ Node(h)' \in Nodes
        /\ Node(h)' = Node(h) /\ Volume(h)' = Volume(h)
    BY <1>1, <1>3
  <2>2. Node(g)' = Node(g) /\ Volume(g)' = Volume(g)
    BY <1>3, <2>1, WentOn
  <2>3. Quiet(Node(h))
    BY <1>3, <2>1 DEF Quiet, Quietly
  <2> QED
    BY <1>3, <2>1, <2>2, <2>3 DEF DetachInv, CallsInv, CallsAreAlone
<1>4. CallsAreAlone'
  BY <1>3 DEF CallsAreAlone
<1> QED
  BY <1>2, <1>4

\* Nobody maps a volume that nobody stages.
LEMMA StaysUnmapped ==
  ASSUME Quietly, NEW n \in Nodes, NEW v \in Volumes, Unmapped(n, v),
         \A g \in Handlers : ~(handler[g].pc = "map" /\ Node(g) = n /\ Volume(g) = v)
  PROVE  Unmapped(n, v)'
BY DEF Quietly, Grows, Unmapped

LEMMA QuietDetaches ==
  ASSUME TypeInv, TypeInv', Quietly, DetachInv
  PROVE  DetachesAreTrue'
<1> SUFFICES ASSUME NEW h \in Handlers, (handler[h].live)', handler'[h].op = "Detach",
                    handler'[h].pc = "reply", Quiet(Node(h))'
             PROVE  Unmapped(Node(h), Volume(h))'
  BY DEF DetachesAreTrue
<1>1. /\ handler[h].live /\ handler'[h] # Idle /\ Node(h) \in Nodes /\ Volume(h) \in Volumes
      /\ Node(h)' = Node(h) /\ Volume(h)' = Volume(h) /\ handler[h].op = "Detach"
  BY LiveWentOn
<1>2. Quiet(Node(h)) /\ handler[h].node \notin excused'
  BY <1>1 DEF Quiet, Quietly, Node
<1>3. handler[h].pc = "reply" \/ LunsOf(h) = {}
  BY <1>1, <1>2 DEF Quietly, AllGoOn, GoesOn, Answers
<1>4. CASE handler[h].pc = "reply"
  <2>1. Unmapped(Node(h), Volume(h))
    BY <1>1, <1>2, <1>4 DEF DetachInv, DetachesAreTrue
  <2>2. \A g \in Handlers : ~(handler[g].pc = "map" /\ Node(g) = Node(h) /\ Volume(g) = Volume(h))
    BY <1>1, <1>2, <1>4 DEF DetachInv, CallsInv, CallsAreAlone
  <2>3. \A m \in mapping' : ~(m.volume = Volume(h) /\ m.node = Node(h))
    BY <2>1, <2>2 DEF Unmapped, Quietly, Grows
  <2> QED
    BY <1>1, <2>3 DEF Unmapped
<1>5. CASE LunsOf(h) = {}
  <2>1. \A m \in mapping : m.volume # Volume(h)
    BY <1>5 DEF LunsOf
  <2>2. handler[h].pc # "map"
    BY <1>1 DEF TypeInv, HandlersInv, Good, StagePcs
  <2>3. \A g \in Handlers : ~(handler[g].pc = "map" /\ Node(g) = Node(h) /\ Volume(g) = Volume(h))
    BY <1>1, <1>2, <2>2 DEF DetachInv, CallsInv, CallsAreAlone
  <2>4. \A m \in mapping' : ~(m.volume = Volume(h) /\ m.node = Node(h))
    BY <2>1, <2>3 DEF Quietly, Grows
  <2> QED
    BY <1>1, <2>4 DEF Unmapped
<1> QED
  BY <1>3, <1>4, <1>5

\* What was detached, and stays so, is left alone.
LEMMA QuietLeft ==
  ASSUME TypeInv, TypeInv', Quietly, DetachInv, NEW n \in Nodes, NEW v \in Volumes,
         phase[n][v] = "detached", Quiet(n)'
  PROVE  Unmapped(n, v)' /\ \A h \in Handlers : ~(Node(h)' = n /\ Volume(h)' = v)
<1>1. Quiet(n)
  BY DEF Quiet, Quietly
<1>2. Unmapped(n, v) /\ \A h \in Handlers : ~(Node(h) = n /\ Volume(h) = v)
  BY <1>1 DEF DetachInv, DetachedAreLeft
<1>3. Unmapped(n, v)'
  BY <1>2, StaysUnmapped
<1> QED
  BY <1>2, <1>3, WentOn

\* A step that detaches nothing.
LEMMA LeftStays ==
  ASSUME TypeInv, TypeInv', Quietly, DetachInv,
         \A n \in Nodes, v \in Volumes : phase'[n][v] = "detached" => phase[n][v] = "detached"
  PROVE  DetachedAreLeft'
BY QuietLeft DEF DetachedAreLeft

LEMMA DetachAnswers ==
  ASSUME NEW op \in Ops, Answered(op) = "detached"
  PROVE  op = "Detach"
BY DEF Ops, Answered

LEMMA ReplyDetach ==
  ASSUME TypeInv, TypeInv', Quietly, DetachInv, NEW h \in Handlers, Reply(h),
         NEW n \in Nodes, NEW v \in Volumes, n = Node(h), v = Volume(h)
  PROVE  CallsFitPhase' /\ DetachedAreLeft'
<1>1. /\ handler[h].pc = "reply" /\ handler'[h] = Idle /\ UNCHANGED mapping
      /\ phase \in [Nodes -> [Volumes -> Phases]]
  BY ReplyMoves DEF Reply, At, TypeInv, WorldInv
<1>2. CASE ~handler[h].live
  <2>1. phase' = phase
    BY <1>2 DEF Reply
  <2>2. CallsFitPhase'
    BY <2>1, LiveWentOn DEF CallsFitPhase, DetachInv, CallsInv
  <2> QED
    BY <2>1, <2>2, LeftStays
<1>3. CASE handler[h].live
  <2>1. phase' = [phase EXCEPT ![n][v] = Answered(handler[h].op)]
    BY <1>3 DEF Reply
  <2>2. \A n2 \in Nodes, v2 \in Volumes :
          phase'[n2][v2] = IF n2 = n /\ v2 = v THEN Answered(handler[h].op) ELSE phase[n2][v2]
    BY <1>1, <2>1
  <2>3. ASSUME NEW g \in Handlers, (handler[g].live)'
        PROVE  handler'[g].op \in Ops /\ phase'[Node(g)'][Volume(g)'] = Begun[handler'[g].op]
    <3>1. /\ handler[g].live /\ Node(g) \in Nodes /\ Volume(g) \in Volumes
          /\ Node(g)' = Node(g) /\ Volume(g)' = Volume(g) /\ handler'[g].op = handler[g].op
          /\ g # h
      BY <1>1, <2>3, LiveWentOn
    <3>2. ~(Node(g) = n /\ Volume(g) = v)
      BY <1>3, <3>1 DEF DetachInv, CallsInv, OneCallEach
    <3> QED
      BY <2>2, <3>1, <3>2 DEF DetachInv, CallsInv, CallsFitPhase
  <2>4. CallsFitPhase'
    BY <2>3 DEF CallsFitPhase
  <2>5. ASSUME Answered(handler[h].op) = "detached", Quiet(n)'
        PROVE  Unmapped(n, v)' /\ \A g \in Handlers : ~(Node(g)' = n /\ Volume(g)' = v)
    <3>1. handler[h].op = "Detach"
      BY <1>3, <2>5, DetachAnswers DEF DetachInv, CallsInv, CallsFitPhase
    <3>2. Quiet(n)
      BY <2>5 DEF Quiet, Quietly
    <3>3. Unmapped(n, v) /\ \A g \in Handlers : Node(g) = n /\ Volume(g) = v => g = h
      BY <1>1, <1>3, <3>1, <3>2 DEF DetachInv, DetachesAreTrue, CallsInv, CallsAreAlone
    <3>4. Node(h)' = None
      BY <1>1, IdleFields DEF Node
    <3> QED
      BY <1>1, <3>3, <3>4, WentOn, NoneAssumption DEF Unmapped
  <2>6. DetachedAreLeft'
    BY <2>2, <2>5, QuietLeft DEF DetachedAreLeft
  <2> QED
    BY <2>4, <2>6
<1> QED
  BY <1>2, <1>3

LEMMA PublishDetach ==
  ASSUME TypeInv, TypeInv', Quietly, DetachInv, NEW n \in Nodes, NEW v \in Volumes,
         ControllerPublishVolume(n, v)
  PROVE  CallsFitPhase' /\ DetachedAreLeft'
<1>1. /\ phase[n][v] = "detached" /\ UNCHANGED handler
      /\ \A n2 \in Nodes, v2 \in Volumes :
           phase'[n2][v2] = IF n2 = n /\ v2 = v THEN "attached" ELSE phase[n2][v2]
  BY DEF ControllerPublishVolume, TypeInv, WorldInv
<1>2. ASSUME NEW h \in Handlers, handler[h].live
      PROVE  /\ handler[h].op \in Ops
             /\ phase'[Node(h)][Volume(h)] = Begun[handler[h].op]
  <2>1. /\ Node(h) \in Nodes /\ Volume(h) \in Volumes /\ handler[h].op \in Ops
        /\ phase[Node(h)][Volume(h)] = Begun[handler[h].op]
    BY <1>2, LiveIsAtWork DEF DetachInv, CallsInv, CallsFitPhase
  <2>2. Begun[handler[h].op] # "detached"
    BY <2>1, OpFacts
  <2> QED
    BY <1>1, <2>1, <2>2
<1>3. CallsFitPhase'
  BY <1>1, <1>2 DEF CallsFitPhase, Node, Volume
<1> QED
  BY <1>1, <1>3, LeftStays

LEMMA RebootDetach ==
  ASSUME TypeInv, TypeInv', Quietly, DetachInv, NEW n \in Nodes, NodeReboot(n)
  PROVE  CallsFitPhase' /\ DetachedAreLeft'
<1>1. \A n2 \in Nodes, v \in Volumes :
        phase'[n2][v] = IF n2 = n THEN Again(phase[n2][v]) ELSE phase[n2][v]
  BY DEF NodeReboot, TypeInv, WorldInv
<1>2. ASSUME NEW h \in Handlers, (handler[h].live)'
      PROVE  handler'[h].op \in Ops /\ phase'[Node(h)'][Volume(h)'] = Begun[handler'[h].op]
  <2>1. /\ handler[h].live /\ handler'[h] # Idle /\ Node(h) \in Nodes /\ Volume(h) \in Volumes
        /\ Node(h)' = Node(h) /\ Volume(h)' = Volume(h) /\ handler'[h].op = handler[h].op
    BY <1>2, LiveWentOn
  <2>2. handler[h].op \in Ops /\ phase[Node(h)][Volume(h)] = Begun[handler[h].op]
    BY <2>1 DEF DetachInv, CallsInv, CallsFitPhase
  <2>3. Node(h) = n => handler[h].op = "Detach"
    BY <2>1 DEF NodeReboot, OnController
  <2>4. Again(Begun["Detach"]) = Begun["Detach"]
    BY DEF Again, Begun
  <2> QED
    BY <1>1, <2>1, <2>2, <2>3, <2>4
<1>3. \A p \in Phases : Again(p) = "detached" => p = "detached"
  BY DEF Again
<1>4. \A n2 \in Nodes, v \in Volumes : phase[n2][v] \in Phases
  BY DEF TypeInv, WorldInv
<1>5. DetachedAreLeft'
  BY <1>1, <1>3, <1>4, LeftStays
<1> QED
  BY <1>2, <1>5 DEF CallsFitPhase

LEMMA CalledDetach ==
  ASSUME TypeInv, DetachInv, NEW h \in Handlers, NEW n \in Nodes, NEW v \in Volumes, NEW op \in Ops,
         Called(h, n, v, op)
  PROVE  DetachInv'
<1>0. UNCHANGED mapping
  BY DEF Called
<1>1. /\ excused \subseteq excused' /\ UNCHANGED mapping
      /\ \A g \in Handlers \ {h} : handler'[g] = handler[g]
      /\ handler'[h].op = op /\ handler'[h].node = n /\ handler'[h].volume = v
      /\ handler'[h].live = TRUE /\ handler'[h].pc # "reply"
  BY <1>0, CalledGood
<1>2. \A g \in Handlers \ {h} : Node(g)' = Node(g) /\ Volume(g)' = Volume(g)
  BY <1>1 DEF Node, Volume
<1>3. Node(h)' = n /\ Volume(h)' = v
  BY <1>1 DEF Node, Volume
<1>4. \A g \in Handlers : ~(handler[g].live /\ Node(g) = n /\ Volume(g) = v)
  BY DEF Called, Node, Volume
<1>5. Quiet(n)' => \A g \in Handlers : Volume(g) # v
  BY DEF Called, Quiet, Volume
<1>6. \A n2 \in Nodes, v2 \in Volumes :
        phase'[n2][v2] = IF n2 = n /\ v2 = v THEN Begun[op] ELSE phase[n2][v2]
  BY DEF Called, TypeInv, WorldInv
<1>7. Begun[op] # "detached" /\ phase[n][v] # "detached"
  BY OpFacts DEF Called
<1>8. \A n2 \in Nodes : Quiet(n2)' => Quiet(n2)
  BY <1>1 DEF Quiet
<1>9. OneCallEach'
  BY <1>1, <1>2, <1>3, <1>4 DEF OneCallEach, DetachInv, CallsInv
<1>10. CallsFitPhase'
  <2>1. ASSUME NEW g \in Handlers, g # h, handler[g].live
        PROVE  handler[g].op \in Ops /\ phase'[Node(g)][Volume(g)] = Begun[handler[g].op]
    <3>1. Node(g) \in Nodes /\ Volume(g) \in Volumes
      BY <2>1, LiveIsAtWork
    <3> QED
      BY <1>4, <1>6, <2>1, <3>1 DEF CallsFitPhase, DetachInv, CallsInv
  <2> QED
    BY <1>1, <1>2, <1>3, <1>6, <2>1 DEF CallsFitPhase
<1>11. CallsAreAlone'
  <2>1. ASSUME NEW g \in Handlers, NEW k \in Handlers, (handler[k].live)', Quiet(Node(k))',
               Node(g)' = Node(k)', Volume(g)' = Volume(k)'
        PROVE  g = k
    <3>1. CASE k = h
      BY <1>2, <1>3, <1>5, <2>1, <3>1
    <3>2. CASE k # h
      <4>1. handler[k].live /\ Node(k) \in Nodes /\ Node(k)' = Node(k) /\ Volume(k)' = Volume(k)
        BY <1>1, <1>2, <2>1, <3>2, LiveIsAtWork
      <4>2. Quiet(Node(k))
        BY <1>8, <2>1, <4>1 DEF Quiet
      <4>3. g # h
        BY <1>3, <1>4, <2>1, <4>1
      <4> QED
        BY <1>2, <2>1, <4>1, <4>2, <4>3 DEF CallsAreAlone, DetachInv, CallsInv
    <3> QED
      BY <3>1, <3>2
  <2> QED
    BY <2>1 DEF CallsAreAlone
<1>12. DetachesAreTrue'
  <2>1. ASSUME NEW g \in Handlers, (handler[g].live)', handler'[g].op = "Detach",
               handler'[g].pc = "reply", Quiet(Node(g))'
        PROVE  Unmapped(Node(g), Volume(g))'
    <3>1. /\ g # h /\ handler[g].live /\ handler[g].op = "Detach" /\ handler[g].pc = "reply"
          /\ Node(g)' = Node(g) /\ Volume(g)' = Volume(g) /\ Node(g) \in Nodes
      BY <1>1, <1>2, <2>1, LiveIsAtWork
    <3>2. Quiet(Node(g))
      BY <1>8, <2>1, <3>1 DEF Quiet
    <3> QED
      BY <1>1, <3>1, <3>2 DEF DetachesAreTrue, DetachInv, Unmapped
  <2> QED
    BY <2>1 DEF DetachesAreTrue
<1>13. DetachedAreLeft'
  <2>1. ASSUME NEW n2 \in Nodes, NEW v2 \in Volumes, Quiet(n2)', phase'[n2][v2] = "detached"
        PROVE  Unmapped(n2, v2)' /\ \A g \in Handlers : ~(Node(g)' = n2 /\ Volume(g)' = v2)
    <3>1. phase[n2][v2] = "detached" /\ ~(n2 = n /\ v2 = v) /\ Quiet(n2)
      BY <1>6, <1>7, <1>8, <2>1
    <3> QED
      BY <1>1, <1>2, <1>3, <3>1 DEF DetachedAreLeft, DetachInv, Unmapped
  <2> QED
    BY <2>1 DEF DetachedAreLeft
<1> QED
  BY <1>9, <1>10, <1>11, <1>12, <1>13 DEF DetachInv, CallsInv

LEMMA DetachNext ==
  ASSUME TypeInv, DetachInv, [Next]_vars
  PROVE  DetachInv'
<1>1. ASSUME NEW h \in Handlers, NEW n \in Nodes, NEW v \in Volumes, NEW op \in Ops,
             Called(h, n, v, op)
      PROVE  DetachInv'
  BY <1>1, CalledDetach
<1>2. ASSUME TypeInv', Quietly, CallsFitPhase', DetachedAreLeft'
      PROVE  DetachInv'
  BY <1>2, QuietCalls, QuietDetaches DEF DetachInv, CallsInv
<1>3. ASSUME TypeInv', Quietly, NEW h \in Handlers, Reply(h)
      PROVE  DetachInv'
  <2>1. Node(h) \in Nodes /\ Volume(h) \in Volumes
    BY <1>3, AtWork DEF Reply, At
  <2> QED
    BY <1>2, <1>3, <2>1, ReplyDetach
<1>4. ASSUME TypeInv', Quietly, NEW n \in Nodes, NEW v \in Volumes, ControllerPublishVolume(n, v)
      PROVE  DetachInv'
  BY <1>2, <1>4, PublishDetach
<1>5. ASSUME TypeInv', Quietly, NEW n \in Nodes, NodeReboot(n)
      PROVE  DetachInv'
  BY <1>2, <1>5, RebootDetach
<1>6. ASSUME TypeInv', Quietly, UNCHANGED phase
      PROVE  DetachInv'
  <2>1. CallsFitPhase'
    BY <1>6, LiveWentOn DEF CallsFitPhase, DetachInv, CallsInv
  <2> QED
    BY <1>2, <1>6, <2>1, LeftStays
<1>7. ASSUME UNCHANGED vars
      PROVE  DetachInv'
  BY <1>7 DEF vars, DetachInv, CallsInv, OneCallEach, CallsFitPhase, CallsAreAlone,
     DetachesAreTrue, DetachedAreLeft, Unmapped, Quiet, Node, Volume
<1> QED
  BY <1>1, <1>3, <1>4, <1>5, <1>6, <1>7, StepKinds

-----------------------------------------------------------------------------
(* The names of devices.  A mount is of the device that has its name now, an *)
(* address has one volume and one name at most, and the steps taken suit the *)
(* kind of volume: all that holds on every node, whatever happens.           *)

\* A path that holds a device by its name.
Holds(p) == p.is \in {"link", "mount"}

SoundPath(n, v, p) ==
  /\ Holds(p) => p.dev \in Devices
  /\ ~Holds(p) => p.dev = None
  /\ p.is = "mount" => p.at = device[n][p.dev] /\ v \notin BlockVolumes
  /\ p.is = "link" => v \in BlockVolumes

PathsAreSound ==
  \A n \in Nodes, v \in Volumes : SoundPath(n, v, staging[n][v]) /\ SoundPath(n, v, target[n][v])

MappingsAreSingle ==
  \A m1, m2 \in mapping : m1.node = m2.node /\ m1.at = m2.at => m1.volume = m2.volume

DevicesAreSingle ==
  \A n \in Nodes, d, e \in Devices :
    device[n][d] # None /\ device[n][d] = device[n][e] => d = e

\* Links are for raw devices, and all else for file systems; what is to be destroyed are
\* mappings of the volume.
Suits(r) ==
  /\ r.pc \in {"link", "linkTarget"} => r.volume \in BlockVolumes /\ r.dev \in Devices
  /\ r.pc \in {"blkid", "format", "mount", "mountTarget", "unmountStaging"} =>
       r.volume \notin BlockVolumes
  /\ r.pc = "destroyLuns" => \A m \in r.luns : m.volume = r.volume

StepsSuit == \A h \in Handlers : Suits(handler[h])

NamesInv == PathsAreSound /\ MappingsAreSingle /\ DevicesAreSingle /\ StepsSuit

LEMMA NamesInit ==
  ASSUME Init
  PROVE  NamesInv
<1>1. PathsAreSound
  BY DEF Init, PathsAreSound, SoundPath, Holds, NoPath
<1>2. StepsSuit
  BY DEF Init, StepsSuit, Suits, Idle
<1> QED
  BY <1>1, <1>2 DEF Init, NamesInv, MappingsAreSingle, DevicesAreSingle

\* What a step of a handler does to the mappings and the devices.
LEMMA WorkerSteps ==
  ASSUME NEW h \in Handlers, HandlerStep(h)
  PROVE  handler[h].pc # "idle"
<1>1. StageStep(h) => handler[h].pc # "idle"
  BY DEF StageStep, Map, StatPath, DeviceFound, Sleep, DeadlineExceeded, Link, Blkid, Format, Mount, At
<1>2. PublishStep(h) => handler[h].pc # "idle"
  BY DEF PublishStep, FindStaged, LinkTarget, MountTarget, CheckTarget, UnmountTarget, RemoveTarget,
     RemoveDir, At
<1>3. UnstageStep(h) => handler[h].pc # "idle"
  BY DEF UnstageStep, FindDevice, UnmountStaging, RemoveDevice, RemoveStaging, At
<1>4. DetachStep(h) \/ Reply(h) => handler[h].pc # "idle"
  BY DEF DetachStep, GetLuns, DestroyLun, LunsDestroyed, Verify, Reply, At
<1> QED
  BY <1>1, <1>2, <1>3, <1>4 DEF HandlerStep

LEMMA MappingSteps ==
  ASSUME NEW h \in Handlers, HandlerStep(h), ~Map(h), ~DestroyLun(h)
  PROVE  UNCHANGED mapping
<1>1. StageStep(h) => UNCHANGED mapping
  BY DEF StageStep, StatPath, DeviceFound, Sleep, DeadlineExceeded, Link, Blkid, Format, Mount
<1>2. PublishStep(h) => UNCHANGED mapping
  BY DEF PublishStep, FindStaged, LinkTarget, MountTarget, CheckTarget, UnmountTarget, RemoveTarget,
     RemoveDir
<1>3. UnstageStep(h) => UNCHANGED mapping
  BY DEF UnstageStep, FindDevice, UnmountStaging, RemoveDevice, RemoveStaging
<1>4. DetachStep(h) \/ Reply(h) => UNCHANGED mapping
  BY DEF DetachStep, GetLuns, LunsDestroyed, Verify, Reply
<1> QED
  BY <1>1, <1>2, <1>3, <1>4 DEF HandlerStep

LEMMA DeviceSteps ==
  ASSUME NEW h \in Handlers, HandlerStep(h), ~RemoveDevice(h)
  PROVE  UNCHANGED device
<1>1. StageStep(h) => UNCHANGED device
  BY DEF StageStep, Map, StatPath, DeviceFound, Sleep, DeadlineExceeded, Link, Blkid, Format, Mount,
     kernel
<1>2. PublishStep(h) => UNCHANGED device
  BY DEF PublishStep, FindStaged, LinkTarget, MountTarget, CheckTarget, UnmountTarget, RemoveTarget,
     RemoveDir, kernel
<1>3. UnstageStep(h) => UNCHANGED device
  BY DEF UnstageStep, FindDevice, UnmountStaging, RemoveStaging, kernel
<1>4. DetachStep(h) \/ Reply(h) => UNCHANGED device
  BY DEF DetachStep, GetLuns, DestroyLun, LunsDestroyed, Verify, Reply, kernel
<1> QED
  BY <1>1, <1>2, <1>3, <1>4 DEF HandlerStep

\* A step that changes paths changes those of its volume on its node, to sound ones.
PathStep(h, paths, after) ==
  \/ after = paths
  \/ \E p \in PathStates : SoundPath(Node(h), Volume(h), p) /\ after = SetPath(paths, h, p)

LEMMA PlainPaths ==
  ASSUME NEW n \in Nodes, NEW v \in Volumes
  PROVE  /\ NoPath \in PathStates /\ SoundPath(n, v, NoPath) /\ ~Holds(NoPath)
         /\ Dir \in PathStates /\ SoundPath(n, v, Dir) /\ ~Holds(Dir)
         /\ NoPath.is # "mount" /\ Dir.is # "mount"
BY DEF NoPath, Dir, PathStates, SoundPath, Holds

LEMMA MountedStep ==
  ASSUME TypeInv, NamesInv, NEW h \in Handlers, handler[h].pc \in {"mount", "mountTarget"},
         NEW paths, NEW after, Node(h) \in Nodes, Volume(h) \in Volumes,
         \/ after = paths
         \/ HasFileSystem(h) /\ after = SetPath(paths, h, MountOf(Node(h), handler[h].dev))
         \/ after = SetPath(paths, h, Dir)
  PROVE  PathStep(h, paths, after)
<1> DEFINE p == MountOf(Node(h), handler[h].dev)
<1>1. handler[h].dev \in Devices \cup {None} /\ (HasFileSystem(h) => handler[h].dev # None)
  BY DEF HasFileSystem, ReachedBy, TypeInv, HandlersInv, Local
<1>2. Volume(h) \notin BlockVolumes
  BY DEF NamesInv, StepsSuit, Suits, Volume
<1>3. ASSUME HasFileSystem(h) PROVE p \in PathStates /\ SoundPath(Node(h), Volume(h), p)
  <2>1. device[Node(h)][handler[h].dev] \in Addresses \cup {None}
    BY <1>1, <1>3 DEF TypeInv, WorldInv
  <2>2. /\ p.is = "mount" /\ p.dev = handler[h].dev /\ p.at = device[Node(h)][handler[h].dev]
        /\ p \in PathStates
    BY <1>1, <2>1 DEF MountOf, PathStates
  <2> HIDE DEF p
  <2> QED
    BY <1>1, <1>2, <1>3, <2>2 DEF SoundPath, Holds
<1> HIDE DEF p
<1> QED
  BY <1>3, PlainPaths DEF PathStep, p

LEMMA PathSteps ==
  ASSUME TypeInv, NamesInv, NEW h \in Handlers, HandlerStep(h), ~RemoveDevice(h)
  PROVE  PathStep(h, staging, staging') /\ PathStep(h, target, target')
<1>0. /\ handler[h].pc # "idle" => Node(h) \in Nodes /\ Volume(h) \in Volumes
      /\ handler[h].dev \in Devices \cup {None}
  BY AtWork DEF TypeInv, HandlersInv, Local
<1>1. CASE StageStep(h)
  <2>1. CASE Link(h)
    <3>1. handler[h].pc = "link" /\ target' = target
      BY <2>1 DEF Link, At
    <3>2. Volume(h) \in BlockVolumes /\ handler[h].dev \in Devices
      BY <3>1 DEF NamesInv, StepsSuit, Suits, Volume
    <3>3. /\ LinkTo(handler[h].dev) \in PathStates
          /\ SoundPath(Node(h), Volume(h), LinkTo(handler[h].dev))
      BY <3>2 DEF LinkTo, SoundPath, Holds, PathStates
    <3> QED
      BY <2>1, <3>1, <3>3 DEF Link, PathStep
  <2>2. CASE Mount(h)
    <3>1. /\ handler[h].pc = "mount" /\ target' = target
          /\ \/ staging' = staging
             \/ HasFileSystem(h) /\ staging' = SetPath(staging, h, MountOf(Node(h), handler[h].dev))
             \/ staging' = SetPath(staging, h, Dir)
      BY <2>2 DEF Mount, Mounted, At
    <3>2. PathStep(h, staging, staging')
      BY <1>0, <3>1, MountedStep
    <3>3. PathStep(h, target, target')
      BY <3>1 DEF PathStep
    <3> QED
      BY <3>2, <3>3
  <2>3. CASE ~Link(h) /\ ~Mount(h)
    BY <1>1, <2>3 DEF StageStep, Map, StatPath, DeviceFound, Sleep, DeadlineExceeded, Blkid, Format,
       PathStep, kernel
  <2> QED
    BY <2>1, <2>2, <2>3
<1>2. CASE PublishStep(h)
  <2>1. CASE LinkTarget(h)
    <3>1. handler[h].pc = "linkTarget" /\ staging' = staging
      BY <2>1 DEF LinkTarget, At
    <3>2. Volume(h) \in BlockVolumes /\ handler[h].dev \in Devices
      BY <3>1 DEF NamesInv, StepsSuit, Suits, Volume
    <3>3. /\ LinkTo(handler[h].dev) \in PathStates
          /\ SoundPath(Node(h), Volume(h), LinkTo(handler[h].dev))
      BY <3>2 DEF LinkTo, SoundPath, Holds, PathStates
    <3> QED
      BY <2>1, <3>1, <3>3 DEF LinkTarget, PathStep
  <2>2. CASE MountTarget(h)
    <3>1. /\ handler[h].pc = "mountTarget" /\ staging' = staging
          /\ \/ target' = target
             \/ HasFileSystem(h) /\ target' = SetPath(target, h, MountOf(Node(h), handler[h].dev))
             \/ target' = SetPath(target, h, Dir)
      BY <2>2 DEF MountTarget, Mounted, At
    <3>2. PathStep(h, staging, staging')
      BY <3>1 DEF PathStep
    <3>3. PathStep(h, target, target')
      BY <1>0, <3>1, MountedStep
    <3> QED
      BY <3>2, <3>3
  <2>3. CASE UnmountTarget(h) \/ RemoveTarget(h) \/ RemoveDir(h)
    <3>1. Node(h) \in Nodes /\ Volume(h) \in Volumes
      BY <1>0, <2>3 DEF UnmountTarget, RemoveTarget, RemoveDir, At
    <3>2. /\ staging' = staging
          /\ target' = target \/ \E p \in {NoPath, Dir} : target' = SetPath(target, h, p)
      BY <2>3 DEF UnmountTarget, Unmounted, RemoveTarget, Removed, RemoveDir
    <3> QED
      BY <3>1, <3>2, PlainPaths DEF PathStep
  <2>4. CASE FindStaged(h) \/ CheckTarget(h)
    BY <2>4 DEF FindStaged, CheckTarget, PathStep, kernel
  <2> QED
    BY <1>2, <2>1, <2>2, <2>3, <2>4 DEF PublishStep
<1>3. CASE UnstageStep(h)
  <2>1. CASE UnmountStaging(h) \/ RemoveStaging(h)
    <3>1. Node(h) \in Nodes /\ Volume(h) \in Volumes
      BY <1>0, <2>1 DEF UnmountStaging, RemoveStaging, At
    <3>2. /\ target' = target
          /\ staging' = staging \/ \E p \in {NoPath, Dir} : staging' = SetPath(staging, h, p)
      BY <2>1 DEF UnmountStaging, Unmounted, RemoveStaging, Removed
    <3> QED
      BY <3>1, <3>2, PlainPaths DEF PathStep
  <2>2. CASE FindDevice(h)
    BY <2>2 DEF FindDevice, PathStep, kernel
  <2> QED
    BY <1>3, <2>1, <2>2 DEF UnstageStep
<1>4. CASE DetachStep(h)
  BY <1>4 DEF DetachStep, GetLuns, DestroyLun, LunsDestroyed, Verify, PathStep, kernel
<1>5. CASE Reply(h)
  <2>1. Node(h) \in Nodes /\ Volume(h) \in Volumes
    BY <1>0, <1>5 DEF Reply, At
  <2>2. staging' = staging /\ (target' = target \/ target' = SetPath(target, h, NoPath))
    BY <1>5 DEF Reply
  <2> QED
    BY <2>1, <2>2, PlainPaths DEF PathStep
<1> QED
  BY <1>1, <1>2, <1>3, <1>4, <1>5 DEF HandlerStep

\* Sound paths stay so while the devices stay.
LEMMA PathStepSound ==
  ASSUME TypeInv, NEW h \in Handlers, NEW paths \in AllPaths, NEW after, PathStep(h, paths, after),
         Node(h) \in Nodes, Volume(h) \in Volumes,
         \A n \in Nodes, v \in Volumes : SoundPath(n, v, paths[n][v])
  PROVE  \A n \in Nodes, v \in Volumes : SoundPath(n, v, after[n][v])
<1>1. CASE after = paths
  BY <1>1
<1>2. ASSUME NEW p \in PathStates, SoundPath(Node(h), Volume(h), p), after = SetPath(paths, h, p)
      PROVE  \A n \in Nodes, v \in Volumes : SoundPath(n, v, after[n][v])
  <2>1. \A n \in Nodes, v \in Volumes :
          after[n][v] = IF n = Node(h) /\ v = Volume(h) THEN p ELSE paths[n][v]
    BY <1>2 DEF SetPath, AllPaths
  <2> QED
    BY <1>2, <2>1
<1> QED
  BY <1>1, <1>2 DEF PathStep

\* A handler's step away from a device leaves no mount with its address.
LEMMA DetachedSound ==
  ASSUME NEW m, NEW d,
         \A n \in Nodes, e \in Devices :
           device'[n][e] = IF n = m /\ e = d THEN None ELSE device[n][e],
         NEW paths \in AllPaths, \A n \in Nodes, v \in Volumes : SoundPath(n, v, paths[n][v]),
         NEW after, after = Detached(paths, m, d)
  PROVE  \A n \in Nodes, v \in Volumes :
           /\ after[n][v].is = paths[n][v].is /\ after[n][v].dev = paths[n][v].dev
           /\ after[n][v].is = "mount" => after[n][v].at = device'[n][after[n][v].dev]
           /\ ~(after[n][v].is = "mount" /\ n = m /\ after[n][v].dev = d) =>
                after[n][v] = paths[n][v]
<1> TAKE n \in Nodes, v \in Volumes
<1> DEFINE old == paths[n][v]  p == after[n][v]
<1>1. old \in PathStates /\ SoundPath(n, v, old)
  BY DEF AllPaths
<1>2. p = IF n = m /\ old.is = "mount" /\ old.dev = d THEN [old EXCEPT !.at = None] ELSE old
  BY DEF Detached, AllPaths
<1>4. \A e \in Devices : device'[n][e] = IF n = m /\ e = d THEN None ELSE device[n][e]
  OBVIOUS
<1> HIDE DEF old, p
<1>5. ASSUME n = m /\ old.is = "mount" /\ old.dev = d
      PROVE  /\ p.is = old.is /\ p.dev = old.dev
             /\ p.is = "mount" => p.at = device'[n][p.dev]
             /\ ~(p.is = "mount" /\ n = m /\ p.dev = d) => p = old
  <2>1. p.is = old.is /\ p.dev = old.dev /\ p.at = None
    BY <1>1, <1>2, <1>5 DEF PathStates
  <2>2. old.dev \in Devices
    BY <1>1, <1>5 DEF SoundPath, Holds
  <2> QED
    BY <1>4, <1>5, <2>1, <2>2
<1>6. ASSUME ~(n = m /\ old.is = "mount" /\ old.dev = d)
      PROVE  /\ p.is = old.is /\ p.dev = old.dev
             /\ p.is = "mount" => p.at = device'[n][p.dev]
             /\ ~(p.is = "mount" /\ n = m /\ p.dev = d) => p = old
  <2>1. p = old
    BY <1>2, <1>6
  <2>2. p.is = "mount" => p.dev \in Devices /\ p.at = device[n][p.dev]
    BY <1>1, <2>1 DEF SoundPath, Holds
  <2> QED
    BY <1>4, <1>6, <2>1, <2>2
<1>7. /\ p.is = old.is /\ p.dev = old.dev
      /\ p.is = "mount" => p.at = device'[n][p.dev]
      /\ ~(p.is = "mount" /\ n = m /\ p.dev = d) => p = old
  BY <1>5, <1>6
<1> QED
  BY <1>7 DEF old, p

LEMMA PathsStaySound ==
  ASSUME TypeInv, NamesInv, NEW h \in Handlers, HandlerStep(h)
  PROVE  PathsAreSound'
<1>0. /\ Node(h) \in Nodes /\ Volume(h) \in Volumes /\ handler[h].dev \in Devices \cup {None}
      /\ staging \in AllPaths /\ target \in AllPaths
  <2>1. handler[h].pc # "idle"
    BY WorkerSteps
  <2> QED
    BY <2>1, AtWork, PathAt DEF Local
<1>1. /\ \A n \in Nodes, v \in Volumes : SoundPath(n, v, staging[n][v])
      /\ \A n \in Nodes, v \in Volumes : SoundPath(n, v, target[n][v])
  BY DEF NamesInv, PathsAreSound
<1>2. CASE ~RemoveDevice(h)
  <2>1. PathStep(h, staging, staging') /\ PathStep(h, target, target') /\ UNCHANGED device
    BY <1>2, PathSteps, DeviceSteps
  <2>2. \A n \in Nodes, v \in Volumes : SoundPath(n, v, staging'[n][v]) /\ SoundPath(n, v, target'[n][v])
    BY <1>0, <1>1, <2>1, PathStepSound
  <2> QED
    BY <2>1, <2>2 DEF PathsAreSound, SoundPath
<1>3. CASE RemoveDevice(h)
  <2>1. CASE handler[h].dev = None
    <3>1. UNCHANGED <<device, staging, target>>
      BY <1>3, <2>1 DEF RemoveDevice, kernel
    <3> QED
      BY <1>1, <3>1 DEF PathsAreSound, SoundPath
  <2>2. CASE handler[h].dev # None
    <3> DEFINE m == Node(h)  d == handler[h].dev
    <3>0. device \in [Nodes -> [Devices -> Addresses \cup {None}]]
      BY DEF TypeInv, WorldInv
    <3>1. /\ \A n \in Nodes, e \in Devices :
               device'[n][e] = IF n = m /\ e = d THEN None ELSE device[n][e]
          /\ staging' = Detached(staging, m, d) /\ target' = Detached(target, m, d)
      BY <1>0, <1>3, <2>2, <3>0 DEF RemoveDevice
    <3> HIDE DEF m, d
    <3>2. \A n \in Nodes, v \in Volumes :
            /\ staging'[n][v].is = staging[n][v].is /\ staging'[n][v].dev = staging[n][v].dev
            /\ staging'[n][v].is = "mount" => staging'[n][v].at = device'[n][staging'[n][v].dev]
      BY <1>0, <1>1, <3>1, DetachedSound
    <3>3. \A n \in Nodes, v \in Volumes :
            /\ target'[n][v].is = target[n][v].is /\ target'[n][v].dev = target[n][v].dev
            /\ target'[n][v].is = "mount" => target'[n][v].at = device'[n][target'[n][v].dev]
      BY <1>0, <1>1, <3>1, DetachedSound
    <3> QED
      BY <1>1, <3>2, <3>3 DEF PathsAreSound, SoundPath, Holds
  <2> QED
    BY <2>1, <2>2
<1> QED
  BY <1>2, <1>3

-----------------------------------------------------------------------------
(* What a step makes of its handler: the next step, and what it is about.  *)

Mapped(n, v, a) == [volume |-> v, node |-> n, at |-> a] \in mapping

StageTable(h, r) ==
  LET o == handler[h] IN
  \/ o.pc = "map" /\ r.pc = "stat"
     /\ [volume |-> Volume(h), node |-> Node(h), at |-> r.at] \in mapping'
  \/ o.pc \in {"stat", "wait"} /\ r.pc = "wait" /\ r.at = o.at
  \/ o.pc = "wait" /\ r.pc = "reply"
  \/ /\ o.pc = "wait" /\ r.pc = (IF IsBlock(h) THEN "link" ELSE "blkid")
     /\ r.dev \in Devices /\ device[Node(h)][r.dev] = o.at
  \/ o.pc = "blkid" /\ r.pc = "mount" /\ r.dev = o.dev
  \/ o.pc = "blkid" /\ r.pc = "format" /\ r.dev = o.dev /\ ~HasFileSystem(h)
  \/ o.pc = "format" /\ r.pc = "mount" /\ r.dev = o.dev
  \/ o.pc \in {"link", "mount"} /\ r.pc = "reply"

PublishTable(h, r) ==
  LET o == handler[h]  p == staging[Node(h)][Volume(h)] IN
  \/ /\ o.pc = "findStaged" /\ r.pc = (IF IsBlock(h) THEN "linkTarget" ELSE "mountTarget")
     /\ Holds(p) /\ r.dev = p.dev
  \/ o.pc \in {"linkTarget", "mountTarget", "removeTarget", "removeDir"} /\ r.pc = "reply"
  \/ o.pc = "checkTarget" /\ r.pc \in {"unmountTarget", "reply"}
  \/ o.pc = "checkTarget" /\ r.pc = "removeDir" /\ target[Node(h)][Volume(h)].is = "dir"
  \/ o.pc = "unmountTarget" /\ r.pc = "removeTarget"

UnstageTable(h, r) ==
  LET o == handler[h] IN
  \/ /\ o.pc = "findDevice" /\ r.pc = (IF IsBlock(h) THEN "removeDevice" ELSE "unmountStaging")
     /\ r.dev = staging[Node(h)][Volume(h)].dev
  \/ o.pc = "unmountStaging" /\ r.pc = "removeDevice" /\ r.dev = o.dev
  \/ o.pc = "removeDevice" /\ r.pc = "removeStaging"
  \/ o.pc = "removeStaging" /\ r.pc = "reply"

DetachTable(h, r) ==
  LET o == handler[h] IN
  \/ o.pc = "getLuns" /\ r.pc = "destroyLuns" /\ r.luns = LunsOf(h)
  \/ o.pc = "destroyLuns" /\ r.pc = "destroyLuns" /\ r.luns \subseteq o.luns
  \/ o.pc \in {"destroyLuns", "verify"} /\ r.pc \in {"verify", "reply"}

StepTable(h) ==
  LET r == handler'[h] IN
  \/ r = Idle
  \/ /\ r.op = handler[h].op /\ r.node = handler[h].node /\ r.volume = handler[h].volume
     /\ StageTable(h, r) \/ PublishTable(h, r) \/ UnstageTable(h, r) \/ DetachTable(h, r)

LEMMA PutIs ==
  ASSUME HandlersInv, NEW h \in Handlers, NEW r, Put(h, r)
  PROVE  handler'[h] = r
BY DEF HandlersInv, Put

LEMMA GotoIs ==
  ASSUME HandlersInv, NEW h \in Handlers, NEW pc, Goto(h, pc)
  PROVE  /\ handler'[h].pc = pc /\ handler'[h].op = handler[h].op
         /\ handler'[h].node = handler[h].node /\ handler'[h].volume = handler[h].volume
         /\ handler'[h].dev = handler[h].dev /\ handler'[h].at = handler[h].at
<1>1. handler'[h] = [handler[h] EXCEPT !.pc = pc] /\ handler[h] \in Local
  BY PutIs DEF Goto, HandlersInv
<1> QED
  BY <1>1 DEF Local

LEMMA StageSteps ==
  ASSUME TypeInv, NEW h \in Handlers, StageStep(h)
  PROVE  StepTable(h)
<1> DEFINE r == handler'[h]
           Kept == r.op = handler[h].op /\ r.node = handler[h].node /\ r.volume = handler[h].volume
<1>0. HandlersInv /\ handler[h] \in Local
  BY DEF TypeInv, HandlersInv
<1>1. Return(h) => r = Idle
  BY <1>0, PutIs DEF Return
<1>2. \A pc : Goto(h, pc) => Kept /\ r.pc = pc /\ r.dev = handler[h].dev
  BY <1>0, GotoIs
<1>3. CASE Map(h)
  <2>1. ASSUME NEW a, Put(h, [handler[h] EXCEPT !.pc = "stat", !.at = a])
        PROVE  Kept /\ r.pc = "stat" /\ r.at = a
    <3>1. r = [handler[h] EXCEPT !.pc = "stat", !.at = a]
      BY <1>0, <2>1, PutIs
    <3> QED
      BY <1>0, <3>1 DEF Local
  <2>2. \A m \in mapping : m = [volume |-> m.volume, node |-> m.node, at |-> m.at]
    BY DEF TypeInv, WorldInv, Mappings
  <2> HIDE DEF r
  <2>3. handler[h].pc = "map"
        /\ \/ Return(h)
           \/ \E a : /\ Put(h, [handler[h] EXCEPT !.pc = "stat", !.at = a])
                     /\ [volume |-> Volume(h), node |-> Node(h), at |-> a] \in mapping'
    BY <1>3, <2>2 DEF Map, At
  <2> QED
    BY <1>1, <2>1, <2>3 DEF r, StepTable, StageTable, Mapped, Node, Volume
<1>4. CASE StatPath(h)
  <2>1. /\ handler[h].pc = "stat"
        /\ \E seen : r = [handler[h] EXCEPT !.pc = "wait", !.sleep = 1, !.seen = seen]
    BY <1>0, <1>4, PutIs DEF StatPath, At
  <2>2. Kept /\ r.pc = "wait" /\ r.at = handler[h].at
    BY <1>0, <2>1 DEF Local
  <2> HIDE DEF r
  <2> QED
    BY <2>1, <2>2 DEF r, StepTable, StageTable
<1>5. CASE DeviceFound(h)
  <2> DEFINE pc(d) == IF handler[h].seen = d THEN "reply" ELSE IF IsBlock(h) THEN "link" ELSE "blkid"
  <2>1. PICK d \in Devices :
          /\ device[Node(h)][d] = handler[h].at
          /\ r = [handler[h] EXCEPT !.dev = d, !.at = None, !.seen = None, !.sleep = 0,
                    !.waited = 0, !.pc = pc(d)]
    BY <1>0, <1>5, PutIs DEF DeviceFound
  <2>2. pc(d) \in {"reply", IF IsBlock(h) THEN "link" ELSE "blkid"} /\ handler[h].pc = "wait"
    BY <1>5 DEF DeviceFound, At
  <2> HIDE DEF pc
  <2>3. Kept /\ r.pc = pc(d) /\ r.dev = d
    BY <1>0, <2>1 DEF Local
  <2> HIDE DEF r
  <2> QED
    BY <2>1, <2>2, <2>3 DEF r, StepTable, StageTable
<1>6. CASE Sleep(h)
  <2>1. /\ handler[h].pc = "wait"
        /\ r = [handler[h] EXCEPT !.waited = @ + handler[h].sleep, !.sleep = 2 * @]
    BY <1>0, <1>6, PutIs DEF Sleep, At
  <2>2. Kept /\ r.pc = "wait" /\ r.at = handler[h].at
    BY <1>0, <2>1 DEF Local
  <2> HIDE DEF r
  <2> QED
    BY <2>1, <2>2 DEF r, StepTable, StageTable
<1>7. CASE DeadlineExceeded(h)
  BY <1>1, <1>7 DEF DeadlineExceeded, StepTable
<1> HIDE DEF r
<1>8. CASE Link(h)
  BY <1>1, <1>2, <1>8 DEF Link, At, StepTable, StageTable, r
<1>9. CASE Blkid(h)
  <2>1. handler[h].pc = "blkid" /\ Goto(h, IF HasFileSystem(h) THEN "mount" ELSE "format")
    BY <1>9 DEF Blkid, At
  <2> QED
    BY <1>2, <2>1 DEF StepTable, StageTable, r
<1>10. CASE Format(h)
  BY <1>1, <1>2, <1>10 DEF Format, At, StepTable, StageTable, r
<1>11. CASE Mount(h)
  <2>1. handler[h].pc = "mount" /\ (Goto(h, "reply") \/ Return(h))
    BY <1>11 DEF Mount, Mounted, At
  <2> QED
    BY <1>1, <1>2, <2>1 DEF StepTable, StageTable, r
<1> QED
  BY <1>3, <1>4, <1>5, <1>6, <1>7, <1>8, <1>9, <1>10, <1>11 DEF StageStep

LEMMA OnNodeSteps ==
  ASSUME TypeInv, NEW h \in Handlers, PublishStep(h) \/ UnstageStep(h)
  PROVE  StepTable(h)
<1> DEFINE r == handler'[h]
           p == staging[Node(h)][Volume(h)]
           Kept == r.op = handler[h].op /\ r.node = handler[h].node /\ r.volume = handler[h].volume
<1>0. HandlersInv /\ handler[h] \in Local
  BY DEF TypeInv, HandlersInv
<1>1. Return(h) => r = Idle
  BY <1>0, PutIs DEF Return
<1>2. \A pc : Goto(h, pc) => Kept /\ r.pc = pc /\ r.dev = handler[h].dev
  BY <1>0, GotoIs
<1>3. ASSUME NEW d, NEW pc, Put(h, [handler[h] EXCEPT !.dev = d, !.pc = pc])
      PROVE  Kept /\ r.pc = pc /\ r.dev = d
  <2>1. r = [handler[h] EXCEPT !.dev = d, !.pc = pc]
    BY <1>0, <1>3, PutIs
  <2> QED
    BY <1>0, <2>1 DEF Local
<1>4. CASE RemoveDevice(h)
  <2>1. handler[h].pc = "removeDevice" /\ r = [handler[h] EXCEPT !.pc = "removeStaging", !.dev = None]
    BY <1>0, <1>4, PutIs DEF RemoveDevice, At
  <2>2. Kept /\ r.pc = "removeStaging"
    BY <1>0, <2>1 DEF Local
  <2> HIDE DEF r
  <2> QED
    BY <2>1, <2>2 DEF r, StepTable, UnstageTable
<1> HIDE DEF r
<1>5. CASE FindStaged(h)
  <2> DEFINE pc == IF IsBlock(h) THEN "linkTarget" ELSE "mountTarget"
  <2>1. /\ handler[h].pc = "findStaged"
        /\ \/ Holds(p) /\ Put(h, [handler[h] EXCEPT !.dev = p.dev, !.pc = pc])
           \/ Return(h)
    BY <1>5 DEF FindStaged, At, Holds
  <2> HIDE DEF p, pc
  <2>2. \/ Kept /\ r.pc = pc /\ r.dev = p.dev /\ Holds(p)
        \/ r = Idle
    BY <1>1, <1>3, <2>1
  <2> QED
    BY <2>1, <2>2 DEF p, pc, r, StepTable, PublishTable
<1>6. CASE CheckTarget(h)
  <2> DEFINE t == target[Node(h)][Volume(h)]
             pc == CASE t.is = "mount" -> "unmountTarget"
                     [] t.is = "link" /\ device[Node(h)][t.dev] # None -> "unmountTarget"
                     [] t.is = "dir" -> "removeDir"
                     [] OTHER -> "reply"
  <2>1. handler[h].pc = "checkTarget" /\ Goto(h, pc)
    BY <1>6 DEF CheckTarget, At
  <2>2. pc \in {"unmountTarget", "reply"} \/ (pc = "removeDir" /\ t.is = "dir")
    OBVIOUS
  <2> HIDE DEF pc, t
  <2> QED
    BY <1>2, <2>1, <2>2 DEF StepTable, PublishTable, r, t
<1>7. CASE LinkTarget(h) \/ MountTarget(h) \/ RemoveTarget(h) \/ RemoveDir(h)
  <2>1. /\ handler[h].pc \in {"linkTarget", "mountTarget", "removeTarget", "removeDir"}
        /\ Goto(h, "reply") \/ Return(h)
    BY <1>7 DEF LinkTarget, MountTarget, Mounted, RemoveTarget, Removed, RemoveDir, At
  <2> QED
    BY <1>1, <1>2, <2>1 DEF StepTable, PublishTable, r
<1>8. CASE UnmountTarget(h)
  BY <1>2, <1>8 DEF UnmountTarget, At, StepTable, PublishTable, r
<1>9. CASE FindDevice(h)
  <2> DEFINE pc == IF IsBlock(h) THEN "removeDevice" ELSE "unmountStaging"
  <2>1. /\ handler[h].pc = "findDevice"
        /\ Put(h, [handler[h] EXCEPT !.dev = p.dev, !.pc = pc])
    BY <1>9 DEF FindDevice, At
  <2> HIDE DEF p, pc
  <2>2. Kept /\ r.pc = pc /\ r.dev = p.dev
    BY <1>3, <2>1
  <2> QED
    BY <2>1, <2>2 DEF p, pc, r, StepTable, UnstageTable
<1>10. CASE UnmountStaging(h)
  BY <1>2, <1>10 DEF UnmountStaging, At, StepTable, UnstageTable, r
<1>11. CASE RemoveStaging(h)
  <2>1. handler[h].pc = "removeStaging" /\ (Goto(h, "reply") \/ Return(h))
    BY <1>11 DEF RemoveStaging, Removed, At
  <2> QED
    BY <1>1, <1>2, <2>1 DEF StepTable, UnstageTable, r
<1> QED
  BY <1>4, <1>5, <1>6, <1>7, <1>8, <1>9, <1>10, <1>11 DEF PublishStep, UnstageStep

LEMMA DetachSteps ==
  ASSUME TypeInv, NEW h \in Handlers, DetachStep(h)
  PROVE  StepTable(h)
<1> DEFINE r == handler'[h]
           Kept == r.op = handler[h].op /\ r.node = handler[h].node /\ r.volume = handler[h].volume
<1>0. HandlersInv /\ handler[h] \in Local
  BY DEF TypeInv, HandlersInv
<1>1. Return(h) => r = Idle
  BY <1>0, PutIs DEF Return
<1>2. \A pc : Goto(h, pc) => Kept /\ r.pc = pc
  BY <1>0, GotoIs
<1>3. CASE GetLuns(h)
  <2> DEFINE luns == LunsOf(h)
  <2>1. handler[h].pc = "getLuns" /\ r = [handler[h] EXCEPT !.pc = "destroyLuns", !.luns = luns]
    BY <1>0, <1>3, PutIs DEF GetLuns, At
  <2> HIDE DEF luns
  <2>2. Kept /\ r.pc = "destroyLuns" /\ r.luns = luns
    BY <1>0, <2>1 DEF Local
  <2> HIDE DEF r
  <2> QED
    BY <2>1, <2>2 DEF r, luns, StepTable, DetachTable
<1>4. CASE DestroyLun(h)
  <2>1. /\ handler[h].pc = "destroyLuns"
        /\ \/ \E m \in handler[h].luns : r = [handler[h] EXCEPT !.luns = @ \ {m}]
           \/ Return(h)
    BY <1>0, <1>4, PutIs DEF DestroyLun, At
  <2>2. ASSUME NEW m \in handler[h].luns, r = [handler[h] EXCEPT !.luns = @ \ {m}]
        PROVE  Kept /\ r.pc = handler[h].pc /\ r.luns \subseteq handler[h].luns
    BY <1>0, <2>2 DEF Local
  <2> HIDE DEF r
  <2>3. r = Idle \/ (Kept /\ r.pc = handler[h].pc /\ r.luns \subseteq handler[h].luns)
    BY <1>1, <2>1, <2>2
  <2> QED
    BY <2>1, <2>3 DEF r, StepTable, DetachTable
<1>5. CASE LunsDestroyed(h)
  <2>1. handler[h].pc = "destroyLuns" /\ r = [handler[h] EXCEPT !.pc = "verify", !.sleep = 2]
    BY <1>0, <1>5, PutIs DEF LunsDestroyed, At
  <2>2. Kept /\ r.pc = "verify"
    BY <1>0, <2>1 DEF Local
  <2> HIDE DEF r
  <2> QED
    BY <2>1, <2>2 DEF r, StepTable, DetachTable
<1>6. CASE Verify(h)
  <2>1. /\ handler[h].pc = "verify"
        /\ \/ Goto(h, "reply") \/ Return(h)
           \/ r = [handler[h] EXCEPT !.sleep = @ + 1]
    BY <1>0, <1>6, PutIs DEF Verify, At
  <2>2. r = [handler[h] EXCEPT !.sleep = @ + 1] => Kept /\ r.pc = "verify"
    BY <1>0, <2>1 DEF Local
  <2> HIDE DEF r
  <2> QED
    BY <1>1, <1>2, <2>1, <2>2 DEF r, StepTable, DetachTable
<1> QED
  BY <1>3, <1>4, <1>5, <1>6 DEF DetachStep

LEMMA HandlerSteps ==
  ASSUME TypeInv, NEW h \in Handlers, HandlerStep(h)
  PROVE  StepTable(h) /\ Moves(h) /\ TypeInv'
<1>1. Reply(h) => handler'[h] = Idle
  BY ReplyMoves
<1> QED
  BY <1>1, StageSteps, OnNodeSteps, DetachSteps, HandlerMoves DEF HandlerStep, StepTable

-----------------------------------------------------------------------------
(* Steps that are no handler's: what a failure or the end of a process makes of a handler. *)

FaultTable(h, r) ==
  LET o == handler[h] IN
  \/ r.pc = o.pc
  \/ o.pc = "blkid" /\ r.pc = "format" /\ BlkidFails
  \/ o.pc = "findDevice" /\ r.pc = (IF IsBlock(h) THEN "removeDevice" ELSE "unmountStaging")
  \/ o.pc = "unmountStaging" /\ r.pc = "removeDevice"
  \/ o.pc = "removeDevice" /\ r.pc = "removeStaging"
  \/ o.pc \in {"removeDir", "getLuns"} /\ r.pc = "reply"

Faulted(h) ==
  LET r == handler'[h] IN
  \/ r = Idle
  \/ /\ r.op = handler[h].op /\ r.node = handler[h].node /\ r.volume = handler[h].volume
     /\ r.dev = handler[h].dev /\ r.at = handler[h].at /\ r.luns = handler[h].luns
     /\ FaultTable(h, r)

LEMMA FaultSteps ==
  ASSUME TypeInv, NEW h \in Handlers, Fail(h) \/ ResolveNotFound(h) \/ AbandonCall(h)
  PROVE  Faulted(h) /\ \A g \in Handlers \ {h} : handler'[g] = handler[g]
<1> DEFINE r == handler'[h]
           Kept == /\ r.op = handler[h].op /\ r.node = handler[h].node
                   /\ r.volume = handler[h].volume /\ r.dev = handler[h].dev
                   /\ r.at = handler[h].at /\ r.luns = handler[h].luns
<1>0. HandlersInv /\ handler[h] \in Local
  BY DEF TypeInv, HandlersInv
<1>1. ASSUME NEW pc, r = [handler[h] EXCEPT !.pc = pc] PROVE Kept /\ r.pc = pc
  BY <1>0, <1>1 DEF Local
<1>2. \E s : Put(h, s)
  BY DEF Fail, ResolveNotFound, AbandonCall, Goto
<1>3. \A g \in Handlers \ {h} : handler'[g] = handler[g]
  BY <1>0, <1>2 DEF Put, HandlersInv
<1>4. CASE Fail(h)
  <2>1. r = AfterFailure(h) /\ (handler[h].pc = "blkid" => BlkidFails)
    BY <1>0, <1>4, PutIs DEF Fail
  <2> DEFINE pc == IF IsBlock(h) THEN "removeDevice" ELSE "unmountStaging"
  <2>2. \/ r = Idle
        \/ handler[h].pc = "blkid" /\ r = [handler[h] EXCEPT !.pc = "format"]
        \/ handler[h].pc = "findDevice" /\ r = [handler[h] EXCEPT !.pc = pc]
        \/ handler[h].pc = "unmountStaging" /\ r = [handler[h] EXCEPT !.pc = "removeDevice"]
        \/ handler[h].pc = "removeDevice" /\ r = [handler[h] EXCEPT !.pc = "removeStaging"]
        \/ handler[h].pc = "removeDir" /\ r = [handler[h] EXCEPT !.pc = "reply"]
    BY <2>1 DEF AfterFailure
  <2> HIDE DEF r, pc
  <2>3. \/ r = Idle
        \/ /\ Kept
           /\ \/ handler[h].pc = "blkid" /\ r.pc = "format"
              \/ handler[h].pc = "findDevice" /\ r.pc = pc
              \/ handler[h].pc = "unmountStaging" /\ r.pc = "removeDevice"
              \/ handler[h].pc = "removeDevice" /\ r.pc = "removeStaging"
              \/ handler[h].pc = "removeDir" /\ r.pc = "reply"
    BY <1>1, <2>2
  <2>4. Faulted(h)
    BY <2>1, <2>3 DEF Faulted, FaultTable, r, pc
  <2> QED
    BY <1>3, <2>4
<1>5. CASE ResolveNotFound(h)
  <2>1. handler[h].pc = "getLuns" /\ r = [handler[h] EXCEPT !.pc = "reply"]
    BY <1>0, <1>5, PutIs DEF ResolveNotFound, Goto
  <2> HIDE DEF r
  <2>2. Kept /\ r.pc = "reply"
    BY <1>1, <2>1
  <2>3. Faulted(h)
    BY <2>1, <2>2 DEF Faulted, FaultTable, r
  <2> QED
    BY <1>3, <2>3
<1>6. CASE AbandonCall(h)
  <2>1. r = [handler[h] EXCEPT !.live = FALSE]
    BY <1>0, <1>6, PutIs DEF AbandonCall
  <2>2. Kept /\ r.pc = handler[h].pc
    BY <1>0, <2>1 DEF Local
  <2> HIDE DEF r
  <2>3. Faulted(h)
    BY <2>2 DEF Faulted, FaultTable, r
  <2> QED
    BY <1>3, <2>3
<1> QED
  BY <1>4, <1>5, <1>6

\* The steps that are neither a call nor a handler's own.
Outside ==
  \/ \E n \in Nodes, v \in Volumes : ControllerPublishVolume(n, v) \/ Write(n, v)
  \/ \E n \in Nodes, d \in Devices, a \in Addresses : DeviceAppears(n, d, a)
  \/ \E h \in Handlers : Fail(h) \/ ResolveNotFound(h) \/ AbandonCall(h)
  \/ RestartController
  \/ \E n \in Nodes : RestartNodePlugin(n) \/ NodeReboot(n)

LEMMA KeptIsFaulted ==
  ASSUME NEW h \in Handlers, handler'[h] = handler[h] \/ handler'[h] = Idle
  PROVE  Faulted(h)
BY DEF Faulted, FaultTable

LEMMA OutsideSteps ==
  ASSUME TypeInv, Outside
  PROVE  /\ \A h \in Handlers : Faulted(h)
         /\ UNCHANGED mapping
<1>1. ASSUME \/ \E n \in Nodes, v \in Volumes : ControllerPublishVolume(n, v) \/ Write(n, v)
             \/ \E n \in Nodes, d \in Devices, a \in Addresses : DeviceAppears(n, d, a)
      PROVE  UNCHANGED <<handler, mapping>>
  BY <1>1, WorldMoves
<1>2. ASSUME NEW h \in Handlers, Fail(h) \/ ResolveNotFound(h) \/ AbandonCall(h)
      PROVE  (\A g \in Handlers : Faulted(g)) /\ UNCHANGED mapping
  <2>1. UNCHANGED mapping
    BY <1>2 DEF Fail, ResolveNotFound, AbandonCall
  <2> QED
    BY <1>2, <2>1, FaultSteps, KeptIsFaulted
<1>3. ASSUME RestartController \/ \E n \in Nodes : RestartNodePlugin(n) \/ NodeReboot(n)
      PROVE  /\ \A g \in Handlers : handler'[g] = handler[g] \/ handler'[g] = Idle
             /\ UNCHANGED mapping
  BY <1>3 DEF RestartController, RestartNodePlugin, NodeReboot, Restart
<1> QED
  BY <1>1, <1>2, <1>3, KeptIsFaulted DEF Outside

LEMMA NextKinds ==
  ASSUME Next
  PROVE  \/ \E h \in Handlers : HandlerStep(h)
         \/ \E h \in Handlers, n \in Nodes, v \in Volumes, op \in Ops : Called(h, n, v, op)
         \/ Outside
BY CallsBegin DEF Next, Environment, Outside
-----------------------------------------------------------------------------
(* The names of devices are kept by every step.                            *)

LEMMA SuitsAfterStep ==
  ASSUME TypeInv, NamesInv, NEW h \in Handlers, HandlerStep(h)
  PROVE  Suits(handler'[h])
<1> DEFINE r == handler'[h]  p == staging[Node(h)][Volume(h)]
<1>1. StepTable(h) /\ Suits(handler[h])
  BY HandlerSteps DEF NamesInv, StepsSuit
<1>2. Holds(p) => p.dev \in Devices
  BY WorkerSteps, AtWork DEF NamesInv, PathsAreSound, SoundPath
<1>3. \A m \in LunsOf(h) : m.volume = Volume(h)
  BY DEF LunsOf
<1>4. CASE r = Idle
  BY <1>4, IdleFields DEF Suits
<1>5. CASE r # Idle
  <2>1. /\ r.volume = Volume(h)
        /\ StageTable(h, r) \/ PublishTable(h, r) \/ UnstageTable(h, r) \/ DetachTable(h, r)
    BY <1>1, <1>5 DEF StepTable, Volume
  <2> HIDE DEF r
  <2>2. StageTable(h, r) => Suits(r)
    BY <1>1, <2>1 DEF StageTable, Suits, IsBlock, Volume
  <2>3. PublishTable(h, r) => Suits(r)
    BY <1>2, <2>1 DEF PublishTable, Suits, IsBlock
  <2>4. UnstageTable(h, r) => Suits(r)
    BY <2>1 DEF UnstageTable, Suits, IsBlock
  <2>5. DetachTable(h, r) => Suits(r)
    BY <1>1, <1>3, <2>1 DEF DetachTable, Suits, Volume
  <2>6. Suits(r)
    BY <2>1, <2>2, <2>3, <2>4, <2>5
  <2> QED
    BY <2>6 DEF r
<1> QED
  BY <1>4, <1>5

LEMMA SuitsAfterFault ==
  ASSUME NEW h \in Handlers, Suits(handler[h]), Faulted(h)
  PROVE  Suits(handler'[h])
BY IdleFields DEF Faulted, FaultTable, Suits, IsBlock, Volume

LEMMA SuitsNext ==
  ASSUME TypeInv, NamesInv, Next
  PROVE  StepsSuit'
<1>1. \A h \in Handlers : Suits(handler[h])
  BY DEF NamesInv, StepsSuit
<1>2. ASSUME NEW h \in Handlers, HandlerStep(h)
      PROVE  \A g \in Handlers : Suits(handler'[g])
  <2>1. \A g \in Handlers \ {h} : handler'[g] = handler[g]
    BY <1>2, HandlerMoves DEF Moves
  <2>2. Suits(handler'[h])
    BY <1>2, SuitsAfterStep
  <2> QED
    BY <1>1, <2>1, <2>2
<1>3. ASSUME NEW h \in Handlers, NEW n \in Nodes, NEW v \in Volumes, NEW op \in Ops, Called(h, n, v, op)
      PROVE  \A g \in Handlers : Suits(handler'[g])
  <2> DEFINE pc == FirstPc[op]
             r == [Idle EXCEPT !.op = op, !.pc = pc, !.node = n, !.volume = v, !.live = TRUE]
  <2>1. \A g \in Handlers \ {h} : handler'[g] = handler[g]
    BY <1>3, CalledGood
  <2>2. handler'[h] = r
    BY <1>3 DEF Called, TypeInv, HandlersInv
  <2>3. pc \in {"map", "findStaged", "checkTarget", "findDevice", "getLuns"}
    BY DEF FirstPc, Ops
  <2> HIDE DEF pc
  <2>4. r.pc = pc
    BY DEF Idle
  <2> HIDE DEF r
  <2>5. Suits(r)
    BY <2>3, <2>4 DEF Suits
  <2> QED
    BY <1>1, <2>1, <2>2, <2>5
<1>4. ASSUME Outside PROVE \A g \in Handlers : Suits(handler'[g])
  BY <1>1, <1>4, OutsideSteps, SuitsAfterFault
<1>5. \A g \in Handlers : Suits(handler'[g])
  BY <1>2, <1>3, <1>4, NextKinds
<1> QED
  BY <1>5 DEF StepsSuit, Suits

\* A new mapping is at an address that had none on its node.
LEMMA MapFindsFree ==
  ASSUME TypeInv, NEW h \in Handlers, Map(h)
  PROVE  \/ mapping' = mapping
         \/ \E a \in Addresses :
              /\ mapping' = mapping \cup {[volume |-> Volume(h), node |-> Node(h), at |-> a]}
              /\ \A m \in mapping : ~(m.node = Node(h) /\ m.at = a)
<1> DEFINE New(a) == [volume |-> Volume(h), node |-> Node(h), at |-> a]
<1>1. \/ mapping' = mapping
      \/ \E a \in Addresses : MappedAt(Node(h), a) = {} /\ mapping' = mapping \cup {New(a)}
  BY DEF Map
<1>2. ASSUME NEW a, MappedAt(Node(h), a) = {}
      PROVE  \A m \in mapping : ~(m.node = Node(h) /\ m.at = a)
  BY <1>2 DEF MappedAt
<1> HIDE DEF New
<1>3. \/ mapping' = mapping
      \/ \E a \in Addresses : /\ mapping' = mapping \cup {New(a)}
                              /\ \A m \in mapping : ~(m.node = Node(h) /\ m.at = a)
  BY <1>1, <1>2
<1> QED
  BY <1>3 DEF New

LEMMA SingleMappingsNext ==
  ASSUME TypeInv, NamesInv, Next
  PROVE  MappingsAreSingle'
<1>0. MappingsAreSingle
  BY DEF NamesInv
<1>1. ASSUME NEW h \in Handlers, Map(h)
      PROVE  MappingsAreSingle'
  <2>1. CASE mapping' = mapping
    BY <1>0, <2>1 DEF MappingsAreSingle
  <2>2. ASSUME NEW a \in Addresses, \A m \in mapping : ~(m.node = Node(h) /\ m.at = a),
               mapping' = mapping \cup {[volume |-> Volume(h), node |-> Node(h), at |-> a]}
        PROVE  MappingsAreSingle'
    BY <1>0, <2>2 DEF MappingsAreSingle
  <2> QED
    BY <1>1, <2>1, <2>2, MapFindsFree
<1>2. mapping' \subseteq mapping => MappingsAreSingle'
  BY <1>0 DEF MappingsAreSingle
<1>3. ASSUME NEW h \in Handlers, HandlerStep(h), ~Map(h)
      PROVE  mapping' \subseteq mapping
  BY <1>3, MappingSteps DEF DestroyLun
<1>4. (\E h \in Handlers, n \in Nodes, v \in Volumes, op \in Ops : Called(h, n, v, op))
        => mapping' = mapping
  BY DEF Called
<1> QED
  BY <1>1, <1>2, <1>3, <1>4, NextKinds, OutsideSteps

\* The devices after a step, at one name.
LEMMA DevicesNext ==
  ASSUME TypeInv, Next
  PROVE  \/ UNCHANGED device
         \/ \E h \in Handlers : /\ RemoveDevice(h) /\ handler[h].dev # None
                                /\ \A n \in Nodes, e \in Devices :
                                     device'[n][e] = IF n = Node(h) /\ e = handler[h].dev
                                                     THEN None ELSE device[n][e]
         \/ \E m \in Nodes, d \in Devices, a \in Addresses :
              /\ DeviceAppears(m, d, a)
              /\ \A n \in Nodes, e \in Devices :
                   device'[n][e] = IF n = m /\ e = d THEN a ELSE device[n][e]
         \/ \E m \in Nodes : /\ NodeReboot(m)
                             /\ \A n \in Nodes, e \in Devices :
                                  device'[n][e] = IF n = m THEN None ELSE device[n][e]
<1>0. device \in [Nodes -> [Devices -> Addresses \cup {None}]]
  BY DEF TypeInv, WorldInv
<1>1. ASSUME NEW h \in Handlers, RemoveDevice(h), handler[h].dev # None
      PROVE  \A n \in Nodes, e \in Devices :
               device'[n][e] = IF n = Node(h) /\ e = handler[h].dev THEN None ELSE device[n][e]
  BY <1>0, <1>1 DEF RemoveDevice
<1>2. ASSUME NEW h \in Handlers, RemoveDevice(h), handler[h].dev = None
      PROVE  UNCHANGED device
  BY <1>2 DEF RemoveDevice, kernel
<1>3. ASSUME NEW m \in Nodes, NEW d \in Devices, NEW a \in Addresses, DeviceAppears(m, d, a)
      PROVE  \A n \in Nodes, e \in Devices :
               device'[n][e] = IF n = m /\ e = d THEN a ELSE device[n][e]
  BY <1>0, <1>3 DEF DeviceAppears
<1>4. ASSUME NEW m \in Nodes, NodeReboot(m)
      PROVE  \A n \in Nodes, e \in Devices : device'[n][e] = IF n = m THEN None ELSE device[n][e]
  BY <1>0, <1>4 DEF NodeReboot
<1>5. ASSUME \/ \E h \in Handlers, n \in Nodes, v \in Volumes, op \in Ops : Called(h, n, v, op)
             \/ \E n \in Nodes, v \in Volumes : ControllerPublishVolume(n, v) \/ Write(n, v)
             \/ \E h \in Handlers : Fail(h) \/ ResolveNotFound(h) \/ AbandonCall(h)
             \/ RestartController
             \/ \E n \in Nodes : RestartNodePlugin(n)
      PROVE  UNCHANGED device
  BY <1>5 DEF Called, ControllerPublishVolume, Write, Fail, ResolveNotFound, AbandonCall,
     RestartController, RestartNodePlugin, kernel
<1>6. (\E h \in Handlers : HandlerStep(h)) =>
        UNCHANGED device \/ \E h \in Handlers : RemoveDevice(h)
  BY DeviceSteps
<1> QED
  BY <1>1, <1>2, <1>3, <1>4, <1>5, <1>6, NextKinds DEF Outside

LEMMA SingleDevicesNext ==
  ASSUME TypeInv, NamesInv, Next
  PROVE  DevicesAreSingle'
<1>0. DevicesAreSingle
  BY DEF NamesInv
<1>1. CASE UNCHANGED device
  BY <1>0, <1>1 DEF DevicesAreSingle
<1>2. ASSUME NEW m, NEW d, NEW a, \A o \in Devices : device[m][o] # a, m \in Nodes,
             \A n \in Nodes, e \in Devices :
               device'[n][e] = IF n = m /\ e = d THEN a ELSE device[n][e]
      PROVE  DevicesAreSingle'
  <2> SUFFICES ASSUME NEW n \in Nodes, NEW e \in Devices, NEW f \in Devices,
                      device'[n][e] # None, device'[n][e] = device'[n][f]
               PROVE  e = f
    BY DEF DevicesAreSingle
  <2>1. /\ device'[n][e] = IF n = m /\ e = d THEN a ELSE device[n][e]
        /\ device'[n][f] = IF n = m /\ f = d THEN a ELSE device[n][f]
        /\ n = m => device[n][e] # a /\ device[n][f] # a
    BY <1>2
  <2> QED
    BY <1>0, <2>1 DEF DevicesAreSingle
<1>3. ASSUME NEW m \in Nodes,
             \A n \in Nodes, e \in Devices : device'[n][e] = IF n = m THEN None ELSE device[n][e]
      PROVE  DevicesAreSingle'
  BY <1>0, <1>3 DEF DevicesAreSingle
<1>4. ASSUME NEW m \in Nodes, NEW d \in Devices, NEW a \in Addresses, DeviceAppears(m, d, a)
      PROVE  \A o \in Devices : device[m][o] # a
  BY <1>4 DEF DeviceAppears
<1>5. ASSUME NEW h \in Handlers,
             \A n \in Nodes, e \in Devices :
               device'[n][e] = IF n = Node(h) /\ e = handler[h].dev THEN None ELSE device[n][e]
      PROVE  DevicesAreSingle'
  BY <1>0, <1>5 DEF DevicesAreSingle
<1>6. ASSUME NEW m \in Nodes, NEW d \in Devices, NEW a \in Addresses, DeviceAppears(m, d, a),
             \A n \in Nodes, e \in Devices :
               device'[n][e] = IF n = m /\ e = d THEN a ELSE device[n][e]
      PROVE  DevicesAreSingle'
  BY <1>2, <1>4, <1>6
<1> QED
  BY <1>1, <1>3, <1>5, <1>6, DevicesNext

LEMMA SoundPathsNext ==
  ASSUME TypeInv, NamesInv, Next
  PROVE  PathsAreSound'
<1>1. \A n \in Nodes, v \in Volumes : SoundPath(n, v, staging[n][v]) /\ SoundPath(n, v, target[n][v])
  BY DEF NamesInv, PathsAreSound
<1>2. ASSUME UNCHANGED <<device, staging, target>>
      PROVE  PathsAreSound'
  BY <1>1, <1>2 DEF PathsAreSound, SoundPath
<1>3. ASSUME NEW m \in Nodes, NEW d \in Devices, NEW a \in Addresses, DeviceAppears(m, d, a)
      PROVE  PathsAreSound'
  <2>1. /\ \A n \in Nodes, e \in Devices : ~(n = m /\ e = d) => device'[n][e] = device[n][e]
        /\ UNCHANGED <<staging, target>>
    BY <1>3 DEF DeviceAppears, TypeInv, WorldInv
  <2>2. ASSUME NEW v \in Volumes, NEW p, p \in {staging[m][v], target[m][v]}, p.is = "mount"
        PROVE  p.dev # d
    BY <1>3, <2>2 DEF DeviceAppears, MountedOn, Paths
  <2>3. ASSUME NEW n \in Nodes, NEW v \in Volumes, NEW p, p \in {staging[n][v], target[n][v]}
        PROVE  p.is = "mount" => p.at = device'[n][p.dev]
    <3>1. SoundPath(n, v, p)
      BY <1>1, <2>3
    <3> QED
      BY <2>1, <2>2, <2>3, <3>1 DEF SoundPath, Holds
  <2>4. \A n \in Nodes, v \in Volumes : /\ staging[n][v].is = "mount" =>
                                             staging[n][v].at = device'[n][staging[n][v].dev]
                                        /\ target[n][v].is = "mount" =>
                                             target[n][v].at = device'[n][target[n][v].dev]
    BY <2>3
  <2> QED
    BY <1>1, <2>1, <2>4 DEF PathsAreSound, SoundPath
<1>4. ASSUME NEW m \in Nodes, NodeReboot(m)
      PROVE  PathsAreSound'
  <2>0. staging \in AllPaths /\ target \in AllPaths
    BY DEF TypeInv, WorldInv, PathsInv, AllPaths
  <2>1. /\ \A n \in Nodes \ {m} : device'[n] = device[n]
        /\ \A n \in Nodes, v \in Volumes :
             /\ staging'[n][v] = IF n = m THEN AfterReboot(staging[n][v]) ELSE staging[n][v]
             /\ target'[n][v] = IF n = m THEN AfterReboot(target[n][v]) ELSE target[n][v]
    BY <1>4, <2>0 DEF NodeReboot, AllPaths, TypeInv, WorldInv
  <2>2. ASSUME NEW n \in Nodes, NEW v \in Volumes, NEW p, SoundPath(n, v, p)
        PROVE  /\ AfterReboot(p).is # "mount" /\ SoundPath(n, v, AfterReboot(p))
    BY <2>2, PlainPaths DEF AfterReboot, SoundPath, Holds
  <2>3. ASSUME NEW n \in Nodes, NEW v \in Volumes, NEW p, NEW q, SoundPath(n, v, p),
               q = IF n = m THEN AfterReboot(p) ELSE p
        PROVE  /\ SoundPath(n, v, q) /\ (q.is = "mount" => q.at = device'[n][q.dev])
    BY <2>1, <2>2, <2>3 DEF SoundPath
  <2>4. \A n \in Nodes, v \in Volumes :
          /\ SoundPath(n, v, staging'[n][v]) /\ SoundPath(n, v, target'[n][v])
          /\ staging'[n][v].is = "mount" => staging'[n][v].at = device'[n][staging'[n][v].dev]
          /\ target'[n][v].is = "mount" => target'[n][v].at = device'[n][target'[n][v].dev]
    BY <1>1, <2>1, <2>3
  <2> QED
    BY <2>4 DEF PathsAreSound, SoundPath
<1>5. ASSUME \/ \E h \in Handlers, n \in Nodes, v \in Volumes, op \in Ops : Called(h, n, v, op)
             \/ \E n \in Nodes, v \in Volumes : ControllerPublishVolume(n, v) \/ Write(n, v)
             \/ \E h \in Handlers : Fail(h) \/ ResolveNotFound(h) \/ AbandonCall(h)
             \/ RestartController
             \/ \E n \in Nodes : RestartNodePlugin(n)
      PROVE  UNCHANGED <<device, staging, target>>
  BY <1>5 DEF Called, ControllerPublishVolume, Write, Fail, ResolveNotFound, AbandonCall,
     RestartController, RestartNodePlugin, kernel
<1> QED
  BY <1>2, <1>3, <1>4, <1>5, NextKinds, PathsStaySound DEF Outside

LEMMA NamesHold == Spec => []NamesInv
<1>1. ASSUME TypeInv, NamesInv, Next PROVE NamesInv'
  BY <1>1, SuitsNext, SingleMappingsNext, SingleDevicesNext, SoundPathsNext DEF NamesInv
<1>2. ASSUME NamesInv, UNCHANGED vars PROVE NamesInv'
  BY <1>2 DEF vars, kernel, NamesInv, PathsAreSound, SoundPath, MappingsAreSingle, DevicesAreSingle,
     StepsSuit, Suits
<1>3. TypeInv /\ NamesInv /\ [Next]_vars => NamesInv'
  BY <1>1, <1>2
<1> QED
  BY <1>3, NamesInit, TypeHolds, PTL DEF Spec

-----------------------------------------------------------------------------
(* Who works on a volume: where every volume is on one node at a time, a   *)
(* quiet node has its volumes for itself.                                  *)

OneNodeEach ==
  \A n, m \in Nodes, v \in Volumes : phase[n][v] # "detached" /\ phase[m][v] # "detached" => n = m

\* Late handlers included.
WorkFits ==
  \A h \in Handlers :
    Node(h) \in Nodes /\ Quiet(Node(h)) =>
      handler[h].op \in Ops /\ phase[Node(h)][Volume(h)] = Begun[handler[h].op]

WorkIsAlone ==
  \A g, h \in Handlers :
    Node(h) \in Nodes /\ Quiet(Node(h)) /\ Volume(g) = Volume(h) => g = h

LateAreAway ==
  \A n \in Nodes, v \in Volumes, g \in Handlers :
    Quiet(n) /\ phase[n][v] \notin {"detached", "attached"} /\ Volume(g) = v => Node(g) = n

AloneInv == OneNodeEach /\ WorkFits /\ WorkIsAlone /\ LateAreAway

LEMMA AloneInit ==
  ASSUME Init
  PROVE  AloneInv
<1>1. \A h \in Handlers : Node(h) = None
  BY IdleFields DEF Init, Node
<1>2. \A n \in Nodes, v \in Volumes : phase[n][v] = "detached"
  BY DEF Init
<1> QED
  BY <1>1, <1>2, NoneAssumption DEF AloneInv, OneNodeEach, WorkFits, WorkIsAlone, LateAreAway

\* Idle handlers have no volume.
LEMMA AboutVolume ==
  ASSUME TypeInv, NEW h \in Handlers
  PROVE  /\ Volume(h) \in Volumes <=> Node(h) \in Nodes
         /\ handler[h].pc # "idle" <=> Node(h) \in Nodes
<1>1. handler[h] \in Local /\ Good(handler[h])
  BY DEF TypeInv, HandlersInv
<1> QED
  BY <1>1, IdleFields, NoneAssumption DEF Good, Node, Volume

\* A handler after a quiet step, as WentOn has it.
LEMMA VolumeWentOn ==
  ASSUME TypeInv, TypeInv', Quietly, NEW h \in Handlers, Volume(h)' \in Volumes
  PROVE  /\ Node(h)' = Node(h) /\ Volume(h)' = Volume(h) /\ handler'[h].op = handler[h].op
         /\ Node(h) \in Nodes /\ Volume(h) \in Volumes
<1>1. handler'[h] \in Local /\ Good(handler'[h])
  BY DEF TypeInv, HandlersInv, Good
<1>2. Node(h)' \in Nodes
  BY <1>1, IdleFields, NoneAssumption DEF Good, Node, Volume
<1> QED
  BY <1>2, WentOn, AboutVolume

LEMMA NodeWentOn ==
  ASSUME TypeInv, TypeInv', Quietly, NEW h \in Handlers, Node(h)' \in Nodes
  PROVE  /\ Node(h)' = Node(h) /\ Volume(h)' = Volume(h) /\ handler'[h].op = handler[h].op
         /\ Node(h) \in Nodes /\ Volume(h) \in Volumes /\ Volume(h)' \in Volumes
BY WentOn, AboutVolume

LEMMA WorkStaysAlone ==
  ASSUME TypeInv, TypeInv', Quietly, AloneInv
  PROVE  WorkIsAlone'
<1> SUFFICES ASSUME NEW g \in Handlers, NEW h \in Handlers, Node(h)' \in Nodes, Quiet(Node(h))',
                    Volume(g)' = Volume(h)'
             PROVE  g = h
  BY DEF WorkIsAlone
<1>1. Node(h)' = Node(h) /\ Volume(h)' = Volume(h) /\ Node(h) \in Nodes /\ Volume(h)' \in Volumes
  BY NodeWentOn
<1>2. Volume(g)' = Volume(g)
  BY <1>1, VolumeWentOn
<1>3. Quiet(Node(h))
  BY <1>1 DEF Quiet, Quietly
<1> QED
  BY <1>1, <1>2, <1>3 DEF AloneInv, WorkIsAlone

\* Where a step brings a pair of node and volume out of neither state of rest, ...
LEMMA LateStayAway ==
  ASSUME TypeInv, TypeInv', Quietly, AloneInv,
         \A n \in Nodes, v \in Volumes :
           phase'[n][v] \notin {"detached", "attached"} => phase[n][v] \notin {"detached", "attached"}
  PROVE  LateAreAway'
<1> SUFFICES ASSUME NEW n \in Nodes, NEW v \in Volumes, NEW g \in Handlers, Quiet(n)',
                    phase'[n][v] \notin {"detached", "attached"}, Volume(g)' = v
             PROVE  Node(g)' = n
  BY DEF LateAreAway
<1>1. Node(g)' = Node(g) /\ Volume(g) = v
  BY VolumeWentOn
<1>2. Quiet(n)
  BY DEF Quiet, Quietly
<1> QED
  BY <1>1, <1>2 DEF AloneInv, LateAreAway

\* ... attaches none, ...
LEMMA OneNodeStays ==
  ASSUME AloneInv,
         \A n \in Nodes, v \in Volumes : phase'[n][v] # "detached" => phase[n][v] # "detached"
  PROVE  OneNodeEach'
BY DEF AloneInv, OneNodeEach

\* ... or leaves those at work as they are.
LEMMA WorkStaysFit ==
  ASSUME TypeInv, TypeInv', Quietly, AloneInv,
         \A h \in Handlers :
           Node(h)' \in Nodes /\ Quiet(Node(h)) => phase'[Node(h)][Volume(h)] = phase[Node(h)][Volume(h)]
  PROVE  WorkFits'
<1> SUFFICES ASSUME NEW h \in Handlers, Node(h)' \in Nodes, Quiet(Node(h))'
             PROVE  handler'[h].op \in Ops /\ phase'[Node(h)'][Volume(h)'] = Begun[handler'[h].op]
  BY DEF WorkFits
<1>1. /\ Node(h)' = Node(h) /\ Volume(h)' = Volume(h) /\ handler'[h].op = handler[h].op
      /\ Node(h) \in Nodes
  BY NodeWentOn
<1>2. Quiet(Node(h))
  BY <1>1 DEF Quiet, Quietly
<1> QED
  BY <1>1, <1>2 DEF AloneInv, WorkFits

LEMMA CalledAlone ==
  ASSUME TypeInv, AloneInv, NEW h \in Handlers, NEW n \in Nodes, NEW v \in Volumes, NEW op \in Ops,
         Called(h, n, v, op)
  PROVE  AloneInv'
<1>1. /\ excused \subseteq excused' /\ \A g \in Handlers \ {h} : handler'[g] = handler[g]
      /\ handler'[h].op = op /\ handler'[h].node = n /\ handler'[h].volume = v
  BY CalledGood
<1>2. /\ \A g \in Handlers \ {h} : /\ Node(g)' = Node(g) /\ Volume(g)' = Volume(g)
                                   /\ handler'[g].op = handler[g].op
      /\ Node(h)' = n /\ Volume(h)' = v
  BY <1>1 DEF Node, Volume
<1>3. Quiet(n)' => \A g \in Handlers : Volume(g) # v
  BY DEF Called, Quiet, Volume
<1>4. \A n2 \in Nodes, v2 \in Volumes :
        phase'[n2][v2] = IF n2 = n /\ v2 = v THEN Begun[op] ELSE phase[n2][v2]
  BY DEF Called, TypeInv, WorldInv
<1>5. Begun[op] \notin {"detached", "attached"} /\ phase[n][v] # "detached"
  BY OpFacts DEF Called
<1>6. \A n2 \in Nodes : Quiet(n2)' => Quiet(n2)
  BY <1>1 DEF Quiet
<1>7. OneNodeEach'
  BY <1>4, <1>5, OneNodeStays
<1>8. WorkFits'
  <2>1. ASSUME NEW g \in Handlers, g # h, Node(g) \in Nodes, Quiet(Node(g))'
        PROVE  handler[g].op \in Ops /\ phase'[Node(g)][Volume(g)] = Begun[handler[g].op]
    <3>1. Quiet(Node(g)) /\ Volume(g) \in Volumes
      BY <1>6, <1>2, <2>1, AboutVolume DEF Quiet
    <3>2. ~(Node(g) = n /\ Volume(g) = v)
      BY <1>2, <1>3, <2>1 DEF Quiet
    <3> QED
      BY <1>4, <2>1, <3>1, <3>2 DEF AloneInv, WorkFits
  <2> QED
    BY <1>1, <1>2, <1>4, <2>1 DEF WorkFits
<1>9. WorkIsAlone'
  <2> SUFFICES ASSUME NEW g \in Handlers, NEW k \in Handlers, Node(k)' \in Nodes, Quiet(Node(k))',
                      Volume(g)' = Volume(k)'
               PROVE  g = k
    BY DEF WorkIsAlone
  <2>1. CASE k = h
    BY <1>2, <1>3, <2>1 DEF Quiet
  <2>2. CASE k # h
    <3>1. Node(k)' = Node(k) /\ Volume(k)' = Volume(k) /\ Node(k) \in Nodes /\ Quiet(Node(k))
      BY <1>2, <1>6, <2>2 DEF Quiet
    <3>2. CASE g = h
      <4>1. Volume(k) = v /\ phase[Node(k)][v] = Begun[handler[k].op] /\ handler[k].op \in Ops
        BY <1>2, <3>1, <3>2 DEF AloneInv, WorkFits
      <4>2. phase[Node(k)][v] # "detached"
        BY <4>1, OpFacts
      <4>3. Node(k) = n
        BY <1>5, <3>1, <4>2 DEF AloneInv, OneNodeEach
      <4> QED
        BY <1>2, <1>3, <3>1, <4>1, <4>3 DEF Quiet
    <3>3. CASE g # h
      <4>1. Volume(g)' = Volume(g)
        BY <1>2, <3>3
      <4> QED
        BY <3>1, <4>1 DEF AloneInv, WorkIsAlone
    <3> QED
      BY <3>2, <3>3
  <2> QED
    BY <2>1, <2>2
<1>10. LateAreAway'
  <2> SUFFICES ASSUME NEW n2 \in Nodes, NEW v2 \in Volumes, NEW g \in Handlers, Quiet(n2)',
                      phase'[n2][v2] \notin {"detached", "attached"}, Volume(g)' = v2
               PROVE  Node(g)' = n2
    BY DEF LateAreAway
  <2>1. CASE v2 = v
    <3>1. phase[n2][v] # "detached"
      BY <1>4, <1>5, <2>1
    <3>2. n2 = n
      BY <1>5, <3>1 DEF AloneInv, OneNodeEach
    <3>3. g = h
      BY <1>2, <1>3, <2>1, <3>2
    <3> QED
      BY <1>2, <3>2, <3>3
  <2>2. CASE v2 # v
    <3>1. g # h /\ Node(g)' = Node(g) /\ Volume(g) = v2 /\ Quiet(n2) /\ phase'[n2][v2] = phase[n2][v2]
      BY <1>2, <1>4, <1>6, <2>2
    <3> QED
      BY <3>1 DEF AloneInv, LateAreAway
  <2> QED
    BY <2>1, <2>2
<1> QED
  BY <1>7, <1>8, <1>9, <1>10 DEF AloneInv

LEMMA ReplyAlone ==
  ASSUME TypeInv, TypeInv', Quietly, AloneInv, DetachInv, NEW h \in Handlers, Reply(h)
  PROVE  AloneInv'
<1>1. /\ handler[h].pc = "reply" /\ handler'[h] = Idle
      /\ phase \in [Nodes -> [Volumes -> Phases]]
  BY ReplyMoves DEF Reply, At, TypeInv, WorldInv
<1> DEFINE n == Node(h)  v == Volume(h)  to == Answered(handler[h].op)
<1>2. n \in Nodes /\ v \in Volumes
  BY <1>1, AtWork
<1>3. CASE ~handler[h].live
  <2>1. phase' = phase
    BY <1>3 DEF Reply
  <2> QED
    BY <2>1, WorkStaysAlone, LateStayAway, OneNodeStays, WorkStaysFit DEF AloneInv
<1>4. CASE handler[h].live
  <2>1. \A n2 \in Nodes, v2 \in Volumes :
          phase'[n2][v2] = IF n2 = n /\ v2 = v THEN to ELSE phase[n2][v2]
    BY <1>1, <1>2, <1>4 DEF Reply
  <2>2. phase[n][v] = Begun[handler[h].op] /\ handler[h].op \in Ops
    BY <1>4 DEF DetachInv, CallsInv, CallsFitPhase
  <2>3. phase[n][v] \notin {"detached", "attached"}
    BY <2>2, OpFacts
  <2>4. ASSUME NEW g \in Handlers, Node(g)' \in Nodes, Quiet(Node(g))
        PROVE  phase'[Node(g)][Volume(g)] = phase[Node(g)][Volume(g)]
    <3>1. Node(g) \in Nodes /\ Volume(g) \in Volumes
      BY <2>4, NodeWentOn
    <3>2. g # h
      BY <1>1, <2>4, IdleFields, NoneAssumption DEF Node
    <3>3. ~(Node(g) = n /\ Volume(g) = v)
      BY <1>4, <2>4, <3>2 DEF DetachInv, CallsInv, CallsAreAlone
    <3> QED
      BY <2>1, <3>1, <3>3
  <2> HIDE DEF n, v, to
  <2>5. /\ \A n2 \in Nodes, v2 \in Volumes : phase'[n2][v2] # "detached" => phase[n2][v2] # "detached"
        /\ \A n2 \in Nodes, v2 \in Volumes :
             phase'[n2][v2] \notin {"detached", "attached"} =>
               phase[n2][v2] \notin {"detached", "attached"}
    BY <2>1, <2>3
  <2>6. WorkFits'
    BY <2>4, WorkStaysFit
  <2> QED
    BY <2>5, <2>6, WorkStaysAlone, LateStayAway, OneNodeStays DEF AloneInv
<1> QED
  BY <1>3, <1>4

LEMMA PublishAlone ==
  ASSUME TypeInv, TypeInv', Quietly, AloneInv, SharedVolumes = {}, NEW n \in Nodes, NEW v \in Volumes,
         ControllerPublishVolume(n, v)
  PROVE  AloneInv'
<1>1. /\ \A o \in Nodes : phase[o][v] = "detached"
      /\ \A n2 \in Nodes, v2 \in Volumes :
           phase'[n2][v2] = IF n2 = n /\ v2 = v THEN "attached" ELSE phase[n2][v2]
  BY DEF ControllerPublishVolume, TypeInv, WorldInv
<1>2. OneNodeEach'
  BY <1>1 DEF AloneInv, OneNodeEach
<1>3. ASSUME NEW h \in Handlers, Node(h)' \in Nodes, Quiet(Node(h))
      PROVE  phase'[Node(h)][Volume(h)] = phase[Node(h)][Volume(h)]
  <2>1. Node(h) \in Nodes /\ Volume(h) \in Volumes
    BY <1>3, NodeWentOn
  <2>2. handler[h].op \in Ops /\ phase[Node(h)][Volume(h)] = Begun[handler[h].op]
    BY <1>3, <2>1 DEF AloneInv, WorkFits
  <2>3. phase[Node(h)][Volume(h)] # "detached"
    BY <2>2, OpFacts
  <2> QED
    BY <1>1, <2>1, <2>3
<1>4. WorkFits'
  BY <1>3, WorkStaysFit
<1>5. \A n2 \in Nodes, v2 \in Volumes :
        phase'[n2][v2] \notin {"detached", "attached"} => phase[n2][v2] \notin {"detached", "attached"}
  BY <1>1
<1> QED
  BY <1>2, <1>4, <1>5, WorkStaysAlone, LateStayAway DEF AloneInv

LEMMA RebootAlone ==
  ASSUME TypeInv, TypeInv', Quietly, AloneInv, NEW n \in Nodes, NodeReboot(n)
  PROVE  AloneInv'
<1>1. \A n2 \in Nodes, v \in Volumes :
        phase'[n2][v] = IF n2 = n THEN Again(phase[n2][v]) ELSE phase[n2][v]
  BY DEF NodeReboot, TypeInv, WorldInv
<1>2. \A n2 \in Nodes, v \in Volumes : phase[n2][v] \in Phases
  BY DEF TypeInv, WorldInv
<1>3. \A p \in Phases : /\ Again(p) # "detached" => p # "detached"
                        /\ Again(p) \notin {"detached", "attached"} => p \notin {"detached", "attached"}
  BY DEF Again
<1>4. ASSUME NEW h \in Handlers, Node(h)' \in Nodes, Quiet(Node(h))
      PROVE  phase'[Node(h)][Volume(h)] = phase[Node(h)][Volume(h)]
  <2>1. Node(h) \in Nodes /\ Volume(h) \in Volumes /\ handler'[h] # Idle
    BY <1>4, NodeWentOn, IdleFields, NoneAssumption DEF Node
  <2>2. phase[Node(h)][Volume(h)] = Begun[handler[h].op]
    BY <1>4, <2>1 DEF AloneInv, WorkFits
  <2>3. Node(h) = n => handler[h].op = "Detach"
    BY <2>1 DEF NodeReboot, OnController
  <2>4. Again(Begun["Detach"]) = Begun["Detach"]
    BY DEF Again, Begun
  <2> QED
    BY <1>1, <2>1, <2>2, <2>3, <2>4
<1>5. WorkFits'
  BY <1>4, WorkStaysFit
<1>6. /\ \A n2 \in Nodes, v \in Volumes : phase'[n2][v] # "detached" => phase[n2][v] # "detached"
      /\ \A n2 \in Nodes, v \in Volumes :
           phase'[n2][v] \notin {"detached", "attached"} => phase[n2][v] \notin {"detached", "attached"}
  BY <1>1, <1>2, <1>3
<1> QED
  BY <1>5, <1>6, WorkStaysAlone, LateStayAway, OneNodeStays DEF AloneInv

LEMMA AloneNext ==
  ASSUME TypeInv, DetachInv, AloneInv, SharedVolumes = {}, [Next]_vars
  PROVE  AloneInv'
<1>1. ASSUME NEW h \in Handlers, NEW n \in Nodes, NEW v \in Volumes, NEW op \in Ops,
             Called(h, n, v, op)
      PROVE  AloneInv'
  BY <1>1, CalledAlone
<1>2. ASSUME TypeInv', Quietly, NEW h \in Handlers, Reply(h) PROVE AloneInv'
  BY <1>2, ReplyAlone
<1>3. ASSUME TypeInv', Quietly, NEW n \in Nodes, NEW v \in Volumes, ControllerPublishVolume(n, v)
      PROVE  AloneInv'
  BY <1>3, PublishAlone
<1>4. ASSUME TypeInv', Quietly, NEW n \in Nodes, NodeReboot(n) PROVE AloneInv'
  BY <1>4, RebootAlone
<1>5. ASSUME TypeInv', Quietly, UNCHANGED phase PROVE AloneInv'
  <2>1. WorkFits'
    BY <1>5, WorkStaysFit
  <2> QED
    BY <1>5, <2>1, WorkStaysAlone, LateStayAway, OneNodeStays DEF AloneInv
<1>6. ASSUME UNCHANGED vars PROVE AloneInv'
  BY <1>6 DEF vars, AloneInv, OneNodeEach, WorkFits, WorkIsAlone, LateAreAway, Quiet, Node, Volume
<1> QED
  BY <1>1, <1>2, <1>3, <1>4, <1>5, <1>6, StepKinds

-----------------------------------------------------------------------------
(* What a quiet node holds for a volume is the volume's own.               *)

\* The addresses the volume is mapped at for the node, and the devices found there.
AddressesOf(n, v) == {a \in Addresses : Mapped(n, v, a)}
OwnDevices(n, v) == {d \in Devices : device[n][d] # None /\ Mapped(n, v, device[n][d])}

\* s and t are what is at the staging and the target path, in phase ph: their devices are
\* the volume's, except a link about to be removed.
PlaceIs(own, removing, s, t, ph) ==
  /\ Holds(s) => ph \notin {"detached", "attached", "detaching"} /\ (s.dev \in own \/ removing)
  /\ Holds(t) => ph \in {"publishing", "published", "unpublishing"} /\ t.dev \in own
  /\ ph = "published" => Holds(t)

\* What a handler is about to use is the volume's, and what it is about to remove is not mounted.
WorkIs(own, ats, s, t, r) ==
  /\ r.pc \in {"stat", "wait"} => r.at \in ats
  /\ r.pc \in {"link", "blkid", "format", "mount", "linkTarget", "mountTarget"} => r.dev \in own
  /\ r.pc \in {"unmountStaging", "removeDevice"} => r.dev \in own \cup {None}
  /\ r.pc = "findDevice" => r.dev = None
  /\ r.pc = "reply" /\ r.op = "Publish" => Holds(t)
  /\ r.pc = "reply" /\ r.op = "Unstage" => ~Holds(s)
  /\ r.pc \in {"removeDevice", "removeStaging"} => s.is # "mount"
  /\ r.pc \in {"removeTarget", "removeDir"} => t.is # "mount"

About(h, n, v) == Node(h) = n /\ Volume(h) = v
Removing(n, v) == \E h \in Handlers : About(h, n, v) /\ handler[h].pc = "removeStaging"

Place(n, v) == PlaceIs(OwnDevices(n, v), Removing(n, v), staging[n][v], target[n][v], phase[n][v])
Work(n, v, h) == WorkIs(OwnDevices(n, v), AddressesOf(n, v), staging[n][v], target[n][v], handler[h])
Fits(n, v) == Place(n, v) /\ \A h \in Handlers : About(h, n, v) => Work(n, v, h)

OwnInv == \A n \in Nodes, v \in Volumes : Quiet(n) => Fits(n, v)

LEMMA OwnInit ==
  ASSUME Init
  PROVE  OwnInv
<1>1. \A h \in Handlers : Node(h) = None
  BY IdleFields DEF Init, Node
<1>2. ~Holds(NoPath)
  BY DEF NoPath, Holds
<1> QED
  BY <1>1, <1>2, NoneAssumption DEF Init, OwnInv, Fits, Place, PlaceIs, About

\* With one handler at work on the volume, and none left, and with none.
FitsOne(n, v, h) ==
  /\ PlaceIs(OwnDevices(n, v), handler[h].pc = "removeStaging", staging[n][v], target[n][v], phase[n][v])
  /\ Work(n, v, h)

LEMMA OneFits ==
  ASSUME NEW h \in Handlers, Quiet(Node(h)), Node(h) \in Nodes, Volume(h) \in Volumes, OwnInv, AloneInv
  PROVE  FitsOne(Node(h), Volume(h), h)
<1>1. Fits(Node(h), Volume(h))
  BY DEF OwnInv
<1>2. Removing(Node(h), Volume(h)) => handler[h].pc = "removeStaging"
  BY DEF Removing, About, AloneInv, WorkIsAlone
<1> QED
  BY <1>1, <1>2 DEF Fits, FitsOne, Place, PlaceIs, About

\* Where no handler but h is about the volume, and h is or has returned.
LEMMA FitsAfter ==
  ASSUME NEW n \in Nodes, NEW v \in Volumes, NEW h \in Handlers, FitsOne(n, v, h)',
         \A g \in Handlers : About(g, n, v)' => g = h,
         About(h, n, v)' \/ handler'[h] = Idle
  PROVE  Fits(n, v)'
<1>1. handler'[h].pc = "removeStaging" => About(h, n, v)'
  BY IdleFields
<1>2. handler'[h].pc = "removeStaging" => Removing(n, v)'
  BY <1>1 DEF Removing
<1> QED
  BY <1>2 DEF FitsOne, Fits, Place, PlaceIs

\* A pair of a node and a volume that a step leaves alone.
LEMMA Elsewhere ==
  ASSUME NEW n \in Nodes, NEW v \in Volumes, Fits(n, v), UNCHANGED phase[n][v],
         staging'[n][v].is = staging[n][v].is, staging'[n][v].dev = staging[n][v].dev,
         target'[n][v].is = target[n][v].is, target'[n][v].dev = target[n][v].dev,
         OwnDevices(n, v) \subseteq OwnDevices(n, v)', AddressesOf(n, v) \subseteq AddressesOf(n, v)',
         \A h \in Handlers : About(h, n, v)' <=> About(h, n, v),
         \A h \in Handlers : About(h, n, v) => handler'[h] = handler[h]
  PROVE  Fits(n, v)'
<1>1. Removing(n, v)' <=> Removing(n, v)
  BY DEF Removing
<1>2. Holds(staging'[n][v]) = Holds(staging[n][v]) /\ Holds(target'[n][v]) = Holds(target[n][v])
  BY DEF Holds
<1>3. Place(n, v)'
  BY <1>1, <1>2 DEF Fits, Place, PlaceIs
<1>4. ASSUME NEW h \in Handlers, About(h, n, v)' PROVE Work(n, v, h)'
  <2>1. Work(n, v, h) /\ handler'[h] = handler[h]
    BY <1>4 DEF Fits
  <2> QED
    BY <1>2, <2>1 DEF Work, WorkIs
<1> QED
  BY <1>3, <1>4 DEF Fits

\* One that nobody works on, and that is not in use.
LEMMA Unused ==
  ASSUME NEW n \in Nodes, NEW v \in Volumes, Fits(n, v), UNCHANGED phase[n][v],
         staging'[n][v].is = staging[n][v].is, target'[n][v].is = target[n][v].is,
         phase[n][v] \in {"detached", "attached"}, \A h \in Handlers : ~About(h, n, v)'
  PROVE  Fits(n, v)'
BY DEF Fits, Place, PlaceIs, Holds

\* The devices of two volumes differ.
LEMMA OwnersDiffer ==
  ASSUME NamesInv, NEW n \in Nodes, NEW v \in Volumes, NEW w \in Volumes, NEW d \in Devices,
         d \in OwnDevices(n, v), d \in OwnDevices(n, w)
  PROVE  v = w
BY DEF OwnDevices, Mapped, NamesInv, MappingsAreSingle

LEMMA OwnKept ==
  ASSUME NEW n, NEW v, mapping \subseteq mapping', device'[n] = device[n]
  PROVE  OwnDevices(n, v) \subseteq OwnDevices(n, v)' /\ AddressesOf(n, v) \subseteq AddressesOf(n, v)'
BY DEF OwnDevices, AddressesOf, Mapped

LEMMA OwnSame ==
  ASSUME UNCHANGED <<mapping, device>>, NEW n, NEW v
  PROVE  OwnDevices(n, v)' = OwnDevices(n, v) /\ AddressesOf(n, v)' = AddressesOf(n, v)
BY DEF OwnDevices, AddressesOf, Mapped

LEMMA FoundIsOwn ==
  ASSUME TypeInv, NEW n \in Nodes, NEW v \in Volumes, NEW a \in AddressesOf(n, v), NEW d \in Devices,
         device[n][d] = a
  PROVE  d \in OwnDevices(n, v)
BY NoneAssumption DEF AddressesOf, OwnDevices

-----------------------------------------------------------------------------
(* The steps of a handler, for its own volume.                             *)

LEMMA IdleWorks ==
  ASSUME NEW own, NEW ats, NEW s, NEW t
  PROVE  WorkIs(own, ats, s, t, Idle)
BY IdleFields DEF WorkIs

\* What the invariants say of a handler at work on a quiet node.
LEMMA OwnBefore ==
  ASSUME TypeInv, NamesInv, AloneInv, OwnInv, NEW h \in Handlers, HandlerStep(h), Quiet(Node(h))
  PROVE  /\ Node(h) \in Nodes /\ Volume(h) \in Volumes /\ FitsOne(Node(h), Volume(h), h)
         /\ handler[h].op \in Ops /\ phase[Node(h)][Volume(h)] = Begun[handler[h].op]
         /\ Good(handler[h]) /\ StepTable(h)
         /\ SoundPath(Node(h), Volume(h), staging[Node(h)][Volume(h)])
         /\ SoundPath(Node(h), Volume(h), target[Node(h)][Volume(h)])
<1>1. handler[h].pc # "idle"
  BY WorkerSteps
<1>2. Node(h) \in Nodes /\ Volume(h) \in Volumes /\ Good(handler[h]) /\ StepTable(h)
  BY <1>1, AtWork, HandlerSteps
<1>3. handler[h].op \in Ops /\ phase[Node(h)][Volume(h)] = Begun[handler[h].op]
  BY <1>2 DEF AloneInv, WorkFits
<1>4. FitsOne(Node(h), Volume(h), h)
  BY <1>2, OneFits
<1> QED
  BY <1>2, <1>3, <1>4 DEF NamesInv, PathsAreSound

LEMMA StagePaths ==
  ASSUME TypeInv, NEW h \in Handlers, NEW n \in Nodes, NEW v \in Volumes, n = Node(h), v = Volume(h),
         StageStep(h)
  PROVE  /\ mapping \subseteq mapping' /\ UNCHANGED <<device, target, phase>>
         /\ \/ staging' = staging
            \/ /\ handler[h].pc \in {"link", "mount"} /\ Holds(staging'[n][v])
               /\ staging'[n][v].dev = handler[h].dev
            \/ ~Holds(staging'[n][v])
<1>1. /\ mapping \subseteq mapping' /\ UNCHANGED <<device, target, phase>>
      /\ Link(h) \/ Mount(h) \/ staging' = staging
  BY DEF StageStep, Map, StatPath, DeviceFound, Sleep, DeadlineExceeded, Link, Blkid, Format, Mount,
     kernel
<1>2. \A p : staging' = SetPath(staging, h, p) => staging'[n][v] = p
  BY DEF SetPath, TypeInv, WorldInv, PathsInv
<1>3. CASE Link(h)
  <2>1. /\ handler[h].pc = "link"
        /\ staging' = staging \/ staging' = SetPath(staging, h, LinkTo(handler[h].dev))
    BY <1>3 DEF Link, At
  <2>2. Holds(LinkTo(handler[h].dev)) /\ LinkTo(handler[h].dev).dev = handler[h].dev
    BY DEF LinkTo, Holds
  <2> QED
    BY <1>1, <1>2, <2>1, <2>2
<1>4. CASE Mount(h)
  <2>1. /\ handler[h].pc = "mount"
        /\ \/ staging' = staging
           \/ staging' = SetPath(staging, h, MountOf(Node(h), handler[h].dev))
           \/ staging' = SetPath(staging, h, Dir)
    BY <1>4 DEF Mount, Mounted, At
  <2>2. /\ Holds(MountOf(Node(h), handler[h].dev)) /\ MountOf(Node(h), handler[h].dev).dev = handler[h].dev
        /\ ~Holds(Dir)
    BY DEF MountOf, Holds, Dir
  <2> QED
    BY <1>1, <1>2, <2>1, <2>2
<1> QED
  BY <1>1, <1>3, <1>4

LEMMA StageOwn ==
  ASSUME TypeInv, NamesInv, AloneInv, OwnInv, NEW h \in Handlers, NEW n \in Nodes, NEW v \in Volumes,
         n = Node(h), v = Volume(h), Quiet(n), HandlerStep(h), StageStep(h)
  PROVE  FitsOne(n, v, h)'
<1> DEFINE own == OwnDevices(n, v)    own1 == OwnDevices(n, v)'
           ats == AddressesOf(n, v)   ats1 == AddressesOf(n, v)'
           s == staging[n][v]         s1 == staging'[n][v]
           t == target[n][v]          t1 == target'[n][v]
           o == handler[h]            r == handler'[h]
<1>1. /\ PlaceIs(own, o.pc = "removeStaging", s, t, phase[n][v]) /\ WorkIs(own, ats, s, t, o)
      /\ phase[n][v] = Begun[o.op] /\ Good(o) /\ StepTable(h)
  BY OwnBefore DEF FitsOne, Work
<1>2. o.pc \in StagePcs
  BY DEF StageStep, StagePcs, Map, StatPath, DeviceFound, Sleep, DeadlineExceeded, Link, Blkid, Format,
     Mount, At
<1>3. phase[n][v] = "staging" /\ o.op = "Stage" /\ o.pc # "removeStaging"
  BY <1>1, <1>2 DEF Good, Begun, StagePcs
<1>4. /\ mapping \subseteq mapping' /\ UNCHANGED <<device, target, phase>>
      /\ s1 = s \/ (o.pc \in {"link", "mount"} /\ Holds(s1) /\ s1.dev = o.dev) \/ ~Holds(s1)
  BY StagePaths
<1>5. own \subseteq own1 /\ ats \subseteq ats1
  BY <1>4, OwnKept
<1>6. r = Idle \/ (r.op = "Stage" /\ StageTable(h, r))
  BY <1>1, <1>2, <1>3 DEF StepTable, PublishTable, UnstageTable, DetachTable, StagePcs
<1>7. o.pc = "map" /\ r.pc = "stat" /\ StageTable(h, r) => r.at \in ats1
  <2>1. mapping' \subseteq Mappings
    BY HandlerSteps DEF TypeInv, WorldInv
  <2> QED
    BY <2>1 DEF StageTable, AddressesOf, Mapped, Mappings
<1>8. \A d \in Devices : o.pc = "wait" /\ device[n][d] = o.at => d \in own
  BY <1>1, FoundIsOwn DEF WorkIs
<1>9. t1 = t /\ phase'[n][v] = phase[n][v]
  BY <1>4
<1> HIDE DEF own, own1, ats, ats1, s, s1, t, t1, r
<1>10. PlaceIs(own1, r.pc = "removeStaging", s1, t1, phase'[n][v])
  BY <1>1, <1>3, <1>4, <1>5, <1>9 DEF PlaceIs, WorkIs
<1>11. ASSUME r.op = "Stage", StageTable(h, r) PROVE WorkIs(own1, ats1, s1, t1, r)
  BY <1>1, <1>5, <1>7, <1>8, <1>11 DEF WorkIs, StageTable
<1>12. WorkIs(own1, ats1, s1, t1, r)
  BY <1>6, <1>11, IdleWorks
<1> QED
  BY <1>10, <1>12 DEF FitsOne, Work, own1, ats1, s1, t1, r

LEMMA PublishPaths ==
  ASSUME TypeInv, NEW h \in Handlers, NEW n \in Nodes, NEW v \in Volumes, n = Node(h), v = Volume(h),
         PublishStep(h)
  PROVE  /\ UNCHANGED <<mapping, device, staging, phase>>
         /\ \/ target' = target
            \/ /\ handler[h].pc \in {"linkTarget", "mountTarget"} /\ Holds(target'[n][v])
               /\ target'[n][v].dev = handler[h].dev
            \/ ~Holds(target'[n][v])
         /\ handler[h].pc \in {"linkTarget", "mountTarget"} /\ handler'[h].pc = "reply" =>
              Holds(target'[n][v])
         /\ handler[h].pc = "unmountTarget" => target'[n][v].is # "mount"
         /\ handler[h].pc = "checkTarget" => target' = target
<1>1. /\ UNCHANGED <<mapping, device, staging, phase>>
      /\ FindStaged(h) \/ CheckTarget(h) => target' = target
  BY DEF PublishStep, FindStaged, LinkTarget, MountTarget, CheckTarget, UnmountTarget, RemoveTarget,
     RemoveDir, kernel
<1>2. \A p : target' = SetPath(target, h, p) => target'[n][v] = p
  BY DEF SetPath, TypeInv, WorldInv, PathsInv
<1>3. Return(h) => handler'[h].pc # "reply"
  BY PutIs, IdleFields DEF Return, TypeInv
<1>4. CASE LinkTarget(h)
  <2>1. /\ handler[h].pc = "linkTarget"
        /\ \/ target' = target /\ Return(h)
           \/ target' = SetPath(target, h, LinkTo(handler[h].dev))
    BY <1>4 DEF LinkTarget, At
  <2>2. Holds(LinkTo(handler[h].dev)) /\ LinkTo(handler[h].dev).dev = handler[h].dev
    BY DEF LinkTo, Holds
  <2> QED
    BY <1>1, <1>2, <1>3, <2>1, <2>2
<1>5. CASE MountTarget(h)
  <2>1. /\ handler[h].pc = "mountTarget"
        /\ \/ target' = target /\ target[n][v].is = "mount"
           \/ target' = SetPath(target, h, MountOf(Node(h), handler[h].dev))
           \/ target' = SetPath(target, h, Dir) /\ Return(h)
    BY <1>5 DEF MountTarget, Mounted, At
  <2>2. /\ Holds(MountOf(Node(h), handler[h].dev)) /\ MountOf(Node(h), handler[h].dev).dev = handler[h].dev
        /\ ~Holds(Dir)
    BY DEF MountOf, Holds, Dir
  <2>3. target[n][v].is = "mount" => Holds(target[n][v])
    BY DEF Holds
  <2> QED
    BY <1>1, <1>2, <1>3, <2>1, <2>2, <2>3
<1>6. CASE UnmountTarget(h)
  <2>1. /\ handler[h].pc = "unmountTarget"
        /\ \/ target' = target /\ target[n][v].is # "mount"
           \/ target' = SetPath(target, h, Dir)
    BY <1>6 DEF UnmountTarget, Unmounted, At
  <2> QED
    BY <1>1, <1>2, <2>1, PlainPaths
<1>7. CASE RemoveTarget(h) \/ RemoveDir(h)
  <2>1. /\ handler[h].pc \in {"removeTarget", "removeDir"}
        /\ target' = target \/ target' = SetPath(target, h, NoPath)
    BY <1>7 DEF RemoveTarget, Removed, RemoveDir, At
  <2> QED
    BY <1>1, <1>2, <2>1, PlainPaths
<1>8. CASE FindStaged(h) \/ CheckTarget(h)
  <2>1. handler[h].pc \in {"findStaged", "checkTarget"}
    BY <1>8 DEF FindStaged, CheckTarget, At
  <2> QED
    BY <1>1, <1>8, <2>1
<1> QED
  BY <1>4, <1>5, <1>6, <1>7, <1>8 DEF PublishStep

LEMMA PublishOwn ==
  ASSUME TypeInv, NamesInv, AloneInv, OwnInv, NEW h \in Handlers, NEW n \in Nodes, NEW v \in Volumes,
         n = Node(h), v = Volume(h), Quiet(n), HandlerStep(h), PublishStep(h)
  PROVE  FitsOne(n, v, h)'
<1> DEFINE own == OwnDevices(n, v)    own1 == OwnDevices(n, v)'
           ats == AddressesOf(n, v)   ats1 == AddressesOf(n, v)'
           s == staging[n][v]         s1 == staging'[n][v]
           t == target[n][v]          t1 == target'[n][v]
           o == handler[h]            r == handler'[h]
           ph == phase[n][v]          ph1 == phase'[n][v]
<1>1. /\ PlaceIs(own, o.pc = "removeStaging", s, t, ph) /\ WorkIs(own, ats, s, t, o)
      /\ ph = Begun[o.op] /\ Good(o) /\ StepTable(h)
  BY OwnBefore DEF FitsOne, Work
<1>2. o.pc \in PublishPcs \cup UnpublishPcs
  BY DEF PublishStep, PublishPcs, UnpublishPcs, FindStaged, LinkTarget, MountTarget, CheckTarget,
     UnmountTarget, RemoveTarget, RemoveDir, At
<1>3. /\ o.pc \in PublishPcs => ph = "publishing" /\ o.op = "Publish"
      /\ o.pc \in UnpublishPcs => ph = "unpublishing" /\ o.op = "Unpublish"
      /\ o.pc # "removeStaging"
  BY <1>1, <1>2 DEF Good, Begun, PublishPcs, UnpublishPcs
<1>4. /\ s1 = s /\ ph1 = ph /\ own1 = own /\ ats1 = ats
      /\ t1 = t \/ (o.pc \in {"linkTarget", "mountTarget"} /\ Holds(t1) /\ t1.dev = o.dev) \/ ~Holds(t1)
      /\ o.pc \in {"linkTarget", "mountTarget"} /\ r.pc = "reply" => Holds(t1)
      /\ o.pc = "unmountTarget" => t1.is # "mount"
      /\ o.pc = "checkTarget" => t1 = t
  BY PublishPaths, OwnSame
<1>5. r = Idle \/ (r.op = o.op /\ PublishTable(h, r))
  BY <1>1, <1>2 DEF StepTable, StageTable, UnstageTable, DetachTable, PublishPcs, UnpublishPcs
<1>6. s = staging[Node(h)][Volume(h)] /\ t = target[Node(h)][Volume(h)]
  OBVIOUS
<1> HIDE DEF own, own1, ats, ats1, s, s1, t, t1, r, ph, ph1
<1>7. PlaceIs(own1, r.pc = "removeStaging", s1, t1, ph1)
  BY <1>1, <1>2, <1>3, <1>4 DEF PlaceIs, WorkIs, PublishPcs, UnpublishPcs
<1>8. ASSUME r.op = o.op, PublishTable(h, r) PROVE WorkIs(own1, ats1, s1, t1, r)
  BY <1>1, <1>2, <1>3, <1>4, <1>6, <1>8 DEF WorkIs, PlaceIs, PublishTable, PublishPcs, UnpublishPcs
<1>9. WorkIs(own1, ats1, s1, t1, r)
  BY <1>5, <1>8, IdleWorks
<1> QED
  BY <1>7, <1>9 DEF FitsOne, Work, own1, ats1, s1, t1, r, ph1

LEMMA UnstagePaths ==
  ASSUME TypeInv, NEW h \in Handlers, NEW n \in Nodes, NEW v \in Volumes, n = Node(h), v = Volume(h),
         UnstageStep(h)
  PROVE  /\ UNCHANGED <<mapping, phase>>
         /\ target'[n][v].is = target[n][v].is /\ target'[n][v].dev = target[n][v].dev
         /\ handler[h].pc # "removeDevice" => UNCHANGED device
         /\ \/ staging'[n][v].is = staging[n][v].is /\ staging'[n][v].dev = staging[n][v].dev
            \/ ~Holds(staging'[n][v])
         /\ handler[h].pc = "findDevice" => staging' = staging
         /\ handler[h].pc = "unmountStaging" => staging'[n][v].is # "mount"
         /\ handler[h].pc = "removeStaging" =>
              \/ staging[n][v].is = "mount"
              \/ ~Holds(staging'[n][v])
<1>0. staging \in AllPaths /\ target \in AllPaths
  BY DEF TypeInv, WorldInv, PathsInv, AllPaths
<1>1. \A p : staging' = SetPath(staging, h, p) => staging'[n][v] = p
  BY <1>0 DEF SetPath, AllPaths
<1>2. CASE FindDevice(h)
  BY <1>2 DEF FindDevice, At, kernel
<1>3. CASE UnmountStaging(h)
  <2>1. /\ handler[h].pc = "unmountStaging" /\ UNCHANGED <<mapping, phase, device, target>>
        /\ \/ staging' = staging /\ staging[n][v].is # "mount"
           \/ staging' = SetPath(staging, h, Dir)
    BY <1>3 DEF UnmountStaging, Unmounted, At
  <2> QED
    BY <1>1, <2>1, PlainPaths
<1>4. CASE RemoveStaging(h)
  <2>1. /\ handler[h].pc = "removeStaging" /\ UNCHANGED <<mapping, phase, device, target>>
        /\ \/ staging' = staging /\ staging[n][v].is = "mount"
           \/ staging' = SetPath(staging, h, NoPath)
    BY <1>4 DEF RemoveStaging, Removed, At
  <2> QED
    BY <1>1, <2>1, PlainPaths
<1>5. CASE RemoveDevice(h)
  <2>1. /\ handler[h].pc = "removeDevice" /\ UNCHANGED <<mapping, phase>>
        /\ \/ staging' = staging /\ target' = target
           \/ /\ staging' = Detached(staging, n, handler[h].dev)
              /\ target' = Detached(target, n, handler[h].dev)
    BY <1>5 DEF RemoveDevice, At, kernel
  <2>2. ASSUME NEW paths \in AllPaths, NEW after, NEW d, after = Detached(paths, n, d)
        PROVE  after[n][v].is = paths[n][v].is /\ after[n][v].dev = paths[n][v].dev
    <3>1. paths[n][v] \in PathStates
      BY DEF AllPaths
    <3>2. after[n][v] = paths[n][v] \/ after[n][v] = [paths[n][v] EXCEPT !.at = None]
      BY <2>2 DEF Detached, AllPaths
    <3> QED
      BY <3>1, <3>2 DEF PathStates
  <2> QED
    BY <1>0, <2>1, <2>2
<1> QED
  BY <1>2, <1>3, <1>4, <1>5 DEF UnstageStep

\* Unstaging ends early only where the path cannot be removed.
LEMMA UnstageEnds ==
  ASSUME TypeInv, NEW h \in Handlers, UnstageStep(h), handler'[h].pc = "idle"
  PROVE  handler[h].pc = "removeStaging"
<1>0. HandlersInv /\ handler[h] \in Local
  BY DEF TypeInv, HandlersInv
<1>1. ASSUME NEW d, NEW pc, handler'[h] = [handler[h] EXCEPT !.dev = d, !.pc = pc] PROVE pc = "idle"
  BY <1>0, <1>1 DEF Local
<1>2. ~FindDevice(h)
  <2> DEFINE pc == IF IsBlock(h) THEN "removeDevice" ELSE "unmountStaging"
  <2>1. FindDevice(h) => handler'[h] = [handler[h] EXCEPT !.dev = staging[Node(h)][Volume(h)].dev,
                                         !.pc = pc]
    BY <1>0, PutIs DEF FindDevice
  <2>2. pc # "idle"
    OBVIOUS
  <2> HIDE DEF pc
  <2> QED
    BY <1>1, <2>1, <2>2
<1>3. ~UnmountStaging(h)
  BY <1>0, GotoIs DEF UnmountStaging
<1>4. ~RemoveDevice(h)
  <2>1. RemoveDevice(h) => handler'[h] = [handler[h] EXCEPT !.pc = "removeStaging", !.dev = None]
    BY <1>0, PutIs DEF RemoveDevice
  <2> QED
    BY <1>0, <2>1 DEF Local
<1> QED
  BY <1>2, <1>3, <1>4 DEF UnstageStep, RemoveStaging, At

LEMMA UnstageOwn ==
  ASSUME TypeInv, NamesInv, AloneInv, OwnInv, NEW h \in Handlers, NEW n \in Nodes, NEW v \in Volumes,
         n = Node(h), v = Volume(h), Quiet(n), HandlerStep(h), UnstageStep(h)
  PROVE  FitsOne(n, v, h)'
<1> DEFINE own == OwnDevices(n, v)    own1 == OwnDevices(n, v)'
           ats == AddressesOf(n, v)   ats1 == AddressesOf(n, v)'
           s == staging[n][v]         s1 == staging'[n][v]
           t == target[n][v]          t1 == target'[n][v]
           o == handler[h]            r == handler'[h]
           ph == phase[n][v]          ph1 == phase'[n][v]
<1>1. /\ PlaceIs(own, o.pc = "removeStaging", s, t, ph) /\ WorkIs(own, ats, s, t, o)
      /\ ph = Begun[o.op] /\ Good(o) /\ StepTable(h)
      /\ SoundPath(n, v, s)
  BY OwnBefore DEF FitsOne, Work
<1>2. o.pc \in UnstagePcs
  BY DEF UnstageStep, UnstagePcs, FindDevice, UnmountStaging, RemoveDevice, RemoveStaging, At
<1>3. ph = "unstaging" /\ o.op = "Unstage"
  BY <1>1, <1>2 DEF Good, Begun, UnstagePcs
<1>4. /\ t1.is = t.is /\ t1.dev = t.dev /\ ph1 = ph
      /\ o.pc # "removeDevice" => own1 = own
      /\ (s1.is = s.is /\ s1.dev = s.dev) \/ ~Holds(s1)
      /\ o.pc = "findDevice" => s1 = s
      /\ o.pc = "unmountStaging" => s1.is # "mount"
      /\ o.pc = "removeStaging" => s.is = "mount" \/ ~Holds(s1)
  BY UnstagePaths, OwnSame
<1>5. r = Idle \/ (r.op = o.op /\ UnstageTable(h, r))
  BY <1>1, <1>2 DEF StepTable, StageTable, PublishTable, DetachTable, UnstagePcs
<1>6. s = staging[Node(h)][Volume(h)] /\ IsBlock(h) = (v \in BlockVolumes)
  BY DEF IsBlock
<1>7. /\ s.is = "mount" => v \notin BlockVolumes
      /\ ~Holds(s) => s.dev = None
  BY <1>1 DEF SoundPath
<1> HIDE DEF own, own1, ats, ats1, s, s1, t, t1, r, ph, ph1
<1>8. Holds(t1) = Holds(t) /\ ~Holds(t)
  BY <1>1, <1>3, <1>4 DEF Holds, PlaceIs
<1>9. Holds(s1) => Holds(s) /\ s1.is = s.is /\ s1.dev = s.dev
  BY <1>4 DEF Holds
<1>10. r = Idle => o.pc = "removeStaging"
  BY UnstageEnds, IdleFields DEF r
<1>11. PlaceIs(own1, r.pc = "removeStaging", s1, t1, ph1)
  BY <1>1, <1>2, <1>3, <1>4, <1>5, <1>8, <1>9, <1>10 DEF PlaceIs, WorkIs, UnstageTable, UnstagePcs
<1>12. ASSUME r.op = o.op, UnstageTable(h, r) PROVE WorkIs(own1, ats1, s1, t1, r)
  BY <1>1, <1>2, <1>3, <1>4, <1>6, <1>7, <1>9, <1>12 DEF WorkIs, PlaceIs, UnstageTable, UnstagePcs, Holds
<1>13. WorkIs(own1, ats1, s1, t1, r)
  BY <1>5, <1>12, IdleWorks
<1> QED
  BY <1>11, <1>13 DEF FitsOne, Work, own1, ats1, s1, t1, r, ph1

LEMMA DetachOwn ==
  ASSUME TypeInv, NamesInv, AloneInv, OwnInv, NEW h \in Handlers, NEW n \in Nodes, NEW v \in Volumes,
         n = Node(h), v = Volume(h), Quiet(n), HandlerStep(h), DetachStep(h)
  PROVE  FitsOne(n, v, h)'
<1> DEFINE own1 == OwnDevices(n, v)'   ats1 == AddressesOf(n, v)'
           s == staging[n][v]          t == target[n][v]
           o == handler[h]             r == handler'[h]
<1>1. /\ PlaceIs(OwnDevices(n, v), o.pc = "removeStaging", s, t, phase[n][v])
      /\ phase[n][v] = Begun[o.op] /\ Good(o) /\ StepTable(h)
  BY OwnBefore DEF FitsOne
<1>2. o.pc \in DetachPcs /\ UNCHANGED <<staging, target, phase>>
  BY DEF DetachStep, DetachPcs, GetLuns, DestroyLun, LunsDestroyed, Verify, At, kernel
<1>3. phase[n][v] = "detaching" /\ o.op = "Detach"
  BY <1>1, <1>2 DEF Good, Begun, DetachPcs
<1>4. ~Holds(s) /\ ~Holds(t)
  BY <1>1, <1>3 DEF PlaceIs
<1>5. r = Idle \/ (r.op = "Detach" /\ r.pc \in {"destroyLuns", "verify", "reply"})
  BY <1>1, <1>2, <1>3 DEF StepTable, StageTable, PublishTable, UnstageTable, DetachTable, DetachPcs
<1> HIDE DEF own1, ats1, s, t, r
<1>6. PlaceIs(own1, r.pc = "removeStaging", s, t, phase[n][v])
  BY <1>3, <1>4 DEF PlaceIs
<1>7. WorkIs(own1, ats1, s, t, r)
  BY <1>4, <1>5, IdleWorks DEF WorkIs
<1> QED
  BY <1>2, <1>6, <1>7 DEF FitsOne, Work, own1, ats1, s, t, r

LEMMA ReplyOwn ==
  ASSUME TypeInv, NamesInv, AloneInv, OwnInv, NEW h \in Handlers, NEW n \in Nodes, NEW v \in Volumes,
         n = Node(h), v = Volume(h), Quiet(n), HandlerStep(h), Reply(h)
  PROVE  FitsOne(n, v, h)'
<1> DEFINE own == OwnDevices(n, v)    ats == AddressesOf(n, v)
           s == staging[n][v]
           t == target[n][v]          t1 == target'[n][v]
           o == handler[h]            r == handler'[h]
           ph == phase[n][v]          ph1 == phase'[n][v]
<1>1. /\ PlaceIs(own, o.pc = "removeStaging", s, t, ph) /\ WorkIs(own, ats, s, t, o)
      /\ ph = Begun[o.op] /\ o.op \in Ops
  BY OwnBefore DEF FitsOne, Work
<1>2. /\ o.pc = "reply" /\ r = Idle /\ UNCHANGED <<mapping, device, staging>>
  BY ReplyMoves DEF Reply, At
<1>3. /\ IF o.live THEN ph1 = Answered(o.op) ELSE ph1 = ph
      /\ t1 = IF o.op = "Unpublish" /\ o.live THEN NoPath ELSE t
  BY DEF Reply, SetPath, TypeInv, WorldInv, PathsInv
<1>4. OwnDevices(n, v)' = own /\ AddressesOf(n, v)' = ats
  BY <1>2, OwnSame
<1>5. ~Holds(NoPath)
  BY DEF NoPath, Holds
<1>6. /\ o.op = "Stage" => Begun[o.op] = "staging" /\ Answered(o.op) = "staged"
      /\ o.op = "Publish" => Begun[o.op] = "publishing" /\ Answered(o.op) = "published"
      /\ o.op = "Unpublish" => Begun[o.op] = "unpublishing" /\ Answered(o.op) = "staged"
      /\ o.op = "Unstage" => Begun[o.op] = "unstaging" /\ Answered(o.op) = "attached"
      /\ o.op = "Detach" => Begun[o.op] = "detaching" /\ Answered(o.op) = "detached"
  BY DEF Begun, Answered
<1> HIDE DEF own, ats, s, t, t1, r, ph, ph1
<1>7. PlaceIs(own, FALSE, s, t1, ph1)
  BY <1>1, <1>2, <1>3, <1>5, <1>6 DEF PlaceIs, WorkIs, Ops
<1>8. WorkIs(own, ats, s, t1, r) /\ r.pc # "removeStaging"
  BY <1>2, IdleFields, IdleWorks
<1>9. PlaceIs(own, r.pc = "removeStaging", s, t1, ph1)
  BY <1>7, <1>8 DEF PlaceIs
<1> QED
  BY <1>2, <1>4, <1>8, <1>9 DEF FitsOne, Work, s, t1, r, ph1

LEMMA HandlerOwn ==
  ASSUME TypeInv, NamesInv, AloneInv, OwnInv, NEW h \in Handlers, NEW n \in Nodes, NEW v \in Volumes,
         n = Node(h), v = Volume(h), Quiet(n), HandlerStep(h)
  PROVE  FitsOne(n, v, h)'
BY StageOwn, PublishOwn, UnstageOwn, DetachOwn, ReplyOwn DEF HandlerStep

-----------------------------------------------------------------------------
(* The steps of a handler, for the other volumes and nodes.                *)

LEMMA OtherPaths ==
  ASSUME TypeInv, NamesInv, NEW h \in Handlers, HandlerStep(h), NEW n \in Nodes, NEW v \in Volumes,
         ~About(h, n, v)
  PROVE  /\ staging'[n][v].is = staging[n][v].is /\ staging'[n][v].dev = staging[n][v].dev
         /\ target'[n][v].is = target[n][v].is /\ target'[n][v].dev = target[n][v].dev
         /\ UNCHANGED phase[n][v]
<1>0. staging \in AllPaths /\ target \in AllPaths /\ phase \in [Nodes -> [Volumes -> Phases]]
  BY DEF TypeInv, WorldInv, PathsInv, AllPaths
<1>1. UNCHANGED phase[n][v]
  <2>1. phase' = phase \/ phase' = [phase EXCEPT ![Node(h)][Volume(h)] = Answered(handler[h].op)]
    BY HandlerKeeps DEF Reply
  <2> QED
    BY <1>0, <2>1 DEF About
<1>2. CASE RemoveDevice(h)
  <2>1. \/ staging' = staging /\ target' = target
        \/ /\ staging' = Detached(staging, Node(h), handler[h].dev)
           /\ target' = Detached(target, Node(h), handler[h].dev)
    BY <1>2 DEF RemoveDevice, kernel
  <2>2. ASSUME NEW paths \in AllPaths, NEW after, NEW m, NEW d, after = Detached(paths, m, d)
        PROVE  after[n][v].is = paths[n][v].is /\ after[n][v].dev = paths[n][v].dev
    <3>1. paths[n][v] \in PathStates
      BY DEF AllPaths
    <3>2. after[n][v] = paths[n][v] \/ after[n][v] = [paths[n][v] EXCEPT !.at = None]
      BY <2>2 DEF Detached, AllPaths
    <3> QED
      BY <3>1, <3>2 DEF PathStates
  <2> QED
    BY <1>0, <1>1, <2>1, <2>2
<1>3. CASE ~RemoveDevice(h)
  <2>1. PathStep(h, staging, staging') /\ PathStep(h, target, target')
    BY <1>3, PathSteps
  <2>2. ASSUME NEW paths \in AllPaths, NEW after, PathStep(h, paths, after)
        PROVE  after[n][v] = paths[n][v]
    BY <2>2 DEF PathStep, SetPath, AllPaths, About
  <2> QED
    BY <1>0, <1>1, <2>1, <2>2
<1> QED
  BY <1>2, <1>3

LEMMA OthersKeepOwn ==
  ASSUME TypeInv, NamesInv, AloneInv, OwnInv, NEW h \in Handlers, HandlerStep(h), NEW n \in Nodes,
         NEW v \in Volumes, Quiet(n), v # Volume(h)
  PROVE  OwnDevices(n, v) \subseteq OwnDevices(n, v)' /\ AddressesOf(n, v) \subseteq AddressesOf(n, v)'
<1>1. \A a : Mapped(n, v, a) => [volume |-> v, node |-> n, at |-> a] \in mapping'
  <2> SUFFICES ASSUME NEW a, Mapped(n, v, a)
               PROVE  [volume |-> v, node |-> n, at |-> a] \in mapping'
    OBVIOUS
  <2> DEFINE m == [volume |-> v, node |-> n, at |-> a]
  <2>1. m \in mapping /\ m.volume = v
    BY DEF Mapped
  <2> HIDE DEF m
  <2>2. CASE DestroyLun(h)
    <3>1. mapping' = mapping \/ \E x \in handler[h].luns : mapping' = mapping \ {x}
      BY <2>2 DEF DestroyLun
    <3>2. \A x \in handler[h].luns : x.volume = Volume(h)
      BY <2>2 DEF DestroyLun, At, NamesInv, StepsSuit, Suits, Volume
    <3>3. m \in mapping'
      BY <2>1, <3>1, <3>2
    <3> QED
      BY <3>3 DEF m
  <2>3. CASE ~DestroyLun(h)
    <3>1. mapping \subseteq mapping'
      BY <2>3, MappingSteps, MapFindsFree
    <3>2. m \in mapping'
      BY <2>1, <3>1
    <3> QED
      BY <3>2 DEF m
  <2> QED
    BY <2>2, <2>3
<1>2. ASSUME NEW d \in OwnDevices(n, v) PROVE device'[n][d] = device[n][d]
  <2>1. CASE ~RemoveDevice(h) \/ handler[h].dev = None
    BY <2>1, DeviceSteps DEF RemoveDevice, kernel
  <2>2. CASE RemoveDevice(h) /\ handler[h].dev # None
    <3>0. device \in [Nodes -> [Devices -> Addresses \cup {None}]] /\ d \in Devices
      BY DEF TypeInv, WorldInv, OwnDevices
    <3>1. /\ device' = [device EXCEPT ![Node(h)][handler[h].dev] = None]
          /\ handler[h].pc = "removeDevice"
      BY <2>2 DEF RemoveDevice, At
    <3>2. ASSUME n = Node(h), d = handler[h].dev PROVE FALSE
      <4>1. FitsOne(Node(h), Volume(h), h) /\ Volume(h) \in Volumes
        BY <3>2, OwnBefore
      <4>2. handler[h].dev \in OwnDevices(Node(h), Volume(h))
        BY <2>2, <3>1, <4>1 DEF FitsOne, Work, WorkIs
      <4> QED
        BY <3>0, <3>2, <4>1, <4>2, OwnersDiffer
    <3> QED
      BY <3>0, <3>1, <3>2
  <2> QED
    BY <2>1, <2>2
<1> QED
  BY <1>1, <1>2 DEF OwnDevices, AddressesOf, Mapped

LEMMA HandlersKept ==
  ASSUME TypeInv, NEW h \in Handlers, HandlerStep(h), NEW n \in Nodes, NEW v \in Volumes
  PROVE  /\ \A g \in Handlers \ {h} : /\ handler'[g] = handler[g]
                                      /\ About(g, n, v)' <=> About(g, n, v)
         /\ About(h, n, v)' => About(h, n, v)
         /\ About(h, n, v) => About(h, n, v)' \/ handler'[h] = Idle
<1>1. \A g \in Handlers \ {h} : handler'[g] = handler[g]
  BY HandlerMoves DEF Moves
<1>2. StepTable(h)
  BY HandlerSteps
<1> QED
  BY <1>1, <1>2, IdleFields, NoneAssumption DEF StepTable, About, Node, Volume

LEMMA HandlerFits ==
  ASSUME TypeInv, NamesInv, AloneInv, OwnInv, NEW h \in Handlers, HandlerStep(h), NEW n \in Nodes,
         NEW v \in Volumes, Quiet(n)
  PROVE  Fits(n, v)'
<1>1. Fits(n, v)
  BY DEF OwnInv
<1>2. \A g \in Handlers : About(g, n, v)' => About(g, n, v)
  BY HandlersKept
<1>3. CASE About(h, n, v)
  <2>1. FitsOne(n, v, h)'
    BY <1>3, HandlerOwn DEF About
  <2>2. \A g \in Handlers : About(g, n, v) => g = h
    BY <1>3 DEF About, AloneInv, WorkIsAlone
  <2> QED
    BY <1>2, <1>3, <2>1, <2>2, HandlersKept, FitsAfter
<1>4. CASE ~About(h, n, v)
  <2>1. /\ staging'[n][v].is = staging[n][v].is /\ staging'[n][v].dev = staging[n][v].dev
        /\ target'[n][v].is = target[n][v].is /\ target'[n][v].dev = target[n][v].dev
        /\ UNCHANGED phase[n][v]
    BY <1>4, OtherPaths
  <2>2. CASE v = Volume(h)
    <3>1. phase[n][v] \in {"detached", "attached"}
      BY <1>4, <2>2 DEF AloneInv, LateAreAway, About
    <3>2. \A g \in Handlers : ~About(g, n, v)
      BY <1>4, <2>2 DEF AloneInv, WorkIsAlone, About
    <3> QED
      BY <1>1, <1>2, <2>1, <3>1, <3>2, Unused
  <2>3. CASE v # Volume(h)
    <3>1. /\ OwnDevices(n, v) \subseteq OwnDevices(n, v)'
          /\ AddressesOf(n, v) \subseteq AddressesOf(n, v)'
      BY <2>3, OthersKeepOwn
    <3>2. \A g \in Handlers : About(g, n, v)' <=> About(g, n, v)
      BY <1>4, HandlersKept
    <3>3. \A g \in Handlers : About(g, n, v) => handler'[g] = handler[g]
      BY <1>4, HandlersKept
    <3> QED
      BY <1>1, <2>1, <3>1, <3>2, <3>3, Elsewhere
  <2> QED
    BY <2>2, <2>3
<1> QED
  BY <1>3, <1>4

-----------------------------------------------------------------------------
(* Calls and the steps outside, for every volume and node.                 *)

LEMMA CalledFits ==
  ASSUME TypeInv, OwnInv, NEW h \in Handlers, NEW m \in Nodes, NEW w \in Volumes, NEW op \in Ops,
         Called(h, m, w, op), NEW n \in Nodes, NEW v \in Volumes, Quiet(n)'
  PROVE  Fits(n, v)'
<1>1. /\ \A g \in Handlers \ {h} : handler'[g] = handler[g]
      /\ handler'[h].op = op /\ handler'[h].node = m /\ handler'[h].volume = w
      /\ excused \subseteq excused'
  BY CalledGood
<1>2. UNCHANGED <<mapping, device, staging, target>>
  BY DEF Called, kernel
<1>3. Fits(n, v)
  BY <1>1 DEF OwnInv, Quiet
<1>4. /\ \A g \in Handlers \ {h} : About(g, n, v)' <=> About(g, n, v)
      /\ About(h, n, v)' <=> (n = m /\ v = w)
      /\ ~About(h, n, v)
  BY <1>1, IdleFields, NoneAssumption DEF About, Node, Volume, Called, TypeInv, HandlersInv, Good
<1>5. phase'[n][v] = IF n = m /\ v = w THEN Begun[op] ELSE phase[n][v]
  BY DEF Called, TypeInv, WorldInv
<1>6. CASE n = m /\ v = w
  <2> DEFINE own == OwnDevices(n, v)  ats == AddressesOf(n, v)
             s == staging[n][v]  t == target[n][v]  r == handler'[h]
             ph == phase[n][v]  ph1 == phase'[n][v]
  <2>1. \A g \in Handlers : ~About(g, n, v)
    BY <1>6 DEF Called, Quiet, About, Volume
  <2>2. PlaceIs(own, FALSE, s, t, ph)
    BY <1>3, <2>1 DEF Fits, Place, PlaceIs, Removing
  <2>3. OwnDevices(n, v)' = own /\ AddressesOf(n, v)' = ats
    BY <1>2, OwnSame
  <2>4. r.pc \in {"map", "findStaged", "checkTarget", "findDevice", "getLuns"} /\ r.dev = None
    <3> DEFINE pc == FirstPc[op]
    <3>1. handler'[h] = [Idle EXCEPT !.op = op, !.pc = pc, !.node = m, !.volume = w, !.live = TRUE]
      BY DEF Called, TypeInv, HandlersInv
    <3>2. pc \in {"map", "findStaged", "checkTarget", "findDevice", "getLuns"}
      BY DEF FirstPc, Ops
    <3> HIDE DEF pc
    <3> QED
      BY <3>1, <3>2 DEF Idle
  <2>5. ph \in From[op] /\ ph1 = Begun[op]
    BY <1>5, <1>6 DEF Called
  <2> HIDE DEF own, ats, s, t, r, ph, ph1
  <2>6. PlaceIs(own, r.pc = "removeStaging", s, t, ph1)
    BY <2>2, <2>4, <2>5 DEF PlaceIs, From, Begun, Ops
  <2>7. WorkIs(own, ats, s, t, r)
    BY <2>4 DEF WorkIs
  <2>8. FitsOne(n, v, h)'
    BY <1>2, <2>3, <2>6, <2>7 DEF FitsOne, Work, s, t, r, ph1
  <2> QED
    BY <1>4, <1>6, <2>1, <2>8, FitsAfter
<1>7. CASE ~(n = m /\ v = w)
  <2>1. \A g \in Handlers : About(g, n, v)' <=> About(g, n, v)
    BY <1>4, <1>7
  <2>2. \A g \in Handlers : About(g, n, v) => handler'[g] = handler[g]
    BY <1>1, <1>4
  <2>3. OwnDevices(n, v) \subseteq OwnDevices(n, v)' /\ AddressesOf(n, v) \subseteq AddressesOf(n, v)'
    BY <1>2, OwnSame
  <2> QED
    BY <1>2, <1>3, <1>5, <1>7, <2>1, <2>2, <2>3, Elsewhere
<1> QED
  BY <1>6, <1>7

LEMMA AttachFits ==
  ASSUME TypeInv, NEW m \in Nodes, NEW w \in Volumes, ControllerPublishVolume(m, w),
         NEW n \in Nodes, NEW v \in Volumes, Fits(n, v)
  PROVE  Fits(n, v)'
<1>1. /\ UNCHANGED <<mapping, device, staging, target, handler>>
      /\ phase'[n][v] = IF n = m /\ v = w THEN "attached" ELSE phase[n][v]
      /\ phase[m][w] = "detached"
  BY DEF ControllerPublishVolume, kernel, TypeInv, WorldInv
<1>2. OwnDevices(n, v)' = OwnDevices(n, v) /\ AddressesOf(n, v)' = AddressesOf(n, v)
  BY <1>1, OwnSame
<1>3. /\ \A h \in Handlers : About(h, n, v)' <=> About(h, n, v)
      /\ Removing(n, v)' <=> Removing(n, v)
  BY <1>1 DEF About, Removing, Node, Volume
<1>4. Place(n, v)'
  BY <1>1, <1>2, <1>3 DEF Fits, Place, PlaceIs
<1>5. \A h \in Handlers : Work(n, v, h)' <=> Work(n, v, h)
  BY <1>1, <1>2 DEF Work
<1> QED
  BY <1>3, <1>4, <1>5 DEF Fits

LEMMA AppearsFits ==
  ASSUME TypeInv, NEW m \in Nodes, NEW e \in Devices, NEW a \in Addresses, DeviceAppears(m, e, a),
         NEW n \in Nodes, NEW v \in Volumes, Fits(n, v)
  PROVE  Fits(n, v)'
<1>1. /\ UNCHANGED <<mapping, staging, target, phase, handler>>
      /\ \A d \in Devices : device[n][d] # None => device'[n][d] = device[n][d]
  BY DEF DeviceAppears, TypeInv, WorldInv
<1>2. OwnDevices(n, v) \subseteq OwnDevices(n, v)' /\ AddressesOf(n, v) \subseteq AddressesOf(n, v)'
  BY <1>1 DEF OwnDevices, AddressesOf, Mapped
<1>3. \A h \in Handlers : About(h, n, v)' <=> About(h, n, v)
  BY <1>1 DEF About, Node, Volume
<1> QED
  BY <1>1, <1>2, <1>3, Elsewhere

\* A failure or a restart that excuses no node of the volume.
LEMMA FaultFits ==
  ASSUME TypeInv, NamesInv, \A h \in Handlers : Faulted(h),
         UNCHANGED <<mapping, device, staging, target, phase>>,
         NEW n \in Nodes, NEW v \in Volumes, Fits(n, v),
         \A h \in Handlers :
           About(h, n, v) =>
             /\ handler[h].pc = "unmountStaging" => handler'[h].pc \in {"unmountStaging", "idle"}
             /\ CutShort(h) => handler'[h].pc = handler[h].pc
  PROVE  Fits(n, v)'
<1> DEFINE own == OwnDevices(n, v)  ats == AddressesOf(n, v)  s == staging[n][v]  t == target[n][v]
<1>1. OwnDevices(n, v)' = own /\ AddressesOf(n, v)' = ats
  BY OwnSame
<1>2. \A h \in Handlers : About(h, n, v)' => About(h, n, v)
  BY IdleFields, NoneAssumption DEF Faulted, About, Node, Volume
<1>3. SoundPath(n, v, s)
  BY DEF NamesInv, PathsAreSound
<1>4. ASSUME NEW h \in Handlers, About(h, n, v) PROVE WorkIs(own, ats, s, t, handler'[h])
  <2> DEFINE o == handler[h]  r == handler'[h]
  <2>1. WorkIs(own, ats, s, t, o) /\ Good(o) /\ Faulted(h)
    BY <1>4 DEF Fits, Work, TypeInv, HandlersInv
  <2>2. /\ o.pc = "unmountStaging" => r.pc \in {"unmountStaging", "idle"}
        /\ o.op = "Unstage" /\ v \in BlockVolumes => r.pc = o.pc
        /\ IsBlock(h) <=> v \in BlockVolumes
    BY <1>4 DEF About, CutShort, IsBlock
  <2>3. s.is = "mount" => v \notin BlockVolumes
    BY <1>3 DEF SoundPath
  <2>4. r = Idle => WorkIs(own, ats, s, t, r)
    BY IdleWorks
  <2>5. ASSUME r # Idle PROVE WorkIs(own, ats, s, t, r)
    <3>1. /\ r.op = o.op /\ r.dev = o.dev /\ r.at = o.at /\ FaultTable(h, r)
      BY <2>1, <2>5 DEF Faulted
    <3>2. /\ o.pc = "removeDir" => o.op = "Unpublish"
          /\ o.pc = "getLuns" => o.op = "Detach"
      BY <2>1 DEF Good, UnpublishPcs, DetachPcs
    <3> HIDE DEF own, ats, s, t, r
    <3>3. CASE r.pc = o.pc
      BY <2>1, <3>1, <3>3 DEF WorkIs
    <3>4. CASE r.pc # o.pc
      <4>1. \/ o.pc = "blkid" /\ r.pc = "format"
            \/ o.pc = "findDevice" /\ r.pc = "unmountStaging"
            \/ o.pc = "findDevice" /\ r.pc = "removeDevice" /\ v \in BlockVolumes
            \/ o.pc = "removeDevice" /\ r.pc = "removeStaging"
            \/ o.pc \in {"removeDir", "getLuns"} /\ r.pc = "reply"
        BY <2>2, <3>1, <3>4 DEF FaultTable
      <4> QED
        BY <2>1, <2>3, <3>1, <3>2, <4>1 DEF WorkIs
    <3> QED
      BY <3>3, <3>4
  <2> QED
    BY <2>4, <2>5
<1>5. Holds(s) /\ Removing(n, v) => Removing(n, v)'
  <2> SUFFICES ASSUME NEW h \in Handlers, About(h, n, v), handler[h].pc = "removeStaging", Holds(s)
               PROVE  Removing(n, v)'
    BY DEF Removing
  <2>1. Work(n, v, h) /\ Good(handler[h])
    BY DEF Fits, TypeInv, HandlersInv
  <2>2. s.is # "mount" /\ handler[h].op = "Unstage"
    BY <2>1 DEF Work, WorkIs, Good, UnstagePcs
  <2>3. v \in BlockVolumes
    BY <1>3, <2>2 DEF SoundPath, Holds
  <2>4. handler'[h].pc = "removeStaging"
    BY <2>2, <2>3 DEF CutShort, IsBlock, About
  <2>5. About(h, n, v)'
    BY <2>4, IdleFields DEF Faulted, About, Node, Volume
  <2> QED
    BY <2>4, <2>5 DEF Removing
<1>6. Place(n, v)'
  BY <1>1, <1>5 DEF Fits, Place, PlaceIs
<1> QED
  BY <1>1, <1>2, <1>4, <1>6 DEF Fits, Work

LEMMA FailFits ==
  ASSUME TypeInv, NamesInv, NEW g \in Handlers, Fail(g) \/ ResolveNotFound(g) \/ AbandonCall(g),
         NEW n \in Nodes, NEW v \in Volumes, Fits(n, v), Quiet(n)'
  PROVE  Fits(n, v)'
<1>1. UNCHANGED <<mapping, device, staging, target, phase>>
  BY DEF Fail, ResolveNotFound, AbandonCall, kernel
<1>2. /\ Faulted(g) /\ \A h \in Handlers \ {g} : handler'[h] = handler[h]
      /\ \A h \in Handlers : Faulted(h)
  BY FaultSteps, KeptIsFaulted
<1>3. ASSUME About(g, n, v)
      PROVE  /\ handler[g].pc = "unmountStaging" => handler'[g].pc \in {"unmountStaging", "idle"}
             /\ CutShort(g) => handler'[g].pc = handler[g].pc
  <2>1. CASE Fail(g)
    BY <1>3, <2>1 DEF Fail, Quiet, About
  <2>2. CASE ResolveNotFound(g)
    BY <1>3, <2>2 DEF ResolveNotFound, Quiet, About
  <2>3. CASE AbandonCall(g)
    <3>1. handler[g] \in Local /\ handler'[g] = [handler[g] EXCEPT !.live = FALSE]
      BY <2>3, PutIs DEF AbandonCall, TypeInv, HandlersInv
    <3>2. handler'[g].pc = handler[g].pc
      BY <3>1 DEF Local
    <3> QED
      BY <3>2
  <2> QED
    BY <2>1, <2>2, <2>3
<1>4. \A h \in Handlers :
        About(h, n, v) =>
          /\ handler[h].pc = "unmountStaging" => handler'[h].pc \in {"unmountStaging", "idle"}
          /\ CutShort(h) => handler'[h].pc = handler[h].pc
  BY <1>2, <1>3
<1> QED
  BY <1>1, <1>2, <1>4, FaultFits

LEMMA RestartFits ==
  ASSUME TypeInv, NamesInv, RestartController \/ \E m \in Nodes : RestartNodePlugin(m),
         NEW n \in Nodes, NEW v \in Volumes, Fits(n, v), Quiet(n)'
  PROVE  Fits(n, v)'
<1>1. UNCHANGED <<mapping, device, staging, target, phase>>
  BY DEF RestartController, RestartNodePlugin, kernel
<1>2. PICK gone \in SUBSET Handlers : Restart(gone)
  <2>1. {h \in Handlers : OnController(h)} \in SUBSET Handlers
        /\ \A m \in Nodes : {h \in Handlers : ~OnController(h) /\ Node(h) = m} \in SUBSET Handlers
    OBVIOUS
  <2> QED
    BY <2>1 DEF RestartController, RestartNodePlugin
<1>3. \A h \in Handlers : handler'[h] = IF h \in gone THEN Idle ELSE handler[h]
  BY <1>2 DEF Restart
<1>4. \A h \in Handlers : Faulted(h)
  BY <1>3, KeptIsFaulted
<1>5. \A h \in gone : CutShort(h) => Node(h) # n
  BY <1>2 DEF Restart, Quiet
<1>6. \A h \in Handlers :
        About(h, n, v) =>
          /\ handler[h].pc = "unmountStaging" => handler'[h].pc \in {"unmountStaging", "idle"}
          /\ CutShort(h) => handler'[h].pc = handler[h].pc
  BY <1>3, <1>5, IdleFields DEF About
<1> QED
  BY <1>1, <1>4, <1>6, FaultFits

LEMMA RebootFits ==
  ASSUME TypeInv, NamesInv, NEW m \in Nodes, NodeReboot(m),
         NEW n \in Nodes, NEW v \in Volumes, Fits(n, v), Quiet(n)'
  PROVE  Fits(n, v)'
<1>0. staging \in AllPaths /\ target \in AllPaths /\ phase \in [Nodes -> [Volumes -> Phases]]
      /\ device \in [Nodes -> [Devices -> Addresses \cup {None}]]
  BY DEF TypeInv, WorldInv, PathsInv, AllPaths
<1>1. \A h \in Handlers : handler'[h] = IF ~OnController(h) /\ Node(h) = m THEN Idle ELSE handler[h]
  BY DEF NodeReboot
<1>2. CASE n = m
  <2>1. staging[n][v].is # "link" /\ target[n][v].is # "link"
    BY <1>2 DEF NodeReboot, Paths, Quiet
  <2>2. /\ staging'[n][v] = AfterReboot(staging[n][v]) /\ target'[n][v] = AfterReboot(target[n][v])
        /\ phase'[n][v] = Again(phase[n][v])
    BY <1>0, <1>2 DEF NodeReboot, AllPaths
  <2>3. ~Holds(staging'[n][v]) /\ ~Holds(target'[n][v])
    BY <2>1, <2>2, PlainPaths DEF AfterReboot, Holds
  <2>4. phase'[n][v] # "published"
    BY <2>2 DEF Again
  <2>5. Place(n, v)'
    BY <2>3, <2>4 DEF Place, PlaceIs
  <2>6. ASSUME NEW h \in Handlers, About(h, n, v)' PROVE Work(n, v, h)'
    <3>1. handler'[h] = handler[h] /\ OnController(h) /\ handler[h].pc # "idle"
      BY <1>1, <1>2, <2>6, IdleFields, NoneAssumption DEF About, Node, TypeInv, HandlersInv, Good
    <3>2. handler[h].op = "Detach" /\ Good(handler[h]) /\ handler[h].pc \in Pcs
      BY <3>1 DEF OnController, TypeInv, HandlersInv, Local
    <3>3. handler[h].pc \in DetachPcs \cup {"reply"}
      BY <3>1, <3>2 DEF Good, Pcs
    <3> QED
      BY <3>1, <3>2, <3>3 DEF Work, WorkIs, DetachPcs
  <2> QED
    BY <2>5, <2>6 DEF Fits
<1>3. CASE n # m
  <2>1. /\ staging'[n][v] = staging[n][v] /\ target'[n][v] = target[n][v]
        /\ phase'[n][v] = phase[n][v] /\ device'[n] = device[n] /\ UNCHANGED mapping
    BY <1>0, <1>3 DEF NodeReboot, AllPaths
  <2>2. \A h \in Handlers : About(h, n, v) => handler'[h] = handler[h]
    BY <1>1, <1>3 DEF About
  <2>3. \A h \in Handlers : About(h, n, v)' <=> About(h, n, v)
    BY <1>1, <1>3, IdleFields, NoneAssumption DEF About, Node, Volume
  <2>4. OwnDevices(n, v) \subseteq OwnDevices(n, v)' /\ AddressesOf(n, v) \subseteq AddressesOf(n, v)'
    BY <2>1, OwnKept
  <2> QED
    BY <2>1, <2>2, <2>3, <2>4, Elsewhere
<1> QED
  BY <1>2, <1>3

LEMMA WriteFits ==
  ASSUME UNCHANGED <<mapping, kernel, phase, handler>>, NEW n, NEW v, Fits(n, v)
  PROVE  Fits(n, v)'
BY DEF kernel, Fits, Place, Work, Removing, About, Node, Volume, OwnDevices, AddressesOf, Mapped

LEMMA OwnNext ==
  ASSUME TypeInv, NamesInv, AloneInv, OwnInv, [Next]_vars
  PROVE  OwnInv'
<1> SUFFICES ASSUME NEW n \in Nodes, NEW v \in Volumes, Quiet(n)'
             PROVE  Fits(n, v)'
  BY DEF OwnInv
<1>1. Quiet(n)
  BY StepKinds, CalledGood DEF Quiet, Quietly, vars
<1>2. Fits(n, v)
  BY <1>1 DEF OwnInv
<1>3. ASSUME NEW h \in Handlers, HandlerStep(h) PROVE Fits(n, v)'
  BY <1>1, <1>3, HandlerFits
<1>4. ASSUME NEW h \in Handlers, NEW m \in Nodes, NEW w \in Volumes, NEW op \in Ops, Called(h, m, w, op)
      PROVE  Fits(n, v)'
  BY <1>4, CalledFits
<1>5. ASSUME NEW m \in Nodes, NEW w \in Volumes, ControllerPublishVolume(m, w) PROVE Fits(n, v)'
  BY <1>2, <1>5, AttachFits
<1>6. ASSUME NEW m \in Nodes, NEW w \in Volumes, Write(m, w) PROVE Fits(n, v)'
  BY <1>2, <1>6, WriteFits DEF Write
<1>7. ASSUME NEW m \in Nodes, NEW d \in Devices, NEW a \in Addresses, DeviceAppears(m, d, a)
      PROVE  Fits(n, v)'
  BY <1>2, <1>7, AppearsFits
<1>8. ASSUME NEW h \in Handlers, Fail(h) \/ ResolveNotFound(h) \/ AbandonCall(h) PROVE Fits(n, v)'
  BY <1>2, <1>8, FailFits
<1>9. ASSUME RestartController \/ \E m \in Nodes : RestartNodePlugin(m) PROVE Fits(n, v)'
  BY <1>2, <1>9, RestartFits
<1>10. ASSUME NEW m \in Nodes, NodeReboot(m) PROVE Fits(n, v)'
  BY <1>2, <1>10, RebootFits
<1>11. ASSUME UNCHANGED vars PROVE Fits(n, v)'
  BY <1>2, <1>11, WriteFits DEF vars
<1> QED
  BY <1>3, <1>4, <1>5, <1>6, <1>7, <1>8, <1>9, <1>10, <1>11, NextKinds DEF Outside

-----------------------------------------------------------------------------
(* What is reached, and what is written.                                   *)

LEMMA OwnIsReached ==
  ASSUME TypeInv, NamesInv, NEW n \in Nodes, NEW v \in Volumes, NEW d \in OwnDevices(n, v)
  PROVE  MappedAt(n, device[n][d]) = {v} /\ ReachedBy(n, d) = {v}
<1>1. /\ d \in Devices /\ device[n][d] # None
      /\ [volume |-> v, node |-> n, at |-> device[n][d]] \in mapping
  BY DEF OwnDevices, Mapped
<1>2. \A m \in mapping : m.node = n /\ m.at = device[n][d] => m.volume = v
  BY <1>1 DEF NamesInv, MappingsAreSingle
<1>3. MappedAt(n, device[n][d]) = {v}
  BY <1>1, <1>2 DEF MappedAt
<1> QED
  BY <1>1, <1>3, NoneAssumption DEF ReachedBy

LEMMA PublishedIsReached ==
  ASSUME TypeInv, NamesInv, OwnInv, NEW n \in Nodes, NEW v \in Volumes, Quiet(n),
         phase[n][v] = "published"
  PROVE  Reaches(n, target[n][v]) = {v}
<1> DEFINE t == target[n][v]
<1>1. Holds(t) /\ t.dev \in OwnDevices(n, v) /\ SoundPath(n, v, t)
  BY DEF OwnInv, Fits, Place, PlaceIs, NamesInv, PathsAreSound
<1>2. MappedAt(n, device[n][t.dev]) = {v} /\ ReachedBy(n, t.dev) = {v}
  BY <1>1, OwnIsReached
<1> HIDE DEF t
<1>3. Reaches(n, t) = {v}
  BY <1>1, <1>2 DEF Reaches, SoundPath, Holds
<1> QED
  BY <1>3 DEF t

\* Where every node is quiet nothing is lost, and what is about to be formatted is empty.
DataInv ==
  (\A n \in Nodes : Quiet(n)) =>
    /\ \A v \in Volumes : disk[v] # "lost"
    /\ \A h \in Handlers : handler[h].pc = "format" => disk[Volume(h)] = "empty"

LEMMA DataInit ==
  ASSUME Init
  PROVE  DataInv
BY IdleFields DEF Init, DataInv

\* Nothing is removed through a mount.
LEMMA RemovingKeepsData ==
  ASSUME TypeInv, NamesInv, AloneInv, OwnInv, NEW h \in Handlers, HandlerStep(h), Quiet(Node(h)),
         RemoveTarget(h) \/ RemoveDir(h) \/ RemoveStaging(h)
  PROVE  disk' = disk
<1>1. FitsOne(Node(h), Volume(h), h)
  BY OwnBefore
<1>2. disk \in [Volumes -> {"empty", "formatted", "written", "lost"}]
  BY DEF TypeInv, WorldInv
<1>3. \A p : p.is # "mount" => Emptied(h, p) = disk
  BY <1>2 DEF Emptied
<1>4. CASE RemoveStaging(h)
  <2>1. handler[h].pc = "removeStaging" /\ disk' = Emptied(h, staging[Node(h)][Volume(h)])
    BY <1>4 DEF RemoveStaging, Removed, At
  <2>2. staging[Node(h)][Volume(h)].is # "mount"
    BY <1>1, <2>1 DEF FitsOne, Work, WorkIs
  <2> QED
    BY <1>3, <2>1, <2>2
<1>5. CASE RemoveTarget(h) \/ RemoveDir(h)
  <2>1. /\ handler[h].pc \in {"removeTarget", "removeDir"}
        /\ disk' = Emptied(h, target[Node(h)][Volume(h)])
    BY <1>5 DEF RemoveTarget, RemoveDir, Removed, At
  <2>2. target[Node(h)][Volume(h)].is # "mount"
    BY <1>1, <2>1 DEF FitsOne, Work, WorkIs
  <2> QED
    BY <1>3, <2>1, <2>2
<1> QED
  BY <1>4, <1>5

\* mkfs is of the volume of its handler, which is empty.
LEMMA FormatKeepsData ==
  ASSUME TypeInv, NamesInv, AloneInv, OwnInv, NEW h \in Handlers, HandlerStep(h), Quiet(Node(h)),
         Format(h), disk[Volume(h)] = "empty"
  PROVE  /\ Volume(h) \in Volumes /\ disk'[Volume(h)] # "lost"
         /\ \A v \in Volumes \ {Volume(h)} : disk'[v] = disk[v]
<1>1. FitsOne(Node(h), Volume(h), h) /\ Node(h) \in Nodes /\ Volume(h) \in Volumes
  BY OwnBefore
<1>2. handler[h].dev \in OwnDevices(Node(h), Volume(h))
  BY <1>1 DEF Format, At, FitsOne, Work, WorkIs
<1>3. ReachedBy(Node(h), handler[h].dev) = {Volume(h)}
  BY <1>1, <1>2, OwnIsReached
<1>4. \/ disk' = disk
      \/ disk' = [v \in Volumes |->
                    IF v \notin {Volume(h)} THEN disk[v]
                    ELSE IF disk[v] = "written" THEN "lost" ELSE "formatted"]
  BY <1>3 DEF Format
<1> QED
  BY <1>1, <1>4

LEMMA DiskSteps ==
  ASSUME NEW h \in Handlers, HandlerStep(h), ~Format(h), ~RemoveTarget(h), ~RemoveDir(h),
         ~RemoveStaging(h)
  PROVE  UNCHANGED disk
<1>1. StageStep(h) => UNCHANGED disk
  BY DEF StageStep, Map, StatPath, DeviceFound, Sleep, DeadlineExceeded, Link, Blkid, Mount
<1>2. PublishStep(h) => UNCHANGED disk
  BY DEF PublishStep, FindStaged, LinkTarget, MountTarget, CheckTarget, UnmountTarget
<1>3. UnstageStep(h) => UNCHANGED disk
  BY DEF UnstageStep, FindDevice, UnmountStaging, RemoveDevice
<1>4. DetachStep(h) \/ Reply(h) => UNCHANGED disk
  BY DEF DetachStep, GetLuns, DestroyLun, LunsDestroyed, Verify, Reply
<1> QED
  BY <1>1, <1>2, <1>3, <1>4 DEF HandlerStep

\* A handler comes to mkfs from blkid, which has seen no file system on the device.
LEMMA FormatsEmpty ==
  ASSUME TypeInv, NamesInv, AloneInv, OwnInv, NEW h \in Handlers, HandlerStep(h), Quiet(Node(h)),
         handler'[h].pc = "format"
  PROVE  ~Format(h) /\ Volume(h)' = Volume(h) /\ disk[Volume(h)] = "empty"
<1>1. /\ FitsOne(Node(h), Volume(h), h) /\ Node(h) \in Nodes /\ Volume(h) \in Volumes
      /\ StepTable(h)
  BY OwnBefore
<1>2. /\ handler'[h].volume = handler[h].volume
      /\ \/ StageTable(h, handler'[h]) \/ PublishTable(h, handler'[h])
         \/ UnstageTable(h, handler'[h]) \/ DetachTable(h, handler'[h])
  BY <1>1, IdleFields DEF StepTable
<1> DEFINE r == handler'[h]
<1> HIDE DEF r
<1>3. handler[h].pc = "blkid" /\ ~HasFileSystem(h)
  <2>1. r.pc = "format"
    BY DEF r
  <2>2. StageTable(h, r) \/ PublishTable(h, r) \/ UnstageTable(h, r) \/ DetachTable(h, r)
    BY <1>2 DEF r
  <2> QED
    BY <2>1, <2>2 DEF StageTable, PublishTable, UnstageTable, DetachTable
<1>4. handler[h].dev \in OwnDevices(Node(h), Volume(h))
  BY <1>1, <1>3 DEF FitsOne, Work, WorkIs
<1>5. ReachedBy(Node(h), handler[h].dev) = {Volume(h)}
  BY <1>1, <1>4, OwnIsReached
<1> QED
  BY <1>2, <1>3, <1>5 DEF HasFileSystem, Format, At, Volume

LEMMA HandlerData ==
  ASSUME TypeInv, NamesInv, AloneInv, OwnInv, DataInv, NEW h \in Handlers, HandlerStep(h)
  PROVE  DataInv'
<1> SUFFICES ASSUME \A n \in Nodes : Quiet(n)'
             PROVE  /\ \A v \in Volumes : disk'[v] # "lost"
                    /\ \A g \in Handlers : handler'[g].pc = "format" => disk'[Volume(g)'] = "empty"
  BY DEF DataInv
<1>1. \A n \in Nodes : Quiet(n)
  BY HandlerKeeps DEF Quiet
<1>2. Node(h) \in Nodes /\ Volume(h) \in Volumes /\ Quiet(Node(h))
  BY <1>1, WorkerSteps, AtWork
<1>3. /\ \A v \in Volumes : disk[v] # "lost"
      /\ \A g \in Handlers : handler[g].pc = "format" => disk[Volume(g)] = "empty"
  BY <1>1 DEF DataInv
<1>4. \A g \in Handlers \ {h} : handler'[g] = handler[g] /\ Volume(g)' = Volume(g)
  BY HandlerMoves DEF Moves, Volume
<1>5. CASE Format(h)
  <2>1. /\ disk'[Volume(h)] # "lost"
        /\ \A v \in Volumes \ {Volume(h)} : disk'[v] = disk[v]
    BY <1>2, <1>3, <1>5, FormatKeepsData DEF Format, At
  <2>2. handler'[h].pc # "format"
    BY <1>2, <1>5, FormatsEmpty
  <2>3. ASSUME NEW g \in Handlers, g # h, handler[g].pc = "format"
        PROVE  Volume(g) \in Volumes \ {Volume(h)}
    <3>1. Volume(g) # Volume(h)
      BY <1>2, <2>3 DEF AloneInv, WorkIsAlone
    <3> QED
      BY <2>3, <3>1, AtWork
  <2> QED
    BY <1>3, <1>4, <2>1, <2>2, <2>3
<1>6. CASE ~Format(h)
  <2>1. disk' = disk
    BY <1>2, <1>6, RemovingKeepsData, DiskSteps
  <2>2. handler'[h].pc = "format" => disk[Volume(h)'] = "empty"
    BY <1>2, FormatsEmpty
  <2> QED
    BY <1>3, <1>4, <2>1, <2>2
<1> QED
  BY <1>5, <1>6

\* The application writes to a volume that nobody formats.
LEMMA WriteData ==
  ASSUME TypeInv, NamesInv, AloneInv, OwnInv, DataInv, NEW n \in Nodes, NEW v \in Volumes, Write(n, v)
  PROVE  DataInv'
<1> SUFFICES ASSUME \A m \in Nodes : Quiet(m)'
             PROVE  /\ \A w \in Volumes : disk'[w] # "lost"
                    /\ \A g \in Handlers : handler'[g].pc = "format" => disk'[Volume(g)'] = "empty"
  BY DEF DataInv
<1>1. (\A m \in Nodes : Quiet(m)) /\ UNCHANGED handler /\ \A g \in Handlers : Volume(g)' = Volume(g)
  BY DEF Write, Quiet, Volume
<1>2. /\ \A w \in Volumes : disk[w] # "lost"
      /\ \A g \in Handlers : handler[g].pc = "format" => disk[Volume(g)] = "empty"
  BY <1>1 DEF DataInv
<1>3. phase[n][v] = "published" /\ Reaches(n, target[n][v]) = {v}
  BY <1>1, PublishedIsReached DEF Write
<1>4. disk' = [disk EXCEPT ![v] = "written"]
  BY <1>3 DEF Write
<1>5. \A w \in Volumes : disk'[w] = IF w = v THEN "written" ELSE disk[w]
  BY <1>4 DEF TypeInv, WorldInv
<1>6. ASSUME NEW g \in Handlers, handler[g].pc = "format" PROVE Volume(g) \in Volumes \ {v}
  <2>1. Node(g) \in Nodes /\ Volume(g) \in Volumes /\ Good(handler[g])
    BY <1>6, AtWork
  <2>2. phase[Node(g)][Volume(g)] = Begun[handler[g].op] /\ handler[g].op = "Stage"
    BY <1>1, <1>6, <2>1 DEF AloneInv, WorkFits, Good, StagePcs
  <2>3. phase[Node(g)][Volume(g)] = "staging"
    BY <2>2 DEF Begun
  <2>4. Volume(g) = v => Node(g) = n
    BY <1>3, <2>1, <2>3 DEF AloneInv, OneNodeEach
  <2> QED
    BY <1>3, <2>1, <2>3, <2>4
<1> QED
  BY <1>1, <1>2, <1>5, <1>6

LEMMA DataNext ==
  ASSUME TypeInv, NamesInv, AloneInv, OwnInv, DataInv, BlkidFails = FALSE, [Next]_vars
  PROVE  DataInv'
<1>1. ASSUME UNCHANGED disk, \A n \in Nodes : Quiet(n)' => Quiet(n),
             \A h \in Handlers : (handler'[h].pc = "format") =>
               handler[h].pc = "format" /\ Volume(h)' = Volume(h)
      PROVE  DataInv'
  BY <1>1 DEF DataInv
<1>2. ASSUME NEW h \in Handlers, NEW n \in Nodes, NEW v \in Volumes, NEW op \in Ops, Called(h, n, v, op)
      PROVE  DataInv'
  <2>1. /\ excused \subseteq excused'
        /\ \A g \in Handlers \ {h} : handler'[g] = handler[g]
    BY <1>2, CalledGood
  <2>2. handler'[h].pc # "format"
    <3> DEFINE pc == FirstPc[op]
    <3>1. handler'[h] = [Idle EXCEPT !.op = op, !.pc = pc, !.node = n, !.volume = v, !.live = TRUE]
      BY <1>2 DEF Called, TypeInv, HandlersInv
    <3>2. pc # "format"
      BY DEF FirstPc, Ops
    <3> HIDE DEF pc
    <3> QED
      BY <3>1, <3>2 DEF Idle
  <2>3. UNCHANGED disk
    BY <1>2 DEF Called
  <2> QED
    BY <1>1, <2>1, <2>2, <2>3 DEF Quiet, Volume
<1>3. ASSUME Outside, UNCHANGED disk PROVE DataInv'
  <2>1. \A h \in Handlers : (handler'[h].pc = "format") =>
          handler[h].pc = "format" /\ Volume(h)' = Volume(h)
    BY <1>3, OutsideSteps, IdleFields DEF Faulted, FaultTable, Volume
  <2>2. excused \subseteq excused'
    BY <1>3 DEF Outside, ControllerPublishVolume, Write, DeviceAppears, Fail, ResolveNotFound,
       AbandonCall, RestartController, RestartNodePlugin, Restart, NodeReboot
  <2> QED
    BY <1>1, <1>3, <2>1, <2>2 DEF Quiet
<1>4. Outside => UNCHANGED disk \/ \E n \in Nodes, v \in Volumes : Write(n, v)
  BY DEF Outside, ControllerPublishVolume, DeviceAppears, Fail, ResolveNotFound, AbandonCall,
     RestartController, RestartNodePlugin, NodeReboot
<1>5. CASE UNCHANGED vars
  BY <1>1, <1>5 DEF vars, Quiet, Volume
<1> QED
  BY <1>2, <1>3, <1>4, <1>5, NextKinds, HandlerData, WriteData

-----------------------------------------------------------------------------
(* Theorems.                                                               *)

\* Every reachable state is well typed; above all, a call takes the steps of its own
\* operation and knows its node and volume.
THEOREM AttachmentTypeCorrect == Spec => []TypeOK
<1>1. TypeInv => TypeOK
  <2>1. ASSUME TypeInv, NEW h \in Handlers
        PROVE  handler[h] \in Local
               /\ (handler[h].pc # "idle" => Node(h) # None /\ Volume(h) # None)
    BY <2>1, NoneAssumption DEF TypeInv, HandlersInv, Good, Node, Volume
  <2> QED
    BY <2>1 DEF TypeInv, WorldInv, PathsInv, TypeOK
<1> QED
  BY <1>1, TypeHolds, PTL

\* NodeStageVolume gives up on a device only after ISCSITimeout seconds, and before
\* twice as many, which is not the maximum README.md:120 says: its sleeps are the powers
\* of two, and come to one less than the next.
THEOREM WaitsLastUpToTwice == Spec => WaitsUpToTwice
<1>1. TypeInv /\ [Next]_vars => [\A h \in Handlers : WaitOver(h)]_vars
  BY OnlyTheDeadline, DeadlineWaited DEF WaitOver
<1> QED
  BY <1>1, TypeHolds, PTL DEF Spec, WaitsUpToTwice, WaitOver

\* When a detach is answered, the volume is not mapped to the node, whatever nodes,
\* volumes, calls given up and failures, where the node has had none of the events that
\* excuse it: no other call works on the volume, so that none maps it behind the back of
\* the one that has seen no mapping.
THEOREM DetachedVolumesAreUnmapped == Spec => []DetachedIsUnmapped
<1>1. DetachInv => DetachedIsUnmapped
  BY DEF DetachInv, DetachedAreLeft, DetachedIsUnmapped, Unmapped
<1>2. TypeInv /\ DetachInv /\ [Next]_vars => DetachInv'
  BY DetachNext
<1> QED
  BY <1>1, <1>2, DetachInit, TypeHolds, PTL DEF Spec


\* The invariant of the three theorems below: the names of devices, who works on a volume,
\* and what a quiet node holds for a volume.
LEMMA OwnHolds ==
  ASSUME SharedVolumes = {}
  PROVE  Spec => [](TypeInv /\ NamesInv /\ AloneInv /\ OwnInv)
<1>1. TypeInv /\ DetachInv /\ [Next]_vars => DetachInv'
  BY DetachNext
<1>2. TypeInv /\ DetachInv /\ AloneInv /\ [Next]_vars => AloneInv'
  BY AloneNext
<1>3. TypeInv /\ NamesInv /\ AloneInv /\ OwnInv /\ [Next]_vars => OwnInv'
  BY OwnNext
<1> QED
  BY <1>1, <1>2, <1>3, DetachInit, AloneInit, OwnInit, TypeHolds, NamesHold, PTL DEF Spec

\* A pod has its own volume at its target path, for every number of nodes, volumes, calls
\* given up and failures, where the node has had none of the events that excuse it and no
\* volume is used on two nodes at once: LUN numbers and device names are used again only
\* after the last path that holds them is gone.
THEOREM PublishedVolumesAreReached ==
  ASSUME SharedVolumes = {}
  PROVE  Spec => []PublishedReachesVolume
<1>1. TypeInv /\ NamesInv /\ OwnInv => PublishedReachesVolume
  BY PublishedIsReached DEF PublishedReachesVolume
<1> QED
  BY <1>1, OwnHolds, PTL

\* NodeUnstageVolume removes no device of another volume: the name it has found still
\* stands for the volume it unstages.
THEOREM OthersDevicesAreKept ==
  ASSUME SharedVolumes = {}
  PROVE  Spec => OthersKeepTheirDevices
<1> DEFINE Kept == \A h \in Handlers : RemoveDevice(h) /\ Quiet(Node(h)) =>
                     ReachedBy(Node(h), handler[h].dev) \subseteq {Volume(h)}
<1>1. ASSUME TypeInv, NamesInv, AloneInv, OwnInv, NEW h \in Handlers, RemoveDevice(h), Quiet(Node(h))
      PROVE  ReachedBy(Node(h), handler[h].dev) \subseteq {Volume(h)}
  <2>1. HandlerStep(h)
    BY <1>1 DEF HandlerStep, UnstageStep
  <2>2. FitsOne(Node(h), Volume(h), h) /\ Node(h) \in Nodes /\ Volume(h) \in Volumes
    BY <1>1, <2>1, OwnBefore
  <2>3. handler[h].dev \in OwnDevices(Node(h), Volume(h)) \cup {None}
    BY <1>1, <2>2 DEF RemoveDevice, At, FitsOne, Work, WorkIs
  <2>4. ReachedBy(Node(h), None) = {}
    BY DEF ReachedBy
  <2> QED
    BY <1>1, <2>2, <2>3, <2>4, OwnIsReached
<1>2. TypeInv /\ NamesInv /\ AloneInv /\ OwnInv /\ [Next]_vars => [Kept]_vars
  BY <1>1
<1> QED
  BY <1>2, OwnHolds, PTL DEF Spec, OthersKeepTheirDevices

\* What an application has written is neither formatted nor removed, where no node is
\* excused and blkid does not fail on a device that has data: mkfs is of a volume its own
\* handler has seen empty, and no path is removed while it is mounted.
THEOREM DataAreKept ==
  ASSUME SharedVolumes = {}, BlkidFails = FALSE
  PROVE  Spec => []DataSurvives
<1>1. DataInv => DataSurvives
  BY DEF DataInv, DataSurvives
<1>2. TypeInv /\ NamesInv /\ AloneInv /\ OwnInv /\ DataInv /\ [Next]_vars => DataInv'
  BY DataNext
<1> QED
  BY <1>1, <1>2, DataInit, OwnHolds, PTL DEF Spec

=============================================================================
