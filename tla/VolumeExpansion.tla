--------------------------- MODULE VolumeExpansion ---------------------------
(***************************************************************************)
(* ControllerExpandVolume (controllerServer.go) and NodeExpandVolume       *)
(* (nodeServer.go), a step for each REST call or command, called by the    *)
(* external-resizer and the kubelet until they answer without error.       *)
(*                                                                         *)
(* A volume has three sizes: the appliance's, the one the kernel of its    *)
(* node has for the device, and the file system's.  The CO records what it *)
(* has been told: pv is what ControllerExpandVolume answered, status what  *)
(* the pod can count on.                                                   *)
(***************************************************************************)
EXTENDS Naturals

CONSTANTS
  Volumes,
  BlockVolumes,   \* volumes used as raw block devices
  Sizes,          \* capacities a claim may ask for
  FirstSize,      \* the capacity volumes have at first
  Handlers,
  NoVolume,
  MaxFaults       \* bound: failures, calls given up, restarts

ASSUME VolumeAssumption == BlockVolumes \subseteq Volumes /\ NoVolume \notin Volumes
ASSUME SizeAssumption == Sizes \subseteq Nat \ {0} /\ FirstSize \in Sizes
ASSUME BoundAssumption == MaxFaults \in Nat

VARIABLES
  size,      \* [volume -> size on the appliance]
  kernel,    \* [volume -> size of the device on its node]
  fs,        \* [volume -> size of its file system]
  claim,     \* [volume -> spec, pv and status of its claim]
  handler,
  late,      \* [volume -> capacities of ControllerExpandVolume calls given up] (observation)
  unheard,   \* volumes a resizing of which was never heard of, or not by the kernel (observation)
  faults

sizes == <<size, kernel, fs>>
vars == <<sizes, claim, handler, late, unheard, faults>>

Idle == [op |-> "none", pc |-> "idle", volume |-> NoVolume, cap |-> 0, resized |-> FALSE,
         live |-> FALSE]

Init ==
  /\ size = [v \in Volumes |-> FirstSize]
  /\ kernel = size /\ fs = size
  /\ claim = [v \in Volumes |-> [spec |-> FirstSize, pv |-> FirstSize, status |-> FirstSize]]
  /\ handler = [h \in Handlers |-> Idle]
  /\ late = [v \in Volumes |-> {}]
  /\ unheard = {}
  /\ faults = 0

----------------------------------------------------------------------------
(* The CO.  One call at a time for a volume and a side.                    *)

AskMore(v, s) ==
  /\ s > claim[v].spec
  /\ claim' = [claim EXCEPT ![v].spec = s]
  /\ UNCHANGED <<sizes, handler, late, unheard, faults>>

Call(h, v, op, pc, cap) ==
  /\ handler[h].pc = "idle"
  /\ \A g \in Handlers : ~(handler[g].live /\ handler[g].volume = v /\ handler[g].op = op)
  /\ handler' = [handler EXCEPT ![h] =
       [op |-> op, pc |-> pc, volume |-> v, cap |-> cap, resized |-> FALSE, live |-> TRUE]]
  /\ UNCHANGED <<sizes, claim, late, unheard, faults>>

ControllerExpandVolume(h, v) ==
  /\ claim[v].spec > claim[v].pv
  /\ Call(h, v, "Controller", "getVolume", claim[v].spec)

NodeExpandVolume(h, v) ==
  /\ claim[v].pv > claim[v].status
  /\ Call(h, v, "Node", "checkVolume", claim[v].pv)

----------------------------------------------------------------------------
(* Handlers.                                                               *)

Volume(h) == handler[h].volume
At(h, pc) == handler[h].pc = pc /\ UNCHANGED faults
Put(h, local) == handler' = [handler EXCEPT ![h] = local]
Goto(h, pc) == Put(h, [handler[h] EXCEPT !.pc = pc])
Return(h) == Put(h, Idle)

\* Slip: the answer of a call with nothing to do has no CapacityBytes.
GetVolumeUnsized(h) ==
  /\ At(h, "getVolume")
  /\ IF size[Volume(h)] < handler[h].cap THEN Goto(h, "updateVolume")
     ELSE Put(h, [handler[h] EXCEPT !.pc = "reply", !.cap = 0])
  /\ UNCHANGED <<sizes, claim, late, unheard>>

\* Slip: a volume that is large enough is an error.
GetVolumeOnce(h) ==
  /\ At(h, "getVolume")
  /\ IF size[Volume(h)] < handler[h].cap THEN Goto(h, "updateVolume") ELSE Return(h)
  /\ UNCHANGED <<sizes, claim, late, unheard>>

\* Nothing is left to do when the volume is large enough.
GetVolume(h) ==
  /\ At(h, "getVolume")
  /\ Goto(h, IF size[Volume(h)] < handler[h].cap THEN "updateVolume" ELSE "reply")
  /\ UNCHANGED <<sizes, claim, late, unheard>>

\* Slip: the capacity is not passed on.
UpdateVolumeUnsized(h) ==
  /\ At(h, "updateVolume")
  /\ Put(h, [handler[h] EXCEPT !.pc = "reply", !.resized = TRUE])
  /\ UNCHANGED <<sizes, claim, late, unheard>>

\* Slip: NodeExpansionRequired is not set.
UpdateVolumeSilently(h) ==
  /\ At(h, "updateVolume")
  /\ size' = [size EXCEPT ![Volume(h)] = handler[h].cap]
  /\ Goto(h, "reply")
  /\ UNCHANGED <<kernel, fs, claim, late, unheard>>

\* The appliance sets the size it is given, a smaller one too.
UpdateVolume(h) ==
  /\ At(h, "updateVolume")
  /\ size' = [size EXCEPT ![Volume(h)] = handler[h].cap]
  /\ Put(h, [handler[h] EXCEPT !.pc = "reply", !.resized = TRUE])
  /\ UNCHANGED <<kernel, fs, claim, late, unheard>>

\* GetVolume, of which only the error counts, and findmnt.
CheckVolume(h) ==
  /\ At(h, "checkVolume")
  /\ Goto(h, "rescan")
  /\ UNCHANGED <<sizes, claim, late, unheard>>

\* The path of a raw block device is not the name of a device: nothing is rescanned.
RescanDevice(h) ==
  LET v == Volume(h) IN
  /\ At(h, "rescan")
  /\ IF v \in BlockVolumes THEN Goto(h, "reply") /\ UNCHANGED kernel
     ELSE Goto(h, "resize") /\ kernel' = [kernel EXCEPT ![v] = size[v]]
  /\ UNCHANGED <<size, fs, claim, late, unheard>>

\* A file system larger than its device is not resized.
Resize(h) ==
  LET v == Volume(h) IN
  /\ At(h, "resize")
  /\ IF kernel[v] < fs[v] THEN Return(h) /\ UNCHANGED fs
     ELSE Goto(h, "reply") /\ fs' = [fs EXCEPT ![v] = kernel[v]]
  /\ UNCHANGED <<size, kernel, claim, late, unheard>>

\* With NodeExpansionRequired the resizer leaves the status to the kubelet.
Recorded(c, h) ==
  CASE handler[h].op = "Node" -> [c EXCEPT !.status = handler[h].cap]
    [] handler[h].resized -> [c EXCEPT !.pv = handler[h].cap]
    [] OTHER -> [c EXCEPT !.pv = handler[h].cap, !.status = handler[h].cap]

ReplyHeard(h) ==
  /\ At(h, "reply") /\ handler[h].live
  /\ claim' = [claim EXCEPT ![Volume(h)] = Recorded(@, h)]
  /\ Return(h)
  /\ UNCHANGED <<sizes, late, unheard>>

Lost(gone) == unheard \cup {Volume(h) : h \in {g \in gone : handler[g].resized}}

ReplyUnheard(h) ==
  /\ At(h, "reply") /\ ~handler[h].live
  /\ unheard' = Lost({h})
  /\ Return(h)
  /\ UNCHANGED <<sizes, claim, late>>

----------------------------------------------------------------------------
(* Faults, and a pod that moves.                                           *)

Fault == faults < MaxFaults /\ faults' = faults + 1

\* A call or command fails, with its effect (the step before) or without.
Fail(h) ==
  /\ Fault /\ handler[h].pc \notin {"idle", "rescan"}
  /\ unheard' = Lost({h})
  /\ Return(h)
  /\ UNCHANGED <<sizes, claim, late>>

\* A failure of RescanDevice is logged, and that is all.
RescanFails(h) ==
  /\ Fault /\ handler[h].pc = "rescan"
  /\ Goto(h, IF Volume(h) \in BlockVolumes THEN "reply" ELSE "resize")
  /\ unheard' = unheard \cup {Volume(h)}
  /\ UNCHANGED <<sizes, claim, late>>

\* The caller gives up; the handler does not notice.
AbandonCall(h) ==
  /\ Fault /\ handler[h].live
  /\ Put(h, [handler[h] EXCEPT !.live = FALSE])
  /\ late' = IF handler[h].op = "Controller"
             THEN [late EXCEPT ![Volume(h)] = @ \cup {handler[h].cap}] ELSE late
  /\ UNCHANGED <<sizes, claim, unheard>>

\* A process of the driver restarts.
Crash(op) ==
  LET gone == {h \in Handlers : handler[h].op = op} IN
  /\ Fault /\ gone # {}
  /\ handler' = [h \in Handlers |-> IF h \in gone THEN Idle ELSE handler[h]]
  /\ unheard' = Lost(gone)
  /\ UNCHANGED <<sizes, claim, late>>

\* The volume is staged anew: the kernel sees the device for the first time.
Restage(v) ==
  /\ kernel[v] # size[v]
  /\ kernel' = [kernel EXCEPT ![v] = size[v]]
  /\ UNCHANGED <<size, fs, claim, handler, late, unheard, faults>>

----------------------------------------------------------------------------
HandlerStep(h) ==
  \/ GetVolume(h) \/ UpdateVolume(h)
  \/ CheckVolume(h) \/ RescanDevice(h) \/ Resize(h)
  \/ ReplyHeard(h) \/ ReplyUnheard(h)

Calls(v) == \E h \in Handlers : ControllerExpandVolume(h, v) \/ NodeExpandVolume(h, v)

Next ==
  \/ \E v \in Volumes : Calls(v) \/ Restage(v) \/ \E s \in Sizes : AskMore(v, s)
  \/ \E h \in Handlers : HandlerStep(h) \/ Fail(h) \/ RescanFails(h) \/ AbandonCall(h)
  \/ Crash("Controller") \/ Crash("Node")

Spec == Init /\ [][Next]_vars

\* Handlers run; the resizer and the kubelet come back to every volume, though the slot
\* a call needs may be taken by others again and again.
FairSpec ==
  /\ Spec
  /\ \A h \in Handlers : WF_vars(HandlerStep(h))
  /\ \A v \in Volumes :
       /\ SF_vars(\E h \in Handlers : ControllerExpandVolume(h, v))
       /\ SF_vars(\E h \in Handlers : NodeExpandVolume(h, v))

-----------------------------------------------------------------------------
(* Properties.                                                             *)

Local ==
  [op : {"none", "Controller", "Node"},
   pc : {"idle", "getVolume", "updateVolume", "checkVolume", "rescan", "resize", "reply"},
   volume : Volumes \cup {NoVolume}, cap : Sizes \cup {0}, resized : BOOLEAN, live : BOOLEAN]

\* Every variable keeps to its type, and every handler that runs has a volume and a
\* capacity to answer with.
TypeOK ==
  /\ size \in [Volumes -> Sizes] /\ kernel \in [Volumes -> Sizes] /\ fs \in [Volumes -> Sizes]
  /\ claim \in [Volumes -> [spec : Sizes, pv : Sizes, status : Sizes]]
  /\ handler \in [Handlers -> Local]
  /\ \A h \in Handlers : handler[h].pc # "idle" => Volume(h) \in Volumes /\ handler[h].cap \in Sizes
  /\ late \in [Volumes -> SUBSET Sizes]
  /\ unheard \subseteq Volumes
  /\ faults \in 0 .. MaxFaults

\* The volume is as large as ControllerExpandVolume said (CS 350-366), unless a call the
\* resizer had given up set it to its own, smaller size since.
SizeAsAnswered ==
  \A v \in Volumes : size[v] >= claim[v].pv \/ size[v] \in late[v]

\* What the pod can count on is there in its file system (NS 1252-1262), unless the answer
\* that asked for the node's part was lost, RescanDevice failed (NS 221) or a late call
\* interfered.
FileSystemFollows ==
  \A v \in Volumes \ (BlockVolumes \cup unheard) :
    late[v] = {} => fs[v] >= claim[v].status

\* An expansion ends, with the size asked for last, whatever failed, was lost or restarted
\* on the way, unless a late call has made the volume smaller than its file system.
ExpansionFinishes ==
  \A v \in Volumes :
    [](late[v] = {}) => []<>(claim[v].status = claim[v].spec)
=============================================================================
