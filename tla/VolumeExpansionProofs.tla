------------------------ MODULE VolumeExpansionProofs ------------------------
(***************************************************************************)
(* Proofs about VolumeExpansion, for any volumes, sizes, handlers and      *)
(* faults.                                                                 *)
(***************************************************************************)
EXTENDS VolumeExpansion, TLAPS

-----------------------------------------------------------------------------
(* Types, and what a handler knows at each step.                           *)

GoodHandler(r) ==
    /\ r \in Local
    /\ r.pc = "idle" => r = Idle
    /\ r.pc # "idle" => r.volume \in Volumes /\ r.cap \in Sizes /\ r.op # "none"
    /\ r.op = "Controller" => r.pc \in {"getVolume", "updateVolume", "reply"}
    /\ r.op = "Node" => r.pc \in {"checkVolume", "rescan", "resize", "reply"}
    /\ r.resized => r.op = "Controller" /\ r.pc = "reply"

HandlersGood ==
    handler \in [Handlers -> Local] /\ \A h \in Handlers : GoodHandler(handler[h])

TypeInv == TypeOK /\ HandlersGood

LEMMA IdleIsGood == GoodHandler(Idle)
BY DEF GoodHandler, Idle, Local

LEMMA PutGood ==
    ASSUME HandlersGood, NEW h \in Handlers, NEW local, GoodHandler(local), Put(h, local)
    PROVE  HandlersGood'
BY DEF HandlersGood, Put, GoodHandler

LEMMA ReturnGood ==
    ASSUME HandlersGood, NEW h \in Handlers, Return(h)
    PROVE  HandlersGood'
BY PutGood, IdleIsGood DEF Return

LEMMA CallGood ==
    ASSUME HandlersGood, NEW h \in Handlers, NEW v \in Volumes, NEW cap \in Sizes,
           \/ Call(h, v, "Controller", "getVolume", cap)
           \/ Call(h, v, "Node", "checkVolume", cap)
    PROVE  HandlersGood'
<1> DEFINE New(op, pc) ==
      [op |-> op, pc |-> pc, volume |-> v, cap |-> cap, resized |-> FALSE, live |-> TRUE]
<1>1. GoodHandler(New("Controller", "getVolume")) /\ GoodHandler(New("Node", "checkVolume"))
  BY DEF GoodHandler, Local
<1>2. Put(h, New("Controller", "getVolume")) \/ Put(h, New("Node", "checkVolume"))
  BY DEF Call, Put
<1> QED
  BY <1>1, <1>2, PutGood

\* A handler that goes on keeps its volume and its capacity.
LEMMA OnwardGood ==
    ASSUME HandlersGood, NEW h \in Handlers, NEW pc, Goto(h, pc),
           \/ handler[h].pc = "getVolume" /\ pc \in {"updateVolume", "reply"}
           \/ handler[h].pc = "checkVolume" /\ pc = "rescan"
           \/ handler[h].pc = "rescan" /\ pc \in {"resize", "reply"}
           \/ handler[h].pc = "resize" /\ pc = "reply"
    PROVE  HandlersGood'
<1>1. GoodHandler(handler[h])
  BY DEF HandlersGood
<1>2. GoodHandler([handler[h] EXCEPT !.pc = pc])
  BY <1>1 DEF GoodHandler, Local, Idle
<1> QED
  BY <1>2, PutGood DEF Goto

LEMMA StepsGood ==
    ASSUME HandlersGood, NEW h \in Handlers, HandlerStep(h)
    PROVE  HandlersGood'
<1>0. GoodHandler(handler[h])
  BY DEF HandlersGood
<1>1. CASE GetVolume(h)
  <2>1. PICK pc \in {"updateVolume", "reply"} : Goto(h, pc)
    BY <1>1 DEF GetVolume
  <2> QED
    BY <1>1, <2>1, OnwardGood DEF GetVolume, At
<1>2. CASE UpdateVolume(h)
  <2>1. GoodHandler([handler[h] EXCEPT !.pc = "reply", !.resized = TRUE])
    BY <1>0, <1>2 DEF UpdateVolume, At, GoodHandler, Local
  <2> QED
    BY <1>2, <2>1, PutGood DEF UpdateVolume
<1>3. CASE CheckVolume(h)
  BY <1>3, OnwardGood DEF CheckVolume, At
<1>4. CASE RescanDevice(h)
  BY <1>4, OnwardGood DEF RescanDevice, At
<1>5. CASE Resize(h)
  BY <1>5, OnwardGood, ReturnGood DEF Resize, At
<1>6. CASE ReplyHeard(h) \/ ReplyUnheard(h)
  BY <1>6, ReturnGood DEF ReplyHeard, ReplyUnheard
<1> QED
  BY <1>1, <1>2, <1>3, <1>4, <1>5, <1>6 DEF HandlerStep

LEMMA FaultsGood ==
    ASSUME HandlersGood, NEW h \in Handlers,
           Fail(h) \/ RescanFails(h) \/ AbandonCall(h) \/ Crash("Controller") \/ Crash("Node")
    PROVE  HandlersGood'
<1>0. GoodHandler(handler[h])
  BY DEF HandlersGood
<1>1. CASE Fail(h)
  BY <1>1, ReturnGood DEF Fail
<1>2. CASE RescanFails(h)
  BY <1>2, OnwardGood DEF RescanFails
<1>3. CASE AbandonCall(h)
  <2>1. handler[h].pc # "idle"
    BY <1>0, <1>3 DEF AbandonCall, GoodHandler, Idle
  <2>2. GoodHandler([handler[h] EXCEPT !.live = FALSE])
    BY <1>0, <2>1 DEF GoodHandler, Local
  <2> QED
    BY <1>3, <2>2, PutGood DEF AbandonCall
<1>4. CASE Crash("Controller") \/ Crash("Node")
  <2>1. Idle \in Local
    BY IdleIsGood DEF GoodHandler
  <2>2. \A g \in Handlers : handler'[g] \in {Idle, handler[g]}
    BY <1>4 DEF Crash
  <2>3. handler' \in [Handlers -> Local]
    BY <1>4, <2>1 DEF Crash, HandlersGood
  <2> QED
    BY <2>2, <2>3, IdleIsGood DEF HandlersGood
<1> QED
  BY <1>1, <1>2, <1>3, <1>4

LEMMA LostType ==
    ASSUME TypeInv, NEW gone \in SUBSET Handlers
    PROVE  Lost(gone) \subseteq Volumes
BY DEF TypeInv, TypeOK, HandlersGood, GoodHandler, Lost, Volume, Idle

LEMMA TypeInit == Init => TypeInv
<1> SUFFICES ASSUME Init PROVE TypeInv
  OBVIOUS
<1>1. HandlersGood
  BY IdleIsGood DEF Init, HandlersGood, GoodHandler
<1>2. \A h \in Handlers : handler[h].pc = "idle"
  BY DEF Init, Idle
<1>3. handler \in [Handlers -> Local]
  BY <1>1 DEF HandlersGood
<1> QED
  BY <1>1, <1>2, <1>3, SizeAssumption, BoundAssumption DEF Init, TypeInv, TypeOK

LEMMA TypeStep == TypeInv /\ [Next]_vars => TypeInv'
<1> SUFFICES ASSUME TypeInv, [Next]_vars PROVE TypeInv'
  OBVIOUS
<1> DEFINE Rest == /\ size \in [Volumes -> Sizes] /\ kernel \in [Volumes -> Sizes]
                   /\ fs \in [Volumes -> Sizes]
                   /\ claim \in [Volumes -> [spec : Sizes, pv : Sizes, status : Sizes]]
                   /\ late \in [Volumes -> SUBSET Sizes]
                   /\ unheard \subseteq Volumes
                   /\ faults \in 0 .. MaxFaults
<1>0. Rest /\ HandlersGood
  BY DEF TypeInv, TypeOK
<1>1. ASSUME NEW v \in Volumes, NEW s \in Sizes, AskMore(v, s) PROVE Rest' /\ HandlersGood'
  BY <1>0, <1>1 DEF AskMore, sizes, HandlersGood
<1>2. ASSUME NEW v \in Volumes, NEW h \in Handlers, ControllerExpandVolume(h, v)
      PROVE  Rest' /\ HandlersGood'
  <2>1. claim[v].spec \in Sizes
    BY <1>0
  <2> QED
    BY <1>0, <1>2, <2>1, CallGood DEF ControllerExpandVolume, Call, sizes
<1>3. ASSUME NEW v \in Volumes, NEW h \in Handlers, NodeExpandVolume(h, v)
      PROVE  Rest' /\ HandlersGood'
  <2>1. claim[v].pv \in Sizes
    BY <1>0
  <2> QED
    BY <1>0, <1>3, <2>1, CallGood DEF NodeExpandVolume, Call, sizes
<1>4. ASSUME NEW v \in Volumes, Restage(v) PROVE Rest' /\ HandlersGood'
  BY <1>0, <1>4 DEF Restage, HandlersGood
<1>5. ASSUME NEW h \in Handlers, HandlerStep(h) PROVE Rest' /\ HandlersGood'
  <2>0. HandlersGood'
    BY <1>0, <1>5, StepsGood
  <2>1. Volume(h) \in Volumes /\ handler[h].cap \in Sizes
    BY <1>0, <1>5 DEF HandlersGood, GoodHandler, HandlerStep, At, Volume, GetVolume,
                      UpdateVolume, CheckVolume, RescanDevice, Resize, ReplyHeard, ReplyUnheard
  <2>2. CASE GetVolume(h) \/ CheckVolume(h)
    BY <2>0, <1>0, <2>2 DEF GetVolume, CheckVolume, At, sizes
  <2>3. CASE UpdateVolume(h)
    BY <2>0, <1>0, <2>1, <2>3 DEF UpdateVolume, At
  <2>4. CASE RescanDevice(h)
    BY <2>0, <1>0, <2>1, <2>4 DEF RescanDevice, At
  <2>5. CASE Resize(h)
    BY <2>0, <1>0, <2>1, <2>5 DEF Resize, At
  <2>6. CASE ReplyHeard(h)
    <3>1. Recorded(claim[Volume(h)], h) \in [spec : Sizes, pv : Sizes, status : Sizes]
      BY <1>0, <2>1 DEF Recorded
    <3> QED
      BY <2>0, <1>0, <2>1, <2>6, <3>1 DEF ReplyHeard, At, sizes
  <2>7. CASE ReplyUnheard(h)
    BY <2>0, <1>0, <2>7, LostType DEF ReplyUnheard, At, sizes
  <2> QED
    BY <1>5, <2>0, <2>2, <2>3, <2>4, <2>5, <2>6, <2>7 DEF HandlerStep
<1>6. ASSUME NEW h \in Handlers, Fail(h) PROVE Rest' /\ HandlersGood'
  <2>1. HandlersGood' /\ Lost({h}) \subseteq Volumes
    BY <1>0, <1>6, FaultsGood, LostType
  <2> QED
    <3>1. faults' \in 0 .. MaxFaults
      BY <1>0, <1>6, BoundAssumption DEF Fail, Fault
    <3>2. unheard' \subseteq Volumes
      BY <1>6, <2>1 DEF Fail
    <3> QED
      BY <1>0, <1>6, <2>1, <3>1, <3>2 DEF Fail, sizes
<1>7. ASSUME NEW h \in Handlers, RescanFails(h) PROVE Rest' /\ HandlersGood'
  <2>1. Volume(h) \in Volumes
    BY <1>0, <1>7 DEF RescanFails, HandlersGood, GoodHandler, Volume
  <2> QED
    BY <1>0, <1>7, <2>1, FaultsGood, BoundAssumption DEF RescanFails, Fault, sizes
<1>8. ASSUME NEW h \in Handlers, AbandonCall(h) PROVE Rest' /\ HandlersGood'
  <2>1. Volume(h) \in Volumes /\ handler[h].cap \in Sizes
    BY <1>0, <1>8 DEF AbandonCall, HandlersGood, GoodHandler, Volume, Idle
  <2>2. late' \in [Volumes -> SUBSET Sizes]
    BY <1>0, <1>8, <2>1 DEF AbandonCall
  <2>3. HandlersGood'
    BY <1>0, <1>8, FaultsGood
  <2> QED
    BY <1>0, <1>8, <2>2, <2>3, BoundAssumption DEF AbandonCall, Fault, sizes
<1>9. ASSUME NEW op \in {"Controller", "Node"}, Crash(op) PROVE Rest' /\ HandlersGood'
  <2>1. PICK h \in Handlers : handler[h].op = op
    BY <1>9 DEF Crash
  <2>2. HandlersGood'
    BY <1>0, <1>9, <2>1, FaultsGood
  <2> QED
    BY <1>0, <1>9, <2>2, LostType, BoundAssumption DEF Crash, Fault, sizes
<1>10. ASSUME UNCHANGED vars PROVE Rest' /\ HandlersGood'
  <2>1. HandlersGood'
    BY <1>0, <1>10 DEF vars, HandlersGood
  <2>2. Rest'
    BY <1>0, <1>10 DEF vars, sizes
  <2> QED
    BY <2>1, <2>2
<1>11. Rest' /\ HandlersGood'
  <2> HIDE DEF Rest
  <2>1. CASE \E v \in Volumes : Calls(v) \/ Restage(v) \/ \E s \in Sizes : AskMore(v, s)
    BY <1>1, <1>2, <1>3, <1>4, <2>1 DEF Calls
  <2>2. CASE \E h \in Handlers : HandlerStep(h) \/ Fail(h) \/ RescanFails(h) \/ AbandonCall(h)
    BY <1>5, <1>6, <1>7, <1>8, <2>2
  <2> QED
    BY <1>9, <1>10, <2>1, <2>2 DEF Next
<1> QED
  BY <1>11 DEF TypeInv, TypeOK, HandlersGood, GoodHandler, Volume

\* Every reachable state is well typed, and a handler at work has a volume of the
\* driver and a capacity to answer with, whatever overlaps, fails or restarts.
THEOREM ExpansionTypeCorrect == Spec => []TypeOK
<1>1. TypeInv => TypeOK
  BY DEF TypeInv
<1> QED
  BY <1>1, TypeInit, TypeStep, PTL DEF Spec
-----------------------------------------------------------------------------
(* SizeAsAnswered.  The resizer has one call at a time for a volume, so a  *)
(* size that is not its answer was set by a call it had given up.          *)

Expanding(h, v) == handler[h].op = "Controller" /\ Volume(h) = v

OneCallEach ==
    \A g \in Handlers, h \in Handlers :
      /\ handler[g].live /\ handler[h].live
      /\ Volume(g) = Volume(h) /\ handler[g].op = handler[h].op
      => g = h

\* What the answer of a call tells of the volume, as long as the volume is not late's.
Answers(v) ==
    \A h \in Handlers : Expanding(h, v) =>
      IF handler[h].live
      THEN /\ handler[h].cap > claim[v].pv
           /\ handler[h].pc = "reply" => size[v] >= handler[h].cap \/ size[v] \in late[v]
      ELSE handler[h].cap \in late[v]

SizeInv ==
    /\ TypeInv
    /\ OneCallEach
    /\ \A v \in Volumes : Answers(v)
    /\ SizeAsAnswered

\* The other steps of a handler and of its failures: it goes on with its call, or ends.
Carried(g) ==
    \/ handler'[g] = Idle
    \/ /\ handler'[g].op = handler[g].op /\ handler'[g].volume = handler[g].volume
       /\ handler'[g].cap = handler[g].cap /\ handler'[g].live = handler[g].live

LEMMA CarriedOne ==
    ASSUME OneCallEach, \A g \in Handlers : Carried(g)
    PROVE  OneCallEach'
BY DEF OneCallEach, Carried, Volume, Idle

LEMMA QuietSize ==
    ASSUME SizeInv, TypeInv', UNCHANGED <<size, late>>,
           \A v \in Volumes : claim'[v].pv = claim[v].pv,
           \A g \in Handlers : Carried(g),
           \A g \in Handlers : handler'[g].op = "Controller" /\ handler'[g].pc = "reply" =>
             handler[g].pc = "reply" \/ size[Volume(g)] >= handler[g].cap
    PROVE  SizeInv'
<1>1. OneCallEach'
  BY CarriedOne DEF SizeInv
<1>2. ASSUME NEW v \in Volumes PROVE Answers(v)'
  <2> SUFFICES ASSUME NEW h \in Handlers, Expanding(h, v)'
               PROVE  IF handler'[h].live
                      THEN /\ handler'[h].cap > claim'[v].pv
                           /\ handler'[h].pc = "reply" =>
                                size'[v] >= handler'[h].cap \/ size'[v] \in late'[v]
                      ELSE handler'[h].cap \in late'[v]
    BY DEF Answers
  <2>1. handler'[h].op = "Controller" /\ handler'[h].volume = v
    BY DEF Expanding, Volume
  <2>2. /\ Expanding(h, v) /\ Volume(h) = v
        /\ handler'[h].cap = handler[h].cap /\ handler'[h].live = handler[h].live
    BY <2>1 DEF Carried, Idle, Expanding, Volume
  <2>3. Answers(v)
    BY DEF SizeInv
  <2> QED
    BY <2>1, <2>2, <2>3 DEF Answers
<1>3. SizeAsAnswered'
  BY DEF SizeInv, SizeAsAnswered
<1> QED
  BY <1>1, <1>2, <1>3 DEF SizeInv

LEMMA PutCarries ==
    ASSUME HandlersGood, NEW h \in Handlers, NEW local, Put(h, local),
           \/ local = Idle
           \/ /\ local.op = handler[h].op /\ local.volume = handler[h].volume
              /\ local.cap = handler[h].cap /\ local.live = handler[h].live
    PROVE  /\ \A g \in Handlers : Carried(g)
           /\ \A g \in Handlers \ {h} : handler'[g] = handler[g]
           /\ handler'[h] = local
BY DEF HandlersGood, Put, Carried

LEMMA CallSize ==
    ASSUME SizeInv, TypeInv', NEW v \in Volumes, NEW h \in Handlers,
           ControllerExpandVolume(h, v) \/ NodeExpandVolume(h, v)
    PROVE  SizeInv'
<1>1. /\ handler[h].pc = "idle" /\ handler'[h].live /\ handler'[h].volume = v
      /\ handler'[h].pc # "reply"
      /\ \A g \in Handlers \ {h} : handler'[g] = handler[g]
      /\ \A g \in Handlers : handler[g].live /\ handler[g].volume = v
                             => handler[g].op # handler'[h].op
      /\ handler'[h].op = "Controller" => handler'[h].cap > claim[v].pv
      /\ UNCHANGED <<size, claim, late>>
  BY DEF ControllerExpandVolume, NodeExpandVolume, Call, sizes, SizeInv, TypeInv, HandlersGood
<1>2. OneCallEach'
  BY <1>1 DEF SizeInv, OneCallEach, Volume
<1>3. ASSUME NEW w \in Volumes PROVE Answers(w)'
  BY <1>1 DEF SizeInv, Answers, Expanding, Volume
<1>4. SizeAsAnswered'
  BY <1>1 DEF SizeInv, SizeAsAnswered
<1> QED
  BY <1>2, <1>3, <1>4 DEF SizeInv

LEMMA UpdateSize ==
    ASSUME SizeInv, TypeInv', NEW h \in Handlers, UpdateVolume(h)
    PROVE  SizeInv'
<1> DEFINE w == Volume(h)
           cap == handler[h].cap
<1>1. /\ GoodHandler(handler[h]) /\ handler[h].pc = "updateVolume" /\ handler[h].op = "Controller"
      /\ w \in Volumes /\ cap \in Sizes
  <2>1. GoodHandler(handler[h]) /\ handler[h].pc = "updateVolume"
    BY DEF SizeInv, TypeInv, HandlersGood, UpdateVolume, At
  <2> QED
    BY <2>1 DEF GoodHandler, Local, Volume
<1>2. /\ size' = [size EXCEPT ![w] = cap] /\ UNCHANGED <<claim, late>>
      /\ \A g \in Handlers : Carried(g)
      /\ \A g \in Handlers \ {h} : handler'[g] = handler[g]
  <2> DEFINE local == [handler[h] EXCEPT !.pc = "reply", !.resized = TRUE]
  <2>1. /\ local.op = handler[h].op /\ local.volume = handler[h].volume
        /\ local.cap = handler[h].cap /\ local.live = handler[h].live
    BY <1>1 DEF GoodHandler, Local
  <2>2. Put(h, local) /\ size' = [size EXCEPT ![w] = cap] /\ UNCHANGED <<claim, late>>
    BY DEF UpdateVolume
  <2> HIDE DEF local
  <2> QED
    BY <2>1, <2>2, PutCarries DEF SizeInv, TypeInv
<1>3. size'[w] = cap /\ \A v \in Volumes \ {w} : size'[v] = size[v]
  BY <1>1, <1>2 DEF SizeInv, TypeInv, TypeOK
<1>4. IF handler[h].live THEN cap > claim[w].pv ELSE cap \in late[w]
  BY <1>1 DEF SizeInv, Answers, Expanding
<1>5. /\ \A v \in Volumes : size[v] \in Nat /\ claim[v].pv \in Nat
      /\ cap \in Nat
  BY <1>1, SizeAssumption DEF SizeInv, TypeInv, TypeOK
<1>6. OneCallEach'
  BY <1>2, CarriedOne DEF SizeInv
<1>7. ASSUME NEW v \in Volumes PROVE Answers(v)'
  <2> SUFFICES ASSUME NEW g \in Handlers, Expanding(g, v)'
               PROVE  IF handler'[g].live
                      THEN /\ handler'[g].cap > claim'[v].pv
                           /\ handler'[g].pc = "reply" =>
                                size'[v] >= handler'[g].cap \/ size'[v] \in late'[v]
                      ELSE handler'[g].cap \in late'[v]
    BY DEF Answers
  <2>1. handler'[g].op = "Controller" /\ handler'[g].volume = v
    BY DEF Expanding, Volume
  <2>2. /\ Expanding(g, v) /\ Volume(g) = v
        /\ handler'[g].cap = handler[g].cap /\ handler'[g].live = handler[g].live
    BY <2>1, <1>2 DEF Carried, Idle, Expanding, Volume
  <2>3. Answers(v)
    BY DEF SizeInv
  <2>4. CASE v # w
    <3>1. handler'[g] = handler[g]
      BY <1>2, <2>2, <2>4
    <3> QED
      BY <1>2, <1>3, <2>2, <2>3, <2>4, <3>1 DEF Answers
  <2>5. CASE g = h
    BY <1>2, <1>3, <1>4, <1>5, <2>2, <2>5
  <2>6. CASE g # h /\ v = w
    <3>1. handler[g].live => ~handler[h].live
      BY <1>1, <2>2, <2>6 DEF SizeInv, OneCallEach, Expanding, Volume
    <3>2. ~handler[h].live => size'[v] \in late'[v]
      BY <1>2, <1>3, <1>4, <2>6
    <3> QED
      BY <1>2, <2>2, <2>3, <2>6, <3>1, <3>2 DEF Answers
  <2> QED
    BY <2>4, <2>5, <2>6
<1>8. SizeAsAnswered'
  <2> SUFFICES ASSUME NEW v \in Volumes PROVE size'[v] >= claim'[v].pv \/ size'[v] \in late'[v]
    BY DEF SizeAsAnswered
  <2> QED
    BY <1>2, <1>3, <1>4, <1>5 DEF SizeInv, SizeAsAnswered
<1> QED
  BY <1>6, <1>7, <1>8 DEF SizeInv

LEMMA HeardSize ==
    ASSUME SizeInv, TypeInv', NEW h \in Handlers, ReplyHeard(h)
    PROVE  SizeInv'
<1> DEFINE w == Volume(h)
<1>1. /\ GoodHandler(handler[h]) /\ handler[h].pc = "reply" /\ handler[h].live
      /\ w \in Volumes /\ UNCHANGED <<size, late>>
  BY DEF SizeInv, TypeInv, HandlersGood, GoodHandler, ReplyHeard, At, Volume, Idle, sizes
<1>2. /\ \A g \in Handlers : Carried(g)
      /\ handler'[h] = Idle
      /\ \A g \in Handlers \ {h} : handler'[g] = handler[g]
  BY PutCarries DEF SizeInv, TypeInv, ReplyHeard, Return
<1>3. /\ claim'[w].pv = IF handler[h].op = "Node" THEN claim[w].pv ELSE handler[h].cap
      /\ \A v \in Volumes \ {w} : claim'[v] = claim[v]
  <2>1. claim \in [Volumes -> [spec : Sizes, pv : Sizes, status : Sizes]]
    BY DEF SizeInv, TypeInv, TypeOK
  <2>2. claim' = [claim EXCEPT ![w] = Recorded(claim[w], h)]
    BY DEF ReplyHeard
  <2>3. Recorded(claim[w], h).pv = IF handler[h].op = "Node" THEN claim[w].pv ELSE handler[h].cap
    <3>1. claim[w] \in [spec : Sizes, pv : Sizes, status : Sizes]
      BY <1>1, <2>1
    <3>2. CASE handler[h].op = "Node"
      BY <1>1, <3>1, <3>2 DEF Recorded, GoodHandler
    <3>3. CASE handler[h].op # "Node" /\ handler[h].resized
      BY <3>1, <3>3 DEF Recorded
    <3>4. CASE handler[h].op # "Node" /\ ~handler[h].resized
      BY <3>1, <3>4 DEF Recorded
    <3> QED
      BY <3>2, <3>3, <3>4
  <2> QED
    BY <1>1, <2>1, <2>2, <2>3
<1>4. OneCallEach'
  BY <1>2, CarriedOne DEF SizeInv
<1>5. CASE handler[h].op = "Node"
  <2>1. \A v \in Volumes : claim'[v].pv = claim[v].pv
    BY <1>3, <1>5
  <2> QED
    BY <1>1, <1>2, <2>1, QuietSize DEF Idle
<1>6. CASE handler[h].op = "Controller"
  <2>0. Answers(w) /\ Expanding(h, w)
    BY <1>1, <1>6 DEF SizeInv, Expanding
  <2>1. size[w] >= handler[h].cap \/ size[w] \in late[w]
    BY <1>1, <2>0 DEF Answers
  <2>2. SizeAsAnswered'
    BY <1>1, <1>3, <1>6, <2>1 DEF SizeInv, SizeAsAnswered
  <2>3. ASSUME NEW v \in Volumes, NEW g \in Handlers, Expanding(g, v)'
        PROVE  /\ g # h /\ Expanding(g, v) /\ handler'[g] = handler[g]
               /\ handler[g].live => v # w
    <3>1. g # h /\ handler'[g] = handler[g]
      BY <1>2, <2>3 DEF Expanding, Idle
    <3>2. Expanding(g, v)
      BY <2>3, <3>1 DEF Expanding, Volume
    <3> QED
      BY <1>1, <1>6, <3>1, <3>2 DEF SizeInv, OneCallEach, Expanding, Volume
  <2>4. ASSUME NEW v \in Volumes PROVE Answers(v)'
    <3>1. Answers(v)
      BY DEF SizeInv
    <3> QED
      BY <1>1, <1>3, <2>3, <3>1 DEF Answers
  <2> QED
    BY <1>4, <2>2, <2>4 DEF SizeInv
<1>7. handler[h].op \in {"Node", "Controller"}
  BY <1>1 DEF GoodHandler, Local
<1> QED
  BY <1>5, <1>6, <1>7

LEMMA AbandonSize ==
    ASSUME SizeInv, TypeInv', NEW h \in Handlers, AbandonCall(h)
    PROVE  SizeInv'
<1>1. /\ handler'[h].op = handler[h].op /\ handler'[h].volume = handler[h].volume
      /\ handler'[h].cap = handler[h].cap /\ ~handler'[h].live
      /\ \A g \in Handlers \ {h} : handler'[g] = handler[g]
      /\ UNCHANGED <<size, claim>>
  BY DEF SizeInv, TypeInv, HandlersGood, AbandonCall, Put, Local, sizes
<1>2. /\ \A v \in Volumes : late[v] \subseteq late'[v]
      /\ \A v \in Volumes : Expanding(h, v) => handler[h].cap \in late'[v]
  BY DEF SizeInv, TypeInv, TypeOK, AbandonCall, Expanding, Volume
<1>3. OneCallEach'
  BY <1>1 DEF SizeInv, OneCallEach, Volume
<1>4. ASSUME NEW v \in Volumes PROVE Answers(v)'
  <2>1. Answers(v)
    BY DEF SizeInv
  <2>2. \A g \in Handlers : Expanding(g, v)' = Expanding(g, v)
    BY <1>1 DEF Expanding, Volume
  <2> QED
    BY <1>1, <1>2, <2>1, <2>2 DEF Answers
<1>5. SizeAsAnswered'
  BY <1>1, <1>2 DEF SizeInv, SizeAsAnswered
<1> QED
  BY <1>3, <1>4, <1>5 DEF SizeInv

\* A handler that ends, or goes on without a word to the volume.
LEMMA EndsSize ==
    ASSUME SizeInv, TypeInv', NEW h \in Handlers,
           Fail(h) \/ ReplyUnheard(h) \/ RescanFails(h)
    PROVE  SizeInv'
<1>1. GoodHandler(handler[h])
  BY DEF SizeInv, TypeInv, HandlersGood
<1>2. PICK local :
        /\ Put(h, local)
        /\ \/ local = Idle
           \/ /\ local.op = handler[h].op /\ local.volume = handler[h].volume
              /\ local.cap = handler[h].cap /\ local.live = handler[h].live
              /\ local.op # "Controller"
  <2>1. CASE Fail(h) \/ ReplyUnheard(h)
    BY <2>1 DEF Fail, ReplyUnheard, Return
  <2>2. CASE RescanFails(h)
    <3>1. PICK pc : Goto(h, pc)
      BY <2>2 DEF RescanFails
    <3>2. handler[h].op # "Controller"
      BY <1>1, <2>2 DEF RescanFails, GoodHandler
    <3> QED
      BY <1>1, <3>1, <3>2 DEF Goto, GoodHandler, Local
  <2> QED
    BY <2>1, <2>2
<1>3. /\ \A g \in Handlers : Carried(g)
      /\ \A g \in Handlers \ {h} : handler'[g] = handler[g]
      /\ handler'[h] = local
  BY <1>2, PutCarries DEF SizeInv, TypeInv
<1>4. UNCHANGED <<size, claim, late>>
  BY DEF Fail, ReplyUnheard, RescanFails, sizes
<1>5. local.op # "Controller"
  BY <1>2 DEF Idle
<1>6. \A g \in Handlers : handler'[g].op = "Controller" => handler'[g] = handler[g]
  BY <1>3, <1>5
<1> QED
  BY <1>3, <1>4, <1>6, QuietSize

LEMMA StepsSize ==
    ASSUME SizeInv, TypeInv', NEW h \in Handlers, HandlerStep(h)
    PROVE  SizeInv'
<1>0. GoodHandler(handler[h])
  BY DEF SizeInv, TypeInv, HandlersGood
<1>1. ASSUME NEW pc, Goto(h, pc), UNCHANGED <<size, claim, late>>,
             handler[h].op = "Controller" /\ pc = "reply" => size[Volume(h)] >= handler[h].cap
      PROVE  SizeInv'
  <2> DEFINE local == [handler[h] EXCEPT !.pc = pc]
  <2>1. /\ local.op = handler[h].op /\ local.volume = handler[h].volume
        /\ local.cap = handler[h].cap /\ local.live = handler[h].live /\ local.pc = pc
    BY <1>0 DEF GoodHandler, Local
  <2>2. Put(h, local)
    BY <1>1 DEF Goto
  <2> HIDE DEF local
  <2>3. /\ \A g \in Handlers : Carried(g)
        /\ \A g \in Handlers \ {h} : handler'[g] = handler[g]
        /\ handler'[h] = local
    BY <2>1, <2>2, PutCarries DEF SizeInv, TypeInv
  <2>4. \A g \in Handlers : handler'[g].op = "Controller" /\ handler'[g].pc = "reply" =>
          handler[g].pc = "reply" \/ size[Volume(g)] >= handler[g].cap
    BY <1>1, <2>1, <2>3
  <2> QED
    BY <1>1, <2>3, <2>4, QuietSize
<1>2. CASE GetVolume(h)
  <2>0. Volume(h) \in Volumes /\ handler[h].cap \in Nat /\ size[Volume(h)] \in Nat
    <3>1. Volume(h) \in Volumes /\ handler[h].cap \in Sizes
      BY <1>0, <1>2 DEF GetVolume, At, GoodHandler, Volume
    <3> QED
      BY <3>1, SizeAssumption DEF SizeInv, TypeInv, TypeOK
  <2> QED
    BY <1>1, <1>2, <2>0 DEF GetVolume, sizes
<1>3. CASE UpdateVolume(h)
  BY <1>3, UpdateSize
<1>4. CASE CheckVolume(h) \/ RescanDevice(h)
  <2>1. handler[h].op # "Controller"
    BY <1>0, <1>4 DEF CheckVolume, RescanDevice, At, GoodHandler
  <2> QED
    BY <1>1, <1>4, <2>1 DEF CheckVolume, RescanDevice, sizes
<1>5. CASE Resize(h)
  <2>1. handler[h].op # "Controller"
    BY <1>0, <1>5 DEF Resize, At, GoodHandler
  <2>2. CASE kernel[Volume(h)] < fs[Volume(h)]
    <3>1. Put(h, Idle) /\ UNCHANGED <<size, claim, late>>
      BY <1>5, <2>2 DEF Resize, Return
    <3>2. /\ \A g \in Handlers : Carried(g)
          /\ \A g \in Handlers \ {h} : handler'[g] = handler[g]
          /\ handler'[h] = Idle
      BY <3>1, PutCarries DEF SizeInv, TypeInv
    <3>3. Idle.op # "Controller"
      BY DEF Idle
    <3>4. \A g \in Handlers : handler'[g].op = "Controller" => handler'[g] = handler[g]
      BY <3>2, <3>3
    <3> QED
      BY <3>1, <3>2, <3>4, QuietSize
  <2>3. CASE ~(kernel[Volume(h)] < fs[Volume(h)])
    BY <1>1, <1>5, <2>1, <2>3 DEF Resize
  <2> QED
    BY <2>2, <2>3
<1>6. CASE ReplyHeard(h)
  BY <1>6, HeardSize
<1>7. CASE ReplyUnheard(h)
  BY <1>7, EndsSize
<1> QED
  BY <1>2, <1>3, <1>4, <1>5, <1>6, <1>7 DEF HandlerStep

LEMMA SizeStep == SizeInv /\ [Next]_vars => SizeInv'
<1> SUFFICES ASSUME SizeInv, [Next]_vars PROVE SizeInv'
  OBVIOUS
<1>0. TypeInv'
  BY TypeStep DEF SizeInv
<1>1. ASSUME UNCHANGED <<size, late>>, \A v \in Volumes : claim'[v].pv = claim[v].pv,
             \A g \in Handlers : handler'[g] = Idle \/ handler'[g] = handler[g]
      PROVE  SizeInv'
  <2>1. \A g \in Handlers : Carried(g)
    BY <1>1 DEF Carried
  <2>2. \A g \in Handlers : handler'[g].pc = "reply" => handler[g].pc = "reply"
    BY <1>1 DEF Idle
  <2> QED
    BY <1>0, <1>1, <2>1, <2>2, QuietSize
<1>2. ASSUME NEW v \in Volumes, NEW s \in Sizes, AskMore(v, s) PROVE SizeInv'
  BY <1>1, <1>2 DEF AskMore, SizeInv, TypeInv, TypeOK, sizes
<1>3. ASSUME NEW v \in Volumes, Restage(v) PROVE SizeInv'
  BY <1>1, <1>3 DEF Restage
<1>4. ASSUME NEW op, Crash(op) PROVE SizeInv'
  BY <1>1, <1>4 DEF Crash, sizes
<1>5. CASE UNCHANGED vars
  BY <1>1, <1>5 DEF vars, sizes
<1>6. CASE \E v \in Volumes : Calls(v) \/ Restage(v) \/ \E s \in Sizes : AskMore(v, s)
  BY <1>0, <1>2, <1>3, <1>6, CallSize DEF Calls
<1>7. CASE \E h \in Handlers : HandlerStep(h) \/ Fail(h) \/ RescanFails(h) \/ AbandonCall(h)
  BY <1>0, <1>7, StepsSize, EndsSize, AbandonSize
<1> QED
  BY <1>4, <1>5, <1>6, <1>7 DEF Next

\* Whatever overlaps, fails or is given up: the volume has at least the size that
\* ControllerExpandVolume answered (CS 350-366), or one that a call given up has set.
THEOREM ExpansionSizeAsAnswered == Spec => []SizeAsAnswered
<1>1. Init => SizeInv
  <2> SUFFICES ASSUME Init PROVE SizeInv
    OBVIOUS
  <2>1. \A h \in Handlers : handler[h] = Idle
    BY DEF Init
  <2>2. \A v \in Volumes : size[v] = FirstSize /\ claim[v].pv = FirstSize
    BY DEF Init
  <2>3. OneCallEach /\ \A v \in Volumes : Answers(v)
    BY <2>1 DEF OneCallEach, Answers, Expanding, Idle
  <2>4. SizeAsAnswered
    <3>1. FirstSize \in Nat /\ FirstSize >= FirstSize
      BY SizeAssumption
    <3> QED
      BY <2>2, <3>1 DEF SizeAsAnswered
  <2> QED
    BY <2>3, <2>4, TypeInit DEF SizeInv
<1>2. SizeInv => SizeAsAnswered
  BY DEF SizeInv
<1> QED
  BY <1>1, <1>2, SizeStep, PTL DEF Spec

-----------------------------------------------------------------------------
(* FileSystemFollows.  As long as nothing was lost and no call was given   *)
(* up, a volume grows, and an answer that grew it is on its way or heard.  *)

Undisturbed(v) == v \notin BlockVolumes /\ v \notin unheard /\ late[v] = {}

Told(v) ==
    \/ size[v] = claim[v].pv
    \/ \E h \in Handlers : Expanding(h, v) /\ handler[h].resized /\ size[v] = handler[h].cap

Follows(v) ==
    /\ claim[v].status <= fs[v] /\ fs[v] <= kernel[v] /\ kernel[v] <= size[v]
    /\ Told(v)
    /\ \A h \in Handlers : Volume(h) = v =>
         CASE handler[h].pc = "getVolume" -> TRUE
           [] handler[h].pc = "updateVolume" -> size[v] < handler[h].cap
           [] handler[h].pc = "resize" -> handler[h].cap <= kernel[v]
           [] handler[h].pc = "reply" ->
                IF handler[h].op = "Node" THEN handler[h].cap <= fs[v] ELSE handler[h].resized
           [] OTHER -> handler[h].cap <= size[v]

FileInv == SizeInv /\ \A v \in Volumes : Undisturbed(v) => Follows(v)
LEMMA ControllerUnique ==
    ASSUME SizeInv, NEW v \in Volumes, Undisturbed(v),
           NEW g \in Handlers, NEW h \in Handlers, Expanding(g, v), Expanding(h, v)
    PROVE  g = h /\ handler[h].live
<1>1. Answers(v)
  BY DEF SizeInv
<1>2. handler[g].live /\ handler[h].live
  BY <1>1 DEF Answers, Undisturbed
<1> QED
  BY <1>2 DEF SizeInv, OneCallEach, Expanding

\* What is on its way is told still, and nothing new is.
LEMMA Frame ==
    ASSUME NEW v \in Volumes, Follows(v),
           size'[v] = size[v] /\ kernel'[v] = kernel[v] /\ fs'[v] = fs[v],
           claim'[v].pv = claim[v].pv /\ claim'[v].status = claim[v].status,
           \A g \in Handlers :
             \/ handler'[g] = handler[g]
             \/ handler'[g].volume # v /\ ~(handler[g].volume = v /\ handler[g].resized)
    PROVE  Follows(v)'
<1>1. Told(v)'
  <2>1. CASE size[v] = claim[v].pv
    BY <2>1 DEF Told
  <2>2. ASSUME NEW h \in Handlers, Expanding(h, v), handler[h].resized, size[v] = handler[h].cap
        PROVE  Told(v)'
    <3>1. handler'[h] = handler[h]
      BY <2>2 DEF Expanding, Volume
    <3> QED
      BY <2>2, <3>1 DEF Told, Expanding, Volume
  <2> QED
    BY <2>1, <2>2 DEF Follows, Told
<1>2. ASSUME NEW g \in Handlers, Volume(g)' = v
      PROVE  handler'[g] = handler[g] /\ Volume(g) = v
  BY <1>2 DEF Volume
<1> QED
  BY <1>1, <1>2 DEF Follows

\* The numbers of an undisturbed volume and of a handler at work on it.
LEMMA Numbers ==
    ASSUME TypeInv, NEW v \in Volumes
    PROVE  /\ size[v] \in Nat /\ kernel[v] \in Nat /\ fs[v] \in Nat
           /\ claim[v].pv \in Nat /\ claim[v].status \in Nat
           /\ \A h \in Handlers : Volume(h) = v => handler[h].cap \in Nat
<1>1. \A h \in Handlers : handler[h].cap \in Sizes \cup {0}
  BY DEF TypeInv, HandlersGood, Local
<1>2. \A h \in Handlers : handler[h].cap \in Nat
  <2>1. \A n \in Sizes \cup {0} : n \in Nat
    BY SizeAssumption
  <2> QED
    BY <1>1, <2>1
<1>3. size[v] \in Sizes /\ kernel[v] \in Sizes /\ fs[v] \in Sizes
  BY DEF TypeInv, TypeOK
<1>4. claim[v] \in [spec : Sizes, pv : Sizes, status : Sizes]
  BY DEF TypeInv, TypeOK
<1> QED
  BY <1>2, <1>3, <1>4, SizeAssumption

\* A handler that goes on at its own volume, seen from the steps below.
LEMMA Onward ==
    ASSUME TypeInv, NEW h \in Handlers, NEW pc, Goto(h, pc)
    PROVE  /\ \A g \in Handlers \ {h} : handler'[g] = handler[g]
           /\ handler'[h].pc = pc /\ handler'[h].op = handler[h].op
           /\ handler'[h].volume = handler[h].volume /\ handler'[h].cap = handler[h].cap
           /\ handler'[h].resized = handler[h].resized
BY DEF TypeInv, HandlersGood, Goto, Put, Local

\* The same for a handler that resized no volume and leaves the sizes as they are.
LEMMA OnwardFrame ==
    ASSUME FileInv, NEW h \in Handlers, NEW pc, Goto(h, pc),
           NEW v \in Volumes, Undisturbed(v), handler[h].pc # "reply",
           size'[v] = size[v] /\ kernel'[v] = kernel[v] /\ fs'[v] = fs[v],
           claim'[v].pv = claim[v].pv /\ claim'[v].status = claim[v].status,
           Volume(h) = v =>
             CASE pc = "updateVolume" -> size[v] < handler[h].cap
               [] pc = "resize" -> handler[h].cap <= kernel[v]
               [] pc = "reply" -> handler[h].op = "Node" /\ handler[h].cap <= fs[v]
               [] pc = "rescan" -> handler[h].cap <= size[v]
               [] OTHER -> FALSE
    PROVE  Follows(v)'
<1>0. Follows(v)
  BY DEF FileInv
<1>1. GoodHandler(handler[h]) /\ ~handler[h].resized
  BY DEF FileInv, SizeInv, TypeInv, HandlersGood, GoodHandler
<1>2. /\ \A g \in Handlers \ {h} : handler'[g] = handler[g]
      /\ handler'[h].pc = pc /\ handler'[h].op = handler[h].op
      /\ handler'[h].volume = handler[h].volume /\ handler'[h].cap = handler[h].cap
      /\ handler'[h].resized = handler[h].resized
  BY Onward DEF FileInv, SizeInv
<1>3. CASE Volume(h) # v
  BY <1>0, <1>2, <1>3, Frame DEF Volume
<1>4. CASE Volume(h) = v
  <2>1. Told(v)'
    <3>1. \A g \in Handlers : Expanding(g, v) /\ handler[g].resized => handler'[g] = handler[g]
      BY <1>1, <1>2
    <3> QED
      BY <1>0, <3>1 DEF Follows, Told, Expanding, Volume
  <2>2. \A g \in Handlers \ {h} : Volume(g)' = Volume(g)
    BY <1>2 DEF Volume
  <2> QED
    BY <1>0, <1>2, <1>4, <2>1, <2>2 DEF Follows
<1> QED
  BY <1>3, <1>4

LEMMA GetFile ==
    ASSUME FileInv, NEW h \in Handlers, GetVolume(h),
           NEW v \in Volumes, Undisturbed(v)
    PROVE  Follows(v)'
<1> DEFINE pc == IF size[Volume(h)] < handler[h].cap THEN "updateVolume" ELSE "reply"
<1>1. /\ handler[h].pc = "getVolume" /\ Goto(h, pc)
      /\ UNCHANGED <<size, kernel, fs, claim>>
  BY DEF GetVolume, At, sizes
<1>2. GoodHandler(handler[h]) /\ ~handler[h].resized /\ handler[h].op = "Controller"
  BY <1>1 DEF FileInv, SizeInv, TypeInv, HandlersGood, GoodHandler, Local
<1>3. ASSUME Volume(h) = v PROVE size[v] < handler[h].cap
  <2>1. Expanding(h, v)
    BY <1>2, <1>3 DEF Expanding
  <2>2. \A g \in Handlers : Expanding(g, v) => g = h /\ handler[h].live
    BY <2>1, ControllerUnique DEF FileInv
  <2>3. size[v] = claim[v].pv
    BY <1>2, <2>2 DEF FileInv, Follows, Told
  <2>4. handler[h].cap > claim[v].pv
    BY <2>1, <2>2 DEF FileInv, SizeInv, Answers
  <2> QED
    BY <1>3, <2>3, <2>4, Numbers DEF FileInv, SizeInv
<1>4. Volume(h) = v => pc = "updateVolume"
  BY <1>3
<1>5. Volume(h) # v => Follows(v)'
  <2> HIDE DEF pc
  <2> QED
    BY <1>1, <1>2, Onward, Frame DEF FileInv, SizeInv, Volume
<1>6. Volume(h) = v => Follows(v)'
  BY <1>1, <1>3, OnwardFrame
<1> QED
  BY <1>5, <1>6

LEMMA UpdateFile ==
    ASSUME FileInv, NEW h \in Handlers, UpdateVolume(h),
           NEW v \in Volumes, Undisturbed(v)
    PROVE  Follows(v)'
<1> DEFINE local == [handler[h] EXCEPT !.pc = "reply", !.resized = TRUE]
<1>0. Follows(v)
  BY DEF FileInv
<1>1. /\ handler[h].pc = "updateVolume" /\ size' = [size EXCEPT ![Volume(h)] = handler[h].cap]
      /\ Put(h, local) /\ UNCHANGED <<kernel, fs, claim>>
  BY DEF UpdateVolume, At
<1>2. GoodHandler(handler[h]) /\ ~handler[h].resized /\ handler[h].op = "Controller"
  BY <1>1 DEF FileInv, SizeInv, TypeInv, HandlersGood, GoodHandler, Local
<1>3. /\ local.pc = "reply" /\ local.resized /\ local.op = "Controller"
      /\ local.volume = handler[h].volume /\ local.cap = handler[h].cap
  BY <1>2 DEF GoodHandler, Local
<1>4. handler'[h] = local /\ \A g \in Handlers \ {h} : handler'[g] = handler[g]
  BY <1>1 DEF FileInv, SizeInv, TypeInv, HandlersGood, Put
<1> HIDE DEF local
<1>5. CASE Volume(h) # v
  <2>1. size'[v] = size[v]
    BY <1>1, <1>5 DEF FileInv, SizeInv, TypeInv, TypeOK
  <2> QED
    BY <1>0, <1>1, <1>3, <1>4, <1>5, <2>1, Frame DEF Volume
<1>6. CASE Volume(h) = v
  <2>1. size'[v] = handler[h].cap /\ size[v] < handler[h].cap
    BY <1>0, <1>1, <1>6 DEF FileInv, SizeInv, TypeInv, TypeOK, Follows
  <2>2. Told(v)'
    BY <1>3, <1>4, <1>6, <2>1 DEF Told, Expanding, Volume
  <2>3. /\ size[v] \in Nat /\ kernel[v] \in Nat /\ fs[v] \in Nat
        /\ \A g \in Handlers : Volume(g) = v => handler[g].cap \in Nat
    BY Numbers DEF FileInv, SizeInv
  <2>4. ASSUME NEW g \in Handlers, Volume(g) = v, g # h
        PROVE  handler[g].op # "Controller" /\ GoodHandler(handler[g])
               /\ (handler[g].cap <= size[v] => handler[g].cap <= size'[v])
    <3>1. Expanding(h, v)
      BY <1>2, <1>6 DEF Expanding
    <3>2. handler[g].op # "Controller"
      BY <2>4, <3>1, ControllerUnique DEF FileInv, Expanding
    <3>3. handler[g].cap \in Nat /\ handler[h].cap \in Nat
      BY <1>6, <2>3, <2>4
    <3> QED
      BY <2>1, <2>3, <3>2, <3>3 DEF FileInv, SizeInv, TypeInv, HandlersGood
  <2>5. kernel[v] <= size'[v]
    BY <1>0, <1>6, <2>1, <2>3 DEF Follows
  <2>6. \A g \in Handlers : Volume(g)' = Volume(g)
    BY <1>3, <1>4 DEF Volume
  <2>7. ASSUME NEW g \in Handlers, Volume(g)' = v
        PROVE  CASE handler'[g].pc = "getVolume" -> TRUE
                 [] handler'[g].pc = "updateVolume" -> size'[v] < handler'[g].cap
                 [] handler'[g].pc = "resize" -> handler'[g].cap <= kernel'[v]
                 [] handler'[g].pc = "reply" ->
                      IF handler'[g].op = "Node" THEN handler'[g].cap <= fs'[v]
                      ELSE handler'[g].resized
                 [] OTHER -> handler'[g].cap <= size'[v]
    <3>1. CASE g = h
      BY <1>3, <1>4, <3>1
    <3>2. CASE g # h
      <4>1. handler'[g] = handler[g] /\ handler[g].op # "Controller" /\ Volume(g) = v
        BY <1>4, <2>4, <2>6, <2>7, <3>2
      <4>2. handler[g].pc \notin {"getVolume", "updateVolume"}
        BY <2>4, <3>2, <4>1 DEF GoodHandler, Local
      <4> QED
        BY <1>0, <1>1, <2>4, <3>2, <4>1, <4>2 DEF Follows
    <3> QED
      BY <3>1, <3>2
  <2> QED
    BY <1>0, <1>1, <2>2, <2>5, <2>7 DEF Follows
<1> QED
  BY <1>5, <1>6

LEMMA NodeFile ==
    ASSUME FileInv, NEW h \in Handlers, CheckVolume(h) \/ RescanDevice(h) \/ Resize(h),
           NEW v \in Volumes, Undisturbed(v)
    PROVE  Follows(v)'
<1>0. /\ Follows(v) /\ TypeInv /\ v \notin BlockVolumes
      /\ size[v] \in Nat /\ kernel[v] \in Nat /\ fs[v] \in Nat
      /\ \A g \in Handlers : Volume(g) = v => handler[g].cap \in Nat
  BY Numbers DEF FileInv, SizeInv, Undisturbed
<1>1. GoodHandler(handler[h]) /\ handler[h].op = "Node" /\ ~handler[h].resized
      /\ handler[h].pc # "reply"
  BY <1>0 DEF TypeInv, HandlersGood, GoodHandler, Local, CheckVolume, RescanDevice, Resize, At
<1>2. CASE CheckVolume(h)
  <2>1. Goto(h, "rescan") /\ handler[h].pc = "checkVolume" /\ UNCHANGED <<size, kernel, fs, claim>>
    BY <1>2 DEF CheckVolume, At, sizes
  <2>2. Volume(h) = v => handler[h].cap <= size[v]
    BY <1>0, <2>1 DEF Follows
  <2> QED
    BY <1>1, <2>1, <2>2, OnwardFrame
<1>3. CASE RescanDevice(h) /\ Volume(h) # v
  <2>1. PICK pc : Goto(h, pc)
    BY <1>3 DEF RescanDevice
  <2>2. UNCHANGED <<size, fs, claim>> /\ kernel'[v] = kernel[v]
    BY <1>0, <1>3 DEF RescanDevice, TypeInv, TypeOK
  <2> QED
    BY <1>0, <1>1, <1>3, <2>1, <2>2, Onward, Frame DEF Volume
<1>4. CASE RescanDevice(h) /\ Volume(h) = v
  <2>1. /\ Goto(h, "resize") /\ handler[h].pc = "rescan" /\ UNCHANGED <<size, fs, claim>>
        /\ kernel'[v] = size[v]
    BY <1>0, <1>4 DEF RescanDevice, At, TypeInv, TypeOK
  <2>2. handler[h].cap <= size[v]
    BY <1>0, <1>4, <2>1 DEF Follows
  <2>3. /\ \A g \in Handlers \ {h} : handler'[g] = handler[g]
        /\ handler'[h].pc = "resize" /\ handler'[h].cap = handler[h].cap
    BY <1>0, <2>1, Onward
  <2>4. Told(v)'
    <3>1. \A g \in Handlers : Expanding(g, v) /\ handler[g].resized => handler'[g] = handler[g]
      BY <1>1, <2>3
    <3> QED
      BY <1>0, <2>1, <3>1 DEF Follows, Told, Expanding, Volume
  <2>5. ASSUME NEW g \in Handlers, g # h, Volume(g) = v, handler[g].pc = "resize"
        PROVE  handler[g].cap <= size[v]
    BY <1>0, <2>5 DEF Follows
  <2>6. claim[v].status <= fs[v] /\ fs[v] <= size[v]
    BY <1>0 DEF Follows
  <2>7. \A g \in Handlers \ {h} : Volume(g)' = Volume(g)
    BY <2>3 DEF Volume
  <2>8. size[v] <= size[v]
    BY <1>0
  <2> QED
    BY <1>0, <1>4, <2>1, <2>2, <2>3, <2>4, <2>5, <2>6, <2>7, <2>8 DEF Follows
<1>5. CASE Resize(h) /\ Volume(h) # v
  <2>1. PICK local : /\ Put(h, local)
                     /\ local = Idle \/ local = [handler[h] EXCEPT !.pc = "reply"]
    BY <1>5 DEF Resize, Return, Goto
  <2>2. UNCHANGED <<size, kernel, claim>> /\ fs'[v] = fs[v]
    BY <1>0, <1>5 DEF Resize, TypeInv, TypeOK
  <2>3. local.volume # v
    BY <1>1, <1>5, <2>1, VolumeAssumption DEF Idle, Volume, GoodHandler, Local
  <2>4. handler'[h] = local /\ \A g \in Handlers \ {h} : handler'[g] = handler[g]
    BY <1>0, <2>1 DEF Put, TypeInv, HandlersGood
  <2> QED
    BY <1>0, <1>5, <2>2, <2>3, <2>4, Frame DEF Volume
<1>6. CASE Resize(h) /\ Volume(h) = v
  <2>0. handler[h].pc = "resize" /\ ~(kernel[v] < fs[v]) /\ handler[h].cap <= kernel[v]
    BY <1>0, <1>6 DEF Follows, Resize, At
  <2>1. /\ Goto(h, "reply") /\ UNCHANGED <<size, kernel, claim>>
        /\ fs'[v] = kernel[v]
    BY <1>0, <1>6, <2>0 DEF Resize, TypeInv, TypeOK
  <2>3. /\ \A g \in Handlers \ {h} : handler'[g] = handler[g]
        /\ handler'[h].pc = "reply" /\ handler'[h].cap = handler[h].cap
        /\ handler'[h].op = "Node"
    BY <1>0, <1>1, <2>1, Onward
  <2>4. Told(v)'
    <3>1. \A g \in Handlers : Expanding(g, v) /\ handler[g].resized => handler'[g] = handler[g]
      BY <1>1, <2>3
    <3> QED
      BY <1>0, <2>1, <3>1 DEF Follows, Told, Expanding, Volume
  <2>5. ASSUME NEW g \in Handlers, g # h, Volume(g) = v, handler[g].pc = "reply",
               handler[g].op = "Node"
        PROVE  handler[g].cap <= kernel[v]
    <3>1. handler[g].cap <= fs[v]
      BY <1>0, <2>5 DEF Follows
    <3> QED
      BY <1>0, <2>0, <2>5, <3>1
  <2>6. claim[v].status <= kernel[v] /\ kernel[v] <= kernel[v] /\ kernel[v] <= size[v]
    <3>1. claim[v].status \in Nat
      BY <1>0, Numbers
    <3> QED
      BY <1>0, <3>1 DEF Follows
  <2>7. \A g \in Handlers \ {h} : Volume(g)' = Volume(g)
    BY <2>3 DEF Volume
  <2> QED
    BY <1>0, <1>6, <2>0, <2>1, <2>3, <2>4, <2>5, <2>6, <2>7 DEF Follows
<1> QED
  BY <1>2, <1>3, <1>4, <1>5, <1>6

LEMMA HeardFile ==
    ASSUME FileInv, NEW h \in Handlers, ReplyHeard(h),
           NEW v \in Volumes, Undisturbed(v)
    PROVE  Follows(v)'
<1>0. Follows(v) /\ TypeInv /\ claim \in [Volumes -> [spec : Sizes, pv : Sizes, status : Sizes]]
  BY DEF FileInv, SizeInv, TypeInv, TypeOK
<1>1. /\ GoodHandler(handler[h]) /\ handler[h].pc = "reply" /\ handler[h].live
      /\ UNCHANGED <<size, kernel, fs>>
      /\ claim' = [claim EXCEPT ![Volume(h)] = Recorded(claim[Volume(h)], h)]
  BY <1>0 DEF ReplyHeard, At, TypeInv, HandlersGood, sizes
<1>2. handler'[h] = Idle /\ \A g \in Handlers \ {h} : handler'[g] = handler[g]
  BY <1>0 DEF ReplyHeard, Return, Put, TypeInv, HandlersGood
<1>3. Idle.volume \notin Volumes /\ ~Idle.resized
  BY VolumeAssumption DEF Idle
<1>4. CASE Volume(h) # v
  <2>1. claim'[v] = claim[v]
    BY <1>0, <1>1, <1>4
  <2> QED
    BY <1>0, <1>1, <1>2, <1>3, <1>4, <2>1, Frame DEF Volume
<1>5. CASE Volume(h) = v /\ handler[h].op = "Node"
  <2>1. handler[h].cap <= fs[v] /\ ~handler[h].resized
    BY <1>0, <1>1, <1>5 DEF Follows, GoodHandler
  <2>2. claim'[v].pv = claim[v].pv /\ claim'[v].status = handler[h].cap
    BY <1>0, <1>1, <1>5, <2>1 DEF Recorded
  <2>3. Told(v)'
    <3>1. \A g \in Handlers : Expanding(g, v) /\ handler[g].resized => handler'[g] = handler[g]
      BY <1>2, <2>1
    <3> QED
      BY <1>0, <1>1, <2>2, <3>1 DEF Follows, Told, Expanding, Volume
  <2>4. \A g \in Handlers : Volume(g)' = v => g # h /\ handler'[g] = handler[g] /\ Volume(g) = v
    BY <1>2, <1>3 DEF Volume
  <2> QED
    BY <1>0, <1>1, <2>1, <2>2, <2>3, <2>4 DEF Follows
<1>6. CASE Volume(h) = v /\ handler[h].op = "Controller"
  <2>1. handler[h].resized /\ Expanding(h, v)
    BY <1>0, <1>1, <1>6 DEF Follows, Expanding
  <2>2. claim'[v].pv = handler[h].cap /\ claim'[v].status = claim[v].status
    BY <1>0, <1>1, <1>6, <2>1 DEF Recorded
  <2>3. size[v] = handler[h].cap
    <3>1. handler[h].cap > claim[v].pv /\ size[v] >= handler[h].cap
      BY <1>1, <2>1 DEF FileInv, SizeInv, Answers, Undisturbed
    <3>2. size[v] # claim[v].pv
      BY <1>6, <3>1, Numbers DEF FileInv, SizeInv
    <3>3. \A g \in Handlers : Expanding(g, v) => g = h
      BY <2>1, ControllerUnique DEF FileInv
    <3> QED
      BY <1>0, <3>2, <3>3 DEF Follows, Told
  <2>4. Told(v)'
    BY <1>1, <2>2, <2>3 DEF Told
  <2>5. \A g \in Handlers : Volume(g)' = v => g # h /\ handler'[g] = handler[g] /\ Volume(g) = v
    BY <1>2, <1>3 DEF Volume
  <2> QED
    BY <1>0, <1>1, <2>2, <2>4, <2>5 DEF Follows
<1>7. handler[h].op \in {"Node", "Controller"}
  BY <1>1 DEF GoodHandler, Local
<1> QED
  BY <1>4, <1>5, <1>6, <1>7

LEMMA CallFile ==
    ASSUME FileInv, NEW u \in Volumes, NEW h \in Handlers,
           ControllerExpandVolume(h, u) \/ NodeExpandVolume(h, u),
           NEW v \in Volumes, Undisturbed(v)
    PROVE  Follows(v)'
<1>0. Follows(v) /\ SizeInv
  BY DEF FileInv
<1>1. /\ handler[h].pc = "idle" /\ handler'[h].volume = u
      /\ \A g \in Handlers \ {h} : handler'[g] = handler[g]
      /\ \/ handler'[h].pc = "getVolume"
         \/ handler'[h].pc = "checkVolume" /\ handler'[h].cap = claim[u].pv
      /\ UNCHANGED <<size, kernel, fs, claim>>
  BY <1>0 DEF ControllerExpandVolume, NodeExpandVolume, Call, sizes, SizeInv, TypeInv, HandlersGood
<1>2. handler[h] = Idle
  BY <1>0, <1>1 DEF SizeInv, TypeInv, HandlersGood, GoodHandler
<1>3. CASE u # v
  BY <1>0, <1>1, <1>2, <1>3, Frame DEF Idle
<1>4. CASE u = v
  <2>1. claim[v].pv <= size[v]
    BY <1>0, Numbers DEF SizeInv, SizeAsAnswered, Undisturbed
  <2>2. Told(v)'
    <3>1. \A g \in Handlers : Expanding(g, v) /\ handler[g].resized => handler'[g] = handler[g]
      BY <1>1, <1>2 DEF Idle
    <3> QED
      BY <1>0, <1>1, <3>1 DEF Follows, Told, Expanding, Volume
  <2>3. \A g \in Handlers \ {h} : Volume(g)' = Volume(g)
    BY <1>1 DEF Volume
  <2> QED
    BY <1>0, <1>1, <1>4, <2>1, <2>2, <2>3 DEF Follows
<1> QED
  BY <1>3, <1>4

\* The handlers that end with nothing heard: a volume one of them has resized is no
\* longer undisturbed.
LEMMA EndsFile ==
    ASSUME FileInv, NEW gone \in SUBSET Handlers,
           \A g \in gone : handler'[g] = Idle,
           \A g \in Handlers \ gone : handler'[g] = handler[g],
           unheard' = Lost(gone), UNCHANGED <<size, kernel, fs, claim, late>>,
           NEW v \in Volumes, Undisturbed(v)'
    PROVE  Undisturbed(v) /\ Follows(v)'
<1>1. Undisturbed(v)
  BY DEF Undisturbed, Lost
<1>2. \A g \in gone : ~(handler[g].volume = v /\ handler[g].resized)
  BY DEF Undisturbed, Lost, Volume
<1>3. Idle.volume # v
  BY VolumeAssumption DEF Idle
<1> QED
  BY <1>1, <1>2, <1>3, Frame DEF FileInv

LEMMA AbandonFile ==
    ASSUME FileInv, NEW h \in Handlers, AbandonCall(h),
           NEW v \in Volumes, Undisturbed(v)'
    PROVE  Undisturbed(v) /\ Follows(v)'
<1>0. TypeInv /\ GoodHandler(handler[h])
  BY DEF FileInv, SizeInv, TypeInv, HandlersGood
<1>1. /\ handler'[h].op = handler[h].op /\ handler'[h].volume = handler[h].volume
      /\ handler'[h].pc = handler[h].pc /\ handler'[h].resized = handler[h].resized
      /\ handler'[h].cap = handler[h].cap
      /\ \A g \in Handlers \ {h} : handler'[g] = handler[g]
      /\ UNCHANGED <<size, kernel, fs, claim, unheard>>
  BY <1>0 DEF TypeInv, HandlersGood, AbandonCall, Put, Local, sizes
<1>2. Undisturbed(v)
  <2>1. late[v] \subseteq late'[v]
    BY <1>0 DEF TypeInv, TypeOK, AbandonCall
  <2> QED
    BY <1>1, <2>1 DEF Undisturbed
<1>3. Follows(v)
  BY <1>2 DEF FileInv
<1>4. Told(v)'
  BY <1>1, <1>3 DEF Follows, Told, Expanding, Volume
<1>5. \A g \in Handlers : Volume(g)' = Volume(g)
  BY <1>1 DEF Volume
<1> QED
  BY <1>1, <1>2, <1>3, <1>4, <1>5 DEF Follows

LEMMA RescanFailsFile ==
    ASSUME FileInv, NEW h \in Handlers, RescanFails(h),
           NEW v \in Volumes, Undisturbed(v)'
    PROVE  Undisturbed(v) /\ Follows(v)'
<1>0. TypeInv /\ GoodHandler(handler[h])
  BY DEF FileInv, SizeInv, TypeInv, HandlersGood
<1>1. /\ unheard' = unheard \cup {Volume(h)} /\ UNCHANGED <<size, kernel, fs, claim, late>>
      /\ handler[h].pc = "rescan"
  BY DEF RescanFails, sizes
<1>2. Undisturbed(v) /\ Volume(h) # v
  BY <1>1 DEF Undisturbed
<1>3. ~handler[h].resized
  BY <1>0, <1>1 DEF GoodHandler
<1>4. PICK pc : Goto(h, pc)
  BY DEF RescanFails
<1> QED
  BY <1>0, <1>1, <1>2, <1>3, <1>4, Onward, Frame DEF FileInv, Volume

LEMMA RestageFile ==
    ASSUME FileInv, NEW u \in Volumes, Restage(u),
           NEW v \in Volumes, Undisturbed(v)
    PROVE  Follows(v)'
<1>0. /\ Follows(v) /\ TypeInv
      /\ size[v] \in Nat /\ kernel[v] \in Nat /\ fs[v] \in Nat
      /\ \A g \in Handlers : Volume(g) = v => handler[g].cap \in Nat
  BY Numbers DEF FileInv, SizeInv
<1>1. UNCHANGED <<size, fs, claim, handler>>
  BY DEF Restage
<1>2. kernel'[v] = kernel[v] \/ kernel'[v] = size[v]
  BY <1>0 DEF Restage, TypeInv, TypeOK
<1>3. kernel[v] <= kernel'[v] /\ kernel'[v] <= size[v] /\ kernel'[v] \in Nat
  BY <1>0, <1>2 DEF Follows
<1>4. fs[v] <= kernel'[v]
  BY <1>0, <1>3 DEF Follows
<1>5. Told(v)'
  BY <1>0, <1>1 DEF Follows, Told, Expanding, Volume
<1>6. \A g \in Handlers : Volume(g) = v /\ handler[g].pc = "resize" => handler[g].cap <= kernel'[v]
  <2> SUFFICES ASSUME NEW g \in Handlers, Volume(g) = v, handler[g].pc = "resize"
               PROVE  handler[g].cap <= kernel'[v]
    OBVIOUS
  <2>1. handler[g].cap <= kernel[v]
    BY <1>0 DEF Follows
  <2> QED
    BY <1>0, <1>3, <2>1
<1>7. \A g \in Handlers : Volume(g)' = Volume(g)
  BY <1>1 DEF Volume
<1> QED
  BY <1>0, <1>1, <1>3, <1>4, <1>5, <1>6, <1>7 DEF Follows

LEMMA FileStep == FileInv /\ [Next]_vars => FileInv'
<1> SUFFICES ASSUME FileInv, [Next]_vars, NEW v \in Volumes, Undisturbed(v)'
             PROVE  Follows(v)'
  BY SizeStep DEF FileInv
<1>1. ASSUME UNCHANGED <<late, unheard>> PROVE Undisturbed(v)
  BY <1>1 DEF Undisturbed
<1>2. ASSUME NEW u \in Volumes, NEW s \in Sizes, AskMore(u, s) PROVE Follows(v)'
  <2>1. /\ UNCHANGED <<size, kernel, fs, handler, late, unheard>>
        /\ claim'[v].pv = claim[v].pv /\ claim'[v].status = claim[v].status
    BY <1>2 DEF AskMore, sizes, FileInv, SizeInv, TypeInv, TypeOK
  <2> QED
    BY <1>1, <2>1, Frame DEF FileInv
<1>3. ASSUME NEW u \in Volumes, NEW h \in Handlers,
             ControllerExpandVolume(h, u) \/ NodeExpandVolume(h, u)
      PROVE  Follows(v)'
  BY <1>1, <1>3, CallFile DEF ControllerExpandVolume, NodeExpandVolume, Call
<1>4. ASSUME NEW u \in Volumes, Restage(u) PROVE Follows(v)'
  BY <1>1, <1>4, RestageFile DEF Restage
<1>5. ASSUME NEW h \in Handlers, HandlerStep(h) PROVE Follows(v)'
  <2>1. CASE GetVolume(h)
    BY <1>1, <2>1, GetFile DEF GetVolume
  <2>2. CASE UpdateVolume(h)
    BY <1>1, <2>2, UpdateFile DEF UpdateVolume
  <2>3. CASE CheckVolume(h) \/ RescanDevice(h) \/ Resize(h)
    BY <1>1, <2>3, NodeFile DEF CheckVolume, RescanDevice, Resize
  <2>4. CASE ReplyHeard(h)
    BY <1>1, <2>4, HeardFile DEF ReplyHeard
  <2>5. CASE ReplyUnheard(h)
    <3>1. handler'[h] = Idle /\ \A g \in Handlers \ {h} : handler'[g] = handler[g]
      BY <2>5 DEF ReplyUnheard, Return, Put, FileInv, SizeInv, TypeInv, HandlersGood
    <3> QED
      BY <2>5, <3>1, EndsFile DEF ReplyUnheard, sizes
  <2> QED
    BY <1>5, <2>1, <2>2, <2>3, <2>4, <2>5 DEF HandlerStep
<1>6. ASSUME NEW h \in Handlers, Fail(h) PROVE Follows(v)'
  <2>1. handler'[h] = Idle /\ \A g \in Handlers \ {h} : handler'[g] = handler[g]
    BY <1>6 DEF Fail, Return, Put, FileInv, SizeInv, TypeInv, HandlersGood
  <2> QED
    BY <1>6, <2>1, EndsFile DEF Fail, sizes
<1>7. ASSUME NEW op, Crash(op) PROVE Follows(v)'
  <2> DEFINE gone == {h \in Handlers : handler[h].op = op}
  <2>1. /\ \A g \in gone : handler'[g] = Idle
        /\ \A g \in Handlers \ gone : handler'[g] = handler[g]
        /\ unheard' = Lost(gone) /\ UNCHANGED <<size, kernel, fs, claim, late>>
    BY <1>7 DEF Crash, sizes
  <2>2. gone \in SUBSET Handlers
    OBVIOUS
  <2> HIDE DEF gone
  <2> QED
    BY <2>1, <2>2, EndsFile
<1>8. CASE UNCHANGED vars
  <2>1. UNCHANGED <<size, kernel, fs, claim, handler, late, unheard>>
    BY <1>8 DEF vars, sizes
  <2> QED
    BY <1>1, <2>1, Frame DEF FileInv
<1>9. CASE \E u \in Volumes : Calls(u) \/ Restage(u) \/ \E s \in Sizes : AskMore(u, s)
  BY <1>2, <1>3, <1>4, <1>9 DEF Calls
<1>10. CASE \E h \in Handlers : HandlerStep(h) \/ Fail(h) \/ RescanFails(h) \/ AbandonCall(h)
  BY <1>5, <1>6, <1>10, AbandonFile, RescanFailsFile
<1> QED
  BY <1>7, <1>8, <1>9, <1>10 DEF Next

\* What the pod is told it has is in its file system (CS 350-366, NS 1252-1282), as long as
\* no answer was lost, no rescan failed and no call outlived its caller.
THEOREM ExpansionFileSystemFollows == Spec => []FileSystemFollows
<1>1. Init => FileInv
  <2> SUFFICES ASSUME Init PROVE FileInv
    OBVIOUS
  <2>1. SizeInv
    <3>1. \A h \in Handlers : handler[h] = Idle
      BY DEF Init
    <3>2. \A v \in Volumes : size[v] >= claim[v].pv
      <4>1. FirstSize >= FirstSize
        BY SizeAssumption
      <4> QED
        BY <4>1 DEF Init
    <3> QED
      BY <3>1, <3>2, TypeInit
         DEF SizeInv, OneCallEach, Answers, Expanding, Idle, SizeAsAnswered
  <2>2. ASSUME NEW v \in Volumes PROVE Follows(v)
    <3>1. FirstSize <= FirstSize
      BY SizeAssumption
    <3>2. \A h \in Handlers : Volume(h) # v
      BY VolumeAssumption DEF Init, Idle, Volume
    <3> QED
      BY <3>1, <3>2 DEF Init, Follows, Told
  <2> QED
    BY <2>1, <2>2 DEF FileInv
<1>2. FileInv => FileSystemFollows
  <2> SUFFICES ASSUME FileInv, NEW v \in Volumes \ (BlockVolumes \cup unheard), late[v] = {}
               PROVE  fs[v] >= claim[v].status
    BY DEF FileSystemFollows
  <2> QED
    BY Numbers DEF FileInv, SizeInv, Undisturbed, Follows
<1> QED
  BY <1>1, <1>2, FileStep, PTL DEF Spec

=============================================================================
