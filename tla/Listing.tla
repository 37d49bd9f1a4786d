------------------------------- MODULE Listing -------------------------------
(***************************************************************************)
(* ListSnapshots and ListVolumes (controllerServer.go): a caller walks     *)
(* through the pages of a listing, from token to token, while objects come *)
(* and go.  A step for each REST call.                                     *)
(*                                                                         *)
(* An object is a snapshot, or in ListVolumes a volume; an appliance lists *)
(* its objects in the order of their numbers.  The volume that is asked    *)
(* for its snapshots has all those of its entry.                           *)
(***************************************************************************)
EXTENDS Naturals, FiniteSets

CONSTANTS
  Configs,      \* entries a configuration may have
  Numbers,      \* of the objects of an entry
  Walkers,      \* callers
  PageSizes,    \* values of max_entries; 0: no limit
  None,
  MaxFaults     \* bound: REST calls that fail, pools away

Objects == [config : Configs, n : Numbers]

\* ListSnapshots of everything, of a volume or with an id, and ListVolumes.
Kinds == {"all", "volume", "one", "volumes"}

ASSUME NumberAssumption == Numbers \subseteq Nat /\ IsFiniteSet(Numbers)
ASSUME ConfigAssumption == IsFiniteSet(Configs)
ASSUME SizeAssumption == PageSizes \subseteq Nat
ASSUME NoneAssumption == None \notin Objects
ASSUME BoundAssumption == MaxFaults \in Nat

VARIABLES
  entries,    \* the entries of nexentastor_map
  object,     \* [Objects -> "new", "there" or "gone"]
  walk,
  faults

vars == <<entries, object, walk, faults>>

There == {o \in Objects : object[o] = "there" /\ o.config \in entries}
Of(c) == {o \in There : o.config = c}

NoWalk == [kind |-> "all", pc |-> "idle", asked |-> {}, max |-> 0, token |-> None, todo |-> {},
           page |-> {}, next |-> None, returned |-> {}, throughout |-> {}, skipped |-> FALSE]

Init ==
  /\ entries \in (SUBSET Configs) \ {{}}
  /\ object \in [Objects -> {"new", "there"}]
  /\ walk = [w \in Walkers |-> NoWalk]
  /\ faults = 0

----------------------------------------------------------------------------
(* Objects come and go.                                                    *)

Create(o) ==
  /\ object[o] = "new"
  /\ object' = [object EXCEPT ![o] = "there"]
  /\ UNCHANGED <<entries, walk, faults>>

Destroy(o) ==
  /\ object[o] = "there"
  /\ object' = [object EXCEPT ![o] = "gone"]
  /\ walk' = [w \in Walkers |-> [walk[w] EXCEPT !.throughout = @ \ {o}]]
  /\ UNCHANGED <<entries, faults>>

----------------------------------------------------------------------------
(* A page of a sorted listing.                                             *)

Below(S, o) == {p \in S : p.n < o.n}

\* Slip: one too many.
FirstAndOneMore(S, max) == IF max = 0 THEN S ELSE {o \in S : Cardinality(Below(S, o)) <= max}

FirstOf(S, max) == IF max = 0 THEN S ELSE {o \in S : Cardinality(Below(S, o)) < max}

\* What comes before the token is skipped; without it, everything.
From(S, token) ==
  CASE token = None -> S
    [] token \in S -> S \ Below(S, token)
    [] OTHER -> {}

\* GetVolumesWithStartingToken starts after the token.
After(S, token) == From(S, token) \ {token}

Least(S) == CHOOSE o \in S : Below(S, o) = {}
Greatest(S) == CHOOSE o \in S : \A p \in S : p.n <= o.n

----------------------------------------------------------------------------
(* The caller.                                                             *)

Asks(w, kind, asked, max) ==
  /\ walk[w].pc \in {"idle", "done"}
  /\ walk' = [walk EXCEPT ![w] =
       [NoWalk EXCEPT !.kind = kind, !.pc = "ask", !.asked = asked, !.max = max,
          !.throughout = {o \in There : o.config \in asked}]]
  /\ UNCHANGED <<entries, object, faults>>

\* A listing of everything, or one entry's.
Begin(w) ==
  \E max \in PageSizes :
    \/ \E kind \in {"all", "volumes"} : Asks(w, kind, entries, max)
    \/ \E c \in entries : Asks(w, "volume", {c}, max)

BeginOne(w, o) ==
  /\ o.config \in entries /\ walk[w].pc \in {"idle", "done"}
  /\ walk' = [walk EXCEPT ![w] =
       [NoWalk EXCEPT !.kind = "one", !.pc = "ask", !.asked = {o.config}, !.token = o,
          !.throughout = There \cap {o}]]
  /\ UNCHANGED <<entries, object, faults>>

ListCall(w) ==
  /\ walk[w].pc = "ask"
  /\ walk' = [walk EXCEPT ![w].pc = "list", ![w].todo = walk[w].asked, ![w].page = {},
                ![w].next = None]
  /\ UNCHANGED <<entries, object, faults>>

----------------------------------------------------------------------------
(* The handler.                                                            *)

Listing(w, kind) == walk[w].pc = "list" /\ walk[w].kind = kind

Put(w, local) == walk' = [walk EXCEPT ![w] = local] /\ UNCHANGED <<entries, object>>

\* The token is gone from where it was: what follows it is not found.
TokenLost(w, c) == walk[w].token # None /\ walk[w].token.config = c /\ walk[w].token \notin There

\* Entry c has been dealt with, `found` is its part of the page.
Listed(w, c, found) ==
  [walk[w] EXCEPT !.page = @ \cup found, !.todo = @ \ {c},
     !.pc = IF walk[w].todo = {c} THEN "answer" ELSE "list",
     !.skipped = @ \/ TokenLost(w, c)]

\* Slip: the token names the entry only.
PageOfEntry(w, c) ==
  LET found == From(Of(c), walk[w].token)
      page == FirstOf(found, walk[w].max)
  IN IF page = found THEN Listed(w, c, page)
     ELSE [Listed(w, c, page) EXCEPT !.pc = "answer", !.next = c]

\* Slip: the token is the last object of the page.
PageToItsLast(w, c) ==
  LET found == From(Of(c), walk[w].token)
      page == FirstOf(found, walk[w].max)
  IN IF page = found THEN Listed(w, c, page)
     ELSE [Listed(w, c, page) EXCEPT !.pc = "answer", !.next = Greatest(page)]

\* Slip: the token is the second object that is left, when there are two.
PageWithGap(w, c) ==
  LET found == From(Of(c), walk[w].token)
      page == FirstOf(found, walk[w].max)
  IN IF page = found THEN Listed(w, c, page)
     ELSE [Listed(w, c, page) EXCEPT !.pc = "answer", !.next = Greatest(found \ page)]

\* The first page that is not the last of its entry ends the call.
Page(w, c) ==
  LET found == From(Of(c), walk[w].token)
      page == FirstOf(found, walk[w].max)
  IN IF page = found THEN Listed(w, c, page)
     ELSE [Listed(w, c, page) EXCEPT !.pc = "answer", !.next = Least(found \ page)]

\* The map is walked in any order.
GroupSnapshots(w) ==
  /\ Listing(w, "all")
  /\ \E c \in walk[w].todo : Put(w, Page(w, c))
  /\ UNCHANGED faults

Error(w) == [walk[w] EXCEPT !.pc = "ask", !.todo = {}, !.page = {}, !.next = None]

Skipped(w, c) == [Listed(w, c, {}) EXCEPT !.skipped = TRUE]

\* The entry of the volume is not passed on to resolveNS: any one may be asked.  One
\* that does not know the volume has an error or nothing to answer.
VolumeSnapshots(w) ==
  /\ Listing(w, "volume")
  /\ \E c \in entries :
       IF c \in walk[w].asked THEN Put(w, Page(w, c))
       ELSE Put(w, Error(w)) \/ \E d \in walk[w].todo : Put(w, Skipped(w, d))
  /\ UNCHANGED faults

SingleSnapshot(w) ==
  /\ Listing(w, "one")
  /\ Put(w, [walk[w] EXCEPT !.pc = "answer", !.todo = {}, !.page = There \cap {walk[w].token}])
  /\ UNCHANGED faults

\* Every entry gets the token, and the token of the last one is kept.
EntryVolumes(w) ==
  /\ Listing(w, "volumes")
  /\ \E c \in walk[w].todo :
       LET found == After(Of(c), walk[w].token)
           page == FirstOf(found, walk[w].max)
       IN Put(w, [Listed(w, c, page) EXCEPT
                    !.next = IF page = found THEN None ELSE Greatest(page)])
  /\ UNCHANGED faults

\* ListVolumes refuses a token that leads nowhere; the caller has to start anew.
Refused(w) == walk[w].kind = "volumes" /\ walk[w].token # None /\ walk[w].page = {}

Answer(w) ==
  /\ walk[w].pc = "answer"
  /\ Put(w, IF Refused(w) THEN NoWalk
            ELSE [walk[w] EXCEPT !.pc = IF walk[w].next = None THEN "done" ELSE "ask",
                    !.token = walk[w].next, !.returned = @ \cup walk[w].page,
                    !.page = {}, !.todo = {}, !.next = None])
  /\ UNCHANGED faults

----------------------------------------------------------------------------
(* Faults.                                                                 *)

Fault == faults < MaxFaults /\ faults' = faults + 1

\* The volume group cannot be found: nothing to list, but for ListVolumes.
ResolveNotFound(w) ==
  /\ Fault /\ walk[w].pc = "list"
  /\ IF walk[w].kind = "volumes" THEN Put(w, Error(w))
     ELSE \E c \in walk[w].todo : Put(w, Skipped(w, c))

\* GetSnapshots fails while every group is listed: resp is nil, the process dies.
GroupSnapshotsPanics(w) ==
  /\ Fault /\ Listing(w, "all")
  /\ walk' = [x \in Walkers |->
                IF walk[x].pc \in {"list", "answer"} THEN Error(x) ELSE walk[x]]
  /\ UNCHANGED <<entries, object>>

\* GetVolumesWithStartingToken fails: nobody looks.
EntryVolumesFails(w) ==
  /\ Fault /\ Listing(w, "volumes")
  /\ \E c \in walk[w].todo : Put(w, [Skipped(w, c) EXCEPT !.next = None])

SnapshotsFail(w) ==
  /\ Fault /\ walk[w].pc = "list" /\ walk[w].kind \in {"volume", "one"}
  /\ Put(w, Error(w))

----------------------------------------------------------------------------
WalkStep(w) ==
  \/ ListCall(w) \/ Answer(w)
  \/ GroupSnapshots(w) \/ VolumeSnapshots(w) \/ SingleSnapshot(w) \/ EntryVolumes(w)

Next ==
  \/ \E o \in Objects : Create(o) \/ Destroy(o)
  \/ \E w \in Walkers :
       \/ Begin(w) \/ WalkStep(w) \/ \E o \in Objects : BeginOne(w, o)
       \/ ResolveNotFound(w) \/ GroupSnapshotsPanics(w) \/ EntryVolumesFails(w) \/ SnapshotsFail(w)

Spec == Init /\ [][Next]_vars

-----------------------------------------------------------------------------
(* Properties.                                                             *)

Walks ==
  [kind : Kinds, pc : {"idle", "ask", "list", "answer", "done"}, asked : SUBSET Configs,
   max : PageSizes \cup {0}, token : Objects \cup {None}, todo : SUBSET Configs,
   page : SUBSET Objects, next : Objects \cup {None}, returned : SUBSET Objects,
   throughout : SUBSET Objects, skipped : BOOLEAN]

\* Every variable keeps to its type.
TypeOK ==
  /\ entries \subseteq Configs
  /\ object \in [Objects -> {"new", "there", "gone"}]
  /\ walk \in [Walkers -> Walks]
  /\ faults \in 0 .. MaxFaults

\* No object is on two pages of a walk (CS 1219-1243, 1296-1306), whatever comes and
\* goes between them and in whatever order the entries are met.
NoneTwice == \A w \in Walkers : walk[w].page \cap walk[w].returned = {}

\* A walk that ends without an error has shown every object that was there all along,
\* unless an entry was skipped for an error, another one was asked or the token's
\* object was gone (CS 1197, 1208, 1221, 1296), or the pages went through several
\* entries (CS 1106, 1296).
WalksAreComplete ==
  \A w \in Walkers :
    walk[w].pc = "done" /\ ~walk[w].skipped
      /\ (walk[w].max = 0 \/ Cardinality(walk[w].asked) = 1)
      => walk[w].throughout \subseteq walk[w].returned

\* With one entry a page has no more objects than were asked for (CS 1231).
PagesAreSmall ==
  \A w \in Walkers :
    walk[w].max # 0 /\ Cardinality(walk[w].asked) = 1
      => Cardinality(walk[w].page) <= walk[w].max
=============================================================================
