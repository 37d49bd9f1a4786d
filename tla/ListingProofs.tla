---------------------------- MODULE ListingProofs ----------------------------
(***************************************************************************)
(* Proofs about Listing, for any entries, objects, callers and page sizes. *)
(***************************************************************************)
EXTENDS Listing, FiniteSetTheorems, TLAPS

-----------------------------------------------------------------------------
(* Finite sets of objects and their order.                                 *)

LEMMA ObjectsFinite == IsFiniteSet(Objects)
<1> DEFINE f == [o \in Objects |-> <<o.config, o.n>>]
<1>1. f \in Injection(Objects, Configs \X Numbers)
  BY DEF Objects, Injection, IsInjective
<1>2. IsFiniteSet(Configs \X Numbers)
  BY NumberAssumption, ConfigAssumption, FS_Product
<1> QED
  BY <1>1, <1>2, FS_Injection

LEMMA NumbersNat == \A o \in Objects : o.n \in Nat /\ o.config \in Configs
BY NumberAssumption DEF Objects

LEMMA LeastExists ==
    ASSUME NEW S \in SUBSET Objects, S # {}
    PROVE  Least(S) \in S /\ \A p \in S : Least(S).n <= p.n
<1>0. IsFiniteSet(S)
  BY ObjectsFinite, FS_Subset
<1> DEFINE T == {Below(S, o) : o \in S}
<1>1. \A U \in SUBSET S : IsFiniteSet(U)
  BY <1>0, FS_Subset
<1>2. T \subseteq FiniteSubsetsOf(S) /\ T # {}
  BY <1>1 DEF FiniteSubsetsOf, Below
<1>3. PICK B \in T : \A C \in T : <<C, B>> \notin StrictSubsetOrdering(S)
  BY <1>2, FS_StrictSubsetOrderingWellFounded, WFMin
<1>4. PICK o \in S : B = Below(S, o)
  OBVIOUS
<1>5. Below(S, o) = {}
  <2> SUFFICES ASSUME NEW p \in Below(S, o) PROVE FALSE
    OBVIOUS
  <2>1. p \in S /\ p.n < o.n /\ p.n \in Nat /\ o.n \in Nat
    BY NumbersNat DEF Below
  <2>2. Below(S, p) \subseteq Below(S, o) /\ p \notin Below(S, p)
    BY <2>1, NumbersNat DEF Below
  <2>3. <<Below(S, p), Below(S, o)>> \in StrictSubsetOrdering(S)
    BY <2>1, <2>2 DEF StrictSubsetOrdering, Below
  <2> QED
    BY <1>3, <1>4, <2>1, <2>3
<1>6. Least(S) \in S /\ Below(S, Least(S)) = {}
  BY <1>5 DEF Least
<1> QED
  BY <1>6, NumbersNat DEF Below

LEMMA GreatestExists ==
    ASSUME NEW S \in SUBSET Objects, S # {}
    PROVE  Greatest(S) \in S /\ \A p \in S : p.n <= Greatest(S).n
<1>0. IsFiniteSet(S)
  BY ObjectsFinite, FS_Subset
<1> DEFINE Above(o) == {p \in S : o.n < p.n}
           T == {Above(o) : o \in S}
<1>1. \A U \in SUBSET S : IsFiniteSet(U)
  BY <1>0, FS_Subset
<1>2. T \subseteq FiniteSubsetsOf(S) /\ T # {}
  BY <1>1 DEF FiniteSubsetsOf
<1>3. PICK B \in T : \A C \in T : <<C, B>> \notin StrictSubsetOrdering(S)
  BY <1>2, FS_StrictSubsetOrderingWellFounded, WFMin
<1>4. PICK o \in S : B = Above(o)
  OBVIOUS
<1>5. ASSUME NEW p \in S PROVE p.n <= o.n
  <2> SUFFICES ASSUME p \in Above(o) PROVE FALSE
    BY NumbersNat
  <2>1. p \in S /\ o.n < p.n /\ p.n \in Nat /\ o.n \in Nat
    BY NumbersNat
  <2>2. Above(p) \subseteq Above(o) /\ p \notin Above(p)
    BY <2>1, NumbersNat
  <2>3. <<Above(p), Above(o)>> \in StrictSubsetOrdering(S)
    BY <2>1, <2>2 DEF StrictSubsetOrdering
  <2> QED
    BY <1>3, <1>4, <2>1, <2>3
<1> QED
  BY <1>5 DEF Greatest

\* What a page leaves for later comes after everything in it.
LEMMA PageFirst ==
    ASSUME NEW S \in SUBSET Objects, NEW max \in Nat,
           NEW p \in FirstOf(S, max), NEW q \in S \ FirstOf(S, max)
    PROVE  p.n < q.n
<1>0. IsFiniteSet(S)
  BY ObjectsFinite, FS_Subset
<1>1. max # 0 /\ p \in S
  BY DEF FirstOf
<1>2. Cardinality(Below(S, p)) < max /\ ~(Cardinality(Below(S, q)) < max)
  BY <1>1 DEF FirstOf
<1> SUFFICES ASSUME q.n <= p.n PROVE FALSE
  BY <1>1, NumbersNat
<1>3. Below(S, q) \subseteq Below(S, p)
  BY <1>1, NumbersNat DEF Below
<1>4. Below(S, p) \in SUBSET S
  BY DEF Below
<1>5. IsFiniteSet(Below(S, p))
  BY <1>0, <1>4, FS_Subset
<1>6. Below(S, q) \in SUBSET Below(S, p)
  BY <1>3
<1>7. IsFiniteSet(Below(S, q)) /\ Cardinality(Below(S, q)) <= Cardinality(Below(S, p))
  BY <1>5, <1>6, FS_Subset
<1> QED
  BY <1>2, <1>5, <1>7, FS_CardinalityType

\* A page of one entry has at most max objects.
LEMMA PageSmall ==
    ASSUME NEW S \in SUBSET Objects, NEW c, \A o \in S : o.config = c,
           NEW max \in Nat \ {0}
    PROVE  Cardinality(FirstOf(S, max)) <= max
<1> DEFINE P == FirstOf(S, max)
<1>0. P \in SUBSET S /\ IsFiniteSet(S)
  BY ObjectsFinite, FS_Subset DEF FirstOf
<1>1. IsFiniteSet(P)
  BY <1>0, FS_Subset
<1>2. CASE P = {}
  BY <1>2, FS_EmptySet
<1>3. CASE P # {}
  <2> DEFINE o == Greatest(P)
  <2>1. o \in P /\ \A p \in P : p.n <= o.n
    BY <1>0, <1>3, GreatestExists
  <2>2. Cardinality(Below(S, o)) < max
    BY <2>1 DEF FirstOf
  <2>3. Below(S, o) \in SUBSET S
    BY DEF Below
  <2>4. IsFiniteSet(Below(S, o))
    BY <1>0, <2>3, FS_Subset
  <2>5. P \subseteq Below(S, o) \cup {o}
    <3> SUFFICES ASSUME NEW p \in P, p # o PROVE p \in Below(S, o)
      OBVIOUS
    <3>1. p \in S /\ p \in Objects /\ o \in Objects /\ p.config = o.config /\ p.n <= o.n
      BY <1>0, <2>1
    <3>2. p.n # o.n
      BY <3>1 DEF Objects
    <3>3. p.n < o.n
      BY <3>1, <3>2, NumbersNat
    <3> QED
      BY <3>1, <3>3 DEF Below
  <2>6. /\ IsFiniteSet(Below(S, o) \cup {o})
        /\ Cardinality(Below(S, o) \cup {o}) <= Cardinality(Below(S, o)) + 1
    <3> DEFINE B == Below(S, o)
    <3>1. Cardinality(B) \in Nat
      BY <2>4, FS_CardinalityType
    <3>2. /\ IsFiniteSet(B \cup {o})
          /\ Cardinality(B \cup {o}) \in {Cardinality(B), Cardinality(B) + 1}
      BY <2>4, FS_AddElement, Zenon
    <3> HIDE DEF B
    <3>3. Cardinality(B \cup {o}) <= Cardinality(B) + 1
      BY <3>1, <3>2
    <3> QED
      BY <3>2, <3>3 DEF B
  <2>7. Cardinality(P) <= Cardinality(Below(S, o) \cup {o})
    BY <2>5, <2>6, FS_Subset
  <2> QED
    BY <1>1, <2>2, <2>4, <2>6, <2>7, FS_CardinalityType
<1> QED
  BY <1>2, <1>3
-----------------------------------------------------------------------------
(* What is true of a walk: where its tokens point, and what it owes.       *)

\* An object before the place a token stands for.
Passed(r, o, t) == o.n < t.n \/ (r.kind = "volumes" /\ o.n = t.n)

WalkInv(r) ==
    /\ r \in Walks
    /\ r.todo \subseteq r.asked
    /\ r.pc \in {"ask", "list", "answer"} => r.asked # {}
    /\ r.pc \in {"idle", "ask", "done"} => r.page = {}
    /\ r.pc = "list" => r.todo # {}
    /\ r.pc = "list" /\ r.kind # "volumes" => r.next = None
    /\ r.kind \in {"volume", "one"} => \E c \in Configs : r.asked = {c}
    /\ r.kind \in {"volume", "one"} /\ r.pc = "list" => r.todo = r.asked
    /\ r.pc \in {"ask", "list", "answer"} /\ r.token = None => r.returned = {}
    /\ r.token # None => r.token.config \in r.asked
    /\ r.next # None => r.next.config \in r.asked
    /\ r.token # None =>
         /\ \A o \in r.returned : o.config = r.token.config => Passed(r, o, r.token)
         /\ \A o \in r.page : o.config = r.token.config /\ ~Passed(r, o, r.token)
         /\ r.next # None => r.next.config = r.token.config /\ r.token.n <= r.next.n
    /\ r.next # None =>
         \A o \in r.returned \cup r.page : o.config = r.next.config => Passed(r, o, r.next)
    /\ \A o \in r.page : o.config \in r.asked \ r.todo
    /\ r.kind = "one" => r.next = None
    /\ r.kind = "one" /\ r.pc \in {"ask", "list", "answer"} => r.token # None
    /\ r.max # 0 /\ Cardinality(r.asked) = 1 => Cardinality(r.page) <= r.max

WalksInv ==
    /\ entries \subseteq Configs /\ entries # {}
    /\ object \in [Objects -> {"new", "there", "gone"}]
    /\ walk \in [Walkers -> Walks] /\ \A w \in Walkers : WalkInv(walk[w])
    /\ faults \in 0 .. MaxFaults

LEMMA WalkTypes == \A r \in Walks : r.max \in Nat /\ r.token \in Objects \cup {None}
<1>1. PageSizes \cup {0} \subseteq Nat
  BY SizeAssumption
<1> QED
  BY <1>1 DEF Walks

LEMMA OfObjects == \A c \in Configs : Of(c) \in SUBSET Objects
BY DEF Of, There

\* What is found after a token.
LEMMA FoundAfter ==
    ASSUME WalksInv, NEW c \in Configs, NEW token \in Objects \cup {None}
    PROVE  /\ From(Of(c), token) \in SUBSET Of(c)
           /\ \A o \in From(Of(c), token) :
                /\ o \in Objects /\ o.config = c
                /\ token # None => c = token.config /\ token.n <= o.n
           /\ \A o \in After(Of(c), token) : token # None => token.n < o.n
<1>1. From(Of(c), token) \in SUBSET Of(c)
  BY DEF From
<1>2. ASSUME NEW o \in From(Of(c), token)
      PROVE  /\ o \in Objects /\ o.config = c
             /\ token # None => c = token.config /\ token.n <= o.n
  <2>1. o \in Objects /\ o.config = c
    BY <1>1 DEF Of, There
  <2>2. token # None => token \in Of(c) /\ o \notin Below(Of(c), token)
    BY NoneAssumption, <1>2 DEF From
  <2> QED
    BY <1>1, <2>1, <2>2, NumbersNat DEF Below, Of, There
<1>3. ASSUME NEW o \in After(Of(c), token), token # None PROVE token.n < o.n
  <2>1. o \in From(Of(c), token) /\ o # token
    BY DEF After
  <2>2. o \in Objects /\ o.config = c /\ c = token.config /\ token.n <= o.n
    BY <1>2, <1>3, <2>1
  <2>3. o.n # token.n
    BY <1>3, <2>1, <2>2 DEF Objects
  <2> QED
    BY <1>3, <2>2, <2>3, NumbersNat
<1> QED
  BY <1>1, <1>2, <1>3

\* A page of entry c, cut off or not, and what follows it.
LEMMA PartOfPage ==
    ASSUME WalksInv, NEW w \in Walkers, walk[w].pc = "list",
           NEW c \in walk[w].todo,
           NEW found \in SUBSET From(Of(c), walk[w].token),
           walk[w].kind = "volumes" => found = After(Of(c), walk[w].token)
    PROVE  LET page == FirstOf(found, walk[w].max)
               all == walk[w].page \cup page
           IN /\ page \in SUBSET Objects /\ \A o \in page : o.config = c
              /\ walk[w].token # None =>
                   \A o \in all : /\ o.config = walk[w].token.config
                                  /\ ~Passed(walk[w], o, walk[w].token)
              /\ \A o \in walk[w].page : o.config # c
              /\ \A o \in all : o.config \in walk[w].asked \ (walk[w].todo \ {c})
              /\ walk[w].max # 0 /\ Cardinality(walk[w].asked) = 1
                   => Cardinality(all) <= walk[w].max
<1> DEFINE r == walk[w]
           page == FirstOf(found, r.max)
           all == r.page \cup page
<1>1. WalkInv(r) /\ r \in Walks /\ c \in Configs /\ c \in r.asked
  BY DEF WalksInv, WalkInv, Walks
<1>2. page \in SUBSET found /\ \A o \in found : o \in Objects /\ o.config = c
  BY <1>1, FoundAfter DEF FirstOf, Walks
<1>3. \A o \in r.page : o.config # c
  BY <1>1 DEF WalkInv
<1>4. ASSUME r.token # None, NEW o \in page
      PROVE  o.config = r.token.config /\ ~Passed(r, o, r.token)
  <2>1. o \in found /\ r.token \in Objects /\ o \in Objects
    BY <1>1, <1>2, <1>4 DEF Walks
  <2>2. c = r.token.config /\ r.token.n <= o.n
    BY <1>1, <1>4, <2>1, FoundAfter
  <2>3. r.kind = "volumes" => r.token.n < o.n
    BY <1>1, <1>4, <2>1, FoundAfter
  <2> QED
    BY <1>2, <2>1, <2>2, <2>3, NumbersNat DEF Passed
<1>5. ASSUME r.max # 0, Cardinality(r.asked) = 1 PROVE Cardinality(all) <= r.max
  <2>1. IsFiniteSet(r.asked)
    BY <1>1, ConfigAssumption, FS_Subset DEF Walks
  <2>2. r.asked = {c}
    BY <1>1, <1>5, <2>1, FS_Singleton
  <2>3. r.page = {}
    BY <1>1, <2>2 DEF WalkInv
  <2>4. r.max \in Nat \ {0}
    BY <1>1, <1>5, SizeAssumption DEF Walks
  <2>5. found \in SUBSET Objects
    BY <1>2
  <2>6. Cardinality(page) <= r.max
    BY <1>2, <2>4, <2>5, PageSmall
  <2> QED
    BY <2>3, <2>6
<1>6. r.token # None =>
        \A o \in r.page : o.config = r.token.config /\ ~Passed(r, o, r.token)
  BY <1>1 DEF WalkInv
<1>7. \A o \in r.page : o.config \in r.asked \ r.todo
  BY <1>1 DEF WalkInv
<1>8. page \in SUBSET Objects /\ \A o \in page : o.config = c
  BY <1>2
<1> HIDE DEF page
<1>9. r.token # None => \A o \in all : o.config = r.token.config /\ ~Passed(r, o, r.token)
  BY <1>4, <1>6
<1>10. \A o \in all : o.config \in r.asked \ (r.todo \ {c})
  BY <1>1, <1>7, <1>8
<1> QED
  BY <1>3, <1>5, <1>8, <1>9, <1>10 DEF page

\* An entry dealt with: its page, and the token to go on from.
LEMMA ListedKeeps ==
    ASSUME WalksInv, NEW w \in Walkers, walk[w].pc = "list", walk[w].kind # "one",
           NEW c \in walk[w].todo,
           NEW found \in SUBSET From(Of(c), walk[w].token),
           walk[w].kind = "volumes" => found = After(Of(c), walk[w].token),
           NEW next \in found \cup {None},
           next # None => \A o \in FirstOf(found, walk[w].max) : Passed(walk[w], o, next),
           NEW pc \in {"list", "answer"},
           pc = "list" => walk[w].todo # {c} /\ (walk[w].kind # "volumes" => next = None),
           NEW skipped \in BOOLEAN
    PROVE  WalkInv([walk[w] EXCEPT !.page = @ \cup FirstOf(found, walk[w].max),
                      !.todo = @ \ {c}, !.pc = pc, !.next = next, !.skipped = skipped])
<1> DEFINE r == walk[w]
           page == FirstOf(found, r.max)
           all == r.page \cup page
           new == [r EXCEPT !.page = all, !.todo = r.todo \ {c}, !.pc = pc, !.next = next,
                     !.skipped = skipped]
<1>1. WalkInv(r) /\ r \in Walks /\ c \in Configs /\ c \in r.asked
  BY DEF WalksInv, WalkInv, Walks
<1>2. /\ page \in SUBSET Objects /\ \A o \in page : o.config = c
      /\ r.token # None => \A o \in all : o.config = r.token.config /\ ~Passed(r, o, r.token)
      /\ \A o \in r.page : o.config # c
      /\ \A o \in all : o.config \in r.asked \ (r.todo \ {c})
      /\ r.max # 0 /\ Cardinality(r.asked) = 1 => Cardinality(all) <= r.max
  BY PartOfPage
<1>3. next # None => /\ next \in Objects /\ next.config = c
                     /\ r.token # None => c = r.token.config /\ r.token.n <= next.n
  BY <1>1, FoundAfter DEF Walks
<1>4. next # None => \A o \in page : Passed(r, o, next)
  OBVIOUS
<1> HIDE DEF page
<1>5. ASSUME next # None, NEW o \in r.returned \cup all, o.config = next.config
      PROVE  Passed(r, o, next)
  <2>1. CASE o \in page
    BY <1>4, <1>5, <2>1
  <2>2. CASE o \in r.page
    BY <1>2, <1>3, <1>5, <2>2
  <2>3. CASE o \in r.returned
    <3>1. r.token # None
      BY <1>1, <2>3 DEF WalkInv
    <3>2. Passed(r, o, r.token)
      BY <1>1, <1>3, <1>5, <2>3, <3>1 DEF WalkInv
    <3>3. o \in Objects /\ r.token \in Objects /\ next \in Objects /\ r.token.n <= next.n
      BY <1>1, <1>3, <1>5, <2>3, <3>1 DEF Walks
    <3> QED
      <4>1. o.n \in Nat /\ r.token.n \in Nat /\ next.n \in Nat
        BY <3>3, NumbersNat
      <4> QED
        BY <3>2, <3>3, <4>1 DEF Passed
  <2> QED
    BY <1>5, <2>1, <2>2, <2>3
<1>6. /\ new \in Walks
      /\ new.kind = r.kind /\ new.pc = pc /\ new.asked = r.asked /\ new.max = r.max
      /\ new.token = r.token /\ new.todo = r.todo \ {c} /\ new.page = all
      /\ new.next = next /\ new.returned = r.returned /\ new.skipped = skipped
  BY <1>1, <1>2, <1>3 DEF Walks
<1>7. \A o \in Objects, t \in Objects : Passed(new, o, t) = Passed(r, o, t)
  BY <1>6 DEF Passed
<1>8. all \in SUBSET Objects /\ r.returned \in SUBSET Objects /\ r.token \in Objects \cup {None}
  BY <1>1, <1>2 DEF Walks
<1>9. r.kind \in {"volume", "one"} => pc = "answer"
  BY <1>1 DEF WalkInv
<1> HIDE DEF new
<1>10. WalkInv(new)
  <2>1. /\ new.todo \subseteq new.asked /\ new.asked # {}
        /\ new.pc = "list" => new.todo # {}
        /\ new.pc = "list" /\ new.kind # "volumes" => new.next = None
        /\ new.kind \in {"volume", "one"} => \E d \in Configs : new.asked = {d}
        /\ new.kind \in {"volume", "one"} /\ new.pc = "list" => new.todo = new.asked
        /\ new.token = None => new.returned = {}
        /\ \A o \in new.page : o.config \in new.asked \ new.todo
        /\ new.max # 0 /\ Cardinality(new.asked) = 1 => Cardinality(new.page) <= new.max
    BY <1>1, <1>2, <1>6, <1>9 DEF WalkInv
  <2>2. ASSUME new.token # None
        PROVE  /\ \A o \in new.returned : o.config = new.token.config => Passed(new, o, new.token)
               /\ \A o \in new.page : o.config = new.token.config /\ ~Passed(new, o, new.token)
               /\ new.next # None => new.next.config = new.token.config
                                     /\ new.token.n <= new.next.n
    BY <1>1, <1>2, <1>3, <1>6, <1>7, <1>8, <2>2 DEF WalkInv
  <2>3. new.next # None => \A o \in new.returned \cup new.page :
                             o.config = new.next.config => Passed(new, o, new.next)
    BY <1>3, <1>5, <1>6, <1>7, <1>8
  <2>4. /\ new.pc \notin {"idle", "ask", "done"}
        /\ new.kind = "one" => new.token # None
        /\ new.token # None => new.token.config \in new.asked
        /\ new.next # None => new.next.config \in new.asked
    BY <1>1, <1>3, <1>6 DEF WalkInv
  <2> QED
    BY <1>6, <2>1, <2>2, <2>3, <2>4 DEF WalkInv
<1> QED
  BY <1>10 DEF new, page

LEMMA PageKeeps ==
    ASSUME WalksInv, NEW w \in Walkers, walk[w].pc = "list",
           walk[w].kind \notin {"volumes", "one"},
           NEW c \in walk[w].todo
    PROVE  WalkInv(Page(w, c))
<1> DEFINE found == From(Of(c), walk[w].token)
           page == FirstOf(found, walk[w].max)
<1>0. c \in Configs /\ walk[w] \in Walks /\ walk[w].skipped \in BOOLEAN
  BY DEF WalksInv, WalkInv, Walks
<1>1. found \in SUBSET Objects /\ walk[w].max \in Nat
  BY <1>0, FoundAfter, OfObjects, WalkTypes
<1> DEFINE skipped == walk[w].skipped \/ TokenLost(w, c)
<1>2. skipped \in BOOLEAN
  OBVIOUS
<1>3. walk[w].next = None
  BY DEF WalksInv, WalkInv
<1>4. CASE page = found
  <2>1. (IF walk[w].todo = {c} THEN "answer" ELSE "list") = "list" => walk[w].todo # {c}
    OBVIOUS
  <2> DEFINE pc == IF walk[w].todo = {c} THEN "answer" ELSE "list"
             new == [walk[w] EXCEPT !.page = @ \cup page, !.todo = @ \ {c}, !.pc = pc,
                       !.next = None, !.skipped = skipped]
  <2>2. Page(w, c) = new
    BY <1>0, <1>3, <1>4 DEF Page, Listed, Walks
  <2>3. pc \in {"list", "answer"} /\ (pc = "list" => walk[w].todo # {c})
    OBVIOUS
  <2>4. found \in SUBSET From(Of(c), walk[w].token) /\ None \in found \cup {None}
    OBVIOUS
  <2>5. WalkInv(new)
    <3> HIDE DEF skipped, pc, found
    <3> QED
      BY <1>2, <2>3, <2>4, ListedKeeps
  <2> QED
    BY <2>2, <2>5
<1>5. CASE page # found
  <2> DEFINE next == Least(found \ page)
  <2>1. next \in found \ page
    <3>1. found \ page # {} /\ found \ page \in SUBSET Objects
      BY <1>1, <1>5 DEF FirstOf
    <3> QED
      BY <3>1, LeastExists
  <2>2. \A o \in page : Passed(walk[w], o, next)
    <3> SUFFICES ASSUME NEW o \in page PROVE o.n < next.n
      BY DEF Passed
    <3> HIDE DEF next
    <3> QED
      BY <1>1, <2>1, PageFirst
  <2> DEFINE new == [walk[w] EXCEPT !.page = @ \cup page, !.todo = @ \ {c},
                       !.pc = "answer", !.next = next, !.skipped = skipped]
  <2>3. Page(w, c) = new
    BY <1>0, <1>5 DEF Page, Listed, Walks
  <2>4. found \in SUBSET From(Of(c), walk[w].token) /\ next \in found \cup {None}
    BY <2>1
  <2>5. WalkInv(new)
    <3> HIDE DEF skipped, next, found
    <3> QED
      BY <1>2, <2>2, <2>4, ListedKeeps
  <2> QED
    BY <2>3, <2>5
<1> QED
  BY <1>4, <1>5

LEMMA VolumesKeep ==
    ASSUME WalksInv, NEW w \in Walkers, walk[w].pc = "list", walk[w].kind = "volumes",
           NEW c \in walk[w].todo
    PROVE  LET found == After(Of(c), walk[w].token)
               page == FirstOf(found, walk[w].max)
           IN WalkInv([Listed(w, c, page) EXCEPT
                         !.next = IF page = found THEN None ELSE Greatest(page)])
<1> DEFINE found == After(Of(c), walk[w].token)
           page == FirstOf(found, walk[w].max)
           next == IF page = found THEN None ELSE Greatest(page)
           pc == IF walk[w].todo = {c} THEN "answer" ELSE "list"
<1>0. c \in Configs /\ walk[w] \in Walks /\ walk[w].skipped \in BOOLEAN
  BY DEF WalksInv, WalkInv, Walks
<1>1. /\ found \in SUBSET From(Of(c), walk[w].token) /\ found \in SUBSET Objects
      /\ walk[w].max \in Nat
  BY <1>0, FoundAfter, OfObjects, WalkTypes DEF After
<1> DEFINE skipped == walk[w].skipped \/ TokenLost(w, c)
<1>2. skipped \in BOOLEAN
  OBVIOUS
<1>3. ASSUME page # found
      PROVE  Greatest(page) \in page /\ \A o \in page : o.n <= Greatest(page).n
  <2>1. walk[w].max # 0 /\ page \in SUBSET Objects
    BY <1>1, <1>3 DEF FirstOf
  <2>2. found # {}
    BY <1>3 DEF FirstOf
  <2>3. Least(found) \in found /\ \A p \in found : Least(found).n <= p.n
    BY <1>1, <2>2, LeastExists
  <2>4. Below(found, Least(found)) = {}
    BY <1>1, <2>3, NumbersNat DEF Below
  <2>5. Least(found) \in page
    BY <1>1, <2>1, <2>3, <2>4, FS_EmptySet DEF FirstOf
  <2> QED
    BY <2>1, <2>5, GreatestExists
<1>4. next \in found \cup {None}
  BY <1>3 DEF FirstOf
<1>5. next # None => \A o \in page : Passed(walk[w], o, next)
  <2> SUFFICES ASSUME next # None, NEW o \in page PROVE Passed(walk[w], o, next)
    OBVIOUS
  <2>1. next = Greatest(page) /\ o.n <= next.n
    BY <1>3
  <2>2. o \in Objects /\ next \in Objects
    BY <1>1, <1>4 DEF FirstOf
  <2> QED
    <3>1. o.n \in Nat /\ next.n \in Nat
      BY <2>2, NumbersNat
    <3> HIDE DEF next
    <3> QED
      BY <2>1, <3>1 DEF Passed
<1>6. [Listed(w, c, page) EXCEPT !.next = next]
        = [walk[w] EXCEPT !.page = @ \cup page, !.todo = @ \ {c}, !.pc = pc, !.next = next,
             !.skipped = skipped]
  BY <1>0 DEF Listed, Walks
<1>7. pc \in {"list", "answer"} /\ (pc = "list" => walk[w].todo # {c})
  OBVIOUS
<1>8. WalkInv([walk[w] EXCEPT !.page = @ \cup page, !.todo = @ \ {c}, !.pc = pc,
                 !.next = next, !.skipped = skipped])
  <2> HIDE DEF next, pc, skipped
  <2> QED
    BY <1>1, <1>2, <1>4, <1>5, <1>7, ListedKeeps
<1> QED
  BY <1>6, <1>8

LEMMA SkippedKeeps ==
    ASSUME WalksInv, NEW w \in Walkers, walk[w].pc = "list", NEW c \in walk[w].todo
    PROVE  /\ walk[w].kind # "volumes" => WalkInv(Skipped(w, c))
           /\ WalkInv([Skipped(w, c) EXCEPT !.next = None])
<1> DEFINE pc == IF walk[w].todo = {c} THEN "answer" ELSE "list"
           r == walk[w]
           new == [r EXCEPT !.todo = r.todo \ {c}, !.pc = pc, !.next = None, !.skipped = TRUE]
<1>0. WalkInv(r) /\ r \in Walks /\ c \in r.asked
  BY DEF WalksInv, WalkInv
<1>1. /\ new \in Walks
      /\ new.kind = r.kind /\ new.pc = pc /\ new.asked = r.asked /\ new.max = r.max
      /\ new.token = r.token /\ new.todo = r.todo \ {c} /\ new.page = r.page
      /\ new.next = None /\ new.returned = r.returned
  BY <1>0 DEF Walks
<1>2. [Skipped(w, c) EXCEPT !.next = None] = new
  BY <1>0 DEF Skipped, Listed, Walks
<1>3. r.kind # "volumes" => r.next = None
  BY <1>0 DEF WalkInv
<1>4. r.kind # "volumes" => Skipped(w, c) = new
  BY <1>0, <1>3 DEF Skipped, Listed, Walks
<1>5. WalkInv(new)
  <2>1. \A o \in Objects, t \in Objects : Passed(new, o, t) = Passed(r, o, t)
    BY <1>1 DEF Passed
  <2>2. r.page \in SUBSET Objects /\ r.returned \in SUBSET Objects
        /\ r.token \in Objects \cup {None}
    BY <1>0 DEF Walks
  <2>3. r.kind \in {"volume", "one"} => pc = "answer"
    BY <1>0 DEF WalkInv
  <2>4. pc \in {"list", "answer"} /\ (pc = "list" => r.todo \ {c} # {})
    BY <1>0
  <2>5. ASSUME r.token # None
        PROVE  /\ \A o \in r.returned : o.config = r.token.config => Passed(new, o, r.token)
               /\ \A o \in r.page : o.config = r.token.config /\ ~Passed(new, o, r.token)
    <3>1. /\ \A o \in r.returned : o.config = r.token.config => Passed(r, o, r.token)
          /\ \A o \in r.page : o.config = r.token.config /\ ~Passed(r, o, r.token)
      BY <1>0, <2>5 DEF WalkInv
    <3>2. r.token \in Objects
      BY <2>2, <2>5
    <3> HIDE DEF r, new
    <3> QED
      BY <2>1, <2>2, <3>1, <3>2
  <2> HIDE DEF new, pc
  <2> QED
    BY <1>0, <1>1, <2>3, <2>4, <2>5 DEF WalkInv
<1> QED
  BY <1>2, <1>4, <1>5

LEMMA ErrorKeeps ==
    ASSUME WalksInv, NEW w \in Walkers, walk[w].pc \in {"list", "answer"}
    PROVE  WalkInv(Error(w))
<1> DEFINE r == walk[w]
           new == Error(w)
<1>0. WalkInv(r) /\ r \in Walks
  BY DEF WalksInv, WalkInv
<1>1. /\ new \in Walks
      /\ new.kind = r.kind /\ new.pc = "ask" /\ new.asked = r.asked /\ new.max = r.max
      /\ new.token = r.token /\ new.todo = {} /\ new.page = {}
      /\ new.next = None /\ new.returned = r.returned
  BY <1>0 DEF Walks, Error
<1>2. \A o \in Objects, t \in Objects : Passed(new, o, t) = Passed(r, o, t)
  BY <1>1 DEF Passed
<1>3. r.returned \in SUBSET Objects /\ r.token \in Objects \cup {None}
  BY <1>0 DEF Walks
<1>4. new.max # 0 => Cardinality({}) <= new.max
  <2> HIDE DEF new
  <2> QED
    BY <1>1, FS_EmptySet, WalkTypes
<1>5. r.token # None =>
        \A o \in r.returned : o.config = r.token.config => Passed(new, o, r.token)
  BY <1>0, <1>2, <1>3 DEF WalkInv
<1> HIDE DEF new
<1>6. WalkInv(new)
  BY <1>0, <1>1, <1>4, <1>5 DEF WalkInv
<1> QED
  BY <1>6 DEF new

LEMMA NoWalkKeeps == WalkInv(NoWalk)
BY FS_EmptySet, NoneAssumption DEF WalkInv, NoWalk, Walks, Kinds

\* A walk begins.
LEMMA AsksKeeps ==
    ASSUME WalksInv, NEW kind \in {"all", "volumes", "volume"}, NEW asked \in SUBSET Configs,
           asked # {}, kind = "volume" => \E c \in Configs : asked = {c},
           NEW max \in PageSizes, NEW throughout \in SUBSET Objects
    PROVE  WalkInv([NoWalk EXCEPT !.kind = kind, !.pc = "ask", !.asked = asked, !.max = max,
                      !.throughout = throughout])
<1> DEFINE new == [NoWalk EXCEPT !.kind = kind, !.pc = "ask", !.asked = asked, !.max = max,
                     !.throughout = throughout]
<1>1. /\ new \in Walks
      /\ new.kind = kind /\ new.pc = "ask" /\ new.asked = asked /\ new.max = max
      /\ new.token = None /\ new.todo = {} /\ new.page = {} /\ new.next = None
      /\ new.returned = {}
  BY DEF NoWalk, Walks, Kinds
<1>2. max \in Nat /\ (max # 0 => Cardinality({}) <= max)
  BY SizeAssumption, FS_EmptySet
<1> HIDE DEF new
<1>3. WalkInv(new)
  BY <1>1, <1>2 DEF WalkInv
<1> QED
  BY <1>3 DEF new

LEMMA BeginOneKeeps ==
    ASSUME WalksInv, NEW o \in Objects, NEW throughout \in SUBSET Objects
    PROVE  WalkInv([NoWalk EXCEPT !.kind = "one", !.pc = "ask", !.asked = {o.config},
                      !.token = o, !.throughout = throughout])
<1> DEFINE new == [NoWalk EXCEPT !.kind = "one", !.pc = "ask", !.asked = {o.config},
                     !.token = o, !.throughout = throughout]
<1>1. o.config \in Configs /\ o # None
  BY NumbersNat, NoneAssumption
<1>2. /\ new \in Walks
      /\ new.kind = "one" /\ new.pc = "ask" /\ new.asked = {o.config} /\ new.max = 0
      /\ new.token = o /\ new.todo = {} /\ new.page = {} /\ new.next = None
      /\ new.returned = {}
  BY <1>1 DEF NoWalk, Walks, Kinds
<1> HIDE DEF new
<1>3. WalkInv(new)
  BY <1>1, <1>2 DEF WalkInv
<1> QED
  BY <1>3 DEF new

LEMMA ListCallKeeps ==
    ASSUME WalksInv, NEW w \in Walkers, walk[w].pc = "ask"
    PROVE  WalkInv([walk[w] EXCEPT !.pc = "list", !.todo = walk[w].asked, !.page = {},
                      !.next = None])
<1> DEFINE r == walk[w]
           new == [r EXCEPT !.pc = "list", !.todo = r.asked, !.page = {}, !.next = None]
<1>0. WalkInv(r) /\ r \in Walks
  BY DEF WalksInv, WalkInv
<1>1. /\ new \in Walks
      /\ new.kind = r.kind /\ new.pc = "list" /\ new.asked = r.asked /\ new.max = r.max
      /\ new.token = r.token /\ new.todo = r.asked /\ new.page = {}
      /\ new.next = None /\ new.returned = r.returned
  BY <1>0 DEF Walks
<1>2. \A o \in Objects, t \in Objects : Passed(new, o, t) = Passed(r, o, t)
  BY <1>1 DEF Passed
<1>3. r.returned \in SUBSET Objects /\ r.token \in Objects \cup {None}
  BY <1>0 DEF Walks
<1>4. new.max # 0 => Cardinality({}) <= new.max
  <2> HIDE DEF new
  <2> QED
    BY <1>1, FS_EmptySet, WalkTypes
<1>5. r.token # None =>
        \A o \in r.returned : o.config = r.token.config => Passed(new, o, r.token)
  BY <1>0, <1>2, <1>3 DEF WalkInv
<1> HIDE DEF new
<1>6. WalkInv(new)
  BY <1>0, <1>1, <1>4, <1>5 DEF WalkInv
<1> QED
  BY <1>6 DEF new

LEMMA SingleKeeps ==
    ASSUME WalksInv, NEW w \in Walkers, Listing(w, "one")
    PROVE  WalkInv([walk[w] EXCEPT !.pc = "answer", !.todo = {},
                      !.page = There \cap {walk[w].token}])
<1> DEFINE r == walk[w]
           page == There \cap {r.token}
           new == [r EXCEPT !.pc = "answer", !.todo = {}, !.page = page]
<1>0. WalkInv(r) /\ r \in Walks /\ r.kind = "one" /\ r.pc = "list"
  BY DEF WalksInv, WalkInv, Listing
<1>1. /\ page \in SUBSET Objects /\ r.token \in Objects \cup {None}
  BY <1>0 DEF There, Walks
<1>2. /\ new \in Walks
      /\ new.kind = "one" /\ new.pc = "answer" /\ new.asked = r.asked /\ new.max = r.max
      /\ new.token = r.token /\ new.todo = {} /\ new.page = page
      /\ new.next = None /\ new.returned = r.returned
  BY <1>0, <1>1 DEF Walks, WalkInv
<1>3. r.token \in Objects /\ ~Passed(new, r.token, r.token)
  <2>1. r.token # None
    BY <1>0 DEF WalkInv
  <2>2. r.token \in Objects
    BY <1>1, <2>1
  <2> QED
    BY <1>2, <2>2, NumbersNat DEF Passed
<1>4. \A o \in Objects, t \in Objects : Passed(new, o, t) = Passed(r, o, t)
  BY <1>0, <1>2 DEF Passed
<1>5. r.token # None =>
        \A o \in r.returned : o.config = r.token.config => Passed(new, o, r.token)
  BY <1>0, <1>3, <1>4 DEF WalkInv, Walks
<1>6. \A o \in page : o = r.token /\ o.config \in r.asked
  BY <1>0, <1>3, NoneAssumption DEF WalkInv
<1>7. new.max # 0 => Cardinality(new.page) <= new.max
  <2>1. page = {} \/ page = {r.token}
    OBVIOUS
  <2>2. Cardinality(page) \in {0, 1}
    BY <2>1, FS_EmptySet, FS_Singleton
  <2>3. new.max \in Nat
    BY <1>2, WalkTypes
  <2> HIDE DEF new, page
  <2> QED
    BY <1>2, <2>2, <2>3
<1> HIDE DEF new, page
<1>8. WalkInv(new)
  BY <1>0, <1>2, <1>3, <1>5, <1>6, <1>7 DEF WalkInv
<1> QED
  BY <1>8 DEF new, page

LEMMA AnswerKeeps ==
    ASSUME WalksInv, NEW w \in Walkers, walk[w].pc = "answer"
    PROVE  WalkInv([walk[w] EXCEPT !.pc = IF walk[w].next = None THEN "done" ELSE "ask",
                      !.token = walk[w].next, !.returned = @ \cup walk[w].page,
                      !.page = {}, !.todo = {}, !.next = None])
<1> DEFINE r == walk[w]
           pc == IF r.next = None THEN "done" ELSE "ask"
           new == [r EXCEPT !.pc = pc, !.token = r.next, !.returned = @ \cup r.page,
                     !.page = {}, !.todo = {}, !.next = None]
<1>0. WalkInv(r) /\ r \in Walks
  BY DEF WalksInv, WalkInv
<1>1. /\ new \in Walks
      /\ new.kind = r.kind /\ new.pc = pc /\ new.asked = r.asked /\ new.max = r.max
      /\ new.token = r.next /\ new.todo = {} /\ new.page = {}
      /\ new.next = None /\ new.returned = r.returned \cup r.page
  BY <1>0 DEF Walks
<1>2. \A o \in Objects, t \in Objects : Passed(new, o, t) = Passed(r, o, t)
  BY <1>1 DEF Passed
<1>3. r.returned \cup r.page \in SUBSET Objects /\ r.next \in Objects \cup {None}
  BY <1>0 DEF Walks
<1>4. new.max # 0 => Cardinality({}) <= new.max
  <2>1. new.max \in Nat
    BY <1>1, WalkTypes
  <2> HIDE DEF new
  <2> QED
    BY <2>1, FS_EmptySet
<1>5. r.next # None =>
        \A o \in r.returned \cup r.page : o.config = r.next.config => Passed(new, o, r.next)
  BY <1>0, <1>2, <1>3 DEF WalkInv
<1>6. pc = "ask" => r.next # None
  OBVIOUS
<1>7. pc \in {"done", "ask"}
  OBVIOUS
<1> HIDE DEF new, pc
<1>8. WalkInv(new)
  BY <1>0, <1>1, <1>4, <1>5, <1>6, <1>7 DEF WalkInv
<1> QED
  BY <1>8 DEF new, pc

\* A walk of one caller that is replaced.
LEMMA PutKeeps ==
    ASSUME WalksInv, NEW w \in Walkers, NEW local, WalkInv(local),
           walk' = [walk EXCEPT ![w] = local]
    PROVE  walk' \in [Walkers -> Walks] /\ \A x \in Walkers : WalkInv(walk'[x])
BY DEF WalksInv, WalkInv

LEMMA ThereObjects == There \in SUBSET Objects
BY DEF There

LEMMA WalkSteps ==
    ASSUME WalksInv, NEW w \in Walkers, WalkStep(w)
    PROVE  walk' \in [Walkers -> Walks] /\ \A x \in Walkers : WalkInv(walk'[x])
<1>0. WalkInv(walk[w])
  BY DEF WalksInv
<1>1. CASE ListCall(w)
  <2>1. walk' = [walk EXCEPT ![w] = [walk[w] EXCEPT !.pc = "list", !.todo = walk[w].asked,
                                       !.page = {}, !.next = None]]
    BY <1>1 DEF ListCall, WalksInv
  <2> QED
    BY <1>1, <2>1, ListCallKeeps, PutKeeps DEF ListCall
<1>2. CASE Answer(w)
  <2>1. CASE Refused(w)
    BY <1>2, <2>1, NoWalkKeeps, PutKeeps DEF Answer, Put
  <2>2. CASE ~Refused(w)
    BY <1>2, <2>2, AnswerKeeps, PutKeeps DEF Answer, Put
  <2> QED
    BY <2>1, <2>2
<1>3. CASE GroupSnapshots(w)
  <2>1. PICK c \in walk[w].todo : Put(w, Page(w, c))
    BY <1>3 DEF GroupSnapshots
  <2>2. WalkInv(Page(w, c))
    BY <1>3, PageKeeps DEF GroupSnapshots, Listing
  <2> QED
    BY <2>1, <2>2, PutKeeps DEF Put
<1>4. CASE VolumeSnapshots(w)
  <2>1. ASSUME NEW c \in walk[w].asked PROVE WalkInv(Page(w, c))
    BY <1>0, <1>4, PageKeeps DEF VolumeSnapshots, Listing, WalkInv
  <2>2. WalkInv(Error(w))
    BY <1>4, ErrorKeeps DEF VolumeSnapshots, Listing
  <2>3. ASSUME NEW d \in walk[w].todo PROVE WalkInv(Skipped(w, d))
    BY <1>4, SkippedKeeps DEF VolumeSnapshots, Listing
  <2>4. \E local : WalkInv(local) /\ Put(w, local)
    BY <1>4, <2>1, <2>2, <2>3 DEF VolumeSnapshots
  <2> QED
    BY <2>4, PutKeeps DEF Put
<1>5. CASE SingleSnapshot(w)
  BY <1>5, SingleKeeps, PutKeeps DEF SingleSnapshot, Put
<1>6. CASE EntryVolumes(w)
  <2>1. PICK c \in walk[w].todo :
          LET found == After(Of(c), walk[w].token)
              page == FirstOf(found, walk[w].max)
          IN Put(w, [Listed(w, c, page) EXCEPT
                       !.next = IF page = found THEN None ELSE Greatest(page)])
    BY <1>6 DEF EntryVolumes
  <2>2. walk[w].pc = "list" /\ walk[w].kind = "volumes"
    BY <1>6 DEF EntryVolumes, Listing
  <2> QED
    BY <2>1, <2>2, VolumesKeep, PutKeeps DEF Put
<1> QED
  BY <1>1, <1>2, <1>3, <1>4, <1>5, <1>6 DEF WalkStep

LEMMA WalkFaults ==
    ASSUME WalksInv, NEW w \in Walkers,
           \/ ResolveNotFound(w) \/ GroupSnapshotsPanics(w)
           \/ EntryVolumesFails(w) \/ SnapshotsFail(w)
    PROVE  walk' \in [Walkers -> Walks] /\ \A x \in Walkers : WalkInv(walk'[x])
<1>1. CASE ResolveNotFound(w)
  <2>1. CASE walk[w].kind = "volumes"
    BY <1>1, <2>1, ErrorKeeps, PutKeeps DEF ResolveNotFound, Put
  <2>2. CASE walk[w].kind # "volumes"
    <3>1. PICK c \in walk[w].todo : Put(w, Skipped(w, c))
      BY <1>1, <2>2 DEF ResolveNotFound
    <3>2. WalkInv(Skipped(w, c))
      BY <1>1, <2>2, SkippedKeeps DEF ResolveNotFound
    <3> QED
      BY <3>1, <3>2, PutKeeps DEF Put
  <2> QED
    BY <2>1, <2>2
<1>2. CASE GroupSnapshotsPanics(w)
  <2>1. ASSUME NEW x \in Walkers PROVE WalkInv(walk'[x])
    BY <1>2, ErrorKeeps DEF GroupSnapshotsPanics, WalksInv
  <2>2. walk' \in [Walkers -> Walks]
    BY <1>2, <2>1 DEF GroupSnapshotsPanics, WalkInv
  <2> QED
    BY <2>1, <2>2
<1>3. CASE EntryVolumesFails(w)
  <2>1. PICK c \in walk[w].todo : Put(w, [Skipped(w, c) EXCEPT !.next = None])
    BY <1>3 DEF EntryVolumesFails
  <2>2. WalkInv([Skipped(w, c) EXCEPT !.next = None])
    BY <1>3, SkippedKeeps DEF EntryVolumesFails, Listing
  <2> QED
    BY <2>1, <2>2, PutKeeps DEF Put
<1>4. CASE SnapshotsFail(w)
  BY <1>4, ErrorKeeps, PutKeeps DEF SnapshotsFail, Put
<1> QED
  BY <1>1, <1>2, <1>3, <1>4

LEMMA WalksStep == WalksInv /\ [Next]_vars => WalksInv'
<1> SUFFICES ASSUME WalksInv, [Next]_vars PROVE WalksInv'
  OBVIOUS
<1> DEFINE Rest == /\ entries \subseteq Configs /\ entries # {}
                   /\ object \in [Objects -> {"new", "there", "gone"}]
                   /\ faults \in 0 .. MaxFaults
           Walked == walk \in [Walkers -> Walks] /\ \A w \in Walkers : WalkInv(walk[w])
<1>0. Rest /\ Walked
  BY DEF WalksInv
<1>1. ASSUME NEW o \in Objects, Create(o) PROVE Rest' /\ Walked'
  <2>1. Rest'
    BY <1>0, <1>1 DEF Create
  <2>2. walk' = walk
    BY <1>1 DEF Create
  <2> QED
    BY <1>0, <2>1, <2>2
<1>2. ASSUME NEW o \in Objects, Destroy(o) PROVE Rest' /\ Walked'
  <2>1. Rest'
    BY <1>0, <1>2 DEF Destroy
  <2>2. ASSUME NEW w \in Walkers PROVE WalkInv(walk'[w])
    <3> DEFINE new == walk'[w]
    <3>0. WalkInv(walk[w]) /\ walk[w] \in Walks
      BY DEF WalksInv, WalkInv
    <3>1. new = [walk[w] EXCEPT !.throughout = @ \ {o}]
      BY <1>2 DEF Destroy
    <3>2. /\ new \in Walks
          /\ new.kind = walk[w].kind /\ new.pc = walk[w].pc /\ new.asked = walk[w].asked
          /\ new.max = walk[w].max /\ new.token = walk[w].token /\ new.todo = walk[w].todo
          /\ new.page = walk[w].page /\ new.next = walk[w].next
          /\ new.returned = walk[w].returned
      BY <3>0, <3>1 DEF Walks
    <3> HIDE DEF new
    <3>3. WalkInv(new)
      BY <3>0, <3>2 DEF WalkInv, Passed
    <3> QED
      BY <3>3 DEF new
  <2>3. walk' \in [Walkers -> Walks]
    BY <1>2, <2>2 DEF Destroy, WalkInv
  <2> QED
    BY <2>1, <2>2, <2>3
<1>3. ASSUME NEW w \in Walkers, Begin(w) PROVE Rest' /\ Walked'
  <2>1. PICK kind \in {"all", "volumes", "volume"}, asked \in SUBSET Configs, max \in PageSizes :
          /\ asked # {}
          /\ kind = "volume" => \E c \in Configs : asked = {c}
          /\ Asks(w, kind, asked, max)
    BY <1>0, <1>3 DEF Begin
  <2>2. {o \in There : o.config \in asked} \in SUBSET Objects
    BY ThereObjects
  <2> DEFINE new == [NoWalk EXCEPT !.kind = kind, !.pc = "ask", !.asked = asked, !.max = max,
                       !.throughout = {o \in There : o.config \in asked}]
  <2>3. WalkInv(new)
    BY <2>1, <2>2, AsksKeeps
  <2>4. walk' = [walk EXCEPT ![w] = new] /\ UNCHANGED <<entries, object, faults>>
    BY <2>1 DEF Asks
  <2> HIDE DEF new
  <2> QED
    BY <1>0, <2>3, <2>4, PutKeeps
<1>4. ASSUME NEW w \in Walkers, NEW o \in Objects, BeginOne(w, o) PROVE Rest' /\ Walked'
  <2>1. There \cap {o} \in SUBSET Objects
    BY ThereObjects
  <2> QED
    BY <1>0, <1>4, <2>1, BeginOneKeeps, PutKeeps DEF BeginOne
<1>5. ASSUME NEW w \in Walkers, WalkStep(w) PROVE Rest' /\ Walked'
  <2>1. UNCHANGED <<entries, object, faults>>
    BY <1>5 DEF WalkStep, ListCall, Answer, GroupSnapshots, VolumeSnapshots, SingleSnapshot,
                EntryVolumes, Put
  <2> QED
    BY <1>0, <1>5, <2>1, WalkSteps
<1>6. ASSUME NEW w \in Walkers,
             \/ ResolveNotFound(w) \/ GroupSnapshotsPanics(w)
             \/ EntryVolumesFails(w) \/ SnapshotsFail(w)
      PROVE  Rest' /\ Walked'
  <2>1. UNCHANGED <<entries, object>> /\ Fault
    BY <1>6 DEF ResolveNotFound, GroupSnapshotsPanics, EntryVolumesFails, SnapshotsFail, Put
  <2> QED
    BY <1>0, <1>6, <2>1, WalkFaults, BoundAssumption DEF Fault
<1>7. CASE UNCHANGED vars
  <2>1. UNCHANGED <<entries, object, walk, faults>>
    BY <1>7 DEF vars
  <2> QED
    BY <1>0, <2>1 DEF WalksInv
<1>8. CASE Next
  <2> HIDE DEF Rest, Walked
  <2>1. Rest' /\ Walked'
    BY <1>1, <1>2, <1>3, <1>4, <1>5, <1>6, <1>8 DEF Next
  <2> QED
    BY <2>1 DEF Rest, Walked, WalksInv
<1> QED
  BY <1>7, <1>8

LEMMA WalksInit == Init => WalksInv
<1> SUFFICES ASSUME Init PROVE WalksInv
  OBVIOUS
<1>1. walk \in [Walkers -> Walks] /\ \A w \in Walkers : WalkInv(walk[w])
  BY NoWalkKeeps DEF Init, WalkInv
<1>2. object \in [Objects -> {"new", "there", "gone"}]
  <2>1. object \in [Objects -> {"new", "there"}]
    BY DEF Init
  <2> QED
    BY <2>1
<1>3. entries \subseteq Configs /\ entries # {}
  BY DEF Init
<1>4. faults \in 0 .. MaxFaults
  BY BoundAssumption DEF Init
<1> QED
  BY <1>1, <1>2, <1>3, <1>4 DEF WalksInv

\* Every reachable state is well typed.
THEOREM ListingTypeCorrect == Spec => []TypeOK
<1>1. WalksInv => TypeOK
  BY DEF WalksInv, TypeOK
<1> QED
  BY <1>1, WalksInit, WalksStep, PTL DEF Spec

\* With one entry no page is larger than max_entries (CS 1231), whatever was created,
\* destroyed or failed on the way.
THEOREM ListingPagesAreSmall == Spec => []PagesAreSmall
<1>1. WalksInv => PagesAreSmall
  BY DEF WalksInv, WalkInv, PagesAreSmall
<1> QED
  BY <1>1, WalksInit, WalksStep, PTL DEF Spec

\* Whatever comes and goes between the pages, in whatever order the entries are met, no
\* object is shown twice: all that was returned lies before the token (CS 1219-1243,
\* 1296-1306).
THEOREM ListingNoneTwice == Spec => []NoneTwice
<1>1. WalksInv => NoneTwice
  <2> SUFFICES ASSUME WalksInv, NEW w \in Walkers, NEW o \in walk[w].page \cap walk[w].returned
               PROVE  FALSE
    BY DEF NoneTwice
  <2>1. WalkInv(walk[w]) /\ walk[w] \in Walks
    BY DEF WalksInv, WalkInv
  <2>2. walk[w].pc \in {"list", "answer"} /\ walk[w].token # None
    BY <2>1 DEF WalkInv, Walks
  <2>3. o.config = walk[w].token.config /\ ~Passed(walk[w], o, walk[w].token)
    BY <2>1, <2>2 DEF WalkInv
  <2> QED
    BY <2>1, <2>2, <2>3 DEF WalkInv
<1> QED
  BY <1>1, WalksInit, WalksStep, PTL DEF Spec

-----------------------------------------------------------------------------
(* What a walk of one entry, or without pages, owes: an object that has    *)
(* been there all along is shown, or lies where the walk goes on.          *)

Ahead(r, o, t) == t = None \/ (o.config = t.config /\ ~Passed(r, o, t))

Shown(r, o) == o \in r.returned \cup r.page

Owed(r, o) ==
    \/ r.pc = "ask" /\ Ahead(r, o, r.token)
    \/ r.pc = "list" /\ o.config \in r.todo /\ Ahead(r, o, r.token)
    \/ r.pc = "answer" /\ r.next # None /\ Ahead(r, o, r.next)

OneEntry(r) == r.max = 0 \/ Cardinality(r.asked) = 1

DebtInv(r, there) ==
    /\ r.throughout \subseteq there
    /\ \A o \in r.throughout : o.config \in r.asked
    /\ r.kind = "one" /\ r.pc \in {"ask", "list", "answer"} => r.throughout \subseteq {r.token}
    /\ OneEntry(r) /\ ~r.skipped /\ r.pc # "idle" =>
         \A o \in r.throughout : Shown(r, o) \/ Owed(r, o)

DebtsInv == WalksInv /\ \A w \in Walkers : DebtInv(walk[w], There)

Found(w, c) ==
    IF walk[w].kind = "volumes" THEN After(Of(c), walk[w].token) ELSE From(Of(c), walk[w].token)

PageOf(w, c) == FirstOf(Found(w, c), walk[w].max)

Dealt(w, c, next, pc, skipped) ==
    [walk[w] EXCEPT !.page = @ \cup PageOf(w, c), !.todo = @ \ {c}, !.pc = pc,
       !.next = next, !.skipped = skipped]

LEMMA ListedPays ==
    ASSUME DebtsInv, NEW w \in Walkers, walk[w].pc = "list", NEW c \in walk[w].todo,
           NEW next \in Found(w, c) \cup {None}, next = None => PageOf(w, c) = Found(w, c),
           next # None =>
             walk[w].max # 0 /\ \A o \in Found(w, c) \ PageOf(w, c) : ~Passed(walk[w], o, next),
           NEW pc \in {"list", "answer"}, pc = "list" => walk[w].todo # {c},
           pc = "answer" => walk[w].todo = {c} \/ next # None,
           NEW skipped \in BOOLEAN, ~skipped => ~walk[w].skipped /\ ~TokenLost(w, c)
    PROVE  DebtInv(Dealt(w, c, next, pc, skipped), There)
<1> DEFINE r == walk[w]
           found == Found(w, c)
           page == PageOf(w, c)
           new == [r EXCEPT !.page = @ \cup page, !.todo = @ \ {c}, !.pc = pc,
                     !.next = next, !.skipped = skipped]
<1>0. WalkInv(r) /\ r \in Walks /\ DebtInv(r, There) /\ c \in Configs /\ c \in r.asked
  BY DEF DebtsInv, WalksInv, WalkInv, Walks
<1>1. /\ new.kind = r.kind /\ new.pc = pc /\ new.asked = r.asked /\ new.max = r.max
      /\ new.token = r.token /\ new.todo = r.todo \ {c} /\ new.page = r.page \cup page
      /\ new.next = next /\ new.returned = r.returned /\ new.skipped = skipped
      /\ new.throughout = r.throughout
  BY <1>0 DEF Walks
<1>2. r.token \in Objects \cup {None} /\ r.throughout \subseteq Objects
  BY <1>0 DEF Walks
<1>3. \A o \in found : o \in Objects /\ o.config = c
  BY <1>0, <1>2, FoundAfter DEF Found, After, DebtsInv
<1>4. next # None /\ OneEntry(r) => r.todo = {c} /\ r.asked = {c}
  <2> SUFFICES ASSUME next # None, Cardinality(r.asked) = 1 PROVE r.todo = {c} /\ r.asked = {c}
    BY DEF OneEntry
  <2>1. IsFiniteSet(r.asked)
    BY <1>0, ConfigAssumption, FS_Subset DEF Walks
  <2> QED
    BY <1>0, <2>1, FS_Singleton DEF WalkInv
<1>5. ASSUME OneEntry(r), ~skipped, NEW o \in r.throughout
      PROVE  Shown(new, o) \/ Owed(new, o)
  <2>1. Shown(r, o) \/ (o.config \in r.todo /\ Ahead(r, o, r.token))
    BY <1>0, <1>5 DEF DebtInv, Owed
  <2>2. CASE Shown(r, o)
    BY <1>1, <2>2 DEF Shown
  <2>3. CASE o.config \in r.todo /\ o.config # c
    <3>1. pc = "list" /\ ~Shown(r, o) => Ahead(r, o, r.token)
      BY <2>1
    <3>2. pc = "list"
      BY <1>4, <1>5, <2>3
    <3>3. Ahead(new, o, new.token) = Ahead(r, o, r.token)
      BY <1>1 DEF Ahead, Passed
    <3> HIDE DEF new
    <3> QED
      BY <1>1, <2>2, <2>3, <3>1, <3>2, <3>3 DEF Owed
  <2>4. CASE o.config = c /\ Ahead(r, o, r.token)
    <3>1. o \in Of(c) /\ o \in Objects
      BY <1>0, <1>2, <2>4 DEF DebtInv, Of
    <3>2. r.token = None \/ (r.token \in Of(c) /\ ~Passed(r, o, r.token))
      BY <1>0, <1>2, <1>5, <2>4 DEF Ahead, TokenLost, Of
    <3>3. o \in From(Of(c), r.token)
      <4>1. CASE r.token = None
        <5>1. None \notin Of(c)
          BY NoneAssumption, OfObjects, <1>0
        <5> QED
          BY <3>1, <4>1, <5>1 DEF From
      <4>2. CASE r.token # None
        <5>1. r.token \in Of(c) /\ ~(o.n < r.token.n)
          BY <3>2, <4>2 DEF Passed
        <5> QED
          BY <3>1, <4>2, <5>1 DEF From, Below
      <4> QED
        BY <4>1, <4>2
    <3>4. o \in found
      <4>1. r.kind = "volumes" /\ r.token # None => o # r.token
        BY <3>2 DEF Passed
      <4>2. o # None
        BY <3>1, NoneAssumption
      <4> QED
        BY <3>3, <4>1, <4>2 DEF Found, After
    <3>5. CASE o \in page
      BY <1>1, <3>5 DEF Shown
    <3>6. CASE o \notin page
      <4>1. next # None /\ ~Passed(r, o, next)
        BY <3>4, <3>6
      <4>2. next.config = o.config
        BY <1>3, <2>4, <4>1
      <4>3. pc = "answer"
        BY <1>4, <1>5, <4>1
      <4>4. ~Passed(new, o, next)
        BY <1>1, <4>1 DEF Passed
      <4> HIDE DEF new
      <4> QED
        BY <1>1, <4>1, <4>2, <4>3, <4>4 DEF Owed, Ahead
    <3> QED
      BY <3>5, <3>6
  <2> QED
    BY <2>1, <2>2, <2>3, <2>4
<1>6. OneEntry(new) = OneEntry(r)
  BY <1>1 DEF OneEntry
<1> HIDE DEF new
<1>7. DebtInv(new, There)
  BY <1>0, <1>1, <1>5, <1>6 DEF DebtInv
<1> QED
  BY <1>7 DEF new, Dealt

LEMMA PagePays ==
    ASSUME DebtsInv, NEW w \in Walkers, walk[w].pc = "list", walk[w].kind # "volumes",
           NEW c \in walk[w].todo
    PROVE  DebtInv(Page(w, c), There)
<1> DEFINE found == From(Of(c), walk[w].token)
           page == FirstOf(found, walk[w].max)
           skipped == walk[w].skipped \/ TokenLost(w, c)
           next == IF page = found THEN None ELSE Least(found \ page)
           pc == IF page = found /\ walk[w].todo # {c} THEN "list" ELSE "answer"
           new == [walk[w] EXCEPT !.page = @ \cup page, !.todo = @ \ {c}, !.pc = pc,
                     !.next = next, !.skipped = skipped]
<1>0. c \in Configs /\ walk[w] \in Walks /\ walk[w].next = None
  BY DEF DebtsInv, WalksInv, WalkInv, Walks
<1>1. found \in SUBSET Objects
  BY <1>0, FoundAfter, OfObjects, WalkTypes DEF DebtsInv
<1>2. page # found => walk[w].max # 0 /\ found \ page # {}
  BY DEF FirstOf
<1>3. page # found => /\ next \in found
                      /\ \A o \in found \ page : next.n <= o.n
  BY <1>1, <1>2, LeastExists
<1>4. next # None => walk[w].max # 0 /\ \A o \in found \ page : ~Passed(walk[w], o, next)
  <2> SUFFICES ASSUME next # None, NEW o \in found \ page
               PROVE  walk[w].max # 0 /\ ~Passed(walk[w], o, next)
    BY <1>2
  <2>1. o.n \in Nat /\ next.n \in Nat /\ next.n <= o.n
    BY <1>1, <1>3, NumbersNat
  <2> HIDE DEF next
  <2>2. ~Passed(walk[w], o, next)
    BY <2>1 DEF Passed
  <2> QED
    BY <1>2, <2>2 DEF next
<1>5. Page(w, c) = new
  BY <1>0 DEF Page, Listed, Walks
<1>6. /\ skipped \in BOOLEAN /\ ~skipped => ~walk[w].skipped /\ ~TokenLost(w, c)
      /\ pc \in {"list", "answer"} /\ next \in found \cup {None}
  BY <1>3
<1>7. /\ next = None => page = found
      /\ pc = "list" => walk[w].todo # {c}
      /\ pc = "answer" => walk[w].todo = {c} \/ next # None
  <2>1. page # found => next # None
    BY <1>1, <1>3, NoneAssumption
  <2> QED
    BY <2>1
<1>8. DebtInv(new, There)
  <2> HIDE DEF found, page, skipped, next, pc
  <2>1. found = Found(w, c)
    BY DEF found, Found
  <2>2. page = PageOf(w, c)
    BY <2>1 DEF page, PageOf
  <2>3. skipped \in BOOLEAN /\ (~skipped => ~walk[w].skipped /\ ~TokenLost(w, c))
    BY DEF skipped
  <2>4. DebtInv(Dealt(w, c, next, pc, skipped), There)
    BY <1>4, <1>6, <1>7, <2>1, <2>2, <2>3, ListedPays
  <2> QED
    BY <2>2, <2>4 DEF Dealt
<1> QED
  BY <1>5, <1>8

LEMMA VolumesPay ==
    ASSUME DebtsInv, NEW w \in Walkers, walk[w].pc = "list", walk[w].kind = "volumes",
           NEW c \in walk[w].todo
    PROVE  LET found == After(Of(c), walk[w].token)
               page == FirstOf(found, walk[w].max)
           IN DebtInv([Listed(w, c, page) EXCEPT
                         !.next = IF page = found THEN None ELSE Greatest(page)], There)
<1> DEFINE found == After(Of(c), walk[w].token)
           page == FirstOf(found, walk[w].max)
           skipped == walk[w].skipped \/ TokenLost(w, c)
           next == IF page = found THEN None ELSE Greatest(page)
           pc == IF walk[w].todo = {c} THEN "answer" ELSE "list"
           new == [walk[w] EXCEPT !.page = @ \cup page, !.todo = @ \ {c}, !.pc = pc,
                     !.next = next, !.skipped = skipped]
<1>0. c \in Configs /\ walk[w] \in Walks
  BY DEF DebtsInv, WalksInv, WalkInv, Walks
<1>1. found \in SUBSET Objects /\ walk[w].max \in Nat
  BY <1>0, FoundAfter, OfObjects, WalkTypes DEF DebtsInv, After
<1>2. ASSUME page # found
      PROVE  walk[w].max # 0 /\ next \in page
  <2>1. walk[w].max # 0 /\ page \in SUBSET Objects /\ found # {}
    BY <1>1, <1>2 DEF FirstOf
  <2>2. Least(found) \in found /\ \A p \in found : Least(found).n <= p.n
    BY <1>1, <2>1, LeastExists
  <2>3. Below(found, Least(found)) = {}
    BY <1>1, <2>2, NumbersNat DEF Below
  <2>4. Least(found) \in page
    BY <1>1, <2>1, <2>2, <2>3, FS_EmptySet DEF FirstOf
  <2> QED
    BY <1>2, <2>1, <2>4, GreatestExists
<1>3. page \subseteq found
  BY DEF FirstOf
<1>4. next # None => walk[w].max # 0 /\ \A o \in found \ page : ~Passed(walk[w], o, next)
  <2> SUFFICES ASSUME next # None, NEW o \in found \ page PROVE ~Passed(walk[w], o, next)
    BY <1>2
  <2>1. next \in page
    BY <1>2
  <2>2. next.n < o.n
    BY <1>1, <2>1, PageFirst
  <2>3. o.n \in Nat /\ next.n \in Nat
    BY <1>1, <1>3, <2>1, NumbersNat
  <2> HIDE DEF next
  <2> QED
    BY <2>2, <2>3 DEF Passed
<1>5. [Listed(w, c, page) EXCEPT !.next = next] = new
  BY <1>0 DEF Listed, Walks
<1>6. pc \in {"list", "answer"} /\ next \in found \cup {None}
  BY <1>2, <1>3
<1>7. next = None => page = found
  <2>1. page # found => next \in Objects
    BY <1>1, <1>2, <1>3
  <2> QED
    BY <2>1, NoneAssumption
<1>8. /\ pc = "list" => walk[w].todo # {c}
      /\ pc = "answer" => walk[w].todo = {c}
  OBVIOUS
<1>9. DebtInv(new, There)
  <2> HIDE DEF found, page, skipped, next, pc
  <2>1. found = Found(w, c)
    BY DEF found, Found
  <2>2. page = PageOf(w, c)
    BY <2>1 DEF page, PageOf
  <2>3. skipped \in BOOLEAN /\ (~skipped => ~walk[w].skipped /\ ~TokenLost(w, c))
    BY DEF skipped
  <2>4. DebtInv(Dealt(w, c, next, pc, skipped), There)
    BY <1>4, <1>6, <1>7, <1>8, <2>1, <2>2, <2>3, ListedPays
  <2> QED
    BY <2>2, <2>4 DEF Dealt
<1> QED
  BY <1>5, <1>9

\* Nothing is promised of a walk that skipped an entry.
LEMMA SkippedPays ==
    ASSUME DebtsInv, NEW w \in Walkers, walk[w].pc = "list", NEW c \in walk[w].todo
    PROVE  /\ DebtInv(Skipped(w, c), There)
           /\ DebtInv([Skipped(w, c) EXCEPT !.next = None], There)
<1>0. walk[w] \in Walks /\ DebtInv(walk[w], There)
  BY DEF DebtsInv, WalksInv, WalkInv
<1> DEFINE Gave(r) == /\ r.skipped /\ r.throughout = walk[w].throughout
                      /\ r.asked = walk[w].asked /\ r.kind = walk[w].kind
                      /\ r.token = walk[w].token /\ r.pc \in {"list", "answer"}
<1>1. Gave(Skipped(w, c)) /\ Gave([Skipped(w, c) EXCEPT !.next = None])
  BY <1>0 DEF Skipped, Listed, Walks
<1>2. ASSUME NEW r, Gave(r) PROVE DebtInv(r, There)
  BY <1>0, <1>2 DEF DebtInv
<1> HIDE DEF Gave
<1> QED
  BY <1>1, <1>2

LEMMA ErrorPays ==
    ASSUME DebtsInv, NEW w \in Walkers, walk[w].pc \in {"list", "answer"}
    PROVE  DebtInv(Error(w), There)
<1> DEFINE r == walk[w]
           new == Error(w)
<1>0. WalkInv(r) /\ r \in Walks /\ DebtInv(r, There)
  BY DEF DebtsInv, WalksInv, WalkInv
<1>1. /\ new.kind = r.kind /\ new.pc = "ask" /\ new.asked = r.asked /\ new.max = r.max
      /\ new.token = r.token /\ new.page = {} /\ new.returned = r.returned
      /\ new.skipped = r.skipped /\ new.throughout = r.throughout
  BY <1>0 DEF Walks, Error
<1>2. ASSUME NEW o \in r.throughout, Shown(r, o) \/ Owed(r, o)
      PROVE  Shown(new, o) \/ Owed(new, o)
  <2>1. CASE o \in r.returned
    BY <1>1, <2>1 DEF Shown
  <2>2. CASE r.token = None
    BY <1>1, <2>2 DEF Owed, Ahead
  <2>3. CASE r.token # None /\ o \notin r.returned
    <3>1. o.config = r.token.config /\ ~Passed(r, o, r.token)
      <4>1. CASE o \in r.page
        BY <1>0, <2>3, <4>1 DEF WalkInv
      <4>2. CASE o \notin r.page /\ r.pc = "list"
        BY <1>2, <2>3, <4>2 DEF Shown, Owed, Ahead
      <4>3. CASE o \notin r.page /\ r.pc = "answer"
        <5>1. r.next # None /\ o.config = r.next.config /\ ~Passed(r, o, r.next)
          BY <1>2, <2>3, <4>3 DEF Shown, Owed, Ahead
        <5>2. r.next.config = r.token.config /\ r.token.n <= r.next.n
          BY <1>0, <2>3, <5>1 DEF WalkInv
        <5>3. o \in Objects /\ r.next \in Objects /\ r.token \in Objects
          BY <1>0, <2>3, <5>1 DEF Walks
        <5>4. o.n \in Nat /\ r.next.n \in Nat /\ r.token.n \in Nat
          BY <5>3, NumbersNat
        <5> QED
          BY <5>1, <5>2, <5>4 DEF Passed
      <4> QED
        BY <4>1, <4>2, <4>3
    <3>2. ~Passed(new, o, r.token)
      BY <1>1, <3>1 DEF Passed
    <3> HIDE DEF new
    <3> QED
      BY <1>1, <3>1, <3>2 DEF Owed, Ahead
  <2> QED
    BY <2>1, <2>2, <2>3
<1>3. OneEntry(new) = OneEntry(r)
  BY <1>1 DEF OneEntry
<1> HIDE DEF new
<1>4. DebtInv(new, There)
  BY <1>0, <1>1, <1>2, <1>3 DEF DebtInv
<1> QED
  BY <1>4 DEF new

LEMMA AnswerPays ==
    ASSUME DebtsInv, NEW w \in Walkers, walk[w].pc = "answer"
    PROVE  DebtInv([walk[w] EXCEPT !.pc = IF walk[w].next = None THEN "done" ELSE "ask",
                      !.token = walk[w].next, !.returned = @ \cup walk[w].page,
                      !.page = {}, !.todo = {}, !.next = None], There)
<1> DEFINE r == walk[w]
           pc == IF r.next = None THEN "done" ELSE "ask"
           new == [r EXCEPT !.pc = pc, !.token = r.next, !.returned = @ \cup r.page,
                     !.page = {}, !.todo = {}, !.next = None]
<1>0. WalkInv(r) /\ r \in Walks /\ DebtInv(r, There)
  BY DEF DebtsInv, WalksInv, WalkInv
<1>1. /\ new.kind = r.kind /\ new.pc = pc /\ new.asked = r.asked /\ new.max = r.max
      /\ new.token = r.next /\ new.page = {} /\ new.returned = r.returned \cup r.page
      /\ new.skipped = r.skipped /\ new.throughout = r.throughout
  BY <1>0 DEF Walks
<1>2. ASSUME NEW o \in r.throughout, Shown(r, o) \/ Owed(r, o)
      PROVE  Shown(new, o) \/ Owed(new, o)
  <2>1. CASE Shown(r, o)
    BY <1>1, <2>1 DEF Shown
  <2>2. CASE Owed(r, o)
    <3>1. r.next # None /\ Ahead(r, o, r.next)
      BY <2>2 DEF Owed
    <3>2. Ahead(new, o, r.next)
      BY <1>1, <3>1 DEF Ahead, Passed
    <3> HIDE DEF new
    <3> QED
      BY <1>1, <3>1, <3>2 DEF Owed
  <2> QED
    BY <1>2, <2>1, <2>2
<1>3. OneEntry(new) = OneEntry(r)
  BY <1>1 DEF OneEntry
<1>4. new.kind = "one" /\ new.pc \in {"ask", "list", "answer"} => new.throughout \subseteq {new.token}
  BY <1>0, <1>1 DEF WalkInv
<1> HIDE DEF new
<1>5. DebtInv(new, There)
  BY <1>0, <1>1, <1>2, <1>3, <1>4 DEF DebtInv
<1> QED
  BY <1>5 DEF new

LEMMA BeginPays ==
    ASSUME NEW r, r.pc = "ask", r.throughout \subseteq There,
           \A o \in r.throughout : o.config \in r.asked,
           IF r.kind = "one" THEN r.throughout \subseteq {r.token} ELSE r.token = None
    PROVE  DebtInv(r, There)
<1>1. ASSUME NEW o \in r.throughout PROVE Ahead(r, o, r.token)
  <2>1. CASE r.kind = "one"
    <3>1. o = r.token /\ o \in Objects
      BY <2>1, ThereObjects
    <3>2. ~(o.n < o.n)
      BY <3>1, NumbersNat
    <3> QED
      BY <2>1, <3>1, <3>2 DEF Ahead, Passed
  <2>2. CASE r.kind # "one"
    BY <2>2 DEF Ahead
  <2> QED
    BY <2>1, <2>2
<1> QED
  BY <1>1 DEF DebtInv, Owed

LEMMA ListCallPays ==
    ASSUME DebtsInv, NEW w \in Walkers, walk[w].pc = "ask"
    PROVE  DebtInv([walk[w] EXCEPT !.pc = "list", !.todo = walk[w].asked, !.page = {},
                      !.next = None], There)
<1> DEFINE r == walk[w]
           new == [r EXCEPT !.pc = "list", !.todo = r.asked, !.page = {}, !.next = None]
<1>0. WalkInv(r) /\ r \in Walks /\ DebtInv(r, There)
  BY DEF DebtsInv, WalksInv, WalkInv
<1>1. /\ new.kind = r.kind /\ new.pc = "list" /\ new.asked = r.asked /\ new.max = r.max
      /\ new.token = r.token /\ new.page = {} /\ new.returned = r.returned
      /\ new.todo = r.asked
      /\ new.skipped = r.skipped /\ new.throughout = r.throughout
  BY <1>0 DEF Walks
<1>2. r.page = {}
  BY <1>0 DEF WalkInv
<1>3. \A o \in r.throughout : Ahead(new, o, r.token) = Ahead(r, o, r.token)
  BY <1>1 DEF Ahead, Passed
<1>4. OneEntry(new) = OneEntry(r)
  BY <1>1 DEF OneEntry
<1> HIDE DEF new
<1>5. ASSUME OneEntry(r), ~r.skipped, NEW o \in r.throughout
      PROVE  Shown(new, o) \/ Owed(new, o)
  BY <1>0, <1>1, <1>2, <1>3, <1>5 DEF DebtInv, Shown, Owed
<1>6. DebtInv(new, There)
  BY <1>0, <1>1, <1>4, <1>5 DEF DebtInv
<1> QED
  BY <1>6 DEF new

LEMMA SinglePays ==
    ASSUME DebtsInv, NEW w \in Walkers, Listing(w, "one")
    PROVE  DebtInv([walk[w] EXCEPT !.pc = "answer", !.todo = {},
                      !.page = There \cap {walk[w].token}], There)
<1> DEFINE r == walk[w]
           page == There \cap {r.token}
           new == [r EXCEPT !.pc = "answer", !.todo = {}, !.page = page]
<1>0. WalkInv(r) /\ r \in Walks /\ r.kind = "one" /\ r.pc = "list" /\ DebtInv(r, There)
  BY DEF DebtsInv, WalksInv, WalkInv, Listing
<1>1. /\ new.kind = r.kind /\ new.asked = r.asked /\ new.token = r.token
      /\ new.page = page /\ new.throughout = r.throughout
  BY <1>0 DEF Walks
<1> HIDE DEF new
<1>2. r.throughout \subseteq page
  BY <1>0 DEF DebtInv
<1>3. DebtInv(new, There)
  BY <1>0, <1>1, <1>2 DEF DebtInv, Shown
<1> QED
  BY <1>3 DEF new

LEMMA NoWalkPays == \A S : DebtInv(NoWalk, S)
BY DEF DebtInv, NoWalk

LEMMA PutPays ==
    ASSUME DebtsInv, NEW w \in Walkers, NEW local, DebtInv(local, There),
           walk' = [walk EXCEPT ![w] = local], UNCHANGED <<entries, object>>
    PROVE  \A x \in Walkers : DebtInv(walk'[x], There')
<1>1. There' = There
  BY DEF There
<1> QED
  BY <1>1 DEF DebtsInv, WalksInv

LEMMA StepsPay ==
    ASSUME DebtsInv, NEW w \in Walkers, WalkStep(w)
    PROVE  \A x \in Walkers : DebtInv(walk'[x], There')
<1>0. WalkInv(walk[w]) /\ WalksInv
  BY DEF DebtsInv, WalksInv
<1>1. CASE ListCall(w)
  <2>1. walk' = [walk EXCEPT ![w] = [walk[w] EXCEPT !.pc = "list", !.todo = walk[w].asked,
                                       !.page = {}, !.next = None]]
    BY <1>0, <1>1 DEF ListCall, WalksInv
  <2> QED
    BY <1>1, <2>1, ListCallPays, PutPays DEF ListCall
<1>2. CASE Answer(w)
  <2>1. CASE Refused(w)
    BY <1>2, <2>1, NoWalkPays, PutPays DEF Answer, Put
  <2>2. CASE ~Refused(w)
    BY <1>2, <2>2, AnswerPays, PutPays DEF Answer, Put
  <2> QED
    BY <2>1, <2>2
<1>3. CASE GroupSnapshots(w)
  <2>1. PICK c \in walk[w].todo : Put(w, Page(w, c))
    BY <1>3 DEF GroupSnapshots
  <2>2. DebtInv(Page(w, c), There)
    BY <1>3, PagePays DEF GroupSnapshots, Listing
  <2> QED
    BY <2>1, <2>2, PutPays DEF Put
<1>4. CASE VolumeSnapshots(w)
  <2>1. ASSUME NEW c \in walk[w].asked PROVE DebtInv(Page(w, c), There)
    BY <1>0, <1>4, PagePays DEF VolumeSnapshots, Listing, WalkInv
  <2>2. DebtInv(Error(w), There)
    BY <1>4, ErrorPays DEF VolumeSnapshots, Listing
  <2>3. ASSUME NEW d \in walk[w].todo PROVE DebtInv(Skipped(w, d), There)
    BY <1>4, SkippedPays DEF VolumeSnapshots, Listing
  <2>4. \E local : DebtInv(local, There) /\ Put(w, local)
    BY <1>4, <2>1, <2>2, <2>3 DEF VolumeSnapshots
  <2> QED
    BY <2>4, PutPays DEF Put
<1>5. CASE SingleSnapshot(w)
  BY <1>5, SinglePays, PutPays DEF SingleSnapshot, Put
<1>6. CASE EntryVolumes(w)
  <2>1. PICK c \in walk[w].todo :
          LET found == After(Of(c), walk[w].token)
              page == FirstOf(found, walk[w].max)
          IN Put(w, [Listed(w, c, page) EXCEPT
                       !.next = IF page = found THEN None ELSE Greatest(page)])
    BY <1>6 DEF EntryVolumes
  <2>2. walk[w].pc = "list" /\ walk[w].kind = "volumes"
    BY <1>6 DEF EntryVolumes, Listing
  <2> QED
    BY <2>1, <2>2, VolumesPay, PutPays DEF Put
<1> QED
  BY <1>1, <1>2, <1>3, <1>4, <1>5, <1>6 DEF WalkStep

LEMMA FaultsPay ==
    ASSUME DebtsInv, NEW w \in Walkers,
           \/ ResolveNotFound(w) \/ GroupSnapshotsPanics(w)
           \/ EntryVolumesFails(w) \/ SnapshotsFail(w)
    PROVE  \A x \in Walkers : DebtInv(walk'[x], There')
<1>1. CASE ResolveNotFound(w)
  <2>1. CASE walk[w].kind = "volumes"
    BY <1>1, <2>1, ErrorPays, PutPays DEF ResolveNotFound, Put
  <2>2. CASE walk[w].kind # "volumes"
    <3>1. PICK c \in walk[w].todo : Put(w, Skipped(w, c))
      BY <1>1, <2>2 DEF ResolveNotFound
    <3>2. DebtInv(Skipped(w, c), There)
      BY <1>1, SkippedPays DEF ResolveNotFound
    <3> QED
      BY <3>1, <3>2, PutPays DEF Put
  <2> QED
    BY <2>1, <2>2
<1>2. CASE GroupSnapshotsPanics(w)
  <2>1. There' = There
    BY <1>2 DEF GroupSnapshotsPanics, There
  <2> QED
    BY <1>2, <2>1, ErrorPays DEF GroupSnapshotsPanics, DebtsInv
<1>3. CASE EntryVolumesFails(w)
  <2>1. PICK c \in walk[w].todo : Put(w, [Skipped(w, c) EXCEPT !.next = None])
    BY <1>3 DEF EntryVolumesFails
  <2>2. DebtInv([Skipped(w, c) EXCEPT !.next = None], There)
    BY <1>3, SkippedPays DEF EntryVolumesFails, Listing
  <2> QED
    BY <2>1, <2>2, PutPays DEF Put
<1>4. CASE SnapshotsFail(w)
  BY <1>4, ErrorPays, PutPays DEF SnapshotsFail, Put
<1> QED
  BY <1>1, <1>2, <1>3, <1>4

LEMMA DebtsStep == DebtsInv /\ [Next]_vars => DebtsInv'
<1> SUFFICES ASSUME DebtsInv, [Next]_vars
             PROVE  \A x \in Walkers : DebtInv(walk'[x], There')
  BY WalksStep DEF DebtsInv
<1>0. WalksInv /\ \A x \in Walkers : walk[x] \in Walks /\ DebtInv(walk[x], There)
  BY DEF DebtsInv, WalksInv, WalkInv
<1>1. ASSUME NEW o \in Objects, Create(o) PROVE \A x \in Walkers : DebtInv(walk'[x], There')
  <2>1. walk' = walk /\ There \subseteq There'
    BY <1>0, <1>1 DEF Create, There, WalksInv
  <2> QED
    BY <1>0, <2>1 DEF DebtInv
<1>2. ASSUME NEW o \in Objects, Destroy(o) PROVE \A x \in Walkers : DebtInv(walk'[x], There')
  <2>1. There \ {o} \subseteq There'
    BY <1>0, <1>2 DEF Destroy, There, WalksInv
  <2> SUFFICES ASSUME NEW x \in Walkers PROVE DebtInv(walk'[x], There')
    OBVIOUS
  <2> DEFINE r == walk[x]
             new == walk'[x]
  <2>2. new = [r EXCEPT !.throughout = @ \ {o}]
    BY <1>2 DEF Destroy
  <2>3. /\ new.kind = r.kind /\ new.pc = r.pc /\ new.asked = r.asked /\ new.max = r.max
        /\ new.token = r.token /\ new.todo = r.todo /\ new.page = r.page /\ new.next = r.next
        /\ new.returned = r.returned /\ new.skipped = r.skipped
        /\ new.throughout = r.throughout \ {o}
    BY <1>0, <2>2 DEF Walks
  <2> HIDE DEF new
  <2>4. \A p \in r.throughout : Shown(new, p) = Shown(r, p) /\ Owed(new, p) = Owed(r, p)
    BY <2>3 DEF Shown, Owed, Ahead, Passed
  <2>5. OneEntry(new) = OneEntry(r)
    BY <2>3 DEF OneEntry
  <2>6. DebtInv(r, There)
    BY <1>0
  <2>7. DebtInv(new, There')
    BY <2>1, <2>3, <2>4, <2>5, <2>6 DEF DebtInv
  <2> QED
    BY <2>7 DEF new
<1>3. ASSUME NEW w \in Walkers, Begin(w) PROVE \A x \in Walkers : DebtInv(walk'[x], There')
  <2>1. PICK kind \in {"all", "volumes", "volume"}, asked \in SUBSET Configs, max \in PageSizes :
          Asks(w, kind, asked, max)
    BY <1>0, <1>3 DEF Begin, WalksInv
  <2> DEFINE new == [NoWalk EXCEPT !.kind = kind, !.pc = "ask", !.asked = asked, !.max = max,
                       !.throughout = {o \in There : o.config \in asked}]
  <2>2. /\ new.kind = kind /\ new.pc = "ask" /\ new.asked = asked /\ new.token = None
        /\ new.throughout = {o \in There : o.config \in asked}
    BY DEF NoWalk
  <2>3. walk' = [walk EXCEPT ![w] = new] /\ UNCHANGED <<entries, object>>
    BY <2>1 DEF Asks
  <2> HIDE DEF new
  <2>4. DebtInv(new, There)
    BY <2>2, BeginPays
  <2> QED
    BY <2>3, <2>4, PutPays
<1>4. ASSUME NEW w \in Walkers, NEW o \in Objects, BeginOne(w, o)
      PROVE  \A x \in Walkers : DebtInv(walk'[x], There')
  <2> DEFINE new == [NoWalk EXCEPT !.kind = "one", !.pc = "ask", !.asked = {o.config},
                       !.token = o, !.throughout = There \cap {o}]
  <2>2. /\ new.kind = "one" /\ new.pc = "ask" /\ new.asked = {o.config} /\ new.token = o
        /\ new.throughout = There \cap {o}
    BY DEF NoWalk
  <2>3. walk' = [walk EXCEPT ![w] = new] /\ UNCHANGED <<entries, object>>
    BY <1>4 DEF BeginOne
  <2> HIDE DEF new
  <2>4. DebtInv(new, There)
    BY <2>2, BeginPays
  <2> QED
    BY <2>3, <2>4, PutPays
<1>5. CASE UNCHANGED vars
  <2>1. walk' = walk /\ There' = There
    BY <1>5 DEF vars, There
  <2> QED
    BY <1>0, <2>1
<1>6. CASE Next
  BY <1>1, <1>2, <1>3, <1>4, <1>6, StepsPay, FaultsPay DEF Next
<1> QED
  BY <1>5, <1>6

\* A walk of one entry, or without pages, that ends has shown all that was there from its
\* beginning to its end (CS 1106-1130, 1219-1243, 1296-1306), unless it skipped an entry.
THEOREM ListingComplete == Spec => []WalksAreComplete
<1>1. Init => DebtsInv
  <2> SUFFICES ASSUME Init PROVE DebtsInv
    OBVIOUS
  <2>1. \A w \in Walkers : walk[w] = NoWalk
    BY DEF Init
  <2> QED
    BY <2>1, WalksInit, NoWalkPays DEF DebtsInv
<1>2. DebtsInv => WalksAreComplete
  <2> SUFFICES ASSUME DebtsInv, NEW w \in Walkers, walk[w].pc = "done", ~walk[w].skipped,
                      walk[w].max = 0 \/ Cardinality(walk[w].asked) = 1,
                      NEW o \in walk[w].throughout
               PROVE  o \in walk[w].returned
    BY DEF WalksAreComplete
  <2>1. Shown(walk[w], o) \/ Owed(walk[w], o)
    BY DEF DebtsInv, DebtInv, OneEntry
  <2>2. walk[w].page = {}
    BY DEF DebtsInv, WalksInv, WalkInv
  <2> QED
    BY <2>1, <2>2 DEF Shown, Owed
<1> QED
  BY <1>1, <1>2, DebtsStep, PTL DEF Spec

=============================================================================
