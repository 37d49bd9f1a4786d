------------------------ MODULE ConfigRefreshProofs ------------------------
(***************************************************************************)
(* What Config.Refresh guarantees when handlers do not overlap, for every  *)
(* file, secret, server and number of edits and failures.                  *)
(***************************************************************************)
EXTENDS ConfigRefresh, TLAPS

(* Handlers of the process run one after the other.  *)
OneAtATime == \A g, h \in Handlers : g = h

----------------------------------------------------------------------------
(* The invariant.                                                          *)

CallStates ==
  [pc : {"idle", "stat", "compare", "read", "parse", "rebuild", "use"},
   server : Servers \cup {Identity}, secret : Secrets \cup {NoSecret}, stat : Nat,
   content : Texts, asked : SUBSET Files]

TypeInv ==
  /\ TypeOK
  /\ call \in [Handlers -> CallStates]
  /\ \A h \in Handlers : call[h].pc = "compare" => call[h].stat >= 1

(* The last change marked as seen is the content of the file.  *)
SeenLast == lastModTime = file.version

(* A handler loads the configuration its request carries, or one the file   *)
(* held since it was asked: the present one, if it is the last seen.        *)
Loads(r) ==
  /\ r.pc = "read" => r.secret = NoSecret
  /\ r.pc = "parse" =>
       IF r.secret # NoSecret THEN temporary /\ r.content = r.secret
       ELSE r.content \in r.asked /\ (SeenLast => r.content = file.content)
  /\ r.pc = "rebuild" =>
       /\ r.server \in Servers /\ Valid(nsMap)
       /\ IF r.secret # NoSecret THEN temporary /\ Agrees(nsMap, r.secret)
          ELSE /\ \E c \in r.asked : Agrees(nsMap, c)
               /\ SeenLast => Agrees(nsMap, file.content)

(* The resolvers of a server that missed nothing are of a content the file  *)
(* held since r was asked.                                                  *)
Recent(r) ==
  r.server \in Servers \ missed => \E c \in r.asked : Agrees(resolvers[r.server], c)

(* A handler that finds nothing changed, or has rebuilt, has good resolvers.*)
Serves(r) ==
  /\ r.pc = "compare" /\ lastModTime = r.stat /\ ~temporary => Recent(r)
  /\ r.pc = "use" =>
       IF r.secret # NoSecret THEN r.server \in Servers => Agrees(resolvers[r.server], r.secret)
       ELSE Recent(r)

(* A handler that loads the file has taken the change from the other servers.*)
Takes(r) ==
  r.pc \in {"read", "parse", "rebuild"} /\ r.secret = NoSecret =>
    \A s \in Servers : s # r.server => s \in missed

HandlersInv ==
  \A h \in Handlers :
    /\ call[h].pc # "idle" => up /\ file.content \in call[h].asked
    /\ Loads(call[h]) /\ Serves(call[h]) /\ Takes(call[h])

None(pcs) == \A h \in Handlers : call[h].pc \notin pcs

(* What is in memory, and what the resolvers were built from, when no       *)
(* handler is at work on them.                                              *)
Loaded ==
  up /\ ~temporary /\ ~unread /\ SeenLast /\ None({"read", "parse"})
  => Agrees(nsMap, file.content)

Resolved ==
  up /\ ~temporary /\ SeenLast /\ None({"read", "parse", "rebuild"})
  => \A s \in Servers \ missed : Agrees(resolvers[s], file.content)

RefreshInv == HandlersInv /\ Loaded /\ Resolved

----------------------------------------------------------------------------
(* Contents.                                                               *)

LEMMA MergeAgrees ==
  ASSUME NEW old \in Contents, NEW d \in Texts
  PROVE  Merge(old, d) \in Contents /\ Agrees(Merge(old, d), d)
BY DEF Merge, Contents, Texts, Agrees

LEMMA SelfAgrees == ASSUME NEW d PROVE Agrees(d.entries, d)
BY DEF Agrees

LEMMA TextEntries == ASSUME NEW d \in Files PROVE d \in Texts /\ d.entries \in Contents
BY ContentsAssumption DEF Texts

LEMMA ValidContents ==
  ASSUME NEW c \in Contents, Valid(c)
  PROVE  c \in [Entries -> Addresses \cup {Absent}]
BY DEF Contents, Valid

LEMMA AcceptedIsValid ==
  ASSUME NEW c \in Contents, "accepted" \in Validate(c)
  PROVE  Valid(c)
BY DEF Validate

LEMMA IdleType == Idle \in CallStates /\ Idle.pc = "idle" /\ Idle.stat = 0
BY DEF Idle, CallStates, Contents, Texts

----------------------------------------------------------------------------
(* Types.                                                                  *)

LEMMA TypeInit == Init => TypeInv
<1> SUFFICES ASSUME Init PROVE TypeInv
  OBVIOUS
<1>1. PICK d \in Files : /\ Valid(d.entries)
                         /\ file = [version |-> 1, content |-> d]
                         /\ Load(d, 1)
  BY DEF Init, Accepted
<1>2. d.entries \in Contents /\ d.entries \in [Entries -> Addresses \cup {Absent}]
  BY <1>1, TextEntries, ValidContents
<1>3. resolvers \in [Servers -> [Entries -> Addresses \cup {Absent}]]
  BY <1>1, <1>2 DEF Load
<1>4. /\ file \in [version : 1 .. MaxEdits + 1, content : Files]
      /\ nsMap \in Contents /\ lastModTime \in 1 .. file.version /\ temporary \in BOOLEAN
  <2>1. 1 \in 1 .. MaxEdits + 1
    BY BoundsAssumption
  <2>2. file \in [version : 1 .. MaxEdits + 1, content : Files] /\ file.version = 1
    BY <1>1, <2>1
  <2>3. nsMap = d.entries /\ lastModTime = 1 /\ temporary = FALSE
    BY <1>1 DEF Load
  <2>4. lastModTime \in 1 .. file.version
    BY <2>2, <2>3
  <2> QED
    BY <1>2, <2>2, <2>3, <2>4
<1>5. /\ call = [h \in Handlers |-> Idle]
      /\ up \in BOOLEAN /\ faults \in 0 .. MaxFaults /\ missed \subseteq Servers /\ unread \in BOOLEAN
  <2>1. /\ call = [h \in Handlers |-> Idle]
        /\ up = TRUE /\ faults = 0 /\ missed = {} /\ unread = FALSE
    BY DEF Init
  <2>2. faults \in 0 .. MaxFaults
    BY <2>1, BoundsAssumption
  <2> QED
    BY <2>1, <2>2
<1>6. \A h \in Handlers : call[h] \in CallStates /\ call[h].pc = "idle" /\ call[h].stat = 0
  BY <1>5, IdleType
<1>7. call \in [Handlers -> CallStates]
  BY <1>5, <1>6
<1> QED
  BY <1>3, <1>4, <1>5, <1>6, <1>7 DEF TypeInv, TypeOK, CallStates

(* A handler that changes one record of call.  *)
LEMMA TypeOfCall ==
  ASSUME TypeInv, NEW h \in Handlers, NEW r \in CallStates,
         call' = [call EXCEPT ![h] = r], r.stat <= file.version, r.pc = "compare" => r.stat >= 1,
         file' = file
  PROVE  /\ call' \in [Handlers -> CallStates]
         /\ \A g \in Handlers :
              /\ call'[g].stat \in 0 .. file'.version
              /\ call'[g].pc = "compare" => call'[g].stat >= 1
<1>1. file.version \in Nat
  BY DEF TypeInv, TypeOK
<1>2. ASSUME NEW g \in Handlers
      PROVE  call'[g] = IF g = h THEN r ELSE call[g]
  BY DEF TypeInv
<1>3. ASSUME NEW g \in Handlers
      PROVE  call[g].stat \in 0 .. file.version /\ (call[g].pc = "compare" => call[g].stat >= 1)
  BY DEF TypeInv, TypeOK
<1>4. r.stat \in Nat
  BY DEF CallStates
<1>5. call' \in [Handlers -> CallStates]
  BY DEF TypeInv
<1> QED
  BY <1>1, <1>2, <1>3, <1>4, <1>5

(* Actions that leave the file alone and move one handler.  *)
LEMMA TypeOfMove ==
  ASSUME TypeInv, NEW h \in Handlers, NEW r \in CallStates,
         call' = [call EXCEPT ![h] = r], r.stat <= file.version, r.pc = "compare" => r.stat >= 1,
         file' = file, nsMap' \in Contents, lastModTime' \in 1 .. file.version,
         temporary' \in BOOLEAN, resolvers' \in [Servers -> [Entries -> Addresses \cup {Absent}]],
         up' \in BOOLEAN, faults' \in 0 .. MaxFaults, missed' \subseteq Servers, unread' \in BOOLEAN
  PROVE  TypeInv'
<1>1. /\ call' \in [Handlers -> CallStates]
      /\ \A g \in Handlers :
           /\ call'[g].stat \in 0 .. file'.version
           /\ call'[g].pc = "compare" => call'[g].stat >= 1
  BY TypeOfCall
<1>2. \A g \in Handlers : call'[g] \in CallStates
  BY <1>1
<1>3. file' \in [version : 1 .. MaxEdits + 1, content : Files]
  BY DEF TypeInv, TypeOK
<1> QED
  BY <1>1, <1>2, <1>3 DEF TypeInv, TypeOK, CallStates

LEMMA Fields ==
  ASSUME TypeInv
  PROVE  /\ file.version \in Nat /\ file.version >= 1 /\ file.content \in Files
         /\ file.content \in Texts /\ file.content.entries \in Contents /\ faults \in Nat
         /\ nsMap \in Contents /\ lastModTime \in 1 .. file.version /\ temporary \in BOOLEAN
         /\ resolvers \in [Servers -> [Entries -> Addresses \cup {Absent}]]
         /\ up \in BOOLEAN /\ faults \in 0 .. MaxFaults /\ missed \subseteq Servers
         /\ unread \in BOOLEAN
         /\ \A h \in Handlers :
              /\ call[h] \in CallStates
              /\ call[h].stat \in Nat /\ call[h].stat <= file.version
              /\ call[h].pc = "compare" => call[h].stat >= 1
BY TextEntries, BoundsAssumption DEF TypeInv, TypeOK

LEMMA TypeNext ==
  ASSUME TypeInv, HandlersInv, Next
  PROVE  TypeInv'
<1> USE Fields
<1>1. ASSUME NEW c \in Files, EditFile(c) PROVE TypeInv'
  <2> DEFINE Held(h) == IF call[h].pc = "idle" THEN Idle ELSE [call[h] EXCEPT !.asked = @ \cup {c}]
  <2>1. /\ call' = [h \in Handlers |-> Held(h)]
        /\ file' = [version |-> file.version + 1, content |-> c]
        /\ file.version <= MaxEdits
    BY <1>1 DEF EditFile
  <2>2. ASSUME NEW h \in Handlers
        PROVE  /\ Held(h) \in CallStates /\ Held(h).stat <= file.version + 1
               /\ Held(h).pc = "compare" => Held(h).stat >= 1
    BY IdleType DEF CallStates
  <2>3. /\ call' \in [Handlers -> CallStates]
        /\ \A h \in Handlers : call'[h].stat <= file.version + 1 /\ (call'[h].pc = "compare" => call'[h].stat >= 1)
    <3> HIDE DEF Held
    <3> QED
      BY <2>1, <2>2
  <2>4. \A h \in Handlers : call'[h] \in CallStates
    BY <2>3
  <2>5. file.version + 1 \in 1 .. MaxEdits + 1
    BY <2>1, BoundsAssumption
  <2>6. file' \in [version : 1 .. MaxEdits + 1, content : Files] /\ file'.version = file.version + 1
    BY <2>1, <2>5
  <2>7. UNCHANGED <<nsMap, lastModTime, temporary, resolvers, up, faults, missed, unread>>
    BY <1>1 DEF EditFile, Config, Observed
  <2>8. lastModTime' \in 1 .. file'.version
    BY <2>6, <2>7
  <2>9. \A h \in Handlers : call'[h].stat \in 0 .. file'.version
    BY <2>3, <2>4, <2>6 DEF CallStates
  <2> QED
    BY <2>3, <2>4, <2>6, <2>7, <2>8, <2>9 DEF TypeInv, TypeOK, CallStates
<1>2. ASSUME NEW h \in Handlers, NEW s \in Servers \cup {Identity}, NEW x \in Secrets \cup {NoSecret},
             Request(h, s, x)
      PROVE  TypeInv'
  <2> DEFINE r == [Idle EXCEPT !.pc = "stat", !.server = s, !.secret = x, !.asked = {file.content}]
  <2>1. r \in CallStates /\ r.pc = "stat" /\ r.stat = 0
    BY IdleType DEF Idle, CallStates
  <2>2. call' = [call EXCEPT ![h] = r] /\ UNCHANGED <<file, Config, up, faults, Observed>>
    BY <1>2 DEF Request
  <2> HIDE DEF r
  <2> QED
    <3>1. UNCHANGED <<file, nsMap, lastModTime, temporary, resolvers, up, faults, missed, unread>>
      BY <2>2 DEF Config, Observed
    <3>2. r.stat <= file.version /\ (r.pc = "compare" => r.stat >= 1)
      BY <2>1
    <3> QED
      BY <2>1, <2>2, <3>1, <3>2, TypeOfMove
<1>3. ASSUME NEW h \in Handlers, Probe(h) PROVE TypeInv'
  BY <1>2, <1>3 DEF Probe
<1>4. ASSUME NEW h \in Handlers, Stat(h) PROVE TypeInv'
  <2> DEFINE r == [call[h] EXCEPT !.pc = "compare", !.stat = file.version]
  <2>1. r \in CallStates /\ r.stat = file.version
    BY DEF CallStates
  <2>2. call' = [call EXCEPT ![h] = r] /\ UNCHANGED <<file, Config, up, faults, Observed>>
    BY <1>4 DEF Stat, CallStates
  <2> HIDE DEF r
  <2> QED
    <3>1. UNCHANGED <<file, nsMap, lastModTime, temporary, resolvers, up, faults, missed, unread>>
      BY <2>2 DEF Config, Observed
    <3>2. r.stat <= file.version /\ (r.pc = "compare" => r.stat >= 1)
      BY <2>1
    <3> QED
      BY <2>1, <2>2, <3>1, <3>2, TypeOfMove
<1>5. ASSUME NEW h \in Handlers, NEW pc \in {"read", "rebuild", "use"}, Goto(h, pc)
      PROVE  \E r \in CallStates : /\ call' = [call EXCEPT ![h] = r]
                                   /\ r.stat <= file.version /\ r.pc # "compare"
  <2> DEFINE r == [call[h] EXCEPT !.pc = pc]
  <2>1. r \in CallStates /\ r.pc = pc /\ r.stat = call[h].stat
    BY DEF CallStates
  <2>2. call' = [call EXCEPT ![h] = r]
    BY <1>5 DEF Goto
  <2> HIDE DEF r
  <2> QED
    BY <2>1, <2>2
<1>6. ASSUME NEW h \in Handlers, Return(h)
      PROVE  \E r \in CallStates : /\ call' = [call EXCEPT ![h] = r]
                                   /\ r.stat <= file.version /\ r.pc # "compare"
  <2>1. call' = [call EXCEPT ![h] = Idle]
    BY <1>6 DEF Return
  <2>2. Idle.stat <= file.version /\ Idle.pc # "compare"
    BY IdleType
  <2> QED
    BY <2>1, <2>2, IdleType
<1>7. ASSUME NEW h \in Handlers, RefreshUnchanged(h) \/ Use(h) PROVE TypeInv'
  BY <1>5, <1>6, <1>7, TypeOfMove DEF RefreshUnchanged, Use, Config, Observed
<1>8. ASSUME NEW h \in Handlers, RefreshFromSecret(h) PROVE TypeInv'
  <2> DEFINE r == [call[h] EXCEPT !.pc = "parse", !.content = call[h].secret]
  <2>1. r \in CallStates /\ r.pc = "parse" /\ r.stat = call[h].stat
    BY <1>8, ContentsAssumption DEF CallStates, RefreshFromSecret
  <2>2. call' = [call EXCEPT ![h] = r]
    BY <1>8 DEF RefreshFromSecret
  <2> HIDE DEF r
  <2> QED
    <3>1. temporary' \in BOOLEAN /\ UNCHANGED <<file, nsMap, lastModTime, resolvers, up, faults, Observed>>
      BY <1>8 DEF RefreshFromSecret
    <3>2. UNCHANGED <<file, nsMap, lastModTime, resolvers, up, faults, missed, unread>>
      BY <3>1 DEF Observed
    <3>3. r.stat <= file.version /\ r.pc # "compare"
      BY <2>1
    <3> QED
      BY <2>1, <2>2, <3>1, <3>2, <3>3, TypeOfMove
<1>9. ASSUME NEW h \in Handlers, RefreshFromFile(h) PROVE TypeInv'
  <2>1. /\ lastModTime' = call[h].stat /\ temporary' = FALSE /\ missed' = Servers \ {call[h].server}
        /\ UNCHANGED <<file, nsMap, resolvers, up, faults, unread>>
        /\ Goto(h, "read") /\ call[h].pc = "compare"
    BY <1>9 DEF RefreshFromFile
  <2>2. lastModTime' \in 1 .. file.version
    BY <2>1
  <2> QED
    BY <1>5, <2>1, <2>2, TypeOfMove
<1>10. ASSUME NEW h \in Handlers, ReadFile(h) PROVE TypeInv'
  <2> DEFINE r == [call[h] EXCEPT !.pc = "parse", !.content = file.content]
  <2>1. r \in CallStates /\ r.pc = "parse" /\ r.stat = call[h].stat
    BY DEF CallStates
  <2>2. call' = [call EXCEPT ![h] = r]
    BY <1>10 DEF ReadFile
  <2> HIDE DEF r
  <2> QED
    BY <1>10, <2>1, <2>2, TypeOfMove DEF ReadFile, Config
<1>11. ASSUME NEW h \in Handlers, CannotRead(h) PROVE TypeInv'
  <2>1. /\ faults' \in 0 .. MaxFaults /\ missed' \subseteq Servers /\ unread' \in BOOLEAN
        /\ Return(h) /\ UNCHANGED <<file, Config, up>>
    BY <1>11, BoundsAssumption DEF CannotRead
  <2> QED
    BY <1>6, <2>1, TypeOfMove DEF Config
<1>12. ASSUME NEW h \in Handlers, Parse(h) PROVE TypeInv'
  <2>1. /\ nsMap' \in Contents /\ missed' \subseteq Servers /\ up' \in BOOLEAN
        /\ UNCHANGED <<file, lastModTime, temporary, resolvers, faults, unread>>
    <3>1. call[h].content \in Texts
      BY DEF CallStates
    <3> QED
      BY <1>12, <3>1, MergeAgrees DEF Parse
  <2>2. CASE call' = [g \in Handlers |-> Idle]
    <3>1. \A g \in Handlers : call'[g] \in CallStates /\ call'[g].pc = "idle" /\ call'[g].stat = 0
      BY <2>2, IdleType
    <3>2. call' \in [Handlers -> CallStates]
      BY <2>2, <3>1
    <3>3. file' \in [version : 1 .. MaxEdits + 1, content : Files]
      BY <2>1 DEF TypeInv, TypeOK
    <3> QED
      BY <2>1, <2>2, <3>1, <3>2, <3>3 DEF TypeInv, TypeOK, CallStates
  <2>3. CASE Goto(h, "use") \/ Goto(h, "rebuild") \/ Return(h)
    BY <1>5, <1>6, <2>1, <2>3, TypeOfMove
  <2> QED
    BY <1>12, <2>2, <2>3 DEF Parse
<1>13. ASSUME NEW h \in Handlers, CannotParse(h) PROVE TypeInv'
  <2>1. call[h].content \in Texts
    BY DEF CallStates
  <2>2. /\ nsMap' \in Contents /\ missed' \subseteq Servers /\ unread' \in BOOLEAN
        /\ Return(h) /\ UNCHANGED <<file, lastModTime, temporary, resolvers, up, faults>>
    BY <1>13, <2>1, MergeAgrees DEF CannotParse
  <2> QED
    BY <1>6, <2>2, TypeOfMove
<1>14. ASSUME NEW h \in Handlers, Rebuild(h) PROVE TypeInv'
  <2>1. nsMap \in [Entries -> Addresses \cup {Absent}]
    BY <1>14, ValidContents DEF Rebuild, HandlersInv, Loads
  <2>2. resolvers' \in [Servers -> [Entries -> Addresses \cup {Absent}]]
    BY <1>14, <2>1 DEF Rebuild
  <2> QED
    BY <1>5, <1>14, <2>2, TypeOfMove DEF Rebuild, Observed
<1>15. ASSUME New PROVE TypeInv'
  <2>1. /\ nsMap' = file.content.entries /\ lastModTime' = file.version /\ temporary' = FALSE
        /\ resolvers' = [s \in Servers |-> file.content.entries]
        /\ up' = TRUE /\ missed' = {} /\ unread' = FALSE
        /\ UNCHANGED <<file, call, faults>> /\ Valid(file.content.entries)
    BY <1>15 DEF New, Accepted
  <2>2. resolvers' \in [Servers -> [Entries -> Addresses \cup {Absent}]]
    BY <2>1, ValidContents
  <2> QED
    <3>1. /\ file' \in [version : 1 .. MaxEdits + 1, content : Files]
          /\ call' \in [Handlers -> CallStates]
          /\ \A h \in Handlers : /\ call'[h] \in CallStates
                               /\ call'[h].stat \in 0 .. file'.version
                               /\ call'[h].pc = "compare" => call'[h].stat >= 1
      BY <2>1 DEF TypeInv, TypeOK
    <3>2. lastModTime' \in 1 .. file'.version /\ faults' \in 0 .. MaxFaults
      BY <2>1
    <3> QED
      BY <2>1, <2>2, <3>1, <3>2 DEF TypeInv, TypeOK, CallStates
<1> QED
  BY <1>1, <1>2, <1>3, <1>4, <1>7, <1>8, <1>9, <1>10, <1>11, <1>12, <1>13, <1>14, <1>15 DEF Next, Handle

----------------------------------------------------------------------------
(* The invariant holds.                                                    *)

LEMMA RefreshInit == Init => RefreshInv
<1> SUFFICES ASSUME Init PROVE RefreshInv
  OBVIOUS
<1>1. PICK d \in Files : file = [version |-> 1, content |-> d] /\ Load(d, 1)
  BY DEF Init
<1>2. /\ file.content = d /\ nsMap = d.entries /\ resolvers = [s \in Servers |-> d.entries]
  BY <1>1 DEF Load
<1>3. \A h \in Handlers : call[h].pc = "idle"
  BY IdleType DEF Init
<1>4. HandlersInv
  BY <1>3 DEF HandlersInv, Loads, Serves, Takes
<1>5. Agrees(nsMap, file.content) /\ \A s \in Servers : Agrees(resolvers[s], file.content)
  BY <1>2, SelfAgrees
<1> QED
  BY <1>4, <1>5 DEF RefreshInv, Loaded, Resolved

(* The fields of the record of a handler that makes a step.  *)
Moves(h, pc) ==
  /\ call'[h].pc = pc /\ call'[h].server = call[h].server
  /\ call'[h].secret = call[h].secret /\ call'[h].asked = call[h].asked

LEMMA Moved ==
  ASSUME TypeInv, NEW h \in Handlers, NEW pc, Goto(h, pc)
  PROVE  Moves(h, pc) /\ call'[h].stat = call[h].stat /\ call'[h].content = call[h].content
<1>1. call[h] \in CallStates
  BY Fields
<1>2. call'[h] = [call[h] EXCEPT !.pc = pc]
  BY DEF Goto, TypeInv
<1> QED
  BY <1>1, <1>2 DEF CallStates, Moves

LEMMA Returned ==
  ASSUME TypeInv, NEW h \in Handlers, Return(h)
  PROVE  call'[h].pc = "idle"
<1>1. call'[h] = Idle
  BY DEF Return, TypeInv
<1> QED
  BY <1>1, IdleType

(* With one handler, what holds of its record holds of all.  *)
LEMMA Alone ==
  ASSUME OneAtATime, NEW h \in Handlers,
         call'[h].pc # "idle" => up' /\ file'.content \in call'[h].asked,
         Loads(call[h])', Serves(call[h])', Takes(call[h])'
  PROVE  HandlersInv'
<1>1. \A g \in Handlers : g = h
  BY DEF OneAtATime
<1> QED
  BY <1>1 DEF HandlersInv

LEMMA IdleGood ==
  ASSUME OneAtATime, NEW h \in Handlers, call'[h].pc = "idle"
  PROVE  HandlersInv'
<1>1. Loads(call[h])' /\ Serves(call[h])' /\ Takes(call[h])'
  BY DEF Loads, Serves, Takes
<1> QED
  BY <1>1, Alone

LEMMA EditKeeps ==
  ASSUME TypeInv, RefreshInv, NEW c \in Files, EditFile(c)
  PROVE  RefreshInv'
<1>1. /\ UNCHANGED <<nsMap, lastModTime, temporary, resolvers, up, missed, unread>>
      /\ file'.version = file.version + 1 /\ file'.content = c
  BY DEF EditFile, Config, Observed
<1>2. lastModTime' # file'.version
  BY <1>1, Fields
<1>3. ASSUME NEW h \in Handlers
      PROVE  /\ call'[h].pc # "idle" => up' /\ file'.content \in call'[h].asked
             /\ Loads(call[h])' /\ Serves(call[h])' /\ Takes(call[h])'
  <2>1. CASE call[h].pc = "idle"
    <3>1. call'[h].pc = "idle"
      BY <2>1, IdleType DEF EditFile
    <3> QED
      BY <3>1 DEF Loads, Serves, Takes
  <2>2. CASE call[h].pc # "idle"
    <3>1. call'[h] = [call[h] EXCEPT !.asked = @ \cup {c}]
      BY <2>2 DEF EditFile
    <3>2. call[h] \in CallStates
      BY Fields
    <3>3. /\ call'[h].pc = call[h].pc /\ call'[h].server = call[h].server
          /\ call'[h].secret = call[h].secret /\ call'[h].stat = call[h].stat
          /\ call'[h].content = call[h].content /\ call'[h].asked = call[h].asked \cup {c}
      BY <3>1, <3>2 DEF CallStates
    <3>4. /\ up /\ Loads(call[h]) /\ Serves(call[h]) /\ Takes(call[h])
      BY <2>2 DEF RefreshInv, HandlersInv
    <3>5. Loads(call[h])'
      BY <1>1, <1>2, <3>3, <3>4 DEF Loads, SeenLast, Valid
    <3>6. Serves(call[h])'
      BY <1>1, <1>2, <3>3, <3>4 DEF Serves, Recent
    <3>7. Takes(call[h])'
      BY <1>1, <3>3, <3>4 DEF Takes
    <3> QED
      BY <1>1, <3>3, <3>4, <3>5, <3>6, <3>7
  <2> QED
    BY <2>1, <2>2
<1>4. HandlersInv'
  BY <1>3 DEF HandlersInv
<1> QED
  BY <1>2, <1>4 DEF RefreshInv, Loaded, Resolved, SeenLast

(* A handler's steps.  *)

LEMMA RequestKeeps ==
  ASSUME OneAtATime, TypeInv, RefreshInv, NEW h \in Handlers,
         NEW s \in Servers \cup {Identity}, NEW x \in Secrets \cup {NoSecret}, Request(h, s, x)
  PROVE  RefreshInv'
<1>1. /\ call'[h].pc = "stat" /\ call'[h].asked = {file.content}
      /\ up /\ call[h].pc = "idle"
      /\ UNCHANGED <<file, nsMap, lastModTime, temporary, resolvers, up, missed, unread>>
  BY DEF Request, Config, Observed, TypeInv, Idle
<1>2. Loads(call[h])' /\ Serves(call[h])' /\ Takes(call[h])'
  BY <1>1 DEF Loads, Serves, Takes
<1>3. HandlersInv'
  BY <1>1, <1>2, Alone
<1>4. \A g \in Handlers : call[g].pc = "idle"
  BY <1>1 DEF OneAtATime
<1> QED
  BY <1>1, <1>3, <1>4 DEF RefreshInv, Loaded, Resolved, SeenLast, None

LEMMA StatKeeps ==
  ASSUME OneAtATime, TypeInv, RefreshInv, NEW h \in Handlers, Stat(h)
  PROVE  RefreshInv'
<1>1. call[h] \in CallStates
  BY Fields
<1>2. /\ call[h].pc = "stat" /\ Moves(h, "compare") /\ call'[h].stat = file.version
      /\ UNCHANGED <<file, nsMap, lastModTime, temporary, resolvers, up, missed, unread>>
  BY <1>1 DEF Stat, Config, Observed, TypeInv, CallStates, Moves
<1>3. \A g \in Handlers : g = h
  BY DEF OneAtATime
<1>4. up /\ file.content \in call[h].asked
  BY <1>2 DEF RefreshInv, HandlersInv
<1>5. ASSUME lastModTime = file.version, ~temporary, NEW s \in Servers \ missed
      PROVE  Agrees(resolvers[s], file.content)
  BY <1>2, <1>3, <1>4, <1>5 DEF RefreshInv, Resolved, SeenLast, None
<1>6. Serves(call[h])'
  BY <1>2, <1>4, <1>5 DEF Serves, Recent, Moves
<1>7. Loads(call[h])' /\ Takes(call[h])'
  BY <1>2 DEF Loads, Takes, Moves
<1>8. HandlersInv'
  BY <1>2, <1>4, <1>6, <1>7, Alone DEF Moves
<1> QED
  BY <1>2, <1>3, <1>8 DEF RefreshInv, Loaded, Resolved, SeenLast, None, Moves

LEMMA UnchangedKeeps ==
  ASSUME OneAtATime, TypeInv, RefreshInv, NEW h \in Handlers, RefreshUnchanged(h)
  PROVE  RefreshInv'
<1>1. /\ call[h].pc = "compare" /\ Moves(h, "use")
      /\ lastModTime = call[h].stat /\ call[h].secret = NoSecret /\ ~temporary
      /\ UNCHANGED <<file, nsMap, lastModTime, temporary, resolvers, up, missed, unread>>
  BY Moved DEF RefreshUnchanged, Changed, Config, Observed
<1>2. up /\ file.content \in call[h].asked /\ Recent(call[h])
  BY <1>1 DEF RefreshInv, HandlersInv, Serves
<1>3. Loads(call[h])' /\ Serves(call[h])' /\ Takes(call[h])'
  BY <1>1, <1>2 DEF Loads, Serves, Takes, Recent, Moves
<1>4. HandlersInv'
  BY <1>1, <1>2, <1>3, Alone DEF Moves
<1>5. \A g \in Handlers : g = h
  BY DEF OneAtATime
<1> QED
  BY <1>1, <1>4, <1>5 DEF RefreshInv, Loaded, Resolved, SeenLast, None, Moves

LEMMA SecretKeeps ==
  ASSUME OneAtATime, TypeInv, RefreshInv, NEW h \in Handlers, RefreshFromSecret(h)
  PROVE  RefreshInv'
<1>1. call[h] \in CallStates
  BY Fields
<1>2. /\ call[h].pc = "compare" /\ Moves(h, "parse") /\ call'[h].content = call[h].secret
      /\ call[h].secret # NoSecret /\ temporary'
      /\ UNCHANGED <<file, up>>
  BY <1>1 DEF RefreshFromSecret, TypeInv, CallStates, Moves
<1>3. up /\ file.content \in call[h].asked
  BY <1>2 DEF RefreshInv, HandlersInv
<1>4. Loads(call[h])' /\ Serves(call[h])' /\ Takes(call[h])'
  BY <1>2 DEF Loads, Serves, Takes, Moves
<1>5. HandlersInv'
  BY <1>2, <1>3, <1>4, Alone DEF Moves
<1> QED
  BY <1>2, <1>5 DEF RefreshInv, Loaded, Resolved

LEMMA FromFileKeeps ==
  ASSUME OneAtATime, TypeInv, RefreshInv, NEW h \in Handlers, RefreshFromFile(h)
  PROVE  RefreshInv'
<1>1. /\ call[h].pc = "compare" /\ Moves(h, "read") /\ call[h].secret = NoSecret
      /\ missed' = Servers \ {call[h].server}
      /\ UNCHANGED <<file, up>>
  BY Moved DEF RefreshFromFile
<1>2. up /\ file.content \in call[h].asked
  BY <1>1 DEF RefreshInv, HandlersInv
<1>3. Loads(call[h])' /\ Serves(call[h])' /\ Takes(call[h])'
  BY <1>1 DEF Loads, Serves, Takes, Moves
<1>4. HandlersInv'
  BY <1>1, <1>2, <1>3, Alone DEF Moves
<1>5. call'[h].pc = "read"
  BY <1>1 DEF Moves
<1> QED
  BY <1>4, <1>5 DEF RefreshInv, Loaded, Resolved, None

LEMMA ReadKeeps ==
  ASSUME OneAtATime, TypeInv, RefreshInv, NEW h \in Handlers, ReadFile(h)
  PROVE  RefreshInv'
<1>1. call[h] \in CallStates
  BY Fields
<1>2. /\ call[h].pc = "read" /\ Moves(h, "parse") /\ call'[h].content = file.content
      /\ UNCHANGED <<file, temporary, up, missed>>
  BY <1>1 DEF ReadFile, TypeInv, CallStates, Moves, Config
<1>3. /\ up /\ file.content \in call[h].asked
      /\ call[h].secret = NoSecret /\ Takes(call[h])
  BY <1>2 DEF RefreshInv, HandlersInv, Loads
<1>4. Loads(call[h])' /\ Serves(call[h])' /\ Takes(call[h])'
  BY <1>2, <1>3 DEF Loads, Serves, Takes, Moves
<1>5. HandlersInv'
  BY <1>2, <1>3, <1>4, Alone DEF Moves
<1>6. call'[h].pc = "parse"
  BY <1>2 DEF Moves
<1> QED
  BY <1>5, <1>6 DEF RefreshInv, Loaded, Resolved, None

LEMMA CannotReadKeeps ==
  ASSUME OneAtATime, TypeInv, RefreshInv, NEW h \in Handlers, CannotRead(h)
  PROVE  RefreshInv'
<1>1. /\ call'[h].pc = "idle" /\ call[h].pc \in {"stat", "read"}
      /\ missed' = IF call[h].pc = "read" THEN Servers ELSE missed
      /\ unread' = (unread \/ call[h].pc = "read")
      /\ UNCHANGED <<file, nsMap, lastModTime, temporary, resolvers, up>>
  BY Returned DEF CannotRead, Config
<1>2. HandlersInv'
  BY <1>1, IdleGood
<1>3. \A g \in Handlers : g = h
  BY DEF OneAtATime
<1>4. CASE call[h].pc = "read"
  BY <1>1, <1>2, <1>4 DEF RefreshInv, Loaded, Resolved
<1>5. CASE call[h].pc = "stat"
  BY <1>1, <1>2, <1>3, <1>5 DEF RefreshInv, Loaded, Resolved, SeenLast, None
<1> QED
  BY <1>1, <1>4, <1>5

LEMMA CannotParseKeeps ==
  ASSUME OneAtATime, TypeInv, RefreshInv, NEW h \in Handlers, CannotParse(h)
  PROVE  RefreshInv'
<1>1. /\ call'[h].pc = "idle" /\ call[h].pc = "parse"
      /\ missed' = Servers /\ unread' = (unread \/ call[h].secret = NoSecret)
      /\ UNCHANGED <<file, lastModTime, temporary, resolvers, up>>
  BY Returned DEF CannotParse
<1>2. temporary \/ unread'
  BY <1>1 DEF RefreshInv, HandlersInv, Loads
<1>3. HandlersInv'
  BY <1>1, IdleGood
<1> QED
  BY <1>1, <1>2, <1>3 DEF RefreshInv, Loaded, Resolved

LEMMA ParseKeeps ==
  ASSUME OneAtATime, TypeInv, RefreshInv, NEW h \in Handlers, Parse(h)
  PROVE  RefreshInv'
<1> DEFINE r == call[h]
<1>1. r \in CallStates /\ r.content \in Texts /\ nsMap \in Contents
  BY Fields DEF CallStates
<1>2. /\ r.pc = "parse" /\ nsMap' = Merge(nsMap, r.content)
      /\ UNCHANGED <<file, lastModTime, temporary, resolvers, faults, unread>>
  BY DEF Parse
<1>3. Agrees(nsMap', r.content) /\ nsMap' \in Contents
  BY <1>1, <1>2, MergeAgrees
<1>4. up /\ file.content \in r.asked /\ Loads(r) /\ Takes(r)
  BY <1>2 DEF RefreshInv, HandlersInv
<1>5. \A g \in Handlers : g = h
  BY DEF OneAtATime
<1>6. SeenLast /\ ~temporary => Agrees(nsMap', file.content)
  BY <1>2, <1>3, <1>4 DEF Loads
<1>7. Loaded'
  BY <1>2, <1>6 DEF Loaded, SeenLast
<1>8. ASSUME missed' = Servers PROVE Resolved'
  BY <1>8 DEF Resolved
<1>9. CASE missed' = Servers /\ (Return(h) \/ call' = [g \in Handlers |-> Idle])
  <2>1. call'[h].pc = "idle"
    BY <1>9, Returned, IdleType
  <2> QED
    BY <1>7, <1>8, <1>9, <2>1, IdleGood DEF RefreshInv
<1>10. CASE /\ "accepted" \in Validate(Merge(nsMap, r.content))
            /\ Goto(h, IF r.server = Identity THEN "use" ELSE "rebuild")
            /\ UNCHANGED <<up, missed>>
  <2>1. Valid(nsMap')
    BY <1>2, <1>3, <1>10, AcceptedIsValid
  <2>2. CASE r.server = Identity
    <3>1. Moves(h, "use")
      BY <1>10, <2>2, Moved
    <3>2. Loads(call[h])' /\ Serves(call[h])' /\ Takes(call[h])'
      BY <2>2, <3>1, ServersAssumption DEF Loads, Serves, Takes, Recent, Moves
    <3>3. HandlersInv'
      BY <1>2, <1>4, <1>10, <3>1, <3>2, Alone DEF Moves
    <3>4. ~temporary => missed = Servers
      BY <1>2, <1>4, <2>2, ServersAssumption, Fields DEF Loads, Takes
    <3>5. Resolved'
      BY <1>2, <1>8, <1>10, <3>4 DEF Resolved
    <3> QED
      BY <1>7, <3>3, <3>5 DEF RefreshInv
  <2>3. CASE r.server # Identity
    <3>1. Moves(h, "rebuild")
      BY <1>10, <2>3, Moved
    <3>2. r.server \in Servers
      BY <1>1, <2>3 DEF CallStates
    <3>3. ASSUME r.secret # NoSecret PROVE Loads(call[h])' /\ Takes(call[h])'
      <4>1. Loads(call[h])'
        BY <1>2, <1>3, <1>4, <2>1, <3>1, <3>2, <3>3 DEF Loads, Moves
      <4> QED
        BY <3>1, <3>3, <4>1 DEF Takes, Moves
    <3>4. ASSUME r.secret = NoSecret PROVE Loads(call[h])' /\ Takes(call[h])'
      <4>1. r.content \in r.asked /\ (SeenLast => r.content = file.content)
        BY <1>2, <1>4, <3>4 DEF Loads
      <4>2. Loads(call[h])'
        BY <1>2, <1>3, <2>1, <3>1, <3>2, <3>4, <4>1 DEF Loads, Moves, SeenLast
      <4>3. Takes(call[h])'
        BY <1>2, <1>4, <1>10, <3>1 DEF Takes, Moves
      <4> QED
        BY <4>2, <4>3
    <3>5. Loads(call[h])' /\ Takes(call[h])' /\ Serves(call[h])'
      BY <3>1, <3>3, <3>4 DEF Serves, Moves
    <3>6. HandlersInv'
      BY <1>2, <1>4, <1>10, <3>1, <3>5, Alone DEF Moves
    <3>7. call'[h].pc = "rebuild"
      BY <3>1 DEF Moves
    <3> QED
      BY <1>7, <3>6, <3>7 DEF RefreshInv, Resolved, None
  <2> QED
    BY <2>2, <2>3
<1> QED
  BY <1>9, <1>10 DEF Parse

LEMMA RebuildKeeps ==
  ASSUME OneAtATime, TypeInv, RefreshInv, NEW h \in Handlers, Rebuild(h)
  PROVE  RefreshInv'
<1> DEFINE r == call[h]
<1>1. /\ r.pc = "rebuild" /\ Moves(h, "use")
      /\ resolvers' = [resolvers EXCEPT ![r.server] = nsMap]
      /\ UNCHANGED <<file, nsMap, lastModTime, temporary, up, missed, unread>>
  BY Moved DEF Rebuild, Observed
<1>2. up /\ file.content \in r.asked /\ Loads(r) /\ Takes(r)
  BY <1>1 DEF RefreshInv, HandlersInv
<1>3. r.server \in Servers /\ resolvers'[r.server] = nsMap
  BY <1>1, <1>2, Fields DEF Loads
<1>4. Serves(call[h])'
  BY <1>1, <1>2, <1>3 DEF Serves, Recent, Loads, Moves
<1>5. Loads(call[h])' /\ Takes(call[h])'
  BY <1>1 DEF Loads, Takes, Moves
<1>6. HandlersInv'
  BY <1>1, <1>2, <1>4, <1>5, Alone DEF Moves
<1>7. Loaded'
  <2>1. \A g \in Handlers : g = h
    BY DEF OneAtATime
  <2>2. None({"read", "parse"})
    BY <1>1, <2>1 DEF None
  <2> QED
    BY <1>1, <2>2 DEF RefreshInv, Loaded, SeenLast
<1>8. ASSUME SeenLast, ~temporary, NEW s \in Servers \ missed
      PROVE  Agrees(resolvers'[s], file.content)
  <2>1. r.secret = NoSecret
    BY <1>1, <1>2, <1>8 DEF Loads
  <2>2. s = r.server
    BY <1>1, <1>2, <1>8, <2>1 DEF Takes
  <2>3. Agrees(nsMap, file.content)
    BY <1>1, <1>2, <1>8, <2>1 DEF Loads
  <2> QED
    BY <1>3, <2>2, <2>3
<1>9. Resolved'
  BY <1>1, <1>8 DEF Resolved, SeenLast
<1> QED
  BY <1>6, <1>7, <1>9 DEF RefreshInv

LEMMA UseKeeps ==
  ASSUME OneAtATime, TypeInv, RefreshInv, NEW h \in Handlers, Use(h)
  PROVE  RefreshInv'
<1>1. /\ call[h].pc = "use" /\ call'[h].pc = "idle"
      /\ UNCHANGED <<file, nsMap, lastModTime, temporary, resolvers, up, missed, unread>>
  BY Returned DEF Use, Config, Observed
<1>2. HandlersInv'
  BY <1>1, IdleGood
<1>3. \A g \in Handlers : g = h
  BY DEF OneAtATime
<1> QED
  BY <1>1, <1>2, <1>3 DEF RefreshInv, Loaded, Resolved, SeenLast, None

LEMMA NewKeeps ==
  ASSUME TypeInv, RefreshInv, New
  PROVE  RefreshInv'
<1>1. /\ ~up /\ nsMap' = file.content.entries
      /\ resolvers' = [s \in Servers |-> file.content.entries]
      /\ UNCHANGED <<file, call>>
  BY DEF New
<1>2. \A h \in Handlers : call'[h].pc = "idle"
  BY <1>1 DEF RefreshInv, HandlersInv
<1>3. HandlersInv'
  BY <1>2 DEF HandlersInv, Loads, Serves, Takes
<1>4. Agrees(nsMap', file'.content) /\ \A s \in Servers : Agrees(resolvers'[s], file'.content)
  BY <1>1, SelfAgrees
<1> QED
  BY <1>3, <1>4 DEF RefreshInv, Loaded, Resolved

LEMMA Holding ==
  ASSUME OneAtATime
  PROVE  Spec => [](TypeInv /\ RefreshInv)
<1>1. TypeInv /\ RefreshInv /\ Next => TypeInv' /\ RefreshInv'
  <2> SUFFICES ASSUME TypeInv, RefreshInv, Next PROVE TypeInv' /\ RefreshInv'
    OBVIOUS
  <2>1. TypeInv'
    BY TypeNext DEF RefreshInv
  <2>2. ASSUME NEW h \in Handlers, Probe(h) PROVE RefreshInv'
    BY <2>2, RequestKeeps DEF Probe
  <2>3. ASSUME NEW h \in Handlers, Handle(h) PROVE RefreshInv'
    BY <2>3, StatKeeps, UnchangedKeeps, SecretKeeps, FromFileKeeps, ReadKeeps, CannotReadKeeps,
       CannotParseKeeps, ParseKeeps, RebuildKeeps, UseKeeps DEF Handle
  <2> QED
    BY <2>1, <2>2, <2>3, EditKeeps, RequestKeeps, NewKeeps DEF Next
<1>2. TypeInv /\ RefreshInv /\ UNCHANGED vars => TypeInv' /\ RefreshInv'
  BY DEF vars, TypeInv, TypeOK, RefreshInv, HandlersInv, Loads, Serves, Takes, Recent,
         Loaded, Resolved, SeenLast, None
<1> QED
  BY <1>1, <1>2, TypeInit, RefreshInit, PTL DEF Spec

----------------------------------------------------------------------------
(* Theorems.                                                               *)

(* Every reachable state is well typed; above all, resolvers are built only *)
(* of what Validate has passed.                                            *)
THEOREM RefreshTypeCorrect ==
  ASSUME OneAtATime
  PROVE  Spec => []TypeOK
<1>1. TypeInv => TypeOK
  BY DEF TypeInv
<1> QED
  BY <1>1, Holding, PTL

(* When handlers do not overlap, each works with the configuration of its   *)
(* request, or with one the file held since it was asked, however the file, *)
(* the secrets of other requests and failures change what is in memory.     *)
THEOREM HandlersAreCurrent ==
  ASSUME OneAtATime
  PROVE  Spec => []ResolversAreCurrent
<1>1. RefreshInv => ResolversAreCurrent
  BY DEF RefreshInv, HandlersInv, Serves, Recent, ResolversAreCurrent, Serving
<1> QED
  BY <1>1, Holding, PTL

(* When handlers do not overlap, a modification time that has not changed   *)
(* means that all the file says is in memory, and in the resolvers of the   *)
(* servers that were told, except after a refresh that could not read or    *)
(* parse the file: then it says nothing (see CannotRead and CannotParse).   *)
THEOREM UnchangedIsLoaded ==
  ASSUME OneAtATime
  PROVE  Spec => []UnchangedMeansLoaded
<1>1. RefreshInv => UnchangedMeansLoaded
  BY DEF RefreshInv, Loaded, Resolved, SeenLast, None, UnchangedMeansLoaded
<1> QED
  BY <1>1, Holding, PTL

=============================================================================
