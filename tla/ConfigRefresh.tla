--------------------------- MODULE ConfigRefresh ---------------------------
(***************************************************************************)
(* The driver's configuration (pkg/config/config.go) and the resolvers the *)
(* servers build from it (refreshConfig in controllerServer.go and         *)
(* nodeServer.go).  One Config is shared by every server of the process.   *)
(* A handler begins by refreshing it: it compares the file's modification  *)
(* time, or takes the configuration from the secrets of the request, merges*)
(* what it read into the map in memory, validates the map and rebuilds its *)
(* own server's resolvers.  The identity server's Probe refreshes as well, *)
(* and has no resolvers.  The file is edited while handlers run.           *)
(*                                                                         *)
(* An entry is abstracted to the address it leads to, or to what is wrong  *)
(* with it: Bad is refused by Validate, Unset has no                       *)
(* dynamicTargetLunAllocation.  A text, of the file or of secrets, is      *)
(* abstracted to the entries yaml.Unmarshal decodes of it and to whether   *)
(* it does so without an error: of one that is no yaml it decodes nothing, *)
(* of one with a value of the wrong type all the rest.                     *)
(***************************************************************************)
EXTENDS Naturals, FiniteSets

CONSTANTS
  Entries,        \* names of nexentastor_map
  Addresses,      \* addresses an entry may lead to
  Bad, Unset,     \* an invalid entry, and one Validate cannot look at
  Absent,         \* no entry of that name
  Files,          \* texts the administrator may write
  Secrets,        \* texts a request may carry in its secrets
  NoSecret,       \* a request without secrets
  Servers,        \* the servers of the process that keep resolvers
  Identity,       \* the identity server
  Probes,         \* whether the identity server is probed after the start
  Handlers,       \* slots of concurrent handlers
  MaxEdits,       \* bound: edits of the file
  MaxFaults       \* bound: failed system calls

Contents == [Entries -> Addresses \cup {Bad, Unset, Absent}]
Texts == [entries : Contents, parses : BOOLEAN]

Valid(c) == \A n \in Entries : c[n] \notin {Bad, Unset}

ASSUME EntriesAssumption ==
  /\ {Bad, Unset, Absent} \cap Addresses = {}
  /\ Cardinality({Bad, Unset, Absent}) = 3
ASSUME ContentsAssumption ==
  /\ Files \subseteq Texts
  /\ Secrets \subseteq Texts
  /\ NoSecret \notin Texts
ASSUME ServersAssumption == Identity \notin Servers /\ Probes \in BOOLEAN
ASSUME BoundsAssumption == MaxEdits \in Nat /\ MaxFaults \in Nat

VARIABLES
  file,           \* the config file: its version (modification time), content
  nsMap,          \* Config.NsMap
  lastModTime,    \* Config.lastModTime
  temporary,      \* Config.temporary
  resolvers,      \* nsResolverMap of each server
  call,           \* the handlers
  up,             \* whether the process runs
  faults,         \* failed system calls so far
  \* What the properties observe; no guard reads these.
  missed,         \* servers to which a change was never reported
  unread          \* whether the last refresh from the file could not read or parse it

vars == <<file, nsMap, lastModTime, temporary, resolvers, call, up, faults,
          missed, unread>>

Idle == [pc |-> "idle", server |-> Identity, secret |-> NoSecret, stat |-> 0,
         content |-> [entries |-> [n \in Entries |-> Absent], parses |-> TRUE], asked |-> {}]

Config == <<nsMap, lastModTime, temporary, resolvers>>
Observed == <<missed, unread>>

----------------------------------------------------------------------------
(* What yaml.Unmarshal leaves in a map that has entries already, and what   *)
(* Validate may answer.  Validate visits the entries in any order and stops *)
(* at the first that is wrong.                                              *)

(* Merge, were an entry of the map never replaced. *)
MergeNewOnly(old, d) ==
  [n \in Entries |-> IF old[n] # Absent THEN old[n] ELSE d.entries[n]]

Merge(old, d) ==
  [n \in Entries |-> IF d.entries[n] = Absent THEN old[n] ELSE d.entries[n]]

(* Validate, were its error dropped. *)
ValidateUnheeded(c) == {"accepted"}

Validate(c) ==
  IF Valid(c) THEN {"accepted"}
  ELSE {IF c[n] = Bad THEN "refused" ELSE "panicked" :
          n \in {m \in Entries : c[m] \in {Bad, Unset}}}

(* c holds all that text d says. *)
Agrees(c, d) == \A n \in Entries : d.entries[n] # Absent => c[n] = d.entries[n]

----------------------------------------------------------------------------
(* The process starts on a valid file, or not at all.  *)

Accepted(d) == d.parses /\ Valid(d.entries)

Load(d, version) ==
  /\ nsMap = d.entries
  /\ lastModTime = version
  /\ temporary = FALSE
  /\ resolvers = [s \in Servers |-> d.entries]

Init ==
  \E d \in {t \in Files : Accepted(t)} :
    /\ file = [version |-> 1, content |-> d]
    /\ Load(d, 1)
    /\ call = [h \in Handlers |-> Idle]
    /\ up = TRUE
    /\ faults = 0
    /\ missed = {}
    /\ unread = FALSE

New ==
  /\ ~up
  /\ Accepted(file.content)
  /\ nsMap' = file.content.entries
  /\ lastModTime' = file.version
  /\ temporary' = FALSE
  /\ resolvers' = [s \in Servers |-> file.content.entries]
  /\ up' = TRUE
  /\ missed' = {}
  /\ unread' = FALSE
  /\ UNCHANGED <<file, call, faults>>

(* The administrator changes the file.  Every call under way has now been   *)
(* asked while that content was there.                                      *)
EditFile(c) ==
  /\ file.version <= MaxEdits
  /\ c # file.content
  /\ file' = [version |-> file.version + 1, content |-> c]
  /\ call' = [h \in Handlers |->
                IF call[h].pc = "idle" THEN Idle
                ELSE [call[h] EXCEPT !.asked = @ \cup {c}]]
  /\ UNCHANGED <<Config, up, faults, Observed>>

----------------------------------------------------------------------------
(* A handler.                                                              *)

Goto(h, pc) == call' = [call EXCEPT ![h].pc = pc]
Return(h) == call' = [call EXCEPT ![h] = Idle]

Request(h, s, x) ==
  /\ up
  /\ call[h].pc = "idle"
  /\ call' = [call EXCEPT ![h] =
                [Idle EXCEPT !.pc = "stat", !.server = s, !.secret = x,
                             !.asked = {file.content}]]
  /\ UNCHANGED <<file, Config, up, faults, Observed>>

Probe(h) == Probes /\ Request(h, Identity, NoSecret)

Stat(h) ==
  /\ call[h].pc = "stat"
  /\ call' = [call EXCEPT ![h].pc = "compare", ![h].stat = file.version]
  /\ UNCHANGED <<file, Config, up, faults, Observed>>

(* Changed, were a configuration taken from secrets kept. *)
ChangedIgnoringTemporary(h) ==
  lastModTime # call[h].stat \/ call[h].secret # NoSecret

Changed(h) ==
  \/ lastModTime # call[h].stat
  \/ call[h].secret # NoSecret
  \/ temporary

RefreshUnchanged(h) ==
  /\ call[h].pc = "compare"
  /\ ~Changed(h)
  /\ Goto(h, "use")
  /\ UNCHANGED <<file, Config, up, faults, Observed>>

RefreshFromSecret(h) ==
  /\ call[h].pc = "compare"
  /\ Changed(h) /\ call[h].secret # NoSecret
  /\ temporary' = TRUE
  /\ call' = [call EXCEPT ![h].pc = "parse", ![h].content = call[h].secret]
  /\ UNCHANGED <<file, nsMap, lastModTime, resolvers, up, faults, Observed>>

(* The change is marked as seen before the file is read. *)
RefreshFromFile(h) ==
  /\ call[h].pc = "compare"
  /\ Changed(h) /\ call[h].secret = NoSecret
  /\ lastModTime' = call[h].stat
  /\ temporary' = FALSE
  /\ missed' = Servers \ {call[h].server}
  /\ Goto(h, "read")
  /\ UNCHANGED <<file, nsMap, resolvers, up, faults, unread>>

ReadFile(h) ==
  /\ call[h].pc = "read"
  /\ call' = [call EXCEPT ![h].pc = "parse", ![h].content = file.content]
  /\ unread' = FALSE
  /\ UNCHANGED <<file, Config, up, faults, missed>>

(* os.Stat or ioutil.ReadFile fails; the handler answers an error. *)
CannotRead(h) ==
  /\ call[h].pc \in {"stat", "read"}
  /\ faults < MaxFaults
  /\ faults' = faults + 1
  /\ missed' = IF call[h].pc = "read" THEN Servers ELSE missed
  /\ unread' = (unread \/ call[h].pc = "read")
  /\ Return(h)
  /\ UNCHANGED <<file, Config, up>>

(* yaml.Unmarshal fails: what it could decode is in the shared map, Validate *)
(* has not looked at it, and the change is marked as seen.                  *)
CannotParse(h) ==
  /\ call[h].pc = "parse" /\ ~call[h].content.parses
  /\ nsMap' = Merge(nsMap, call[h].content)
  /\ missed' = Servers
  /\ unread' = (unread \/ call[h].secret = NoSecret)
  /\ Return(h)
  /\ UNCHANGED <<file, lastModTime, temporary, resolvers, up, faults>>

(* yaml.Unmarshal into the shared map, then Validate of the whole map. *)
Parse(h) ==
  LET merged == Merge(nsMap, call[h].content) IN
  /\ call[h].pc = "parse" /\ call[h].content.parses
  /\ nsMap' = merged
  /\ \/ /\ "accepted" \in Validate(merged)
        /\ Goto(h, IF call[h].server = Identity THEN "use" ELSE "rebuild")
        /\ UNCHANGED <<up, missed>>
     \/ /\ "refused" \in Validate(merged)
        /\ missed' = Servers
        /\ Return(h)
        /\ UNCHANGED up
     \/ /\ "panicked" \in Validate(merged)
        /\ up' = FALSE
        /\ missed' = Servers
        /\ call' = [g \in Handlers |-> Idle]
  /\ UNCHANGED <<file, lastModTime, temporary, resolvers, faults, unread>>

(* refreshConfig of the handler's server. *)
Rebuild(h) ==
  /\ call[h].pc = "rebuild"
  /\ resolvers' = [resolvers EXCEPT ![call[h].server] = nsMap]
  /\ Goto(h, "use")
  /\ UNCHANGED <<file, nsMap, lastModTime, temporary, up, faults, Observed>>

(* The rest of the handler, which uses the entries and the resolvers. *)
Use(h) ==
  /\ call[h].pc = "use"
  /\ Return(h)
  /\ UNCHANGED <<file, Config, up, faults, Observed>>

Handle(h) ==
  \/ Stat(h)
  \/ RefreshUnchanged(h)
  \/ RefreshFromSecret(h)
  \/ RefreshFromFile(h)
  \/ ReadFile(h)
  \/ CannotRead(h)
  \/ CannotParse(h)
  \/ Parse(h)
  \/ Rebuild(h)
  \/ Use(h)

Next ==
  \/ \E c \in Files : EditFile(c)
  \/ \E h \in Handlers :
       \/ \E s \in Servers, x \in Secrets \cup {NoSecret} : Request(h, s, x)
       \/ Probe(h)
       \/ Handle(h)
  \/ New

Spec == Init /\ [][Next]_vars

----------------------------------------------------------------------------
(* Properties.                                                             *)

Serving(h) == call[h].pc = "use" /\ call[h].server \in Servers

(* Types.  A resolver is only ever built for an entry Validate has passed,  *)
(* although the shared map may hold invalid entries.                       *)
TypeOK ==
  /\ file \in [version : 1 .. MaxEdits + 1, content : Files]
  /\ nsMap \in Contents
  /\ lastModTime \in 1 .. file.version
  /\ temporary \in BOOLEAN
  /\ resolvers \in [Servers -> [Entries -> Addresses \cup {Absent}]]
  /\ DOMAIN call = Handlers
  /\ \A h \in Handlers :
       /\ call[h].pc \in {"idle", "stat", "compare", "read", "parse", "rebuild", "use"}
       /\ call[h].server \in Servers \cup {Identity}
       /\ call[h].secret \in Secrets \cup {NoSecret}
       /\ call[h].stat \in 0 .. file.version
       /\ call[h].content \in Texts
       /\ call[h].asked \subseteq Files
  /\ up \in BOOLEAN
  /\ faults \in 0 .. MaxFaults
  /\ missed \subseteq Servers
  /\ unread \in BOOLEAN

(* A handler works with the configuration its request carries, or else with *)
(* one the file held while the handler ran, however the file was edited     *)
(* meanwhile and whatever secrets came before; unless a change was already  *)
(* consumed by a refresh that failed or was another server's (missed).      *)
ResolversAreCurrent ==
  \A h \in Handlers :
    LET s == call[h].server
        x == call[h].secret
    IN Serving(h) =>
         IF x # NoSecret THEN Agrees(resolvers[s], x)
         ELSE s \notin missed => \E c \in call[h].asked : Agrees(resolvers[s], c)

(* Between calls, when the next Refresh would say that nothing has changed, *)
(* the entries of the file are the ones in memory (config.go:55 and :66), be *)
(* they valid or not, and the resolvers of a server that was told of the    *)
(* change are of these entries; unless the last refresh from the file could *)
(* not read or parse it: the change is marked as seen before (config.go:73), *)
(* and what was in memory stays there until the next edit.                  *)
UnchangedMeansLoaded ==
  /\ up /\ ~temporary /\ ~unread
  /\ lastModTime = file.version
  /\ \A h \in Handlers : call[h].pc = "idle"
  => /\ Agrees(nsMap, file.content)
     /\ \A s \in Servers \ missed : Agrees(resolvers[s], file.content)

(* Refresh tells of a change every server that has resolvers to rebuild     *)
(* (config.go:55): what Probe learns is not lost to the others.             *)
ChangeIsReported ==
  \A h \in Handlers :
    Serving(h) /\ call[h].secret = NoSecret =>
      \E c \in call[h].asked : Agrees(resolvers[call[h].server], c)
============================================================================
