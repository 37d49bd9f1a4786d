SPECIFICATION Spec
CONSTANTS
  Entries = {ns1, ns2}
  Addresses = {addr1, addr2, addr3}
  Bad = Bad
  Unset = Unset
  Absent = Absent
  NoSecret = NoSecret
  Servers = {Controller, Node}
  Identity = Identity
  Probes = TRUE
  Handlers = {h1}
  MaxEdits = 2
  MaxFaults = 1
  ns1 = ns1
  ns2 = ns2
  addr1 = addr1
  addr2 = addr2
  addr3 = addr3
  Files <- EditedFiles
  Secrets <- SomeSecrets
INVARIANTS
  TypeOK
  ResolversAreCurrent
  UnchangedMeansLoaded
CHECK_DEADLOCK FALSE
