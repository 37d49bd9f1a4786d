SPECIFICATION Spec
CONSTANTS
  Nodes = {n1, n2}
  Volumes = {fsvol}
  BlockVolumes = {}
  SharedVolumes = {fsvol}
  Targets = {t1}
  Luns = {0, 1}
  Devices = {sda}
  None = None
  Handlers = {h1, h2}
  ISCSITimeout = 2
  LunTimeout = 2
  BlkidFails = FALSE
  MaxFaults = 0
  fsvol = fsvol
  rawvol = rawvol
  sda = sda
  sdb = sdb
INVARIANTS
  PublishedReachesVolume
CHECK_DEADLOCK FALSE
