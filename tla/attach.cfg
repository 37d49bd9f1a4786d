SPECIFICATION Spec
CONSTANTS
  Nodes = {n1}
  Volumes = {fsvol, rawvol}
  BlockVolumes = {rawvol}
  SharedVolumes = {}
  Targets = {t1}
  Luns = {0, 1}
  Devices = {sda, sdb}
  None = None
  Handlers = {h1, h2}
  ISCSITimeout = 2
  LunTimeout = 2
  BlkidFails = FALSE
  MaxFaults = 1
  fsvol = fsvol
  rawvol = rawvol
  sda = sda
  sdb = sdb
SYMMETRY Symmetry
INVARIANTS
  TypeOK
  DataSurvives
  PublishedReachesVolume
  DetachedIsUnmapped
PROPERTIES
  OthersKeepTheirDevices
  WaitsUpToTwice
CHECK_DEADLOCK FALSE
