SPECIFICATION FairSpec
CONSTANTS
  fsvol = fsvol
  rawvol = rawvol
  Volumes = {fsvol, rawvol}
  BlockVolumes = {rawvol}
  Sizes = {1, 2, 3}
  FirstSize = 1
  Handlers = {h1, h2}
  NoVolume = NoVolume
  MaxFaults = 1
INVARIANTS
  TypeOK
  SizeAsAnswered
  FileSystemFollows
PROPERTIES
  ExpansionFinishes
CHECK_DEADLOCK FALSE
