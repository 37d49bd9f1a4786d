SPECIFICATION Spec
CONSTANTS
  Nodes = {node1, node2}
  Targets = {tgt1, tgt2, tgt3}
  HostGroups = {hg1, hg2}
  None = None
  Dynamic = FALSE
  DefaultTarget = tgt1
  DefaultHostGroup = None
  NumOfLunsPerTarget = 2
  Handlers = {h1, h2}
  Overlap = "nodes"
  MaxFaults = 1
  node1 = node1
  node2 = node2
  vol1 = vol1
  vol2 = vol2
  vol3 = vol3
  vol4 = vol4
  tgt1 = tgt1
  tgt2 = tgt2
  tgt3 = tgt3
  hg1 = hg1
  hg2 = hg2
  hg3 = hg3
  Volumes <- TwoVolumes
  NodeOf <- Apart
  ChapVolumes <- OneChap
INVARIANTS
  OneMappingPerVolume
  InitiatorInOneHostGroup
