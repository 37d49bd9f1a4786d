SPECIFICATION Spec
CONSTANTS
  Configs = {c1, c2}
  Numbers = {1, 2, 3}
  Walkers = {w}
  PageSizes = {0, 1, 2}
  None = None
  MaxFaults = 1
INVARIANTS
  TypeOK
  NoneTwice
  WalksAreComplete
  PagesAreSmall
SYMMETRY Symmetry
