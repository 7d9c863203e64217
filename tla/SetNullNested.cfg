SPECIFICATION Spec
CONSTANTS
  Missing = 255
  Tables <- ChainTables
  ForeignKeys <- ChainKeys
  Source <- ChainSource
  Target <- ChainTarget
  Subscribers <- ChainSubscribers
  OnDelete <- CascadeThenNull
  TrackCounts = TRUE
  IndexMod <- Bits8
  CountMod = 256
  Rules = {"relinked rows stay", "relink targets stay", "relink targets keep their index", "relink or add"}
  MaxRows <- ChainRows
  MaxStaged = 1
  MaxCalls = 3
  MaxDepth = 4
INVARIANTS
  DeletionsClosed
CHECK_DEADLOCK FALSE
