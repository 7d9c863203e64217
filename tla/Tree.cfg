SPECIFICATION FairSpec
CONSTANTS
  Missing = 255
  Tables <- TreeTables
  ForeignKeys <- TreeKeys
  Source <- TreeSource
  Target <- TreeTarget
  Subscribers <- TreeSubscribers
  OnDelete <- Cascade
  TrackCounts = TRUE
  IndexMod <- Bits8
  CountMod = 256
  Rules = {"relinked rows stay", "relink targets stay", "relink targets keep their index", "relink or add"}
  MaxRows <- TreeRows
  MaxStaged = 2
  MaxCalls = 2
  MaxDepth = 4
INVARIANTS
  ListsMatchKeys
PROPERTIES
  DeleteCallsReturn
  ImplementsRelationalStore
