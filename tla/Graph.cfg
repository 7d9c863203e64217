SPECIFICATION Spec
CONSTANTS
  Missing = 255
  Tables <- GraphTables
  ForeignKeys <- GraphKeys
  Source <- GraphSource
  Target <- GraphTarget
  Subscribers <- GraphSubscribers
  OnDelete <- RestrictThenCascade
  TrackCounts = FALSE
  IndexMod <- Bits8
  CountMod = 256
  Rules = {"relinked rows stay", "relink targets stay", "relink targets keep their index", "relink or add"}
  MaxRows <- GraphRows
  MaxStaged = 1
  MaxCalls = 2
  MaxDepth = 4
INVARIANTS
  ListsMatchKeys
  DeletionsClosed
PROPERTIES
  ImplementsRelationalStore
