SPECIFICATION Spec
CONSTANTS
  Missing = 255
  Tables <- ParentChildTables
  ForeignKeys <- ParentChildKeys
  Source <- ParentChildSource
  Target <- ParentChildTarget
  Subscribers <- ParentChildSubscribers
  OnDelete <- Cascade
  TrackCounts = TRUE
  IndexMod <- Bits8
  CountMod = 256
  Rules = {"relinked rows stay", "relink targets stay", "relink targets keep their index", "relink or add"}
  MaxRows <- ParentChildRows
  MaxStaged = 1
  MaxCalls = 3
  MaxDepth = 4
INVARIANTS
  TypeOK
  KeysResolve
  ListsMatchKeys
  CountsMatchLists
  StagedKeysLive
  StagedRowsRenumbered
