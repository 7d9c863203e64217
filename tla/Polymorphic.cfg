SPECIFICATION Spec
CONSTANTS
  Missing = 255
  NTypes = 2
  OnDelete = "CASCADE"
  TrackCounts = TRUE
  NullOf <- SameWidth
  Rules = {"relinked rows stay", "relink targets stay",
    "relink targets keep their index", "relink or add",
    "neighbours of retyped rows stay"}
  MaxRows = 3
  MaxTargets <- TwoAndOne
  MaxStaged = 2
  MaxNamed = 1
  MaxCalls = 2
INVARIANTS
  TypeOK
  KeysResolve
  ListsMatchKeys
  CountsMatchLists
  DeletionsClosed
  StagedKeysLive
PROPERTIES
  CommitsFollowKeys
CHECK_DEADLOCK FALSE
