SPECIFICATION Spec
CONSTANTS
  Missing = 255
  NTypes = 2
  OnDelete = "CASCADE"
  TrackCounts = FALSE
  NullOf <- SameWidth
  Rules = {"relinked rows stay", "relink targets stay",
    "relink targets keep their index", "relink or add"}
  MaxRows = 3
  MaxTargets <- OneEach
  MaxStaged = 1
  MaxNamed = 1
  MaxCalls = 2
INVARIANTS
  ReferrersFound
CHECK_DEADLOCK FALSE
