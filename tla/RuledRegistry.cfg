SPECIFICATION Spec
CONSTANTS
  Names = {n1, n2}
  TrackCounts = TRUE
  CountsTyped = TRUE
  Rules <- AllRules
  MaxSchemas = 3
  MaxKeys = 2
  MaxData = 0
  MaxDbs = 2
SYMMETRY NameSymmetry
INVARIANTS
  TargetsPresent
  SubscribersPresent
CHECK_DEADLOCK FALSE
