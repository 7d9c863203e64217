SPECIFICATION Spec
CONSTANTS
  Names = {n1, n2}
  TrackCounts = TRUE
  CountsTyped = TRUE
  Rules = {}
  MaxSchemas = 2
  MaxKeys = 2
  MaxData = 1
  MaxDbs = 2
SYMMETRY NameSymmetry
INVARIANTS
  LayoutConsistent
  ColumnsReachTheirTables
  KeysComplete
CHECK_DEADLOCK FALSE
