SPECIFICATION Spec
CONSTANTS
  Missing = 255
  HookActions = {"echo", "stage", "patch"}
  MaxDepth = 2
  MaxBatch = 2
  MaxLabels = 2
  MaxCalls = 2
  MaxRows = 4
INVARIANTS
  TypeOK
  DroppedContextsLeaveNothing
PROPERTIES
  CommitsAreExact
  TrackersFindRows
CHECK_DEADLOCK FALSE
