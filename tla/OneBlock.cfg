SPECIFICATION Spec
CONSTANTS
  Missing = 255
  HookActions = {"echo", "stage", "patch"}
  MaxDepth = 1
  MaxBatch = 2
  MaxLabels = 4
  MaxCalls = 3
  MaxRows = 4
INVARIANTS
  TypeOK
PROPERTIES
  CommitsAreExact
  TrackersFindRows
