SPECIFICATION Spec
CONSTANTS
  Missing = 255
  HookActions = {}
  MaxDepth = 2
  MaxBatch = 2
  MaxLabels = 2
  MaxCalls = 2
  MaxRows = 4
INVARIANTS
  RaisedBlocksLeaveNothing
CHECK_DEADLOCK FALSE
