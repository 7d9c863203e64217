SPECIFICATION Spec
CONSTANTS
  Missing = 255
  HookActions = {"patch"}
  MaxDepth = 1
  MaxBatch = 2
  MaxLabels = 2
  MaxCalls = 2
  MaxRows = 4
INVARIANTS
  HookUpdatesApplied
