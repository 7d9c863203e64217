SPECIFICATION Spec
CONSTANTS
  Missing = 255
  Values = {0, 1}
  Fill = 0
  InitialCapacity = 1
  BulkEditsFit = TRUE
  MaxSize = 4
  MaxBatch = 2
INVARIANTS
  StampsTellAll
