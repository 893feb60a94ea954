SPECIFICATION Spec
CONSTANTS
  BufferSize = 3
  snappy_max = 9
  Sizes <- MCSizes
  Raw = 2
  Requests = {1, 2, 5}
  MaxBytes = 8
INVARIANTS
  NoOverflow
  InOrder
  ReadToTheEnd
CHECK_DEADLOCK FALSE
