\* The buffer of 4 fills, empties and refills; 8 bytes pass through it.
CONSTANTS
  Capacity = 4
  Total = 8
SPECIFICATION StreamSpec
INVARIANTS Accounting Fifo
PROPERTIES AllRead
CHECK_DEADLOCK FALSE
