CONSTANTS
  MaxRows = 1
  MaxSize = 2
SPECIFICATION Spec
INVARIANT PackedReadsBack
CHECK_DEADLOCK FALSE
