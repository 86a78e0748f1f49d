CONSTANTS
  MaxRows = 1
  MaxSize = 2
SPECIFICATION Spec
INVARIANTS
  TypeOK
  CompleteOrRefused
  ReadsBackEnoughTests
  RefusalFreesAll
CHECK_DEADLOCK FALSE
