CONSTANTS
  Numbers = {0, 1}
  JunkSizes = {0, 1}
  IndexSize = 11
  WordSize = 16
  ElementSize = 8
  MaxText = 5
SPECIFICATION Spec
INVARIANTS
  TypeOK
  RegisteredWhole
  NoneStuck
  NothingLeaked
  TokensAsWritten
PROPERTY HandedUntouched
CHECK_DEADLOCK FALSE
