CONSTANTS
  Conns = {c1, c2, c3}
  MaxFd = 2
  Backlog = 2
  Faults = {"create"}
  NULL = NULL
SPECIFICATION Spec
INVARIANTS TypeOK ServedByOne
PROPERTIES EveryoneServed DescriptorsReturned
CHECK_DEADLOCK FALSE
