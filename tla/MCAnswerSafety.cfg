CONSTANTS
  NULL = NULL
  Answers = {a1, a2, a3}
  Clients = {c1, c2}
  JunkIds = {0, 2}
  AskedIds = {0, 1, 2}
  QueueSize = 2
  Faults = {"create"}
SPECIFICATION Spec
SYMMETRY Symmetry
INVARIANTS TypeOK Conserved SolverFinds StrayUseNeedsTwins
CHECK_DEADLOCK FALSE
