CONSTANTS
  a1 = a1  a2 = a2  a3 = a3
  NULL = NULL
  Atoms <- ThreeAtoms
  Id <- ThreeIds
  Lists = {problems, problem_queue}
  Threads = {t1, t2}
  Queries = {0, 1, 2}
  Overlap = FALSE
  MaxCount = 3
SPECIFICATION FairSpec
INVARIANTS TypeOK RingIntact FreedOnce
PROPERTIES ImplementsFifo CallsReturn
