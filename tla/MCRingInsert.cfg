CONSTANTS
  a1 = a1  a2 = a2  a3 = a3
  NULL = NULL
  Atoms <- TwoAtoms
  Id <- TwoIds
  Lists = {problems, problem_queue}
  Threads = {t1, t2}
  Queries = {0, 1}
  Overlap = TRUE
  MaxCount = 3
SPECIFICATION Spec
INVARIANT NoneLost
CHECK_DEADLOCK FALSE
