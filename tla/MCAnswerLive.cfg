CONSTANTS
  NULL = NULL
  Answers = {a1, a2, a3}
  Clients = {c1}
  JunkIds = {0, 2}
  AskedIds = {0, 2}
  QueueSize = 2
  Faults = {"create"}
SPECIFICATION FairSpec
PROPERTY AnswerSolved
CHECK_DEADLOCK FALSE
