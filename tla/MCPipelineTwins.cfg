CONSTANTS
  k1 = k1  k2 = k2  n1 = n1  n2 = n2  n3 = n3  copy = copy  copy2 = copy2
  NULL = NULL
  Problems = {k1, k2, n1}
  Preloaded = {k1, k2}
  Clients = {c1}
  OtherNames = {copy, copy2}
  InitId <- TwinPreloadedId
  InitName <- TwinPreloadedName
  QueueSize = 2
  MaxCrashes = 1
  Faults = {"create", "write"}
SPECIFICATION FairSpec
PROPERTY NewFileSolved
