CONSTANTS
  k1 = k1  k2 = k2  n1 = n1  n2 = n2  n3 = n3  copy = copy  copy2 = copy2
  NULL = NULL
  Problems = {k1, n1, n2}
  Preloaded = {k1}
  Clients = {c1, c2}
  OtherNames = {copy, copy2}
  InitId <- OnePreloadedId
  InitName <- OnePreloadedName
  QueueSize = 1
  MaxCrashes = 0
  Faults = {}
SPECIFICATION Spec
PROPERTY NewFileIsNew
