CONSTANTS
  shell = shell  rundir = rundir  data = data
  NULL = NULL
  Daemons = {d1, d2}
  Problems = {p1, p2}
  Dirs <- ThreeDirs
  Starts = {shell, data}
  Ways <- DatabaseWays
  RunWays <- RunDirWays
  BufferSize = 14
  MaxArgs = 4
  MaxPath = 5
SPECIFICATION Spec
SYMMETRY Symmetry
INVARIANTS
  TypeOK OneCopy AckedKept SolvedRecorded
  LinesTaken OptionsTaken NamesInDirectory
CHECK_DEADLOCK FALSE
