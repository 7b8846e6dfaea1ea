CONSTANTS
  Workers = {a, b, c}
  Pids = {7, 8}
  MaxClock = 1
  MaxAhead = 0
  MaxCuids = 4
  MaxSequence = 1
  Width = 4
  Discrete = 3
  HostPids = 1296
  MayFork = TRUE
  NoPid = NoPid
  NoPrint = NoPrint
SPECIFICATION Spec
SYMMETRY WorkerSymmetry
INVARIANT CuidsApart
PROPERTY UuidSorts
CHECK_DEADLOCK FALSE
