CONSTANTS
  Commands = {c1, c2}
  Versions = {v1, v2}
  NoVersion = NoVersion
  Custom = FALSE
  Machines <- MCMachines
SPECIFICATION Spec
SYMMETRY Symmetry
INVARIANTS EntrypointMeansInstalled RunsItsVersion
CHECK_DEADLOCK FALSE
