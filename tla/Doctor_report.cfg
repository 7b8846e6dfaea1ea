CONSTANTS
  Names <- MCNames
  Files <- MCFiles
  Calls <- MCCalls
  Probes <- MCProbes
  MaxSites = 4
  MaxBlocks = 2
  Examine <- CheckArguments
SPECIFICATION ScanSpec
INVARIANTS VerifiedHidesNoStop BlocksMigrateWhole PhasesCostRight
CHECK_DEADLOCK FALSE
