SPECIFICATION Spec
CONSTANTS
  Jobs <- MCJobs
  Named <- MCNamed
  Inline <- MCInline
  Unknown = "missing"
  Names <- MCNames
  RefName <- MCRefName
  IndexName <- MCIndexName
  Lists <- MCLists
  Faults <- MCFaults
  MaxFaults = 2
  MaxEdits = 1
  MaxCommands = 3
INVARIANTS TypeOK DeployedAsConfigured DeletedIsGone NothingOrphaned
PROPERTIES OthersUntouched
CHECK_DEADLOCK FALSE
