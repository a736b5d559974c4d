SPECIFICATION FairSpec
CONSTANTS
  east = east
  west = west
  nowhere = nowhere
  JobCount = 3
  Workspaces <- MCWorkspaces
  Assignments <- MCAnyAssignment
  Undefined = nowhere
  Workers = 2
  Snapshots <- MCEitherWay
  Modes <- MCAllModes
  Faults <- MCAllFaults
  MaxFaults = 2
INVARIANTS TypeOK OncePerBatch CodeIsThere ChainConsumesOutputs DryRunIsDry
PROPERTIES ImplementsBatchSpec BatchEnds
CHECK_DEADLOCK FALSE
