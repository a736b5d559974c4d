SPECIFICATION Spec
CONSTANTS
  Dataset <- MCDataset
  Node <- MCNode
  Ins <- MCIns
  Outs <- MCOuts
  Proc <- MCProc
  StepOf <- MCStepOf
  Rank <- MCRank
  Version = {"v1", "v2"}
  Latest = "v2"
  Projects <- MCProjects
  MaxFaults = 1
INVARIANTS PinnedVersionRead
CHECK_DEADLOCK FALSE
