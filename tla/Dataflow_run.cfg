SPECIFICATION FairSpec
CONSTANTS
  Dataset <- MCDataset
  Node <- MCNode
  Ins <- MCIns
  Outs <- MCOuts
  Proc <- MCProc
  StepOf <- MCStepOf
  Rank <- MCRank
  Version = {"v1", "v2"}
  Latest = "v2"
  Projects <- MCProjects
  MaxFaults = 1
INVARIANTS TypeOK ReadsWhatWasWritten OrderPreserved ReadsVersionAsked OneWriter RunsThrough
PROPERTIES JobEnds
CHECK_DEADLOCK FALSE
