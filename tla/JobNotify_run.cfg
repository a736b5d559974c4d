SPECIFICATION Spec
CONSTANTS
  r1 = r1
  r2 = r2
  m = m
  x = x
  y = y
  z = z
  Nodes <- MCNodes
  Edges <- MCEdges
  Rank <- MCRank
  Procs <- DistributedProcs
  StepOf <- DistributedStep
  Events = {"start", "success", "failure"}
  Experiment = TRUE
  Mlflow = TRUE
  Threaded = TRUE
  ErrorHooks <- NotifyFirst
  MaxPolls = 2
  KillPhases <- Anywhere
INVARIANTS TypeOK SuccessMeansAllFinished OutcomesAgree EachDeathToldOnce NeverSilent SuccessIsThreaded
PROPERTIES EveryStepEnds
CHECK_DEADLOCK FALSE
