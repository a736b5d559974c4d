SPECIFICATION Spec
CONSTANTS
  WordLength <- MCWordLength
  KeyRank <- MCKeyRank
  Project <- MCProject
  Definition <- MCDefinition
  Edits <- MCEdits
  Commands <- MCCommands
  MaxCommands = 2
  MaxEdits = 1
INVARIANTS TypeOK MostSpecificWins ListedIsRunnable ReportIsTrue CheckPredictsRun
CHECK_DEADLOCK FALSE
