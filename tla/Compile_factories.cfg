SPECIFICATION Spec
CONSTANTS
  WordLength <- MCWordLength
  KeyRank <- MCKeyRank
  Project <- MCProject
  Definition <- MCDefinition
  Edits <- MCEdits
  Commands <- MCCommands
  MaxCommands = 2
  MaxEdits = 1
INVARIANT OneJobPerNamespace
CHECK_DEADLOCK FALSE
