SPECIFICATION Spec
CONSTANTS
  a = a
  b = b
  Starts <- MCStarts3
  Tables <- MCTable
  Events = {"success", "warning", "recovered"}
  Repeat = 3
  Tolerance = 1
  Scanned = 2
  Threaded = TRUE
  MaxInFlight = 2
  Faults = {"experiment", "marks", "lookup", "post", "tag", "crash"}
  MaxFaults = 2
INVARIANTS TypeOK RepliesHaveParent
PROPERTIES RecoveredFollowsWarning
CHECK_DEADLOCK FALSE
