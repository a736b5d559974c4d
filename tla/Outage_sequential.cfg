SPECIFICATION Spec
CONSTANTS
  a = a
  b = b
  Starts <- MCStarts4
  Tables <- MCTables
  Events = {"success", "warning", "recovered"}
  Repeat = 3
  Tolerance = 1
  Scanned = 2
  Threaded = TRUE
  MaxInFlight = 1
  Faults = {"entry", "experiment", "post"}
  MaxFaults = 2
INVARIANTS OneThreadPerOutage
PROPERTIES ImplementsOutageSpec
CHECK_DEADLOCK FALSE
