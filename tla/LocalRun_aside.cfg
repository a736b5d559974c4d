SPECIFICATION Spec
CONSTANTS
  r1 = r1
  r2 = r2
  Run = {r1, r2}
  champion = champion
  model = model
  a1 = a1
  a2 = a2
  Entry <- MCEntry
  Asset = {a1, a2}
  Catalogs <- MCCatalogs
  Plans <- MCPlans
  MaxVersion = 2
  MaxFaults = 1
SYMMETRY MCSymmetry
INVARIANT SavedAside
CHECK_DEADLOCK FALSE
