SPECIFICATION Spec
CONSTANTS
  r1 = r1
  r2 = r2
  Runs = {r1, r2}
  NoRun = NoRun
  AllowUnmanaged = TRUE
  Orderly = TRUE
  MaxCrashes = 1
SYMMETRY Symmetry
INVARIANTS
  AtMostOneInProgress
  DeletedStaysDeleted
PROPERTIES
  ImplementsRegistry
