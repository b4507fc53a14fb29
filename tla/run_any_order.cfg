SPECIFICATION FairSpec
CONSTANTS
  r1 = r1
  r2 = r2
  Runs = {r1}
  NoRun = NoRun
  AllowUnmanaged = TRUE
  Orderly = FALSE
  MaxCrashes = 1
INVARIANTS
  TrailTruthful
PROPERTIES
  NoResurrection
  TransitionalResolves
