SPECIFICATION FairSpec
CONSTANTS
  r1 = r1
  r2 = r2
  Runs = {r1}
  NoRun = NoRun
  AllowUnmanaged = FALSE
  Orderly = TRUE
  MaxCrashes = 0
PROPERTIES
  ActiveRunTruthful
