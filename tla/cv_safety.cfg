SPECIFICATION Spec
CONSTANTS
  r1 = r1
  r2 = r2
  Runs = {r1, r2}
  NoRun = NoRun
  MaxStops = 1
  MaxFaults = 1
SYMMETRY Symmetry
INVARIANTS
  
  DeadWorkerNotReported
PROPERTIES
  OneSession
  ImplementsCvStatus
\* The system stops for good once the backend has shut down or crashed.
CHECK_DEADLOCK FALSE
