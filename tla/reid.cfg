SPECIFICATION Spec
CONSTANTS
  a1 = a1
  a2 = a2
  b1 = b1
  A = A
  B = B
  Tracks = {a1, a2, b1}
  Cameras = {A, B}
  CameraOf <- MCCameraOf
  Pairs <- MCPairs
  Known = 1
  MaxMasters = 2
  MaxGen = 3
  MaxToken = 2
  QueueSize = 1
  Overlaps = TRUE
  Gaps = TRUE
  Failures = TRUE
INVARIANTS
  OneOwner
  TypeOK
  ContestIsLive
  OrdinaryIntakeAnswered
PROPERTIES
  LosersStayOut
  BindsWhatIsSeen
