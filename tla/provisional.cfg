SPECIFICATION Spec
CONSTANTS
  a1 = a1
  a2 = a2
  b1 = b1
  A = A
  B = B
  Tracks = {a1, b1}
  Cameras = {A, B}
  CameraOf <- MCCameraOf
  Known = 1
  MaxMasters = 2
  MaxGroups = 2
  MaxGen = 3
  QueueSize = 1
  Rounds = 1
  Contests = FALSE
  Gaps = TRUE
  Required = 2
  ConfirmAt = 2
  HoldGrace = 0
  HoldMax = 2
INVARIANTS
  TypeOK
  MembershipAgrees
  IntakeAnswered
PROPERTIES
  GroupsEndTogether
  LocationNeverOverrules
