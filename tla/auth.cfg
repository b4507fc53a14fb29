SPECIFICATION Spec
CONSTANTS
  u1 = u1
  u2 = u2
  s1 = s1
  s2 = s2
  q1 = q1
  q2 = q2
  NoUser = NoUser
  Users = {u1, u2}
  Sessions = {s1, s2}
  Requests = {q1, q2}
  Idle = 2
  Absolute = 3
  Refresh = 1
  MaxFailures = 2
  Window = 2
  Block = 2
  Budgets <- MCBudgets
SYMMETRY Symmetry
CHECK_DEADLOCK FALSE
INVARIANTS
  ChangesEndSessions
  AuthorityHeld
  AdminRemains
  UseKeepsAlive
  FailuresBounded
