SPECIFICATION Spec
CONSTANTS
  r1 = r1
  r2 = r2
  c1 = c1
  c2 = c2
  z1 = z1
  z2 = z2
  NoRun = NoRun
  Runs = {r1, r2}
  Cameras = {c1, c2}
  Zones = {z1, z2}
  Counts = {0}
  AllowUnmanaged = TRUE
SYMMETRY Symmetry
INVARIANT LateUpdateIsOne
 
