SPECIFICATION Spec
CONSTANTS
  r1 = r1
  r2 = r2
  m1 = m1
  v1 = v1
  p1 = p1
  p2 = p2
  p3 = p3
  s1 = s1
  NoRun = NoRun
  NoFile = NoFile
  NoPerson = NoPerson
  Runs = {r1, r2}
  Masters = {m1}
  Views = {v1}
  Pictures = {p1, p2}
  Snapshots = {s1}
  MaxId = 2
  MaxCrashes = 1
  AllowUnmanaged = TRUE
SYMMETRY Symmetry
INVARIANTS
  RowHasFile
  PictureOfItsPerson
  ObservationHasFile
  FilesAccounted
