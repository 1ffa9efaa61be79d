\* Two imports of two provider records, with renames and new people between.
SPECIFICATION IdentitySpec
CONSTANTS
  k1 = k1
  k2 = k2
  r1 = r1
  r2 = r2
  e1 = e1
  e2 = e2
  n1 = n1
  n2 = n2
  Null = Null
  Contact = {k1, k2}
  Run = {r1, r2}
  Email = {e1, e2}
  Name = {n1, n2}
  MaxPeople = 2
  MaxRename = 1
SYMMETRY Symmetry
PROPERTIES EditsAfterPreviewSurvive
\* When every run is confirmed or conflicts nothing is left to do.
CHECK_DEADLOCK FALSE
