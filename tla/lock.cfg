CONSTANTS
  Callers = {c1, c2, c3, c4}
  Inodes = {i1, i2, i3, i4, i5}
  None = None
SPECIFICATION Spec
INVARIANTS
  MutualExclusion
PROPERTIES
  OnlyHoldersRefuse
