SPECIFICATION Spec
CONSTANTS
  MaxRuns = 2
  MaxRounds = 2
  i1 = i1
  i2 = i2
  c1 = c1
  c2 = c2
  Slot = {i1, i2}
  Scope = {c1, c2}
  None = None
SYMMETRY Symmetry
INVARIANTS
  EndedKeepsHistory
CHECK_DEADLOCK FALSE
