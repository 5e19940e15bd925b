CONSTANTS
  Cells = {c1, c2, c3}
  Self = self
  Regions = {r1, r2, r3}
  Cap = 1
  Slots = {s1, s2}
  Null = null
SPECIFICATION Spec
INVARIANTS
  GarbageIsOld
  SweepComplete
SYMMETRY Interchangeable
CHECK_DEADLOCK FALSE
