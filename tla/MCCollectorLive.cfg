CONSTANTS
  Cells = {c1, c2}
  Self = self
  Regions = {r1, r2, r3}
  Cap = 1
  Slots = {s1, s2}
  Null = null
SPECIFICATION Spec
INVARIANT
  LiveObjectsSurvive
CHECK_DEADLOCK FALSE
