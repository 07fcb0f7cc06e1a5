SPECIFICATION Spec
CONSTANTS
  Key = {hr0, coil0}
  BadAddr = bad
  Value = {v1, v2}
  d = d
  DefaultOf <- MCDefault
  Sector = {s0, s1}
  Sector0 = s0
  NOWHERE = NOWHERE
INVARIANTS PointsArePersistent
