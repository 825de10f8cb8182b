SPECIFICATION Spec
CONSTANTS
  a = a
  b = b
  c = c
  Jobs = {a, c}
  Commit <- MCTwo
  Legacy <- MCLegacy
  MaxPatch = 3
  Faults = {}
CHECK_DEADLOCK FALSE
INVARIANT RetryIsAccepted
