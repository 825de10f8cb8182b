SPECIFICATION Spec
CONSTANTS
  a = a
  b = b
  c = c
  Jobs = {a, b, c}
  Commit <- MCCommit
  Legacy <- MCLegacy
  MaxPatch = 3
  Faults = {"fetch", "kept"}
SYMMETRY Attempts
CONSTRAINT OneKind
CHECK_DEADLOCK FALSE
INVARIANTS TypeOK SuccessIsReleased VersionsFollowHistory OneVersionPerCommit
PROPERTIES KeepsVersionLog
