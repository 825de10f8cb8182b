SPECIFICATION Spec
CONSTANTS
  a1 = a1
  a2 = a2
  b1 = b1
  A = A
  B = B
  s = s
  t = t
  Jobs = {a1, a2, b1}
  Projects = {A, B}
  Merged = {A}
  Services = {s, t}
  v1 = v1
  v2 = v2
  Versions = {v1, v2}
  Deploy <- MCDeploy
  MaxCommits = 4
  Faults = {"lost", "error"}
CHECK_DEADLOCK FALSE
INVARIANTS TypeOK OnlyOwnChanges RevisionIsDeployed
PROPERTIES OwnCommitIsKnown KeepsDeployLog
