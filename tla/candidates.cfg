SPECIFICATION Spec
CONSTANTS
  c1 = c1
  c2 = c2
  Commits = {c1, c2}
  MaxAttempts <- Repeats
  MaxBuilds = 2
  None = None
CHECK_DEADLOCK FALSE
INVARIANTS TypeOK SparesActiveRuns CandidateStands DeployedIsTagged
