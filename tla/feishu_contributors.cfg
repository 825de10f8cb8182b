SPECIFICATION FairSpec
CONSTANTS
  Workers = {w1}
  Users = {u1}
  Runs = {1, 2}
  Attempts = {1}
  TaskIds = {t1, t2}
  NoTask = NoTask
  Idle = Idle
  Failures = FALSE
INVARIANT ContributorsAssigned
