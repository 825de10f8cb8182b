CONSTANTS
  core = core
  web = web
  skills = skills
  list1 = list1
  list2 = list2
  None = None
  NoJob = NoJob
  Repos <- MCRepos
  Lists <- MCLists
  Columns = 4
SPECIFICATION BoardSpec
SYMMETRY Symmetry
INVARIANTS UniqueBoard WholeBoard
