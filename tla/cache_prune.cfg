SPECIFICATION Spec
CONSTANTS
  art = art
  crate = crate
  pack = pack
  Files = {art, crate, pack}
  Dirs <- DirNames
  Artifacts = {"artifacts"}
  DirOf <- Where
  Size <- Sizes
  Capacity = 6
  High = 4
  Low = 3
  MaxRuns = 2
  MaxClock = 2
  MaxOther = 1
CHECK_DEADLOCK FALSE
INVARIANTS TypeOK OverdueIsGone
PROPERTIES ArtifactsKeepTheirTime WarmCacheStays
