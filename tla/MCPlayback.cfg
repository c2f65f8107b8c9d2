SPECIFICATION StorageSpec
CONSTANTS
  c1 = c1 c2 = c2 v1 = v1
  Canonicals = {c1, c2}
  Sessions = {1, 2}
  Versions = {v1}
  NoCanonical = NoCanonical
  NoVersion = NoVersion
  Patches = {"unplayed"}
  Runtime = 1
  Idle = 1
  MaxTime = 3
  MaxReports = 1
  MaxRevision = 3
  MaxReads = 2
INVARIANTS TablesAreSound
PROPERTIES WatermarksAdvance ImplementsFold
SYMMETRY CanonicalSymmetry
