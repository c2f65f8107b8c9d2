SPECIFICATION SceneSpec
CONSTANTS
  i1 = i1 i2 = i2 s1 = s1 c1 = c1 c2 = c2 p1 = p1 p2 = p2 r1 = r1 r2 = r2
  Items = {i1, i2}
  Servers = {s1}
  Canonicals = {c1, c2}
  Payloads = {p1, p2}
  Runs = {r1, r2}
  NoRun = NoRun
  NoPayload = NoPayload
  ServerOf <- OneServer
  MaxRevision = 2
  MaxGeneration = 1
  CanStop = TRUE
  CanUnbind = FALSE
  EqualRevisionMerge = FALSE
INVARIANTS SettledRowsAreTrue
PROPERTIES AcknowledgesLatest ImplementsReplication
SYMMETRY SceneSymmetry
