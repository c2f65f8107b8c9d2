SPECIFICATION CompanionSpec
CONSTANTS
  i1 = i1 i2 = i2 s1 = s1 s2 = s2 c1 = c1 p1 = p1 p2 = p2 r1 = r1 r2 = r2
  Items = {i1, i2}
  Servers = {s1, s2}
  Canonicals = {c1}
  Payloads = {p1, p2}
  Runs = {r1, r2}
  NoRun = NoRun
  NoPayload = NoPayload
  ServerOf <- CompanionServer
  MaxRevision = 3
  MaxGeneration = 1
  CanStop = TRUE
  CanUnbind = FALSE
  EqualRevisionMerge = FALSE
  MaxWrites = 2
INVARIANTS SettledRowsAreTrue
SYMMETRY Symmetry
