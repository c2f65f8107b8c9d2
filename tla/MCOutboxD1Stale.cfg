SPECIFICATION FairD1Spec
CONSTANTS
  i1 = i1 i2 = i2 s1 = s1 s2 = s2 c1 = c1 p1 = p1 p2 = p2 r1 = r1 r2 = r2
  Items = {i1}
  Servers = {s1}
  Canonicals = {c1}
  Payloads = {p1, p2}
  Runs = {r1}
  NoRun = NoRun
  NoPayload = NoPayload
  ServerOf <- OneServer
  MaxRevision = 2
  MaxGeneration = 2
  CanStop = FALSE
  CanUnbind = FALSE
  EqualRevisionMerge = FALSE
  MaxWrites = 1
PROPERTIES Converges
