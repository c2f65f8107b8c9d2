SPECIFICATION DutiesSpec
SYMMETRY AdministrationSymmetry
CONSTANTS
  f1 = f1 f2 = f2 e1 = e1 e2 = e2 uA = uA uB = uB cA = cA cB = cB
  i1 = i1 s1 = s1 c1 = c1
  Items = {i1}
  Upstreams = {s1}
  Canonicals = {c1}
  ServerOf <- OneServer
  MaxRevision = 2
  MaxUpstreamGeneration = 2
  CanStop = FALSE
  CanUnbind = TRUE
  EqualRevisionMerge = FALSE
  NoRun = NoRun
  NoPayload = NoPayload
  Fibers = {f1, f2}
  Passwords = {e1, e2}
  NoPassword = NoPassword
  Stores = {"sqlite", "d1"}
  Traffics <- MCTraffics
  Horizon <- MCHorizon
  MaxAttempts = 2
  Window = 2
  Lifetime = 3
  RefreshAfter = 2
  MaxTime = 3
  MaxGeneration = 3
  MaxGrants = 3
  MaxConnections = 1
  Created = 2
  Handlers = {f1, f2}
  Servers = {e1, e2}
  Urls = {uA, uB}
  Catalogs = {cA, cB}
  Anonymous = Anonymous
  None = None
  UpstreamPasswords = {1, 2}
  Platforms = {"sqlite", "d1"}
  Edits <- MCEdits
  Worlds <- MCWorlds
  Workloads <- MCWorkloads
  MaxServers = 1
  MaxServerGeneration = 2
  MaxStarts <- MCStarts
INVARIANTS AdministrationTypeOK CredentialsProveThePassword LimitsHold RemovalTakesTokens EligibleEndpointsAgree EligibleSourcesAreServed TokensFitTheConfiguration RowsAreSound CancelledDeliveriesSettle
PROPERTIES ChangesProveThePassword SessionsInUseStay BindingsAreCurrent
CHECK_DEADLOCK FALSE
