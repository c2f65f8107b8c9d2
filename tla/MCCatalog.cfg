SPECIFICATION CatalogSpec
SYMMETRY CatalogSymmetry
CONSTANTS
  f1 = f1 f2 = f2 m1 = m1 m2 = m2 m3 = m3 h1 = h1 h2 = h2 q1 = q1 q2 = q2
  b1 = b1 u1 = u1 u2 = u2 n1 = n1 n2 = n2 t1 = t1 t2 = t2
  tmdb = tmdb la = la lb = lb lc = lc k1 = k1 k2 = k2 g1 = g1 l1 = l1
  Resolvers = {f1, f2}
  Items = {m1, m2, m3, h1, h2, q1, q2}
  Shelves <- MCShelves
  TypeOf <- MCTypeOf
  SeriesOf <- MCSeriesOf
  NumberOf <- MCNumberOf
  Offers <- MCOffers
  Databases = {"sqlite", "d1"}
  MaxGenerations = 2
  MaxResolutions <- MCResolutions
  Visitors = {f1, f2}
  BoxSets = {b1}
  Contents <- MCContents
  LibraryOf <- MCLibraryOf
  Ambiguous = {u1}
  Scopes <- MCScopes
  TmdbIds = {t1, t2}
  NoTmdb = NoTmdb
  MaxClock = 2
  MaxServing = 2
  MaxVisits = 2
  Providers = {tmdb}
  Tmdb = tmdb
  Readers = {f1, f2}
  Editors = {g1}
  Languages = {la, lb}
  Configured = {lc}
  Unset = Unset
  Credentials = {k1, k2}
  FreshFor = 1
  StaleFor = 2
  MaxInstant = 2
  MaxEdits = 2
  MaxAsked = 3
  Openings = {f1, f2}
  Places = {l1}
  Copies = {1, 2}
  PlaceOf <- OnePlace
  Nothing = Nothing
  FreshDetail = 1
  StaleDetail = 2
  MaxHour = 2
  MaxServerEdits = 1
  MaxOpened = 2
  MaxListed = 1
  Deliveries = {f1, f2}
  Resources = {"small", "medium", "subtitle", "video"}
  Images = {"small", "medium"}
  Videos = {"video"}
  Size <- Sizes
  LargestBody = 2
  CacheSize = 1
  CacheTime = 1
  Endpoints = 3
  MostRedirects = 1
  MostVersions = 2
  MaxMinute = 2
  MaxReconfigured = 1
  MaxDelivered = 2
  Painters = {f1, f2}
  Hosts = {s1}
  Layouts = {1, 2}
  Pictures = {x1, x2}
  None = None
  TokenLife = 1
  MostManifests = 2
  MaxCoverTime = 1
  MaxTokens = 3
  MaxChanges = 1
INVARIANTS IdentityTypeOK GivenIdsLead TmdbEvidenceIsLatest ListedCollectionsOpen OneRequestPerCollection FailuresAreTold FailedEndpointsStayBehind
PROPERTIES ResolutionsGather NeverSplit ProvenMembersStay VerdictsFitCredentials IdentitiesDoNotTurn VersionsOutliveOutages CoversReplaceWhatWasSeen
CHECK_DEADLOCK FALSE
