SPECIFICATION MCSpec
CONSTANTS
  c1 = c1
  c2 = c2
  k1 = k1
  k2 = k2
  w1 = w1
  w2 = w2
  f1 = f1
  f2 = f2
  f3 = f3
  f4 = f4
  home = home
  page1 = page1
  Origins <- MCWorkspaceOrigins
  Contents <- MCContents
  Kinds <- MCKinds
  Local <- MCLocal
  Pages <- MCWorkspacePages
  Extractable <- MCExtractable
  Workers <- MCWorkers
  MaxFiles = 2
  MaxFolders = 2
  MaxCrashes = 1
  page2 = page2
  foreign = foreign
  Urls <- MCUrls
  Seed = home
  Sites <- MCSites
  Approved <- MCApproved
  Size <- MCSize
  PageLimits = {2, 3}
  MaxDepth = 1
  MaxTotal = 3
  CrawlRuns = 2
  CrawlKills = 1
  d1 = d1
  Sources = {s1, s2}
  Texts = {s1}
  Names = {n1, n2}
  DefaultName = n1
  Dirs = {d1, d2}
  MaxSuffixes = 1
  MaxBundles = 3
  ShellKills = 1
SYMMETRY Symmetry
INVARIANTS
  TypeOK
  LedgerResolvable
  RawStaged
  SingleKindRehydrates
  LedgerMatchesImports
  NoLinkLost
  ShortestDepth
  WithinLimits
  FetchedStaged
  PathsVerified
  DerivedFromNamesake
  TrainsOnSelection
PROPERTIES
  BundlesImmutable
CHECK_DEADLOCK FALSE
