SPECIFICATION Spec
CONSTANTS
  c1 = c1
  c2 = c2
  k1 = k1
  k2 = k2
  w1 = w1
  w2 = w2
  f1 = f1
  f2 = f2
  f3 = f3
  f4 = f4
  home = home
  page1 = page1
  Origins <- MCOrigins
  Contents <- MCContents
  Kinds <- MCKinds
  Local <- MCLocal
  Pages <- MCPages
  Extractable <- MCExtractable
  Workers <- MCWorkers
  MaxFiles = 2
  MaxFolders = 2
  MaxCrashes = 0
SYMMETRY Symmetry
INVARIANTS
  LedgerRehydrates
CHECK_DEADLOCK FALSE
