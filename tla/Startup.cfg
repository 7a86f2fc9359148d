SPECIFICATION Spec
CONSTANTS
  k1 = k1
  k2 = k2
  h1 = h1
  s1 = s1
  s2 = s2
  NoHosts = NoHosts
  NotWatched = NotWatched
  Chis <- TwoChis
  HostLists <- OneList
  Scrapers <- OneScraper
  Faults <- NoFaults
  MaxEdits = 3
  MaxStarts = 2
  MaxRestarts = 1
CHECK_DEADLOCK FALSE
SYMMETRY ChiSymmetry
INVARIANT NoneOverlooked
PROPERTY DroppedOnRequest
