SPECIFICATION Spec
CONSTANTS
  k1 = k1
  k2 = k2
  h1 = h1
  s1 = s1
  s2 = s2
  NoHosts = NoHosts
  NotWatched = NotWatched
  Chis <- OneChi
  HostLists <- OneList
  Scrapers <- OneScraper
  Faults <- NoFaults
  MaxEdits = 2
  MaxStarts = 1
  MaxRestarts = 0
CHECK_DEADLOCK FALSE
INVARIANT RunningIsWatched
