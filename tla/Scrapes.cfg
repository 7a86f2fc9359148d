SPECIFICATION FairSpec
CONSTANTS
  k1 = k1
  k2 = k2
  h1 = h1
  s1 = s1
  s2 = s2
  NoHosts = NoHosts
  NotWatched = NotWatched
  Chis <- OneChi
  HostLists <- OneList
  Scrapers <- TwoScrapers
  Faults <- FaultNames
  MaxEdits = 3
  MaxStarts = 1
  MaxRestarts = 0
CHECK_DEADLOCK FALSE
INVARIANT TypeOK
PROPERTY ScrapeSeesOneList
PROPERTY RemovalsApplied
