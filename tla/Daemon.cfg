CONSTANTS
  BookPrices <- MCBookPrices
  Fixtures <- MCFixtures
  FinalSnapshot <- MCFinalSnapshot
  ChannelCapacity = 1
  MaxStarts = 4
  MaxTroubles = 2
  MaxRuns = 2
  MaxStops = 2
  c1 = c1
  c2 = c2
  StopCallers <- MCStopCallers
SPECIFICATION MCSpec
INVARIANTS LogContinuesFixture ServedWasPersisted RunningStaysOwned
PROPERTIES DaemonSettles
CHECK_DEADLOCK FALSE
