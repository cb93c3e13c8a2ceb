\* Two runs of neighbouring sessions: no run touches the partition of another,
\* and under fairness of the scheduler and of execution_timeout both end.
SPECIFICATION FairSpec
CONSTANTS
  Tickers <- MCTickers
  Dates = {0, 1, 2}
  Sessions = {1, 2}
  MinMarketRows = 8000
  MaxMissingPct = 50
  Runs <- TwoRuns
  SessionOf <- OwnSessions
  TickerLists <- OneList
  VendorBodies <- FewAnswers
  Retries = 1
  MaxThrottleWaits = 1
  MaxClears <- ClearFirst
  NoFile = NoFile
PROPERTIES
  NothingChangesInBetween
  EveryRunSettles
