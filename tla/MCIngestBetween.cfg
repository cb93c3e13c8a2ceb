\* Expected violation: two live runs of one session.
SPECIFICATION Spec
CONSTANTS
  Tickers <- MCTickers
  Dates = {0, 1}
  Sessions = {1}
  MinMarketRows = 8000
  MaxMissingPct = 50
  Runs <- TwoRuns
  SessionOf <- SharedSession
  TickerLists <- AnyList
  VendorBodies <- AnyAnswer
  Retries = 1
  MaxThrottleWaits = 1
  MaxClears <- ClearNone
  NoFile = NoFile
PROPERTIES
  NothingChangesInBetween
