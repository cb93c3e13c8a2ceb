\* Expected violation: the runbook clears fetch_ohlcv alone.
SPECIFICATION Spec
CONSTANTS
  Tickers <- MCTickers
  Dates = {0, 1}
  Sessions = {1}
  MinMarketRows = 8000
  MaxMissingPct = 50
  Runs <- TwoRuns
  SessionOf <- SharedSession
  TickerLists <- OneList
  VendorBodies <- AnyAnswer
  Retries = 1
  MaxThrottleWaits = 1
  MaxClears <- ClearEither
  NoFile = NoFile
INVARIANTS
  EveryFetchIsValidated
