\* Two runs of one session, a vendor that answers the same rows every time it
\* answers, one ticker list: retries, crashes and re-runs rewrite the same rows.
SPECIFICATION Spec
CONSTANTS
  Tickers <- MCTickers
  Dates = {0, 1}
  Sessions = {1}
  MinMarketRows = 8000
  MaxMissingPct = 50
  Runs <- TwoRuns
  SessionOf <- SharedSession
  TickerLists <- OneList
  VendorBodies <- SteadyAnswer
  Retries = 2
  MaxThrottleWaits = 1
  MaxClears <- ClearEither
  NoFile = NoFile
PROPERTIES
  RerunIsEquivalent
