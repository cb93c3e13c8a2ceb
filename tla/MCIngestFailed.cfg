\* Expected violation: an attempt is interrupted after its rename, and the
\* next one fails at a gate.
SPECIFICATION Spec
CONSTANTS
  Tickers <- MCTickers
  Dates = {0, 1}
  Sessions = {1}
  MinMarketRows = 8000
  MaxMissingPct = 50
  Runs <- TwoRuns
  SessionOf <- SharedSession
  TickerLists <- OneList
  VendorBodies <- AnyAnswer
  Retries = 1
  MaxThrottleWaits = 1
  MaxClears <- ClearNone
  NoFile = NoFile
PROPERTIES
  GateFailureWroteNothing
