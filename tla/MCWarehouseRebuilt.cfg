\* The fact against the sentence that its window is rebuilt.
SPECIFICATION Spec
CONSTANTS
  Tickers <- MCTickers
  Dates = {1, 2, 3, 4}
  MinMarketRows = 8000
  MaxMissingPct = 50
  Sessions = {1, 3, 4}
  TickerLists <- MCLists
  NoFile = NoFile
  Deliveries <- AnyDelivery
  SeedLists <- SteadySeed
  Lookback = 1
INVARIANTS
  WindowRebuilt
