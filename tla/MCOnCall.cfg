\* Every command, beside ingests, edits and alerts.
SPECIFICATION OnCallSpec
CONSTANTS
  Tickers <- MCTickers
  Dates = {0, 1, 2}
  MinMarketRows = 8000
  MaxMissingPct = 50
  Sessions = {1, 2}
  TickerLists <- MCLists
  NoFile = NoFile
  Deliveries <- MCDeliveries
  Paths = {1, 2, 3}
  Sources <- MCSources
  Excluded = {2}
  Texts = {"front", "body"}
  Stripped <- MCStripped
  Heading <- MCHeading
  NoHeading = "none"
  Stem <- MCStem
  Undecodable = Undecodable
  Directory = Directory
  Absent = Absent
  CaseIds = {"c1", "c2"}
  Ids = {1, 2, 3}
  Digest <- MCDigest
  Events <- MCEvents
  SignalsByHand <- MCSignalsByHand
  DemoAt = 1
  MaxClock = 2
  Jobs <- MCJobs
  Trees <- MCTrees
  NoSignal = NoSignal
  Script <- MCScript
  Contents = {"s1", "s2"}
  Exhausted = Exhausted
  MaxMessages = 2
  MaxRequests = 4
  Words = {"a", "b", "c"}
  Dim = 2
  Hash <- MCHash
  ChunkLists <- MCChunkLists
  Traces = {"t1", "t2"}
  All = All
  NoLog = NoLog
  Blank = Blank
  Torn = Torn
  Unreadable = Unreadable
  MaxLines = 3
  StartDay = 1
  LastDay = 4
  MaxManual = 1
  Members = {"A", "B"}
  MaxSnapshots = 2
INVARIANTS
  OnCallTypeOK
  AuditLinesTrue
  AuditIsComplete
  UntouchedAreIndexed
  CorpusIsOrdered
  UndisturbedLoadSucceeds
  SignalsKeepTheirEvents
  FallbackFits
  InputsBeforeBacklog
  GoldenAgrees
  RecordedAsAsked
  ScriptReplayed
  RowsStandAlone
  RowsAreUnitOrZero
  TracesAgree
  SessionsAreOver
  ScheduleLeavesNoHole
  HistoryIsKept
PROPERTIES
  EveryCommandReturns
  AnswersOnlyGrow
