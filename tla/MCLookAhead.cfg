SPECIFICATION ResearchSpec
CONSTANTS
  Scale = 20
  Adverse = 1
  Commission = 0
  Participation = 10
  Whole = 10
  MaxWeight = 8
  MinCash = 1
  MaxGross = 10
  VolTarget = 10
  Band = 1
  Entities <- MCEntities
  LongTermDays = 20
  Level = 100
  Lookback = 3
  Skip = 1
  TrendWindow = 3
  AdvWindow = 2
  VolWindow = 3
  Volatility <- MCVolatility
  EntryRank = 2
  HoldRank = 3
  MaxPositions = 2
  MaxNewPositions = 1
  MinAdv = 10
  Clusters <- MCClusters
  MaxMembers = 1
  Missing <- MCMissing
  EntityOrder <- MCOrder
  Risk <- MCRisk
  CashEtf = "c"
  Primary = "m"
  Calendar <- MCCalendar
  WeekLength = 4
  InitialCash = 400000
  MaxFillBars = 3
  ReportInterval <- MCInterval
  MetricWindow = 5
  MonthOfSession <- MCMonthOf
  MonthLength <- MCMonths
  MonthsPerYear = 2
  MaxSplits = 6
  Interval <- MCInterval
  SessionsPerMonth = 6
  One = 100
  DefaultDelay <- MCDefaultDelay
  Market <- MCMarket
  Charter <- MCCharter
  Definitions <- MCWorkedLong
  KnownSnapshots = {"s1"}
  MaxExperiments = 2
  MaxTrials = 2
  MaxLog = 6
  Grid <- MCGrid
  Pinned = "pinned"
  Threshold = 3
  MaxAttempts = 2
INVARIANTS
  NothingReadsALaterSession
CHECK_DEADLOCK FALSE
