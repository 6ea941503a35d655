SPECIFICATION Spec
CONSTANTS
  Scale = 100
  Adverse = 1
  Commission = 1
  Participation = 10
  Whole = 10
  MaxWeight = 8
  MinCash = 1
  MaxGross = 10
  VolTarget = 10
  Band = 2
  Entities <- MCEntities
  LongTermDays = 3
  InitialCash = 100
  DelayBars = 1
  MaxFillBars = 2
  Week = 2
  Percent = 100
  HoldDrawdown = 15
  HaltDrawdown = 10
  DailyLoss = 5
  Sessions = 6
  Price <- MCPrice
  ThinVolume = 20
  FullVolume = 50
  Splits <- MCSplits
  Passive <- MCPassive
  Targets <- MCTargets
  EntityRank <- MCRank
  FirstDays <- MCFirstDays
  ReArmTargets = {"NORMAL"}
  MaxTrouble = 2
  MaxReArms = 1
  Unknown = Unknown
INVARIANTS
  HaltsAreSticky
  UnresolvedBreaksHold
  OutcomesInOrder
  DeferralIsNoBreak
  GapsAreReported
  FrozenBookStaysFrozen
PROPERTIES
  SealsTheUpcoming
CHECK_DEADLOCK FALSE
