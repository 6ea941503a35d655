CONSTANTS
  Writers = {w1, w2}
  Sealers = {serve}
  PerDay = 2
  GraceDays = 1
  ManualDays = {2}
  MaxTime = 6
  MaxEvents = 2
  MaxCrashes = 1
SPECIFICATION FairSpec
INVARIANTS
  SealsHold
  GraceHolds
PROPERTIES
  BacklogIsSealed
