CONSTANTS
  Procs = {serve, cli}
  Runs = {1, 2}
  For <- OfOneJob
  DueLookback = 1
  MissedLookback = 3
  Deadline = 1
  MaxCrashes = 1
  Calm = 3
  MaxTime = 5
SPECIFICATION FairSpec
INVARIANTS
  InvokedOnce
  LedgerAgrees
  NothingSlips
PROPERTIES
  ClaimsSettle
