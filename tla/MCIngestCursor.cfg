SPECIFICATION Spec
CONSTANTS
  Allowlist = {"api"}
  MaxRetries = 2
  RetryBase = 4
  MaxRetryDelay = 10
  MaxBytes = 9
  Budget = 8
  Symbols = {1}
  MaxSession = 3
  AutoActions = TRUE
  Seeds <- MCSeeds
  MaxSeeds = 0
  Seeded = {1}
  ActionDays = {}
  MaxFaults = 1
  MaxChecks = 1
INVARIANTS
  CaughtUpFromEarliestMissing
CHECK_DEADLOCK FALSE
