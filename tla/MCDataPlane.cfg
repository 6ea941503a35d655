SPECIFICATION Spec
CONSTANTS
  Allowlist = {"api"}
  MaxRetries = 2
  RetryBase = 4
  MaxRetryDelay = 10
  MaxBytes = 9
  Budget = 2
  Symbols = {1, 2}
  MaxSession = 2
  AutoActions = TRUE
  Seeds <- MCSeeds
  MaxSeeds = 1
  Seeded = {1}
  ActionDays <- MCActionDays
  MaxFaults = 1
  MaxChecks = 1
INVARIANTS
  OverrunIsBounded
  OrphansHeal
  CursorLeavesNoHole
  ActionsComeFirst
CHECK_DEADLOCK FALSE
