SPECIFICATION FairSpec
CONSTANTS
  Starter = 1
  Ceiling = 0
  Skew = {1, 2}
  Calls = {}
  Task = {t}
  NoTask = NoTask
  LastDay = 2
  MaxTokens = 2
  MaxCalls = 0
  MaxFaults = 1
  MaxReconciles = 1
  MaxRestarts = 0
PROPERTIES AllClaimed Follows
CHECK_DEADLOCK FALSE
