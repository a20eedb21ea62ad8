SPECIFICATION Spec
CONSTANTS
  Starter = 1
  Ceiling = 2
  Skew = {1}
  Calls = {"vote", "daily"}
  Task = {s, t, u}
  NoTask = NoTask
  LastDay = 2
  MaxTokens = 2
  MaxCalls = 1
  MaxFaults = 0
  MaxReconciles = 0
  MaxRestarts = 1
SYMMETRY Symmetry
CONSTRAINT Accounted
INVARIANTS TypeOK OwnDay
CHECK_DEADLOCK FALSE
