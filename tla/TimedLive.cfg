SPECIFICATION FairSpec
CONSTANTS
  Mode = {"online", "local"}
  Choice = {"down"}
  MaxCount = 1
  MaxLeft = 1
  LastDay = 1
  LastCase = 1
  MaxJobs = 1
  MaxManual = 1
  MaxToggles = 1
  MaxSwitches = 1
  MaxRestarts = 0
INVARIANTS KeepsWatch
PROPERTIES Yields Settles
CHECK_DEADLOCK FALSE
