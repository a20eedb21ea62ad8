SPECIFICATION Spec
CONSTANTS
  Mode = {"online"}
  Choice = {"up", "down"}
  MaxCount = 2
  MaxLeft = 2
  LastDay = 2
  LastCase = 2
  MaxJobs = 2
  MaxManual = 0
  MaxToggles = 1
  MaxSwitches = 0
  MaxRestarts = 1
INVARIANTS CountedExactly NothingForgotten OnePayload OneClosing
CHECK_DEADLOCK FALSE
