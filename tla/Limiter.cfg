SPECIFICATION BudgetSpec
CONSTANTS
  Voter = {a, b}
  Rate = 1
  BudgetWindow = 2
  Burst = 2
  MaxActiveKeys = 1
  MaxCount = 3
  LastTick = 9
INVARIANTS NoOverdraw
PROPERTIES EvictedKeepMinute
