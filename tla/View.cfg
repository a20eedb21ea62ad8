SPECIFICATION FairSpec
CONSTANTS
  Asks = {"refresh"}
  MaxErrors = 2
  MaxPresses = 1
  MaxActs = 3
INVARIANTS InStep PressSpendsOnce
PROPERTIES CatchesUp PressEnds
CHECK_DEADLOCK FALSE
