SPECIFICATION Spec
CONSTANTS
  Default = "online"
  LastDay = 2
  MaxRequests = 2
  MaxEvents = 4
  MaxActs = 2
INVARIANTS NoTokenTwice LiveCounted
CHECK_DEADLOCK FALSE
