SPECIFICATION HistorySpec
CONSTANTS
  Voter = {v}
  LastDay = 3
  Span = 2
  BankSize = 1
  MaxQueued = 2
  ScheduleDay = {0, 2}
  Event = {"restart", "status", "publish", "clear", "add", "seed", "replace"}
  EventDay = {2}
  MaxEvents = 1
INVARIANTS PeriodsAddUp TitlesAccounted CopiesComplete
CHECK_DEADLOCK FALSE
