SPECIFICATION FairSpec
CONSTANTS
  Installation = {a, b}
  Shared = {a, b}
  Retirable = {a}
  NoOne = none
  Limit = 1
  MaxClaims = 2
  Target = 1
  Ttl = 3
  Cooldown = 2
  HitWindow = 2
  MissWindow = 1
  MaxKeys = 1
  PerMinute = 1
  MaxRounds = 2
  MaxTickets = 1
  MaxActs = 2
  MaxEach = 1
INVARIANTS TypeOK DevicePaid
PROPERTIES InUseKeepsDevice Recovers
