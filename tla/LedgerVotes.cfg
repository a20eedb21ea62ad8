SPECIFICATION Spec
CONSTANTS
  Installation = {a}
  Request = {q, r}
  NoDevice = NoDevice
  NoOne = NoOne
  dev = dev
  Device <- SameDevice
  Server = server
  Operator = {cli}
  Reporter = {}
  LastDay = 2
  MaxPublish = 1
  MaxWipe = 1
  MaxCount = 1
  TokenPerIncense = 2
  StarterIncense = 1
  AbsurdClaim = 3
  ClaimTokens = {1}
SYMMETRY Symmetry
INVARIANTS TypeOK NoOverspend ReceiptsMatchVotes StatsMatchVotes UsedMatchesVotes ArchiveMatchesDay ReadsParse
PROPERTIES ImplementsPromise OutcomeIsFinal
