SPECIFICATION AnswersFairSpec
CONSTANTS
  Installation = {a}
  Request = {r}
  NoDevice = NoDevice
  NoOne = NoOne
  dev = dev
  Device <- SameDevice
  Server = server
  Operator = {cli}
  Reporter = {cli}
  LastDay = 2
  MaxPublish = 0
  MaxWipe = 1
  MaxCount = 1
  TokenPerIncense = 2
  StarterIncense = 1
  AbsurdClaim = 3
  ClaimTokens = {1, 5}
INVARIANTS VoteAnswerParses
PROPERTIES SnapshotCatchesUp
