SPECIFICATION PartSpec
CONSTANTS
  Positions = {p1, p2}
  MaxConcurrentExits = 1
  Errors = {e1, e2, e3}
  Levels = 2
  MaxRetries = 3
  Senders = {s1, s2}
  Channels = {"console", "event"}
  RuleOrder <- RuleNames
  ChannelsOf <- RuleChannels
  MaxPerHour <- RulePerHour
  Cooldown <- RuleCooldown
  Hour = 2
  MaxSends = 3
  Askers = {c1, c2}
  FeedTokens = {t1}
  FeedPools = {pool1}
  Limit <- RequestLimit
  Sockets = {w1, w2}
  NoSocket = none
  Clients = {c1, c2}
  DbTokens = {"a", "b"}
  DbPools = {q}
  DbTrades = {t1, t2}
  DbPositions = {x1}
  NoTrade = none
  PairOf <- PairOfPools
  Users = {c1, c2}
  FirstDay = 3
  LastDay = 5
  MsPerDay = 10
  RetentionDays = 1
  MaxBackups = 1
  NeverCleaned = never
  MaxTimers = 2
  MaxCopies = 1
  Evaluations = {v1, v2}
  TokenPools <- SolPools
  Known = {"sol"}
  Sound = {"x"}
  Window = 2
  MaxLatency = 1
  Unknown = unknown
SYMMETRY Symmetry
INVARIANTS OneExitPerPosition RecoveryIsExclusive OvershootBounded RequestsBounded RecordsAreLinked TablesBeforeStatements AnswersAreRecent
CHECK_DEADLOCK FALSE
