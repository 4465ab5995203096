SPECIFICATION InfoSpec
CONSTANTS
  Evaluations = {v1}
  TokenPools <- SolPools
  Known = {"sol"}
  Sound = {"x"}
  Window = 2
  MaxLatency = 1
  Unknown = unknown
INVARIANT GoodPoolsAreApproved
