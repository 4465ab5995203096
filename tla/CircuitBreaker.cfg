SPECIFICATION FairSpec
CONSTANTS
  Calls = {c1, c2, c3}
  FailureThreshold = 3
  SuccessThreshold = 2
  Timeout = 2
  MaxAge = 3
INVARIANT ThresholdsActedOn
PROPERTIES OpensForWholeTimeout Recovers
