CONSTANTS
  w1 = w1
  w2 = w2
  Workers = {w1, w2}
  Catalogs <- SomeCatalogs
  Configurations <- SomeConfigurations
  TTL = 2
  NegativeTTL = 1
  FetchTimeout = 1
  Inodes = {i1, i2, i3}
  Lifetimes = {1, 2}
  DefaultLifetime = 2
  RefreshSkew = 1
  ExchangeTimeout = 1
  PollConfigs <- SomePolls
  DefaultInterval = 1
  MaxInterval = 1
  DefaultAttempts = 2
  AttemptsCap = 3
  MaxTotal = 3
  RequestTimeout = 1
SPECIFICATION Spec
INVARIANTS TypeOK AbsentMeansAbsent CallsCarryCredentials ServedIsRecent BuiltAloneIsWhole CachedTokenIsValid BudgetCoversPlan PinnedNoLonger
PROPERTIES HandlersReturn
