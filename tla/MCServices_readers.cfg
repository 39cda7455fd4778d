SPECIFICATION ServicesSpec
CONSTANTS
  Replicas = {r1}
  Users = {1, 2, 3}
  NameOf <- MCNames
  Timeframes = {"ALL", "1W"}
  Performances <- MCPerformances
  RefreshBatchSize = 2
  MaxLiveComputeUsers = 2
  MaxLeaderboardSize = 2
  MaxChanges = 1
  Entries = {1, 2, 3}
  RankingBatchSize = 2
  MaxMishaps = 2
  MaxFaults = 2
  Chains = {"twelvedata", "yahoo"}
  Symbols = {"A"}
  Callers = {c1}
  QuoteCacheTTL = 2
  QuoteStaleAfter = 1
  SearchLimit = 1
  MaxQuoteBatchSize = 2
  FrontTTL = 1
  StaleRetention = 6
  Minute = 1
  Day = 3
  maxPerMin = 1
  dailyBudget = 2
  BackoffTime = 2
  Timeout = 1
  LastTick = 5
  Tickers = {"FB", "META"}
  FIGIs = {"f1", "f2"}
  Resolvers = {r1, r2}
  Records = {x}
  LastDate = 3
  MaxRequests = 3
  MaxStops = 1
CHECK_DEADLOCK FALSE
INVARIANTS ReadersAgree FreshMeansRecent ProviderBudget 
PROPERTIES BoardOmitsNobody BoardIsWholeField 
