SPECIFICATION PipelinesSpec
CONSTANTS
  Holders = {"h1", "h2"}
  Holdings <- MCHoldings
  Revisions <- MCRevisions
  Brokerage = FALSE
  DefaultRate = 0
  TypeRates <- MCTypeRates
  Lookback = 2
  Correctors = {"c1", "c2"}
  CorrectionOf <- MCCorrections
  LastDay = 3
  MaxFaults = 2
  Portfolios = {"p1", "p2", "p3"}
  Drifted = {"p2"}
  Notices <- MCNotices
  AcquiredOn <- MCAcquired
  MaxTrades = 1
  MaxMishaps = 1
CHECK_DEADLOCK FALSE
  
PROPERTIES  OwedIsPaid EntitledIsAdjusted
