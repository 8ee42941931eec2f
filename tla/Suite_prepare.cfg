SPECIFICATION SuiteOnBase
CONSTANTS
  s1 = s1  s2 = s2  s3 = s3  x1 = x1  x2 = x2  y1 = y1  f1 = f1  f2 = f2
  alpha = alpha  beta = beta  rent = rent
  Catalog <- CatalogOfSuite
  Selections <- SelectionsOfSuite
  MaxOption = 2
  NoGroup = NoGroup
  NoPreparation = NoPreparation
  Shared = {s1, s2, s3}
  Exclusive = {x1, x2}
  MaxLimit = 3
  MaxRounds = 2
INVARIANT PreparedBeforeScheduled
CHECK_DEADLOCK FALSE
