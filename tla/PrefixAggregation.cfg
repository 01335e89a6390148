SPECIFICATION BothSpec
CONSTANTS
  x = x
  y = y
  s1 = s1
  u1 = u1
  u2 = u2
  t1 = t1
  t2 = t2
  p = p
  q = q
  Missing = Missing
  NoResult = NoResult
  Null = Null
  Tokens <- MCTokens
  HashOf <- MCHash
  Captures <- MCCaptures
  MaxInputs = 3
  CacheLimit = 2
INVARIANTS
  IndexExact
  CacheCoherent
  NoCrossScopeLineage
  SameResult
PROPERTIES
  ImplementsAggregation
CHECK_DEADLOCK FALSE
