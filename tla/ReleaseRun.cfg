SPECIFICATION ReleaseSpec
CONSTANTS
  Unknown = Unknown
  Roots <- MCRoots
  Estimates <- MCEstimates
  WorkerCounts = {1, 2}
  Samples <- MCSamples
  Target = 8
  Elastic = 11
  Ids <- MCIds
  Inputs <- MCInputs
  SessionOf <- MCSessionOf
  Synthesized = {"v"}
  CreatedAt <- MCCreatedAt
  Bytes <- MCBytes
  ShardLimits = {2, 4, 9}
  AuditWorkers = {1, 2}
  PendingLimit = 6
  Foreign = "other"
INVARIANTS
  SameAsSerial
  FailClosed
  BudgetRespected
  ReleaseExact
  AuditBounded
PROPERTIES
  ReleaseEnds
CHECK_DEADLOCK FALSE
