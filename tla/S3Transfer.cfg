SPECIFICATION TransferSpec
CONSTANTS
  dir = dir
  None = None
  Captures <- MCCaptures
  Listings <- MCListings
  Sizes <- MCSizes
  Marker = dir
  Malformed = {3}
  ReadWorkers = 2
  ReadPrefetch = 2
  ReadBytes = 3
  ParseWorkers = {1, 2}
  ParseLimit = 3
  ParseBytes = 6
  ParseFactor = 1
  LeastParse = 1
  BatchItems = 2
  BatchBytes = 5
  Count = 4
  Parts <- MCParts
  LineageLimit = 2
  Workers = 2
  MaxPending = 3
CHECK_DEADLOCK FALSE
INVARIANTS
  IngestExact
  QueuesBounded
  ManifestExact
  NothingLeaked
PROPERTIES
  StoreOrdered
  RunEnds
