SPECIFICATION Spec
CONSTANTS
  c1 = c1
  c2 = c2
  x = x
  y = y
  z = z
  None = None
  OldSchema = OldSchema
  Paths <- MCPaths
  Contents <- MCContents
  Configs <- MCConfigs
  Kind <- MCKind
  BatchItems = 2
INVARIANTS
  PublishedIsFresh
