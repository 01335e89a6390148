SPECIFICATION FairSpec
CONSTANTS
  a = a
  b = b
  Damaged = Damaged
  Absent = Absent
  Names <- MCNames
  Lineage <- MCLineage
  Digests <- MCDigests
  Plans <- MCPlans
INVARIANTS
  PublishedNeverRemoved
  SuccessIsExact
PROPERTIES
  ImplementsRelease
  RetryCleans
