SPECIFICATION FairSpec
CONSTANTS
  a = a
  b = b
  g = g
  Damaged = Damaged
  Absent = Absent
  Names <- MCNames
  Lineage <- MCLineage
  Digests <- MCDigests
  Inputs <- MCInputs
  Configs <- MCConfigs
  WorkerCounts = {1, 2}
  Residue = {3}
  OldRows <- Keys
INVARIANTS
  LabelsBelong
PROPERTIES
  NoChangeBeforeAnswers
  ImplementsRelease
  RetryCleans
