SPECIFICATION FairSpec
CONSTANTS
  a = a
  b = b
  j1 = j1
  j2 = j2
  Absent = Absent
  Names <- MCNames
  Digests <- MCDigests
  Plans <- MCPlans
  Jobs <- MCJobs
  Scenes <- OneOrTwo
  Faults <- StopOrPower
INVARIANTS
  SuccessIsExact
  PublishedNeverRemoved
PROPERTIES
  CommitIsWhole
  ImplementsRelease
  RetryCleans
