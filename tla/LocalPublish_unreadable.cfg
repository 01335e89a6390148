SPECIFICATION Spec
CONSTANTS
  a = a
  b = b
  j1 = j1
  j2 = j2
  Absent = Absent
  Names <- MCNames
  Digests <- MCDigests
  Plans <- MCPlans
  Jobs <- MCJobs
  Scenes <- One
  Faults <- Unreadable
INVARIANTS
  PublishedNeverRemoved
