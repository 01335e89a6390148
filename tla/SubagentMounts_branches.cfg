CONSTANTS
  Inputs <- MCInputs
  Captures <- MCCaptures
  Tokens <- MCTokens
  LinkFields <- MCLinkFields
  None = None
  Malformed = Malformed
  Missing = Missing
  NoSession = Missing
SPECIFICATION Spec
INVARIANTS
  LargestBranchMounted
CHECK_DEADLOCK FALSE
