CONSTANTS
  Inputs <- MCInputs
  Captures <- MCCaptures
  Tokens <- MCTokens
  LinkFields <- MCLinkFields
  None = None
  Malformed = Malformed
  Missing = Missing
  NoSession = Missing
SPECIFICATION Spec
INVARIANTS
  EveryLeafAccounted
  MountsProven
  NothingSilent
  RelaysSound
CHECK_DEADLOCK FALSE
