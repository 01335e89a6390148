SPECIFICATION ClassifySpec
CONSTANTS
  s1 = s1
  c1 = c1
  c2 = c2
  c3 = c3
  Unknown = Unknown
  MaxRetries = 2
  SemanticRetries = 2
  MaxReductions = 3
  MaxContext = 20
  LeastContext = 9
  Transcripts <- MCTranscripts
  NotesCost = 2
  TurnCost = 2
  MarkerCost = 1
  Scenarios = {s1}
  Capabilities = {c1, c2, c3}
CHECK_DEADLOCK FALSE
INVARIANTS
  RequestsBounded
  AnswersHonest
PROPERTIES
  RepeatsShrink
