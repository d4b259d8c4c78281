SPECIFICATION Spec
CONSTANTS
  MaxMessages = 3
  MaxTokens = 8
  ToolTokens = 2
  MaxIterations = 2
  FallbackIds = FALSE
  MaxTurns = 2
  MaxCalls = 2
  MaxFaults = 1
INVARIANTS RequestWellFormed WindowKeepsQuery ShownAnswerSurvives CancelStopsRequests
PROPERTIES TurnEnds
CHECK_DEADLOCK FALSE
