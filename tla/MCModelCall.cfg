SPECIFICATION Spec
CONSTANTS
  Providers = {"openai", "anthropic"}
  MaxRetries = 3
  BaseDelay = 3
  MaxDelay = 5
  IntLimit = 8
  MaxBlocks = 2
  MaxParts = 2
INVARIANTS StreamedOnce OpenAiArgumentsComplete
PROPERTIES CallEnds
CHECK_DEADLOCK FALSE
