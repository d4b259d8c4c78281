SPECIFICATION Spec
CONSTANTS
  Providers = {"openai", "anthropic"}
  MaxRetries = 1
  BaseDelay = 3
  MaxDelay = 5
  IntLimit = 8
  MaxBlocks = 2
  MaxParts = 2
INVARIANT NoHalfResponseShown
CHECK_DEADLOCK FALSE
