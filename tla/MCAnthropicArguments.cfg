SPECIFICATION Spec
CONSTANTS
  Providers = {"anthropic"}
  MaxRetries = 0
  BaseDelay = 2
  MaxDelay = 3
  IntLimit = 8
  MaxBlocks = 2
  MaxParts = 2
INVARIANT AnthropicArgumentsComplete
CHECK_DEADLOCK FALSE
