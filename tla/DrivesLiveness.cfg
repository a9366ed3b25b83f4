\* Two drives, one scheduler that is stopped or killed once; deliveries end within their leases.
SPECIFICATION FairSpec
CONSTANTS
  w1 = w1
  w2 = w2
  a1 = a1
  Drive = {1, 2}
  Targeted = {1, 2}
  Priority <- MCPriority
  Agent = {a1}
  Detail = {x1}
  Worker = {w1}
  MaxAttempts = 2
  Lease = 2
  RetryDelay = 1
  Punctual = TRUE
  Skew = 1
  MaxCommands = 2
  MaxClaims = 8
  MaxInterrupts = 1
  None = None
CHECK_DEADLOCK FALSE
PROPERTIES
  EventuallySettles
