\* One drive, overlapping runtimes, commands during deliveries, leases that run out.
SPECIFICATION Spec
CONSTANTS
  w1 = w1
  w2 = w2
  a1 = a1
  Drive = {1}
  Targeted = {1}
  Priority <- MCPriority
  Agent = {a1}
  Detail = {x1, x2}
  Worker <- MCWorker
  MaxAttempts = 2
  Lease = 1
  RetryDelay = 1
  Punctual = FALSE
  Skew = 1
  MaxCommands = 3
  MaxClaims = 3
  MaxInterrupts = 1
  None = None
SYMMETRY WorkerSymmetry
CHECK_DEADLOCK FALSE
INVARIANTS
  TypeOK
  OneSettler
PROPERTIES
  AcknowledgesWhatWasDelivered
  KeepsCourse
