SPECIFICATION Spec
CONSTANTS
  w1 = w1
  w2 = w2
  k1 = k1
  k2 = k2
  k3 = k3
  Occurrence = {1, 2}
  Trigger = {t1}
  Key <- MCKeys2
  Worker <- MCWorker
  MaxAttempts = 2
  Lease = 1
  RetryDelay = 1
  ListLimit = 2
  Skew = 1
  MaxInterrupts = 1
  None = None
SYMMETRY WorkerKeySymmetry
INVARIANTS
  TypeOK
  AtMostOneDispatchPerAttempt
  CompletedByItsLastAttempt
  DeadLetterUsedEveryAttempt
  OneClaimant
PROPERTIES
  SettledIsFinal
  ClaimsInOrder
  KeepsContract
