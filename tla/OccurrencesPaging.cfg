\* Three occurrences over a listing page of two.
SPECIFICATION Spec
CONSTANTS
  w1 = w1
  w2 = w2
  k1 = k1
  k2 = k2
  k3 = k3
  Occurrence = {1, 2, 3}
  Trigger = {t1}
  Key <- MCKeys3
  Worker = {w1}
  MaxAttempts = 1
  Lease = 1
  RetryDelay = 1
  ListLimit = 2
  Skew = 1
  MaxInterrupts = 0
  None = None
PROPERTY
  ClaimsInOrder
