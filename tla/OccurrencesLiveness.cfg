\* Two occurrences over a listing page of one: what settles may hide the other.
SPECIFICATION FairSpec
CONSTANTS
  w1 = w1
  w2 = w2
  k1 = k1
  k2 = k2
  k3 = k3
  Occurrence = {1, 2}
  Trigger = {t1}
  Key <- MCKeys2
  Worker = {w1, w2}
  MaxAttempts = 2
  Lease = 1
  RetryDelay = 1
  ListLimit = 1
  Skew = 0
  MaxInterrupts = 1
  None = None
PROPERTIES
  EventuallySettles
