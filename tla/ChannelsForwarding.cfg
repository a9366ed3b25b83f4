\* A chain of three channels and two messages, no crash: a forwarding that is never recorded.
SPECIFICATION Spec
CONSTANTS
  p = p
  a = a
  b = b
  m1 = m1
  m2 = m2
  Channel <- MCChannel
  Mode <- MCMode
  Capacity <- Roomy
  Member = {p, a, b}
  Founders <- MCFounders
  Applicants <- MCApplicants
  Origin = {m1, m2}
  Home <- One
  Priority <- Zero
  Life <- Two
  Wire <- MCWire
  Laid = {1, 2}
  From <- MCFrom
  To <- MCTo
  Publisher <- MCPublisher
  MaxHops <- MCMaxHops
  HopLimit = 2
  Lease = 1
  RetryDelay = 1
  ListLimit = 8
  Skew = 0
  MaxTime = 0
  MaxClaims = 0
  MaxChanges = 0
  MaxCrashes = 0
  None = None
SYMMETRY Consumers
CHECK_DEADLOCK FALSE
PROPERTIES
  ForwardsWhatIsCommitted
