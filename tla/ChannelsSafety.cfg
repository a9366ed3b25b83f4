\* Three channels of the three modes, two messages, one crash.
SPECIFICATION Spec
CONSTANTS
  p = p
  a = a
  b = b
  m1 = m1
  m2 = m2
  Channel <- MCChannel
  Mode <- MCMode
  Capacity <- MCCapacity
  Member = {p, a, b}
  Founders <- MCFounders
  Applicants <- MCApplicants
  Origin = {m1, m2}
  Home <- One
  Priority <- Zero
  Life <- One
  Wire <- MCWire
  Laid = {1}
  From <- MCFrom
  To <- MCTo
  Publisher <- MCPublisher
  MaxHops <- MCMaxHops
  HopLimit = 2
  Lease = 1
  RetryDelay = 1
  ListLimit = 4
  Skew = 1
  MaxTime = 1
  MaxClaims = 2
  MaxChanges = 1
  MaxCrashes = 1
  None = None
SYMMETRY Consumers
CHECK_DEADLOCK FALSE
INVARIANTS
  TypeOK
  WiresAcyclic
  AcknowledgedByAll
  MailboxesBounded
PROPERTIES
  AcknowledgedByItsClaimant
  KeepsRelay
