SPECIFICATION Spec
CONSTANTS
  a1 = a1
  a2 = a2
  g1 = g1
  k1 = k1
  k2 = k2
  r1 = r1
  r2 = r2
  Authorization <- MCAuthorization
  Waiting <- MCWaiting
  Request = {r1, r2}
  Grant = {g1}
  Key = {k1, k2}
  PermitLifetime = 2
  GrantLifetime = 3
  UseLimit = 2
  MaxTime = 2
  MaxHeld = 2
  MaxRestarts = 1
  None = None
SYMMETRY KeySymmetry
CONSTRAINTS SecondRequestBound AttemptBound CommandBound GrantBound HeldBound
CHECK_DEADLOCK FALSE
INVARIANTS
  TypeOK
  GrantUsesAccounted
  ConsumedAtMostOnce
  ConsumedUnderAuthority
  PermitsFollowPolicy
PROPERTIES
  KeepsLedger
