SPECIFICATION ExecSpec
CONSTANTS
  a1 = a1
  r1 = r1
  Authorization = {a1}
  Waiting = {}
  Request = {r1}
  Grant = {g1, g2}
  Key = {k1, k2}
  Worker = {w1, w2}
  RequestOf <- MCRequestOf
  FirstKey = k1
  GrantKey = k2
  PermitLifetime = 1
  GrantLifetime = 2
  UseLimit = 1
  MaxTime = 2
  MaxHeld = 1
  MaxRestarts = 2
  None = None
CHECK_DEADLOCK FALSE
INVARIANTS
  ExecTypeOK
  DispatchedAtMostOnce
  OutcomesTellTheTruth
PROPERTIES
  KeepsContract
