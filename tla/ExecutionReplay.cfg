\* One worker, no restart: the consumption succeeds, its record fails, the trigger is retried.
SPECIFICATION ExecSpec
CONSTANTS
  a1 = a1
  r1 = r1
  Authorization = {a1}
  Waiting = {}
  Request = {r1}
  Grant = {g1}
  Key = {k1, k2}
  Worker = {w1}
  RequestOf <- MCRequestOf
  FirstKey = k1
  GrantKey = k2
  PermitLifetime = 1
  GrantLifetime = 2
  UseLimit = 1
  MaxTime = 2
  MaxHeld = 1
  MaxRestarts = 0
  None = None
CHECK_DEADLOCK FALSE
INVARIANT
  ReplayRecoversRecord
