\* Three copies or new stores, two names for the replaced one, two losses of power
\* or deaths, two steps that fail.
SPECIFICATION Spec
CONSTANTS
  t = t
  r = r
  s = s
  p = p
  q = q
  v = v
  u = u
  Name <- MCName
  Target = t
  Rollback = {r, s}
  MaxInode = 3
  Partial <- MCPartial
  Backup = Backup
  Torn = Torn
  MaxWrites = 2
  MaxFaults = 2
  MaxCrashes = 2
  None = None
SYMMETRY MCSymmetry
CHECK_DEADLOCK FALSE
INVARIANTS
  TypeOK
  RecoversUnaided
  OldStoreKept
PROPERTIES
  KeepsSwap
