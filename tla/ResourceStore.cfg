SPECIFICATION Spec
CONSTANTS
  r1 = r1
  r2 = r2
  k1 = k1
  k2 = k2
  k3 = k3
  s1 = s1
  c1 = c1
  c2 = c2
  None = None
  Res <- MCRes
  Key <- MCKey
  State = {s1}
  Client <- MCClient
  MaxBatch = 2
  Requests <- MCRequests
  MaxTime = 1
SYMMETRY Symmetry
CONSTRAINT SmallBatches
INVARIANTS
  TypeOK
  AuditPasses
  AllOrNothing
  AnswersAreRecorded
  NoLostUpdate
PROPERTY
  KeepsSerial
