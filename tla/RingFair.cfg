CONSTANTS
  Threads = {t1, t2}
  Objects = {a, b, c}
  Size = 4
  IndexMod = 8
  MaxBulk = 2
  Dead = Dead
SPECIFICATION FairSpec
INVARIANTS
  RingTypeOK
PROPERTIES
  ImplementsFifo
  PutAlwaysSucceeds
  FailedGetSawTooFew
  InFlightCompletes
  FinishesAlone
