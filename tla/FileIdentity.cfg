SPECIFICATION Spec

CONSTANTS
  app = app
  old = old
  new = new
  Paths = {app}
  Contents = {old, new}
  NoDigest = NoDigest
  Ttl = 1
  MaxTime = 2
  MaxStamps = 2
  MayReturn = TRUE

INVARIANTS
  TypeOK
  IssueMeansChanged
PROPERTIES
  ErrorsWearOff
CHECK_DEADLOCK FALSE
