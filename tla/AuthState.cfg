SPECIFICATION Spec
CONSTANTS
  cat = cat
  dog = dog
  ox = ox
  Passwords = {cat, dog, ox}
  Strong = {cat, dog}
  NoPassword = NoPassword
  MaxFailed = 3
  BaseLockout = 1
  MaxLockout = 3
  MaxLockouts = 2
  MaxKeys = 2
  WritesMayFail = TRUE
  MayCrash = TRUE
INVARIANTS
  TypeOK
  Loadable
  ReaderAccepted
  AttemptsCounted
  StoredIsSeen
PROPERTIES
  PasswordKept
  LockoutsEscalate
SYMMETRY Symmetry
