SPECIFICATION SessionsSpec
CONSTANTS
  word = word
  note = note
  p1 = p1
  p2 = p2
  p3 = p3
  Apps = {word, note}
  Pids = {p1, p2}
  MaxStarts = 3
  StartupGrace = 2
  IdleTimeout = 0
  ChildGrace = 3
  SuppressTime = 1
  Protections = {"none", "kill"}
  ReusePids = TRUE
  Relock = FALSE
  HandleInfo = {TRUE, FALSE}
  CancelHold = 3
  ScanTicks = 1
INVARIANTS
  SessionsTypeOK
  SurvivorsAccounted
  AllowedIsCurrent
PROPERTIES
  NotAskedWhileUnlocked
SYMMETRY Symmetry
