SPECIFICATION FairSpec
CONSTANTS
  word = word
  note = note
  p1 = p1
  p2 = p2
  p3 = p3
  Apps = {word}
  Pids = {p1, p2}
  MaxStarts = 3
  StartupGrace = 1
  IdleTimeout = 0
  ChildGrace = 1
  SuppressTime = 1
  Protections = {"none", "kill", "read"}
  ReusePids = TRUE
  Relock = TRUE
  HandleInfo = {TRUE, FALSE}
INVARIANTS
  AllowedIsObserved
PROPERTIES
  SessionsEnd
