SPECIFICATION Spec
CONSTANTS
  Threads = {ui, monitor}
  ui = ui
  monitor = monitor
  x = x
  blank = blank
  Characters = {x, blank}
  Blank = blank
  Raw <- Short
  Width = 3
  OldLogs <- Old
  MaxRows = 4
  MayFail = TRUE
INVARIANTS
  TypeOK
  ChainHolds
PROPERTIES
  AppendOnly
