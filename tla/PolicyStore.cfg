SPECIFICATION FairSpec
CONSTANTS
  system = system
  copy = copy
  edit = edit
  paint = paint
  Apps = {system, copy}
  Names = {edit, paint}
  NameOf <- Same
  Listed = {system, copy}
  Digests = {1, 2}
  NoApp = NoApp
  NoDigest = NoDigest
  OldRules <- Old
  MaxChanges = 2
  MaxFileChanges = 1
  WritesMayFail = TRUE
  MayCrash = TRUE
INVARIANTS
  TypeOK
  HmacCovers
  OneRuleEach
  DashboardCurrent
PROPERTIES
  WholeBatch
  MonitorCatchesUp
