SPECIFICATION FairSpec
CONSTANTS
  op1 = op1
  op2 = op2
  key1 = key1
  key2 = key2
  Ops <- MCOps
  Keys <- MCKeys
  MaxDepth = 2
  MaxAttempts = 2
  LockTicks = 1
INVARIANTS
  TypeOK
  NeverStuck
  StaleOnlyIfRobbed
  AnswerActedUpon
PROPERTIES
  ControlsComeBack
CHECK_DEADLOCK FALSE
