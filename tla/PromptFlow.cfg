SPECIFICATION FairSpec
CONSTANTS
  word = word
  copy = copy
  note = note
  wordPath = wordPath
  copyPath = copyPath
  wordExe = wordExe
  noteName = noteName
  NoApp = NoApp
  Apps = {word, copy, note}
  NameOnly = {note}
  Aliases = {wordPath, copyPath, wordExe, noteName}
  AliasesOf <- MCAliasesOf
  CancelCooldown = 2
  LaunchGrace = 1
  MaxExitRequests = 1
  StoreMayRaise = FALSE
  DialogMayRaise = FALSE
INVARIANTS
  TypeOK
  SinglePrompt
  Deduplication
PROPERTIES
  ImplementsSlot
  PromptReachesUser
