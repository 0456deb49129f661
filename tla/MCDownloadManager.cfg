SPECIFICATION Spec
CONSTANTS
  Urls <- MCUrls
  Callers <- MCCallers
  Want <- MCWant
  Kind <- MCKind
  Size <- MCSize
  NrParallel = 1
INVARIANT FlagIsCleared
PROPERTY ServiceSpec
PROPERTY EveryoneIsAnswered
CHECK_DEADLOCK FALSE
