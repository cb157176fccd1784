SPECIFICATION Spec
CONSTANTS
  Capacity = 2
  MaxResponse = 3
  MaxBody = 4
  MaxOutput = 7
INVARIANTS
  TypeOK
  AnsweredGitIsGone
  OkIsWhole
  ReadsKeepUp
PROPERTIES
  EveryCommandEnds
CHECK_DEADLOCK FALSE
