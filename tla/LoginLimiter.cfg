SPECIFICATION Spec
CONSTANTS
  h1 = h1
  h2 = h2
  h3 = h3
  Handlers <- ThreeHandlers
  Workers = 2
  MaxAttempts = 2
  Window = 1
  InstantSigned = TRUE
  CoarseClock = FALSE
  DbMayFail = TRUE
  MaxClock = 3
  MaxSetbacks = 1
SYMMETRY Symmetry
INVARIANTS
  TypeOK
  FailuresBounded
  GuessRate
  LockedOutForCause
  SurvivesRestart
