SPECIFICATION Spec
CONSTANTS
  h1 = h1
  h2 = h2
  h3 = h3
  Handlers <- TwoHandlers
  Workers = 2
  MaxAttempts = 2
  Window = 1
  InstantSigned = TRUE
  CoarseClock = FALSE
  DbMayFail = FALSE
  MaxClock = 3
  MaxSetbacks = 0
INVARIANT
  PersistedWhenQuiet
