SPECIFICATION Spec
CONSTANTS
  a = a
  b = b
  h1 = h1
  h2 = h2
  Handlers <- TwoHandlers
  Names <- TwoNames
  Dirs <- TheDirs
  Dir <- TheDir
  Serial <- NoName
  Faults <- NoFaults
  MaxBirths = 2
  MaxHooks = 1
PROPERTY
  CleanupRemovesOnlyItsOwn
