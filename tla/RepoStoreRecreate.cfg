SPECIFICATION Spec
CONSTANTS
  a = a
  b = b
  h1 = h1
  h2 = h2
  Handlers <- TwoHandlers
  Names <- OneName
  Dirs <- TheDirs
  Dir <- TheDir
  Serial <- OneName
  Faults <- OnlyHangUps
  MaxBirths = 2
  MaxHooks = 1
INVARIANT
  NoForeignData
