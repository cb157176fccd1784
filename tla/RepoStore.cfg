SPECIFICATION Spec
CONSTANTS
  a = a
  b = b
  h1 = h1
  h2 = h2
  Handlers <- TwoHandlers
  Names <- TwoNames
  Dirs <- TheDirs
  Dir <- TheDir
  Serial <- OnlyA
  Faults <- ButReadback
  MaxBirths = 2
  MaxHooks = 1
SYMMETRY Symmetry
INVARIANTS
  TypeOK
  HooksOwned
  RowsHaveDirs
  NothingLeftBehind
  NotifiesOwnIncarnation
PROPERTIES
  NoStaleDelete
  ImplementsRegistry
  ImplementsShelf
