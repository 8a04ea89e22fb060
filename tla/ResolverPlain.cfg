SPECIFICATION Spec
CONSTANTS
  CommonsMode = "overriddenByDylibs"
  Names = {1, 2, 3, 4, 5, 6}
  Contents = {}
  Atoms <- PlainAtoms
  ContentRefs <- NoneOf
  Subordinates <- NoneOf
  Direct <- NoneOf
  NULL = NULL
  DeadCodeStrip = FALSE
  AllowDeadDuplicates = FALSE
  Links <- PlainLinks
  BoundaryNames = {5}
  UndefinedError = TRUE
  AllowedUndefines = {}
  AllGlobalsAreRoots = FALSE
INVARIANTS Complete CommonsOverridden OutputClosed OneDefinition NoSilentDuplicate
PROPERTY OnlyNeededMembers
