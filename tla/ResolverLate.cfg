SPECIFICATION Spec
CONSTANTS
  CommonsMode = "ignoreDylibs"
  Names = {1, 2, 3, 4, 5, 6, 7, 9}
  Contents = {}
  Atoms <- LateAtoms
  ContentRefs <- NoneOf
  Subordinates <- NoneOf
  Direct <- NoneOf
  NULL = NULL
  DeadCodeStrip = TRUE
  AllowDeadDuplicates = FALSE
  Links <- LateLinks
  BoundaryNames = {}
  UndefinedError = TRUE
  AllowedUndefines = {9}
  AllGlobalsAreRoots = FALSE
INVARIANT OutputClosed
