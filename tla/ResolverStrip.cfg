SPECIFICATION Spec
CONSTANTS
  CommonsMode = "ignoreDylibs"
  Names = {1, 2, 3, 4, 5, 6, 7, 9}
  Contents = {8}
  Atoms <- StripAtoms
  ContentRefs <- StripContentRefs
  Subordinates <- StripSubordinates
  Direct <- StripDirect
  NULL = NULL
  DeadCodeStrip = TRUE
  AllowDeadDuplicates = FALSE
  Links <- StripLinks
  BoundaryNames = {}
  UndefinedError = TRUE
  AllowedUndefines = {9}
  AllGlobalsAreRoots = FALSE
INVARIANTS OutputClosed GroupsFollow
PROPERTY Ends
