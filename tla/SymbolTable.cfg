SPECIFICATION TableSpec
CONSTANTS
  CommonsMode = "ignoreDylibs"
  Names = {"x"}
  Contents = {}
  Atoms <- NamedAtoms
  ContentRefs <- NoneOf
  Subordinates <- NoneOf
  NULL = NULL
  DeadCodeStrip = FALSE
  AllowDeadDuplicates = FALSE
INVARIANTS BoundOrCoalesced StrongWins BestWeak LargestCommon DuplicatesListed
CHECK_DEADLOCK FALSE
