SPECIFICATION Spec
CONSTANTS
  NumFiles = 4
  Workers = {w1, w2}
  FileList = {1, 3}
  PathOf <- DistinctPaths
  Pipelined = TRUE
INVARIANTS TypeOK ScanFindsWork RemainingCounts ParsedOnce NoMissedWakeup NoLostWork
PROPERTIES ImplementsInputOrder MainEnds
