SPECIFICATION Spec
CONSTANTS
  NumFiles = 4
  Width = 3
  FileList = {1, 3}
  Pipelined = TRUE
INVARIANT ErrorReported
PROPERTIES MainEnds ImplementsInputOrder
