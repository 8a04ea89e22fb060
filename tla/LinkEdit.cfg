SPECIFICATION Spec
CONSTANTS
  Links <- MixedLinks
INVARIANTS NotesAsIfAlone IndexIsPosition NoIndexMissing
