SPECIFICATION Spec
CONSTANTS
  Links <- StripLinks
INVARIANT NotesOfSymbols
