CONSTANTS
  state = state
  increment = increment
  field = field
  File <- MCFile
  Ext <- MCExt
  DirOf <- MCDirOf
  Tree <- MCTree
  MaxRuns = 2
SPECIFICATION Spec
INVARIANT TreeIsCorrect
CHECK_DEADLOCK FALSE
