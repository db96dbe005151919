CONSTANTS
  state = state
  increment = increment
  field = field
  File <- MCFile
  Ext <- MCExt
  DirOf <- MCDirOf
  Tree <- MCTree
  MaxRuns = 3
SPECIFICATION Spec
INVARIANTS TypeOK ExtensionIsKept RenamedOnce SrcIsOverlay
CHECK_DEADLOCK FALSE
