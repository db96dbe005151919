CONSTANTS
  Size = 3
  MaxCalls = 3
SPECIFICATION Spec
INVARIANTS
  TypeOK
  TagIdentifiesCall
  NoneLeftBehind
  SameAsLockStep
  NeverAllWaiting
PROPERTIES
  EveryCallReturns
  OrderedThroughTime
