CONSTANTS
  Incs = {dx, dy}
  Sts = {x}
  Modulus = 3
  Ranks = {2}
  Throws = TRUE
SPECIFICATION Spec
SYMMETRY Symmetry
CONSTRAINT AtMostMaxLive
INVARIANTS
  TypeOK
  CacheIsCurrent
  PendingIsKept
PROPERTY ImplementsView
