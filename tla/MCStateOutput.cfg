CONSTANTS
  Geoms = {g, h}
  Pointers = {ptr}
  World = world
  Comm = {world, part}
  Myself = myself
  TimeComm = {myself, time}
  Incs = {dx, dy}
  Sts = {x, y}
  None = none
  Size = 2
  MaxTime = 2
  Conf <- MCConf
SPECIFICATION Spec
SYMMETRY Symmetry
INVARIANTS
  TypeOK
  DataOnGeometry
  ReducedWhereSpread
  StatesOfOneGeometryAgree
PROPERTY FileTellsState
