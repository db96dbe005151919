CONSTANTS
  Geoms = {g, h}
  Pointers = {ptr}
  World = world
  Comm = {world, part}
  Myself = myself
  TimeComm = {myself, time}
  Incs = {dx, dy}
  Sts = {}
  None = none
SPECIFICATION DistributionSpec
INVARIANT IncrementsOfOneGeometryAgree
