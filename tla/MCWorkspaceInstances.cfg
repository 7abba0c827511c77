CONSTANTS
  Projects = {p1, p2}
  Containers = {c1, c2}
  Instances = {i1, i2}
  SharedMode = TRUE
  MaxStarts = 2
  MaxTroubles = 2
SPECIFICATION FairInstances
INVARIANTS
  OneServer
  ServerHasItsData
PROPERTIES
  DuplicatesGo
  RouteReturns
