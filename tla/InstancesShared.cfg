CONSTANTS
  Projects = {p1, p2}
  Containers = {c1}
  Instances = {i1, i2}
  SharedMode = TRUE
  MaxStarts = 2
  MaxTroubles = 0
SPECIFICATION FairInstances
INVARIANT SharedServerIsOne
