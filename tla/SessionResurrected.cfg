CONSTANTS
  Projects = {p1, p2}
  Calls = {c1}
  Sockets = {s1, s2}
  MAX_RECONNECT_ATTEMPTS = 2
  BufferMax = 1
  MaxTyped = 0
  MaxHurries = 1
SPECIFICATION FairSpec
INVARIANT DisconnectedStays
