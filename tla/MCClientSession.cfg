CONSTANTS
  Projects = {p1, p2}
  Calls = {c1, c2}
  Sockets = {s1, s2, s3}
  MAX_RECONNECT_ATTEMPTS = 2
  BufferMax = 1
  MaxTyped = 2
  MaxHurries = 2
SPECIFICATION FairSpec
INVARIANTS
  OneSession
  ConnectedIsReal
  RoutingFollows
PROPERTIES
  IsInputChannel
  GivesUpLate
  WaitingEnds
