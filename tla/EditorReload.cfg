CONSTANTS
  Projects = {p1, p2}
  Files = {f1, f2}
  None = None
  Unread = Unread
  Served = FALSE
  MaxTexts = 2
  MaxTroubles = 2
  MaxSaves = 2
  MaxReads = 1
SPECIFICATION Spec
INVARIANTS
  CleanIsReloaded
