CONSTANTS
  Projects = {p1, p2}
  Files = {f1, f2}
  None = None
  Unread = Unread
  Served = TRUE
  MaxTexts = 2
  MaxTroubles = 1
  MaxSaves = 2
  MaxReads = 1
SPECIFICATION Spec
SYMMETRY Alike
INVARIANTS
  CleanIsStored
PROPERTIES
  UnsavedSurvives
  OnlyThenNeglected
CHECK_DEADLOCK FALSE
