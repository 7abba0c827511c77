CONSTANTS
  Paths = {p1, p2}
  a = a
  b = b
  binary = binary
  Contents = {a, b, binary}
  Text <- Decoded
  MaxEdits = 2
  MaxFaults = 1
  MaxStops = 2
SPECIFICATION FairSpec
INVARIANTS
  ManifestIsTrue
PROPERTIES
  OnlyEditsReachTheBackup
  BackupConverges
