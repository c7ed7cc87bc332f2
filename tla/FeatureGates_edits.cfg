CONSTANTS
  v1 = v1
  v2 = v2
  Versions <- MCVersions
  MaxEdits = 4
  MaxStarts = 1
SPECIFICATION GatesSpec
INVARIANTS
  HitIsFresh
PROPERTIES
  GateFallsByItsFile
