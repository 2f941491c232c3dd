SPECIFICATION SceneSpec
CONSTANTS
  a = a
  b = b
  c = c
  Labs = {a, b, c}
  Base <- MCBase
  MaxStations = 3
  Retries = 1
  None = None
INVARIANTS
  LabsNeverCollide
  RestIsReal
PROPERTIES
  LabsSpareEachOther
CHECK_DEADLOCK FALSE
