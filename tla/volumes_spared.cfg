SPECIFICATION PartSpec
CONSTANTS
  Parts = {"disks"}
  Stored = {b1}
  Unborn = {b3}
  Calls = {c1, c2}
  Edits = {e1}
  None = None
  Browsers = {t1}
  OneVm = {v1}
  SeveralVms = {v1, v2}
  DiskIds = {d1, d2}
  Nodes = {n1}
  Requests = {r1, r2}
  MaxOps = 2
  MaxFaults = 1
PROPERTIES
  ExistingSpared
CHECK_DEADLOCK FALSE
