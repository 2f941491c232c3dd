SPECIFICATION SceneSpec
CONSTANTS
  b1 = b1
  f1 = f1
  None = None
  Procs = {p1, p2}
  Blueprints = {b1, b2}
  Files = {f1, f2}
  Operations = {"upload", "save", "delete", "duplicate", "deploy", "sweep"}
  MaxFaults = 1
INVARIANTS
  FilesOnDisk
PROPERTIES
  UploadsSpareDeployed
  EveryOrphanRemoved
CHECK_DEADLOCK FALSE
