SPECIFICATION MCSpec
CONSTANTS
  None = None
  GlobalKey = GlobalKey
  Recovery = Recovery
  Labs = {l1, l2}
  JobIds = {j1, j2, j3}
  Scenarios = {"faults", "cancels", "deploys"}
  Operations = {}
  Slots <- MCSlots
  MaxStopRetries = 1
  MaxApplyRetries = 0
  FaultKinds = {"dashboard", "crash", "session", "stall", "write"}
  MaxFaults = 1
SYMMETRY Symmetry
INVARIANTS
  OneOperationPerLab
  RecoveryAlone
  OneDeployment
PROPERTIES
  RunHandover
  RemovedWhenDestroyed
CHECK_DEADLOCK FALSE
