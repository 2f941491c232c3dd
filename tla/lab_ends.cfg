SPECIFICATION MCFairSpec
CONSTANTS
  None = None
  GlobalKey = GlobalKey
  Recovery = Recovery
  Labs = {l1}
  JobIds = {j1, j2, j3}
  Scenarios = {"followUps", "crashes"}
  Operations = {}
  Slots <- MCSlots
  MaxStopRetries = 2
  MaxApplyRetries = 1
  FaultKinds = {"crash", "session", "stall"}
  MaxFaults = 1
PROPERTIES
  EveryOperationEnds
CHECK_DEADLOCK FALSE
