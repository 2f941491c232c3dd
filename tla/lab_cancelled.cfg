SPECIFICATION MCSpec
CONSTANTS
  None = None
  GlobalKey = GlobalKey
  Recovery = Recovery
  Labs = {l1}
  JobIds = {j1, j2, j3}
  Scenarios = {"cancels"}
  Operations = {}
  Slots <- MCSlots
  MaxStopRetries = 1
  MaxApplyRetries = 0
  FaultKinds = {}
  MaxFaults = 0
SYMMETRY Symmetry
PROPERTIES
  CancelledStaysCancelled
CHECK_DEADLOCK FALSE
