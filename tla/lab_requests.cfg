SPECIFICATION MCSpec
CONSTANTS
  None = None
  GlobalKey = GlobalKey
  Recovery = Recovery
  Labs = {l1}
  JobIds = {j1, j2, j3}
  Scenarios = {"requests", "refreshes", "followUps"}
  Operations = {}
  Slots <- MCSlots
  MaxStopRetries = 1
  MaxApplyRetries = 1
  FaultKinds = {}
  MaxFaults = 0
SYMMETRY Symmetry
INVARIANTS
  TypeOK
  WorkIsShown
  BusyIsBacked
  FollowUpWaits
CHECK_DEADLOCK FALSE
