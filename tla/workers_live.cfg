SPECIFICATION FairPartSpec
CONSTANTS
  Parts = {"customization", "tasks", "durations of two runs", "durations of one run", "control"}
  LinuxTargets <- MCLinux
  WindowsTargets <- MCWindows
  Role <- MCRole
  WindowsSteps <- MCShortSteps
  Blocks <- MCBlocks
  Lanes = 2
  MaxAttempts = 2
  FaultKinds = {"write", "crash", "abort", "command"}
  MaxFaults = 1
  Calls = {c1}
  MaxCallFaults = 4
  Runs = {r1, r2}
  Guests = {v1}
  MaxDurationFaults = 1
  None = None
  Workers = {terraform}
  Jobs = {j1, j2}
  Cancels = {c3}
  Slots = 2
  MaxClicks = 0
  MaxRestarts = 2
PROPERTIES
  EveryRunEnds
  TasksEnd
  SuccessMeasured
  CancelLeavesNothing
CHECK_DEADLOCK FALSE
