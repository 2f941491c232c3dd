SPECIFICATION PartSpec
CONSTANTS
  Parts = {"customization", "tasks", "durations", "control"}
  LinuxTargets <- MCLinux
  WindowsTargets <- MCWindows
  Role <- MCRole
  WindowsSteps <- MCSteps
  Blocks <- MCBlocks
  Lanes = 2
  MaxAttempts = 2
  FaultKinds = {"write", "crash", "abort", "command"}
  MaxFaults = 2
  Calls = {c1, c2}
  MaxCallFaults = 3
  Runs = {r1, r2}
  Guests = {v1}
  MaxDurationFaults = 1
  None = None
  Workers = {terraform, ansible}
  Jobs = {j1, j2}
  Cancels = {c3}
  Slots = 1
  MaxClicks = 1
  MaxRestarts = 0
INVARIANTS
  PartsInvariant
  Barriers
  NothingRunsUnanswered
  CancelReachesAll
PROPERTIES
  Checkpoints
  MeasuredOnce
CHECK_DEADLOCK FALSE
