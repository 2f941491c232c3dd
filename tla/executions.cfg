SPECIFICATION SceneSpec
CONSTANTS
  None = None
  Executions <- MCExecutions
  Type <- MCType
  Env <- MCEnv
  GivenKey <- MCKey
  Expiry = TRUE
  Cancels = TRUE
INVARIANTS
  LockHeld
  OneApplyPerEnvironment
PROPERTIES
  ExecutionsEnd
CHECK_DEADLOCK FALSE
