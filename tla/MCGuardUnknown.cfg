SPECIFICATION Spec
CONSTANTS
  g_process_num = 2
  Pid = {10, 11, 12}
  INVALID_PID = INVALID_PID
  Setup <- MCSetup
PROPERTIES UnknownIsUnlisted
