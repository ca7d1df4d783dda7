SPECIFICATION Spec
CONSTANTS
  LEN = 2
  CAP = 2
  MAX_SEND = 3
  SND_LEN = 2
  SOCK = 2
  MAX_BYTES = 3
  Roles <- MCRoles
INVARIANTS EchoAgrees PerfAgrees
PROPERTIES EchoEnds PerfEnds
CHECK_DEADLOCK FALSE
