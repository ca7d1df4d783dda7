SPECIFICATION Spec
CONSTANTS
  Client = {c1, c2}
  NoClient = NoClient
  MAX_TYPED = 2
  PTY_BUF = 2
  Setup <- MCImpatient
PROPERTIES NewLoginShutsDown
CHECK_DEADLOCK FALSE
