SPECIFICATION Spec
CONSTANTS
  Client = {c1, c2}
  NoClient = NoClient
  MAX_TYPED = 2
  PTY_BUF = 2
  Setup <- MCSetup
INVARIANTS TypeOK ShellOwnsSession QuitIsOfSession StreamsRestored
PROPERTIES EveryLoginServed
CHECK_DEADLOCK FALSE
