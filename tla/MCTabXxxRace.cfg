CONSTANTS
  t1 = t1
  t2 = t2
  Thread <- MCThread
  Setup <- MCSmallPool
  Key = {1, 3}
  MAX_ENTRY_ID = 2
  MAX_HASH_LINE_NUM = 2
  NoThread = NoThread
  NONE = NONE
SPECIFICATION Spec
INVARIANT FreeCountExact
