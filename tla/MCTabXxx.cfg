CONSTANTS
  t1 = t1
  t2 = t2
  Thread <- MCThread
  Setup <- MCSetup
  Key = {1, 3}
  MAX_ENTRY_ID = 2
  MAX_HASH_LINE_NUM = 2
  NoThread = NoThread
  NONE = NONE
SPECIFICATION Spec
INVARIANTS
  TypeOK
  FreeOrInUse
  RefCntExact
  TableConsistent
  FreeCountExact
PROPERTIES
  HeldIsStable
