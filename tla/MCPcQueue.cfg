CONSTANTS
  Size = 3
  MaxItem = 8
SPECIFICATION Spec
INVARIANTS
  IInv
  ExclusiveEntry
  InOrder
PROPERTIES
  RefinesFifo
  EveryItemArrives
