SPECIFICATION Spec
CONSTANTS
  A = A  B = B  X = X  a1 = a1  a2 = a2  a3 = a3
  Client <- MCClient
  PeerOf <- MCPeerOf
  Other <- MCOther
  Addr <- MCAddr
  Server = server
  hash_index <- MChash_index
  MAX_REQ_NUM = 2
  gap = 0
  MISS_LIMIT = 2
  NET_CAP = 2
  MAX_TIME = 1
  MAX_FAULTS = 1
  NONE = NONE
INVARIANTS TypeOK BuffersAccounted AddressOfPeer
PROPERTIES RefinesDirectory OneSidedEnds
