CONSTANTS
  Node <- LineNodes
  Nobody = nobody
  Neighbors <- Line
  Dist <- LineDist
  first = first
  second = second
  third = third
  Msgs <- OneMsg
  MaxSent = 1
  Src <- OneSrc
  Dst <- OneDst
  ReqTtl = 2
  DefaultTtl = 3
  ReplyMaxHops = 2
  PendingSize = 1
  PendingExpiry = 1
  TxDepth = 2
  RxDepth = 1
  ClockMod = 4
  MaxLost = 0
SPECIFICATION Spec
INVARIANT NextHopIsNeighbour
CHECK_DEADLOCK FALSE
