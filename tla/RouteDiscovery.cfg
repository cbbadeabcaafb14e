CONSTANTS
  Node <- LineNodes
  Nobody = nobody
  Neighbors <- Line
  Dist <- LineDist
  first = first
  second = second
  third = third
  Msgs <- ThreeMsgs
  Src <- ThreeSrc
  Dst <- ThreeDst
  MaxSent = 2
  ReqTtl = 1
  DefaultTtl = 3
  ReplyMaxHops = 2
  PendingSize = 1
  PendingExpiry = 1
  TxDepth = 1
  RxDepth = 1
  ClockMod = 4
  MaxLost = 1
SYMMETRY SameEnds
SPECIFICATION Spec
INVARIANTS PendingKept NextHopKnew HopsAtLeastDist
PROPERTY SentInTime
CHECK_DEADLOCK FALSE
