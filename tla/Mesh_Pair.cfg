CONSTANTS
  Node <- PairNodes
  Broadcast = Broadcast
  Neighbors <- Pair
  Msgs = {1, 2}
  Src <- TwoSrc
  Dst <- TwoDst
  Via <- TwoVia
  AppId <- TwoAppId
  Clients = {}
  DefaultTtl = 1
  FallbackTtl = 1
  AckTtl = 1
  TtlCap = 1
  TxDepth = 1
  RxDepth = 1
  OutDepth = 1
  BusSize = 8
  MaxCtr = 6
  MaxRestarts = 0
  RetryTableSize = 2
  RetryMax = 1
  RetryTimeout = 1
  ClockMod = 8
  PktIdMod = 16
SPECIFICATION Spec
INVARIANTS AckedReachedNextHop DuplicateIsKnown
CHECK_DEADLOCK FALSE
