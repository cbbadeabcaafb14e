CONSTANTS
  Node <- PairNodes
  Broadcast = Broadcast
  Neighbors <- Pair
  Msgs = {1, 2}
  Src <- MixSrc
  Dst <- MixDst
  Via <- MixVia
  AppId <- MixAppId
  Clients = {}
  DefaultTtl = 2
  FallbackTtl = 1
  AckTtl = 1
  TtlCap = 2
  TxDepth = 2
  RxDepth = 1
  OutDepth = 1
  BusSize = 1
  MaxCtr = 6
  MaxRestarts = 1
  RetryTableSize = 1
  RetryMax = 1
  RetryTimeout = 1
  ClockMod = 8
  PktIdMod = 16
SPECIFICATION FairSpec
PROPERTIES Quiesces
CHECK_DEADLOCK FALSE
