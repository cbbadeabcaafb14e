CONSTANTS
  Node <- ThreeNodes
  Broadcast = Broadcast
  Neighbors <- Triangle
  Msgs = {1}
  Src <- OneSrc
  Dst <- OneDst
  Via <- OneVia
  AppId <- OneAppId
  Clients = {"c"}
  DefaultTtl = 2
  FallbackTtl = 2
  AckTtl = 2
  TtlCap = 2
  TxDepth = 2
  RxDepth = 1
  OutDepth = 1
  BusSize = 4
  MaxCtr = 6
  MaxRestarts = 0
  RetryTableSize = 1
  RetryMax = 0
  RetryTimeout = 1
  ClockMod = 8
  PktIdMod = 16
SPECIFICATION Spec
INVARIANT RelaysOnce
CHECK_DEADLOCK FALSE
