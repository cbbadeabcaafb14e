CONSTANTS
  HistoryCap = 2
  Window = 4
  Budget = 3
  Toas = {1, 2}
  DrainLimit = 2
  ClockMod = 10
  TdCap = 3
  TdLimit = 2
  TdDelays = {0, 2}
  TdClockMod = 6
  SqFrames = {1, 2}
  SqSize = 3
  SqExpiry = 2
  SqMod = 6
  GCap = 3
  GRate = 2
  NCap = 2
  NRate = 1
  NbMax = 2
  AtSources = {1, 2, 3}
  AtToas = {2}
  AtMod = 4
  Drivers = {"sx1262", "sx1276", "rp2040", "linux", "nrf52", "lr1110"}
  RdClockMod = 5
  Backoff = 2
  BusyStuckMax = 2
  TxFailMax = 2
  SpuriousMax = 2
  StreakMod = 4
  Silence = 2
  TxLimit = 2
  RgSources = {1, 2}
  BucketCount = 1
  MaxTokens = 2
  RgSec = 2
  RgMod = 7
  FwdCap = 2
  FwdFloor = 1
  FwdWindow = 2
  FwdAir = 2
  HourWindow = 3
  HourAir = 3
  LnRows = 3
  LnCap = 3
  LnSeqMod = 16
  LnMod = 16
  LnStale = 1
  LnExpiry = 3
  LnBases = {90, 30}
  LnSetMax = 2
  MaxRounds = 4
  FaBuckets = 2
  Sec = 2
  FaMod = 11
  FaSecMod = 16
  RxWeight = 1
  BlockedWeight = 2
  FailWeight = 1
  LightScore = 1
  DelayScore = 2
  DropScore = 3
  GuardScore = 4
  FaLoadMax = 2
  FaDrain = 2
  BcMod = 8
  BcIntervals = {1, 3}
  BcJitters = {0, 2}
  BcWindow = 5
  BcStartup = 2
  OrMod = 5
  OrThrottles = {1, 3}
  OrIntervals = {0, 2}
  OrTimerMax = 2
  LcPrograms = {"good", "bad"}
  LcBroken = {"bad"}
  LcParams = {1}
  MaxPushSeq = 3
  MaxAccepted = 3
  EnChains <- NodeChains
  EnMaxTick = 1
  EnMaxSeq = 7
  EnMaxQueue = 3
  EnGas = 5
  EnPeriod = 1
  EnBudget = 1
  SnMod = 7
  SnSteps = {1,3}
  SnTx = {0, 4}
  SnDelta = {0, 3}
  TxFloor = 3
  DeltaFloor = 2
  AmInterval = 2
  ConvTime = 2
  Channels = {0,1,2}
  JoinedAtBoot = {0,1}
  StStores = {"esp32", "rp2040", "none"}
  StValues = {1, 2}
  StFloor = 2
  GrNames = {"x", "y"}
  GrOps = {1}
  GrMaxStmts = 5
  DpMod = 4
  DpRefresh = 1
  DpRotate = 2
  DpPages = 2
SPECIFICATION NodeSpec
INVARIANTS
  TypesOK UsedExact TxQueueKept NotOverGranted WakeupNotLost RadioRecovers
  RelaysKept ScoreKept OriginsKept ConfirmedKept EventsFair ServicesKept PathsDeclared
