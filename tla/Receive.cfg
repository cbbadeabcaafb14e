CONSTANTS
  Keys = {k1, k2}
  NoKey = NoKey
  BusSize = 1
  DedupeSize = 2
  DedupeExpiry = 1
  SuppressSize = 2
  SuppressExpiry = 1
  TxDepth = 1
  ClockMod = 4
  Peers = {1, 2, 3}
  NbSize = 2
  NbStale = 1
  NbMod = 3
  MaxHop = 1
  Stacks = {"esp32", "nrf52"}
  Passkey = {TRUE, FALSE}
  BleMod = 3
  AdvDelay = 1
  Windows = {0, 1}
  CpLen = 2
  CpCmds = {"start"}
  MaxConns = 2
  FgSlots = 2
  FgIds = 3
  FgTotals = {2, 3}
  FgMsgs = 5
  RmlThreads = {1,2}
  MaxEdits = 3
  SeenSize = 1
  StatusSize = 1
  ThreadSize = 2
  RmlMod = 2
  SlBytes = {"end", "esc", "ESC_END", "x"}
  SlMaxLen = 2
SPECIFICATION ReceiveSpec
INVARIANTS
  ReceiveTyped NeighboursTrue BleSessionKept PayloadsWhole TextsTrue FramesWhole
PROPERTIES
  AcceptedOncePerWindow
