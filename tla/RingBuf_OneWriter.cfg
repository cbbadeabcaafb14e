\* rf_rx_ringbuf with the BLE task as its only writer: the least synchronised
\* single-writer configuration.
CONSTANTS
  Cap = 4
  Frames = {f1, f2}
  Writers = {ble}
  MainWriters = {}
  DropMod = 3
SPECIFICATION FairSpec
INVARIANTS NoSlotConflict
PROPERTIES FifoSpec RingDrains
