\* rf_rx_ringbuf in a BLE build: radio_service_rx pushes from the main loop,
\* the BLE write callback from the BLE host task.
CONSTANTS
  Cap = 4
  Frames = {f1, f2}
  Writers = {radio, ble}
  MainWriters = {radio}
  DropMod = 3
SPECIFICATION Spec
PROPERTY PushedFrameIsQueued
