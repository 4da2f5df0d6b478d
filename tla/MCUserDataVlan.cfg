SPECIFICATION FairSpec
CONSTANTS
  SlotCount = 2
  SlotDataSize = 2136
  Zeroed = Zeroed
  SendSizes = {1, 128, 1862}
  RecvSizes = {1862, 2048}
  Vlan = 1
  FcsCounted = TRUE
  HeaderInSlot = TRUE
  MaxPkts = 4
  MaxBytes = 8000
  Marks = {1, 129, 1990, 3725}
CHECK_DEADLOCK FALSE
PROPERTY SentIsReceived
