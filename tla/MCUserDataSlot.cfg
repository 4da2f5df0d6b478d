SPECIFICATION Spec
CONSTANTS
  SlotCount = 2
  SlotDataSize = 2048
  Zeroed = Zeroed
  SendSizes = {128}
  RecvSizes = {1862, 2048}
  Vlan <- NoVlan
  FcsCounted = TRUE
  HeaderInSlot = TRUE
  MaxPkts = 4
  MaxBytes = 8000
  Marks = {1, 129, 1990, 3725}
CHECK_DEADLOCK FALSE
INVARIANT NoOverrun
