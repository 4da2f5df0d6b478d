SPECIFICATION Spec
CONSTANTS
  SlotCount = 2
  SlotDataSize = 1024
  Zeroed = Zeroed
  SendSizes = {1200}
  RecvSizes = {1200}
  Vlan <- NoVlan
  FcsCounted = TRUE
  HeaderInSlot = TRUE
  MaxPkts = 4
  MaxBytes = 8000
  Marks = {1, 129, 1990, 3725}
CHECK_DEADLOCK FALSE
INVARIANT BytesInOrder
