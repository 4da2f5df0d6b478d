SPECIFICATION Spec
CONSTANTS
  SlotCount = 4
  SlotDataSize = 8
  Zeroed = Zeroed
  MaxSacks = 1
  AttemptLimit = 1
  MaxPkts = 3
  Burst = 3
  MaxStale = 2
  NoAckSeqs = {1}
  DatHeaderFound = TRUE
  AckHeaderSized = TRUE
  Lossy = FALSE
  Duplicating = FALSE
  InOrder = FALSE
  Premature = FALSE
  Polls = FALSE
  HwResults = {"sent"}
  ClientHwResults = {"sent"}
  JunkFields <- NoJunk
PROPERTIES
  AckTakesEffect
