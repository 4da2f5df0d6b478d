SPECIFICATION Spec
CONSTANTS
  SlotCount = 2
  SlotDataSize = 8
  Zeroed = Zeroed
  MaxSacks = 2
  AttemptLimit = 1
  MaxPkts = 3
  Burst = 1
  MaxStale = 2
  NoAckSeqs = {}
  DatHeaderFound = FALSE
  AckHeaderSized = TRUE
  Lossy = FALSE
  Duplicating = FALSE
  InOrder = FALSE
  Premature = TRUE
  Polls = FALSE
  HwResults = {"sent"}
  ClientHwResults = {"sent"}
  JunkFields <- NoJunk
INVARIANTS
  DataHeaderValid
