SPECIFICATION Spec
CONSTANTS
  SlotCount = 2
  SlotDataSize = 8
  Zeroed = Zeroed
  MaxSacks = 1
  AttemptLimit = 1
  MaxPkts = 3
  Burst = 1
  MaxStale = 2
  NoAckSeqs = {1}
  DatHeaderFound = TRUE
  AckHeaderSized = TRUE
  Lossy = FALSE
  Duplicating = FALSE
  InOrder = FALSE
  Premature = TRUE
  Polls = FALSE
  HwResults = {"sent", "full"}
  ClientHwResults = {"sent"}
  JunkFields <- NoJunk
INVARIANTS
  SackFits
PROPERTY AckSentBeforeReleased
