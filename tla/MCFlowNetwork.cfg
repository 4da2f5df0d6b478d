SPECIFICATION Spec
CONSTANTS
  SlotCount = 2
  SlotDataSize = 8
  Zeroed = Zeroed
  MaxSacks = 2
  AttemptLimit = 1
  MaxPkts = 3
  Burst = 2
  MaxStale = 1
  NoAckSeqs = {1}
  DatHeaderFound = TRUE
  AckHeaderSized = TRUE
  Lossy = TRUE
  Duplicating = TRUE
  InOrder = FALSE
  Premature = TRUE
  Polls = TRUE
  HwResults = {"sent", "error"}
  ClientHwResults = {"sent", "error"}
  JunkFields <- NoJunk
INVARIANTS
  TypeOK
  InOrderDelivery
  NumberedBySlot
  AcksTruthful
  ReleasedOnlyIfReceived
  AckedPrefix
  SeqAckBehind
PROPERTIES
  AckSentBeforeReleased
  ImplementsTransfer
