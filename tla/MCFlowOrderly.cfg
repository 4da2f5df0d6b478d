SPECIFICATION FairSpec
CONSTANTS
  SlotCount = 2
  SlotDataSize = 8
  Zeroed = Zeroed
  MaxSacks = 2
  AttemptLimit = 1
  MaxPkts = 3
  Burst = 1
  MaxStale = 2
  NoAckSeqs = {}
  DatHeaderFound = TRUE
  AckHeaderSized = TRUE
  Lossy = FALSE
  Duplicating = FALSE
  InOrder = TRUE
  Premature = TRUE
  Polls = FALSE
  HwResults = {"sent"}
  ClientHwResults = {"sent"}
  JunkFields <- NoJunk
PROPERTIES
  AcceptedDelivered
  AckTakesEffect
