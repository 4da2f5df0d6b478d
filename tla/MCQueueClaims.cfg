\* A released slot offers more bytes than it has; a read cut short is not
\* reported.
SPECIFICATION UsesSpec
CONSTANTS
  SlotCount = 2
  SlotDataSize = 8
  Zeroed = Zeroed
  Payloads = {a}
  Lengths = {4, 8}
  MaxSeq = 4
  MaxOutstanding = 4
INVARIANTS
  CapacityKept
  TruncationReported
CHECK_DEADLOCK FALSE
