\* The three uses, over a window that wraps almost twice, with one length that
\* an unused slot cuts short.
SPECIFICATION UsesSpec
CONSTANTS
  SlotCount = 4
  SlotDataSize = 8
  Zeroed = Zeroed
  Payloads = {a}
  Lengths = {8, 9}
  MaxSeq = 7
  MaxOutstanding = 4
INVARIANTS NoPanic Gapless TailEmpty CountersExact
PROPERTY ReadsEveryNumber
CHECK_DEADLOCK FALSE
