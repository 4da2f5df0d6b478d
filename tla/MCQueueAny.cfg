\* Every call at every number: four slots, six numbers, so that numbers share
\* slots with ones that came before.
SPECIFICATION Spec
CONSTANTS
  SlotCount = 4
  SlotDataSize = 8
  Zeroed = Zeroed
  Payloads = {a, b}
  Lengths = {8}
  MaxSeq = 6
  MaxOutstanding = 3
INVARIANTS TypeOK WindowInv ReadLoopSafe
PROPERTY ImplementsWindow
CHECK_DEADLOCK FALSE
