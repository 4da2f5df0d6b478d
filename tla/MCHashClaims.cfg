SPECIFICATION Spec
CONSTANTS
  a = a
  b = b
  c = c
  Keys = {a, b, c}
  Bucket <- Trio
  NoValue = NoValue
  Payloads = {1, 2}
CHECK_DEADLOCK FALSE
INVARIANT OneEntryPerKey
PROPERTY FoundStays
