SPECIFICATION Spec
CONSTANTS
  a = a
  b = b
  c = c
  Keys = {a, b, c}
  Bucket <- Pair
  NoValue = NoValue
  Payloads = {1, 2}
CHECK_DEADLOCK FALSE
INVARIANT TypeOK
PROPERTIES
  FoundStays
  ImplementsMap
