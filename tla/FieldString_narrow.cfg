SPECIFICATION Spec
CONSTANTS
  FixedSize = 4
  Results <- TinyResult
  Encodings = {"char", "binary", "UTF8"}
  Modes = {TRUE}
  LengthKnown = {TRUE}
  InitialLength = 4
  MemoryLimit = 60
  LongBits = 4
  NumberSlot = 8
  MaxFetches = 1
CHECK_DEADLOCK FALSE
INVARIANT AssertionsHold
