SPECIFICATION Spec
CONSTANTS
  FixedSize = 4
  Results <- SomeResults
  Encodings = {"char", "binary", "UTF8"}
  Modes = {TRUE, FALSE}
  LengthKnown = {TRUE, FALSE}
  InitialLength = 4
  MemoryLimit = 60
  LongBits = 4
  NumberSlot = 8
  MaxFetches = 2
CHECK_DEADLOCK FALSE
INVARIANT ValueIsWhole
INVARIANT FailsForCause
INVARIANT BufferWithinLimit
