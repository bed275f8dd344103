SPECIFICATION FairSpec
CONSTANTS
  FixedSize = 4
  Fields <- Values
  Encodings = {"char", "binary", "UTF8"}
  Chunks = {8, 10, 14, 30}
  BufferSize = 12
  LengthKnown = {TRUE, FALSE}
  DriverFails = TRUE
CHECK_DEADLOCK FALSE
INVARIANT DeliversPrefix
INVARIANT EndIsEnd
PROPERTY ReadsToTheEnd
