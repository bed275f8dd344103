SPECIFICATION Spec
CONSTANTS
  FixedSize = 4
  MaxFieldSize = 4
  MaxPrecision = 3
  IntMax = 15
  Scripts <- AllScripts
  AtExec = {TRUE, FALSE}
  PacketSize = 5
  Pieces = {1, 2}
  TextsOut <- Answered
  MaxResults = 1
  MaxRuns = 2
CHECK_DEADLOCK FALSE
INVARIANT CancelledOnFailure
