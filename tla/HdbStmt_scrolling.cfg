SPECIFICATION Spec
CONSTANTS
  CursorTypes = {"buffered", "static"}
  ParamKinds = {"none", "given"}
  Batches <- LargeQueries
  Moves <- ScrollMoves
  Fields = 2
  BufferLimit = 2
  MaxRuns = 2
  MaxFaults = 1
  WarningsAsErrors = FALSE
  ConnectionDies = TRUE
  MaxLen = 15
CHECK_DEADLOCK FALSE
INVARIANT FetchedRowExists
INVARIANT StreamOnItsRow
