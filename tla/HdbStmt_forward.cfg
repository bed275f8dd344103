SPECIFICATION FairSpec
CONSTANTS
  CursorTypes = {"forward"}
  ParamKinds = {"none", "given"}
  Batches <- Queries
  Moves <- NextOnly
  Fields = 2
  BufferLimit = 1
  MaxRuns = 2
  MaxFaults = 1
  WarningsAsErrors = FALSE
  ConnectionDies = FALSE
  MaxLen = 15
INVARIANT OwnErrorReported
INVARIANT NeverDies
INVARIANT CursorClosedBeforeExecute
PROPERTY NextIsSuccessor
PROPERTY HasRowsPromise
PROPERTY FlushTerminates
