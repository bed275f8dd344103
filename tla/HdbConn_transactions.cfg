SPECIFICATION Spec
CONSTANTS
  Stmts = {s1, s2}
  Writes = {w1, w2, w3}
  MaxTxns = 2
  WarningsAsErrors = TRUE
  MaxFaults = 2
  ConnectionDies = TRUE
SYMMETRY Symmetry
CHECK_DEADLOCK FALSE
INVARIANT InTransactionIsManual
INVARIANT EndedAsTold
INVARIANT StatementsFreedFirst
INVARIANT AutoCommittedUnlessFailed
INVARIANT SessionEndsWithConnection
