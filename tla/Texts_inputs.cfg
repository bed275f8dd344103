SPECIFICATION Spec
CONSTANTS
  ShortBits = 4
  IntBits = 6
  LongBits = 8
  FmtSize = 32
  MaxStrLen = 44
  MaxExponent = 38
  ExpBits = 16
  StmtNames = {"scrollable", "clientbuffermaxkbsize", "querytimeout", "sendstreamparamsatexec"}
  ConnStrings = {}
  LockBits = 16
  Kinds <- AllKinds
  Pieces <- InputPieces
  MessageArgs <- Args
  Rooms = {4, 30}
  Scales = {0, 1, 2}
  Unit = 5
  MaxFieldSize = 8
  MaxPrecision = 6
  IntMax = 99
CHECK_DEADLOCK FALSE
INVARIANT PrintsAsC
INVARIANT MessageIsWhole
INVARIANT DecimalRounded
INVARIANT OptionsTakeEffect
INVARIANT BracesPaired
INVARIANT ColumnBound
