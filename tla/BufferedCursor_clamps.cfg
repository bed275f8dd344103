CONSTANTS
  MaxLen = 15
  RowCounts <- Sizes
  Offsets <- MovingOffsets
SPECIFICATION Spec
INVARIANT CursorInBounds
INVARIANT SuccessHasRow
PROPERTY ClampedCursor
