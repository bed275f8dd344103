---- MODULE BufferedCursorProofs ----
(***************************************************************************)
(* The cursor of a buffered result set stays in bounds for every size of   *)
(* the result set, every sequence of fetches and every width of SQLLEN,    *)
(* and implements the clamping cursor when no relative offset is zero and  *)
(* no absolute one is the largest SQLLEN.                                  *)
(***************************************************************************)
EXTENDS BufferedCursor, TLAPS

USE DEF SQLLEN

(* The sum of two SQLLEN wraps back into SQLLEN. *)
LEMMA WrapInRange ==
  ASSUME NEW a \in SQLLEN, NEW b \in SQLLEN
  PROVE  Wrap(a + b) \in SQLLEN
BY MaxLenAssumption DEF Wrap

(* The offset the result set works with is an SQLLEN. *)
LEMMA EffectiveOffsetInRange ==
  ASSUME NEW style \in Styles, NEW offset \in Offsets
  PROVE  EffectiveOffset(style, offset) \in SQLLEN
<1>1. offset \in SQLLEN /\ 1 \in SQLLEN /\ -1 \in SQLLEN
  BY MaxLenAssumption, OffsetsAssumption
<1>2. Wrap(offset + 1) \in SQLLEN
  BY <1>1, WrapInRange
<1> QED
  BY <1>1, <1>2 DEF EffectiveOffset, ResultSetOffset, Styles

(* `current` is an SQLLEN even before it is checked against the ends. *)
LEMMA MovedInRange ==
  ASSUME CursorInv, NEW style \in Styles, NEW offset \in Offsets
  PROVE  Moved(style, offset) \in SQLLEN
<1>1. EffectiveOffset(style, offset) \in SQLLEN
  BY EffectiveOffsetInRange
<1>2. Wrap(current + EffectiveOffset(style, offset)) \in SQLLEN
  BY <1>1, WrapInRange DEF CursorInv, TypeOK
<1>3. 1 \in SQLLEN /\ rowCount \in SQLLEN
  BY MaxLenAssumption, RowCountsAssumption DEF CursorInv, TypeOK
<1> QED
  BY <1>1, <1>2, <1>3 DEF Moved, Styles

(* A move forward that ends at or before 0 has overflowed, so only a move by *)
(* zero can be reported as landing before the first row.                     *)
LEMMA FetchKeepsInv ==
  ASSUME CursorInv, NEW style \in Styles, NEW offset \in Offsets, Fetch(style, offset)
  PROVE  CursorInv'
<1> DEFINE m == Moved(style, offset)
           e == EffectiveOffset(style, offset)
<1>1. m \in SQLLEN /\ e \in SQLLEN
  BY MovedInRange, EffectiveOffsetInRange
<1>2. rowCount' = rowCount /\ rowCount \in -1 .. (MaxLen - 1) /\ rowCount \in RowCounts
  BY RowCountsAssumption DEF Fetch, CursorInv, TypeOK
<1>3. CASE StopBeforeFirst(style, offset)
  BY <1>2, <1>3, MaxLenAssumption DEF StopBeforeFirst, CursorInv, TypeOK, CursorInBounds
<1>4. CASE StopAfterLast(style, offset)
  BY <1>2, <1>4, MaxLenAssumption DEF StopAfterLast, CursorInv, TypeOK, CursorInBounds
<1>5. CASE LandOnRow(style, offset)
  <2>1. m <= rowCount /\ ~(m <= 0 /\ e > 0)
    BY <1>5, <1>1, <1>2 DEF LandOnRow, AfterLast
  <2>2. ~(m <= 0) \/ (e >= 0 /\ Relative(style))
    BY <1>5, <1>1 DEF LandOnRow, BeforeFirst
  <2>3. CASE m > 0
    BY <1>1, <1>2, <1>5, <2>1, <2>3, MaxLenAssumption
       DEF LandOnRow, CursorInv, TypeOK, CursorInBounds
  <2>4. CASE m <= 0
    <3>1. e = 0 /\ Relative(style)
      BY <1>1, <2>1, <2>2, <2>4
    <3>2. m = Wrap(current + e)
      BY <3>1 DEF Moved, Relative
    <3>3. m = current
      BY <3>1, <3>2, MaxLenAssumption DEF Wrap, CursorInv, TypeOK
    <3> QED
      BY <1>2, <1>5, <3>3 DEF LandOnRow, CursorInv, TypeOK, CursorInBounds
  <2> QED
    BY <1>1, <2>3, <2>4
<1> QED
  BY <1>3, <1>4, <1>5 DEF Fetch

(* CursorInBounds holds of every execution: the comments "the cursor can     *)
(* never get further away than ..." are true for every size and offset.      *)
THEOREM CursorStaysInBounds == Spec => []CursorInBounds
<1>1. Init => CursorInv
  BY MaxLenAssumption, RowCountsAssumption DEF Init, CursorInv, TypeOK, CursorInBounds
<1>2. CursorInv /\ [Next]_vars => CursorInv'
  <2>1. CASE Next
    BY <2>1, FetchKeepsInv DEF Next
  <2>2. CASE UNCHANGED vars
    BY <2>2 DEF vars, CursorInv, TypeOK, CursorInBounds
  <2> QED
    BY <2>1, <2>2
<1>3. CursorInv => CursorInBounds
  BY DEF CursorInv
<1> QED
  BY <1>1, <1>2, <1>3, PTL DEF Spec

(* get_row finds the row: its assertion cannot fail after a fetch that        *)
(* succeeded, for every size and offset but a relative one of zero.          *)
THEOREM SuccessIsOnRow ==
  ASSUME 0 \notin Offsets
  PROVE  Spec => []SuccessHasRow
<1>1. Init => CursorInv /\ SuccessHasRow
  BY MaxLenAssumption, RowCountsAssumption
     DEF Init, CursorInv, TypeOK, CursorInBounds, SuccessHasRow
<1>2. CursorInv /\ SuccessHasRow /\ [Next]_vars => CursorInv' /\ SuccessHasRow'
  <2>1. ASSUME CursorInv, NEW style \in Styles, NEW offset \in Offsets, Fetch(style, offset)
        PROVE  CursorInv' /\ SuccessHasRow'
    <3> DEFINE m == Moved(style, offset)
               e == EffectiveOffset(style, offset)
    <3>1. CursorInv' /\ m \in SQLLEN /\ e \in SQLLEN
      BY <2>1, FetchKeepsInv, MovedInRange, EffectiveOffsetInRange
    <3>2. rowCount' = rowCount /\ rowCount \in -1 .. (MaxLen - 1)
      BY <2>1, RowCountsAssumption DEF Fetch, CursorInv, TypeOK
    <3>3. Relative(style) => e # 0
      <4>1. 1 # 0 /\ -1 # 0 /\ offset # 0
        OBVIOUS
      <4> QED
        BY <4>1 DEF Relative, EffectiveOffset, ResultSetOffset
    <3>4. CASE LandOnRow(style, offset)
      <4>1. m <= rowCount /\ m >= 1
        BY <3>1, <3>2, <3>3, <3>4 DEF LandOnRow, AfterLast, BeforeFirst
      <4> QED
        BY <3>1, <3>2, <3>4, <4>1 DEF LandOnRow, SuccessHasRow
    <3>5. CASE StopBeforeFirst(style, offset) \/ StopAfterLast(style, offset)
      BY <3>1, <3>5 DEF StopBeforeFirst, StopAfterLast, SuccessHasRow
    <3> QED
      BY <2>1, <3>1, <3>4, <3>5 DEF Fetch
  <2>2. CASE UNCHANGED vars
    BY <2>2 DEF vars, CursorInv, TypeOK, CursorInBounds, SuccessHasRow
  <2> QED
    BY <2>1, <2>2 DEF Next
<1> QED
  BY <1>1, <1>2, PTL DEF Spec

(* The CASEs of the fetch, style by style. *)
LEMMA MoveByStyle ==
  ASSUME NEW offset
  PROVE  /\ Moved("first", offset) = 1
         /\ Moved("last", offset) = rowCount
         /\ Moved("absolute", offset) = Wrap(offset + 1)
         /\ Moved("next", offset) = Wrap(current + 1)
         /\ Moved("prior", offset) = Wrap(current + (-1))
         /\ Moved("relative", offset) = Wrap(current + offset)
         /\ EffectiveOffset("next", offset) = 1
         /\ EffectiveOffset("prior", offset) = -1
         /\ EffectiveOffset("relative", offset) = offset
BY ZenonT(30) DEF Moved, EffectiveOffset, ResultSetOffset

LEMMA TargetByStyle ==
  ASSUME NEW offset
  PROVE  /\ Abstract!Target("first", offset) = 1
         /\ Abstract!Target("last", offset) = rowCount
         /\ Abstract!Target("absolute", offset) = offset + 1
         /\ Abstract!Target("next", offset) = current + 1
         /\ Abstract!Target("prior", offset) = current - 1
         /\ Abstract!Target("relative", offset) = current + offset
BY ZenonT(30) DEF Abstract!Target

(* Where a fetch ends, told from the unbounded target: an overflow only ever *)
(* happens beyond the last row, and a move by zero is left out.              *)
LEMMA FetchImplementsClamp ==
  ASSUME CursorInv, NEW style \in Styles, NEW offset \in Offsets,
         offset # 0, offset # MaxLen, Fetch(style, offset)
  PROVE  Abstract!Fetch(style, offset)
<1> DEFINE m == Moved(style, offset)
           e == EffectiveOffset(style, offset)
           t == Abstract!Target(style, offset)
<1>1. /\ rowCount' = rowCount /\ rowCount \in -1 .. (MaxLen - 1)
      /\ current \in 0 .. (rowCount + 1) /\ offset \in SQLLEN
  BY RowCountsAssumption, OffsetsAssumption DEF Fetch, CursorInv, TypeOK, CursorInBounds
<1>2. e \in SQLLEN /\ m \in SQLLEN
  BY MovedInRange, EffectiveOffsetInRange
<1>3. Relative(style) => /\ e # 0
                         /\ t = current + e
                         /\ m = Wrap(current + e)
  <2>1. current + (-1) = current - 1 /\ -1 # 0 /\ 1 # 0
    BY <1>1
  <2> QED
    BY <2>1, MoveByStyle, TargetByStyle DEF Relative
<1>4. ~Relative(style) => m = t
  <2>1. Wrap(offset + 1) = offset + 1
    BY <1>1, MaxLenAssumption DEF Wrap
  <2> QED
    BY <2>1, MoveByStyle, TargetByStyle DEF Relative, Styles
<1>5. Relative(style) /\ t <= MaxLen => m = t
  BY <1>1, <1>2, <1>3, MaxLenAssumption DEF Wrap
<1>6. Relative(style) /\ t > MaxLen => m <= 0 /\ e > 0 /\ t > rowCount
  BY <1>1, <1>2, <1>3, MaxLenAssumption DEF Wrap
<1>7. t \in Int
  BY <1>1, <1>2, <1>3, <1>4
<1>8. Relative(style) /\ t < 1 => e < 0
  BY <1>1, <1>2, <1>3
<1>9. CASE StopBeforeFirst(style, offset)
  <2>1. t < 1
    BY <1>1, <1>2, <1>4, <1>5, <1>6, <1>7, <1>9, MaxLenAssumption DEF StopBeforeFirst, BeforeFirst
  <2> QED
    BY <2>1, <1>1, <1>9 DEF StopBeforeFirst, Abstract!Fetch
<1>10. CASE StopAfterLast(style, offset)
  <2>1. t >= 1
    BY <1>1, <1>2, <1>4, <1>5, <1>6, <1>7, <1>8, <1>10, MaxLenAssumption
       DEF StopAfterLast, BeforeFirst
  <2>2. t > rowCount
    BY <1>1, <1>2, <1>4, <1>5, <1>6, <1>7, <1>10, <2>1, MaxLenAssumption
       DEF StopAfterLast, AfterLast
  <2> QED
    BY <2>1, <2>2, <1>1, <1>10 DEF StopAfterLast, Abstract!Fetch
<1>11. CASE LandOnRow(style, offset)
  <2>1. m = t
    BY <1>1, <1>2, <1>4, <1>5, <1>6, <1>7, <1>11, MaxLenAssumption
       DEF LandOnRow, AfterLast
  <2>2. t >= 1
    BY <1>1, <1>2, <1>7, <1>8, <1>11, <2>1 DEF LandOnRow, BeforeFirst
  <2>3. t <= rowCount
    BY <1>1, <1>2, <1>7, <1>11, <2>1 DEF LandOnRow, AfterLast
  <2> QED
    BY <2>1, <2>2, <2>3, <1>1, <1>7, <1>11 DEF LandOnRow, Abstract!Fetch
<1> QED
  BY <1>9, <1>10, <1>11 DEF Fetch

(* Without a relative offset of zero and without the one absolute offset     *)
(* whose + 1 overflows, the buffered cursor implements the clamping one.     *)
THEOREM CursorImplementsClamp ==
  ASSUME 0 \notin Offsets, MaxLen \notin Offsets
  PROVE  Spec => ClampedCursor
<1>1. Init => CursorInv /\ Abstract!Init
  BY MaxLenAssumption, RowCountsAssumption
     DEF Init, CursorInv, TypeOK, CursorInBounds, Abstract!Init
<1>2. CursorInv /\ [Next]_vars => CursorInv' /\ [Abstract!Next]_(Abstract!vars)
  <2>1. ASSUME CursorInv, NEW style \in Styles, NEW offset \in Offsets, Fetch(style, offset)
        PROVE  CursorInv' /\ Abstract!Next
    <3>1. Abstract!Fetch(style, offset)
      BY <2>1, FetchImplementsClamp
    <3> QED
      BY <2>1, <3>1, FetchKeepsInv DEF Abstract!Next, Abstract!Styles, Styles
  <2>2. CASE UNCHANGED vars
    BY <2>2 DEF vars, Abstract!vars, CursorInv, TypeOK, CursorInBounds
  <2> QED
    BY <2>1, <2>2 DEF Next
<1> QED
  BY <1>1, <1>2, PTL DEF Spec, ClampedCursor, Abstract!Spec
====
