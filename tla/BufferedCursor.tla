---- MODULE BufferedCursor ----
(***************************************************************************)
(* The cursor of a client-buffered result set, as hdb_fetch drives it:     *)
(* core_hdb_fetch turns the script's offset into the 1-based one, and      *)
(* hdb_buffered_result_set::fetch moves `current` in signed SQLLEN         *)
(* arithmetic and puts it back inside the result set.                      *)
(* An operator named Of_Slip is a slip a programmer could make in Of; the  *)
(* properties are shown to notice it.                                      *)
(***************************************************************************)
EXTENDS Integers

CONSTANTS
  MaxLen,          \* the largest SQLLEN (2^63 - 1 on the real platform)
  RowCounts,       \* the result-set sizes considered; -1: no columns
  Offsets          \* the offsets a script passes to hdb_fetch

SQLLEN == -(MaxLen + 1) .. MaxLen

(* A result set fits in memory, so one more than its size is an SQLLEN. *)
ASSUME MaxLenAssumption == MaxLen \in Nat \ {0}
ASSUME RowCountsAssumption == RowCounts \subseteq -1 .. (MaxLen - 1)
ASSUME OffsetsAssumption == Offsets \subseteq SQLLEN

VARIABLES
  rowCount,        \* hdb_buffered_result_set::row_count
  current,         \* 1 based, 0 means before first row
  outcome          \* what the last fetch returned

vars == <<rowCount, current, outcome>>

Styles == {"next", "first", "last", "prior", "absolute", "relative"}

(* Two's complement: the sum of two SQLLEN is at most one period away. *)
Wrap(x) == IF x > MaxLen THEN x - 2 * (MaxLen + 1)
           ELSE IF x < -(MaxLen + 1) THEN x + 2 * (MaxLen + 1) ELSE x

(* The offset the result set receives: relative ones as they are, the others + 1. *)
ResultSetOffset(style, offset) ==
  IF style = "relative" THEN offset ELSE Wrap(offset + 1)

(* NEXT and PRIOR become RELATIVE moves of one row. *)
Relative(style) == style \in {"next", "prior", "relative"}

EffectiveOffset(style, offset) ==
  CASE style = "next"  -> 1
    [] style = "prior" -> -1
    [] OTHER           -> ResultSetOffset(style, offset)

(* `current` before it is checked against the ends of the result set. *)
Moved(style, offset) ==
  CASE style = "first"    -> 1
    [] style = "last"     -> rowCount
    [] style = "absolute" -> EffectiveOffset(style, offset)
    [] OTHER              -> Wrap(current + EffectiveOffset(style, offset))

BeforeFirst_OnlyNegativeOffsets(style, offset) ==
  Moved(style, offset) <= 0 /\ EffectiveOffset(style, offset) < 0

BeforeFirst(style, offset) ==
  /\ Moved(style, offset) <= 0
  /\ EffectiveOffset(style, offset) < 0 \/ ~Relative(style)

AfterLast_NoOverflowCheck(style, offset) == Moved(style, offset) > rowCount

(* The second disjunct is the overflow of current + offset. *)
AfterLast(style, offset) ==
  \/ Moved(style, offset) > rowCount
  \/ Moved(style, offset) <= 0 /\ EffectiveOffset(style, offset) > 0

Init == rowCount \in RowCounts /\ current = 0 /\ outcome = "none"

StopBeforeFirst(style, offset) ==
  /\ BeforeFirst(style, offset)
  /\ current' = 0
  /\ outcome' = "no_data"

StopAfterLast_OnLastRow(style, offset) ==
  /\ ~BeforeFirst(style, offset)
  /\ AfterLast(style, offset)
  /\ current' = rowCount
  /\ outcome' = "no_data"

StopAfterLast(style, offset) ==
  /\ ~BeforeFirst(style, offset)
  /\ AfterLast(style, offset)
  /\ current' = rowCount + 1
  /\ outcome' = "no_data"

LandOnRow(style, offset) ==
  /\ ~BeforeFirst(style, offset)
  /\ ~AfterLast(style, offset)
  /\ current' = Moved(style, offset)
  /\ outcome' = "success"

Fetch(style, offset) ==
  /\ \/ StopBeforeFirst(style, offset)
     \/ StopAfterLast(style, offset)
     \/ LandOnRow(style, offset)
  /\ UNCHANGED rowCount

Next == \E style \in Styles, offset \in Offsets : Fetch(style, offset)

Spec == Init /\ [][Next]_vars

----
TypeOK ==
  /\ rowCount \in RowCounts
  /\ current \in SQLLEN
  /\ outcome \in {"none", "no_data", "success"}

(* The cursor never gets further away than just before the first row or just *)
(* after the last one, whatever offsets are added up on the way (the two     *)
(* comments in hdb_buffered_result_set::fetch).                              *)
CursorInBounds == current \in 0 .. (rowCount + 1)

(* The inductive strengthening of CursorInBounds. *)
CursorInv == TypeOK /\ CursorInBounds

(* A fetch that succeeded left the cursor on a row of the cache: get_row     *)
(* asserts that it finds the row there.                                      *)
SuccessHasRow == outcome = "success" => current \in 1 .. rowCount

(* The script sees a cursor that clamps to the ends of the result set and    *)
(* succeeds exactly on rows.                                                 *)
Abstract == INSTANCE ScrollCursor WITH rows <- rowCount, at <- current

ClampedCursor == Abstract!Spec
====
