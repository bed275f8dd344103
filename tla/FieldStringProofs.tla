---- MODULE FieldStringProofs ----
(***************************************************************************)
(* The copy of a row that a buffered result set keeps is within the limit  *)
(* at every moment and charged in full, for all rows, limits and sizes of  *)
(* the first buffer, whether or not the driver tells how much is left.     *)
(***************************************************************************)
EXTENDS FieldString, TLAPS

CursorFields == {"buffered", "known", "result", "fetches", "last", "asked"}

FillTypeOK ==
  /\ DOMAIN cursor = CursorFields
  /\ cursor.result \in 1 .. Len(Results) /\ cursor.known \in BOOLEAN
  /\ fill \in [pc : {"next", "lob", "done", "failed"}, field : Nat \ {0}, toRead : Nat, already : Nat,
               full : BOOLEAN, used : Nat, lens : Seq(Int)]

(* The columns copied so far are the first ones of the row. *)
Progress ==
  /\ fill.pc \in {"next", "lob"} => fill.field <= Len(Row) /\ Len(fill.lens) = fill.field - 1
  /\ Len(fill.lens) <= Len(Row)

(* read_lob_field has charged nothing yet for the value it is reading, but  *)
(* from the second piece on its buffer has been compared with the limit;    *)
(* once the length is known the buffer has just that.                       *)
LobInProgress ==
  /\ fill.pc = "next" => fill.already = 0 /\ ~fill.full
  /\ fill.pc = "lob" =>
       \/ fill.already = 0 /\ ~fill.full
       \/ /\ fill.used + fill.toRead <= MemoryLimit
          /\ fill.full = cursor.known
          /\ fill.full => fill.toRead = Held(FillColumn)

(* BufferWithinLimit, and what it needs of one column alone. *)
Charged == \A i \in 1 .. Len(fill.lens) : fill.lens[i] <= fill.used

FillInv == FillTypeOK /\ Progress /\ LobInProgress /\ Charged /\ BufferWithinLimit

(* The two bounds of the buffer are numbers.                                *)
LEMMA LimitsAreNumbers == MemoryLimit \in Nat /\ InitialLength \in Nat
BY FieldAssumption

(* Of a column in the results: the bytes held of it are a number, and no    *)
(* more than it is charged when its size is known.                          *)
LEMMA ColumnTypes ==
  ASSUME NEW r \in 1 .. Len(Results), NEW i \in 1 .. Len(Results[r])
  PROVE  LET c == Results[r][i]
         IN  /\ c.display \in Nat /\ c.null \in BOOLEAN
             /\ Held(c) \in Nat /\ Charge(c) \in Nat
             /\ ~c.null /\ c.display > 0 => Held(c) <= Charge(c)
<1>1. Results[r][i] \in Columns
  <2>1. Results[r][i] \in {Results[r][k] : k \in 1 .. Len(Results[r])}
    OBVIOUS
  <2>2. {Results[r][k] : k \in 1 .. Len(Results[r])}
          \in {{Results[q][k] : k \in 1 .. Len(Results[q])} : q \in 1 .. Len(Results)}
    OBVIOUS
  <2> QED
    BY <2>1, <2>2 DEF Columns
<1> DEFINE c == Results[r][i]
<1>2. /\ c.display \in Nat /\ c.null \in BOOLEAN /\ Len(c.value) \in Nat
  BY <1>1, FieldAssumption
<1>3. CASE IsText(c)
  <2>1. SizeOf(c.ctype, c.value) \in Nat
    <3>1. CASE c.ctype = "wchar"
      BY <1>2, <3>1 DEF SizeOf, CellOf
    <3>2. CASE c.ctype # "wchar"
      BY <1>2, <3>2 DEF SizeOf, CellOf
    <3> QED
      BY <3>1, <3>2
  <2>2. ~c.null /\ c.display > 0 => SizeOf(c.ctype, c.value) <= c.display
    BY <1>1, <1>3, FieldAssumption
  <2>3. Held(c) = SizeOf(c.ctype, c.value) /\ Charge(c) = c.display
    BY <1>3 DEF Held, Charge
  <2> QED
    BY <1>2, <2>1, <2>2, <2>3
<1>4. CASE ~IsText(c)
  <2>1. Len(c.kept) \in 0 .. NumberSlot /\ NumberSlot \in Nat
    BY <1>1, <1>4, FieldAssumption
  <2>2. Held(c) = Len(c.kept) /\ Charge(c) = NumberSlot
    BY <1>4 DEF Held, Charge
  <2> QED
    BY <1>2, <2>1, <2>2
<1> QED
  BY <1>3, <1>4

(* A column that is copied in full and charged no less than it holds leaves *)
(* the sums in order.                                                       *)
LEMMA NextFieldInv ==
  ASSUME FillInv, fill.pc \in {"next", "lob"}, cursor' = cursor,
         NEW len \in Int, NEW used \in Nat, NextField(len, used),
         used <= MemoryLimit, used >= fill.used + len, used >= fill.used,
         len = IF FillColumn.null THEN -1 ELSE Held(FillColumn)
  PROVE  FillInv'
<1> DEFINE last == fill.field = Len(Row)
           next == IF last THEN 1 ELSE fill.field + 1
           phase == IF last THEN "done" ELSE "next"
           lens == Append(fill.lens, len)
<1>1. /\ fill \in [pc : {"next", "lob", "done", "failed"}, field : Nat \ {0}, toRead : Nat, already : Nat,
                   full : BOOLEAN, used : Nat, lens : Seq(Int)]
      /\ fill.field \in Nat \ {0} /\ fill.lens \in Seq(Int) /\ fill.used \in Nat
      /\ Len(fill.lens) = fill.field - 1 /\ fill.field <= Len(Row) /\ Len(Row) \in Nat
      /\ Row' = Row
  BY FieldAssumption DEF FillInv, FillTypeOK, Progress, Row
<1>2. /\ fill' = [fill EXCEPT !.pc = phase, !.field = next, !.toRead = 0, !.already = 0, !.full = FALSE,
                              !.used = used, !.lens = lens]
  BY DEF NextField
<1>3. /\ lens \in Seq(Int) /\ Len(lens) = fill.field
      /\ \A i \in 1 .. Len(lens) : lens[i] = IF i = fill.field THEN len ELSE fill.lens[i]
  BY <1>1
<1>4. phase \in {"next", "done"} /\ next \in Nat \ {0} /\ (phase = "next" => fill.field < Len(Row) /\ next = fill.field + 1)
  BY <1>1
<1> HIDE DEF phase, next, lens, last
<1>5. /\ fill' \in [pc : {"next", "lob", "done", "failed"}, field : Nat \ {0}, toRead : Nat, already : Nat,
                    full : BOOLEAN, used : Nat, lens : Seq(Int)]
      /\ fill'.pc = phase /\ fill'.field = next /\ fill'.already = 0 /\ fill'.full = FALSE
      /\ fill'.used = used /\ fill'.lens = lens
  BY <1>1, <1>2, <1>3, <1>4
<1>6. FillTypeOK'
  BY <1>5 DEF FillInv, FillTypeOK
<1>7. Progress' /\ LobInProgress'
  BY <1>1, <1>3, <1>4, <1>5 DEF Progress, LobInProgress
<1> DEFINE old == fill.lens
           m == fill.field
           u == fill.used
<1>8. \A i \in 1 .. Len(old) : old[i] \in Int /\ old[i] <= u
  BY <1>1 DEF FillInv, Charged
<1>9. \A i, j \in 1 .. Len(old) : i # j => old[i] + old[j] <= u
  BY DEF FillInv, BufferWithinLimit
<1>10. \A i \in 1 .. Len(old) : old[i] = IF Row[i].null THEN -1 ELSE Held(Row[i])
  BY DEF FillInv, BufferWithinLimit
<1>11. /\ m \in Nat \ {0} /\ u \in Nat /\ Len(old) = m - 1 /\ Len(lens) = m
       /\ \A i \in 1 .. m : lens[i] = IF i = m THEN len ELSE old[i]
  BY <1>1, <1>3
<1>12. len = IF Row[m].null THEN -1 ELSE Held(Row[m])
  BY DEF FillColumn
<1>13. used \in Nat /\ len \in Int /\ used >= u + len /\ used >= u
  OBVIOUS
<1> HIDE DEF old, m, u
<1>14. \A i \in 1 .. m : i # m => i \in 1 .. Len(old) /\ lens[i] = old[i]
  BY <1>11
<1>15. \A i \in 1 .. m : lens[i] <= used
  BY <1>8, <1>11, <1>13, <1>14
<1>16. \A i, j \in 1 .. m : i # j => lens[i] + lens[j] <= used
  <2> SUFFICES ASSUME NEW i \in 1 .. m, NEW j \in 1 .. m, i # j PROVE lens[i] + lens[j] <= used
    OBVIOUS
  <2>1. CASE i = m
    BY <1>8, <1>11, <1>13, <1>14, <2>1
  <2>2. CASE j = m
    BY <1>8, <1>11, <1>13, <1>14, <2>2
  <2>3. CASE i # m /\ j # m
    BY <1>8, <1>9, <1>11, <1>13, <1>14, <2>3
  <2> QED
    BY <2>1, <2>2, <2>3
<1>17. \A i \in 1 .. m : lens[i] = IF Row[i].null THEN -1 ELSE Held(Row[i])
  BY <1>10, <1>11, <1>12, <1>14
<1>18. Charged'
  BY <1>5, <1>11, <1>15 DEF Charged
<1>19. BufferWithinLimit'
  BY <1>1, <1>5, <1>11, <1>16, <1>17 DEF BufferWithinLimit
<1> QED
  BY <1>6, <1>7, <1>18, <1>19 DEF FillInv

LEMMA ColumnToCopy ==
  ASSUME FillInv, fill.pc \in {"next", "lob"}
  PROVE  /\ FillColumn.display \in Nat /\ FillColumn.null \in BOOLEAN
         /\ Held(FillColumn) \in Nat /\ Charge(FillColumn) \in Nat
         /\ ~FillColumn.null /\ FillColumn.display > 0 => Held(FillColumn) <= Charge(FillColumn)
<1> DEFINE r == cursor.result
           i == fill.field
<1>1. r \in 1 .. Len(Results) /\ i \in 1 .. Len(Results[r])
  BY DEF FillInv, FillTypeOK, Progress, Row
<1>2. FillColumn = Results[r][i]
  BY DEF FillColumn, Row
<1> HIDE DEF r, i
<1> QED
  BY <1>1, <1>2, ColumnTypes

(* A row that does not fit is given up as it stands. *)
LEMMA OverLimitInv == ASSUME FillInv, OverLimit, cursor' = cursor PROVE FillInv'
<1>1. /\ fill' = [fill EXCEPT !.pc = "failed"] /\ Row' = Row
      /\ fill \in [pc : {"next", "lob", "done", "failed"}, field : Nat \ {0}, toRead : Nat, already : Nat,
                  full : BOOLEAN, used : Nat, lens : Seq(Int)]
  BY DEF OverLimit, FillInv, FillTypeOK, Row
<1>2. /\ fill'.pc = "failed" /\ fill'.used = fill.used /\ fill'.lens = fill.lens
      /\ fill' \in [pc : {"next", "lob", "done", "failed"}, field : Nat \ {0}, toRead : Nat, already : Nat,
                  full : BOOLEAN, used : Nat, lens : Seq(Int)]
  BY <1>1
<1>3. FillTypeOK' /\ Progress' /\ LobInProgress'
  BY <1>1, <1>2 DEF FillInv, FillTypeOK, Progress, LobInProgress
<1>4. Charged' /\ BufferWithinLimit'
  BY <1>1, <1>2 DEF FillInv, Charged, BufferWithinLimit
<1> QED
  BY <1>3, <1>4 DEF FillInv

LEMMA FillFixedInv == ASSUME FillInv, FillFixed PROVE FillInv'
<1> DEFINE d == Charge(FillColumn)
           len == IF FillColumn.null THEN -1 ELSE Held(FillColumn)
<1>1. fill.pc = "next" /\ d \in Nat /\ FillColumn.display > 0 /\ cursor' = cursor /\ fill.used \in Nat
  BY ColumnToCopy DEF FillFixed, FillInv, FillTypeOK
<1>2. len \in Int /\ len <= d
  BY <1>1, ColumnToCopy
<1>3. CASE Exceeds(d)
  BY <1>1, <1>3, OverLimitInv DEF FillFixed
<1>4. CASE ~Exceeds(d)
  <2>1. NextField(len, fill.used + d)
    BY <1>4 DEF FillFixed
  <2>2. fill.used + d <= MemoryLimit
    BY <1>1, <1>4, FieldAssumption DEF Exceeds
  <2> DEFINE used == fill.used + d
  <2>3. used \in Nat /\ used <= MemoryLimit /\ used >= fill.used + len /\ used >= fill.used
    BY <1>1, <1>2, <2>2
  <2> HIDE DEF used, d
  <2> QED
    BY <1>1, <1>2, <2>1, <2>3, NextFieldInv DEF used
<1> QED
  BY <1>3, <1>4

LEMMA LobStartInv == ASSUME FillInv, LobStart PROVE FillInv'
<1>1. /\ fill' = [fill EXCEPT !.pc = "lob", !.toRead = InitialLength] /\ cursor' = cursor /\ Row' = Row
      /\ fill.pc = "next"
      /\ fill \in [pc : {"next", "lob", "done", "failed"}, field : Nat \ {0}, toRead : Nat, already : Nat,
                  full : BOOLEAN, used : Nat, lens : Seq(Int)]
  BY DEF LobStart, FillInv, FillTypeOK, Row
<1>2. /\ fill'.pc = "lob" /\ fill'.used = fill.used /\ fill'.lens = fill.lens /\ fill'.field = fill.field
      /\ fill'.already = fill.already /\ fill'.full = fill.full
      /\ fill' \in [pc : {"next", "lob", "done", "failed"}, field : Nat \ {0}, toRead : Nat, already : Nat,
                  full : BOOLEAN, used : Nat, lens : Seq(Int)]
  BY <1>1, LimitsAreNumbers
<1>3. FillTypeOK' /\ Progress' /\ LobInProgress'
  BY <1>1, <1>2 DEF FillInv, FillTypeOK, Progress, LobInProgress
<1>4. Charged' /\ BufferWithinLimit'
  BY <1>1, <1>2 DEF FillInv, Charged, BufferWithinLimit
<1> QED
  BY <1>3, <1>4 DEF FillInv

(* The buffer is doubled, or made as long as the value is, only after a     *)
(* look at the limit; the last piece then fits without another one.         *)
LEMMA LobReadInv == ASSUME FillInv, LobRead PROVE FillInv'
<1> DEFINE size == Held(FillColumn)
           left == size - fill.already
           fits == left <= fill.toRead - fill.already
           more == IF cursor.known THEN left ELSE 2 * fill.toRead
<1>1. /\ fill.pc = "lob" /\ cursor' = cursor /\ Row' = Row /\ cursor.known \in BOOLEAN
      /\ fill \in [pc : {"next", "lob", "done", "failed"}, field : Nat \ {0}, toRead : Nat, already : Nat,
                  full : BOOLEAN, used : Nat, lens : Seq(Int)]
      /\ fill.used \in Nat /\ fill.toRead \in Nat /\ fill.already \in Nat /\ fill.full \in BOOLEAN
  BY DEF LobRead, FillInv, FillTypeOK, Row
<1>2. size \in Nat /\ FillColumn.null \in BOOLEAN
  BY <1>1, ColumnToCopy
<1>3. CASE FillColumn.null
  <2>1. NextField(-1, fill.used)
    BY <1>3 DEF LobRead
  <2>2. -1 \in Int /\ fill.used <= MemoryLimit /\ fill.used >= fill.used + (-1) /\ fill.used >= fill.used
    BY <1>1 DEF FillInv, BufferWithinLimit
  <2> QED
    BY <1>1, <1>3, <2>1, <2>2, NextFieldInv
<1>4. CASE ~FillColumn.null /\ fits
  <2>1. LobRound(left, size) = size
    BY <1>1, <1>2 DEF LobRound
  <2>2. CASE Exceeds(left)
    BY <1>1, <1>4, <2>2, OverLimitInv DEF LobRead
  <2>3. CASE ~Exceeds(left)
    <3> DEFINE used == fill.used + size
    <3>1. NextField(size, used)
      BY <1>4, <2>1, <2>3 DEF LobRead
    <3>2. used <= MemoryLimit
      <4>1. CASE fill.already = 0
        BY <1>1, <1>2, <2>3, <4>1, LimitsAreNumbers DEF Exceeds
      <4>2. CASE fill.already # 0
        BY <1>1, <1>2, <1>4, <4>2, LimitsAreNumbers DEF FillInv, LobInProgress
      <4> QED
        BY <4>1, <4>2
    <3>3. used \in Nat /\ used >= fill.used + size /\ used >= fill.used /\ size \in Int
      BY <1>1, <1>2
    <3>4. size = IF FillColumn.null THEN -1 ELSE Held(FillColumn)
      BY <1>4
    <3> HIDE DEF used, size
    <3> QED
      BY <1>1, <3>1, <3>2, <3>3, <3>4, NextFieldInv
  <2> QED
    BY <2>2, <2>3
<1>5. CASE ~FillColumn.null /\ ~fits
  <2>1. CASE Exceeds(more)
    BY <1>1, <1>5, <2>1, OverLimitInv DEF LobRead
  <2>2. CASE ~Exceeds(more)
    <3>1. fill' = [fill EXCEPT !.toRead = more, !.already = fill.toRead, !.full = cursor.known]
      BY <1>5, <2>2 DEF LobRead
    <3>2. fill.full = FALSE
      BY <1>1, <1>2, <1>5 DEF FillInv, LobInProgress
    <3>3. fill.already = 0 \/ ~cursor.known
      BY <1>1, <3>2 DEF FillInv, LobInProgress
    <3>4. more \in Nat /\ fill.used + more <= MemoryLimit /\ (cursor.known => more = size)
      <4>1. fill.used + more <= MemoryLimit \/ more \notin Nat
        <5> HIDE DEF more
        <5> QED
          BY <1>1, <2>2, LimitsAreNumbers DEF Exceeds
      <4>2. CASE cursor.known
        <5>1. fill.already = 0 /\ left \in Nat /\ left = size
          BY <1>1, <1>2, <3>3, <4>2
        <5>2. more = left
          BY <4>2
        <5> QED
          BY <4>1, <5>1, <5>2
      <4>3. CASE ~cursor.known
        <5>1. more = 2 * fill.toRead /\ 2 * fill.toRead \in Nat
          BY <1>1, <4>3
        <5> HIDE DEF more
        <5> QED
          BY <4>1, <4>3, <5>1
      <4> QED
        BY <4>2, <4>3
    <3> HIDE DEF more, size
    <3>5. /\ fill' \in [pc : {"next", "lob", "done", "failed"}, field : Nat \ {0}, toRead : Nat, already : Nat,
                        full : BOOLEAN, used : Nat, lens : Seq(Int)]
          /\ fill'.pc = fill.pc /\ fill'.used = fill.used /\ fill'.lens = fill.lens /\ fill'.field = fill.field
          /\ fill'.toRead = more /\ fill'.full = cursor.known
      BY <1>1, <3>1, <3>4
    <3>6. FillTypeOK' /\ Progress'
      BY <1>1, <3>5 DEF FillInv, FillTypeOK, Progress
    <3>7. LobInProgress'
      BY <1>1, <3>4, <3>5 DEF LobInProgress, FillColumn, size
    <3>8. Charged' /\ BufferWithinLimit'
      BY <1>1, <3>5 DEF FillInv, Charged, BufferWithinLimit
    <3> QED
      BY <3>6, <3>7, <3>8 DEF FillInv
  <2> QED
    BY <2>1, <2>2
<1> QED
  BY <1>3, <1>4, <1>5

(***************************************************************************)
(* The other actions: reading fields leaves the copy alone, and the next   *)
(* result has its own.                                                     *)
(***************************************************************************)
LEMMA CopyKept ==
  ASSUME FillInv, fill' = fill, DOMAIN cursor' = CursorFields,
         cursor'.result = cursor.result, cursor'.known = cursor.known
  PROVE  FillInv'
<1>1. Row' = Row
  BY DEF Row
<1>2. FillTypeOK'
  BY DEF FillInv, FillTypeOK
<1>3. Progress' /\ LobInProgress'
  BY <1>1 DEF FillInv, Progress, LobInProgress, FillColumn
<1>4. Charged' /\ BufferWithinLimit'
  BY <1>1 DEF FillInv, Charged, BufferWithinLimit
<1> QED
  BY <1>2, <1>3, <1>4 DEF FillInv

LEMMA ReturnedInv == ASSUME FillInv, fill' = fill, NEW kind, NEW value, Returned(kind, value) PROVE FillInv'
<1>1. DOMAIN cursor = CursorFields
  BY DEF FillInv, FillTypeOK
<1>2. DOMAIN cursor' = CursorFields /\ cursor'.result = cursor.result /\ cursor'.known = cursor.known
  BY <1>1 DEF Returned, CursorFields
<1> QED
  BY <1>2, CopyKept

LEMMA FinishInv == ASSUME FillInv, fill' = fill, NEW buf, NEW len, Finish(buf, len) PROVE FillInv'
BY ReturnedInv DEF Finish

LEMMA RefusalInv == ASSUME FillInv, fill' = fill, NEW kind, Refusal(kind) PROVE FillInv'
BY ReturnedInv DEF Refusal

LEMMA ReadInv ==
  ASSUME FillInv, ReadFixed \/ ReadFirst \/ ReadRest \/ ReadMore
  PROVE  FillInv'
<1>1. CASE ReadFixed
  BY <1>1, ReturnedInv, FinishInv, RefusalInv DEF ReadFixed
<1>2. CASE ReadFirst
  BY <1>2, CopyKept, FinishInv, RefusalInv DEF ReadFirst, FillInv, FillTypeOK
<1>3. CASE ReadRest
  BY <1>3, FinishInv, RefusalInv DEF ReadRest
<1>4. CASE ReadMore
  BY <1>4, CopyKept, FinishInv DEF ReadMore, FillInv, FillTypeOK
<1> QED
  BY <1>1, <1>2, <1>3, <1>4

LEMMA GetInv ==
  ASSUME FillInv, NEW f \in FieldIds, GetInt(f) \/ \E enc \in Encodings : Get(f, enc)
  PROVE  FillInv'
<1>1. DOMAIN cursor = CursorFields
  BY DEF FillInv, FillTypeOK
<1>2. fill' = fill
  BY DEF Get, GetInt
<1>3. DOMAIN cursor' = CursorFields /\ cursor'.result = cursor.result /\ cursor'.known = cursor.known
  BY <1>1 DEF Get, GetInt, CursorFields
<1> QED
  BY <1>2, <1>3, CopyKept

LEMMA FetchInv == ASSUME FillInv, Fetch PROVE FillInv'
<1>1. DOMAIN cursor = CursorFields
  BY DEF FillInv, FillTypeOK
<1>2. fill' = fill /\ DOMAIN cursor' = CursorFields /\ cursor'.result = cursor.result /\ cursor'.known = cursor.known
  BY <1>1 DEF Fetch, CursorFields
<1> QED
  BY <1>2, CopyKept

(* A new result starts with nothing copied, buffered or not. *)
LEMMA NothingCopied ==
  ASSUME NEW b, NEW start, start = Filling(b)
  PROVE  /\ start \in [pc : {"next", "lob", "done", "failed"}, field : Nat \ {0}, toRead : Nat, already : Nat,
                         full : BOOLEAN, used : Nat, lens : Seq(Int)]
         /\ start.pc \in {"next", "done"} /\ start.field = 1 /\ start.already = 0 /\ start.full = FALSE
         /\ start.used = 0 /\ start.lens = <<>>
BY DEF Filling

LEMMA NextResultInv == ASSUME FillInv, NextResult PROVE FillInv'
<1>1. DOMAIN cursor = CursorFields /\ cursor.result \in 1 .. Len(Results) /\ cursor.known \in BOOLEAN
      /\ cursor.result < Len(Results) /\ Len(Results) \in Nat
  BY FieldAssumption DEF FillInv, FillTypeOK, NextResult
<1>2. /\ DOMAIN cursor' = CursorFields /\ cursor'.result \in 1 .. Len(Results)
      /\ cursor'.known \in BOOLEAN /\ fill' = Filling(cursor.buffered)
  BY <1>1 DEF NextResult, CursorFields
<1>3. /\ fill' \in [pc : {"next", "lob", "done", "failed"}, field : Nat \ {0}, toRead : Nat, already : Nat,
                  full : BOOLEAN, used : Nat, lens : Seq(Int)]
      /\ fill'.pc \in {"next", "done"} /\ fill'.field = 1 /\ fill'.already = 0 /\ fill'.full = FALSE
      /\ fill'.used = 0 /\ fill'.lens = <<>>
  BY <1>2, NothingCopied
<1>4. Len(Row') \in Nat /\ Len(Row') >= 1
  BY <1>2, FieldAssumption DEF Row
<1>5. FillTypeOK'
  BY <1>2, <1>3 DEF FillTypeOK
<1>6. Progress' /\ LobInProgress' /\ Charged' /\ BufferWithinLimit'
  BY <1>3, <1>4, FieldAssumption DEF Progress, LobInProgress, Charged, BufferWithinLimit
<1> QED
  BY <1>5, <1>6 DEF FillInv

LEMMA InitInv == Init => FillInv
<1> SUFFICES ASSUME Init PROVE FillInv
  OBVIOUS
<1>1. DOMAIN cursor = CursorFields /\ cursor.result \in 1 .. Len(Results) /\ cursor.known \in BOOLEAN
  BY FieldAssumption DEF Init, CursorFields
<1>2. fill = Filling(cursor.buffered)
  BY DEF Init
<1>3. /\ fill \in [pc : {"next", "lob", "done", "failed"}, field : Nat \ {0}, toRead : Nat, already : Nat,
                  full : BOOLEAN, used : Nat, lens : Seq(Int)]
      /\ fill.pc \in {"next", "done"} /\ fill.field = 1 /\ fill.already = 0 /\ fill.full = FALSE
      /\ fill.used = 0 /\ fill.lens = <<>>
  BY <1>2, NothingCopied
<1>4. Len(Row) \in Nat /\ Len(Row) >= 1
  BY <1>1, FieldAssumption DEF Row
<1>5. FillTypeOK
  BY <1>1, <1>3 DEF FillTypeOK
<1>6. Progress /\ LobInProgress /\ Charged /\ BufferWithinLimit
  BY <1>3, <1>4, FieldAssumption DEF Progress, LobInProgress, Charged, BufferWithinLimit
<1> QED
  BY <1>5, <1>6 DEF FillInv

LEMMA Invariance == Spec => []FillInv
<1>1. FillInv /\ [Next]_vars => FillInv'
  <2> SUFFICES ASSUME FillInv, [Next]_vars PROVE FillInv'
    OBVIOUS
  <2>1. CASE FillFixed
    BY <2>1, FillFixedInv
  <2>2. CASE LobStart
    BY <2>2, LobStartInv
  <2>3. CASE LobRead
    BY <2>3, LobReadInv
  <2>4. CASE ReadFixed \/ ReadFirst \/ ReadRest \/ ReadMore
    BY <2>4, ReadInv
  <2>5. CASE \E f \in FieldIds : GetInt(f) \/ \E enc \in Encodings : Get(f, enc)
    BY <2>5, GetInv
  <2>6. CASE Fetch
    BY <2>6, FetchInv
  <2>7. CASE NextResult
    BY <2>7, NextResultInv
  <2>8. CASE UNCHANGED vars
    BY <2>8, CopyKept DEF vars, FillInv, FillTypeOK
  <2> QED
    BY <2>1, <2>2, <2>3, <2>4, <2>5, <2>6, <2>7, <2>8 DEF Next, Continue
<1> QED
  BY <1>1, InitInv, PTL DEF Spec

(* What the buffer holds of a row never exceeds buffered_query_limit, each  *)
(* field is held whole and charged: read_lob_field compares the limit with  *)
(* every buffer it grows to, so that what it charges at the end fits.       *)
THEOREM RowWithinLimit == Spec => []BufferWithinLimit
BY Invariance, PTL DEF FillInv
====
