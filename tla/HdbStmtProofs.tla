---- MODULE HdbStmtProofs ----
(***************************************************************************)
(* What the fields of a statement resource, its result set, its stream and *)
(* the ODBC cursor know of each other after every sequence of calls, for   *)
(* all batches of results, all scrolling arguments, every number of fields *)
(* and failures, and a connection that may be lost at any moment.          *)
(***************************************************************************)
EXTENDS HdbStmt, SequenceTheorems, TLAPS

Sizes == [cols : BOOLEAN, rows : 0 .. MaxLen - 1]

Handles ==
  [open : BOOLEAN, id : Nat, cols : BOOLEAN, rows : 0 .. MaxLen - 1, pos : 0 .. MaxLen,
   rest : Seq(Sizes), diag : {"none", "own", "stale"}, faults : Nat, lost : BOOLEAN]

HandleOK(o) == o \in Handles /\ o.pos <= o.rows + 1

(* p has the result and the position of o. *)
Same(o, p) ==
  /\ p.open = o.open /\ p.id = o.id /\ p.cols = o.cols
  /\ p.rows = o.rows /\ p.pos = o.pos /\ p.rest = o.rest

(* p has the position of o, or has no result any more. *)
Stays(o, p) ==
  /\ p.open => o.open
  /\ p.id = o.id /\ p.cols = o.cols /\ p.rows = o.rows /\ p.pos = o.pos

(* Diagnostic records of this very call. *)
Own(o) == o.diag = "own"

----
(* What the calls of the ODBC statement come back with. *)

LEMMA BatchSizes == \A b \in Batches : b \in Seq(Sizes) /\ b # <<>>
<1> SUFFICES ASSUME NEW b \in Batches PROVE b \in Seq(Sizes) /\ b # <<>>
  OBVIOUS
<1>1. b \in Seq([cols : BOOLEAN, rows : Nat]) /\ b # <<>>
  BY BatchesAssumption
<1>2. Len(b) \in Nat /\ b \in [1 .. Len(b) -> [cols : BOOLEAN, rows : Nat]]
  BY <1>1, LenProperties
<1>3. \A i \in 1 .. Len(b) : b[i] \in Results
  BY <1>2 DEF Results
<1>4. \A i \in 1 .. Len(b) : b[i] \in Sizes
  BY <1>2, <1>3, BoundsAssumption DEF Sizes
<1>5. b \in [1 .. Len(b) -> Sizes]
  BY <1>2, <1>4
<1>6. Seq(Sizes) = UNION {[1 .. n -> Sizes] : n \in Nat}
  BY SeqDef
<1> QED
  BY <1>1, <1>2, <1>5, <1>6

LEMMA AcceptedShape ==
  ASSUME NEW o, HandleOK(o), NEW p \in Accepted(o)
  PROVE  HandleOK(p) /\ Same(o, p) /\ p.diag = "none" /\ ~o.lost /\ p.faults = o.faults
BY DEF Accepted, HandleOK, Handles, Same

LEMMA FailedShape ==
  ASSUME NEW o, HandleOK(o), NEW done, \A d \in done : HandleOK(d), NEW p \in Failed(o, done)
  PROVE  /\ HandleOK(p) /\ Own(p)
         /\ Same(o, p) \/ (WarningsAsErrors /\ \E d \in done : Same(d, p))
<1>1. CASE o.lost
  BY <1>1 DEF Failed, Refused, HandleOK, Handles, Same, Own
<1>2. CASE ~o.lost
  <2> DEFINE Q == {o} \cup {d \in done : WarningsAsErrors}
             marked(q) == [q EXCEPT !.diag = "own", !.faults = @ + 1]
  <2>0. p \in {x \in {marked(q) : q \in Q} : x.faults <= MaxFaults}
    BY <1>2 DEF Failed
  <2>1. PICK q \in Q : p = marked(q)
    BY <2>0
  <2>2. HandleOK(q)
    BY <2>1
  <2>3. HandleOK(p) /\ Own(p) /\ Same(q, p)
    <3>1. q \in Handles /\ q.faults + 1 \in Nat
      BY <2>2 DEF HandleOK, Handles
    <3>2. p = [q EXCEPT !.diag = "own", !.faults = q.faults + 1]
      BY <2>1
    <3> HIDE DEF Q, marked
    <3>3. p \in Handles
      BY <3>1, <3>2 DEF Handles
    <3>4. Own(p) /\ Same(q, p)
      BY <3>1, <3>2 DEF Handles, Same, Own
    <3> QED
      BY <2>2, <3>3, <3>4 DEF HandleOK, Same
  <2> QED
    BY <2>1, <2>3
<1> QED
  BY <1>1, <1>2

LEMMA RefusedShape ==
  ASSUME NEW o, HandleOK(o), NEW p \in Refused(o)
  PROVE  HandleOK(p) /\ Own(p) /\ Same(o, p)
BY DEF Refused, HandleOK, Handles, Same, Own

(* The calls that only ask: they leave the result and the position alone. *)
Asks(o, x) == HandleOK(x.odbc) /\ Same(o, x.odbc) /\ x.ok \in BOOLEAN /\ (~x.ok => Own(x.odbc))

LEMMA FailedAsks ==
  ASSUME NEW o, HandleOK(o), NEW p \in IF o.open THEN Failed(o, {}) ELSE Refused(o)
  PROVE  HandleOK(p) /\ Own(p) /\ Same(o, p)
BY FailedShape, RefusedShape

LEMMA NumResultColsShape ==
  ASSUME NEW o, HandleOK(o), NEW x \in SQLNumResultCols(o)
  PROVE  Asks(o, x) /\ x.ret \in BOOLEAN
<1>1. CASE x.odbc \in Accepted(o) /\ x.ok = TRUE /\ x.ret \in IF o.open THEN {o.cols} ELSE BOOLEAN
  BY <1>1, AcceptedShape DEF Asks, HandleOK, Handles
<1>2. CASE x.odbc \in (IF o.open THEN Failed(o, {}) ELSE Refused(o)) /\ x.ok = FALSE /\ x.ret = FALSE
  BY <1>2, FailedAsks DEF Asks
<1> QED
  BY <1>1, <1>2 DEF SQLNumResultCols

LEMMA ColAttributeShape ==
  ASSUME NEW o, HandleOK(o), NEW x \in SQLColAttribute(o)
  PROVE  Asks(o, x)
<1>1. CASE x.odbc \in Accepted(o) /\ x.ok = TRUE
  BY <1>1, AcceptedShape DEF Asks
<1>2. CASE x.odbc \in (IF o.open THEN Failed(o, {}) ELSE Refused(o)) /\ x.ok = FALSE
  BY <1>2, FailedAsks DEF Asks
<1> QED
  BY <1>1, <1>2 DEF SQLColAttribute

LEMMA OnResultShape ==
  ASSUME NEW o, HandleOK(o), NEW x \in OnResult(o)
  PROVE  Asks(o, x)
<1>1. CASE x.odbc \in Accepted(o) /\ x.ok = TRUE
  BY <1>1, AcceptedShape DEF Asks
<1>2. CASE x.odbc \in (IF o.open THEN Failed(o, {}) ELSE Refused(o)) /\ x.ok = FALSE
  BY <1>2, FailedAsks DEF Asks
<1> QED
  BY <1>1, <1>2 DEF OnResult

LEMMA CloseCursorShape ==
  ASSUME NEW o, HandleOK(o)
  PROVE  /\ HandleOK(CloseCursor(o)) /\ Stays(o, CloseCursor(o)) /\ ~CloseCursor(o).open
         /\ CloseCursor(o).diag = o.diag
<1>1. <<>> \in Seq(Sizes)
  BY EmptySeq
<1> QED
  BY <1>1 DEF CloseCursor, HandleOK, Handles, Stays

LEMMA CancelShape ==
  ASSUME NEW o, HandleOK(o), NEW p \in SQLCancel(o)
  PROVE  HandleOK(p) /\ Stays(o, p)
<1>1. <<>> \in Seq(Sizes)
  BY EmptySeq
<1>2. CASE p \in Refused(o)
  BY <1>2, RefusedShape DEF Same, Stays
<1>3. CASE p \in Accepted(o)
  BY <1>3, AcceptedShape DEF Same, Stays
<1>4. ASSUME NEW q \in Accepted(o), p = [q EXCEPT !.open = FALSE, !.rest = <<>>]
      PROVE  HandleOK(p) /\ Stays(o, p)
  <2>1. HandleOK(q) /\ Same(o, q)
    BY AcceptedShape
  <2> QED
    BY <1>1, <1>4, <2>1 DEF HandleOK, Handles, Same, Stays
<1> QED
  BY <1>2, <1>3, <1>4 DEF SQLCancel

LEMMA MakeCurrentShape ==
  ASSUME NEW o, HandleOK(o), NEW r \in Sizes, NEW rest \in Seq(Sizes)
  PROVE  /\ HandleOK(MakeCurrent(o, r, rest)) /\ MakeCurrent(o, r, rest).diag = o.diag
         /\ MakeCurrent(o, r, rest).open = TRUE
<1> DEFINE m == [o EXCEPT !.open = TRUE, !.id = o.id + 1, !.cols = r.cols, !.rows = r.rows,
                          !.pos = 0, !.rest = rest]
<1>1. MakeCurrent(o, r, rest) = m
  BY DEF MakeCurrent
<1>2. 0 \in 0 .. MaxLen /\ r.rows \in 0 .. MaxLen - 1 /\ r.cols \in BOOLEAN /\ o.id + 1 \in Nat
  BY BoundsAssumption DEF Sizes, HandleOK, Handles
<1>3. m \in Handles /\ m.pos = 0 /\ m.rows = r.rows /\ m.diag = o.diag /\ m.open = TRUE
  BY <1>2 DEF HandleOK, Handles
<1> QED
  BY <1>1, <1>2, <1>3 DEF HandleOK

LEMMA ExecuteShape ==
  ASSUME NEW o, HandleOK(o), NEW bound, NEW e \in SQLExecute(o, bound)
  PROVE  /\ HandleOK(e.odbc) /\ e.ok \in BOOLEAN
         /\ e.ok => e.odbc.open
         /\ ~e.ok => /\ Own(e.odbc)
                     /\ ~WarningsAsErrors => Stays(o, e.odbc) /\ ((o.open /\ o.cols) \/ ~e.odbc.open)
<1>1. \A d \in Executed(o) : HandleOK(d) /\ d.open
  <2> SUFFICES ASSUME NEW p \in Accepted(o), NEW b \in Batches
               PROVE  HandleOK(MakeCurrent(p, Head(b), Tail(b)))
                      /\ MakeCurrent(p, Head(b), Tail(b)).open
    BY DEF Executed
  <2>1. HandleOK(p)
    BY AcceptedShape
  <2>2. b \in Seq(Sizes) /\ b # <<>>
    BY BatchSizes
  <2>3. Head(b) \in Sizes /\ Tail(b) \in Seq(Sizes)
    BY <2>2
  <2>4. HandleOK(MakeCurrent(p, Head(b), Tail(b))) /\ MakeCurrent(p, Head(b), Tail(b)).open = TRUE
    BY <2>1, <2>3, MakeCurrentShape
  <2> QED
    BY <2>4
<1>2. HandleOK(CloseCursor(o)) /\ Stays(o, CloseCursor(o)) /\ ~CloseCursor(o).open
  BY CloseCursorShape
<1>3. CASE o.open /\ o.cols /\ e.odbc \in Refused(o) /\ e.ok = FALSE
  <2>1. HandleOK(e.odbc) /\ Own(e.odbc) /\ Same(o, e.odbc)
    BY <1>3, RefusedShape
  <2> QED
    BY <1>3, <2>1 DEF Same, Stays
<1>4. CASE e.odbc \in Refused(CloseCursor(o)) /\ e.ok = FALSE
  <2>1. HandleOK(e.odbc) /\ Own(e.odbc) /\ Same(CloseCursor(o), e.odbc)
    BY <1>2, <1>4, RefusedShape
  <2> QED
    BY <1>2, <1>4, <2>1 DEF Same, Stays
<1>5. CASE e.odbc \in Executed(o) /\ e.ok = TRUE
  BY <1>1, <1>5
<1>6. CASE e.odbc \in Failed(CloseCursor(o), Executed(o)) /\ e.ok = FALSE
  <2>1. /\ HandleOK(e.odbc) /\ Own(e.odbc)
        /\ Same(CloseCursor(o), e.odbc) \/ (WarningsAsErrors /\ \E d \in Executed(o) : Same(d, e.odbc))
    BY <1>1, <1>2, <1>6, FailedShape
  <2> QED
    BY <1>2, <1>6, <2>1 DEF Same, Stays
<1>7. CASE o.open /\ o.cols
  BY <1>3, <1>7 DEF SQLExecute
<1>8. CASE ~(o.open /\ o.cols) /\ ~bound
  BY <1>4, <1>8 DEF SQLExecute
<1>9. CASE ~(o.open /\ o.cols) /\ bound
  BY <1>5, <1>6, <1>9 DEF SQLExecute
<1> QED
  BY <1>7, <1>8, <1>9

LEMMA MoreResultsShape ==
  ASSUME NEW o, HandleOK(o), NEW m \in SQLMoreResults(o)
  PROVE  /\ HandleOK(m.odbc) /\ m.ret \in {"end", "error", "more"}
         /\ m.ret = "end" => ~m.odbc.open /\ Stays(o, m.odbc)
         /\ m.ret = "more" => m.odbc.open
         /\ m.ret = "error" => /\ Own(m.odbc)
                               /\ ~WarningsAsErrors => Stays(o, m.odbc) /\ ~m.odbc.open
<1>1. HandleOK(CloseCursor(o)) /\ Stays(o, CloseCursor(o)) /\ ~CloseCursor(o).open
  BY CloseCursorShape
<1>2. CASE o.rest = <<>>
  <2>1. CASE m.odbc \in Accepted(CloseCursor(o)) /\ m.ret = "end"
    <3>1. HandleOK(m.odbc) /\ Same(CloseCursor(o), m.odbc)
      BY <1>1, <2>1, AcceptedShape
    <3> QED
      BY <1>1, <2>1, <3>1 DEF Same, Stays
  <2>2. CASE m.odbc \in Failed(CloseCursor(o), {}) /\ m.ret = "error"
    <3>1. HandleOK(m.odbc) /\ Own(m.odbc) /\ Same(CloseCursor(o), m.odbc)
      BY <1>1, <2>2, FailedShape
    <3> QED
      BY <1>1, <2>2, <3>1 DEF Same, Stays
  <2> QED
    BY <1>2, <2>1, <2>2 DEF SQLMoreResults
<1>3. CASE o.rest # <<>>
  <2> DEFINE done == {MakeCurrent(p, Head(o.rest), Tail(o.rest)) : p \in Accepted(o)}
             skipped == [o EXCEPT !.open = FALSE, !.rest = Tail(@)]
  <2>1. Head(o.rest) \in Sizes /\ Tail(o.rest) \in Seq(Sizes)
    BY <1>3 DEF HandleOK, Handles
  <2>2. \A d \in done : HandleOK(d) /\ d.open
    <3> SUFFICES ASSUME NEW p \in Accepted(o)
                 PROVE  HandleOK(MakeCurrent(p, Head(o.rest), Tail(o.rest)))
                        /\ MakeCurrent(p, Head(o.rest), Tail(o.rest)).open
      OBVIOUS
    <3>1. HandleOK(p)
      BY AcceptedShape
    <3>2. HandleOK(MakeCurrent(p, Head(o.rest), Tail(o.rest)))
          /\ MakeCurrent(p, Head(o.rest), Tail(o.rest)).open = TRUE
      BY <2>1, <3>1, MakeCurrentShape
    <3> QED
      BY <3>2
  <2>3. HandleOK(skipped) /\ Stays(o, skipped) /\ ~skipped.open
    BY <2>1 DEF HandleOK, Handles, Stays
  <2>4. CASE m.odbc \in done /\ m.ret = "more"
    BY <2>2, <2>4
  <2>5. CASE m.odbc \in Failed(skipped, done) /\ m.ret = "error"
    <3> HIDE DEF done, skipped
    <3>1. /\ HandleOK(m.odbc) /\ Own(m.odbc)
          /\ Same(skipped, m.odbc) \/ (WarningsAsErrors /\ \E d \in done : Same(d, m.odbc))
      BY <2>2, <2>3, <2>5, FailedShape
    <3> QED
      BY <2>3, <2>5, <3>1 DEF Same, Stays
  <2> QED
    BY <1>3, <2>4, <2>5 DEF SQLMoreResults
<1> QED
  BY <1>2, <1>3

Styles == {"next", "prior", "first", "last", "absolute", "relative"}

(* A fetch stays on the result; it succeeds on a row of it. *)
LEMMA FetchScrollShape ==
  ASSUME NEW o, HandleOK(o), NEW forward \in BOOLEAN, NEW style \in Styles, NEW offset \in Int,
         NEW f \in SQLFetchScroll(o, forward, style, offset)
  PROVE  /\ HandleOK(f.odbc) /\ f.ret \in {"row", "no_data", "error"}
         /\ f.odbc.open = o.open /\ f.odbc.cols = o.cols
         /\ f.ret = "row" => f.odbc.pos \in 1 .. f.odbc.rows
         /\ f.ret = "error" => Own(f.odbc) /\ (~WarningsAsErrors => Same(o, f.odbc))
<1> DEFINE target == ScrollTarget(o, style, offset)
           stop == IF target < 1 THEN 0 ELSE IF target > o.rows THEN o.rows + 1 ELSE target
           done == {[p EXCEPT !.pos = stop] : p \in Accepted(o)}
<1>1. target \in Int
  BY DEF ScrollTarget, Styles, HandleOK, Handles
<1>2. stop \in 0 .. o.rows + 1 /\ (target \in 1 .. o.rows => stop = target)
  BY <1>1 DEF HandleOK, Handles
<1> HIDE DEF target, stop
<1>3. \A d \in done : /\ HandleOK(d) /\ d.open = o.open /\ d.cols = o.cols
                      /\ d.rows = o.rows /\ d.pos = stop
  <2> SUFFICES ASSUME NEW p \in Accepted(o)
               PROVE  LET d == [p EXCEPT !.pos = stop]
                      IN  /\ HandleOK(d) /\ d.open = o.open /\ d.cols = o.cols
                          /\ d.rows = o.rows /\ d.pos = stop
    BY DEF done
  <2>1. HandleOK(p) /\ Same(o, p)
    BY AcceptedShape
  <2>2. stop \in 0 .. MaxLen /\ stop <= p.rows + 1
    BY <1>2, <2>1, BoundsAssumption DEF HandleOK, Handles, Same
  <2> QED
    BY <2>1, <2>2 DEF HandleOK, Handles, Same
<1> HIDE DEF done
<1>4. CASE f.odbc \in Refused(o) /\ f.ret = "error"
  BY <1>4, RefusedShape DEF Same
<1>5. CASE f.odbc \in done /\ f.ret = IF target \in 1 .. o.rows THEN "row" ELSE "no_data"
  BY <1>2, <1>3, <1>5
<1>6. CASE f.odbc \in Failed(o, {d \in done : target \in 1 .. o.rows}) /\ f.ret = "error"
  <2>1. /\ HandleOK(f.odbc) /\ Own(f.odbc)
        /\ Same(o, f.odbc)
           \/ (WarningsAsErrors /\ \E d \in {x \in done : target \in 1 .. o.rows} : Same(d, f.odbc))
    BY <1>3, <1>6, FailedShape
  <2> QED
    BY <1>3, <1>6, <2>1 DEF Same
<1> QED
  BY <1>4, <1>5, <1>6 DEF SQLFetchScroll, target, stop, done

----
(***************************************************************************)
(* The invariant, for a statement s, its result set r, the handle o and    *)
(* the stream st, so that it can be said of what a call comes back with.   *)
(***************************************************************************)
Stmts ==
  [alive : BOOLEAN, cursor_type : CursorTypes, params : {"none", "given", "lost"},
   prepared : BOOLEAN, executed : BOOLEAN, past_fetch_end : BOOLEAN, fetch_called : BOOLEAN,
   has_rows : BOOLEAN, past_next_result_end : BOOLEAN, last_field_index : -1 .. Fields - 1]

ResultSets ==
  [kind : {"null", "odbc", "buffered"}, id : Nat, rows : -1 .. BufferLimit, cur : Nat,
   err : {"none", "own", "stale"}]

ResultSetOK(r) == r \in ResultSets /\ r.cur <= r.rows + 1 /\ r.rows < MaxLen

Streams == [open : BOOLEAN, row : Nat \X Nat]

Buffered(s) == s.cursor_type = "buffered"

(* A statement has the result set its cursor type asks for; one that was     *)
(* executed has one unless a buffer could not be filled.                     *)
KindOK(s, r) ==
  /\ r.kind \in {"null", IF Buffered(s) THEN "buffered" ELSE "odbc"}
  /\ s.executed /\ ~Buffered(s) => r.kind = "odbc"
  /\ s.fetch_called => r.kind # "null"

Dead(s, o) ==
  ~s.alive =>
    ~s.executed /\ ~s.fetch_called /\ ~s.has_rows /\ ~s.past_next_result_end /\ ~o.open

(* A stream is open only while a row is current, and stands on that row. *)
StreamOnRow(s, r, o, st) ==
  st.open => s.fetch_called /\ (r.kind = "odbc" => st.row = <<o.id, o.pos>>)

NoZeroMove == <<"relative", 0>> \notin Moves

(* A forward-only cursor that hdb_has_rows has moved counts as well. *)
RowExpected(s) ==
  s.fetch_called \/ (s.cursor_type = "forward" /\ s.has_rows /\ ~s.past_fetch_end)

RowThere(s, r, o) ==
  /\ NoZeroMove /\ r.kind = "buffered" /\ s.fetch_called => r.cur \in 1 .. r.rows
  /\ ~WarningsAsErrors /\ r.kind = "odbc" /\ RowExpected(s) /\ o.open => o.pos \in 1 .. o.rows

(* Whoever counts as not executed, or as past the last result, has no cursor. *)
CursorClosed(s, o) ==
  ~WarningsAsErrors /\ ~Buffered(s) =>
    /\ s.past_next_result_end => ~o.open
    /\ s.alive /\ ~s.executed => ~(o.open /\ o.cols)

Consistent(s, r, o, st) ==
  /\ s \in Stmts /\ ResultSetOK(r) /\ HandleOK(o) /\ st \in Streams
  /\ KindOK(s, r) /\ Dead(s, o) /\ StreamOnRow(s, r, o, st) /\ RowThere(s, r, o) /\ CursorClosed(s, o)

Reported(errs) == errs \cap {"own", "custom"} # {}

Tags == {"own", "stale", "custom"}

AnswerOK ==
  /\ out.ret \in {"true", "false", "null"} /\ out.errs \subseteq Tags
  /\ out.ret = "false" /\ out.call # "has_rows" /\ ~Buffered(stmt) => Reported(out.errs)

ControlOK ==
  /\ pc \in {"idle", "flush", "bind", "dead"}
  /\ pc \in {"flush", "bind"} => stmt.alive
  /\ pc = "flush" => stmt.executed
  /\ pc = "dead" => Buffered(stmt)
  /\ pc = "bind" /\ ~WarningsAsErrors /\ ~Buffered(stmt) => ~(odbc.open /\ odbc.cols)

StmtInv == Consistent(stmt, res, odbc, stream) /\ AnswerOK /\ ControlOK

(* r and q hold the same rows. *)
SameRows(r, q) ==
  ResultSetOK(q) /\ q.kind = r.kind /\ q.id = r.id /\ q.rows = r.rows /\ q.cur = r.cur

(* What comes back from a call that took place in a state of the invariant. *)
Sound(f) ==
  /\ Consistent(f.stmt, f.res, f.odbc, f.stream)
  /\ f.stmt.alive /\ f.stmt.cursor_type = stmt.cursor_type
  /\ f.ret \in {"row", "no_data", "error", "dead"} /\ f.errs \subseteq Tags
  /\ f.ret = "dead" => Buffered(stmt)
  /\ f.ret = "error" /\ ~Buffered(stmt) => Reported(f.errs)

----
(* Lemmas about the invariant. *)

LEMMA NoStreamOK == NoStream \in Streams /\ ~NoStream.open
BY DEF NoStream, NoRow, Streams

(* A handle that stays where it is, and rows that are the same, keep it. *)
LEMMA Carried ==
  ASSUME NEW s, NEW r, NEW o, NEW st, Consistent(s, r, o, st),
         NEW q, SameRows(r, q), NEW p, HandleOK(p), Stays(o, p)
  PROVE  Consistent(s, q, p, st) /\ Consistent(s, q, p, NoStream)
<1>1. KindOK(s, q) /\ Dead(s, p)
  BY DEF Consistent, KindOK, Dead, SameRows, Stays
<1>2. StreamOnRow(s, q, p, st) /\ StreamOnRow(s, q, p, NoStream)
  BY NoStreamOK DEF Consistent, StreamOnRow, SameRows, Stays
<1>3. RowThere(s, q, p)
  BY DEF Consistent, RowThere, SameRows, Stays
<1>4. CursorClosed(s, p)
  BY DEF Consistent, CursorClosed, Stays
<1> QED
  BY <1>1, <1>2, <1>3, <1>4, NoStreamOK DEF Consistent, SameRows

LEMMA SameStays == ASSUME NEW o, NEW p, Same(o, p) PROVE Stays(o, p)
BY DEF Same, Stays

LEMMA ResetShape ==
  ASSUME NEW s \in Stmts
  PROVE  /\ ResetFlags(s) \in Stmts
         /\ ~ResetFlags(s).fetch_called /\ ~ResetFlags(s).has_rows
         /\ ~ResetFlags(s).past_next_result_end /\ ~ResetFlags(s).past_fetch_end
         /\ ResetFlags(s).alive = s.alive /\ ResetFlags(s).cursor_type = s.cursor_type
         /\ ResetFlags(s).executed = s.executed
<1>1. -1 \in -1 .. Fields - 1
  BY FieldsAssumption
<1>2. ResetFlags(s) \in Stmts
  BY <1>1 DEF ResetFlags, Stmts
<1>3. /\ ResetFlags(s).fetch_called = FALSE /\ ResetFlags(s).has_rows = FALSE
      /\ ResetFlags(s).past_next_result_end = FALSE /\ ResetFlags(s).past_fetch_end = FALSE
  BY DEF ResetFlags, Stmts
<1>4. /\ ResetFlags(s).alive = s.alive /\ ResetFlags(s).cursor_type = s.cursor_type
      /\ ResetFlags(s).executed = s.executed
  BY DEF ResetFlags, Stmts
<1> QED
  BY <1>2, <1>3, <1>4

(* The same after a failure, which may have come with a warning: then the    *)
(* cursor may be on another row, and no stream is left open.                 *)
LEMMA CarriedFailing ==
  ASSUME NEW s, NEW r, NEW o, NEW st, Consistent(s, r, o, st), s.alive,
         NEW q, SameRows(r, q), NEW p, HandleOK(p), ~WarningsAsErrors => Stays(o, p)
  PROVE  Consistent(s, q, p, NoStream)
<1>1. KindOK(s, q) /\ Dead(s, p)
  BY DEF Consistent, KindOK, Dead, SameRows
<1>2. StreamOnRow(s, q, p, NoStream)
  BY NoStreamOK DEF StreamOnRow
<1>3. RowThere(s, q, p)
  BY DEF Consistent, RowThere, SameRows, Stays
<1>4. CursorClosed(s, p)
  BY DEF Consistent, CursorClosed, Stays
<1> QED
  BY <1>1, <1>2, <1>3, <1>4, NoStreamOK DEF Consistent, SameRows

(* A new result set: nothing of the old one counts any more. *)
Fresh(s) ==
  /\ s \in Stmts /\ s.alive /\ (s.executed \/ Buffered(s))
  /\ ~s.fetch_called /\ ~s.has_rows /\ ~s.past_next_result_end /\ ~s.past_fetch_end

LEMMA FreshConsistent ==
  ASSUME NEW s, Fresh(s), NEW r, ResultSetOK(r), KindOK(s, r), NEW o, HandleOK(o)
  PROVE  Consistent(s, r, o, NoStream)
<1>1. StreamOnRow(s, r, o, NoStream) /\ Dead(s, o)
  BY NoStreamOK DEF StreamOnRow, Dead, Fresh
<1>2. RowThere(s, r, o) /\ CursorClosed(s, o)
  BY DEF RowThere, RowExpected, CursorClosed, Buffered, Fresh
<1> QED
  BY <1>1, <1>2, NoStreamOK DEF Consistent, Fresh

LEMMA DiagnosticsShape ==
  ASSUME NEW r, ResultSetOK(r), NEW o, HandleOK(o)
  PROVE  /\ Diagnostics(r, o) \subseteq Tags /\ CustomError(r, o) \subseteq Tags
         /\ Reported(CustomError(r, o))
         /\ Own(o) /\ r.kind # "buffered" => Reported(Diagnostics(r, o))
<1>1. r.err \in {"none", "own", "stale"} /\ o.diag \in {"none", "own", "stale"}
  BY DEF ResultSetOK, ResultSets, HandleOK, Handles
<1>2. Diagnostics(r, o) \subseteq Tags
  BY <1>1 DEF Diagnostics, Tags
<1>3. CustomError(r, o) \subseteq Tags /\ "custom" \in CustomError(r, o)
  BY <1>2 DEF CustomError, Tags
<1>4. Own(o) /\ r.kind # "buffered" => "own" \in Diagnostics(r, o)
  BY <1>1 DEF Diagnostics, Own
<1> QED
  BY <1>2, <1>3, <1>4 DEF Reported

(* The call begins: the records of earlier calls count as stale. *)
LEMMA CallBegins ==
  ASSUME StmtInv
  PROVE  /\ HandleOK(odbc0) /\ Same(odbc, odbc0) /\ SameRows(res, res0)
         /\ odbc0.faults = odbc.faults /\ odbc0.lost = odbc.lost
<1>1. HandleOK(odbc) /\ ResultSetOK(res)
  BY DEF StmtInv, Consistent
<1>2. HandleOK(odbc0) /\ Same(odbc, odbc0) /\ odbc0.faults = odbc.faults /\ odbc0.lost = odbc.lost
  BY <1>1 DEF odbc0, Older, HandleOK, Handles, Same
<1>3. SameRows(res, res0)
  BY <1>1 DEF res0, Older, ResultSetOK, ResultSets, SameRows
<1> QED
  BY <1>2, <1>3

(* Whatever only looked, reports what it found. *)
LEMMA RefusalSound ==
  ASSUME StmtInv, stmt.alive
  PROVE  Sound(Refusal)
<1>1. /\ HandleOK(odbc0) /\ Stays(odbc, odbc0) /\ SameRows(res, res0)
  BY CallBegins, SameStays
<1>2. Consistent(stmt, res0, odbc0, stream)
  BY <1>1, Carried DEF StmtInv
<1>3. CustomError(res0, odbc0) \subseteq Tags /\ Reported(CustomError(res0, odbc0))
  BY <1>1, DiagnosticsShape DEF SameRows
<1> QED
  BY <1>2, <1>3 DEF Refusal, Outcome, Sound

----
(* core_hdb_execute. *)

LEMMA PositionShape ==
  ASSUME NEW o, HandleOK(o), NEW x \in 0 .. o.rows + 1
  PROVE  HandleOK([o EXCEPT !.pos = x])
<1>1. x \in 0 .. MaxLen /\ x <= o.rows + 1 /\ o \in Handles
  BY BoundsAssumption DEF HandleOK, Handles
<1>2. [o EXCEPT !.pos = x] \in Handles
  BY <1>1 DEF Handles
<1>3. [o EXCEPT !.pos = x].pos = x /\ [o EXCEPT !.pos = x].rows = o.rows
  BY <1>1 DEF Handles
<1> QED
  BY <1>1, <1>2, <1>3 DEF HandleOK

LEMMA BufferedResultsShape ==
  ASSUME NEW o, HandleOK(o), NEW k \in -1 .. BufferLimit, k < MaxLen
  PROVE  ResultSetOK(BufferedResults(o, k)) /\ BufferedResults(o, k).kind = "buffered"
<1>1. NoResults \in ResultSets /\ NoResults.cur = 0
  BY BoundsAssumption DEF NoResults, ResultSets
<1>2. o.id \in Nat
  BY DEF HandleOK, Handles
<1>3. BufferedResults(o, k) = [NoResults EXCEPT !.kind = "buffered", !.id = o.id, !.rows = k]
  BY DEF BufferedResults
<1>4. BufferedResults(o, k) \in ResultSets
  BY <1>1, <1>2, <1>3 DEF ResultSets
<1>5. /\ BufferedResults(o, k).cur = 0 /\ BufferedResults(o, k).rows = k
      /\ BufferedResults(o, k).kind = "buffered"
  BY <1>1, <1>3 DEF ResultSets
<1>6. 0 <= k + 1
  OBVIOUS
<1> QED
  BY <1>4, <1>5, <1>6 DEF ResultSetOK

LEMMA ReadIntoBufferShape ==
  ASSUME NEW o, HandleOK(o), NEW n \in ReadIntoBuffer(o)
  PROVE  /\ HandleOK(n.odbc) /\ ResultSetOK(n.res) /\ n.err \in {"none", "odbc", "custom"}
         /\ n.res.kind = IF n.err = "none" THEN "buffered" ELSE "null"
<1>1. ResultSetOK(NoResults) /\ NoResults.kind = "null"
  BY BoundsAssumption DEF NoResults, ResultSetOK, ResultSets
<1>2. CASE ~o.open
  <2>1. n.odbc \in Refused(o) /\ n.res = NoResults /\ n.err = "odbc"
    BY <1>2 DEF ReadIntoBuffer
  <2> QED
    BY <1>1, <2>1, RefusedShape
<1>3. CASE o.open /\ o.rows > BufferLimit
  <2>1. PICK p \in Accepted(o) : n.odbc = [p EXCEPT !.pos = BufferLimit + 1]
    BY <1>3 DEF ReadIntoBuffer
  <2>2. HandleOK(p) /\ p.rows = o.rows
    BY AcceptedShape DEF Same
  <2>3. HandleOK(n.odbc)
    <3>1. BufferLimit + 1 \in 0 .. p.rows + 1
      BY <1>3, <2>2, BoundsAssumption DEF HandleOK, Handles
    <3> QED
      BY <2>1, <2>2, <3>1, PositionShape
  <2>4. n.res = NoResults /\ n.err = "custom"
    BY <1>3 DEF ReadIntoBuffer
  <2> QED
    BY <1>1, <2>3, <2>4
<1>4. CASE o.open /\ ~(o.rows > BufferLimit)
  <2>1. CASE /\ n.odbc \in {[p EXCEPT !.pos = o.rows + 1] : p \in Accepted(o)}
             /\ n.res = BufferedResults(o, o.rows) /\ n.err = "none"
    <3>1. PICK p \in Accepted(o) : n.odbc = [p EXCEPT !.pos = o.rows + 1]
      BY <2>1
    <3>2. HandleOK(p) /\ p.rows = o.rows
      BY AcceptedShape DEF Same
    <3>3. HandleOK(n.odbc)
      <4>1. o.rows + 1 \in 0 .. p.rows + 1
        BY <3>2 DEF HandleOK, Handles
      <4> QED
        BY <3>1, <3>2, <4>1, PositionShape
    <3>4. ResultSetOK(n.res) /\ n.res.kind = "buffered"
      <4>1. o.rows \in -1 .. BufferLimit /\ o.rows < MaxLen
        BY <1>4, BoundsAssumption DEF HandleOK, Handles
      <4> QED
        BY <2>1, <4>1, BufferedResultsShape
    <3> QED
      BY <2>1, <3>3, <3>4
  <2>2. CASE n.odbc \in Failed(o, {}) /\ n.res = NoResults /\ n.err = "odbc"
    BY <1>1, <2>2, FailedShape
  <2> QED
    BY <1>4, <2>1, <2>2 DEF ReadIntoBuffer
<1> QED
  BY <1>2, <1>3, <1>4

(* A statement without a buffer has its result set at once; only filling a   *)
(* buffer can fail.                                                          *)
LEMMA NewResultSetShape ==
  ASSUME StmtInv, NEW o, HandleOK(o), NEW n \in NewResultSet(o)
  PROVE  /\ HandleOK(n.odbc) /\ ResultSetOK(n.res) /\ n.err \in {"none", "odbc", "custom"}
         /\ n.err # "none" => Buffered(stmt) /\ n.res.kind = "null"
         /\ n.err = "none" => n.res.kind = IF Buffered(stmt) THEN "buffered" ELSE "odbc"
<1>1. ResultSetOK(NoResults) /\ NoResults.kind = "null"
  BY BoundsAssumption DEF NoResults, ResultSetOK, ResultSets
<1>2. CASE ~Buffered(stmt)
  <2>1. n.odbc = o /\ n.res = OdbcResults /\ n.err = "none"
    BY <1>2 DEF NewResultSet, Buffered
  <2>2. ResultSetOK(OdbcResults) /\ OdbcResults.kind = "odbc"
    BY BoundsAssumption DEF OdbcResults, NoResults, ResultSetOK, ResultSets
  <2> QED
    BY <1>2, <2>1, <2>2
<1>3. CASE Buffered(stmt)
  <2>1. PICK c \in SQLNumResultCols(o) :
          n \in IF ~c.ok THEN [odbc : {c.odbc}, res : {NoResults}, err : {"odbc"}]
                ELSE IF c.ret THEN ReadIntoBuffer(c.odbc)
                ELSE [odbc : {c.odbc}, res : {BufferedResults(o, -1)}, err : {"none"}]
    BY <1>3 DEF NewResultSet, Buffered
  <2>2. HandleOK(c.odbc)
    BY NumResultColsShape DEF Asks
  <2>3. CASE ~c.ok
    BY <1>1, <1>3, <2>1, <2>2, <2>3
  <2>4. CASE c.ok /\ c.ret
    BY <1>3, <2>1, <2>2, <2>4, ReadIntoBufferShape
  <2>5. CASE c.ok /\ ~c.ret
    <3>1. n.odbc = c.odbc /\ n.res = BufferedResults(o, -1) /\ n.err = "none"
      BY <2>1, <2>5
    <3>2. ResultSetOK(BufferedResults(o, -1)) /\ BufferedResults(o, -1).kind = "buffered"
      <4>1. -1 \in -1 .. BufferLimit /\ -1 < MaxLen
        BY BoundsAssumption
      <4> QED
        BY <4>1, BufferedResultsShape
    <3> QED
      BY <1>3, <2>2, <3>1, <3>2
  <2> QED
    BY <2>3, <2>4, <2>5
<1> QED
  BY <1>2, <1>3

LEMMA AbandonSound ==
  ASSUME StmtInv, NEW s, NEW r, NEW o, Consistent(s, r, o, NoStream), s.alive,
         s.cursor_type = stmt.cursor_type, NEW errs, errs \subseteq Tags,
         ~Buffered(stmt) => Reported(errs), NEW f \in Abandon(s, r, o, errs)
  PROVE  Sound(f) /\ f.ret = "error"
<1>1. PICK p \in IF s.executed THEN SQLCancel(o) ELSE {o} :
        f = Outcome(s, r, p, NoStream, "error", errs)
  BY DEF Abandon
<1>2. HandleOK(o) /\ SameRows(r, r)
  BY DEF Consistent, SameRows
<1>3. HandleOK(p) /\ Stays(o, p)
  BY <1>1, <1>2, CancelShape DEF Stays
<1>4. Consistent(s, r, p, NoStream)
  BY <1>2, <1>3, Carried
<1> QED
  BY <1>1, <1>4 DEF Outcome, Sound

LEMMA CoreExecuteSound ==
  ASSUME StmtInv, NEW s, NEW o, Consistent(s, res0, o, NoStream), s.alive,
         s.cursor_type = stmt.cursor_type, NEW f \in CoreExecute(s, o)
  PROVE  Sound(f)
<1> DEFINE ran == [ResetFlags(s) EXCEPT !.executed = TRUE]
<1>1. HandleOK(o) /\ SameRows(res0, res0) /\ s \in Stmts /\ ResultSetOK(res0)
  BY DEF Consistent, SameRows
<1>2. Fresh(ran) /\ ran.cursor_type = s.cursor_type /\ ran.executed
  <2>1. ResetFlags(s) \in Stmts
    BY <1>1, ResetShape
  <2>2. ran \in Stmts /\ ran.executed = TRUE /\ ran.cursor_type = ResetFlags(s).cursor_type
        /\ ran.alive = ResetFlags(s).alive
    BY <2>1 DEF Stmts
  <2>3. /\ ran.fetch_called = ResetFlags(s).fetch_called /\ ran.has_rows = ResetFlags(s).has_rows
        /\ ran.past_next_result_end = ResetFlags(s).past_next_result_end
        /\ ran.past_fetch_end = ResetFlags(s).past_fetch_end
    BY <2>1 DEF Stmts
  <2> HIDE DEF ran
  <2> QED
    BY <1>1, <2>2, <2>3, ResetShape DEF Fresh
<1> HIDE DEF ran
<1>3. PICK e \in SQLExecute(o, s.params # "lost") :
        IF e.ok
        THEN f \in UNION { IF n.err # "none"
                           THEN Abandon(ResetFlags(s), n.res, n.odbc, ErrorsOf(n))
                           ELSE {Outcome(ran, n.res, p, NoStream, "row", {}) : p \in HasAnyResult(n.odbc)}
                                  \cup UNION {Abandon(ran, n.res, p, Diagnostics(n.res, p)) :
                                                p \in Failed(n.odbc, {})} :
                           n \in NewResultSet(e.odbc) }
        ELSE f \in Abandon(s, res0, e.odbc, Diagnostics(res0, e.odbc))
  BY DEF CoreExecute, ran
<1>4. /\ HandleOK(e.odbc)
      /\ ~e.ok => Own(e.odbc) /\ (~WarningsAsErrors => Stays(o, e.odbc))
  BY <1>1, ExecuteShape
<1>5. CASE ~e.ok
  <2>1. Consistent(s, res0, e.odbc, NoStream)
    BY <1>1, <1>4, <1>5, CarriedFailing
  <2>2. ~Buffered(stmt) => res0.kind # "buffered"
    BY DEF Consistent, KindOK, Buffered
  <2>3. /\ Diagnostics(res0, e.odbc) \subseteq Tags
        /\ ~Buffered(stmt) => Reported(Diagnostics(res0, e.odbc))
    BY <1>1, <1>4, <1>5, <2>2, DiagnosticsShape
  <2>4. f \in Abandon(s, res0, e.odbc, Diagnostics(res0, e.odbc))
    BY <1>3, <1>5
  <2> QED
    BY <2>1, <2>3, <2>4, AbandonSound
<1>6. CASE e.ok
  <2>1. PICK n \in NewResultSet(e.odbc) :
          f \in IF n.err # "none"
                THEN Abandon(ResetFlags(s), n.res, n.odbc, ErrorsOf(n))
                ELSE {Outcome(ran, n.res, p, NoStream, "row", {}) : p \in HasAnyResult(n.odbc)}
                       \cup UNION {Abandon(ran, n.res, p, Diagnostics(n.res, p)) :
                                     p \in Failed(n.odbc, {})}
    BY <1>3, <1>6
  <2>2. /\ HandleOK(n.odbc) /\ ResultSetOK(n.res) /\ n.err \in {"none", "odbc", "custom"}
        /\ n.err # "none" => Buffered(stmt) /\ n.res.kind = "null"
        /\ n.err = "none" => n.res.kind = IF Buffered(stmt) THEN "buffered" ELSE "odbc"
    BY <1>4, NewResultSetShape
  <2>3. CASE n.err # "none"
    <3>1. Fresh(ResetFlags(s)) /\ KindOK(ResetFlags(s), n.res)
      BY <1>1, <2>2, <2>3, ResetShape DEF Fresh, KindOK, Buffered
    <3>2. Consistent(ResetFlags(s), n.res, n.odbc, NoStream)
      BY <2>2, <3>1, FreshConsistent
    <3>3. ErrorsOf(n) \subseteq Tags
      BY <2>2, DiagnosticsShape DEF ErrorsOf
    <3>4. ResetFlags(s).alive /\ ResetFlags(s).cursor_type = stmt.cursor_type
      BY <1>1, ResetShape
    <3>5. f \in Abandon(ResetFlags(s), n.res, n.odbc, ErrorsOf(n))
      BY <2>1, <2>3
    <3> QED
      BY <2>2, <2>3, <3>2, <3>3, <3>4, <3>5, AbandonSound
  <2>4. CASE n.err = "none"
    <3>1. KindOK(ran, n.res)
      BY <1>2, <2>2, <2>4 DEF KindOK, Fresh, Buffered
    <3>2. \A p : HandleOK(p) => Consistent(ran, n.res, p, NoStream)
      BY <1>2, <2>2, <3>1, FreshConsistent
    <3>3. ran.alive /\ ran.cursor_type = stmt.cursor_type
      BY <1>2 DEF Fresh
    <3>4. ASSUME NEW p \in HasAnyResult(n.odbc), f = Outcome(ran, n.res, p, NoStream, "row", {})
          PROVE  Sound(f)
      <4>1. HandleOK(p)
        BY <2>2, <3>4, AcceptedShape, FailedShape DEF HasAnyResult
      <4> QED
        BY <3>2, <3>3, <3>4, <4>1 DEF Outcome, Sound, Tags
    <3>5. ASSUME NEW p \in Failed(n.odbc, {}), f \in Abandon(ran, n.res, p, Diagnostics(n.res, p))
          PROVE  Sound(f)
      <4>1. HandleOK(p) /\ Own(p)
        BY <2>2, <3>5, FailedShape
      <4>2. /\ Diagnostics(n.res, p) \subseteq Tags
            /\ ~Buffered(stmt) => Reported(Diagnostics(n.res, p))
        BY <2>2, <2>4, <4>1, DiagnosticsShape
      <4>3. Consistent(ran, n.res, p, NoStream)
        BY <3>2, <4>1
      <4> QED
        BY <3>3, <3>5, <4>2, <4>3, AbandonSound
    <3> QED
      BY <2>1, <2>4, <3>4, <3>5
  <2> QED
    BY <2>3, <2>4
<1> QED
  BY <1>5, <1>6

----
(* core_hdb_next_result, in hdb_execute and for the script. *)

(* Moving to another result, when new_result_set is through or has thrown. *)
LEMMA NextResultsFresh ==
  ASSUME StmtInv, stmt.alive, stmt.executed, NEW o, HandleOK(o), NEW n \in NewResultSet(o)
  PROVE  /\ HandleOK(n.odbc) /\ ResultSetOK(n.res)
         /\ n.err # "none" => Buffered(stmt)
         /\ \A p : HandleOK(p) => Consistent(ResetFlags(stmt), n.res, p, NoStream)
         /\ ErrorsOf(n) \subseteq Tags
         /\ ResetFlags(stmt).alive /\ ResetFlags(stmt).executed
         /\ ResetFlags(stmt).cursor_type = stmt.cursor_type
<1>1. stmt \in Stmts
  BY DEF StmtInv, Consistent
<1>2. /\ HandleOK(n.odbc) /\ ResultSetOK(n.res) /\ n.err \in {"none", "odbc", "custom"}
      /\ n.err # "none" => Buffered(stmt) /\ n.res.kind = "null"
      /\ n.err = "none" => n.res.kind = IF Buffered(stmt) THEN "buffered" ELSE "odbc"
  BY NewResultSetShape
<1>3. Fresh(ResetFlags(stmt)) /\ KindOK(ResetFlags(stmt), n.res)
  BY <1>1, <1>2, ResetShape DEF Fresh, KindOK, Buffered
<1>4. ErrorsOf(n) \subseteq Tags
  BY <1>2, DiagnosticsShape DEF ErrorsOf
<1> QED
  BY <1>1, <1>2, <1>3, <1>4, FreshConsistent, ResetShape

(* The end of the results. *)
PastEnd == [stmt EXCEPT !.past_next_result_end = TRUE]

LEMMA EndConsistent ==
  ASSUME StmtInv, stmt.alive, NEW q, SameRows(res, q), NEW o, HandleOK(o), Stays(odbc, o), ~o.open
  PROVE  /\ Consistent(PastEnd, q, o, NoStream)
         /\ PastEnd.alive /\ PastEnd.cursor_type = stmt.cursor_type
         /\ PastEnd.executed = stmt.executed
<1> DEFINE s == PastEnd
<1>1. Consistent(stmt, q, o, NoStream)
  BY Carried DEF StmtInv
<1>2. /\ s \in Stmts /\ s.alive = stmt.alive /\ s.cursor_type = stmt.cursor_type
      /\ s.executed = stmt.executed /\ s.fetch_called = stmt.fetch_called
      /\ s.has_rows = stmt.has_rows /\ s.past_fetch_end = stmt.past_fetch_end
  BY <1>1 DEF Consistent, Stmts, PastEnd
<1> HIDE DEF s
<1>3. Consistent(s, q, o, NoStream)
  BY <1>1, <1>2 DEF Consistent, KindOK, Dead, StreamOnRow, RowThere, RowExpected, CursorClosed, Buffered
<1> QED
  BY <1>2, <1>3 DEF s

LEMMA NextResultUncheckedSound ==
  ASSUME StmtInv, stmt.alive, stmt.executed, NEW f \in NextResultUnchecked
  PROVE  Sound(f) /\ f.stmt.executed /\ (f.ret = "error" => Buffered(stmt))
<1>1. HandleOK(odbc) /\ SameRows(res, res)
  BY DEF StmtInv, Consistent, SameRows
<1>2. PICK m \in SQLMoreResults(odbc) :
        f \in IF m.ret = "end"
              THEN {Outcome([stmt EXCEPT !.past_next_result_end = TRUE], res, m.odbc, NoStream, "row", {})}
              ELSE UNION { IF n.err = "none"
                           THEN {Outcome(ResetFlags(stmt), n.res, n.odbc, NoStream, "row", {})}
                           ELSE {Outcome(ResetFlags(stmt), n.res, o, NoStream, "error", ErrorsOf(n)) :
                                   o \in SQLCancel(n.odbc)} :
                           n \in NewResultSet(m.odbc) }
  BY DEF NextResultUnchecked
<1>3. HandleOK(m.odbc) /\ (m.ret = "end" => ~m.odbc.open /\ Stays(odbc, m.odbc))
  BY <1>1, MoreResultsShape
<1>4. CASE m.ret = "end"
  <2>1. f = Outcome(PastEnd, res, m.odbc, NoStream, "row", {})
    BY <1>2, <1>4 DEF PastEnd
  <2>2. Consistent(PastEnd, res, m.odbc, NoStream) /\ PastEnd.alive
        /\ PastEnd.cursor_type = stmt.cursor_type /\ PastEnd.executed = stmt.executed
    BY <1>1, <1>3, <1>4, EndConsistent
  <2> QED
    BY <2>1, <2>2 DEF Outcome, Sound, Tags
<1>5. CASE m.ret # "end"
  <2>1. PICK n \in NewResultSet(m.odbc) :
          f \in IF n.err = "none"
                THEN {Outcome(ResetFlags(stmt), n.res, n.odbc, NoStream, "row", {})}
                ELSE {Outcome(ResetFlags(stmt), n.res, o, NoStream, "error", ErrorsOf(n)) :
                        o \in SQLCancel(n.odbc)}
    BY <1>2, <1>5
  <2>2. /\ HandleOK(n.odbc) /\ ResultSetOK(n.res)
        /\ n.err # "none" => Buffered(stmt)
        /\ \A p : HandleOK(p) => Consistent(ResetFlags(stmt), n.res, p, NoStream)
        /\ ErrorsOf(n) \subseteq Tags
        /\ ResetFlags(stmt).alive /\ ResetFlags(stmt).executed
        /\ ResetFlags(stmt).cursor_type = stmt.cursor_type
    BY <1>3, NextResultsFresh
  <2>3. CASE n.err = "none"
    BY <2>1, <2>2, <2>3 DEF Outcome, Sound, Tags
  <2>4. CASE n.err # "none"
    <3>1. PICK o \in SQLCancel(n.odbc) :
            f = Outcome(ResetFlags(stmt), n.res, o, NoStream, "error", ErrorsOf(n))
      BY <2>1, <2>4
    <3>2. HandleOK(o)
      BY <2>2, CancelShape
    <3> QED
      BY <2>2, <2>4, <3>1, <3>2 DEF Outcome, Sound
  <2> QED
    BY <2>3, <2>4
<1> QED
  BY <1>4, <1>5

LEMMA CancelAfterSound ==
  ASSUME StmtInv, NEW s, NEW r, NEW o, NEW st, Consistent(s, r, o, st), s.alive,
         s.cursor_type = stmt.cursor_type, NEW errs, errs \subseteq Tags,
         ~Buffered(stmt) => Reported(errs), NEW f \in CancelAfter(s, r, o, st, errs)
  PROVE  Sound(f)
<1>1. PICK p \in SQLCancel(o) : f = Outcome(s, r, p, st, "error", errs)
  BY DEF CancelAfter
<1>2. HandleOK(o) /\ SameRows(r, r)
  BY DEF Consistent, SameRows
<1>3. HandleOK(p) /\ Stays(o, p)
  BY <1>2, CancelShape
<1>4. Consistent(s, r, p, st)
  BY <1>2, <1>3, Carried
<1> QED
  BY <1>1, <1>4 DEF Outcome, Sound

LEMMA CoreNextResultSound ==
  ASSUME StmtInv, stmt.alive, NEW f \in CoreNextResult
  PROVE  Sound(f) /\ f.ret \in {"row", "no_data", "error"}
<1>0. HandleOK(odbc0) /\ Stays(odbc, odbc0) /\ SameRows(res, res0) /\ ResultSetOK(res0)
  BY CallBegins, SameStays DEF SameRows
<1>1. CASE ~stmt.executed \/ stmt.past_next_result_end
  <2>1. f \in CancelAfter(stmt, res0, odbc0, stream, Refusal.errs)
    BY <1>1 DEF CoreNextResult
  <2>2. /\ Consistent(stmt, res0, odbc0, stream) /\ Refusal.errs \subseteq Tags
        /\ Reported(Refusal.errs)
    BY <1>0, Carried, DiagnosticsShape DEF StmtInv, Refusal, Outcome
  <2>3. Sound(f)
    BY <2>1, <2>2, CancelAfterSound
  <2> QED
    BY <2>1, <2>3 DEF CancelAfter, Outcome
<1>2. CASE stmt.executed /\ ~stmt.past_next_result_end
  <2> DEFINE moved(m) ==
        UNION { IF n.err = "none"
                THEN {Outcome(ResetFlags(stmt), n.res, n.odbc, NoStream, "row", {})}
                ELSE CancelAfter(ResetFlags(stmt), n.res, n.odbc, NoStream, ErrorsOf(n)) :
                n \in NewResultSet(m.odbc) }
  <2>1. PICK m \in SQLMoreResults(odbc0) :
          f \in CASE m.ret = "end" ->
                       {Outcome([stmt EXCEPT !.past_next_result_end = TRUE], res0, m.odbc, NoStream,
                                "no_data", {})}
                  [] m.ret = "error" ->
                       CancelAfter(stmt, res0, m.odbc, NoStream, Diagnostics(res0, m.odbc))
                  [] m.ret = "more" -> moved(m)
    BY <1>2 DEF CoreNextResult
  <2>2. /\ HandleOK(m.odbc) /\ m.ret \in {"end", "error", "more"}
        /\ m.ret = "end" => ~m.odbc.open /\ Stays(odbc0, m.odbc)
        /\ m.ret = "error" => Own(m.odbc) /\ (~WarningsAsErrors => Stays(odbc0, m.odbc))
    BY <1>0, MoreResultsShape
  <2> HIDE DEF moved
  <2>3. CASE m.ret = "end"
    <3>1. Stays(odbc, m.odbc)
      BY <1>0, <2>2, <2>3 DEF Stays
    <3> QED
      <4>1. f = Outcome(PastEnd, res0, m.odbc, NoStream, "no_data", {})
        BY <2>1, <2>3 DEF PastEnd
      <4>2. Consistent(PastEnd, res0, m.odbc, NoStream) /\ PastEnd.alive
            /\ PastEnd.cursor_type = stmt.cursor_type
        BY <1>0, <2>2, <2>3, <3>1, EndConsistent
      <4> QED
        BY <4>1, <4>2 DEF Outcome, Sound, Tags
  <2>4. CASE m.ret = "error"
    <3>1. f \in CancelAfter(stmt, res0, m.odbc, NoStream, Diagnostics(res0, m.odbc))
      BY <2>1, <2>4
    <3>2. ~WarningsAsErrors => Stays(odbc, m.odbc)
      BY <1>0, <2>2, <2>4 DEF Stays
    <3>3. Consistent(stmt, res0, m.odbc, NoStream)
      BY <1>0, <2>2, <3>2, CarriedFailing DEF StmtInv
    <3>4. ~Buffered(stmt) => res0.kind # "buffered"
      BY <3>3 DEF Consistent, KindOK
    <3>5. /\ Diagnostics(res0, m.odbc) \subseteq Tags
          /\ ~Buffered(stmt) => Reported(Diagnostics(res0, m.odbc))
      BY <1>0, <2>2, <2>4, <3>4, DiagnosticsShape
    <3>6. Sound(f)
      BY <3>1, <3>3, <3>5, CancelAfterSound
    <3> QED
      BY <3>1, <3>6 DEF CancelAfter, Outcome
  <2>5. CASE m.ret = "more"
    <3>1. PICK n \in NewResultSet(m.odbc) :
            f \in IF n.err = "none"
                  THEN {Outcome(ResetFlags(stmt), n.res, n.odbc, NoStream, "row", {})}
                  ELSE CancelAfter(ResetFlags(stmt), n.res, n.odbc, NoStream, ErrorsOf(n))
      BY <2>1, <2>5 DEF moved
    <3>2. /\ HandleOK(n.odbc) /\ ResultSetOK(n.res)
          /\ n.err # "none" => Buffered(stmt)
          /\ \A p : HandleOK(p) => Consistent(ResetFlags(stmt), n.res, p, NoStream)
          /\ ErrorsOf(n) \subseteq Tags
          /\ ResetFlags(stmt).alive /\ ResetFlags(stmt).executed
          /\ ResetFlags(stmt).cursor_type = stmt.cursor_type
      BY <1>2, <2>2, NextResultsFresh
    <3>3. CASE n.err = "none"
      BY <3>1, <3>2, <3>3 DEF Outcome, Sound, Tags
    <3>4. CASE n.err # "none"
      <4>1. f \in CancelAfter(ResetFlags(stmt), n.res, n.odbc, NoStream, ErrorsOf(n))
        BY <3>1, <3>4
      <4>2. Sound(f)
        BY <3>2, <3>4, <4>1, CancelAfterSound
      <4> QED
        BY <4>1, <4>2 DEF CancelAfter, Outcome
    <3> QED
      BY <3>3, <3>4
  <2> QED
    BY <2>2, <2>3, <2>4, <2>5
<1> QED
  BY <1>1, <1>2

----
(* core_hdb_fetch. *)

SQLLEN == -(MaxLen + 1) .. MaxLen

(* The position in a buffer stays in bounds and, but for a relative move by  *)
(* zero, a move that finds something finds a row.                            *)
LEMMA BufferedMove ==
  ASSUME ResultSetOK(res), NEW style \in Styles, NEW offset \in SQLLEN
  PROVE  /\ BufferedPosition(style, offset) \in 0 .. res.rows + 1
         /\ BufferedFound(style, offset) /\ ~(style = "relative" /\ offset = 0) =>
              BufferedPosition(style, offset) \in 1 .. res.rows
<1> DEFINE moved == Buffer!Moved(style, offset)
           effective == Buffer!EffectiveOffset(style, offset)
<1>1. /\ res.rows \in -1 .. MaxLen - 1 /\ res.cur \in 0 .. res.rows + 1
      /\ MaxLen \in Nat \ {0} /\ offset \in Int /\ res.rows \in Int /\ res.cur \in Int
  BY BoundsAssumption DEF ResultSetOK, ResultSets, SQLLEN
<1>2. effective \in Int
  BY <1>1 DEF Buffer!EffectiveOffset, Buffer!ResultSetOffset, Buffer!Wrap, Styles
<1>3. \A x \in Int : Buffer!Wrap(x) \in Int
  BY <1>1 DEF Buffer!Wrap
<1>4. moved \in Int
  <2>1. res.cur + effective \in Int
    BY <1>1, <1>2
  <2> HIDE DEF effective
  <2>2. moved \in {1, res.rows, effective, Buffer!Wrap(res.cur + effective)}
    BY DEF Buffer!Moved, effective, Styles
  <2> QED
    BY <1>1, <1>2, <1>3, <2>1, <2>2
<1>5. Buffer!Relative(style) /\ effective = 0 => style = "relative" /\ offset = 0
  BY DEF Buffer!Relative, Buffer!EffectiveOffset, Buffer!ResultSetOffset
<1>6. style = "relative" /\ offset = 0 => moved = res.cur
  BY <1>1 DEF Buffer!Moved, Buffer!EffectiveOffset, Buffer!ResultSetOffset, Buffer!Wrap
<1> HIDE DEF moved, effective
<1>7. Buffer!BeforeFirst(style, offset) <=>
        moved <= 0 /\ (effective < 0 \/ ~Buffer!Relative(style))
  BY DEF Buffer!BeforeFirst, moved, effective
<1>8. Buffer!AfterLast(style, offset) <=> moved > res.rows \/ (moved <= 0 /\ effective > 0)
  BY DEF Buffer!AfterLast, moved, effective
<1>9. BufferedPosition(style, offset) =
        IF Buffer!BeforeFirst(style, offset) THEN 0
        ELSE IF Buffer!AfterLast(style, offset) THEN res.rows + 1 ELSE moved
  BY DEF BufferedPosition, moved
<1>10. BufferedFound(style, offset) <=>
         ~Buffer!BeforeFirst(style, offset) /\ ~Buffer!AfterLast(style, offset)
  BY DEF BufferedFound
<1>11. CASE BufferedFound(style, offset)
  <2>1. moved <= res.rows /\ (moved > 0 \/ (effective = 0 /\ Buffer!Relative(style)))
    BY <1>1, <1>2, <1>4, <1>7, <1>8, <1>10, <1>11
  <2>2. BufferedPosition(style, offset) = moved
    BY <1>9, <1>10, <1>11
  <2> QED
    BY <1>1, <1>4, <1>5, <1>6, <2>1, <2>2
<1>12. CASE ~BufferedFound(style, offset)
  <2>1. BufferedPosition(style, offset) \in {0, res.rows + 1}
    BY <1>9, <1>10, <1>12
  <2> QED
    BY <1>1, <1>12, <2>1
<1> QED
  BY <1>11, <1>12

(* What moving the cursor of a result set comes back with. *)
LEMMA ResultsFetchShape ==
  ASSUME StmtInv, res.kind # "null", NEW o, HandleOK(o), NEW style \in Styles,
         NEW offset \in SQLLEN, NEW f \in ResultsFetch(o, style, offset)
  PROVE  /\ HandleOK(f.odbc) /\ f.ret \in {"row", "no_data", "error"}
         /\ f.odbc.open = o.open /\ f.odbc.cols = o.cols
         /\ ResultSetOK(f.res) /\ f.res.kind = res.kind /\ f.res.id = res.id /\ f.res.rows = res.rows
         /\ res.kind = "buffered" =>
              /\ f.odbc = o /\ f.ret # "error"
              /\ f.ret = "row" /\ ~(style = "relative" /\ offset = 0) => f.res.cur \in 1 .. f.res.rows
         /\ res.kind = "odbc" =>
              /\ f.res = res
              /\ f.ret = "row" => f.odbc.pos \in 1 .. f.odbc.rows
              /\ f.ret = "error" => Own(f.odbc) /\ (~WarningsAsErrors => Same(o, f.odbc))
<1>1. ResultSetOK(res) /\ stmt \in Stmts
  BY DEF StmtInv, Consistent
<1>2. CASE res.kind = "buffered"
  <2> DEFINE cur == BufferedPosition(style, offset)
             moved == [res EXCEPT !.cur = cur, !.err = "none"]
  <2>1. /\ cur \in 0 .. res.rows + 1
        /\ BufferedFound(style, offset) /\ ~(style = "relative" /\ offset = 0) => cur \in 1 .. res.rows
    BY <1>1, BufferedMove
  <2>2. /\ f.odbc = o /\ f.res = moved
        /\ f.ret = IF BufferedFound(style, offset) THEN "row" ELSE "no_data"
    BY <1>2 DEF ResultsFetch
  <2> HIDE DEF cur
  <2>3. /\ cur \in Nat /\ cur <= res.rows + 1
    BY <1>1, <2>1 DEF ResultSetOK, ResultSets
  <2>4. moved \in ResultSets
    BY <1>1, <2>3 DEF ResultSetOK, ResultSets
  <2>5. moved.cur = cur /\ moved.kind = res.kind /\ moved.id = res.id /\ moved.rows = res.rows
    BY <1>1 DEF ResultSetOK, ResultSets
  <2> HIDE DEF moved
  <2> QED
    BY <1>1, <1>2, <2>1, <2>2, <2>3, <2>4, <2>5 DEF ResultSetOK
<1>3. CASE res.kind = "odbc"
  <2>1. PICK g \in SQLFetchScroll(o, stmt.cursor_type = "forward", style,
                                  Buffer!ResultSetOffset(style, offset)) :
          f = [odbc |-> g.odbc, res |-> res, ret |-> g.ret]
    BY <1>3 DEF ResultsFetch
  <2>2. Buffer!ResultSetOffset(style, offset) \in Int
    BY BoundsAssumption DEF Buffer!ResultSetOffset, Buffer!Wrap, SQLLEN
  <2>3. (stmt.cursor_type = "forward") \in BOOLEAN
    OBVIOUS
  <2>4. /\ HandleOK(g.odbc) /\ g.ret \in {"row", "no_data", "error"}
        /\ g.odbc.open = o.open /\ g.odbc.cols = o.cols
        /\ g.ret = "row" => g.odbc.pos \in 1 .. g.odbc.rows
        /\ g.ret = "error" => Own(g.odbc) /\ (~WarningsAsErrors => Same(o, g.odbc))
    BY <2>2, <2>3, FetchScrollShape
  <2> QED
    BY <1>1, <1>3, <2>1, <2>4
<1> QED
  BY <1>1, <1>2, <1>3 DEF ResultSetOK, ResultSets

LEMMA MoveCursorSound ==
  ASSUME StmtInv, stmt.alive, res.kind # "null", NEW o, HandleOK(o), Same(odbc, o),
         NEW style \in Styles, NEW offset \in SQLLEN,
         NoZeroMove => ~(style = "relative" /\ offset = 0),
         NEW f \in MoveCursor(o, style, offset)
  PROVE  Sound(f) /\ (f.ret = "row" => f.stmt.fetch_called)
<1>1. PICK g \in ResultsFetch(o, style, offset) :
        f = CASE g.ret = "row"     -> Outcome(AfterRow(stmt), g.res, g.odbc, NoStream, "row", {})
              [] g.ret = "no_data" -> Outcome(AfterNoData(stmt), g.res, g.odbc, NoStream, "no_data", {})
              [] g.ret = "error"   -> Outcome(stmt, g.res, g.odbc, NoStream, "error",
                                              Diagnostics(g.res, g.odbc))
  BY DEF MoveCursor
<1>2. /\ HandleOK(g.odbc) /\ g.ret \in {"row", "no_data", "error"}
      /\ g.odbc.open = odbc.open /\ g.odbc.cols = odbc.cols
      /\ ResultSetOK(g.res) /\ g.res.kind = res.kind /\ g.res.id = res.id /\ g.res.rows = res.rows
      /\ res.kind = "buffered" =>
           g.ret # "error" /\ (g.ret = "row" /\ NoZeroMove => g.res.cur \in 1 .. g.res.rows)
      /\ res.kind = "odbc" =>
           /\ g.res = res
           /\ g.ret = "row" => g.odbc.pos \in 1 .. g.odbc.rows
           /\ g.ret = "error" => Own(g.odbc) /\ (~WarningsAsErrors => Same(o, g.odbc))
  BY ResultsFetchShape DEF Same
<1>3. /\ stmt \in Stmts /\ ResultSetOK(res) /\ Consistent(stmt, res, odbc, stream)
      /\ res.kind \in {"null", IF Buffered(stmt) THEN "buffered" ELSE "odbc"}
      /\ -1 \in -1 .. Fields - 1
  BY FieldsAssumption DEF StmtInv, Consistent, KindOK
<1>4. CASE g.ret = "row"
  <2> DEFINE s == AfterRow(stmt)
  <2>1. s \in Stmts
    BY <1>3 DEF AfterRow, Stmts
  <2>2. /\ s.fetch_called = TRUE /\ s.alive = stmt.alive /\ s.cursor_type = stmt.cursor_type
        /\ s.executed = stmt.executed /\ s.past_next_result_end = stmt.past_next_result_end
    BY <1>3 DEF AfterRow, Stmts
  <2> HIDE DEF s
  <2>3. KindOK(s, g.res) /\ Dead(s, g.odbc) /\ StreamOnRow(s, g.res, g.odbc, NoStream)
    BY <1>2, <1>3, <2>2, NoStreamOK DEF Consistent, KindOK, Dead, StreamOnRow, Buffered
  <2>4. RowThere(s, g.res, g.odbc)
    BY <1>2, <1>4 DEF RowThere
  <2>5. CursorClosed(s, g.odbc)
    BY <1>2, <1>3, <2>2 DEF Consistent, CursorClosed, Buffered
  <2>6. Consistent(s, g.res, g.odbc, NoStream)
    BY <1>2, <2>1, <2>3, <2>4, <2>5, NoStreamOK DEF Consistent
  <2>7. f = Outcome(s, g.res, g.odbc, NoStream, "row", {})
    BY <1>1, <1>4 DEF s
  <2> QED
    BY <2>2, <2>6, <2>7 DEF Outcome, Sound, Tags
<1>5. CASE g.ret = "no_data"
  <2> DEFINE s == AfterNoData(stmt)
  <2>0. (stmt.past_fetch_end \/ stmt.cursor_type = "forward") \in BOOLEAN
    OBVIOUS
  <2>1. s \in Stmts
    BY <1>3, <2>0 DEF AfterNoData, Stmts
  <2>2. /\ s.fetch_called = FALSE /\ s.alive = stmt.alive /\ s.cursor_type = stmt.cursor_type
        /\ s.executed = stmt.executed /\ s.past_next_result_end = stmt.past_next_result_end
        /\ s.past_fetch_end = (stmt.past_fetch_end \/ stmt.cursor_type = "forward")
    BY <1>3 DEF AfterNoData, Stmts
  <2> HIDE DEF s
  <2>3. KindOK(s, g.res) /\ Dead(s, g.odbc) /\ StreamOnRow(s, g.res, g.odbc, NoStream)
    BY <1>2, <1>3, <2>2, NoStreamOK DEF Consistent, KindOK, Dead, StreamOnRow, Buffered
  <2>4. RowThere(s, g.res, g.odbc)
    BY <2>2 DEF RowThere, RowExpected
  <2>5. CursorClosed(s, g.odbc)
    BY <1>2, <1>3, <2>2 DEF Consistent, CursorClosed, Buffered
  <2>6. Consistent(s, g.res, g.odbc, NoStream)
    BY <1>2, <2>1, <2>3, <2>4, <2>5, NoStreamOK DEF Consistent
  <2>7. f = Outcome(s, g.res, g.odbc, NoStream, "no_data", {})
    BY <1>1, <1>5 DEF s
  <2> QED
    BY <2>2, <2>6, <2>7 DEF Outcome, Sound, Tags
<1>6. CASE g.ret = "error"
  <2>1. res.kind = "odbc" /\ g.res = res /\ SameRows(res, res)
    BY <1>2, <1>3, <1>6 DEF ResultSetOK, ResultSets, SameRows
  <2>2. Own(g.odbc) /\ (~WarningsAsErrors => Stays(odbc, g.odbc))
    BY <1>2, <1>6, <2>1 DEF Same, Stays
  <2>3. Consistent(stmt, res, g.odbc, NoStream)
    BY <1>2, <1>3, <2>1, <2>2, CarriedFailing
  <2>4. Diagnostics(res, g.odbc) \subseteq Tags /\ Reported(Diagnostics(res, g.odbc))
    BY <1>2, <1>3, <2>1, <2>2, DiagnosticsShape
  <2>5. f = Outcome(stmt, res, g.odbc, NoStream, "error", Diagnostics(res, g.odbc))
    BY <1>1, <1>6, <2>1
  <2> QED
    BY <2>3, <2>4, <2>5 DEF Outcome, Sound
<1> QED
  BY <1>2, <1>4, <1>5, <1>6

(* Where the script may fetch: what its arguments can be. *)
LEMMA MoveArguments ==
  ASSUME NEW m \in Moves
  PROVE  m[1] \in Styles /\ m[2] \in SQLLEN /\ (NoZeroMove => ~(m[1] = "relative" /\ m[2] = 0))
BY ArgumentsAssumption DEF Styles, SQLLEN, NoZeroMove

(* A question that was answered, or not. *)
LEMMA AskedSound ==
  ASSUME StmtInv, stmt.alive, NEW c, Asks(odbc0, c)
  PROVE  /\ Consistent(stmt, res0, c.odbc, stream) /\ Consistent(stmt, res0, c.odbc, NoStream)
         /\ HandleOK(c.odbc) /\ Same(odbc, c.odbc) /\ SameRows(res, res0) /\ ResultSetOK(res0)
         /\ CustomError(res0, c.odbc) \subseteq Tags /\ Reported(CustomError(res0, c.odbc))
         /\ Diagnostics(res0, c.odbc) \subseteq Tags
         /\ ~c.ok /\ ~Buffered(stmt) => Reported(Diagnostics(res0, c.odbc))
<1>1. HandleOK(c.odbc) /\ Same(odbc, c.odbc) /\ SameRows(res, res0) /\ ResultSetOK(res0)
  BY CallBegins DEF Asks, Same, SameRows
<1>2. Consistent(stmt, res0, c.odbc, stream) /\ Consistent(stmt, res0, c.odbc, NoStream)
  BY <1>1, SameStays, Carried DEF StmtInv
<1>3. ~Buffered(stmt) => res0.kind # "buffered"
  BY <1>2 DEF Consistent, KindOK
<1> QED
  BY <1>1, <1>2, <1>3, DiagnosticsShape DEF Asks

LEMMA CoreFetchSound ==
  ASSUME StmtInv, stmt.alive, NEW m \in Moves, NEW f \in CoreFetch(m[1], m[2])
  PROVE  Sound(f) /\ (f.ret = "row" => f.stmt.fetch_called)
<1>1. CASE ~stmt.executed \/ stmt.past_fetch_end
  <2>1. f = Refusal
    BY <1>1 DEF CoreFetch
  <2> QED
    BY <2>1, RefusalSound DEF Refusal, Outcome
<1>2. CASE stmt.executed /\ ~stmt.past_fetch_end
  <2>1. PICK c \in ColumnsBeforeFetch :
          f \in IF ~c.ok
                THEN {Outcome(stmt, res0, c.odbc, stream, "error", Diagnostics(res0, c.odbc))}
                ELSE IF ~c.ret
                THEN {Outcome(stmt, res0, c.odbc, stream, "error", CustomError(res0, c.odbc))}
                ELSE IF Prefetched
                THEN {Outcome([stmt EXCEPT !.fetch_called = TRUE], res0, c.odbc, NoStream, "row", {})}
                ELSE IF res.kind = "null"
                THEN {Outcome(stmt, res0, c.odbc, NoStream, "dead", {})}
                ELSE MoveCursor(c.odbc, m[1], m[2])
    BY <1>2 DEF CoreFetch
  <2>2. Asks(odbc0, c)
    <3>1. HandleOK(odbc0)
      BY CallBegins
    <3>2. CASE stmt.fetch_called
      BY <3>1, <3>2 DEF ColumnsBeforeFetch, Asks, Same
    <3>3. CASE ~stmt.fetch_called
      BY <3>1, <3>3, NumResultColsShape DEF ColumnsBeforeFetch
    <3> QED
      BY <3>2, <3>3
  <2>3. /\ Consistent(stmt, res0, c.odbc, stream) /\ Consistent(stmt, res0, c.odbc, NoStream)
        /\ HandleOK(c.odbc) /\ Same(odbc, c.odbc)
        /\ CustomError(res0, c.odbc) \subseteq Tags /\ Reported(CustomError(res0, c.odbc))
        /\ Diagnostics(res0, c.odbc) \subseteq Tags
        /\ ~c.ok /\ ~Buffered(stmt) => Reported(Diagnostics(res0, c.odbc))
    BY <2>2, AskedSound
  <2>4. CASE ~c.ok \/ ~c.ret
    BY <2>1, <2>3, <2>4 DEF Outcome, Sound
  <2>5. CASE c.ok /\ c.ret /\ Prefetched
    <3> DEFINE s == [stmt EXCEPT !.fetch_called = TRUE]
    <3>1. stmt \in Stmts /\ stmt.cursor_type = "forward" /\ stmt.has_rows
      BY <2>3, <2>5 DEF Consistent, Prefetched
    <3>2. /\ s \in Stmts /\ s.alive = stmt.alive /\ s.cursor_type = stmt.cursor_type
          /\ s.executed = stmt.executed /\ s.past_next_result_end = stmt.past_next_result_end
          /\ s.fetch_called
      BY <3>1 DEF Stmts
    <3> HIDE DEF s
    <3>3. res0.kind = "odbc"
      BY <1>2, <2>3, <3>1 DEF Consistent, KindOK, Buffered
    <3>4. RowThere(s, res0, c.odbc)
      BY <1>2, <2>3, <3>1, <3>3 DEF Consistent, RowThere, RowExpected
    <3>5. KindOK(s, res0) /\ Dead(s, c.odbc) /\ StreamOnRow(s, res0, c.odbc, NoStream)
          /\ CursorClosed(s, c.odbc)
      BY <2>3, <3>1, <3>2, <3>3, NoStreamOK
         DEF Consistent, KindOK, Dead, StreamOnRow, CursorClosed, Buffered
    <3>6. Consistent(s, res0, c.odbc, NoStream)
      BY <2>3, <3>2, <3>4, <3>5, NoStreamOK DEF Consistent
    <3>7. f = Outcome(s, res0, c.odbc, NoStream, "row", {})
      BY <2>1, <2>5 DEF s
    <3> QED
      BY <3>2, <3>6, <3>7 DEF Outcome, Sound, Tags
  <2>6. CASE c.ok /\ c.ret /\ ~Prefetched /\ res.kind = "null"
    <3>1. Buffered(stmt)
      BY <1>2, <2>6 DEF StmtInv, Consistent, KindOK
    <3>2. f = Outcome(stmt, res0, c.odbc, NoStream, "dead", {})
      BY <2>1, <2>6
    <3> QED
      BY <2>3, <3>1, <3>2 DEF Outcome, Sound, Tags
  <2>7. CASE c.ok /\ c.ret /\ ~Prefetched /\ res.kind # "null"
    <3>1. f \in MoveCursor(c.odbc, m[1], m[2])
      BY <2>1, <2>7
    <3> QED
      BY <2>3, <2>7, <3>1, MoveArguments, MoveCursorSound
  <2> QED
    BY <2>4, <2>5, <2>6, <2>7
<1> QED
  BY <1>1, <1>2

----
(* core_hdb_get_field, for one field and for a row. *)

LEMMA ReadFieldShape ==
  ASSUME NEW r, ResultSetOK(r), NEW o, HandleOK(o), NEW v \in ReadField(r, o)
  PROVE  /\ HandleOK(v.odbc) /\ Same(o, v.odbc) /\ SameRows(r, v.res)
         /\ v.ret \in {"value", "error", "dead"}
         /\ v.ret = "dead" => r.kind = "buffered"
         /\ v.ret = "error" /\ r.kind # "buffered" => Own(v.odbc)
<1>1. PICK a \in SQLColAttribute(o) :
        v \in IF a.ok THEN ValueOf(r, a.odbc) ELSE {[odbc |-> a.odbc, res |-> r, ret |-> "error"]}
  BY DEF ReadField
<1>2. HandleOK(a.odbc) /\ Same(o, a.odbc) /\ (~a.ok => Own(a.odbc)) /\ SameRows(r, r)
  BY ColAttributeShape DEF Asks, SameRows
<1>3. CASE ~a.ok
  BY <1>1, <1>2, <1>3
<1>4. CASE a.ok /\ r.kind = "buffered"
  <2>1. \A e \in {"none", "own"} : SameRows(r, [r EXCEPT !.err = e])
    BY DEF ResultSetOK, ResultSets, SameRows
  <2>2. v.odbc = a.odbc /\ v.ret \in {"value", "error", "dead"}
        /\ v.res \in {r, [r EXCEPT !.err = "none"], [r EXCEPT !.err = "own"]}
    BY <1>1, <1>4 DEF ValueOf
  <2> QED
    BY <1>2, <1>4, <2>1, <2>2
<1>5. CASE a.ok /\ r.kind # "buffered"
  <2>1. PICK d \in OnResult(a.odbc) :
          v = [odbc |-> d.odbc, res |-> r, ret |-> IF d.ok THEN "value" ELSE "error"]
    BY <1>1, <1>5 DEF ValueOf
  <2>2. HandleOK(d.odbc) /\ Same(a.odbc, d.odbc) /\ (~d.ok => Own(d.odbc))
    BY <1>2, OnResultShape DEF Asks
  <2> QED
    BY <1>2, <1>5, <2>1, <2>2 DEF Same
<1> QED
  BY <1>3, <1>4, <1>5

(* The index of the last field read concerns nobody else. *)
LEMMA IndexCarried ==
  ASSUME NEW s, NEW r, NEW o, NEW st, Consistent(s, r, o, st), NEW i \in -1 .. Fields - 1
  PROVE  LET t == [s EXCEPT !.last_field_index = i]
         IN  /\ Consistent(t, r, o, st)
             /\ t.alive = s.alive /\ t.cursor_type = s.cursor_type
             /\ t.fetch_called = s.fetch_called
<1> DEFINE t == [s EXCEPT !.last_field_index = i]
<1>1. s \in Stmts
  BY DEF Consistent
<1>2. /\ t \in Stmts /\ t.alive = s.alive /\ t.cursor_type = s.cursor_type
      /\ t.executed = s.executed /\ t.fetch_called = s.fetch_called /\ t.has_rows = s.has_rows
      /\ t.past_next_result_end = s.past_next_result_end /\ t.past_fetch_end = s.past_fetch_end
  BY <1>1 DEF Stmts
<1> HIDE DEF t
<1>3. Consistent(t, r, o, st)
  BY <1>2 DEF Consistent, KindOK, Dead, StreamOnRow, RowThere, RowExpected, CursorClosed, Buffered
<1> QED
  BY <1>2, <1>3 DEF t

(* Reading values closes the stream and reports the error of the value. *)
LEMMA ValueSound ==
  ASSUME StmtInv, NEW s, s.alive, s.cursor_type = stmt.cursor_type, NEW r, NEW o, NEW st,
         Consistent(s, r, o, st), NEW v \in ReadField(r, o)
  PROVE  /\ Consistent(s, v.res, v.odbc, NoStream)
         /\ v.ret \in {"value", "error", "dead"}
         /\ v.ret = "dead" => Buffered(stmt)
         /\ Diagnostics(v.res, v.odbc) \subseteq Tags
         /\ v.ret = "error" /\ ~Buffered(stmt) => Reported(Diagnostics(v.res, v.odbc))
         /\ CustomError(v.res, v.odbc) \subseteq Tags /\ Reported(CustomError(v.res, v.odbc))
<1>1. HandleOK(o) /\ ResultSetOK(r) /\ (~Buffered(stmt) => r.kind # "buffered")
  BY DEF Consistent, KindOK, Buffered
<1>2. /\ HandleOK(v.odbc) /\ Same(o, v.odbc) /\ SameRows(r, v.res)
      /\ v.ret \in {"value", "error", "dead"}
      /\ v.ret = "dead" => r.kind = "buffered"
      /\ v.ret = "error" /\ r.kind # "buffered" => Own(v.odbc)
  BY <1>1, ReadFieldShape
<1>3. Consistent(s, v.res, v.odbc, NoStream)
  BY <1>2, SameStays, Carried
<1>4. ResultSetOK(v.res) /\ v.res.kind = r.kind
  BY <1>2 DEF SameRows
<1> QED
  BY <1>1, <1>2, <1>3, <1>4, DiagnosticsShape

LEMMA ReadRowSound ==
  ASSUME StmtInv, NEW f, Sound(f), NEW g \in ReadRow(f)
  PROVE  Sound(g)
<1>1. /\ Consistent(f.stmt, f.res, f.odbc, f.stream)
      /\ f.stmt.alive /\ f.stmt.cursor_type = stmt.cursor_type /\ HandleOK(f.odbc) /\ ResultSetOK(f.res)
      /\ ~Buffered(stmt) => f.res.kind # "buffered"
  BY DEF Sound, Consistent, KindOK, Buffered
<1> DEFINE upto(i) == [f.stmt EXCEPT !.last_field_index = i]
           value(v) == Outcome(upto(Fields - 1), v.res, v.odbc, NoStream, "row", {})
           lost(v, i) == Outcome(upto(i), v.res, v.odbc, NoStream, v.ret, Diagnostics(v.res, v.odbc))
           all(c) == { IF v.ret = "value" THEN {value(v)} ELSE {lost(v, i) : i \in -1 .. Fields - 2} :
                         v \in ReadField(f.res, c.odbc) }
<1>2. PICK c \in SQLNumResultCols(f.odbc) :
        g \in IF ~c.ok
              THEN {Outcome(f.stmt, f.res, c.odbc, NoStream, "error", Diagnostics(f.res, c.odbc))}
              ELSE IF ~c.ret THEN {Outcome(f.stmt, f.res, c.odbc, NoStream, "row", {})}
              ELSE UNION all(c)
  BY DEF ReadRow
<1>3. HandleOK(c.odbc) /\ Same(f.odbc, c.odbc) /\ (~c.ok => Own(c.odbc)) /\ SameRows(f.res, f.res)
  BY <1>1, NumResultColsShape DEF Asks, SameRows
<1>4. Consistent(f.stmt, f.res, c.odbc, NoStream)
  BY <1>1, <1>3, SameStays, Carried
<1>5. CASE ~c.ok
  BY <1>1, <1>2, <1>3, <1>4, <1>5, DiagnosticsShape DEF Outcome, Sound
<1>6. CASE c.ok /\ ~c.ret
  BY <1>1, <1>2, <1>4, <1>6 DEF Outcome, Sound, Tags
<1>7. CASE c.ok /\ c.ret
  <2>1. PICK v \in ReadField(f.res, c.odbc) :
          g \in IF v.ret = "value" THEN {value(v)} ELSE {lost(v, i) : i \in -1 .. Fields - 2}
    BY <1>2, <1>7
  <2>2. /\ Consistent(f.stmt, v.res, v.odbc, NoStream)
        /\ v.ret \in {"value", "error", "dead"} /\ (v.ret = "dead" => Buffered(stmt))
        /\ Diagnostics(v.res, v.odbc) \subseteq Tags
        /\ v.ret = "error" /\ ~Buffered(stmt) => Reported(Diagnostics(v.res, v.odbc))
    BY <1>1, <1>4, ValueSound
  <2>3. \A i \in -1 .. Fields - 1 :
          /\ Consistent(upto(i), v.res, v.odbc, NoStream)
          /\ upto(i).alive /\ upto(i).cursor_type = stmt.cursor_type
    BY <1>1, <2>2, IndexCarried
  <2> HIDE DEF upto
  <2>4. CASE v.ret = "value"
    <3>1. Fields - 1 \in -1 .. Fields - 1
      BY FieldsAssumption
    <3>2. g = Outcome(upto(Fields - 1), v.res, v.odbc, NoStream, "row", {})
      BY <2>1, <2>4
    <3> QED
      BY <2>3, <3>1, <3>2 DEF Outcome, Sound, Tags
  <2>5. CASE v.ret # "value"
    <3>1. PICK i \in -1 .. Fields - 2 : g = lost(v, i)
      BY <2>1, <2>5
    <3>2. i \in -1 .. Fields - 1
      BY FieldsAssumption
    <3>3. Consistent(upto(i), v.res, v.odbc, NoStream) /\ upto(i).alive
          /\ upto(i).cursor_type = stmt.cursor_type
      BY <2>3, <3>2
    <3> QED
      BY <2>2, <2>5, <3>1, <3>3 DEF Outcome, Sound
  <2> QED
    BY <2>4, <2>5
<1> QED
  BY <1>5, <1>6, <1>7

LEMMA GetValueSound ==
  ASSUME StmtInv, stmt.alive, NEW o, Consistent(stmt, res0, o, stream),
         NEW i \in 0 .. Fields - 1, NEW f \in GetValue(o, i)
  PROVE  Sound(f)
<1>1. PICK v \in ReadField(res0, o) :
        \/ v.ret = "value" /\ f = Outcome(FieldRead(i), v.res, v.odbc, NoStream, "row", {})
        \/ v.ret # "value"
             /\ f = Outcome(stmt, v.res, v.odbc, NoStream, v.ret, Diagnostics(v.res, v.odbc))
        \/ f = Outcome(stmt, v.res, v.odbc, NoStream, "error", CustomError(v.res, v.odbc))
  BY DEF GetValue
<1>2. /\ Consistent(stmt, v.res, v.odbc, NoStream)
      /\ v.ret \in {"value", "error", "dead"} /\ (v.ret = "dead" => Buffered(stmt))
      /\ Diagnostics(v.res, v.odbc) \subseteq Tags
      /\ v.ret = "error" /\ ~Buffered(stmt) => Reported(Diagnostics(v.res, v.odbc))
      /\ CustomError(v.res, v.odbc) \subseteq Tags /\ Reported(CustomError(v.res, v.odbc))
  BY ValueSound
<1>3. /\ Consistent(FieldRead(i), v.res, v.odbc, NoStream)
      /\ FieldRead(i).alive /\ FieldRead(i).cursor_type = stmt.cursor_type
  BY <1>2, FieldsAssumption, IndexCarried DEF FieldRead
<1>4. CASE v.ret = "value" /\ f = Outcome(FieldRead(i), v.res, v.odbc, NoStream, "row", {})
  BY <1>3, <1>4 DEF Outcome, Sound, Tags
<1>5. CASE /\ v.ret # "value"
           /\ f = Outcome(stmt, v.res, v.odbc, NoStream, v.ret, Diagnostics(v.res, v.odbc))
  BY <1>2, <1>5 DEF Outcome, Sound
<1>6. CASE f = Outcome(stmt, v.res, v.odbc, NoStream, "error", CustomError(v.res, v.odbc))
  BY <1>2, <1>6 DEF Outcome, Sound
<1> QED
  BY <1>1, <1>4, <1>5, <1>6

(* A stream is opened on the row that is current. *)
LEMMA GetStreamSound ==
  ASSUME StmtInv, stmt.alive, stmt.fetch_called, NEW o, HandleOK(o), Same(odbc, o),
         Consistent(stmt, res0, o, stream), NEW i \in 0 .. Fields - 1, NEW f \in GetStream(o, i)
  PROVE  Sound(f)
<1> DEFINE st(a) == [open |-> TRUE, row |-> RowOf(res, a.odbc)]
<1>1. PICK a \in SQLColAttribute(o) :
        f = IF a.ok THEN Outcome(FieldRead(i), res0, a.odbc, st(a), "row", {})
            ELSE Outcome(stmt, res0, a.odbc, NoStream, "error", Diagnostics(res0, a.odbc))
  BY DEF GetStream
<1>2. HandleOK(a.odbc) /\ Same(o, a.odbc) /\ (~a.ok => Own(a.odbc))
  BY ColAttributeShape DEF Asks
<1>3. /\ SameRows(res, res0) /\ ResultSetOK(res0) /\ SameRows(res0, res0)
      /\ ~Buffered(stmt) => res0.kind # "buffered"
  BY CallBegins DEF SameRows, Consistent, KindOK, Buffered
<1>4. Consistent(stmt, res0, a.odbc, NoStream)
  BY <1>2, <1>3, SameStays, Carried
<1>5. CASE a.ok
  <2> DEFINE s == FieldRead(i)
  <2>1. i \in -1 .. Fields - 1
    BY FieldsAssumption
  <2>2. /\ Consistent(s, res0, a.odbc, NoStream) /\ s.alive
        /\ s.cursor_type = stmt.cursor_type /\ s.fetch_called
    BY <1>4, <2>1, IndexCarried DEF FieldRead
  <2> HIDE DEF s
  <2>3. /\ res.kind = "buffered" => RowOf(res, a.odbc) = <<res.id, res.cur>>
        /\ res.kind # "buffered" => RowOf(res, a.odbc) = <<a.odbc.id, a.odbc.pos>>
    BY DEF RowOf
  <2>4. RowOf(res, a.odbc) \in Nat \X Nat
    <3>1. res.id \in Nat /\ res.cur \in Nat
      BY DEF StmtInv, Consistent, ResultSetOK, ResultSets
    <3>2. a.odbc.id \in Nat /\ a.odbc.pos \in Nat
      BY <1>2, BoundsAssumption DEF HandleOK, Handles
    <3> QED
      BY <2>3, <3>1, <3>2
  <2>5. st(a) \in Streams
    BY <2>4 DEF Streams
  <2>6. StreamOnRow(s, res0, a.odbc, st(a))
    BY <1>3, <2>2, <2>3 DEF StreamOnRow, SameRows
  <2>7. Consistent(s, res0, a.odbc, st(a))
    BY <2>2, <2>5, <2>6 DEF Consistent
  <2>8. f = Outcome(s, res0, a.odbc, st(a), "row", {})
    BY <1>1, <1>5 DEF s
  <2> HIDE DEF st
  <2> QED
    BY <2>2, <2>7, <2>8 DEF Outcome, Sound, Tags
<1>6. CASE ~a.ok
  <2>1. f = Outcome(stmt, res0, a.odbc, NoStream, "error", Diagnostics(res0, a.odbc))
    BY <1>1, <1>6
  <2> QED
    BY <1>2, <1>3, <1>4, <1>6, <2>1, DiagnosticsShape DEF Outcome, Sound
<1> QED
  BY <1>5, <1>6

LEMMA CoreGetFieldSound ==
  ASSUME StmtInv, stmt.alive, NEW i \in 0 .. Fields - 1, NEW type, NEW f \in CoreGetField(i, type)
  PROVE  Sound(f)
<1>1. PICK c \in SQLNumResultCols(odbc0) :
        f \in IF ~c.ok
              THEN {Outcome(stmt, res0, c.odbc, stream, "error", Diagnostics(res0, c.odbc))}
              ELSE IF ~c.ret
              THEN {Outcome(stmt, res0, c.odbc, stream, "error", CustomError(res0, c.odbc))}
              ELSE IF FieldRefused(i)
              THEN {Outcome(stmt, res0, c.odbc, NoStream, "error", CustomError(res0, c.odbc))}
              ELSE IF type = "stream" THEN GetStream(c.odbc, i) ELSE GetValue(c.odbc, i)
  BY DEF CoreGetField
<1>2. Asks(odbc0, c)
  BY CallBegins, NumResultColsShape
<1>3. /\ Consistent(stmt, res0, c.odbc, stream) /\ Consistent(stmt, res0, c.odbc, NoStream)
      /\ HandleOK(c.odbc) /\ Same(odbc, c.odbc)
      /\ CustomError(res0, c.odbc) \subseteq Tags /\ Reported(CustomError(res0, c.odbc))
      /\ Diagnostics(res0, c.odbc) \subseteq Tags
      /\ ~c.ok /\ ~Buffered(stmt) => Reported(Diagnostics(res0, c.odbc))
  BY <1>2, AskedSound
<1>4. CASE ~c.ok \/ ~c.ret \/ FieldRefused(i)
  BY <1>1, <1>3, <1>4 DEF Outcome, Sound
<1>5. CASE c.ok /\ c.ret /\ ~FieldRefused(i)
  <2>1. f \in IF type = "stream" THEN GetStream(c.odbc, i) ELSE GetValue(c.odbc, i)
    BY <1>1, <1>5
  <2>2. stmt.fetch_called
    BY <1>5 DEF FieldRefused
  <2> QED
    BY <1>3, <2>1, <2>2, GetStreamSound, GetValueSound
<1> QED
  BY <1>4, <1>5

----
(* hdb_has_rows. *)

(* The flag is set while no row was fetched, so that no stream is open. *)
LEMMA FlagConsistent ==
  ASSUME StmtInv, stmt.alive, ~stmt.fetch_called, NEW value \in BOOLEAN,
         NEW q, ResultSetOK(q), q.kind = res.kind,
         NEW o, HandleOK(o), o.open = odbc.open, o.cols = odbc.cols,
         value /\ stmt.cursor_type = "forward" /\ ~WarningsAsErrors => o.pos \in 1 .. o.rows
  PROVE  /\ Consistent(HasRowsAs(value), q, o, stream)
         /\ HasRowsAs(value).alive /\ HasRowsAs(value).cursor_type = stmt.cursor_type
<1> DEFINE s == HasRowsAs(value)
<1>1. stmt \in Stmts /\ Consistent(stmt, res, odbc, stream)
  BY DEF StmtInv, Consistent
<1>2. /\ s \in Stmts /\ s.alive = stmt.alive /\ s.cursor_type = stmt.cursor_type
      /\ s.executed = stmt.executed /\ s.fetch_called = stmt.fetch_called
      /\ s.past_next_result_end = stmt.past_next_result_end /\ s.has_rows = value
  BY <1>1 DEF HasRowsAs, Stmts
<1> HIDE DEF s
<1>3. KindOK(s, q) /\ Dead(s, o) /\ StreamOnRow(s, q, o, stream) /\ CursorClosed(s, o)
  BY <1>1, <1>2 DEF Consistent, KindOK, Dead, StreamOnRow, CursorClosed, Buffered
<1>4. RowThere(s, q, o)
  BY <1>2 DEF RowThere, RowExpected
<1>5. Consistent(s, q, o, stream)
  BY <1>1, <1>2, <1>3, <1>4 DEF Consistent
<1> QED
  BY <1>2, <1>5 DEF s

LEMMA ScrollBackSound ==
  ASSUME StmtInv, stmt.alive, ~stmt.fetch_called, stmt.cursor_type # "forward", res.kind # "null",
         NEW f, HandleOK(f.odbc), f.odbc.open = odbc.open, f.odbc.cols = odbc.cols,
         ResultSetOK(f.res), f.res.kind = res.kind, NEW g \in ScrollBack(f)
  PROVE  Sound(g)
<1> DEFINE q == IF res.kind = "buffered" THEN [f.res EXCEPT !.cur = 0] ELSE f.res
<1>1. PICK b \in IF res.kind = "buffered" THEN {[odbc |-> f.odbc, ret |-> "no_data"]}
                 ELSE SQLFetchScroll(f.odbc, FALSE, "absolute", 0) :
        g = Outcome(HasRowsAs(TRUE), q, b.odbc, stream, IF b.ret = "error" THEN "error" ELSE "row",
                    IF b.ret = "error" THEN Diagnostics(f.res, b.odbc) ELSE {})
  BY DEF ScrollBack
<1>2. ResultSetOK(q) /\ q.kind = res.kind
  BY DEF ResultSetOK, ResultSets
<1> HIDE DEF q
<1>3. /\ HandleOK(b.odbc) /\ b.odbc.open = odbc.open /\ b.odbc.cols = odbc.cols
      /\ b.ret = "error" => res.kind # "buffered" /\ Own(b.odbc)
  <2>1. CASE res.kind = "buffered"
    BY <1>1, <2>1
  <2>2. CASE res.kind # "buffered"
    <3>1. b \in SQLFetchScroll(f.odbc, FALSE, "absolute", 0)
      BY <1>1, <2>2
    <3>2. FALSE \in BOOLEAN /\ "absolute" \in Styles /\ 0 \in Int
      BY DEF Styles
    <3>3. /\ HandleOK(b.odbc) /\ b.odbc.open = f.odbc.open /\ b.odbc.cols = f.odbc.cols
          /\ b.ret = "error" => Own(b.odbc)
      <4> DEFINE forward == FALSE
                 offset == 0
      <4>1. forward \in BOOLEAN /\ "absolute" \in Styles /\ offset \in Int
        BY <3>2
      <4>2. b \in SQLFetchScroll(f.odbc, forward, "absolute", offset)
        BY <3>1
      <4> HIDE DEF forward, offset
      <4> QED
        BY <4>1, <4>2, FetchScrollShape
    <3> QED
      BY <2>2, <3>3
  <2> QED
    BY <2>1, <2>2
<1>4. /\ Consistent(HasRowsAs(TRUE), q, b.odbc, stream)
      /\ HasRowsAs(TRUE).alive /\ HasRowsAs(TRUE).cursor_type = stmt.cursor_type
  BY <1>2, <1>3, FlagConsistent
<1>5. CASE b.ret = "error"
  <2>1. g = Outcome(HasRowsAs(TRUE), q, b.odbc, stream, "error", Diagnostics(f.res, b.odbc))
    BY <1>1, <1>5
  <2>2. Diagnostics(f.res, b.odbc) \subseteq Tags /\ Reported(Diagnostics(f.res, b.odbc))
    BY <1>3, <1>5, DiagnosticsShape
  <2> QED
    BY <1>4, <2>1, <2>2 DEF Outcome, Sound
<1>6. CASE b.ret # "error"
  <2>1. g = Outcome(HasRowsAs(TRUE), q, b.odbc, stream, "row", {})
    BY <1>1, <1>6
  <2> QED
    BY <1>4, <2>1 DEF Outcome, Sound, Tags
<1> QED
  BY <1>5, <1>6

LEMMA ProbeScrollableSound ==
  ASSUME StmtInv, stmt.alive, stmt.executed, ~stmt.fetch_called, stmt.cursor_type # "forward",
         NEW o, HandleOK(o), Same(odbc, o), NEW g \in ProbeScrollable(o)
  PROVE  Sound(g)
<1>1. /\ SameRows(res, res0) /\ ResultSetOK(res0) /\ ResultSetOK(res) /\ res0.kind = res.kind
      /\ Same(odbc, o) /\ o.open = odbc.open /\ o.cols = odbc.cols
      /\ res.kind \in {"null", IF Buffered(stmt) THEN "buffered" ELSE "odbc"}
      /\ ~Buffered(stmt) => res.kind = "odbc"
  BY CallBegins DEF SameRows, Same, StmtInv, Consistent, KindOK
<1>2. CASE res.kind = "null"
  <2>1. g = Outcome(HasRowsAs(FALSE), res0, o, stream, "dead", {})
    BY <1>2 DEF ProbeScrollable
  <2>2. /\ Consistent(HasRowsAs(FALSE), res0, o, stream)
        /\ HasRowsAs(FALSE).alive /\ HasRowsAs(FALSE).cursor_type = stmt.cursor_type
    BY <1>1, FlagConsistent
  <2> QED
    BY <1>1, <1>2, <2>1, <2>2 DEF Outcome, Sound, Tags
<1>3. CASE res.kind # "null"
  <2>1. PICK f \in ResultsFetch(o, "first", -1) :
          g \in CASE f.ret = "row"     -> ScrollBack(f)
                  [] f.ret = "no_data" ->
                       {Outcome(HasRowsAs(FALSE), f.res, f.odbc, stream, "no_data", {})}
                  [] f.ret = "error"   ->
                       {Outcome(HasRowsAs(FALSE), f.res, f.odbc, stream, "error",
                                Diagnostics(f.res, f.odbc))}
    BY <1>3 DEF ProbeScrollable
  <2>2. "first" \in Styles /\ -1 \in SQLLEN
    BY BoundsAssumption DEF Styles, SQLLEN
  <2>3. /\ HandleOK(f.odbc) /\ f.ret \in {"row", "no_data", "error"}
        /\ f.odbc.open = odbc.open /\ f.odbc.cols = odbc.cols
        /\ ResultSetOK(f.res) /\ f.res.kind = res.kind
        /\ f.ret = "error" => res.kind = "odbc" /\ Own(f.odbc)
    BY <1>1, <1>3, <2>2, ResultsFetchShape
  <2>4. CASE f.ret = "row"
    <3>1. g \in ScrollBack(f)
      BY <2>1, <2>4
    <3> QED
      BY <1>3, <2>3, <3>1, ScrollBackSound
  <2>5. /\ Consistent(HasRowsAs(FALSE), f.res, f.odbc, stream)
        /\ HasRowsAs(FALSE).alive /\ HasRowsAs(FALSE).cursor_type = stmt.cursor_type
    BY <2>3, FlagConsistent
  <2>6. CASE f.ret = "no_data"
    <3>1. g = Outcome(HasRowsAs(FALSE), f.res, f.odbc, stream, "no_data", {})
      BY <2>1, <2>6
    <3> QED
      BY <2>5, <3>1 DEF Outcome, Sound, Tags
  <2>7. CASE f.ret = "error"
    <3>1. g = Outcome(HasRowsAs(FALSE), f.res, f.odbc, stream, "error", Diagnostics(f.res, f.odbc))
      BY <2>1, <2>7
    <3>2. Diagnostics(f.res, f.odbc) \subseteq Tags /\ Reported(Diagnostics(f.res, f.odbc))
      BY <2>3, <2>7, DiagnosticsShape
    <3> QED
      BY <2>5, <3>1, <3>2 DEF Outcome, Sound
  <2> QED
    BY <2>3, <2>4, <2>6, <2>7
<1> QED
  BY <1>2, <1>3

LEMMA ProbeForwardSound ==
  ASSUME StmtInv, stmt.alive, stmt.executed, ~stmt.fetch_called, stmt.cursor_type = "forward",
         NEW o, HandleOK(o), Same(odbc, o), NEW g \in ProbeForward(o)
  PROVE  Sound(g)
<1>1. /\ SameRows(res, res0) /\ ResultSetOK(res0) /\ res0.kind = res.kind
      /\ o.open = odbc.open /\ o.cols = odbc.cols /\ ~Buffered(stmt) /\ res0.kind # "buffered"
  BY CallBegins DEF SameRows, Same, StmtInv, Consistent, KindOK, Buffered
<1>2. PICK f \in SQLFetchScroll(o, TRUE, "next", 0) :
        g = Outcome(HasRowsAs(f.ret = "row"), res0, f.odbc, stream, f.ret,
                    IF f.ret = "error" THEN Diagnostics(res0, f.odbc) ELSE {})
  BY DEF ProbeForward
<1>3. /\ HandleOK(f.odbc) /\ f.ret \in {"row", "no_data", "error"}
      /\ f.odbc.open = o.open /\ f.odbc.cols = o.cols
      /\ f.ret = "row" => f.odbc.pos \in 1 .. f.odbc.rows
      /\ f.ret = "error" => Own(f.odbc)
  <2> DEFINE forward == TRUE
             offset == 0
  <2>1. forward \in BOOLEAN /\ "next" \in Styles /\ offset \in Int
    BY DEF Styles
  <2>2. f \in SQLFetchScroll(o, forward, "next", offset)
    OBVIOUS
  <2> HIDE DEF forward, offset
  <2> QED
    BY <2>1, <2>2, FetchScrollShape
<1> DEFINE found == f.ret = "row"
<1>4. found \in BOOLEAN /\ (found => f.odbc.pos \in 1 .. f.odbc.rows)
  BY <1>3
<1> HIDE DEF found
<1>5. /\ Consistent(HasRowsAs(found), res0, f.odbc, stream)
      /\ HasRowsAs(found).alive /\ HasRowsAs(found).cursor_type = stmt.cursor_type
  BY <1>1, <1>3, <1>4, FlagConsistent
<1>6. g = Outcome(HasRowsAs(found), res0, f.odbc, stream, f.ret,
                  IF f.ret = "error" THEN Diagnostics(res0, f.odbc) ELSE {})
  BY <1>2 DEF found
<1>7. /\ f.ret = "error" => Diagnostics(res0, f.odbc) \subseteq Tags
                            /\ Reported(Diagnostics(res0, f.odbc))
  BY <1>1, <1>3, DiagnosticsShape
<1> QED
  BY <1>3, <1>5, <1>6, <1>7 DEF Outcome, Sound, Tags

LEMMA CoreHasRowsSound ==
  ASSUME StmtInv, stmt.alive, NEW f \in CoreHasRows
  PROVE  Sound(f)
<1>1. CASE ~stmt.executed
  <2>1. f = Refusal
    BY <1>1 DEF CoreHasRows
  <2> QED
    BY <2>1, RefusalSound
<1>2. CASE stmt.executed /\ (stmt.has_rows \/ stmt.fetch_called)
  <2>1. HandleOK(odbc0) /\ Same(odbc, odbc0) /\ SameRows(res, res0)
    BY CallBegins
  <2>2. Consistent(stmt, res0, odbc0, stream)
    BY <2>1, SameStays, Carried DEF StmtInv
  <2>3. \/ f = Outcome(stmt, res0, odbc0, stream, "row", {})
        \/ f = Outcome(stmt, res0, odbc0, stream, "no_data", {})
    BY <1>2 DEF CoreHasRows
  <2> QED
    BY <2>2, <2>3 DEF Outcome, Sound, Tags
<1>3. CASE stmt.executed /\ ~stmt.has_rows /\ ~stmt.fetch_called
  <2>1. PICK c \in SQLNumResultCols(odbc0) :
          f \in IF ~c.ok
                THEN {Outcome(HasRowsAs(FALSE), res0, c.odbc, stream, "error", Diagnostics(res0, c.odbc))}
                ELSE IF ~c.ret THEN {Outcome(HasRowsAs(FALSE), res0, c.odbc, stream, "no_data", {})}
                ELSE IF stmt.cursor_type = "forward" THEN ProbeForward(c.odbc)
                ELSE ProbeScrollable(c.odbc)
    BY <1>3 DEF CoreHasRows, DetermineHasRows
  <2>2. Asks(odbc0, c)
    BY CallBegins, NumResultColsShape
  <2>3. /\ HandleOK(c.odbc) /\ Same(odbc, c.odbc) /\ SameRows(res, res0) /\ ResultSetOK(res0)
        /\ Diagnostics(res0, c.odbc) \subseteq Tags
        /\ ~c.ok /\ ~Buffered(stmt) => Reported(Diagnostics(res0, c.odbc))
    BY <2>2, AskedSound
  <2>4. CASE ~c.ok \/ ~c.ret
    <3>1. /\ Consistent(HasRowsAs(FALSE), res0, c.odbc, stream)
          /\ HasRowsAs(FALSE).alive /\ HasRowsAs(FALSE).cursor_type = stmt.cursor_type
      BY <1>3, <2>3, FlagConsistent DEF SameRows, Same
    <3>2. CASE ~c.ok
      <4>1. f = Outcome(HasRowsAs(FALSE), res0, c.odbc, stream, "error", Diagnostics(res0, c.odbc))
        BY <2>1, <3>2
      <4> QED
        BY <2>3, <3>1, <3>2, <4>1 DEF Outcome, Sound
    <3>3. CASE c.ok /\ ~c.ret
      <4>1. f = Outcome(HasRowsAs(FALSE), res0, c.odbc, stream, "no_data", {})
        BY <2>1, <3>3
      <4> QED
        BY <3>1, <4>1 DEF Outcome, Sound, Tags
    <3> QED
      BY <2>4, <3>2, <3>3
  <2>5. CASE c.ok /\ c.ret
    <3>1. f \in IF stmt.cursor_type = "forward" THEN ProbeForward(c.odbc) ELSE ProbeScrollable(c.odbc)
      BY <2>1, <2>5
    <3> QED
      BY <1>3, <2>3, <3>1, ProbeForwardSound, ProbeScrollableSound
  <2> QED
    BY <2>4, <2>5
<1> QED
  BY <1>1, <1>2, <1>3

----
(* hdb_num_rows and hdb_rows_affected. *)

LEMMA CoreCountSound ==
  ASSUME StmtInv, stmt.alive, NEW call, NEW f \in CoreCount(call)
  PROVE  Sound(f)
<1>1. /\ HandleOK(odbc0) /\ Same(odbc, odbc0) /\ SameRows(res, res0)
      /\ ResultSetOK(res) /\ res.kind \in {"null", "odbc", "buffered"}
      /\ stmt.executed /\ ~Buffered(stmt) => res.kind = "odbc"
  BY CallBegins DEF StmtInv, Consistent, KindOK, ResultSetOK, ResultSets
<1>2. Consistent(stmt, res0, odbc0, stream)
  BY <1>1, SameStays, Carried DEF StmtInv
<1>3. CASE CountRefused(call)
  <2>1. f = Refusal
    BY <1>3 DEF CoreCount
  <2> QED
    BY <2>1, RefusalSound
<1>4. CASE ~CountRefused(call) /\ res.kind = "null"
  <2>1. f = Outcome(stmt, res0, odbc0, stream, "dead", {})
    BY <1>4 DEF CoreCount
  <2>2. Buffered(stmt)
    BY <1>1, <1>4 DEF CountRefused
  <2> QED
    BY <1>2, <2>1, <2>2 DEF Outcome, Sound, Tags
<1>5. CASE ~CountRefused(call) /\ res.kind = "buffered"
  <2>1. f = Outcome(stmt, [res EXCEPT !.err = "none"], odbc0, stream, "row", {})
    BY <1>5 DEF CoreCount
  <2>2. SameRows(res, [res EXCEPT !.err = "none"])
    BY <1>1 DEF ResultSetOK, ResultSets, SameRows
  <2>3. Consistent(stmt, [res EXCEPT !.err = "none"], odbc0, stream)
    BY <1>1, <2>2, SameStays, Carried DEF StmtInv
  <2> QED
    BY <2>1, <2>3 DEF Outcome, Sound, Tags
<1>6. CASE ~CountRefused(call) /\ res.kind = "odbc"
  <2>1. PICK c \in OnResult(odbc0) :
          \/ f = Outcome(stmt, res0, c.odbc, stream, "row", {})
          \/ ~c.ok /\ f = Outcome(stmt, res0, c.odbc, stream, "error", Diagnostics(res0, c.odbc))
    BY <1>6 DEF CoreCount
  <2>2. Asks(odbc0, c)
    BY <1>1, OnResultShape
  <2>3. /\ Consistent(stmt, res0, c.odbc, stream) /\ Diagnostics(res0, c.odbc) \subseteq Tags
        /\ ~c.ok /\ ~Buffered(stmt) => Reported(Diagnostics(res0, c.odbc))
    BY <2>2, AskedSound
  <2> QED
    BY <2>1, <2>3 DEF Outcome, Sound, Tags
<1> QED
  BY <1>1, <1>3, <1>4, <1>5, <1>6

----
(***************************************************************************)
(* Every action keeps the invariant.                                       *)
(***************************************************************************)

(* What a function reports of an outcome. *)
Reports(a) ==
  /\ a.ret \in {"true", "false", "null"} /\ a.errs \subseteq Tags
  /\ a.ret = "false" /\ a.call # "has_rows" /\ ~Buffered(stmt) => Reported(a.errs)

LEMMA Applied ==
  ASSUME StmtInv, pc = "idle", NEW f, Sound(f), Apply(f), Reports(out')
  PROVE  StmtInv'
<1>1. Consistent(stmt', res', odbc', stream')
  BY DEF Apply, Sound
<1>2. stmt'.alive /\ stmt'.cursor_type = stmt.cursor_type
  BY DEF Apply, Sound
<1>3. AnswerOK'
  BY <1>2 DEF AnswerOK, Reports, Buffered
<1>4. pc' \in {"idle", "dead"} /\ (pc' = "dead" => Buffered(stmt))
  BY DEF Apply, Sound
<1>5. ControlOK'
  BY <1>2, <1>4 DEF ControlOK, Buffered
<1> QED
  BY <1>1, <1>3, <1>5 DEF StmtInv

LEMMA ReportReports ==
  ASSUME NEW f, Sound(f), NEW call, Report(call, f)
  PROVE  Reports(out')
<1>1. CASE f.ret = "row"
  BY <1>1 DEF Report, Answer, Reports, Tags
<1>2. CASE f.ret = "no_data"
  BY <1>2 DEF Report, Answer, Reports, Tags
<1>3. CASE f.ret = "error"
  BY <1>3 DEF Report, Fail, Answer, Reports, Sound
<1>4. CASE f.ret = "dead"
  BY <1>4 DEF Report, Fail, Answer, Reports, Sound
<1> QED
  BY <1>1, <1>2, <1>3, <1>4 DEF Sound

(* A statement object that does not exist yet, or any more. *)
LEMMA NewConsistent ==
  ASSUME StmtInv, ~stmt.alive, NEW params \in {"none", "given", "lost"}, NEW prepared \in BOOLEAN,
         NEW q, SameRows(res, q), NEW o, HandleOK(o), ~o.open
  PROVE  LET s == NewStmt(stmt.cursor_type, params, prepared)
         IN  /\ Consistent(s, q, o, stream) /\ Consistent(s, q, o, NoStream)
             /\ Consistent(stmt, q, o, stream)
             /\ s.alive /\ s.cursor_type = stmt.cursor_type
<1> DEFINE s == NewStmt(stmt.cursor_type, params, prepared)
<1>1. Consistent(stmt, res, odbc, stream) /\ stmt \in Stmts
  BY DEF StmtInv, Consistent
<1>2. s \in Stmts
  BY <1>1, FieldsAssumption DEF NewStmt, Stmts
<1>3. /\ s.alive /\ s.cursor_type = stmt.cursor_type /\ ~s.executed /\ ~s.fetch_called
      /\ ~s.has_rows /\ ~s.past_next_result_end
  BY DEF NewStmt
<1> HIDE DEF s
<1>4. ~stream.open /\ ~stmt.fetch_called /\ ~stmt.executed /\ ~stmt.has_rows
      /\ ~stmt.past_next_result_end
  BY <1>1 DEF Consistent, Dead, StreamOnRow
<1>5. KindOK(s, q) /\ KindOK(stmt, q)
  BY <1>1, <1>3, <1>4 DEF Consistent, KindOK, Buffered, SameRows
<1>6. \A st : ~st.open => /\ StreamOnRow(s, q, o, st) /\ RowThere(s, q, o)
                          /\ StreamOnRow(stmt, q, o, st) /\ RowThere(stmt, q, o)
  BY <1>3, <1>4 DEF StreamOnRow, RowThere, RowExpected
<1>7. Dead(s, o) /\ Dead(stmt, o) /\ CursorClosed(s, o) /\ CursorClosed(stmt, o)
  BY <1>3, <1>4 DEF Dead, CursorClosed
<1>8. Consistent(s, q, o, stream) /\ Consistent(s, q, o, NoStream) /\ Consistent(stmt, q, o, stream)
  BY <1>1, <1>2, <1>4, <1>5, <1>6, <1>7, NoStreamOK DEF Consistent, SameRows
<1> QED
  BY <1>3, <1>8 DEF s

LEMMA PrepareInv == ASSUME StmtInv, Prepare PROVE StmtInv'
<1>1. HandleOK(odbc0) /\ Same(odbc, odbc0) /\ SameRows(res, res)
  BY CallBegins DEF StmtInv, Consistent, SameRows
<1>2. pc' = "idle" /\ res' = res /\ stream' = stream /\ ~stmt.alive
  BY DEF Prepare
<1>3. CASE /\ odbc' \in {CloseCursor(o) : o \in Accepted(odbc0)}
           /\ stmt' \in {NewStmt(stmt.cursor_type, p, TRUE) : p \in ParamKinds}
           /\ out' = Answer("prepare", "true", {}, NoRow)
  <2>1. PICK o \in Accepted(odbc0) : odbc' = CloseCursor(o)
    BY <1>3
  <2>2. PICK p \in ParamKinds : stmt' = NewStmt(stmt.cursor_type, p, TRUE)
    BY <1>3
  <2>3. HandleOK(odbc') /\ ~odbc'.open
    BY <1>1, <2>1, AcceptedShape, CloseCursorShape
  <2>4. p \in {"none", "given", "lost"}
    BY ArgumentsAssumption
  <2>5. Consistent(stmt', res', odbc', stream')
    BY <1>1, <1>2, <2>2, <2>3, <2>4, NewConsistent
  <2>6. AnswerOK'
    BY <1>3 DEF Answer, AnswerOK, Tags
  <2> QED
    BY <1>2, <2>5, <2>6 DEF StmtInv, ControlOK
<1>4. CASE odbc' \in Failed(odbc0, {}) /\ out' = Fail("prepare", {"own"}) /\ UNCHANGED stmt
  <2>1. HandleOK(odbc') /\ Same(odbc0, odbc')
    BY <1>1, <1>4, FailedShape
  <2>2. Stays(odbc, odbc')
    BY <1>1, <2>1 DEF Same, Stays
  <2>3. Consistent(stmt', res', odbc', stream')
    BY <1>1, <1>2, <1>4, <2>1, <2>2, Carried DEF StmtInv
  <2>4. AnswerOK'
    BY <1>4 DEF Fail, Answer, AnswerOK, Tags, Reported
  <2> QED
    BY <1>2, <2>3, <2>4 DEF StmtInv, ControlOK
<1> QED
  BY <1>3, <1>4 DEF Prepare

LEMMA QueryInv == ASSUME StmtInv, Query PROVE StmtInv'
<1> DEFINE s == NewStmt(stmt.cursor_type, "none", FALSE)
<1>1. HandleOK(odbc0) /\ Same(odbc, odbc0) /\ SameRows(res, res0) /\ SameRows(res, res)
  BY CallBegins DEF StmtInv, Consistent, SameRows
<1>2. pc = "idle" /\ ~stmt.alive
  BY DEF Query
<1>3. ~odbc0.open
  BY <1>1, <1>2 DEF StmtInv, Consistent, Dead, Same
<1>4. Consistent(s, res0, odbc0, NoStream) /\ s.alive /\ s.cursor_type = stmt.cursor_type
  BY <1>1, <1>2, <1>3, NewConsistent
<1>5. PICK f \in CoreExecute(s, odbc0) :
        IF f.ret = "error"
        THEN /\ out' = Fail("query", f.errs) /\ odbc' = CloseCursor(f.odbc)
             /\ UNCHANGED <<stmt, res, stream, pc>>
        ELSE out' = Answer("query", "true", {}, NoRow) /\ Apply(f)
  BY DEF Query
<1> HIDE DEF s
<1>6. Sound(f)
  BY <1>4, <1>5, CoreExecuteSound
<1>7. CASE f.ret = "error"
  <2>1. HandleOK(f.odbc)
    BY <1>6 DEF Sound, Consistent
  <2>2. HandleOK(odbc') /\ ~odbc'.open
    BY <1>5, <1>7, <2>1, CloseCursorShape
  <2>3. Consistent(stmt', res', odbc', stream')
    BY <1>1, <1>2, <1>5, <1>7, <2>2, NewConsistent
  <2>4. AnswerOK'
    BY <1>5, <1>6, <1>7 DEF Fail, Answer, AnswerOK, Sound, Buffered
  <2>5. ControlOK'
    BY <1>2, <1>5, <1>7 DEF ControlOK
  <2> QED
    BY <2>3, <2>4, <2>5 DEF StmtInv
<1>8. CASE f.ret # "error"
  <2>1. Reports(out')
    BY <1>5, <1>8 DEF Answer, Reports, Tags
  <2> QED
    BY <1>2, <1>5, <1>6, <1>8, <2>1, Applied
<1> QED
  BY <1>7, <1>8

LEMMA ExecuteInv == ASSUME StmtInv, Execute PROVE StmtInv'
<1>1. pc = "idle" /\ stmt.alive
  BY DEF Execute, Called
<1>2. CASE ~stmt.prepared /\ Reject("execute")
  <2>1. Sound(Refusal) /\ Apply(Refusal) /\ out' = Fail("execute", Refusal.errs)
    BY <1>1, <1>2, RefusalSound DEF Reject
  <2>2. Reports(out')
    BY <2>1 DEF Fail, Answer, Reports, Sound, Refusal, Outcome
  <2> QED
    BY <1>1, <2>1, <2>2, Applied
<1>3. CASE /\ pc' = (IF stmt.executed THEN "flush" ELSE "bind")
           /\ odbc' = odbc0 /\ res' = res0 /\ out' = Answer("execute", "true", {}, NoRow)
           /\ UNCHANGED <<stmt, stream>>
  <2>1. HandleOK(odbc0) /\ Same(odbc, odbc0) /\ SameRows(res, res0)
    BY CallBegins
  <2>2. Consistent(stmt', res', odbc', stream')
    BY <1>3, <2>1, SameStays, Carried DEF StmtInv
  <2>3. AnswerOK'
    BY <1>3 DEF Answer, AnswerOK, Tags
  <2>4. ControlOK'
    BY <1>1, <1>3, <2>1 DEF ControlOK, StmtInv, Consistent, CursorClosed, Same, Buffered
  <2> QED
    BY <2>2, <2>3, <2>4 DEF StmtInv
<1> QED
  BY <1>2, <1>3 DEF Execute

LEMMA FlushRoundInv == ASSUME StmtInv, FlushRound PROVE StmtInv'
<1>1. pc = "flush" /\ stmt.alive /\ stmt.executed
  BY DEF FlushRound, StmtInv, ControlOK
<1>2. PICK f \in NextResultUnchecked :
        /\ stmt' = f.stmt /\ res' = f.res /\ odbc' = f.odbc /\ stream' = f.stream
        /\ IF f.ret = "error" THEN pc' = "idle" /\ out' = Fail("execute", f.errs)
           ELSE UNCHANGED <<pc, out>>
  BY DEF FlushRound
<1>3. Sound(f) /\ f.stmt.executed /\ (f.ret = "error" => Buffered(stmt))
  BY <1>1, NextResultUncheckedSound
<1>4. /\ Consistent(stmt', res', odbc', stream')
      /\ stmt'.alive /\ stmt'.executed /\ stmt'.cursor_type = stmt.cursor_type
  BY <1>2, <1>3 DEF Sound
<1>5. AnswerOK'
  <2>1. CASE f.ret = "error"
    BY <1>2, <1>3, <1>4, <2>1 DEF Fail, Answer, AnswerOK, Sound, Buffered
  <2>2. CASE f.ret # "error"
    BY <1>2, <1>4, <2>2 DEF StmtInv, AnswerOK, Buffered
  <2> QED
    BY <2>1, <2>2
<1>6. ControlOK'
  BY <1>1, <1>2, <1>4 DEF ControlOK
<1> QED
  BY <1>4, <1>5, <1>6 DEF StmtInv

LEMMA FlushDoneInv == ASSUME StmtInv, FlushDone PROVE StmtInv'
<1>1. /\ pc = "flush" /\ stmt.past_next_result_end /\ pc' = "bind"
      /\ UNCHANGED <<stmt, res, odbc, stream, out>>
  BY DEF FlushDone
<1>2. ControlOK'
  BY <1>1 DEF StmtInv, ControlOK, Consistent, CursorClosed
<1>3. Consistent(stmt', res', odbc', stream') /\ AnswerOK'
  BY <1>1 DEF StmtInv, AnswerOK
<1> QED
  BY <1>2, <1>3 DEF StmtInv

(* bind_params takes the mark of an execution away, where no cursor is open. *)
LEMMA UnmarkedConsistent ==
  ASSUME NEW s, NEW r, NEW o, NEW st, Consistent(s, r, o, st), s.alive,
         ~WarningsAsErrors /\ ~Buffered(s) => ~(o.open /\ o.cols),
         NEW p \in {"none", "given", "lost"}
  PROVE  LET t == [s EXCEPT !.params = p, !.executed = FALSE]
         IN  /\ Consistent(t, r, o, st) /\ t.alive /\ t.cursor_type = s.cursor_type
<1> DEFINE t == [s EXCEPT !.params = p, !.executed = FALSE]
<1>1. s \in Stmts
  BY DEF Consistent
<1>2. /\ t \in Stmts /\ t.alive = s.alive /\ t.cursor_type = s.cursor_type /\ t.executed = FALSE
      /\ t.fetch_called = s.fetch_called /\ t.has_rows = s.has_rows
      /\ t.past_next_result_end = s.past_next_result_end /\ t.past_fetch_end = s.past_fetch_end
  BY <1>1 DEF Stmts
<1> HIDE DEF t
<1>3. Consistent(t, r, o, st)
  BY <1>2 DEF Consistent, KindOK, Dead, StreamOnRow, RowThere, RowExpected, CursorClosed, Buffered
<1> QED
  BY <1>2, <1>3 DEF t

LEMMA BindFailsInv == ASSUME StmtInv, BindFails PROVE StmtInv'
<1>1. /\ pc = "bind" /\ pc' = "idle" /\ stmt.alive
      /\ ~WarningsAsErrors /\ ~Buffered(stmt) => ~(odbc.open /\ odbc.cols)
      /\ stmt' = [stmt EXCEPT !.params = "lost", !.executed = FALSE]
      /\ out' = Fail("execute", CustomError(res, odbc)) /\ UNCHANGED <<res, odbc, stream>>
  BY DEF BindFails, StmtInv, ControlOK
<1>2. Consistent(stmt', res', odbc', stream') /\ stmt'.cursor_type = stmt.cursor_type
  BY <1>1, UnmarkedConsistent DEF StmtInv
<1>3. CustomError(res, odbc) \subseteq Tags /\ Reported(CustomError(res, odbc))
  BY DiagnosticsShape DEF StmtInv, Consistent
<1>4. AnswerOK'
  BY <1>1, <1>3 DEF Fail, Answer, AnswerOK
<1>5. ControlOK'
  BY <1>1 DEF ControlOK
<1> QED
  BY <1>2, <1>4, <1>5 DEF StmtInv

LEMMA BindAndRunInv == ASSUME StmtInv, BindAndRun PROVE StmtInv'
<1>1. /\ pc = "bind" /\ pc' = "idle" /\ stmt.alive
      /\ ~WarningsAsErrors /\ ~Buffered(stmt) => ~(odbc.open /\ odbc.cols)
  BY DEF BindAndRun, StmtInv, ControlOK
<1>2. Consistent(stmt, res0, odbc, NoStream)
  <2>1. HandleOK(odbc) /\ Stays(odbc, odbc) /\ SameRows(res, res0)
    BY CallBegins DEF StmtInv, Consistent, Stays
  <2> QED
    BY <2>1, Carried DEF StmtInv
<1>3. Consistent(Bound, res0, odbc, NoStream) /\ Bound.alive /\ Bound.cursor_type = stmt.cursor_type
  <2>1. CASE stmt.params = "given"
    <3>1. stmt \in Stmts /\ Bound = [stmt EXCEPT !.executed = FALSE]
      BY <1>2, <2>1 DEF Bound, Consistent
    <3>2. [stmt EXCEPT !.params = stmt.params, !.executed = FALSE] = [stmt EXCEPT !.executed = FALSE]
      BY <3>1 DEF Stmts
    <3>3. stmt.params \in {"none", "given", "lost"}
      BY <2>1
    <3>4. stmt.alive /\ (~WarningsAsErrors /\ ~Buffered(stmt) => ~(odbc.open /\ odbc.cols))
      BY <1>1
    <3>5. LET s == [stmt EXCEPT !.params = stmt.params, !.executed = FALSE]
          IN  Consistent(s, res0, odbc, NoStream) /\ s.alive /\ s.cursor_type = stmt.cursor_type
      BY <1>2, <3>3, <3>4, UnmarkedConsistent, Zenon
    <3> QED
      BY <3>1, <3>2, <3>5, Zenon
  <2>2. CASE stmt.params # "given"
    BY <1>1, <1>2, <2>2 DEF Bound
  <2> QED
    BY <2>1, <2>2
<1>4. PICK f \in CoreExecute(Bound, odbc) :
        /\ stmt' = f.stmt /\ res' = f.res /\ odbc' = f.odbc /\ stream' = f.stream
        /\ out' = IF f.ret = "error" THEN Fail("execute", f.errs)
                  ELSE Answer("execute", "true", {}, NoRow)
  BY DEF BindAndRun
<1>5. Sound(f)
  BY <1>3, <1>4, CoreExecuteSound
<1>6. Consistent(stmt', res', odbc', stream') /\ stmt'.cursor_type = stmt.cursor_type
  BY <1>4, <1>5 DEF Sound
<1>7. AnswerOK'
  <2>1. CASE f.ret = "error"
    BY <1>4, <1>5, <1>6, <2>1 DEF Fail, Answer, AnswerOK, Sound, Buffered
  <2>2. CASE f.ret # "error"
    BY <1>4, <2>2 DEF Answer, AnswerOK, Tags
  <2> QED
    BY <2>1, <2>2
<1>8. ControlOK'
  BY <1>1 DEF ControlOK
<1> QED
  BY <1>6, <1>7, <1>8 DEF StmtInv

LEMMA FetchInv == ASSUME StmtInv, NEW m \in Moves, Fetch(m[1], m[2]) PROVE StmtInv'
<1>1. pc = "idle" /\ stmt.alive
  BY DEF Fetch, Called
<1>2. PICK f \in CoreFetch(m[1], m[2]) : Apply(f) /\ Report("fetch", f)
  BY DEF Fetch
<1>3. Sound(f)
  BY <1>1, CoreFetchSound
<1> QED
  BY <1>1, <1>2, <1>3, ReportReports, Applied

LEMMA FetchArrayInv == ASSUME StmtInv, NEW m \in Moves, FetchArray(m[1], m[2]) PROVE StmtInv'
<1>1. pc = "idle" /\ stmt.alive
  BY DEF FetchArray, Called
<1>2. PICK f \in CoreFetch(m[1], m[2]) :
        \E g \in IF f.ret = "row" THEN ReadRow(f) ELSE {f} : Apply(g) /\ Report("fetch_array", g)
  BY DEF FetchArray
<1>3. PICK g \in IF f.ret = "row" THEN ReadRow(f) ELSE {f} : Apply(g) /\ Report("fetch_array", g)
  BY <1>2
<1>4. Sound(f)
  BY <1>1, CoreFetchSound
<1>5. Sound(g)
  BY <1>3, <1>4, ReadRowSound
<1> QED
  BY <1>1, <1>3, <1>5, ReportReports, Applied

LEMMA GetFieldInv ==
  ASSUME StmtInv, NEW i \in 0 .. Fields - 1, NEW type, GetField(i, type)
  PROVE  StmtInv'
<1>1. pc = "idle" /\ stmt.alive
  BY DEF GetField, Called
<1>2. PICK f \in CoreGetField(i, type) : Apply(f) /\ Report("get_field", f)
  BY DEF GetField
<1>3. Sound(f)
  BY <1>1, CoreGetFieldSound
<1> QED
  BY <1>1, <1>2, <1>3, ReportReports, Applied

LEMMA StreamCloseInv == ASSUME StmtInv, StreamClose PROVE StmtInv'
<1>1. /\ stream' = NoStream /\ out' = Answer("fclose", "true", {}, NoRow)
      /\ UNCHANGED <<stmt, res, odbc, pc>>
  BY DEF StreamClose
<1>2. HandleOK(odbc) /\ Stays(odbc, odbc) /\ SameRows(res, res)
  BY DEF StmtInv, Consistent, Stays, SameRows
<1>3. Consistent(stmt', res', odbc', stream')
  BY <1>1, <1>2, Carried DEF StmtInv
<1>4. AnswerOK'
  BY <1>1 DEF Answer, AnswerOK, Tags
<1>5. ControlOK'
  BY <1>1 DEF StmtInv, ControlOK
<1> QED
  BY <1>3, <1>4, <1>5 DEF StmtInv

LEMMA HasRowsInv == ASSUME StmtInv, HasRows PROVE StmtInv'
<1>1. pc = "idle" /\ stmt.alive
  BY DEF HasRows, Called
<1>2. PICK f \in CoreHasRows :
        /\ Apply(f)
        /\ out' = Answer("has_rows", IF f.ret = "row" THEN "true" ELSE "false", f.errs, NoRow)
  BY DEF HasRows
<1>3. Sound(f)
  BY <1>1, CoreHasRowsSound
<1>4. Reports(out')
  BY <1>2, <1>3 DEF Answer, Reports, Sound
<1> QED
  BY <1>1, <1>2, <1>3, <1>4, Applied

LEMMA NextResultInv == ASSUME StmtInv, NextResult PROVE StmtInv'
<1>1. pc = "idle" /\ stmt.alive
  BY DEF NextResult, Called
<1>2. PICK f \in CoreNextResult :
        /\ Apply(f)
        /\ out' = CASE f.ret = "row"     -> Answer("next_result", "true", {}, NoRow)
                    [] f.ret = "no_data" -> Answer("next_result", "null", {}, NoRow)
                    [] f.ret = "error"   -> Fail("next_result", f.errs)
  BY DEF NextResult
<1>3. Sound(f) /\ f.ret \in {"row", "no_data", "error"}
  BY <1>1, CoreNextResultSound
<1>4. Reports(out')
  <2>1. CASE f.ret = "row"
    BY <1>2, <2>1 DEF Answer, Reports, Tags
  <2>2. CASE f.ret = "no_data"
    BY <1>2, <2>2 DEF Answer, Reports, Tags
  <2>3. CASE f.ret = "error"
    BY <1>2, <1>3, <2>3 DEF Fail, Answer, Reports, Sound
  <2> QED
    BY <1>3, <2>1, <2>2, <2>3
<1> QED
  BY <1>1, <1>2, <1>3, <1>4, Applied

LEMMA CoreCountErrors ==
  ASSUME StmtInv, NEW call, NEW f \in CoreCount(call)
  PROVE  f.ret \in {"row", "error", "dead"}
<1>1. res.kind \in {"null", "odbc", "buffered"}
  BY DEF StmtInv, Consistent, ResultSetOK, ResultSets
<1> QED
  BY <1>1 DEF CoreCount, Refusal, Outcome

LEMMA CountInv == ASSUME StmtInv, NEW call, Count(call) PROVE StmtInv'
<1>1. pc = "idle" /\ stmt.alive
  BY DEF Count, Called
<1>2. PICK f \in CoreCount(call) :
        /\ Apply(f)
        /\ out' = IF f.ret = "row" THEN Answer(call, "true", {}, NoRow) ELSE Fail(call, f.errs)
  BY DEF Count
<1>3. Sound(f) /\ f.ret \in {"row", "error", "dead"}
  BY <1>1, CoreCountSound, CoreCountErrors
<1>4. Reports(out')
  <2>1. CASE f.ret = "row"
    BY <1>2, <2>1 DEF Answer, Reports, Tags
  <2>2. CASE f.ret \in {"error", "dead"}
    BY <1>2, <1>3, <2>2 DEF Fail, Answer, Reports, Sound
  <2> QED
    BY <1>3, <2>1, <2>2
<1> QED
  BY <1>1, <1>2, <1>3, <1>4, Applied

LEMMA CancelInv == ASSUME StmtInv, Cancel PROVE StmtInv'
<1>1. pc = "idle" /\ stmt.alive /\ stream' = NoStream /\ res' = res0 /\ UNCHANGED <<stmt, pc>>
  BY DEF Cancel, Called
<1>2. HandleOK(odbc0) /\ Same(odbc, odbc0) /\ SameRows(res, res0) /\ ResultSetOK(res0)
  BY CallBegins DEF SameRows
<1>3. \A p \in SQLCancel(odbc0) : HandleOK(p) /\ Stays(odbc, p)
  BY <1>2, CancelShape DEF Same, Stays
<1>4. CASE odbc' \in SQLCancel(odbc0) /\ out' = Answer("cancel", "true", {}, NoRow)
  <2>1. Consistent(stmt', res', odbc', stream')
    BY <1>1, <1>2, <1>3, <1>4, Carried DEF StmtInv
  <2>2. AnswerOK'
    BY <1>4 DEF Answer, AnswerOK, Tags
  <2> QED
    BY <1>1, <2>1, <2>2 DEF StmtInv, ControlOK
<1>5. CASE /\ odbc' \in Failed(odbc0, SQLCancel(odbc0))
           /\ out' = Fail("cancel", Diagnostics(res0, odbc'))
  <2>1. /\ HandleOK(odbc') /\ Own(odbc')
        /\ Same(odbc0, odbc') \/ \E d \in SQLCancel(odbc0) : Same(d, odbc')
    BY <1>2, <1>3, <1>5, FailedShape
  <2>2. Stays(odbc, odbc')
    BY <1>2, <1>3, <2>1 DEF Same, Stays
  <2>3. Consistent(stmt', res', odbc', stream')
    BY <1>1, <1>2, <2>1, <2>2, Carried DEF StmtInv
  <2>4. ~Buffered(stmt) => res0.kind # "buffered"
    BY <1>1, <2>3 DEF Consistent, KindOK
  <2>5. AnswerOK'
    BY <1>1, <1>2, <1>5, <2>1, <2>4, DiagnosticsShape DEF Fail, Answer, AnswerOK
  <2> QED
    BY <1>1, <2>3, <2>5 DEF StmtInv, ControlOK
<1> QED
  BY <1>4, <1>5 DEF Cancel

LEMMA FreeInv == ASSUME StmtInv, Free PROVE StmtInv'
<1> DEFINE new == NewStmt(stmt.cursor_type, "none", FALSE)
           gone == [new EXCEPT !.alive = FALSE]
<1>1. /\ pc = "idle" /\ stmt' = gone /\ res' = NoResults
      /\ odbc' = CloseCursor([odbc EXCEPT !.diag = "none"]) /\ stream' = NoStream
      /\ out' = Answer("free", "true", {}, NoRow) /\ UNCHANGED pc
  BY DEF Free, Called
<1>2. stmt \in Stmts /\ HandleOK(odbc)
  BY DEF StmtInv, Consistent
<1>3. new \in Stmts /\ ~new.executed /\ ~new.fetch_called /\ ~new.has_rows
      /\ ~new.past_next_result_end /\ new.cursor_type = stmt.cursor_type
  BY <1>2, FieldsAssumption DEF NewStmt, Stmts
<1> HIDE DEF new
<1>4. gone \in Stmts /\ gone.alive = FALSE /\ gone.executed = new.executed
      /\ gone.fetch_called = new.fetch_called /\ gone.has_rows = new.has_rows
      /\ gone.past_next_result_end = new.past_next_result_end
  BY <1>3 DEF Stmts
<1> HIDE DEF gone
<1>5. ResultSetOK(NoResults) /\ NoResults.kind = "null"
  BY BoundsAssumption DEF NoResults, ResultSetOK, ResultSets
<1>6. HandleOK(odbc') /\ ~odbc'.open
  <2>1. HandleOK([odbc EXCEPT !.diag = "none"])
    BY <1>2 DEF HandleOK, Handles
  <2> QED
    BY <1>1, <2>1, CloseCursorShape
<1>7. KindOK(gone, NoResults) /\ Dead(gone, odbc') /\ StreamOnRow(gone, NoResults, odbc', NoStream)
      /\ RowThere(gone, NoResults, odbc') /\ CursorClosed(gone, odbc')
  BY <1>3, <1>4, <1>5, <1>6, NoStreamOK
     DEF KindOK, Dead, StreamOnRow, RowThere, RowExpected, CursorClosed
<1>8. Consistent(stmt', res', odbc', stream')
  BY <1>1, <1>4, <1>5, <1>6, <1>7, NoStreamOK DEF Consistent
<1>9. AnswerOK' /\ ControlOK'
  BY <1>1 DEF Answer, AnswerOK, Tags, ControlOK
<1> QED
  BY <1>8, <1>9 DEF StmtInv

LEMMA LoseConnectionInv == ASSUME StmtInv, LoseConnection PROVE StmtInv'
<1>1. odbc' = [odbc EXCEPT !.lost = TRUE] /\ UNCHANGED <<stmt, res, stream, pc, out>>
  BY DEF LoseConnection
<1>2. HandleOK(odbc') /\ Same(odbc, odbc') /\ SameRows(res, res)
  BY <1>1 DEF StmtInv, Consistent, HandleOK, Handles, Same, SameRows
<1>3. Consistent(stmt', res', odbc', stream')
  BY <1>1, <1>2, SameStays, Carried DEF StmtInv
<1>4. AnswerOK' /\ ControlOK'
  BY <1>1, <1>2 DEF StmtInv, AnswerOK, ControlOK, Same
<1> QED
  BY <1>3, <1>4 DEF StmtInv

LEMMA InitInv == Init => StmtInv
<1> SUFFICES ASSUME Init PROVE StmtInv
  OBVIOUS
<1>1. PICK t \in CursorTypes : stmt = [NewStmt(t, "none", FALSE) EXCEPT !.alive = FALSE]
  BY DEF Init
<1>2. NewStmt(t, "none", FALSE) \in Stmts
  BY FieldsAssumption DEF NewStmt, Stmts
<1>3. stmt \in Stmts
  BY <1>1, <1>2 DEF Stmts
<1>4. ~stmt.alive /\ ~stmt.executed /\ ~stmt.fetch_called /\ ~stmt.has_rows
      /\ ~stmt.past_next_result_end
  BY <1>1 DEF NewStmt
<1>5. ResultSetOK(res) /\ res.kind = "null"
  BY BoundsAssumption DEF Init, NoResults, ResultSetOK, ResultSets
<1>6. HandleOK(odbc) /\ ~odbc.open
  <2>1. <<>> \in Seq(Sizes)
    BY EmptySeq
  <2> QED
    BY <2>1, BoundsAssumption DEF Init, NewHandle, HandleOK, Handles
<1>7. stream \in Streams /\ ~stream.open
  BY NoStreamOK DEF Init
<1>8. KindOK(stmt, res) /\ Dead(stmt, odbc) /\ StreamOnRow(stmt, res, odbc, stream)
      /\ RowThere(stmt, res, odbc) /\ CursorClosed(stmt, odbc)
  BY <1>4, <1>5, <1>6, <1>7 DEF KindOK, Dead, StreamOnRow, RowThere, RowExpected, CursorClosed
<1>9. AnswerOK /\ ControlOK
  BY DEF Init, Answer, AnswerOK, Tags, ControlOK
<1> QED
  BY <1>3, <1>5, <1>6, <1>7, <1>8, <1>9 DEF StmtInv, Consistent

LEMMA NextInv == StmtInv /\ [Next]_vars => StmtInv'
<1> SUFFICES ASSUME StmtInv, [Next]_vars PROVE StmtInv'
  OBVIOUS
<1>1. CASE Prepare
  BY <1>1, PrepareInv
<1>2. CASE Query
  BY <1>2, QueryInv
<1>3. CASE Execute
  BY <1>3, ExecuteInv
<1>4. CASE FlushRound
  BY <1>4, FlushRoundInv
<1>5. CASE FlushDone
  BY <1>5, FlushDoneInv
<1>6. CASE BindFails
  BY <1>6, BindFailsInv
<1>7. CASE BindAndRun
  BY <1>7, BindAndRunInv
<1>8. ASSUME NEW m \in Moves, Fetch(m[1], m[2]) \/ FetchArray(m[1], m[2])
      PROVE  StmtInv'
  BY <1>8, FetchInv, FetchArrayInv
<1>9. ASSUME NEW i \in 0 .. Fields - 1, GetField(i, "value") \/ GetField(i, "stream")
      PROVE  StmtInv'
  BY <1>9, GetFieldInv
<1>10. CASE StreamClose
  BY <1>10, StreamCloseInv
<1>11. CASE HasRows
  BY <1>11, HasRowsInv
<1>12. CASE NextResult
  BY <1>12, NextResultInv
<1>13. CASE Count("num_rows") \/ Count("rows_affected")
  BY <1>13, CountInv
<1>14. CASE Cancel
  BY <1>14, CancelInv
<1>15. CASE Free
  BY <1>15, FreeInv
<1>16. CASE LoseConnection
  BY <1>16, LoseConnectionInv
<1>17. CASE UNCHANGED vars
  <2>1. stmt' = stmt /\ res' = res /\ odbc' = odbc /\ stream' = stream /\ pc' = pc /\ out' = out
    BY <1>17 DEF vars
  <2> QED
    BY <2>1 DEF StmtInv, AnswerOK, ControlOK
<1> QED
  BY <1>1, <1>2, <1>3, <1>4, <1>5, <1>6, <1>7, <1>8, <1>9, <1>10, <1>11, <1>12, <1>13, <1>14,
     <1>15, <1>16, <1>17 DEF Next

LEMMA Invariance == Spec => []StmtInv
<1>1. Init => StmtInv
  BY InitInv
<1>2. StmtInv /\ [Next]_vars => StmtInv'
  BY NextInv
<1> QED
  BY <1>1, <1>2, PTL DEF Spec

----
(***************************************************************************)
(* The theorems.  A hypothesis names the setting in which the code keeps   *)
(* the promise: client-side buffers break some of them, and so do warnings *)
(* that are returned as errors.                                            *)
(***************************************************************************)

(* The fields of the statement, its result set, the handle and the answers   *)
(* keep their types; the position in a buffer and the one in a server cursor *)
(* never leave the result (hdb_buffered_result_set::fetch, core_hdb_fetch).  *)
THEOREM StatementTypes == Spec => []TypeOK
<1>1. StmtInv => TypeOK
  <2> SUFFICES ASSUME StmtInv PROVE TypeOK
    OBVIOUS
  <2>1. stmt \in Stmts /\ ResultSetOK(res) /\ HandleOK(odbc) /\ stream \in Streams
    BY DEF StmtInv, Consistent
  <2>2. stmt \in [alive : BOOLEAN, cursor_type : CursorTypes, params : {"none", "given", "lost"},
                  prepared : BOOLEAN, executed : BOOLEAN, past_fetch_end : BOOLEAN,
                  fetch_called : BOOLEAN, has_rows : BOOLEAN, past_next_result_end : BOOLEAN,
                  last_field_index : -1 .. Fields - 1]
    BY <2>1 DEF Stmts
  <2>3. /\ res.kind \in {"null", "odbc", "buffered"} /\ res.err \in {"none", "own", "stale"}
        /\ res.kind = "buffered" => res.rows \in -1 .. BufferLimit /\ res.cur \in 0 .. res.rows + 1
    BY <2>1 DEF ResultSetOK, ResultSets
  <2>4. odbc.pos \in 0 .. odbc.rows + 1 /\ odbc.diag \in {"none", "own", "stale"}
    BY <2>1, BoundsAssumption DEF HandleOK, Handles
  <2>5. stream.open \in BOOLEAN
    BY <2>1 DEF Streams
  <2>6. pc \in {"idle", "flush", "bind", "dead"} /\ out.ret \in {"true", "false", "null"}
        /\ out.errs \subseteq {"own", "stale", "custom"}
    BY DEF StmtInv, AnswerOK, ControlOK, Tags
  <2> QED
    BY <2>2, <2>3, <2>4, <2>5, <2>6 DEF TypeOK
<1> QED
  BY <1>1, Invariance, PTL

(* Whenever hdb_get_field may read (fetch_called), there is a row under the  *)
(* cursor.  A relative move by zero off a buffer's rows leaves none, and so  *)
(* may a fetch whose warning was taken for a failure (core_hdb_fetch).       *)
THEOREM FieldsHaveARow ==
  ASSUME "buffered" \in CursorTypes => NoZeroMove,
         WarningsAsErrors => CursorTypes \subseteq {"buffered"}
  PROVE  Spec => []FetchedRowExists
<1>1. StmtInv => FetchedRowExists
  <2> SUFFICES ASSUME StmtInv PROVE FetchedRowExists
    OBVIOUS
  <2>1. /\ stmt \in Stmts /\ res \in ResultSets /\ KindOK(stmt, res) /\ RowThere(stmt, res, odbc)
    BY DEF StmtInv, Consistent, ResultSetOK
  <2>2. res.kind = "buffered" => NoZeroMove
    BY <2>1 DEF Stmts, KindOK, Buffered
  <2>3. res.kind = "odbc" => ~WarningsAsErrors
    BY <2>1 DEF Stmts, KindOK, Buffered
  <2> QED
    BY <2>1, <2>2, <2>3 DEF FetchedRowExists, RowThere, RowExpected, KindOK, ResultSets
<1> QED
  BY <1>1, Invariance, PTL

(* Over a server cursor an open stream stands on the row that it was opened  *)
(* on: whatever moves the handle closes it (core_hdb_fetch, close_active_    *)
(* stream), with failures, warnings and a lost connection included.          *)
THEOREM StreamStaysOnItsRow == Spec => []StreamOnItsRow
<1>1. StmtInv => StreamOnItsRow
  BY DEF StmtInv, Consistent, KindOK, StreamOnRow, StreamOnItsRow, Stmts, Streams
<1> QED
  BY <1>1, Invariance, PTL

(* A function that returned false has reported an error of its own call, not *)
(* just what an earlier call left in the diagnostic area.                    *)
THEOREM FailureIsReported ==
  ASSUME "buffered" \notin CursorTypes
  PROVE  Spec => []OwnErrorReported
<1>1. StmtInv => OwnErrorReported
  <2> SUFFICES ASSUME StmtInv PROVE OwnErrorReported
    OBVIOUS
  <2>1. ~Buffered(stmt)
    BY DEF StmtInv, Consistent, Stmts, Buffered
  <2> QED
    BY <2>1 DEF StmtInv, AnswerOK, Reported, OwnErrorReported
<1> QED
  BY <1>1, Invariance, PTL

(* No order of calls, failures and losses makes a function dereference a     *)
(* null result set or run into HDB_ASSERT.                                   *)
THEOREM ErrorsComeBack ==
  ASSUME "buffered" \notin CursorTypes
  PROVE  Spec => []NeverDies
<1>1. StmtInv => NeverDies
  <2> SUFFICES ASSUME StmtInv PROVE NeverDies
    OBVIOUS
  <2>1. ~Buffered(stmt)
    BY DEF StmtInv, Consistent, Stmts, Buffered
  <2> QED
    BY <2>1 DEF StmtInv, ControlOK, NeverDies
<1> QED
  BY <1>1, Invariance, PTL

(* When hdb_execute is about to run, its loop over old results (or the end   *)
(* that the script reached itself) has left no cursor open.                  *)
THEOREM OldResultsClosed ==
  ASSUME "buffered" \notin CursorTypes, ~WarningsAsErrors
  PROVE  Spec => []CursorClosedBeforeExecute
<1>1. StmtInv => CursorClosedBeforeExecute
  <2> SUFFICES ASSUME StmtInv PROVE CursorClosedBeforeExecute
    OBVIOUS
  <2>1. ~Buffered(stmt)
    BY DEF StmtInv, Consistent, Stmts, Buffered
  <2> QED
    BY <2>1 DEF StmtInv, ControlOK, CursorClosedBeforeExecute
<1> QED
  BY <1>1, Invariance, PTL

----
(***************************************************************************)
(* The order of the rows: that hdb_fetch delivers the row after the one it *)
(* delivered last, whatever calls come in between, and that it keeps what  *)
(* hdb_has_rows promised.  The invariant above says where the cursor may   *)
(* be; the ones below relate it to what the script has seen.               *)
(***************************************************************************)

(* A forward-only cursor o, with the flags of s, against the row seen last:  *)
(* it stands on that row; or, moved by hdb_has_rows, on the first row of a   *)
(* result of which none was seen; or before the first or after the last one. *)
InTurn(s, o, seen) ==
  /\ seen[1] <= o.id
  /\ s.fetch_called => seen = <<o.id, o.pos>>
  /\ ~s.fetch_called /\ s.has_rows /\ ~s.past_fetch_end => o.pos = 1 /\ seen[1] # o.id
  /\ ~s.fetch_called /\ ~s.has_rows /\ o.open =>
       (o.pos = 0 /\ seen[1] # o.id) \/ o.pos > o.rows

Histories == [runs : Nat, fresh : BOOLEAN, seen : Nat \X Nat]

OrderInv == hist \in Histories /\ InTurn(stmt, odbc, hist.seen)

(* Server cursors that only move forward, and no failure that did its work. *)
OneWay == CursorTypes \subseteq {"forward"} /\ ~WarningsAsErrors

(* A call that leaves the cursor and the flags that go with it. *)
SameFlags(s, t) ==
  /\ t.fetch_called = s.fetch_called /\ t.has_rows = s.has_rows
  /\ t.past_fetch_end = s.past_fetch_end

Remains(s, o, t, p) == SameFlags(s, t) /\ Stays(o, p)

(* A call that drops the result for a later one, or for none. *)
Renews(o, t, p) ==
  /\ ~t.fetch_called /\ ~t.has_rows /\ p.id \in Nat /\ p.id >= o.id
  /\ p.open => p.id > o.id /\ p.pos = 0

Keeps(s, o, t, p) == Remains(s, o, t, p) \/ Renews(o, t, p)

LEMMA KeptInTurn ==
  ASSUME NEW s, NEW o, HandleOK(o), NEW seen \in Nat \X Nat, InTurn(s, o, seen),
         NEW t, NEW p, Keeps(s, o, t, p)
  PROVE  InTurn(t, p, seen)
<1>1. seen[1] \in Nat /\ o.id \in Nat
  BY DEF HandleOK, Handles
<1>2. CASE Remains(s, o, t, p)
  BY <1>1, <1>2 DEF Remains, SameFlags, Stays, InTurn
<1>3. CASE Renews(o, t, p)
  BY <1>1, <1>3 DEF Renews, InTurn
<1> QED
  BY <1>2, <1>3 DEF Keeps

(* What only asks or cancels, before or after, changes nothing here. *)
LEMMA KeepsThenStays ==
  ASSUME NEW s, NEW o, NEW t, NEW p, Keeps(s, o, t, p), NEW q, Stays(p, q)
  PROVE  Keeps(s, o, t, q)
BY DEF Keeps, Remains, Renews, Stays

LEMMA StaysThenKeeps ==
  ASSUME NEW s, NEW o, NEW q, Stays(o, q), NEW t, NEW p, Keeps(s, q, t, p)
  PROVE  Keeps(s, o, t, p)
BY DEF Keeps, Remains, Renews, Stays

----
(* Which result and which row the ODBC calls come to. *)

LEMMA MadeCurrent ==
  ASSUME NEW o, HandleOK(o), NEW p \in Accepted(o), NEW r, NEW rest
  PROVE  MakeCurrent(p, r, rest).id = o.id + 1 /\ MakeCurrent(p, r, rest).pos = 0
<1>1. HandleOK(p) /\ p.id = o.id
  BY AcceptedShape DEF Same
<1> QED
  BY <1>1 DEF MakeCurrent, HandleOK, Handles

LEMMA ExecuteRenews ==
  ASSUME NEW o, HandleOK(o), NEW bound, NEW e \in SQLExecute(o, bound), e.ok
  PROVE  e.odbc.id = o.id + 1 /\ e.odbc.pos = 0
<1>1. e.odbc \in Executed(o)
  BY DEF SQLExecute
<1> QED
  BY <1>1, MadeCurrent DEF Executed

LEMMA MoreRenews ==
  ASSUME NEW o, HandleOK(o), NEW m \in SQLMoreResults(o), m.ret = "more"
  PROVE  m.odbc.id = o.id + 1 /\ m.odbc.pos = 0
<1>1. m.odbc \in {MakeCurrent(p, Head(o.rest), Tail(o.rest)) : p \in Accepted(o)}
  BY DEF SQLMoreResults
<1> QED
  BY <1>1, MadeCurrent

(* A forward-only fetch comes to the next row, or past the last one. *)
LEMMA ForwardFetch ==
  ASSUME NEW o, HandleOK(o), ~WarningsAsErrors, NEW forward, forward = TRUE, NEW style, NEW offset,
         NEW f \in SQLFetchScroll(o, forward, style, offset)
  PROVE  /\ f.odbc.id = o.id /\ f.odbc.rows = o.rows /\ f.odbc.open = o.open
         /\ f.ret \in {"row", "no_data", "error"}
         /\ f.ret = "row" => o.open /\ f.odbc.pos = o.pos + 1 /\ o.pos + 1 <= o.rows
         /\ f.ret = "no_data" => f.odbc.pos = o.rows + 1
         /\ f.ret = "error" => Same(o, f.odbc)
<1> DEFINE target == ScrollTarget(o, style, offset)
           stop == IF target < 1 THEN 0 ELSE IF target > o.rows THEN o.rows + 1 ELSE target
           done == {[p EXCEPT !.pos = stop] : p \in Accepted(o)}
<1> HIDE DEF target, stop
<1>1. \A d \in done : d.id = o.id /\ d.rows = o.rows /\ d.open = o.open /\ d.pos = stop
  <2> SUFFICES ASSUME NEW p \in Accepted(o)
               PROVE  LET d == [p EXCEPT !.pos = stop]
                      IN  d.id = o.id /\ d.rows = o.rows /\ d.open = o.open /\ d.pos = stop
    BY DEF done
  <2>1. HandleOK(p) /\ Same(o, p)
    BY AcceptedShape
  <2> QED
    BY <2>1 DEF HandleOK, Handles, Same
<1>2. CASE f.odbc \in Refused(o) /\ f.ret = "error"
  BY <1>2, RefusedShape DEF Same
<1>3. CASE o.open /\ style = "next" /\ f.odbc \in done
           /\ f.ret = IF target \in 1 .. o.rows THEN "row" ELSE "no_data"
  <2>1. target = o.pos + 1 /\ o.pos \in Nat /\ o.rows \in Nat
    BY <1>3, BoundsAssumption DEF target, ScrollTarget, HandleOK, Handles
  <2>2. f.odbc.id = o.id /\ f.odbc.rows = o.rows /\ f.odbc.open = o.open /\ f.odbc.pos = stop
    BY <1>1, <1>3
  <2> HIDE DEF done
  <2> QED
    BY <1>3, <2>1, <2>2 DEF stop
<1>4. CASE /\ f.odbc \in Failed(o, {d \in done : target \in 1 .. o.rows})
           /\ o.open /\ f.ret = "error"
  <2> DEFINE marked(q) == [q EXCEPT !.diag = "own", !.faults = @ + 1]
  <2>1. CASE o.lost
    BY <1>4, <2>1, RefusedShape DEF Failed, Same
  <2>2. CASE ~o.lost
    <3>1. f.odbc = marked(o)
      BY <1>4, <2>2 DEF Failed
    <3>2. Same(o, f.odbc)
      BY <3>1 DEF HandleOK, Handles, Same
    <3> QED
      BY <1>4, <3>2 DEF Same
  <2> QED
    BY <2>1, <2>2
<1> HIDE DEF done
<1>5. CASE ~o.open \/ ~o.cols \/ (forward /\ style # "next")
  BY <1>2, <1>5 DEF SQLFetchScroll
<1>6. CASE o.open /\ style = "next"
  BY <1>3, <1>4, <1>2, <1>6 DEF SQLFetchScroll, target, stop, done
<1> QED
  BY <1>5, <1>6

----
(***************************************************************************)
(* One way: the core_ functions, but for those that fetch, leave the       *)
(* cursor alone or renew it.                                               *)
(***************************************************************************)

LEMMA OneWayStatement ==
  ASSUME OneWay, StmtInv
  PROVE  /\ stmt \in Stmts /\ stmt.cursor_type = "forward" /\ ~Buffered(stmt)
         /\ HandleOK(odbc) /\ HandleOK(odbc0) /\ Same(odbc, odbc0) /\ Stays(odbc, odbc0)
         /\ res.kind # "buffered" /\ res0.kind # "buffered"
         /\ \A o : \A n \in NewResultSet(o) : n.odbc = o /\ n.err = "none"
<1>1. stmt \in Stmts /\ stmt.cursor_type = "forward" /\ ~Buffered(stmt) /\ HandleOK(odbc)
  BY DEF OneWay, StmtInv, Consistent, Stmts, Buffered
<1>2. HandleOK(odbc0) /\ Same(odbc, odbc0) /\ Stays(odbc, odbc0) /\ res0.kind = res.kind
  BY CallBegins, SameStays DEF SameRows
<1>3. res.kind # "buffered"
  BY <1>1 DEF StmtInv, Consistent, KindOK
<1>4. \A o : \A n \in NewResultSet(o) : n.odbc = o /\ n.err = "none"
  BY <1>1 DEF NewResultSet, Buffered
<1> QED
  BY <1>1, <1>2, <1>3, <1>4

LEMMA AbandonKeeps ==
  ASSUME NEW s, NEW o, NEW t, NEW p, HandleOK(p), Keeps(s, o, t, p), NEW r, NEW errs,
         NEW f \in Abandon(t, r, p, errs)
  PROVE  Keeps(s, o, f.stmt, f.odbc)
<1>1. PICK q \in IF t.executed THEN SQLCancel(p) ELSE {p} :
        f = Outcome(t, r, q, NoStream, "error", errs)
  BY DEF Abandon
<1>2. Stays(p, q)
  BY <1>1, CancelShape DEF Stays
<1> QED
  BY <1>1, <1>2, KeepsThenStays DEF Outcome

LEMMA CoreExecuteKeeps ==
  ASSUME OneWay, StmtInv, NEW s \in Stmts, NEW o, HandleOK(o), NEW f \in CoreExecute(s, o)
  PROVE  Keeps(s, o, f.stmt, f.odbc)
<1> DEFINE ran == [ResetFlags(s) EXCEPT !.executed = TRUE]
<1>1. PICK e \in SQLExecute(o, s.params # "lost") :
        IF e.ok
        THEN f \in UNION { IF n.err # "none"
                           THEN Abandon(ResetFlags(s), n.res, n.odbc, ErrorsOf(n))
                           ELSE {Outcome(ran, n.res, p, NoStream, "row", {}) : p \in HasAnyResult(n.odbc)}
                                  \cup UNION {Abandon(ran, n.res, p, Diagnostics(n.res, p)) :
                                                p \in Failed(n.odbc, {})} :
                           n \in NewResultSet(e.odbc) }
        ELSE f \in Abandon(s, res0, e.odbc, Diagnostics(res0, e.odbc))
  BY DEF CoreExecute
<1>2. ~ran.fetch_called /\ ~ran.has_rows
  <2>1. ResetFlags(s) \in Stmts /\ ~ResetFlags(s).fetch_called /\ ~ResetFlags(s).has_rows
    BY ResetShape
  <2>2. ran.fetch_called = ResetFlags(s).fetch_called /\ ran.has_rows = ResetFlags(s).has_rows
    BY <2>1 DEF Stmts
  <2> HIDE DEF ran
  <2> QED
    BY <2>1, <2>2
<1> HIDE DEF ran
<1>3. HandleOK(e.odbc) /\ (~e.ok => Stays(o, e.odbc))
  BY ExecuteShape DEF OneWay
<1>4. CASE ~e.ok
  <2>1. f \in Abandon(s, res0, e.odbc, Diagnostics(res0, e.odbc))
    BY <1>1, <1>4
  <2>2. Keeps(s, o, s, e.odbc)
    BY <1>3, <1>4 DEF Keeps, Remains, SameFlags
  <2> QED
    BY <1>3, <2>1, <2>2, AbandonKeeps
<1>5. CASE e.ok
  <2>1. PICK n \in NewResultSet(e.odbc) :
          f \in IF n.err # "none"
                THEN Abandon(ResetFlags(s), n.res, n.odbc, ErrorsOf(n))
                ELSE {Outcome(ran, n.res, p, NoStream, "row", {}) : p \in HasAnyResult(n.odbc)}
                       \cup UNION {Abandon(ran, n.res, p, Diagnostics(n.res, p)) :
                                     p \in Failed(n.odbc, {})}
    BY <1>1, <1>5
  <2>2. n.odbc = e.odbc /\ n.err = "none"
    BY <2>1, OneWayStatement
  <2>3. ASSUME NEW p, HandleOK(p), Same(e.odbc, p)
        PROVE  Keeps(s, o, ran, p)
    <3>1. p.id = o.id + 1 /\ p.pos = 0
      BY <1>5, <2>3, ExecuteRenews DEF Same
    <3>2. p.id \in Nat /\ o.id \in Nat
      BY <2>3 DEF HandleOK, Handles
    <3> QED
      BY <1>2, <3>1, <3>2 DEF Keeps, Renews
  <2>4. \A p \in HasAnyResult(n.odbc) : HandleOK(p) /\ Same(e.odbc, p)
    BY <1>3, <2>2, AcceptedShape, FailedShape DEF HasAnyResult
  <2>5. ASSUME NEW p \in HasAnyResult(n.odbc), f = Outcome(ran, n.res, p, NoStream, "row", {})
        PROVE  Keeps(s, o, f.stmt, f.odbc)
    BY <2>3, <2>4, <2>5 DEF Outcome
  <2>6. ASSUME NEW p \in Failed(n.odbc, {}), f \in Abandon(ran, n.res, p, Diagnostics(n.res, p))
        PROVE  Keeps(s, o, f.stmt, f.odbc)
    <3>1. HandleOK(p) /\ Keeps(s, o, ran, p)
      BY <2>3, <2>4 DEF HasAnyResult
    <3> QED
      BY <2>6, <3>1, AbandonKeeps
  <2> QED
    BY <2>1, <2>2, <2>5, <2>6
<1> QED
  BY <1>4, <1>5

(* Another result, whether the call for it said so or failed. *)
LEMMA NextResultKeeps ==
  ASSUME OneWay, StmtInv, NEW o, HandleOK(o), Stays(odbc, o), NEW m \in SQLMoreResults(o)
  PROVE  /\ HandleOK(m.odbc) /\ m.ret \in {"end", "error", "more"}
         /\ m.ret # "more" => Keeps(stmt, odbc, stmt, m.odbc)
         /\ m.ret # "end" => Keeps(stmt, odbc, ResetFlags(stmt), m.odbc)
<1>1. /\ HandleOK(m.odbc) /\ m.ret \in {"end", "error", "more"}
      /\ m.ret # "more" => Stays(o, m.odbc)
      /\ m.ret = "error" => ~m.odbc.open
  BY MoreResultsShape DEF OneWay
<1>2. m.ret = "more" => m.odbc.id = o.id + 1 /\ m.odbc.pos = 0
  BY MoreRenews
<1>3. m.odbc.id \in Nat /\ o.id = odbc.id /\ odbc.id \in Nat
  BY <1>1 DEF Stays, StmtInv, Consistent, HandleOK, Handles
<1>4. ~ResetFlags(stmt).fetch_called /\ ~ResetFlags(stmt).has_rows
  BY ResetShape DEF StmtInv, Consistent
<1>5. m.ret # "more" => Keeps(stmt, odbc, stmt, m.odbc)
  BY <1>1 DEF Stays, Keeps, Remains, SameFlags
<1>6. m.ret # "end" => Renews(odbc, ResetFlags(stmt), m.odbc)
  BY <1>1, <1>2, <1>3, <1>4 DEF Renews, Stays
<1> QED
  BY <1>1, <1>5, <1>6 DEF Keeps

LEMMA PastEndKeeps ==
  ASSUME StmtInv, NEW p, Keeps(stmt, odbc, stmt, p)
  PROVE  Keeps(stmt, odbc, PastEnd, p)
<1>1. SameFlags(stmt, PastEnd)
  BY DEF StmtInv, Consistent, Stmts, PastEnd, SameFlags
<1> QED
  BY <1>1 DEF Keeps, Remains, Renews, SameFlags

LEMMA NextResultUncheckedKeeps ==
  ASSUME OneWay, StmtInv, NEW f \in NextResultUnchecked
  PROVE  Keeps(stmt, odbc, f.stmt, f.odbc)
<1>1. HandleOK(odbc) /\ Stays(odbc, odbc)
  BY DEF StmtInv, Consistent, Stays
<1>2. PICK m \in SQLMoreResults(odbc) :
        f \in IF m.ret = "end"
              THEN {Outcome([stmt EXCEPT !.past_next_result_end = TRUE], res, m.odbc, NoStream, "row", {})}
              ELSE UNION { IF n.err = "none"
                           THEN {Outcome(ResetFlags(stmt), n.res, n.odbc, NoStream, "row", {})}
                           ELSE {Outcome(ResetFlags(stmt), n.res, o, NoStream, "error", ErrorsOf(n)) :
                                   o \in SQLCancel(n.odbc)} :
                           n \in NewResultSet(m.odbc) }
  BY DEF NextResultUnchecked
<1>3. /\ m.ret \in {"end", "error", "more"}
      /\ m.ret # "more" => Keeps(stmt, odbc, stmt, m.odbc)
      /\ m.ret # "end" => Keeps(stmt, odbc, ResetFlags(stmt), m.odbc)
  BY <1>1, NextResultKeeps
<1>4. CASE m.ret = "end"
  <2>1. f = Outcome(PastEnd, res, m.odbc, NoStream, "row", {})
    BY <1>2, <1>4 DEF PastEnd
  <2>2. Keeps(stmt, odbc, PastEnd, m.odbc)
    BY <1>3, <1>4, PastEndKeeps
  <2> QED
    BY <2>1, <2>2 DEF Outcome
<1>5. CASE m.ret # "end"
  <2>1. PICK n \in NewResultSet(m.odbc) :
          f \in IF n.err = "none"
                THEN {Outcome(ResetFlags(stmt), n.res, n.odbc, NoStream, "row", {})}
                ELSE {Outcome(ResetFlags(stmt), n.res, o, NoStream, "error", ErrorsOf(n)) :
                        o \in SQLCancel(n.odbc)}
    BY <1>2, <1>5
  <2>2. n.odbc = m.odbc /\ n.err = "none"
    BY <2>1, OneWayStatement
  <2> QED
    BY <1>3, <1>5, <2>1, <2>2 DEF Outcome
<1> QED
  BY <1>4, <1>5

LEMMA CancelAfterKeeps ==
  ASSUME NEW s, NEW o, NEW t, NEW p, HandleOK(p), Keeps(s, o, t, p), NEW r, NEW st, NEW errs,
         NEW f \in CancelAfter(t, r, p, st, errs)
  PROVE  Keeps(s, o, f.stmt, f.odbc)
<1>1. PICK q \in SQLCancel(p) : f = Outcome(t, r, q, st, "error", errs)
  BY DEF CancelAfter
<1>2. Stays(p, q)
  BY CancelShape
<1> QED
  BY <1>1, <1>2, KeepsThenStays DEF Outcome

LEMMA CoreNextResultKeeps ==
  ASSUME OneWay, StmtInv, NEW f \in CoreNextResult
  PROVE  Keeps(stmt, odbc, f.stmt, f.odbc)
<1>1. HandleOK(odbc0) /\ Stays(odbc, odbc0)
  BY OneWayStatement
<1>2. Keeps(stmt, odbc, stmt, odbc0)
  BY <1>1 DEF Keeps, Remains, SameFlags
<1>3. CASE ~stmt.executed \/ stmt.past_next_result_end
  <2>1. f \in CancelAfter(stmt, res0, odbc0, stream, Refusal.errs)
    BY <1>3 DEF CoreNextResult
  <2> QED
    BY <1>1, <1>2, <2>1, CancelAfterKeeps
<1>4. CASE stmt.executed /\ ~stmt.past_next_result_end
  <2> DEFINE moved(m) ==
        UNION { IF n.err = "none"
                THEN {Outcome(ResetFlags(stmt), n.res, n.odbc, NoStream, "row", {})}
                ELSE CancelAfter(ResetFlags(stmt), n.res, n.odbc, NoStream, ErrorsOf(n)) :
                n \in NewResultSet(m.odbc) }
  <2>1. PICK m \in SQLMoreResults(odbc0) :
          f \in CASE m.ret = "end" ->
                       {Outcome([stmt EXCEPT !.past_next_result_end = TRUE], res0, m.odbc, NoStream,
                                "no_data", {})}
                  [] m.ret = "error" ->
                       CancelAfter(stmt, res0, m.odbc, NoStream, Diagnostics(res0, m.odbc))
                  [] m.ret = "more" -> moved(m)
    BY <1>4 DEF CoreNextResult
  <2> HIDE DEF moved
  <2>2. /\ HandleOK(m.odbc) /\ m.ret \in {"end", "error", "more"}
        /\ m.ret # "more" => Keeps(stmt, odbc, stmt, m.odbc)
        /\ m.ret # "end" => Keeps(stmt, odbc, ResetFlags(stmt), m.odbc)
    BY <1>1, NextResultKeeps
  <2>3. CASE m.ret = "end"
    <3>1. f = Outcome(PastEnd, res0, m.odbc, NoStream, "no_data", {})
      BY <2>1, <2>3 DEF PastEnd
    <3>2. Keeps(stmt, odbc, PastEnd, m.odbc)
      BY <2>2, <2>3, PastEndKeeps
    <3> QED
      BY <3>1, <3>2 DEF Outcome
  <2>4. CASE m.ret = "error"
    <3>1. f \in CancelAfter(stmt, res0, m.odbc, NoStream, Diagnostics(res0, m.odbc))
      BY <2>1, <2>4
    <3> QED
      BY <2>2, <2>4, <3>1, CancelAfterKeeps
  <2>5. CASE m.ret = "more"
    <3>1. PICK n \in NewResultSet(m.odbc) :
            f \in IF n.err = "none"
                  THEN {Outcome(ResetFlags(stmt), n.res, n.odbc, NoStream, "row", {})}
                  ELSE CancelAfter(ResetFlags(stmt), n.res, n.odbc, NoStream, ErrorsOf(n))
      BY <2>1, <2>5 DEF moved
    <3>2. n.odbc = m.odbc /\ n.err = "none"
      BY <3>1, OneWayStatement
    <3> QED
      BY <2>2, <2>5, <3>1, <3>2 DEF Outcome
  <2> QED
    BY <2>2, <2>3, <2>4, <2>5
<1> QED
  BY <1>3, <1>4


LEMMA FlagsOfIndex ==
  ASSUME NEW s \in Stmts, NEW i
  PROVE  SameFlags(s, [s EXCEPT !.last_field_index = i])
BY DEF Stmts, SameFlags

LEMMA CoreGetFieldRemains ==
  ASSUME StmtInv, NEW i, NEW type, NEW f \in CoreGetField(i, type)
  PROVE  Remains(stmt, odbc, f.stmt, f.odbc)
<1>1. HandleOK(odbc0) /\ Same(odbc, odbc0) /\ ResultSetOK(res0) /\ stmt \in Stmts
  BY CallBegins DEF StmtInv, Consistent, SameRows
<1>2. SameFlags(stmt, stmt) /\ SameFlags(stmt, FieldRead(i))
  BY <1>1, FlagsOfIndex DEF SameFlags, FieldRead
<1>3. PICK c \in SQLNumResultCols(odbc0) :
        f \in IF ~c.ok
              THEN {Outcome(stmt, res0, c.odbc, stream, "error", Diagnostics(res0, c.odbc))}
              ELSE IF ~c.ret
              THEN {Outcome(stmt, res0, c.odbc, stream, "error", CustomError(res0, c.odbc))}
              ELSE IF FieldRefused(i)
              THEN {Outcome(stmt, res0, c.odbc, NoStream, "error", CustomError(res0, c.odbc))}
              ELSE IF type = "stream" THEN GetStream(c.odbc, i) ELSE GetValue(c.odbc, i)
  BY DEF CoreGetField
<1>4. HandleOK(c.odbc) /\ Same(odbc, c.odbc) /\ Stays(odbc, c.odbc)
  BY <1>1, NumResultColsShape DEF Asks, Same, Stays
<1>5. CASE ~c.ok \/ ~c.ret \/ FieldRefused(i)
  BY <1>2, <1>3, <1>4, <1>5 DEF Outcome, Remains
<1>6. CASE c.ok /\ c.ret /\ ~FieldRefused(i) /\ type = "stream"
  <2>1. f \in GetStream(c.odbc, i)
    BY <1>3, <1>6
  <2>2. PICK a \in SQLColAttribute(c.odbc) :
          f.odbc = a.odbc /\ f.stmt \in {stmt, FieldRead(i)}
    BY <2>1 DEF GetStream, Outcome
  <2>3. Stays(odbc, a.odbc)
    BY <1>4, ColAttributeShape DEF Asks, Same, Stays
  <2> QED
    BY <1>2, <2>2, <2>3 DEF Remains
<1>7. CASE c.ok /\ c.ret /\ ~FieldRefused(i) /\ type # "stream"
  <2>1. f \in GetValue(c.odbc, i)
    BY <1>3, <1>7
  <2>2. PICK v \in ReadField(res0, c.odbc) :
          f.odbc = v.odbc /\ f.stmt \in {stmt, FieldRead(i)}
    BY <2>1 DEF GetValue, Outcome
  <2>3. Stays(odbc, v.odbc)
    BY <1>1, <1>4, ReadFieldShape DEF Same, Stays
  <2> QED
    BY <1>2, <2>2, <2>3 DEF Remains
<1> QED
  BY <1>5, <1>6, <1>7

(* The fields of a row: what hdb_fetch_array reads after it has fetched. *)
LEMMA ReadRowRemains ==
  ASSUME NEW f, f.stmt \in Stmts, HandleOK(f.odbc), ResultSetOK(f.res), NEW g \in ReadRow(f)
  PROVE  Remains(f.stmt, f.odbc, g.stmt, g.odbc)
<1> DEFINE upto(i) == [f.stmt EXCEPT !.last_field_index = i]
           value(v) == Outcome(upto(Fields - 1), v.res, v.odbc, NoStream, "row", {})
           lost(v, i) == Outcome(upto(i), v.res, v.odbc, NoStream, v.ret, Diagnostics(v.res, v.odbc))
           all(c) == { IF v.ret = "value" THEN {value(v)} ELSE {lost(v, i) : i \in -1 .. Fields - 2} :
                         v \in ReadField(f.res, c.odbc) }
<1>1. \A i : SameFlags(f.stmt, upto(i))
  BY FlagsOfIndex
<1> HIDE DEF upto
<1>2. PICK c \in SQLNumResultCols(f.odbc) :
        g \in IF ~c.ok
              THEN {Outcome(f.stmt, f.res, c.odbc, NoStream, "error", Diagnostics(f.res, c.odbc))}
              ELSE IF ~c.ret THEN {Outcome(f.stmt, f.res, c.odbc, NoStream, "row", {})}
              ELSE UNION all(c)
  BY DEF ReadRow, upto
<1>3. HandleOK(c.odbc) /\ Same(f.odbc, c.odbc)
  BY NumResultColsShape DEF Asks
<1>4. CASE ~c.ok \/ ~c.ret
  BY <1>2, <1>3, <1>4 DEF Outcome, Remains, SameFlags, Same, Stays
<1>5. CASE c.ok /\ c.ret
  <2>1. PICK v \in ReadField(f.res, c.odbc) :
          g \in IF v.ret = "value" THEN {value(v)} ELSE {lost(v, i) : i \in -1 .. Fields - 2}
    BY <1>2, <1>5
  <2>2. g.odbc = v.odbc /\ \E i : g.stmt = upto(i)
    BY <2>1 DEF Outcome
  <2>3. Stays(f.odbc, v.odbc)
    BY <1>3, ReadFieldShape DEF Same, Stays
  <2> QED
    BY <1>1, <2>2, <2>3 DEF Remains
<1> QED
  BY <1>4, <1>5

LEMMA CoreCountRemains ==
  ASSUME StmtInv, NEW call, NEW f \in CoreCount(call)
  PROVE  f.stmt = stmt /\ Remains(stmt, odbc, f.stmt, f.odbc)
<1>1. HandleOK(odbc0) /\ Same(odbc, odbc0) /\ res.kind \in {"null", "odbc", "buffered"}
  BY CallBegins DEF StmtInv, Consistent, ResultSetOK, ResultSets
<1>2. f.stmt = stmt /\ (f.odbc = odbc0 \/ \E c \in OnResult(odbc0) : f.odbc = c.odbc)
  BY <1>1 DEF CoreCount, Refusal, Outcome
<1>3. Stays(odbc, f.odbc)
  BY <1>1, <1>2, OnResultShape DEF Asks, Same, Stays
<1> QED
  BY <1>2, <1>3 DEF Remains, SameFlags

----
(***************************************************************************)
(* Fetching.                                                               *)
(***************************************************************************)

LEMMA FlagsOfHasRows ==
  ASSUME StmtInv, NEW value \in BOOLEAN
  PROVE  /\ HasRowsAs(value) \in Stmts /\ HasRowsAs(value).has_rows = value
         /\ HasRowsAs(value).fetch_called = stmt.fetch_called
         /\ HasRowsAs(value).past_fetch_end = stmt.past_fetch_end
<1> DEFINE s == HasRowsAs(value)
<1>1. stmt \in Stmts
  BY DEF StmtInv, Consistent
<1>2. s \in Stmts /\ s.has_rows = value
  BY <1>1 DEF HasRowsAs, Stmts
<1>3. s.fetch_called = stmt.fetch_called /\ s.past_fetch_end = stmt.past_fetch_end
  BY <1>1 DEF HasRowsAs, Stmts
<1> HIDE DEF s
<1> QED
  BY <1>2, <1>3 DEF s

(* hdb_has_rows moves a forward-only cursor once, to the first row. *)
LEMMA ProbeInTurn ==
  ASSUME OneWay, StmtInv, ~stmt.has_rows, ~stmt.fetch_called,
         NEW seen \in Nat \X Nat, InTurn(stmt, odbc, seen),
         NEW o, HandleOK(o), Same(odbc, o), NEW g \in ProbeForward(o)
  PROVE  InTurn(g.stmt, g.odbc, seen)
<1>1. PICK f \in SQLFetchScroll(o, TRUE, "next", 0) :
        g = Outcome(HasRowsAs(f.ret = "row"), res0, f.odbc, stream, f.ret,
                    IF f.ret = "error" THEN Diagnostics(res0, f.odbc) ELSE {})
  BY DEF ProbeForward
<1>2. /\ f.odbc.id = o.id /\ f.odbc.rows = o.rows /\ f.odbc.open = o.open
      /\ f.ret \in {"row", "no_data", "error"}
      /\ f.ret = "row" => o.open /\ f.odbc.pos = o.pos + 1 /\ o.pos + 1 <= o.rows
      /\ f.ret = "no_data" => f.odbc.pos = o.rows + 1
      /\ f.ret = "error" => Same(o, f.odbc)
  <2> DEFINE forward == TRUE
  <2>1. f \in SQLFetchScroll(o, forward, "next", 0) /\ forward = TRUE
    OBVIOUS
  <2> HIDE DEF forward
  <2> QED
    BY <2>1, ForwardFetch DEF OneWay
<1>3. g.odbc = f.odbc /\ ~g.stmt.fetch_called /\ (g.stmt.has_rows <=> f.ret = "row")
  <2> DEFINE found == f.ret = "row"
  <2>0. found \in BOOLEAN
        /\ g = Outcome(HasRowsAs(found), res0, f.odbc, stream, f.ret,
                       IF f.ret = "error" THEN Diagnostics(res0, f.odbc) ELSE {})
    BY <1>1
  <2> HIDE DEF found
  <2>1. g.stmt = HasRowsAs(found) /\ g.odbc = f.odbc
    BY <2>0 DEF Outcome
  <2>2. g.stmt.has_rows = found /\ g.stmt.fetch_called = stmt.fetch_called
    BY <2>0, <2>1, FlagsOfHasRows
  <2> QED
    BY <2>1, <2>2 DEF found
<1>4. o.id \in Nat /\ o.pos \in Nat /\ o.rows \in Nat /\ o.id = odbc.id /\ seen[1] <= o.id
  BY BoundsAssumption DEF HandleOK, Handles, Same, InTurn
<1>5. o.open => (o.pos = 0 /\ seen[1] # o.id) \/ o.pos > o.rows
  BY DEF InTurn, Same
<1>6. CASE f.ret = "row"
  BY <1>1, <1>2, <1>3, <1>4, <1>5, <1>6 DEF InTurn
<1>7. CASE f.ret = "no_data"
  BY <1>1, <1>2, <1>3, <1>4, <1>7 DEF InTurn
<1>8. CASE f.ret = "error"
  BY <1>1, <1>2, <1>3, <1>4, <1>5, <1>8 DEF InTurn, Same
<1> QED
  BY <1>2, <1>6, <1>7, <1>8

LEMMA CoreHasRowsInTurn ==
  ASSUME OneWay, StmtInv, NEW seen \in Nat \X Nat, InTurn(stmt, odbc, seen), NEW f \in CoreHasRows
  PROVE  InTurn(f.stmt, f.odbc, seen)
<1>1. /\ stmt \in Stmts /\ HandleOK(odbc) /\ HandleOK(odbc0) /\ Same(odbc, odbc0)
      /\ stmt.cursor_type = "forward"
  BY OneWayStatement
<1>2. ASSUME NEW o, Same(odbc, o), f.odbc = o, SameFlags(stmt, f.stmt)
      PROVE  InTurn(f.stmt, f.odbc, seen)
  BY <1>1, <1>2, SameStays, KeptInTurn DEF Keeps, Remains
<1>3. CASE ~stmt.executed \/ stmt.has_rows \/ stmt.fetch_called
  <2>1. f.stmt = stmt /\ f.odbc = odbc0
    BY <1>3 DEF CoreHasRows, Refusal, Outcome
  <2> QED
    BY <1>1, <1>2, <2>1 DEF SameFlags
<1>4. CASE stmt.executed /\ ~stmt.has_rows /\ ~stmt.fetch_called
  <2> DEFINE value == FALSE
             same == HasRowsAs(value)
  <2>0. stmt.has_rows = value /\ value \in BOOLEAN
    BY <1>1, <1>4 DEF Stmts
  <2>1. PICK c \in SQLNumResultCols(odbc0) :
          f \in IF ~c.ok
                THEN {Outcome(same, res0, c.odbc, stream, "error", Diagnostics(res0, c.odbc))}
                ELSE IF ~c.ret THEN {Outcome(same, res0, c.odbc, stream, "no_data", {})}
                ELSE IF stmt.cursor_type = "forward" THEN ProbeForward(c.odbc)
                ELSE ProbeScrollable(c.odbc)
    BY <1>4 DEF CoreHasRows, DetermineHasRows
  <2> HIDE DEF value
  <2>5. SameFlags(stmt, same)
    BY <2>0, FlagsOfHasRows DEF SameFlags
  <2> HIDE DEF same
  <2>2. HandleOK(c.odbc) /\ Same(odbc, c.odbc)
    BY <1>1, NumResultColsShape DEF Asks, Same
  <2>3. CASE ~c.ok \/ ~c.ret
    <3>1. f.stmt = same /\ f.odbc = c.odbc
      BY <2>1, <2>3 DEF Outcome
    <3> QED
      BY <1>2, <2>2, <2>5, <3>1
  <2>4. CASE c.ok /\ c.ret
    <3>1. f \in ProbeForward(c.odbc)
      BY <1>1, <2>1, <2>4
    <3> QED
      BY <1>4, <2>2, <3>1, ProbeInTurn
  <2> QED
    BY <2>3, <2>4
<1> QED
  BY <1>3, <1>4


(* The row that a fetch comes to follows the row seen before it. *)
Succeeds(f, seen) ==
  /\ RowOf(f.res, f.odbc) = <<f.odbc.id, f.odbc.pos>>
  /\ f.odbc.id \in Nat /\ f.odbc.pos = 1 + (IF seen[1] = f.odbc.id THEN seen[2] ELSE 0)
  /\ f.stmt \in Stmts /\ f.stmt.fetch_called

LEMMA MoveSucceeds ==
  ASSUME OneWay, StmtInv, NEW seen \in Nat \X Nat, InTurn(stmt, odbc, seen), ~Prefetched,
         NEW o, HandleOK(o), Same(odbc, o), NEW style, NEW offset,
         NEW f \in MoveCursor(o, style, offset)
  PROVE  /\ f.ret = "row" => Succeeds(f, seen)
         /\ f.ret # "row" => InTurn(f.stmt, f.odbc, seen)
<1>1. /\ stmt \in Stmts /\ stmt.cursor_type = "forward" /\ res.kind # "buffered"
      /\ stmt.fetch_called \/ ~stmt.has_rows
  BY OneWayStatement DEF Prefetched
<1>2. PICK g \in ResultsFetch(o, style, offset) :
        f = CASE g.ret = "row"     -> Outcome(AfterRow(stmt), g.res, g.odbc, NoStream, "row", {})
              [] g.ret = "no_data" -> Outcome(AfterNoData(stmt), g.res, g.odbc, NoStream, "no_data", {})
              [] g.ret = "error"   -> Outcome(stmt, g.res, g.odbc, NoStream, "error",
                                              Diagnostics(g.res, g.odbc))
  BY DEF MoveCursor
<1>3. PICK d \in SQLFetchScroll(o, stmt.cursor_type = "forward", style,
                                Buffer!ResultSetOffset(style, offset)) :
        g = [odbc |-> d.odbc, res |-> res, ret |-> d.ret]
  BY <1>1 DEF ResultsFetch
<1>4. /\ g.odbc.id = o.id /\ g.odbc.rows = o.rows /\ g.odbc.open = o.open
      /\ g.ret \in {"row", "no_data", "error"} /\ g.res = res
      /\ g.ret = "row" => o.open /\ g.odbc.pos = o.pos + 1 /\ o.pos + 1 <= o.rows
      /\ g.ret = "no_data" => g.odbc.pos = o.rows + 1
      /\ g.ret = "error" => Same(o, g.odbc)
  <2> DEFINE forward == stmt.cursor_type = "forward"
             distance == Buffer!ResultSetOffset(style, offset)
  <2>1. d \in SQLFetchScroll(o, forward, style, distance) /\ forward = TRUE
    BY <1>1
  <2> HIDE DEF forward, distance
  <2>2. /\ d.odbc.id = o.id /\ d.odbc.rows = o.rows /\ d.odbc.open = o.open
        /\ d.ret \in {"row", "no_data", "error"}
        /\ d.ret = "row" => o.open /\ d.odbc.pos = o.pos + 1 /\ o.pos + 1 <= o.rows
        /\ d.ret = "no_data" => d.odbc.pos = o.rows + 1
        /\ d.ret = "error" => Same(o, d.odbc)
    BY <2>1, ForwardFetch DEF OneWay
  <2> QED
    BY <1>3, <2>2
<1>5. /\ o.id \in Nat /\ o.pos \in Nat /\ o.rows \in Nat
      /\ o.id = odbc.id /\ o.pos = odbc.pos /\ o.open = odbc.open /\ o.rows = odbc.rows
      /\ seen[1] \in Nat /\ seen[1] <= o.id
  BY BoundsAssumption DEF HandleOK, Handles, Same, InTurn
<1>6. CASE g.ret = "row"
  <2> DEFINE s == AfterRow(stmt)
  <2>1. f = Outcome(s, g.res, g.odbc, NoStream, "row", {})
    BY <1>2, <1>6
  <2>2. s \in Stmts /\ s.fetch_called = TRUE
    <3>1. -1 \in -1 .. Fields - 1
      BY FieldsAssumption
    <3> QED
      BY <1>1, <3>1 DEF AfterRow, Stmts
  <2> HIDE DEF s
  <2>3. CASE stmt.fetch_called
    <3>1. seen = <<o.id, o.pos>>
      BY <1>5, <2>3 DEF InTurn
    <3> QED
      BY <1>1, <1>4, <1>5, <1>6, <2>1, <2>2, <3>1 DEF Outcome, RowOf, Succeeds
  <2>4. CASE ~stmt.fetch_called
    <3>1. o.pos = 0 /\ seen[1] # o.id
      BY <1>1, <1>4, <1>5, <1>6, <2>4 DEF InTurn
    <3> QED
      BY <1>1, <1>4, <1>5, <1>6, <2>1, <2>2, <3>1 DEF Outcome, RowOf, Succeeds
  <2> QED
    BY <2>1, <2>3, <2>4 DEF Outcome
<1>7. CASE g.ret = "no_data"
  <2>1. f = Outcome(AfterNoData(stmt), g.res, g.odbc, NoStream, "no_data", {})
    BY <1>2, <1>7
  <2>2. ~AfterNoData(stmt).fetch_called /\ AfterNoData(stmt).past_fetch_end
    BY <1>1 DEF AfterNoData, Stmts
  <2>3. InTurn(AfterNoData(stmt), g.odbc, seen)
    BY <1>4, <1>5, <1>7, <2>2 DEF InTurn
  <2> QED
    BY <2>1, <2>3 DEF Outcome
<1>8. CASE g.ret = "error"
  <2>1. f = Outcome(stmt, g.res, g.odbc, NoStream, "error", Diagnostics(g.res, g.odbc))
    BY <1>2, <1>8
  <2>2. InTurn(stmt, g.odbc, seen)
    BY <1>4, <1>8 DEF InTurn, Same
  <2> QED
    BY <2>1, <2>2 DEF Outcome
<1> QED
  BY <1>4, <1>6, <1>7, <1>8

LEMMA CoreFetchSucceeds ==
  ASSUME OneWay, StmtInv, NEW seen \in Nat \X Nat, InTurn(stmt, odbc, seen),
         NEW style, NEW offset, NEW f \in CoreFetch(style, offset)
  PROVE  /\ f.ret = "row" => Succeeds(f, seen)
         /\ f.ret # "row" => InTurn(f.stmt, f.odbc, seen)
<1>1. /\ stmt \in Stmts /\ HandleOK(odbc) /\ HandleOK(odbc0) /\ Same(odbc, odbc0)
      /\ res0.kind # "buffered"
  BY OneWayStatement
<1>2. \A o : Same(odbc, o) => InTurn(stmt, o, seen)
  BY <1>1, SameStays, KeptInTurn DEF Keeps, Remains, SameFlags
<1>3. CASE ~stmt.executed \/ stmt.past_fetch_end
  <2>1. f = Refusal
    BY <1>3 DEF CoreFetch
  <2> QED
    BY <1>1, <1>2, <2>1 DEF Refusal, Outcome
<1>4. CASE stmt.executed /\ ~stmt.past_fetch_end
  <2>1. PICK c \in ColumnsBeforeFetch :
          f \in IF ~c.ok
                THEN {Outcome(stmt, res0, c.odbc, stream, "error", Diagnostics(res0, c.odbc))}
                ELSE IF ~c.ret
                THEN {Outcome(stmt, res0, c.odbc, stream, "error", CustomError(res0, c.odbc))}
                ELSE IF Prefetched
                THEN {Outcome([stmt EXCEPT !.fetch_called = TRUE], res0, c.odbc, NoStream, "row", {})}
                ELSE IF res.kind = "null"
                THEN {Outcome(stmt, res0, c.odbc, NoStream, "dead", {})}
                ELSE MoveCursor(c.odbc, style, offset)
    BY <1>4 DEF CoreFetch
  <2>2. HandleOK(c.odbc) /\ Same(odbc, c.odbc)
    <3>1. CASE stmt.fetch_called
      BY <1>1, <3>1 DEF ColumnsBeforeFetch
    <3>2. CASE ~stmt.fetch_called
      BY <1>1, <3>2, NumResultColsShape DEF ColumnsBeforeFetch, Asks, Same
    <3> QED
      BY <3>1, <3>2
  <2>3. CASE ~c.ok \/ ~c.ret \/ (~Prefetched /\ res.kind = "null")
    <3>1. f.stmt = stmt /\ f.odbc = c.odbc /\ f.ret \in {"error", "dead"}
      BY <2>1, <2>3 DEF Outcome
    <3> QED
      BY <1>2, <2>2, <3>1
  <2>4. CASE c.ok /\ c.ret /\ Prefetched
    <3> DEFINE s == [stmt EXCEPT !.fetch_called = TRUE]
    <3>1. s \in Stmts /\ s.fetch_called
      BY <1>1 DEF Stmts
    <3> HIDE DEF s
    <3>2. f = Outcome(s, res0, c.odbc, NoStream, "row", {})
      BY <2>1, <2>4 DEF s
    <3>3. c.odbc.pos = 1 /\ seen[1] # c.odbc.id /\ c.odbc.id \in Nat
      BY <1>4, <2>2, <2>4 DEF InTurn, Prefetched, Same, HandleOK, Handles
    <3> QED
      BY <1>1, <3>1, <3>2, <3>3 DEF Outcome, RowOf, Succeeds
  <2>5. CASE c.ok /\ c.ret /\ ~Prefetched /\ res.kind # "null"
    <3>1. f \in MoveCursor(c.odbc, style, offset)
      BY <2>1, <2>5
    <3> QED
      BY <2>2, <2>5, <3>1, MoveSucceeds
  <2> QED
    BY <2>3, <2>4, <2>5
<1> QED
  BY <1>3, <1>4


----
(***************************************************************************)
(* Every action keeps the order.                                           *)
(***************************************************************************)

LEMMA HistoryKept ==
  ASSUME hist \in Histories
  PROVE  /\ NotFresh => hist' \in Histories /\ hist'.seen = hist.seen
         /\ \A b \in BOOLEAN : hist' = [hist EXCEPT !.fresh = b] =>
              hist' \in Histories /\ hist'.seen = hist.seen /\ hist'.fresh = b
         /\ \A f : Ran(f) =>
              hist' \in Histories /\ hist'.seen = hist.seen /\ (hist'.fresh <=> f.ret # "error")
<1>1. \A b \in BOOLEAN : hist' = [hist EXCEPT !.fresh = b] =>
        hist' \in Histories /\ hist'.seen = hist.seen /\ hist'.fresh = b
  BY DEF Histories
<1>2. NotFresh => hist' \in Histories /\ hist'.seen = hist.seen
  BY DEF NotFresh, Histories
<1>3. ASSUME NEW f, Ran(f)
      PROVE  hist' \in Histories /\ hist'.seen = hist.seen /\ (hist'.fresh <=> f.ret # "error")
  <2> DEFINE b == f.ret # "error"
  <2>1. hist' = [hist EXCEPT !.runs = @ + 1, !.fresh = b] /\ b \in BOOLEAN
    BY <1>3 DEF Ran
  <2> HIDE DEF b
  <2> DEFINE n == hist.runs + 1
  <2>2. n \in Nat /\ hist' = [hist EXCEPT !.runs = n, !.fresh = b]
    BY <2>1 DEF Histories
  <2> HIDE DEF n
  <2>3. hist' \in Histories /\ hist'.seen = hist.seen
    BY <2>1, <2>2 DEF Histories
  <2>4. hist'.fresh = b
    BY <2>1, <2>2 DEF Histories
  <2> QED
    BY <2>3, <2>4 DEF b
<1> QED
  BY <1>1, <1>2, <1>3

LEMMA KeptOrder ==
  ASSUME StmtInv, OrderInv, Keeps(stmt, odbc, stmt', odbc'),
         hist' \in Histories, hist'.seen = hist.seen
  PROVE  OrderInv'
<1>1. HandleOK(odbc) /\ hist.seen \in Nat \X Nat /\ InTurn(stmt, odbc, hist.seen)
  BY DEF StmtInv, Consistent, OrderInv, Histories
<1>2. InTurn(stmt', odbc', hist.seen)
  BY <1>1, KeptInTurn
<1> QED
  BY <1>2 DEF OrderInv

LEMMA PrepareOrder == ASSUME OneWay, StmtInv, OrderInv, Prepare PROVE OrderInv'
<1>1. HandleOK(odbc0) /\ Same(odbc, odbc0)
  BY OneWayStatement
<1>2. ~stmt.alive /\ hist' = hist
  BY DEF Prepare
<1>3. ASSUME NEW o \in Accepted(odbc0), odbc' = CloseCursor(o),
             NEW p \in ParamKinds, stmt' = NewStmt(stmt.cursor_type, p, TRUE)
      PROVE  Keeps(stmt, odbc, stmt', odbc')
  <2>1. HandleOK(o) /\ Same(odbc, o)
    BY <1>1, <1>3, AcceptedShape DEF Same
  <2>2. Stays(odbc, odbc') /\ ~odbc'.open /\ odbc'.id \in Nat
    BY <1>3, <2>1, CloseCursorShape DEF Same, Stays, HandleOK, Handles
  <2>3. ~stmt'.fetch_called /\ ~stmt'.has_rows
    BY <1>3 DEF NewStmt
  <2> QED
    BY <2>2, <2>3 DEF Keeps, Renews, Stays
<1>4. ASSUME odbc' \in Failed(odbc0, {}), stmt' = stmt
      PROVE  Keeps(stmt, odbc, stmt', odbc')
  BY <1>1, <1>4, FailedShape DEF Keeps, Remains, SameFlags, Same, Stays
<1>5. Keeps(stmt, odbc, stmt', odbc')
  BY <1>3, <1>4 DEF Prepare
<1> QED
  BY <1>2, <1>5, KeptOrder DEF OrderInv

LEMMA QueryOrder == ASSUME OneWay, StmtInv, OrderInv, Query PROVE OrderInv'
<1> DEFINE s == NewStmt(stmt.cursor_type, "none", FALSE)
<1>1. HandleOK(odbc0) /\ Same(odbc, odbc0) /\ odbc.id \in Nat
  BY OneWayStatement DEF HandleOK, Handles
<1>2. ~stmt.alive
  BY DEF Query
<1>3. ~odbc.open /\ ~stmt.fetch_called /\ ~stmt.has_rows
  BY <1>2 DEF StmtInv, Consistent, Dead
<1>4. s \in Stmts /\ ~s.fetch_called /\ ~s.has_rows
  <2>1. stmt \in Stmts
    BY OneWayStatement
  <2>2. s \in Stmts /\ s.fetch_called = FALSE /\ s.has_rows = FALSE
    BY <2>1, FieldsAssumption DEF NewStmt, Stmts
  <2> HIDE DEF s
  <2> QED
    BY <2>2
<1>5. PICK f \in CoreExecute(s, odbc0) :
        /\ IF f.ret = "error" THEN odbc' = CloseCursor(f.odbc) /\ stmt' = stmt ELSE Apply(f)
        /\ Ran(f)
  BY DEF Query
<1> HIDE DEF s
<1>6. Keeps(s, odbc0, f.stmt, f.odbc)
  BY <1>1, <1>4, <1>5, CoreExecuteKeeps
<1>7. Renews(odbc, f.stmt, f.odbc)
  BY <1>1, <1>3, <1>4, <1>6 DEF Keeps, Remains, SameFlags, Renews, Same, Stays
<1>8. Keeps(stmt, odbc, stmt', odbc')
  <2>1. CASE f.ret = "error"
    <3>1. ~odbc'.open /\ odbc'.id = f.odbc.id
      <4>1. HandleOK(f.odbc)
        <5>1. SameRows(res, res0) /\ HandleOK(odbc0) /\ Stays(odbc, odbc0)
          BY OneWayStatement, CallBegins
        <5>2. ~odbc0.open
          BY <1>1, <1>3 DEF Same
        <5> DEFINE prepared == FALSE
        <5>3. s = NewStmt(stmt.cursor_type, "none", prepared) /\ prepared \in BOOLEAN
              /\ "none" \in {"none", "given", "lost"}
          BY DEF s
        <5> HIDE DEF prepared
        <5>4. Consistent(s, res0, odbc0, NoStream) /\ s.alive /\ s.cursor_type = stmt.cursor_type
          BY <1>2, <5>1, <5>2, <5>3, NewConsistent, CallBegins
        <5> QED
          BY <1>5, <5>4, CoreExecuteSound DEF Sound, Consistent
      <4> QED
        BY <1>5, <2>1, <4>1, CloseCursorShape DEF Stays
    <3> QED
      BY <1>3, <1>5, <1>7, <2>1, <3>1 DEF Keeps, Renews
  <2>2. CASE f.ret # "error"
    BY <1>5, <1>7, <2>2 DEF Keeps, Apply
  <2> QED
    BY <2>1, <2>2
<1> QED
  BY <1>5, <1>8, HistoryKept, KeptOrder DEF OrderInv

LEMMA ExecuteOrder == ASSUME OneWay, StmtInv, OrderInv, Execute PROVE OrderInv'
<1>1. Stays(odbc, odbc0)
  BY OneWayStatement
<1>2. stmt' = stmt /\ odbc' = odbc0 /\ NotFresh
  BY DEF Execute, Reject, Apply, Refusal, Outcome
<1>3. Keeps(stmt, odbc, stmt', odbc')
  BY <1>1, <1>2 DEF Keeps, Remains, SameFlags
<1> QED
  BY <1>2, <1>3, HistoryKept, KeptOrder DEF OrderInv

LEMMA FlushRoundOrder == ASSUME OneWay, StmtInv, OrderInv, FlushRound PROVE OrderInv'
<1>1. PICK f \in NextResultUnchecked : stmt' = f.stmt /\ odbc' = f.odbc
  BY DEF FlushRound
<1>2. Keeps(stmt, odbc, stmt', odbc')
  BY <1>1, NextResultUncheckedKeeps
<1>3. hist' = hist
  BY DEF FlushRound
<1> QED
  BY <1>2, <1>3, KeptOrder DEF OrderInv

LEMMA BindFailsOrder == ASSUME OneWay, StmtInv, OrderInv, BindFails PROVE OrderInv'
<1>1. stmt' = [stmt EXCEPT !.params = "lost", !.executed = FALSE] /\ odbc' = odbc /\ hist' = hist
  BY DEF BindFails
<1>2. SameFlags(stmt, stmt')
  BY <1>1, OneWayStatement DEF Stmts, SameFlags
<1>3. Keeps(stmt, odbc, stmt', odbc')
  BY <1>1, <1>2 DEF Keeps, Remains, Stays
<1> QED
  BY <1>1, <1>3, KeptOrder DEF OrderInv

LEMMA BindAndRunOrder == ASSUME OneWay, StmtInv, OrderInv, BindAndRun PROVE OrderInv'
<1>1. HandleOK(odbc) /\ stmt \in Stmts
  BY OneWayStatement
<1>2. PICK f \in CoreExecute(Bound, odbc) : stmt' = f.stmt /\ odbc' = f.odbc /\ Ran(f)
  BY DEF BindAndRun
<1>3. Bound \in Stmts /\ SameFlags(stmt, Bound)
  BY <1>1 DEF Bound, Stmts, SameFlags
<1>4. Keeps(Bound, odbc, stmt', odbc')
  BY <1>1, <1>2, <1>3, CoreExecuteKeeps
<1>5. Keeps(stmt, odbc, stmt', odbc')
  BY <1>3, <1>4 DEF Keeps, Remains, SameFlags
<1> QED
  BY <1>2, <1>5, HistoryKept, KeptOrder DEF OrderInv

LEMMA NextResultOrder == ASSUME OneWay, StmtInv, OrderInv, NextResult PROVE OrderInv'
<1>1. PICK f \in CoreNextResult :
        Apply(f) /\ hist' = [hist EXCEPT !.fresh = f.ret = "row"]
  BY DEF NextResult
<1>2. Keeps(stmt, odbc, stmt', odbc')
  BY <1>1, CoreNextResultKeeps DEF Apply
<1>3. hist' \in Histories /\ hist'.seen = hist.seen
  <2> DEFINE b == f.ret = "row"
  <2>1. hist' = [hist EXCEPT !.fresh = b] /\ b \in BOOLEAN
    BY <1>1
  <2> HIDE DEF b
  <2> QED
    BY <2>1, HistoryKept DEF OrderInv
<1> QED
  BY <1>2, <1>3, KeptOrder

LEMMA CancelOrder == ASSUME OneWay, StmtInv, OrderInv, Cancel PROVE OrderInv'
<1>1. HandleOK(odbc0) /\ Stays(odbc, odbc0)
  BY OneWayStatement
<1>2. \A p \in SQLCancel(odbc0) : HandleOK(p) /\ Stays(odbc, p)
  BY <1>1, CancelShape DEF Stays
<1>3. odbc' \in SQLCancel(odbc0) \/ odbc' \in Failed(odbc0, SQLCancel(odbc0))
  BY DEF Cancel
<1>4. Stays(odbc, odbc')
  BY <1>1, <1>2, <1>3, FailedShape DEF OneWay, Same, Stays
<1>5. stmt' = stmt /\ NotFresh
  BY DEF Cancel, NotFresh
<1>6. Keeps(stmt, odbc, stmt', odbc')
  BY <1>4, <1>5 DEF Keeps, Remains, SameFlags
<1> QED
  BY <1>5, <1>6, HistoryKept, KeptOrder DEF OrderInv

LEMMA FreeOrder == ASSUME OneWay, StmtInv, OrderInv, Free PROVE OrderInv'
<1>1. HandleOK(odbc) /\ odbc.id \in Nat
  BY OneWayStatement DEF HandleOK, Handles
<1>2. /\ stmt' = [NewStmt(stmt.cursor_type, "none", FALSE) EXCEPT !.alive = FALSE]
      /\ odbc' = CloseCursor([odbc EXCEPT !.diag = "none"]) /\ NotFresh
  BY DEF Free, NotFresh
<1>3. ~stmt'.fetch_called /\ ~stmt'.has_rows
  BY <1>2 DEF NewStmt
<1>4. ~odbc'.open /\ odbc'.id = odbc.id
  BY <1>1, <1>2 DEF CloseCursor, HandleOK, Handles
<1>5. Keeps(stmt, odbc, stmt', odbc')
  BY <1>1, <1>3, <1>4 DEF Keeps, Renews
<1> QED
  BY <1>2, <1>5, HistoryKept, KeptOrder DEF OrderInv

LEMMA LoseConnectionOrder == ASSUME OneWay, StmtInv, OrderInv, LoseConnection PROVE OrderInv'
<1>1. Stays(odbc, odbc') /\ stmt' = stmt /\ hist' = hist
  BY OneWayStatement DEF LoseConnection, HandleOK, Handles, Stays
<1>2. Keeps(stmt, odbc, stmt', odbc')
  BY <1>1 DEF Keeps, Remains, SameFlags
<1> QED
  BY <1>1, <1>2, KeptOrder DEF OrderInv

LEMMA GetFieldOrder ==
  ASSUME OneWay, StmtInv, OrderInv, NEW i, NEW type, GetField(i, type) PROVE OrderInv'
<1>1. PICK f \in CoreGetField(i, type) : Apply(f)
  BY DEF GetField
<1>2. Keeps(stmt, odbc, stmt', odbc')
  BY <1>1, CoreGetFieldRemains DEF Keeps, Apply
<1>3. NotFresh
  BY DEF GetField
<1> QED
  BY <1>2, <1>3, HistoryKept, KeptOrder DEF OrderInv

LEMMA CountOrder == ASSUME OneWay, StmtInv, OrderInv, NEW call, Count(call) PROVE OrderInv'
<1>1. PICK f \in CoreCount(call) : Apply(f)
  BY DEF Count
<1>2. Keeps(stmt, odbc, stmt', odbc')
  BY <1>1, CoreCountRemains DEF Keeps, Apply
<1>3. NotFresh
  BY DEF Count
<1> QED
  BY <1>2, <1>3, HistoryKept, KeptOrder DEF OrderInv

LEMMA HasRowsOrder == ASSUME OneWay, StmtInv, OrderInv, HasRows PROVE OrderInv'
<1>1. PICK f \in CoreHasRows : Apply(f)
  BY DEF HasRows
<1>2. InTurn(stmt', odbc', hist.seen)
  BY <1>1, CoreHasRowsInTurn DEF Apply, OrderInv, Histories
<1> QED
  BY <1>2 DEF HasRows, OrderInv

(* What a fetch came to counts as seen. *)
LEMMA SeenInTurn ==
  ASSUME StmtInv, OrderInv, NEW style, NEW offset, NEW f \in CoreFetch(style, offset), Saw(f), OneWay
  PROVE  hist' \in Histories /\ InTurn(f.stmt, f.odbc, hist'.seen)
<1>1. /\ f.ret = "row" => Succeeds(f, hist.seen)
      /\ f.ret # "row" => InTurn(f.stmt, f.odbc, hist.seen)
  BY CoreFetchSucceeds DEF OrderInv, Histories
<1> DEFINE seen == IF f.ret = "row" THEN RowOf(f.res, f.odbc) ELSE hist.seen
<1>2. seen \in Nat \X Nat /\ InTurn(f.stmt, f.odbc, seen)
  <2>1. CASE f.ret = "row"
    <3>1. f.odbc.id \in Nat /\ f.odbc.pos \in Nat /\ seen = <<f.odbc.id, f.odbc.pos>>
      BY <1>1, <2>1 DEF Succeeds, OrderInv, Histories
    <3> QED
      BY <1>1, <2>1, <3>1 DEF Succeeds, InTurn
  <2>2. CASE f.ret # "row"
    BY <1>1, <2>2 DEF OrderInv, Histories
  <2> QED
    BY <2>1, <2>2
<1>3. hist' = [hist EXCEPT !.fresh = FALSE, !.seen = seen]
  BY DEF Saw
<1> HIDE DEF seen
<1>4. hist' \in Histories /\ hist'.seen = seen
  BY <1>2, <1>3 DEF OrderInv, Histories
<1> QED
  BY <1>2, <1>4

LEMMA FetchOrder ==
  ASSUME OneWay, StmtInv, OrderInv, NEW m \in Moves, Fetch(m[1], m[2]) PROVE OrderInv'
<1>1. PICK f \in CoreFetch(m[1], m[2]) : Apply(f) /\ Saw(f)
  BY DEF Fetch
<1> QED
  BY <1>1, SeenInTurn DEF Apply, OrderInv

LEMMA FetchArrayOrder ==
  ASSUME OneWay, StmtInv, OrderInv, NEW m \in Moves, FetchArray(m[1], m[2]) PROVE OrderInv'
<1>1. PICK f \in CoreFetch(m[1], m[2]) :
        /\ \E g \in IF f.ret = "row" THEN ReadRow(f) ELSE {f} : Apply(g)
        /\ Saw(f)
  BY DEF FetchArray
<1>2. PICK g \in IF f.ret = "row" THEN ReadRow(f) ELSE {f} : Apply(g)
  BY <1>1
<1>3. hist' \in Histories /\ InTurn(f.stmt, f.odbc, hist'.seen)
  BY <1>1, SeenInTurn
<1>4. Sound(f)
  BY CoreFetchSound DEF FetchArray, Called
<1>5. f.stmt \in Stmts /\ HandleOK(f.odbc) /\ ResultSetOK(f.res)
  BY <1>4 DEF Sound, Consistent
<1>6. Keeps(f.stmt, f.odbc, g.stmt, g.odbc)
  <2>1. CASE f.ret = "row"
    BY <1>2, <1>5, <2>1, ReadRowRemains DEF Keeps
  <2>2. CASE f.ret # "row"
    BY <1>2, <2>2 DEF Keeps, Remains, SameFlags, Stays
  <2> QED
    BY <2>1, <2>2
<1>7. hist'.seen \in Nat \X Nat
  BY <1>3 DEF Histories
<1>8. InTurn(g.stmt, g.odbc, hist'.seen)
  BY <1>3, <1>5, <1>6, <1>7, KeptInTurn
<1> QED
  BY <1>2, <1>3, <1>8 DEF Apply, OrderInv


LEMMA InitOrder == Init => OrderInv
<1> SUFFICES ASSUME Init PROVE OrderInv
  OBVIOUS
<1>1. PICK t \in CursorTypes : stmt = [NewStmt(t, "none", FALSE) EXCEPT !.alive = FALSE]
  BY DEF Init
<1>2. ~stmt.fetch_called /\ ~stmt.has_rows
  BY <1>1 DEF NewStmt
<1>3. hist \in Histories /\ hist.seen = <<0, 0>> /\ odbc.id = 0 /\ ~odbc.open
  BY DEF Init, NoRow, Histories, NewHandle
<1> QED
  BY <1>2, <1>3 DEF OrderInv, InTurn

LEMMA NextOrder == ASSUME OneWay PROVE StmtInv /\ OrderInv /\ [Next]_vars => OrderInv'
<1> SUFFICES ASSUME StmtInv, OrderInv, [Next]_vars PROVE OrderInv'
  OBVIOUS
<1>1. CASE Prepare
  BY <1>1, PrepareOrder
<1>2. CASE Query
  BY <1>2, QueryOrder
<1>3. CASE Execute
  BY <1>3, ExecuteOrder
<1>4. CASE FlushRound
  BY <1>4, FlushRoundOrder
<1>5. CASE FlushDone
  BY <1>5 DEF FlushDone, OrderInv
<1>6. CASE BindFails
  BY <1>6, BindFailsOrder
<1>7. CASE BindAndRun
  BY <1>7, BindAndRunOrder
<1>8. ASSUME NEW m \in Moves, Fetch(m[1], m[2]) \/ FetchArray(m[1], m[2])
      PROVE  OrderInv'
  BY <1>8, FetchOrder, FetchArrayOrder
<1>9. ASSUME NEW i \in 0 .. Fields - 1, GetField(i, "value") \/ GetField(i, "stream")
      PROVE  OrderInv'
  BY <1>9, GetFieldOrder
<1>10. CASE StreamClose
  BY <1>10 DEF StreamClose, OrderInv
<1>11. CASE HasRows
  BY <1>11, HasRowsOrder
<1>12. CASE NextResult
  BY <1>12, NextResultOrder
<1>13. CASE Count("num_rows") \/ Count("rows_affected")
  BY <1>13, CountOrder
<1>14. CASE Cancel
  BY <1>14, CancelOrder
<1>15. CASE Free
  BY <1>15, FreeOrder
<1>16. CASE LoseConnection
  BY <1>16, LoseConnectionOrder
<1>17. CASE UNCHANGED vars
  BY <1>17 DEF vars, OrderInv
<1> QED
  BY <1>1, <1>2, <1>3, <1>4, <1>5, <1>6, <1>7, <1>8, <1>9, <1>10, <1>11, <1>12, <1>13, <1>14,
     <1>15, <1>16, <1>17 DEF Next

(* hdb_fetch with the default style delivers the row after the one delivered *)
(* last, and the first row of a new result first, whatever calls, failures   *)
(* and losses come in between: no row is skipped and none comes twice        *)
(* (core_hdb_fetch, determine_stmt_has_rows).  With a warning that is taken  *)
(* for a failure the row that was moved to is skipped.                       *)
THEOREM RowsComeInOrder ==
  ASSUME CursorTypes \subseteq {"forward"}, ~WarningsAsErrors
  PROVE  Spec => NextIsSuccessor
<1> DEFINE Successor ==
      \A m \in Moves :
        m = <<"next", 0>> /\ Fetch(m[1], m[2]) /\ out'.ret = "true" =>
          out'.row[2] = 1 + (IF hist.seen[1] = out'.row[1] THEN hist.seen[2] ELSE 0)
<1>1. OneWay
  BY DEF OneWay
<1>2. StmtInv /\ OrderInv => Successor
  <2> SUFFICES ASSUME StmtInv, OrderInv, NEW m \in Moves, Fetch(m[1], m[2]), out'.ret = "true"
               PROVE  out'.row[2] = 1 + (IF hist.seen[1] = out'.row[1] THEN hist.seen[2] ELSE 0)
    OBVIOUS
  <2>1. PICK f \in CoreFetch(m[1], m[2]) : Report("fetch", f)
    BY DEF Fetch
  <2>2. f.ret = "row" => Succeeds(f, hist.seen)
    BY <1>1, <2>1, CoreFetchSucceeds DEF OrderInv, Histories
  <2>3. f.ret = "row"
    BY <2>1 DEF Report, Answer, Fail
  <2>4. out'.row = RowOf(f.res, f.odbc)
    BY <2>1, <2>3 DEF Report, Answer
  <2> QED
    BY <2>2, <2>3, <2>4 DEF Succeeds
<1>3. Init => OrderInv
  BY InitOrder
<1>4. StmtInv /\ OrderInv /\ [Next]_vars => OrderInv'
  BY <1>1, NextOrder
<1> HIDE DEF Successor
<1>5. StmtInv /\ OrderInv /\ [Next]_vars => [Successor]_vars
  BY <1>2
<1>6. Spec => [][Successor]_vars
  BY <1>3, <1>4, <1>5, Invariance, PTL DEF Spec
<1> QED
  BY <1>6 DEF NextIsSuccessor, Successor


----
(***************************************************************************)
(* The promise of hdb_has_rows.                                            *)
(***************************************************************************)

(* A buffer whose rows hdb_has_rows has found is back before its first row. *)
BackAtStart(s, r) == s.has_rows /\ r.kind = "buffered" => r.cur = 0 /\ r.rows >= 1

(* Until the script fetches from a new result, hdb_has_rows remembers in the *)
(* statement what it has said.                                               *)
Promised(s, r, call, ret) ==
  /\ ~s.fetch_called /\ BackAtStart(s, r)
  /\ call = "has_rows" /\ ret = "true" => s.has_rows

PromiseInv ==
  /\ hist \in Histories
  /\ hist.fresh => Promised(stmt, res, out.call, out.ret)
  /\ pc \in {"flush", "bind"} => ~hist.fresh

LEMMA NothingPromised ==
  ASSUME hist' \in Histories, ~hist'.fresh
  PROVE  PromiseInv'
BY DEF PromiseInv

LEMMA ExecutionIsFresh ==
  ASSUME NEW s \in Stmts, NEW o, NEW f \in CoreExecute(s, o), f.ret # "error"
  PROVE  ~f.stmt.fetch_called /\ ~f.stmt.has_rows
<1> DEFINE ran == [ResetFlags(s) EXCEPT !.executed = TRUE]
<1>1. \A t, r, p, errs : f \notin Abandon(t, r, p, errs)
  BY DEF Abandon, Outcome
<1>2. PICK e \in SQLExecute(o, s.params # "lost") :
        IF e.ok
        THEN f \in UNION { IF n.err # "none"
                           THEN Abandon(ResetFlags(s), n.res, n.odbc, ErrorsOf(n))
                           ELSE {Outcome(ran, n.res, p, NoStream, "row", {}) : p \in HasAnyResult(n.odbc)}
                                  \cup UNION {Abandon(ran, n.res, p, Diagnostics(n.res, p)) :
                                                p \in Failed(n.odbc, {})} :
                           n \in NewResultSet(e.odbc) }
        ELSE f \in Abandon(s, res0, e.odbc, Diagnostics(res0, e.odbc))
  BY DEF CoreExecute
<1>3. ~ran.fetch_called /\ ~ran.has_rows
  <2>1. ResetFlags(s) \in Stmts /\ ~ResetFlags(s).fetch_called /\ ~ResetFlags(s).has_rows
    BY ResetShape
  <2>2. ran.fetch_called = ResetFlags(s).fetch_called /\ ran.has_rows = ResetFlags(s).has_rows
    BY <2>1 DEF Stmts
  <2> HIDE DEF ran
  <2> QED
    BY <2>1, <2>2
<1> HIDE DEF ran
<1>4. PICK n \in NewResultSet(e.odbc) :
        f \in IF n.err # "none"
              THEN Abandon(ResetFlags(s), n.res, n.odbc, ErrorsOf(n))
              ELSE {Outcome(ran, n.res, p, NoStream, "row", {}) : p \in HasAnyResult(n.odbc)}
                     \cup UNION {Abandon(ran, n.res, p, Diagnostics(n.res, p)) :
                                   p \in Failed(n.odbc, {})}
  BY <1>1, <1>2
<1>5. PICK p : f = Outcome(ran, n.res, p, NoStream, "row", {})
  BY <1>1, <1>4
<1> QED
  BY <1>3, <1>5 DEF Outcome

LEMMA NextResultIsFresh ==
  ASSUME StmtInv, NEW f \in CoreNextResult, f.ret = "row"
  PROVE  ~f.stmt.fetch_called /\ ~f.stmt.has_rows
<1>1. \A s, r, o, st, errs : f \notin CancelAfter(s, r, o, st, errs)
  BY DEF CancelAfter, Outcome
<1> DEFINE moved(m) ==
      UNION { IF n.err = "none"
              THEN {Outcome(ResetFlags(stmt), n.res, n.odbc, NoStream, "row", {})}
              ELSE CancelAfter(ResetFlags(stmt), n.res, n.odbc, NoStream, ErrorsOf(n)) :
              n \in NewResultSet(m.odbc) }
<1>2. PICK m \in SQLMoreResults(odbc0) :
        f \in CASE m.ret = "end" ->
                     {Outcome([stmt EXCEPT !.past_next_result_end = TRUE], res0, m.odbc, NoStream,
                              "no_data", {})}
                [] m.ret = "error" ->
                     CancelAfter(stmt, res0, m.odbc, NoStream, Diagnostics(res0, m.odbc))
                [] m.ret = "more" -> moved(m)
  BY <1>1 DEF CoreNextResult
<1>3. m.ret \in {"end", "error", "more"}
  BY CallBegins, MoreResultsShape
<1>4. f \in moved(m)
  <2> HIDE DEF moved
  <2>1. CASE m.ret = "end"
    <3>1. f = Outcome([stmt EXCEPT !.past_next_result_end = TRUE], res0, m.odbc, NoStream,
                      "no_data", {})
      BY <1>2, <2>1
    <3> QED
      BY <3>1 DEF Outcome
  <2>2. CASE m.ret = "error"
    BY <1>1, <1>2, <2>2
  <2>3. CASE m.ret = "more"
    BY <1>2, <2>3
  <2> QED
    BY <1>3, <2>1, <2>2, <2>3
<1>5. PICK n \in NewResultSet(m.odbc) :
        f = Outcome(ResetFlags(stmt), n.res, n.odbc, NoStream, "row", {})
  BY <1>1, <1>4
<1> QED
  BY <1>5, ResetShape DEF Outcome, StmtInv, Consistent

(* In a buffer that is before its first row, the next row is found. *)
LEMMA FirstIsFound ==
  ASSUME ResultSetOK(res), res.cur = 0, res.rows >= 1
  PROVE  BufferedFound("next", 0)
<1>1. res.rows \in 1 .. MaxLen - 1 /\ MaxLen \in Nat \ {0}
  BY BoundsAssumption DEF ResultSetOK, ResultSets
<1>2. Buffer!EffectiveOffset("next", 0) = 1
  BY DEF Buffer!EffectiveOffset
<1>3. Buffer!Wrap(1) = 1
  BY <1>1 DEF Buffer!Wrap
<1>4. Buffer!Moved("next", 0) = 1
  BY <1>2, <1>3 DEF Buffer!Moved
<1> QED
  BY <1>1, <1>2, <1>4 DEF BufferedFound, Buffer!BeforeFirst, Buffer!AfterLast


(* The probe of hdb_has_rows in a buffer: the first row, and back. *)
LEMMA ProbeGoesBack ==
  ASSUME StmtInv, ~stmt.fetch_called, ~stmt.has_rows, NEW o, HandleOK(o),
         NEW g \in ProbeScrollable(o)
  PROVE  /\ ~g.stmt.fetch_called /\ BackAtStart(g.stmt, g.res)
         /\ g.ret = "row" => g.stmt.has_rows
<1>1. ResultSetOK(res)
  BY DEF StmtInv, Consistent
<1> DEFINE no == FALSE
           yes == TRUE
           none == HasRowsAs(no)
           some == HasRowsAs(yes)
<1>2. no \in BOOLEAN /\ yes \in BOOLEAN /\ ~no /\ yes
  OBVIOUS
<1>3. CASE res.kind = "null"
  <2>1. g = Outcome(none, res0, o, stream, "dead", {})
    BY <1>3 DEF ProbeScrollable
  <2> HIDE DEF no, yes
  <2>2. ~none.has_rows /\ ~none.fetch_called
    BY <1>2, FlagsOfHasRows
  <2> HIDE DEF none
  <2> QED
    BY <2>1, <2>2 DEF Outcome, BackAtStart
<1>4. CASE res.kind # "null"
  <2>1. PICK f \in ResultsFetch(o, "first", -1) :
          g \in CASE f.ret = "row"     -> ScrollBack(f)
                  [] f.ret = "no_data" -> {Outcome(none, f.res, f.odbc, stream, "no_data", {})}
                  [] f.ret = "error"   -> {Outcome(none, f.res, f.odbc, stream, "error",
                                                   Diagnostics(f.res, f.odbc))}
    BY <1>4 DEF ProbeScrollable
  <2>2. f.ret \in {"row", "no_data", "error"}
    <3>1. "first" \in Styles /\ -1 \in SQLLEN
      BY BoundsAssumption DEF Styles, SQLLEN
    <3> QED
      BY <1>4, <3>1, ResultsFetchShape
  <2>3. CASE f.ret = "row"
    <3>1. g \in ScrollBack(f)
      BY <2>1, <2>3
    <3>2. PICK b : g = Outcome(some, IF res.kind = "buffered" THEN [f.res EXCEPT !.cur = 0] ELSE f.res,
                               b.odbc, stream, IF b.ret = "error" THEN "error" ELSE "row",
                               IF b.ret = "error" THEN Diagnostics(f.res, b.odbc) ELSE {})
      BY <3>1 DEF ScrollBack
    <3> HIDE DEF no, yes
    <3>3. some.has_rows /\ ~some.fetch_called
      BY <1>2, FlagsOfHasRows
    <3> HIDE DEF some
    <3>4. g.stmt = some /\ g.res = IF res.kind = "buffered" THEN [f.res EXCEPT !.cur = 0] ELSE f.res
      BY <3>2 DEF Outcome
    <3>5. BackAtStart(g.stmt, g.res)
      <4>1. CASE res.kind = "buffered"
        <5>1. /\ BufferedFound("first", -1)
              /\ f.res = [res EXCEPT !.cur = BufferedPosition("first", -1), !.err = "none"]
          BY <2>3, <4>1 DEF ResultsFetch
        <5>2. res.rows >= 1
          <6>1. Buffer!Moved("first", -1) = 1
            BY DEF Buffer!Moved
          <6> QED
            BY <1>1, <5>1, <6>1 DEF BufferedFound, Buffer!AfterLast, ResultSetOK, ResultSets
        <5>3. g.res.cur = 0 /\ g.res.rows = res.rows
          BY <1>1, <3>4, <4>1, <5>1 DEF ResultSetOK, ResultSets
        <5> QED
          BY <5>2, <5>3 DEF BackAtStart
      <4>2. CASE res.kind # "buffered"
        <5>1. f.res = res
          BY <4>2 DEF ResultsFetch
        <5> QED
          BY <3>4, <4>2, <5>1 DEF BackAtStart
      <4> QED
        BY <4>1, <4>2
    <3> QED
      BY <3>3, <3>4, <3>5
  <2>4. CASE f.ret # "row"
    <3>1. g.stmt = none /\ g.ret = f.ret
      <4> HIDE DEF none, some
      <4>1. CASE f.ret = "no_data"
        BY <2>1, <4>1 DEF Outcome
      <4>2. CASE f.ret = "error"
        BY <2>1, <4>2 DEF Outcome
      <4> QED
        BY <2>2, <2>4, <4>1, <4>2
    <3> HIDE DEF no, yes
    <3>2. ~none.has_rows /\ ~none.fetch_called
      BY <1>2, FlagsOfHasRows
    <3> HIDE DEF none
    <3> QED
      BY <2>4, <3>1, <3>2 DEF BackAtStart
  <2> QED
    BY <2>3, <2>4
<1> QED
  BY <1>3, <1>4

LEMMA CoreHasRowsPromise ==
  ASSUME StmtInv, ~stmt.fetch_called, BackAtStart(stmt, res), NEW f \in CoreHasRows
  PROVE  /\ ~f.stmt.fetch_called /\ BackAtStart(f.stmt, f.res)
         /\ f.ret = "row" => f.stmt.has_rows
<1>1. SameRows(res, res0) /\ stmt \in Stmts /\ KindOK(stmt, res)
  BY CallBegins DEF StmtInv, Consistent
<1>2. CASE ~stmt.executed
  <2>1. f.stmt = stmt /\ f.res = res0 /\ f.ret = "error"
    BY <1>2 DEF CoreHasRows, Refusal, Outcome
  <2> QED
    BY <1>1, <2>1 DEF BackAtStart, SameRows
<1>3. CASE stmt.executed /\ stmt.has_rows
  <2>1. f.stmt = stmt /\ f.res = res0
    BY <1>3 DEF CoreHasRows, Outcome
  <2> QED
    BY <1>1, <1>3, <2>1 DEF BackAtStart, SameRows
<1>4. CASE stmt.executed /\ ~stmt.has_rows
  <2> DEFINE no == FALSE
             none == HasRowsAs(no)
  <2>1. PICK c \in SQLNumResultCols(odbc0) :
          f \in IF ~c.ok
                THEN {Outcome(none, res0, c.odbc, stream, "error", Diagnostics(res0, c.odbc))}
                ELSE IF ~c.ret THEN {Outcome(none, res0, c.odbc, stream, "no_data", {})}
                ELSE IF stmt.cursor_type = "forward" THEN ProbeForward(c.odbc)
                ELSE ProbeScrollable(c.odbc)
    BY <1>4 DEF CoreHasRows, DetermineHasRows
  <2>2. no \in BOOLEAN /\ ~no
    OBVIOUS
  <2> HIDE DEF no
  <2>3. ~none.has_rows /\ ~none.fetch_called
    BY <2>2, FlagsOfHasRows
  <2> HIDE DEF none
  <2>4. CASE ~c.ok \/ ~c.ret
    <3>1. f.stmt = none /\ f.ret # "row"
      BY <2>1, <2>4 DEF Outcome
    <3> QED
      BY <2>3, <3>1 DEF BackAtStart
  <2>5. CASE c.ok /\ c.ret /\ stmt.cursor_type = "forward"
    <3>1. f \in ProbeForward(c.odbc)
      BY <2>1, <2>5
    <3>2. PICK d \in SQLFetchScroll(c.odbc, TRUE, "next", 0) :
            f = Outcome(HasRowsAs(d.ret = "row"), res0, d.odbc, stream, d.ret,
                        IF d.ret = "error" THEN Diagnostics(res0, d.odbc) ELSE {})
      BY <3>1 DEF ProbeForward
    <3> DEFINE found == d.ret = "row"
    <3>3. found \in BOOLEAN /\ f.stmt = HasRowsAs(found) /\ f.res = res0 /\ f.ret = d.ret
      BY <3>2 DEF Outcome
    <3> HIDE DEF found
    <3>4. f.stmt.has_rows = found /\ ~f.stmt.fetch_called
      BY <3>3, FlagsOfHasRows
    <3>5. f.res.kind # "buffered"
      BY <1>1, <2>5, <3>3 DEF KindOK, Buffered, SameRows
    <3> QED
      BY <3>3, <3>4, <3>5 DEF BackAtStart, found
  <2>6. CASE c.ok /\ c.ret /\ stmt.cursor_type # "forward"
    <3>1. f \in ProbeScrollable(c.odbc)
      BY <2>1, <2>6
    <3>2. HandleOK(c.odbc)
      BY CallBegins, NumResultColsShape DEF Asks
    <3> QED
      BY <1>4, <3>1, <3>2, ProbeGoesBack
  <2> QED
    BY <2>4, <2>5, <2>6
<1> QED
  BY <1>2, <1>3, <1>4

(* The fetch after it finds a row, or reports what came in its way. *)
LEMMA FetchKept ==
  ASSUME StmtInv, "static" \notin CursorTypes, ~stmt.fetch_called, stmt.has_rows,
         BackAtStart(stmt, res), NEW f \in CoreFetch("next", 0)
  PROVE  f.ret # "no_data"
<1>1. /\ stmt \in Stmts /\ KindOK(stmt, res) /\ ResultSetOK(res)
      /\ stmt.cursor_type \in {"forward", "buffered"}
  BY ArgumentsAssumption DEF StmtInv, Consistent, Stmts
<1>2. CASE ~stmt.executed \/ stmt.past_fetch_end
  BY <1>2 DEF CoreFetch, Refusal, Outcome
<1>3. CASE stmt.executed /\ ~stmt.past_fetch_end
  <2>1. PICK c \in ColumnsBeforeFetch :
          f \in IF ~c.ok
                THEN {Outcome(stmt, res0, c.odbc, stream, "error", Diagnostics(res0, c.odbc))}
                ELSE IF ~c.ret
                THEN {Outcome(stmt, res0, c.odbc, stream, "error", CustomError(res0, c.odbc))}
                ELSE IF Prefetched
                THEN {Outcome([stmt EXCEPT !.fetch_called = TRUE], res0, c.odbc, NoStream, "row", {})}
                ELSE IF res.kind = "null"
                THEN {Outcome(stmt, res0, c.odbc, NoStream, "dead", {})}
                ELSE MoveCursor(c.odbc, "next", 0)
    BY <1>3 DEF CoreFetch
  <2>2. CASE ~c.ok \/ ~c.ret \/ Prefetched \/ res.kind = "null"
    BY <2>1, <2>2 DEF Outcome
  <2>3. CASE c.ok /\ c.ret /\ ~Prefetched /\ res.kind # "null"
    <3>1. res.kind = "buffered"
      BY <1>1, <2>3 DEF Prefetched, KindOK, Buffered
    <3>2. BufferedFound("next", 0)
      BY <1>1, <3>1, FirstIsFound DEF BackAtStart
    <3>3. \A g \in ResultsFetch(c.odbc, "next", 0) : g.ret = "row"
      BY <3>1, <3>2 DEF ResultsFetch
    <3>4. f \in MoveCursor(c.odbc, "next", 0)
      BY <2>1, <2>3
    <3>5. f.ret = "row"
      BY <3>3, <3>4 DEF MoveCursor, Outcome
    <3> QED
      BY <3>5
  <2> QED
    BY <2>2, <2>3
<1> QED
  BY <1>2, <1>3


----
(***************************************************************************)
(* Every action keeps the promise.                                         *)
(***************************************************************************)

LEMMA PreparePromise == ASSUME StmtInv, PromiseInv, Prepare PROVE PromiseInv'
<1>1. hist' = hist /\ pc' = "idle" /\ res' = res
  BY DEF Prepare
<1>2. out'.call = "prepare"
  <2>1. out' = Answer("prepare", "true", {}, NoRow) \/ out' = Answer("prepare", "false", {"own"}, NoRow)
    BY DEF Prepare, Fail
  <2> QED
    BY <2>1 DEF Answer
<1>3. stmt' = stmt \/ (~stmt'.fetch_called /\ ~stmt'.has_rows)
  BY DEF Prepare, NewStmt
<1> QED
  BY <1>1, <1>2, <1>3 DEF PromiseInv, Promised, BackAtStart

LEMMA QueryPromise == ASSUME StmtInv, PromiseInv, Query PROVE PromiseInv'
<1> DEFINE s == NewStmt(stmt.cursor_type, "none", FALSE)
<1>1. s \in Stmts
  BY FieldsAssumption DEF StmtInv, Consistent, Stmts, NewStmt
<1>2. PICK f \in CoreExecute(s, odbc0) :
        /\ IF f.ret = "error" THEN pc' = pc
           ELSE out' = Answer("query", "true", {}, NoRow) /\ Apply(f)
        /\ Ran(f)
  BY DEF Query
<1> HIDE DEF s
<1>3. hist' \in Histories /\ (hist'.fresh <=> f.ret # "error")
  BY <1>2, HistoryKept DEF PromiseInv
<1>4. CASE f.ret = "error"
  BY <1>3, <1>4, NothingPromised
<1>5. CASE f.ret # "error"
  <2>1. ~stmt'.fetch_called /\ ~stmt'.has_rows
    BY <1>1, <1>2, <1>5, ExecutionIsFresh DEF Apply
  <2>2. out'.call = "query" /\ pc' \in {"idle", "dead"}
    BY <1>2, <1>5 DEF Query, Apply, Answer
  <2> QED
    BY <1>3, <2>1, <2>2 DEF PromiseInv, Promised, BackAtStart
<1> QED
  BY <1>4, <1>5

LEMMA BindAndRunPromise == ASSUME StmtInv, PromiseInv, BindAndRun PROVE PromiseInv'
<1>1. Bound \in Stmts
  BY DEF StmtInv, Consistent, Bound, Stmts
<1>2. PICK f \in CoreExecute(Bound, odbc) :
        /\ stmt' = f.stmt /\ Ran(f) /\ pc' = "idle"
        /\ out' = IF f.ret = "error" THEN Fail("execute", f.errs)
                  ELSE Answer("execute", "true", {}, NoRow)
  BY DEF BindAndRun
<1>3. hist' \in Histories /\ (hist'.fresh <=> f.ret # "error")
  BY <1>2, HistoryKept DEF PromiseInv
<1>4. CASE f.ret = "error"
  BY <1>3, <1>4, NothingPromised
<1>5. CASE f.ret # "error"
  <2>1. ~stmt'.fetch_called /\ ~stmt'.has_rows
    BY <1>1, <1>2, <1>5, ExecutionIsFresh
  <2>2. out'.call = "execute"
    BY <1>2, <1>5 DEF Answer
  <2> QED
    BY <1>2, <1>3, <2>1, <2>2 DEF PromiseInv, Promised, BackAtStart
<1> QED
  BY <1>4, <1>5

LEMMA NextResultPromise == ASSUME StmtInv, PromiseInv, NextResult PROVE PromiseInv'
<1>1. PICK f \in CoreNextResult :
        /\ Apply(f) /\ hist' = [hist EXCEPT !.fresh = f.ret = "row"]
        /\ f.ret = "row" => out' = Answer("next_result", "true", {}, NoRow)
  BY DEF NextResult
<1>2. hist' \in Histories /\ (hist'.fresh <=> f.ret = "row")
  <2> DEFINE b == f.ret = "row"
  <2>1. hist' = [hist EXCEPT !.fresh = b] /\ b \in BOOLEAN
    BY <1>1
  <2> HIDE DEF b
  <2>2. hist' \in Histories /\ hist'.fresh = b
    BY <2>1, HistoryKept DEF PromiseInv
  <2> QED
    BY <2>2 DEF b
<1>3. CASE f.ret # "row"
  BY <1>2, <1>3, NothingPromised
<1>4. CASE f.ret = "row"
  <2>1. ~stmt'.fetch_called /\ ~stmt'.has_rows
    BY <1>1, <1>4, NextResultIsFresh DEF Apply
  <2>2. out'.call = "next_result"
    BY <1>1, <1>4 DEF Answer
  <2>3. pc' = "idle"
    BY <1>1, <1>4 DEF NextResult, Called, Apply
  <2> QED
    BY <1>2, <2>1, <2>2, <2>3 DEF PromiseInv, Promised, BackAtStart
<1> QED
  BY <1>3, <1>4

LEMMA HasRowsKeepsPromise == ASSUME StmtInv, PromiseInv, HasRows PROVE PromiseInv'
<1>1. PICK f \in CoreHasRows :
        /\ Apply(f)
        /\ out' = Answer("has_rows", IF f.ret = "row" THEN "true" ELSE "false", f.errs, NoRow)
  BY DEF HasRows
<1>2. hist' = hist /\ pc' \in {"idle", "dead"}
  BY <1>1 DEF HasRows, Called, Apply
<1>3. CASE ~hist.fresh
  BY <1>2, <1>3, NothingPromised DEF PromiseInv
<1>4. CASE hist.fresh
  <2>1. /\ ~f.stmt.fetch_called /\ BackAtStart(f.stmt, f.res)
        /\ f.ret = "row" => f.stmt.has_rows
    BY <1>1, <1>4, CoreHasRowsPromise DEF PromiseInv, Promised
  <2>2. stmt' = f.stmt /\ res' = f.res /\ (out'.ret = "true" => f.ret = "row")
    BY <1>1 DEF Apply, Answer
  <2> QED
    BY <1>2, <2>1, <2>2 DEF PromiseInv, Promised
<1> QED
  BY <1>3, <1>4

(* Every other call takes the result out of its first state. *)
LEMMA FetchEndsPromise ==
  ASSUME StmtInv, PromiseInv, NEW m \in Moves, Fetch(m[1], m[2]) \/ FetchArray(m[1], m[2])
  PROVE  PromiseInv'
<1>1. PICK f \in CoreFetch(m[1], m[2]) : Saw(f)
  BY DEF Fetch, FetchArray
<1>2. Sound(f)
  BY <1>1, CoreFetchSound DEF Fetch, FetchArray, Called
<1> DEFINE seen == IF f.ret = "row" THEN RowOf(f.res, f.odbc) ELSE hist.seen
<1>3. seen \in Nat \X Nat
  <2>1. HandleOK(f.odbc) /\ ResultSetOK(f.res) /\ hist.seen \in Nat \X Nat
    BY <1>2 DEF Sound, Consistent, PromiseInv, Histories
  <2> QED
    <3>1. f.res.id \in Nat /\ f.res.cur \in Nat
      BY <2>1 DEF ResultSetOK, ResultSets
    <3>2. f.odbc.id \in Nat /\ f.odbc.pos \in Nat
      BY <2>1, BoundsAssumption DEF HandleOK, Handles
    <3>3. RowOf(f.res, f.odbc) \in Nat \X Nat
      BY <3>1, <3>2 DEF RowOf
    <3> QED
      BY <2>1, <3>3
<1>4. hist' = [hist EXCEPT !.fresh = FALSE, !.seen = seen]
  BY <1>1 DEF Saw
<1> HIDE DEF seen
<1>5. hist' \in Histories /\ ~hist'.fresh
  BY <1>3, <1>4 DEF PromiseInv, Histories
<1> QED
  BY <1>5, NothingPromised

LEMMA OthersEndPromise ==
  ASSUME PromiseInv, NotFresh
  PROVE  PromiseInv'
<1>1. hist' \in Histories /\ ~hist'.fresh
  BY DEF NotFresh, PromiseInv, Histories
<1> QED
  BY <1>1, NothingPromised

(* Within hdb_execute nothing is promised. *)
LEMMA ExecutingPromise ==
  ASSUME PromiseInv, pc \in {"flush", "bind"}, hist' = hist
  PROVE  PromiseInv'
BY NothingPromised DEF PromiseInv

LEMMA InitPromise == Init => PromiseInv
<1> SUFFICES ASSUME Init PROVE PromiseInv
  OBVIOUS
<1>1. hist = [runs |-> 0, fresh |-> FALSE, seen |-> NoRow]
  BY DEF Init
<1>2. hist \in Histories /\ ~hist.fresh
  BY <1>1 DEF Histories, NoRow
<1> QED
  BY <1>2 DEF PromiseInv

LEMMA NextPromise == StmtInv /\ PromiseInv /\ [Next]_vars => PromiseInv'
<1> SUFFICES ASSUME StmtInv, PromiseInv, [Next]_vars PROVE PromiseInv'
  OBVIOUS
<1>1. CASE Prepare
  BY <1>1, PreparePromise
<1>2. CASE Query
  BY <1>2, QueryPromise
<1>3. CASE Execute
  BY <1>3, OthersEndPromise DEF Execute
<1>4. CASE FlushRound
  BY <1>4, ExecutingPromise DEF FlushRound
<1>5. CASE FlushDone
  BY <1>5, ExecutingPromise DEF FlushDone
<1>6. CASE BindFails
  BY <1>6, ExecutingPromise DEF BindFails
<1>7. CASE BindAndRun
  BY <1>7, BindAndRunPromise
<1>8. ASSUME NEW m \in Moves, Fetch(m[1], m[2]) \/ FetchArray(m[1], m[2])
      PROVE  PromiseInv'
  BY <1>8, FetchEndsPromise
<1>9. ASSUME NEW i \in 0 .. Fields - 1, GetField(i, "value") \/ GetField(i, "stream")
      PROVE  PromiseInv'
  BY <1>9, OthersEndPromise DEF GetField
<1>10. CASE StreamClose
  <2>1. UNCHANGED <<stmt, res, pc, hist>> /\ out'.call = "fclose"
    BY <1>10 DEF StreamClose, Answer
  <2> QED
    BY <2>1 DEF PromiseInv, Promised
<1>11. CASE HasRows
  BY <1>11, HasRowsKeepsPromise
<1>12. CASE NextResult
  BY <1>12, NextResultPromise
<1>13. CASE Count("num_rows") \/ Count("rows_affected")
  BY <1>13, OthersEndPromise DEF Count
<1>14. CASE Cancel
  BY <1>14, OthersEndPromise DEF Cancel, NotFresh
<1>15. CASE Free
  BY <1>15, OthersEndPromise DEF Free, NotFresh
<1>16. CASE LoseConnection
  BY <1>16 DEF LoseConnection, PromiseInv
<1>17. CASE UNCHANGED vars
  BY <1>17 DEF vars, PromiseInv
<1> QED
  BY <1>1, <1>2, <1>3, <1>4, <1>5, <1>6, <1>7, <1>8, <1>9, <1>10, <1>11, <1>12, <1>13, <1>14,
     <1>15, <1>16, <1>17 DEF Next

(* If hdb_has_rows said true right after the execution or hdb_next_result,   *)
(* the first fetch does not come back empty-handed: the probed row of a      *)
(* forward-only cursor is kept for it, and a buffer is put back before its   *)
(* first row (determine_stmt_has_rows).  On a static server cursor the way   *)
(* back may fail, and the row is lost then.                                  *)
THEOREM FoundRowIsFetched ==
  ASSUME "static" \notin CursorTypes
  PROVE  Spec => HasRowsPromise
<1> DEFINE Kept ==
      \A m \in Moves :
        /\ m = <<"next", 0>> /\ Fetch(m[1], m[2])
        /\ hist.fresh /\ out.call = "has_rows" /\ out.ret = "true"
        => out'.ret # "null"
<1>1. StmtInv /\ PromiseInv => Kept
  <2> SUFFICES ASSUME StmtInv, PromiseInv, NEW m \in Moves, m = <<"next", 0>>, Fetch(m[1], m[2]),
                      hist.fresh, out.call = "has_rows", out.ret = "true"
               PROVE  out'.ret # "null"
    OBVIOUS
  <2>1. PICK f \in CoreFetch("next", 0) : Report("fetch", f)
    BY DEF Fetch
  <2>2. f.ret # "no_data"
    BY <2>1, FetchKept DEF PromiseInv, Promised
  <2> QED
    BY <2>1, <2>2 DEF Report, Answer, Fail
<1>2. Init => PromiseInv
  BY InitPromise
<1>3. StmtInv /\ PromiseInv /\ [Next]_vars => PromiseInv'
  BY NextPromise
<1> HIDE DEF Kept
<1>4. StmtInv /\ PromiseInv /\ [Next]_vars => [Kept]_vars
  BY <1>1
<1>5. Spec => [][Kept]_vars
  BY <1>2, <1>3, <1>4, Invariance, PTL DEF Spec
<1> QED
  BY <1>5 DEF HasRowsPromise, Kept

====
