---- MODULE HdbStmt ----
(***************************************************************************)
(* One statement resource of the extension: the hdb_stmt fields that the   *)
(* PHP functions hdb_prepare, hdb_query, hdb_execute, hdb_fetch,           *)
(* hdb_fetch_array, hdb_has_rows, hdb_get_field, hdb_next_result,          *)
(* hdb_num_rows, hdb_cancel and hdb_free_stmt test and set, its result set *)
(* object (an ODBC cursor or a client-side buffer), and the ODBC statement *)
(* underneath, which may refuse or fail any call.                          *)
(*                                                                         *)
(* A PHP request runs one function at a time, so a function is one action; *)
(* only the loop of hdb_execute that skips old results takes a step per    *)
(* round.  An operator named Of_Slip is a slip a programmer could make in  *)
(* Of; the properties are shown to notice it.                              *)
(***************************************************************************)
EXTENDS OdbcStatement

CONSTANTS
  CursorTypes,     \* subset of {"forward", "static", "buffered"}
  ParamKinds,      \* subset of {"none", "given"}: was a parameter array passed?
  Moves,           \* the <<style, offset>> arguments of hdb_fetch
  Fields,          \* a result set with columns has the fields 0 .. Fields - 1
  BufferLimit,     \* rows a buffered result set may hold before its memory limit
  MaxRuns,         \* bound: executions in a behaviour
  ConnectionDies,  \* may the connection break for good?
  MaxLen           \* the largest SQLLEN

ASSUME FieldsAssumption == Fields \in Nat \ {0}
ASSUME BoundsAssumption ==
  /\ MaxRuns \in Nat /\ BufferLimit \in Nat /\ ConnectionDies \in BOOLEAN
  /\ MaxLen \in Nat \ {0} /\ \A r \in Results : r.rows < MaxLen
ASSUME ArgumentsAssumption ==
  /\ CursorTypes \subseteq {"forward", "static", "buffered"}
  /\ ParamKinds \subseteq {"none", "given"}
  /\ Moves \subseteq {"next", "prior", "first", "last", "absolute", "relative"}
                      \X (-(MaxLen + 1) .. MaxLen)

VARIABLES
  stmt,            \* the fields of the ss_hdb_stmt, and whether it exists
  res,             \* stmt->current_results
  odbc,            \* the ODBC statement handle and what the server has for it
  stream,          \* stmt->active_stream: the row it was opened on
  pc,              \* "idle" between calls; "flush", "bind" inside hdb_execute; "dead"
  out,             \* what the last call gave the script
  hist             \* history: executions, whether only hdb_has_rows was
                   \* called on the current result, the last row fetched

vars == <<stmt, res, odbc, stream, pc, out, hist>>

NoResults == [kind |-> "null", id |-> 0, rows |-> 0, cur |-> 0, err |-> "none"]
NoRow == <<0, 0>>
NoStream == [open |-> FALSE, row |-> NoRow]

(* hdb_stmt::hdb_stmt and ss_hdb_stmt::ss_hdb_stmt. *)
NewStmt(type, params, prepared) ==
  [alive |-> TRUE, cursor_type |-> type, params |-> params, prepared |-> prepared,
   executed |-> FALSE, past_fetch_end |-> FALSE, fetch_called |-> FALSE,
   has_rows |-> FALSE, past_next_result_end |-> FALSE, last_field_index |-> -1]

Buffer == INSTANCE BufferedCursor
            WITH rowCount <- res.rows, current <- res.cur, outcome <- out.ret,
                 RowCounts <- -1 .. (MaxLen - 1), Offsets <- { m[2] : m \in Moves }

----
(***************************************************************************)
(* Error reporting.  Every PHP function starts with empty error chains;    *)
(* core_hdb_get_odbc_error asks the result set for diagnostic records, and *)
(* a buffered one answers with its own last_error when it has one.         *)
(***************************************************************************)
Older(tag) == IF tag = "own" THEN "stale" ELSE tag
odbc0 == [odbc EXCEPT !.diag = Older(@)]
res0 == [res EXCEPT !.err = Older(@)]

Diagnostics(r, o) ==
  IF r.kind = "buffered" /\ r.err # "none" THEN {r.err}
  ELSE IF o.diag # "none" THEN {o.diag} ELSE {}

CustomError_OdbcOnly(r, o) == Diagnostics(r, o)

(* An error of the extension itself is reported before the ODBC records. *)
CustomError(r, o) == {"custom"} \cup Diagnostics(r, o)

Answer(call, ret, errs, row) == [call |-> call, ret |-> ret, errs |-> errs, row |-> row]
Fail(call, errs) == Answer(call, "false", errs, NoRow)

(* What core_ functions come back with: ret is "row", "no_data", "error", or *)
(* "dead" when a null result set was dereferenced or HDB_ASSERT failed.      *)
Outcome(s, r, o, st, ret, errs) ==
  [stmt |-> s, res |-> r, odbc |-> o, stream |-> st, ret |-> ret, errs |-> errs]

Apply(f) ==
  /\ stmt' = f.stmt
  /\ res' = f.res
  /\ odbc' = f.odbc
  /\ stream' = f.stream
  /\ pc' = IF f.ret = "dead" THEN "dead" ELSE pc

Called == pc = "idle" /\ stmt.alive

(* A check of the extension refuses the call before anything changed. *)
Refusal == Outcome(stmt, res0, odbc0, stream, "error", CustomError(res0, odbc0))

Reject(call) ==
  /\ Apply(Refusal)
  /\ out' = Fail(call, Refusal.errs)

NotFresh == hist' = [hist EXCEPT !.fresh = FALSE]

----
(***************************************************************************)
(* hdb_stmt::new_result_set: the flags are reset and the old result set is *)
(* deleted first; the buffered one then reads every row, and leaves no     *)
(* result set at all when that fails.                                      *)
(***************************************************************************)
ResetFlags(s) ==
  [s EXCEPT !.fetch_called = FALSE, !.has_rows = FALSE, !.past_next_result_end = FALSE,
            !.past_fetch_end = FALSE, !.last_field_index = -1]

OdbcResults == [NoResults EXCEPT !.kind = "odbc"]

BufferedResults(o, rows) == [NoResults EXCEPT !.kind = "buffered", !.id = o.id, !.rows = rows]

(* Reading the rows into the buffer; `err` tells who raised the exception. *)
ReadIntoBuffer(o) ==
  IF ~o.open THEN [odbc : Refused(o), res : {NoResults}, err : {"odbc"}]
  ELSE IF o.rows > BufferLimit
  THEN [odbc : {[p EXCEPT !.pos = BufferLimit + 1] : p \in Accepted(o)},
        res : {NoResults}, err : {"custom"}]
  ELSE [odbc : {[p EXCEPT !.pos = o.rows + 1] : p \in Accepted(o)},
        res : {BufferedResults(o, o.rows)}, err : {"none"}]
         \cup [odbc : Failed(o, {}), res : {NoResults}, err : {"odbc"}]

NewResultSet(o) ==
  IF stmt.cursor_type # "buffered"
  THEN [odbc : {o}, res : {OdbcResults}, err : {"none"}]
  ELSE UNION { IF ~c.ok THEN [odbc : {c.odbc}, res : {NoResults}, err : {"odbc"}]
               ELSE IF c.ret THEN ReadIntoBuffer(c.odbc)
               ELSE [odbc : {c.odbc}, res : {BufferedResults(o, -1)}, err : {"none"}] :
               c \in SQLNumResultCols(o) }

ErrorsOf(n) == IF n.err = "custom" THEN CustomError(n.res, n.odbc)
               ELSE Diagnostics(n.res, n.odbc)

----
Init ==
  /\ stmt \in { [NewStmt(t, "none", FALSE) EXCEPT !.alive = FALSE] : t \in CursorTypes }
  /\ res = NoResults
  /\ odbc = NewHandle
  /\ stream = NoStream
  /\ pc = "idle"
  /\ out = Answer("none", "true", {}, NoRow)
  /\ hist = [runs |-> 0, fresh |-> FALSE, seen |-> NoRow]

(* hdb_prepare: a statement object and a prepared ODBC handle, or neither. *)
Prepare ==
  /\ pc = "idle" /\ ~stmt.alive
  /\ \/ /\ odbc' \in {CloseCursor(o) : o \in Accepted(odbc0)}
        /\ stmt' \in {NewStmt(stmt.cursor_type, p, TRUE) : p \in ParamKinds}
        /\ out' = Answer("prepare", "true", {}, NoRow)
     \/ /\ odbc' \in Failed(odbc0, {})
        /\ out' = Fail("prepare", {"own"})
        /\ UNCHANGED stmt
  /\ UNCHANGED <<res, stream, pc, hist>>

(***************************************************************************)
(* core_hdb_execute from SQLExecute on, with the statement fields s that   *)
(* bind_params left.  The exception handler cancels only a statement that  *)
(* counts as executed, and leaves that flag alone.                         *)
(***************************************************************************)
Abandon_DropResults(s, r, o, errs) ==
  {Outcome(s, NoResults, p, NoStream, "error", errs) :
     p \in IF s.executed THEN SQLCancel(o) ELSE {o}}

Abandon(s, r, o, errs) ==
  {Outcome(s, r, p, NoStream, "error", errs) : p \in IF s.executed THEN SQLCancel(o) ELSE {o}}

(* core::SQLRowCount takes an error that left -1 in rows_affected, which is not *)
(* initialised, for a count of 0.                                               *)
HasAnyResult(o) == Accepted(o) \cup Failed(o, {})

CoreExecute(s, o) ==
  LET ran(n) == [ResetFlags(s) EXCEPT !.executed = TRUE]
      results(n) ==
        IF n.err # "none" THEN Abandon(ResetFlags(s), n.res, n.odbc, ErrorsOf(n))
        ELSE {Outcome(ran(n), n.res, p, NoStream, "row", {}) : p \in HasAnyResult(n.odbc)}
               \* core_hdb_has_any_result throws
               \cup UNION {Abandon(ran(n), n.res, p, Diagnostics(n.res, p)) : p \in Failed(n.odbc, {})}
  IN  UNION { IF e.ok THEN UNION {results(n) : n \in NewResultSet(e.odbc)}
              ELSE Abandon(s, res0, e.odbc, Diagnostics(res0, e.odbc)) :
              e \in SQLExecute(o, s.params # "lost") }

Ran(f) == hist' = [hist EXCEPT !.runs = @ + 1, !.fresh = f.ret # "error"]

(* hdb_query: create, bind and execute; a statement that fails is destroyed. *)
Query ==
  /\ pc = "idle" /\ ~stmt.alive /\ hist.runs < MaxRuns
  /\ \E f \in CoreExecute(NewStmt(stmt.cursor_type, "none", FALSE), odbc0) :
       /\ IF f.ret = "error"
          THEN /\ out' = Fail("query", f.errs)
               /\ odbc' = CloseCursor(f.odbc)
               /\ UNCHANGED <<stmt, res, stream, pc>>
          ELSE /\ out' = Answer("query", "true", {}, NoRow)
               /\ Apply(f)
       /\ Ran(f)

Execute_NoFlush ==
  /\ Called /\ hist.runs < MaxRuns /\ stmt.prepared
  /\ pc' = "bind"
  /\ odbc' = odbc0
  /\ res' = res0
  /\ out' = Answer("execute", "true", {}, NoRow)
  /\ UNCHANGED <<stmt, stream>>
  /\ NotFresh

(* hdb_execute, up to the loop that skips the results of the last execution. *)
Execute ==
  /\ Called /\ hist.runs < MaxRuns
  /\ \/ /\ ~stmt.prepared
        /\ Reject("execute")
     \/ /\ stmt.prepared
        /\ pc' = IF stmt.executed THEN "flush" ELSE "bind"
        /\ odbc' = odbc0
        /\ res' = res0
        /\ out' = Answer("execute", "true", {}, NoRow)
        /\ UNCHANGED <<stmt, stream>>
  /\ NotFresh

NextResultUnchecked_EndForgotten ==
  { Outcome(IF m.ret = "end" THEN stmt ELSE ResetFlags(stmt), OdbcResults, m.odbc,
            NoStream, "row", {}) : m \in SQLMoreResults(odbc) }

(* core_hdb_next_result( stmt, false, false ): SQLMoreResults is called past *)
(* the wrapper that would throw, so its error counts as another result.      *)
NextResultUnchecked ==
  UNION { IF m.ret = "end"
          THEN {Outcome([stmt EXCEPT !.past_next_result_end = TRUE], res, m.odbc, NoStream, "row", {})}
          ELSE UNION { IF n.err = "none"
                       THEN {Outcome(ResetFlags(stmt), n.res, n.odbc, NoStream, "row", {})}
                       ELSE {Outcome(ResetFlags(stmt), n.res, o, NoStream, "error", ErrorsOf(n)) :
                               o \in SQLCancel(n.odbc)} :
                       n \in NewResultSet(m.odbc) } :
          m \in SQLMoreResults(odbc) }

FlushRound ==
  /\ pc = "flush" /\ ~stmt.past_next_result_end
  /\ \E f \in NextResultUnchecked :
       /\ stmt' = f.stmt
       /\ res' = f.res
       /\ odbc' = f.odbc
       /\ stream' = f.stream
       /\ IF f.ret = "error"
          THEN /\ pc' = "idle"
               /\ out' = Fail("execute", f.errs)
          ELSE UNCHANGED <<pc, out>>
  /\ UNCHANGED hist

FlushDone ==
  /\ pc = "flush" /\ stmt.past_next_result_end
  /\ pc' = "bind"
  /\ UNCHANGED <<stmt, res, odbc, stream, out, hist>>

(* bind_params fails: the parameter array is dropped, and not set again. *)
BindFails ==
  /\ pc = "bind" /\ stmt.params = "given"
  /\ pc' = "idle"
  /\ stmt' = [stmt EXCEPT !.params = "lost", !.executed = FALSE]
  /\ out' = Fail("execute", CustomError(res, odbc))
  /\ UNCHANGED <<res, odbc, stream, hist>>

(* bind_params clears `executed`, but only when there are parameters to bind. *)
Bound == IF stmt.params = "given" THEN [stmt EXCEPT !.executed = FALSE] ELSE stmt

BindAndRun ==
  /\ pc = "bind"
  /\ pc' = "idle"
  /\ \E f \in CoreExecute(Bound, odbc) :
       /\ stmt' = f.stmt
       /\ res' = f.res
       /\ odbc' = f.odbc
       /\ stream' = f.stream
       /\ out' = IF f.ret = "error" THEN Fail("execute", f.errs)
                 ELSE Answer("execute", "true", {}, NoRow)
       /\ Ran(f)

----
(***************************************************************************)
(* core_hdb_fetch.                                                         *)
(***************************************************************************)
(* The number of columns is only looked at when no row is current. *)
ColumnsBeforeFetch ==
  IF stmt.fetch_called THEN [odbc : {odbc0}, ret : {TRUE}, ok : {TRUE}]
  ELSE SQLNumResultCols(odbc0)

Prefetched_NeverUsed == FALSE

(* hdb_has_rows has already fetched the first row of a forward-only cursor. *)
Prefetched == stmt.cursor_type = "forward" /\ stmt.has_rows /\ ~stmt.fetch_called

AfterRow(s) == [s EXCEPT !.fetch_called = TRUE, !.last_field_index = -1, !.has_rows = TRUE]

AfterNoData_RowStaysCurrent(s) ==
  [s EXCEPT !.past_fetch_end = @ \/ s.cursor_type = "forward"]

AfterNoData(s) ==
  [s EXCEPT !.past_fetch_end = @ \/ s.cursor_type = "forward", !.fetch_called = FALSE]

(* hdb_buffered_result_set::fetch, which also forgets the last error. *)
BufferedPosition(style, offset) ==
  IF Buffer!BeforeFirst(style, offset) THEN 0
  ELSE IF Buffer!AfterLast(style, offset) THEN res.rows + 1 ELSE Buffer!Moved(style, offset)

BufferedFound(style, offset) ==
  ~Buffer!BeforeFirst(style, offset) /\ ~Buffer!AfterLast(style, offset)

(* current_results->fetch, by kind of result set: where it ends and with what. *)
ResultsFetch(o, style, offset) ==
  IF res.kind = "buffered"
  THEN {[odbc |-> o,
         res |-> [res EXCEPT !.cur = BufferedPosition(style, offset), !.err = "none"],
         ret |-> IF BufferedFound(style, offset) THEN "row" ELSE "no_data"]}
  ELSE {[odbc |-> f.odbc, res |-> res, ret |-> f.ret] :
          f \in SQLFetchScroll(o, stmt.cursor_type = "forward", style,
                               Buffer!ResultSetOffset(style, offset))}

MoveCursor_StreamKept(o, style, offset) ==
  { CASE f.ret = "row"     -> Outcome(AfterRow(stmt), f.res, f.odbc, stream, "row", {})
      [] f.ret = "no_data" -> Outcome(AfterNoData(stmt), f.res, f.odbc, stream, "no_data", {})
      [] f.ret = "error"   -> Outcome(stmt, f.res, f.odbc, stream, "error",
                                      Diagnostics(f.res, f.odbc)) :
    f \in ResultsFetch(o, style, offset) }

MoveCursor(o, style, offset) ==
  { CASE f.ret = "row"     -> Outcome(AfterRow(stmt), f.res, f.odbc, NoStream, "row", {})
      [] f.ret = "no_data" -> Outcome(AfterNoData(stmt), f.res, f.odbc, NoStream, "no_data", {})
      [] f.ret = "error"   -> Outcome(stmt, f.res, f.odbc, NoStream, "error",
                                      Diagnostics(f.res, f.odbc)) :
    f \in ResultsFetch(o, style, offset) }

CoreFetch(style, offset) ==
  IF ~stmt.executed \/ stmt.past_fetch_end THEN {Refusal}
  ELSE UNION { IF ~c.ok
               THEN {Outcome(stmt, res0, c.odbc, stream, "error", Diagnostics(res0, c.odbc))}
               ELSE IF ~c.ret
               THEN {Outcome(stmt, res0, c.odbc, stream, "error", CustomError(res0, c.odbc))}
               ELSE IF Prefetched
               THEN {Outcome([stmt EXCEPT !.fetch_called = TRUE], res0, c.odbc, NoStream, "row", {})}
               ELSE IF res.kind = "null"
               THEN {Outcome(stmt, res0, c.odbc, NoStream, "dead", {})}
               ELSE MoveCursor(c.odbc, style, offset) :
               c \in ColumnsBeforeFetch }

(* The row the script stands on; an ODBC result set has no position of its own. *)
RowOf(r, o) == IF r.kind = "buffered" THEN <<r.id, r.cur>> ELSE <<o.id, o.pos>>

Report(call, f) ==
  out' = CASE f.ret = "row"     -> Answer(call, "true", {}, RowOf(f.res, f.odbc))
           [] f.ret = "no_data" -> Answer(call, "null", {}, NoRow)
           [] OTHER             -> Fail(call, f.errs)

Saw(f) == hist' = [hist EXCEPT !.fresh = FALSE,
                               !.seen = IF f.ret = "row" THEN RowOf(f.res, f.odbc) ELSE @]

Fetch(style, offset) ==
  /\ Called
  /\ \E f \in CoreFetch(style, offset) : Apply(f) /\ Report("fetch", f) /\ Saw(f)

(***************************************************************************)
(* core_hdb_get_field: reading one field of the current row.  The default  *)
(* PHP type is looked up with SQLColAttribute before the value is read.    *)
(***************************************************************************)
ValueOf(r, o) ==
  IF r.kind = "buffered"
  THEN IF r.cur \notin 1 .. r.rows THEN {[odbc |-> o, res |-> r, ret |-> "dead"]}
       ELSE [odbc : {o}, res : {[r EXCEPT !.err = "none"]}, ret : {"value"}]
              \cup [odbc : {o}, res : {[r EXCEPT !.err = "own"]}, ret : {"error"}]
  ELSE {[odbc |-> d.odbc, res |-> r, ret |-> IF d.ok THEN "value" ELSE "error"] : d \in OnResult(o)}

ReadField(r, o) ==
  UNION { IF a.ok THEN ValueOf(r, a.odbc) ELSE {[odbc |-> a.odbc, res |-> r, ret |-> "error"]} :
          a \in SQLColAttribute(o) }

(* fetch_fields_common: every field in order; one that fails loses the row. *)
ReadRow(f) ==
  LET columns == SQLNumResultCols(f.odbc)
      upto(i) == [f.stmt EXCEPT !.last_field_index = i]
      none(c) == Outcome(f.stmt, f.res, c.odbc, NoStream, "error", Diagnostics(f.res, c.odbc))
      all(c) == { IF v.ret = "value"
                  THEN {Outcome(upto(Fields - 1), v.res, v.odbc, NoStream, "row", {})}
                  ELSE {Outcome(upto(i), v.res, v.odbc, NoStream, v.ret,
                                Diagnostics(v.res, v.odbc)) : i \in -1 .. Fields - 2} :
                  v \in ReadField(f.res, c.odbc) }
  IN  UNION { IF ~c.ok THEN {none(c)}
              ELSE IF ~c.ret THEN {Outcome(f.stmt, f.res, c.odbc, NoStream, "row", {})}
              ELSE UNION all(c) :
              c \in columns }

(* hdb_fetch_array and hdb_fetch_object. *)
FetchArray(style, offset) ==
  /\ Called
  /\ \E f \in CoreFetch(style, offset) :
       /\ \E g \in IF f.ret = "row" THEN ReadRow(f) ELSE {f} :
            Apply(g) /\ Report("fetch_array", g)
       /\ Saw(f)

----
(***************************************************************************)
(* hdb_has_rows and determine_stmt_has_rows.  Scrollable cursors fetch the *)
(* first row and go back before it; a failure on the way back is caught    *)
(* when has_rows is already set.  The arguments of the two fetches reach   *)
(* the result set as they are, so they are one less as script offsets.     *)
(***************************************************************************)
HasRowsAs(value) == [stmt EXCEPT !.has_rows = value]

ScrollBack(f) ==
  { Outcome(HasRowsAs(TRUE), IF res.kind = "buffered" THEN [f.res EXCEPT !.cur = 0] ELSE f.res,
            b.odbc, stream, IF b.ret = "error" THEN "error" ELSE "row",
            IF b.ret = "error" THEN Diagnostics(f.res, b.odbc) ELSE {}) :
    b \in IF res.kind = "buffered" THEN {[odbc |-> f.odbc, ret |-> "no_data"]}
          ELSE SQLFetchScroll(f.odbc, FALSE, "absolute", 0) }

ProbeScrollable(o) ==
  IF res.kind = "null" THEN {Outcome(HasRowsAs(FALSE), res0, o, stream, "dead", {})}
  ELSE UNION { CASE f.ret = "row"     -> ScrollBack(f)
                 [] f.ret = "no_data" -> {Outcome(HasRowsAs(FALSE), f.res, f.odbc, stream, "no_data", {})}
                 [] f.ret = "error"   -> {Outcome(HasRowsAs(FALSE), f.res, f.odbc, stream, "error",
                                                  Diagnostics(f.res, f.odbc))} :
               f \in ResultsFetch(o, "first", -1) }

ProbeForward(o) ==
  { Outcome(HasRowsAs(f.ret = "row"), res0, f.odbc, stream, f.ret,
            IF f.ret = "error" THEN Diagnostics(res0, f.odbc) ELSE {}) :
    f \in SQLFetchScroll(o, TRUE, "next", 0) }

DetermineHasRows ==
  UNION { IF ~c.ok
          THEN {Outcome(HasRowsAs(FALSE), res0, c.odbc, stream, "error", Diagnostics(res0, c.odbc))}
          ELSE IF ~c.ret THEN {Outcome(HasRowsAs(FALSE), res0, c.odbc, stream, "no_data", {})}
          ELSE IF stmt.cursor_type = "forward" THEN ProbeForward(c.odbc)
          ELSE ProbeScrollable(c.odbc) :
          c \in SQLNumResultCols(odbc0) }

CoreHasRows ==
  IF ~stmt.executed THEN {Refusal}
  ELSE IF stmt.has_rows THEN {Outcome(stmt, res0, odbc0, stream, "row", {})}
  ELSE IF stmt.fetch_called THEN {Outcome(stmt, res0, odbc0, stream, "no_data", {})}
  ELSE DetermineHasRows

HasRows ==
  /\ Called
  /\ \E f \in CoreHasRows :
       /\ Apply(f)
       /\ out' = Answer("has_rows", IF f.ret = "row" THEN "true" ELSE "false", f.errs, NoRow)
  /\ UNCHANGED hist

----
(***************************************************************************)
(* hdb_get_field.  A field read to its end is not read again by the driver.*)
(***************************************************************************)
FieldRefused(i) == ~stmt.executed \/ ~stmt.fetch_called \/ stmt.last_field_index > i

FieldRead(i) == [stmt EXCEPT !.last_field_index = i]

GetValue(o, i) ==
  { IF v.ret = "value" THEN Outcome(FieldRead(i), v.res, v.odbc, NoStream, "row", {})
    ELSE Outcome(stmt, v.res, v.odbc, NoStream, v.ret, Diagnostics(v.res, v.odbc)) :
    v \in ReadField(res0, o) }
  \cup { Outcome(stmt, v.res, v.odbc, NoStream, "error", CustomError(v.res, v.odbc)) :
         v \in {x \in ReadField(res0, o) : x.ret = "value" /\ stmt.last_field_index = i} }

(* The stream remembers the statement and the field, not the row. *)
GetStream(o, i) ==
  { IF a.ok
    THEN Outcome(FieldRead(i), res0, a.odbc, [open |-> TRUE, row |-> RowOf(res, a.odbc)], "row", {})
    ELSE Outcome(stmt, res0, a.odbc, NoStream, "error", Diagnostics(res0, a.odbc)) :
    a \in SQLColAttribute(o) }

CoreGetField(i, type) ==
  UNION { IF ~c.ok
          THEN {Outcome(stmt, res0, c.odbc, stream, "error", Diagnostics(res0, c.odbc))}
          ELSE IF ~c.ret
          THEN {Outcome(stmt, res0, c.odbc, stream, "error", CustomError(res0, c.odbc))}
          ELSE IF FieldRefused(i)
          THEN {Outcome(stmt, res0, c.odbc, NoStream, "error", CustomError(res0, c.odbc))}
          ELSE IF type = "stream" THEN GetStream(c.odbc, i) ELSE GetValue(c.odbc, i) :
          c \in SQLNumResultCols(odbc0) }

GetField(i, type) ==
  /\ Called
  /\ \E f \in CoreGetField(i, type) : Apply(f) /\ Report("get_field", f)
  /\ NotFresh

(* The script closes the stream it was given: hdb_stream_close. *)
StreamClose ==
  /\ Called /\ stream.open
  /\ stream' = NoStream
  /\ out' = Answer("fclose", "true", {}, NoRow)
  /\ UNCHANGED <<stmt, res, odbc, pc, hist>>

----
(***************************************************************************)
(* The remaining functions of the statement.                               *)
(***************************************************************************)
CancelAfter(s, r, o, st, errs) == {Outcome(s, r, p, st, "error", errs) : p \in SQLCancel(o)}

(* core_hdb_next_result( stmt, true ): every exception cancels the statement. *)
CoreNextResult ==
  IF ~stmt.executed \/ stmt.past_next_result_end
  THEN CancelAfter(stmt, res0, odbc0, stream, Refusal.errs)
  ELSE UNION {
         CASE m.ret = "end" ->
                {Outcome([stmt EXCEPT !.past_next_result_end = TRUE], res0, m.odbc, NoStream,
                         "no_data", {})}
           [] m.ret = "error" ->
                CancelAfter(stmt, res0, m.odbc, NoStream, Diagnostics(res0, m.odbc))
           [] m.ret = "more" ->
                UNION { IF n.err = "none"
                        THEN {Outcome(ResetFlags(stmt), n.res, n.odbc, NoStream, "row", {})}
                        ELSE CancelAfter(ResetFlags(stmt), n.res, n.odbc, NoStream, ErrorsOf(n)) :
                        n \in NewResultSet(m.odbc) } :
         m \in SQLMoreResults(odbc0) }

NextResult ==
  /\ Called
  /\ \E f \in CoreNextResult :
       /\ Apply(f)
       /\ out' = CASE f.ret = "row"     -> Answer("next_result", "true", {}, NoRow)
                   [] f.ret = "no_data" -> Answer("next_result", "null", {}, NoRow)
                   [] f.ret = "error"   -> Fail("next_result", f.errs)
       /\ hist' = [hist EXCEPT !.fresh = f.ret = "row"]

(* hdb_num_rows wants a scrollable cursor, hdb_rows_affected a forward-only one. *)
(* An SQLRowCount error may count as 0 here too.                                 *)
CountRefused(call) ==
  ~stmt.executed \/ (stmt.cursor_type = "forward") # (call = "rows_affected")

CoreCount(call) ==
  CASE CountRefused(call)    -> {Refusal}
    [] ~CountRefused(call) /\ res.kind = "null" ->
         {Outcome(stmt, res0, odbc0, stream, "dead", {})}
    [] ~CountRefused(call) /\ res.kind = "buffered" ->
         {Outcome(stmt, [res EXCEPT !.err = "none"], odbc0, stream, "row", {})}
    [] ~CountRefused(call) /\ res.kind = "odbc" ->
         {Outcome(stmt, res0, c.odbc, stream, "row", {}) : c \in OnResult(odbc0)} \cup
         {Outcome(stmt, res0, c.odbc, stream, "error", Diagnostics(res0, c.odbc)) :
            c \in {x \in OnResult(odbc0) : ~x.ok}}

Count(call) ==
  /\ Called
  /\ \E f \in CoreCount(call) :
       /\ Apply(f)
       /\ out' = IF f.ret = "row" THEN Answer(call, "true", {}, NoRow) ELSE Fail(call, f.errs)
  /\ NotFresh

(* hdb_cancel tells ODBC, and neither the flags nor the buffered rows. *)
Cancel ==
  /\ Called
  /\ stream' = NoStream
  /\ \/ /\ ~odbc.lost
        /\ odbc' \in SQLCancel(odbc0)
        /\ out' = Answer("cancel", "true", {}, NoRow)
     \/ /\ odbc' \in Failed(odbc0, SQLCancel(odbc0))
        /\ out' = Fail("cancel", Diagnostics(res0, odbc'))
  /\ res' = res0
  /\ hist' = [hist EXCEPT !.fresh = FALSE]
  /\ UNCHANGED <<stmt, pc>>

(* hdb_free_stmt, or the last reference goes: hdb_stmt_dtor. *)
Free ==
  /\ Called
  /\ stmt' = [NewStmt(stmt.cursor_type, "none", FALSE) EXCEPT !.alive = FALSE]
  /\ res' = NoResults
  /\ odbc' = CloseCursor([odbc EXCEPT !.diag = "none"])
  /\ stream' = NoStream
  /\ out' = Answer("free", "true", {}, NoRow)
  /\ hist' = [hist EXCEPT !.fresh = FALSE]
  /\ UNCHANGED pc

LoseConnection ==
  /\ ConnectionDies /\ ~odbc.lost /\ pc # "dead"
  /\ odbc' = [odbc EXCEPT !.lost = TRUE]
  /\ UNCHANGED <<stmt, res, stream, pc, out, hist>>

Next ==
  \/ Prepare \/ Query \/ Execute \/ FlushRound \/ FlushDone \/ BindFails \/ BindAndRun
  \/ \E m \in Moves : Fetch(m[1], m[2]) \/ FetchArray(m[1], m[2])
  \/ \E i \in 0 .. Fields - 1 : GetField(i, "value") \/ GetField(i, "stream")
  \/ StreamClose \/ HasRows \/ NextResult
  \/ Count("num_rows") \/ Count("rows_affected")
  \/ Cancel \/ Free \/ LoseConnection

(* hdb_execute runs to its end once called; scripts need not call anything. *)
Fairness == WF_vars(FlushRound) /\ WF_vars(FlushDone) /\ WF_vars(BindAndRun)

Spec == Init /\ [][Next]_vars
FairSpec == Spec /\ Fairness

----
TypeOK ==
  /\ stmt \in [alive : BOOLEAN, cursor_type : CursorTypes, params : {"none", "given", "lost"},
               prepared : BOOLEAN, executed : BOOLEAN, past_fetch_end : BOOLEAN,
               fetch_called : BOOLEAN, has_rows : BOOLEAN, past_next_result_end : BOOLEAN,
               last_field_index : -1 .. Fields - 1]
  /\ res.kind \in {"null", "odbc", "buffered"} /\ res.err \in {"none", "own", "stale"}
  /\ res.kind = "buffered" => res.rows \in -1 .. BufferLimit /\ res.cur \in 0 .. res.rows + 1
  /\ odbc.pos \in 0 .. odbc.rows + 1 /\ odbc.diag \in {"none", "own", "stale"}
  /\ stream.open \in BOOLEAN
  /\ pc \in {"idle", "flush", "bind", "dead"}
  /\ out.ret \in {"true", "false", "null"}
  /\ out.errs \subseteq {"own", "stale", "custom"}

(* Whenever fields may be read (fetch_called), there is a row under the      *)
(* cursor: the assertion in get_row, and what hdb_get_field relies on.       *)
FetchedRowExists ==
  stmt.fetch_called =>
    CASE res.kind = "buffered" -> res.cur \in 1 .. res.rows
      [] res.kind = "odbc"     -> odbc.open => odbc.pos \in 1 .. odbc.rows
      [] res.kind = "null"     -> FALSE

(* An open stream reads the row it was opened on: hdb_stream_read calls      *)
(* SQLGetData on the statement handle whenever the script reads, so whatever *)
(* moves that handle must close the stream or leave its row.  Over a buffer  *)
(* the handle is past its last row from the start.                           *)
StreamOnItsRow ==
  stream.open /\ res.kind # "buffered" => stream.row = <<odbc.id, odbc.pos>>

(* A function that returned false has reported an error of that very call.   *)
OwnErrorReported ==
  out.ret = "false" /\ out.call # "has_rows" /\ pc # "dead" =>
    out.errs \cap {"own", "custom"} # {}

(* No call dereferences a null result set or dies in an assertion: errors    *)
(* come back as false.                                                       *)
NeverDies == pc # "dead"

(* The loop in hdb_execute leaves no cursor open under the next execution.   *)
CursorClosedBeforeExecute == pc = "bind" => ~(odbc.open /\ odbc.cols)

(* hdb_fetch with the default style delivers the row after the one fetched   *)
(* last, the first row of a new result first: no row is skipped or repeated, *)
(* whatever calls come in between.                                           *)
NextIsSuccessor ==
  [][\A m \in Moves :
       m = <<"next", 0>> /\ Fetch(m[1], m[2]) /\ out'.ret = "true" =>
         out'.row[2] = 1 + (IF hist.seen[1] = out'.row[1] THEN hist.seen[2] ELSE 0)]_vars

(* If hdb_has_rows said true right after the execution or hdb_next_result,   *)
(* the first fetch does not come back empty-handed.                          *)
HasRowsPromise ==
  [][\A m \in Moves :
       /\ m = <<"next", 0>> /\ Fetch(m[1], m[2])
       /\ hist.fresh /\ out.call = "has_rows" /\ out.ret = "true"
       => out'.ret # "null"]_vars

(* hdb_execute gets past the results of the execution before it.             *)
FlushTerminates == pc = "flush" ~> pc # "flush"
====
