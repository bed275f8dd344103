---- MODULE OdbcStatement ----
(***************************************************************************)
(* The ODBC statement handle under a statement resource, as the driver     *)
(* manager and the server let the extension see it.  It is not part of the *)
(* extension: the operators say what the calls of core_hdb.h's core::SQLxxx*)
(* wrappers can come back with.  A call succeeds and clears the diagnostic *)
(* area, or fails and leaves a record there.  Failures come in three kinds:*)
(* a lost connection, for good; at most MaxFaults passing ones; and, with  *)
(* WarningsReturnAsErrors, a call that did its work with a warning, which  *)
(* CHECK_SQL_ERROR_OR_WARNING takes for a failure.                         *)
(***************************************************************************)
EXTENDS Integers, Sequences

CONSTANTS
  Batches,         \* what executing can produce: sequences of [cols, rows]
  WarningsAsErrors, \* warnings_return_as_errors, and warnings that are not ignored?
  MaxFaults        \* bound: passing failures in a behaviour

Results == UNION { {b[i] : i \in DOMAIN b} : b \in Batches }

ASSUME BatchesAssumption ==
  \A b \in Batches : /\ b \in Seq([cols : BOOLEAN, rows : Nat]) /\ b # <<>>
                     /\ \A i \in DOMAIN b : ~b[i].cols => b[i].rows = 0
ASSUME FaultsAssumption == MaxFaults \in Nat /\ WarningsAsErrors \in BOOLEAN

NewHandle ==
  [open |-> FALSE,    \* does the server hold a current result?
   id |-> 0,          \* which result of this behaviour it is
   cols |-> FALSE,    \* has it columns?
   rows |-> 0,        \* its rows, as the server sees them
   pos |-> 0,         \* the server cursor: 0 before the first row, rows + 1 after the last
   rest |-> <<>>,     \* the results still to come
   diag |-> "none",   \* the diagnostic area: "own" of this PHP call or "stale"
   faults |-> 0, lost |-> FALSE]

Accepted(o) == IF o.lost THEN {} ELSE {[o EXCEPT !.diag = "none"]}

Refused(o) == {[o EXCEPT !.diag = "own"]}

(* `done` holds the handles that the call leaves when it does its work. *)
Failed(o, done) ==
  IF o.lost THEN Refused(o)
  ELSE {p \in {[q EXCEPT !.diag = "own", !.faults = @ + 1] :
                 q \in {o} \cup {d \in done : WarningsAsErrors}} :
          p.faults <= MaxFaults}

(* Without a current result the answer may describe the prepared query. *)
SQLNumResultCols(o) ==
  [odbc : Accepted(o), ret : IF o.open THEN {o.cols} ELSE BOOLEAN, ok : {TRUE}]
    \cup [odbc : IF o.open THEN Failed(o, {}) ELSE Refused(o), ret : {FALSE}, ok : {FALSE}]

(* Cancelling closes the cursor, or does nothing when nothing is running. *)
SQLCancel(o) ==
  IF o.lost THEN Refused(o)
  ELSE Accepted(o) \cup {[p EXCEPT !.open = FALSE, !.rest = <<>>] : p \in Accepted(o)}

MakeCurrent(o, result, rest) ==
  [o EXCEPT !.open = TRUE, !.id = @ + 1, !.cols = result.cols, !.rows = result.rows,
            !.pos = 0, !.rest = rest]

CloseCursor(o) == [o EXCEPT !.open = FALSE, !.rest = <<>>]

Executed(o) == {MakeCurrent(p, Head(b), Tail(b)) : p \in Accepted(o), b \in Batches}

(* `bound`: every parameter marker has a value bound to it.  Executing over an *)
(* open cursor is an invalid cursor state, and leaves the cursor as it is.     *)
SQLExecute(o, bound) ==
  IF o.open /\ o.cols THEN [odbc : Refused(o), ok : {FALSE}]
  ELSE IF ~bound THEN [odbc : Refused(CloseCursor(o)), ok : {FALSE}]
  ELSE [odbc : Executed(o), ok : {TRUE}]
         \cup [odbc : Failed(CloseCursor(o), Executed(o)), ok : {FALSE}]

(* "end": there is no further result.  A member that fails is skipped. *)
SQLMoreResults(o) ==
  IF o.rest = <<>>
  THEN [odbc : Accepted(CloseCursor(o)), ret : {"end"}]
         \cup [odbc : Failed(CloseCursor(o), {}), ret : {"error"}]
  ELSE LET done == {MakeCurrent(p, Head(o.rest), Tail(o.rest)) : p \in Accepted(o)}
       IN  [odbc : done, ret : {"more"}]
             \cup [odbc : Failed([o EXCEPT !.open = FALSE, !.rest = Tail(@)], done), ret : {"error"}]

(* Where a server cursor is sent; negative absolute offsets count from the end. *)
ScrollTarget(o, style, offset) ==
  CASE style = "next"     -> o.pos + 1
    [] style = "prior"    -> o.pos - 1
    [] style = "first"    -> 1
    [] style = "last"     -> o.rows
    [] style = "absolute" -> IF offset < 0 THEN o.rows + 1 + offset ELSE offset
    [] style = "relative" -> o.pos + offset

SQLFetchScroll(o, forward, style, offset) ==
  LET target == ScrollTarget(o, style, offset)
      stop == IF target < 1 THEN 0 ELSE IF target > o.rows THEN o.rows + 1 ELSE target
      done == {[p EXCEPT !.pos = stop] : p \in Accepted(o)}
  IN  IF ~o.open \/ ~o.cols \/ (forward /\ style # "next")
      THEN [odbc : Refused(o), ret : {"error"}]
      ELSE [odbc : done, ret : {IF target \in 1 .. o.rows THEN "row" ELSE "no_data"}]
             \cup [odbc : Failed(o, {d \in done : target \in 1 .. o.rows}), ret : {"error"}]

(* Metadata can be had of a prepared query too; values and counts cannot. *)
SQLColAttribute(o) ==
  [odbc : Accepted(o), ok : {TRUE}]
    \cup [odbc : IF o.open THEN Failed(o, {}) ELSE Refused(o), ok : {FALSE}]

OnResult(o) ==
  [odbc : {p \in Accepted(o) : p.open}, ok : {TRUE}]
    \cup [odbc : IF o.open THEN Failed(o, {}) ELSE Refused(o), ok : {FALSE}]
====
