---- MODULE ErrorChains ----
(***************************************************************************)
(* What hdb_errors has to tell: the chains of errors and warnings that one *)
(* request keeps, filled by every function of the extension through the    *)
(* CHECK_* macros and handle_errors_and_warnings, and the settings of      *)
(* hdb_configure that decide where a warning goes.                         *)
(*                                                                         *)
(* The ODBC driver is external: a call on a handle replaces the diagnostic *)
(* records of that handle by the records of its own, and they stay until   *)
(* the next call on it.  A chain that is NULL in the code is empty here.   *)
(***************************************************************************)
EXTENDS Integers, SequencesExt

CONSTANTS
  Infos,      \* the records a call that returns SQL_SUCCESS_WITH_INFO may leave
  Failures,   \* the records a call that returns SQL_ERROR may leave
  Ignorable,  \* the records in g_ss_warnings_to_ignore_ht
  MaxSteps    \* bound: calls one function of the extension makes

(* ODBC leaves at least one record with either result.  The list holds       *)
(* SQLSTATE 01000, 01S02, 01001 and 01003: nothing that a buffered result    *)
(* reports (22003, 01S07, 01004, ...), and no warning of the extension's own. *)
ASSUME RecordsAssumption ==
  /\ \A left \in Infos \cup Failures :
       left # <<>> /\ left \in Seq(UNION {ToSet(other) : other \in Infos \cup Failures})
  /\ Ignorable \cap {"info", "error", "no name"} = {}
  /\ MaxSteps \in Nat

VARIABLES
  wrae,      \* warnings_return_as_errors
  errors,    \* the chain of errors and of warnings taken for errors
  warnings,  \* the chain of the other warnings
  diag,      \* the records on the connection and on the statement handle
  results,   \* the statement's current_results, and the last_error of a buffered one
  call       \* the function that runs: where it stands, the records its calls left
             \* (met), and whether it raised an error of the extension's own

vars == <<wrae, errors, warnings, diag, results, call>>

None == "none"
Contexts == {"none", "conn", "stmt"}
Quiet == [state |-> "idle", steps |-> 0, met |-> <<>>, custom |-> FALSE]
Fresh(records) == [n \in DOMAIN records |-> [what |-> records[n], fresh |-> TRUE]]
Aged(records) == [n \in DOMAIN records |-> [records[n] EXCEPT !.fresh = FALSE]]

(* RINIT: hdb.WarningsReturnAsErrors may say either. *)
Init ==
  /\ wrae \in BOOLEAN
  /\ errors = <<>> /\ warnings = <<>>
  /\ diag = [h \in {"conn", "stmt"} |-> <<>>]
  /\ results = [kind |-> None, last |-> <<>>]
  /\ call = Quiet

----
(* What the loop of the handler finds on a context.  Behind a result set an *)
(* unreadable record ends it, and a pending last_error hides the handle's.  *)
Unreadable(records) == {n \in DOMAIN records : records[n].what = "unreadable"}
Readable(records) ==
  IF Unreadable(records) = {} THEN records ELSE SubSeq(records, 1, Min(Unreadable(records)) - 1)
get_diag_rec(handle, last) == IF last # <<>> THEN last ELSE Readable(handle)
core_hdb_get_odbc_error(ctx, d, res) ==
  CASE ctx = "none" -> <<>>
    [] ctx = "stmt" /\ res.kind # None -> get_diag_rec(d["stmt"], res.last)
    [] OTHER -> d[ctx]

(* copy_error_to_zval and ignore_warning. *)
Reported(what, warning) == ~warning \/ (wrae /\ what \notin Ignorable)
Kept_OnlyIfOff(what, warning) == warning /\ ~wrae
Kept(what, warning) == ~Reported(what, warning)

(* What ss_error_handler answers: were the errors and warnings ignored? *)
Ignored_AnyError(after, warning) == warning /\ (~wrae \/ after = <<>>)
Ignored(after, warning) == warning /\ (~wrae \/ Len(after) = Len(errors))

(* The chain after the loop of the handler: those of the records that are  *)
(* in `kind` are put behind it, one by one.                                *)
Entered(chain, records, kind) ==
  LET after[n \in 0 .. Len(records)] ==
        IF n = 0 THEN chain
        ELSE IF records[n] \in kind THEN Append(after[n - 1], records[n]) ELSE after[n - 1]
  IN  after[Len(records)]

(* handle_errors_and_warnings for the records of one call of the handler, a *)
(* custom error first.  Without a result set the text of an unreadable     *)
(* record is a null pointer.  A fatal error or warning that is not ignored *)
(* is thrown: the function ends with its RETURN_FALSE.                     *)
handle_errors_and_warnings(records, warning, fatal, c) ==
  IF Unreadable(records) # {}
  THEN call' = [c EXCEPT !.state = "crashed"] /\ UNCHANGED <<errors, warnings>>
  ELSE /\ errors' = Entered(errors, records, {e \in ToSet(records) : Reported(e.what, warning)})
       /\ warnings' = Entered(warnings, records, {e \in ToSet(records) : Kept(e.what, warning)})
       /\ call' = IF fatal /\ ~Ignored(errors', warning) THEN [c EXCEPT !.state = "failed"] ELSE c

----
Running == call.state = "running" /\ call.steps < MaxSteps
Met(records, warning, fatal, hidden) ==
  [call EXCEPT !.steps = @ + 1,
               !.met = @ \o [n \in DOMAIN records |-> [what |-> records[n].what, warning |-> warning,
                                                      fatal |-> fatal, hidden |-> hidden]]]
Hides(ctx) == ctx = "stmt" /\ results.kind # None /\ results.last # <<>>

(* process_params, or the function's own reset_errors, at its start. *)
reset_errors_ErrorsOnly == errors' = <<>> /\ UNCHANGED warnings
reset_errors == errors' = <<>> /\ warnings' = <<>>
Enter ==
  /\ call.state \notin {"running", "crashed"}
  /\ reset_errors
  /\ diag' = [h \in DOMAIN diag |-> Aged(diag[h])]
  /\ results' = [results EXCEPT !.last = Aged(@)]
  /\ call' = [Quiet EXCEPT !.state = "running"]
  /\ UNCHANGED wrae

(* An ODBC call that succeeds clears the records of its handle. *)
CallSucceeds ==
  /\ Running
  /\ \E h \in DOMAIN diag : diag' = [diag EXCEPT ![h] = <<>>]
  /\ call' = [call EXCEPT !.steps = @ + 1]
  /\ UNCHANGED <<wrae, errors, warnings, results>>

(* CHECK_SQL_ERROR_OR_WARNING after a call that tells a warning or fails, *)
(* CHECK_SQL_ERROR and CHECK_SQL_WARNING_AS_ERROR of SQLGetData alike.    *)
CheckedCall ==
  /\ Running
  /\ \E h \in DOMAIN diag, warning \in BOOLEAN :
       \E left \in {Fresh(left) : left \in IF warning THEN Infos ELSE Failures} :
         /\ diag' = [diag EXCEPT ![h] = left]
         /\ handle_errors_and_warnings(core_hdb_get_odbc_error(h, diag', results), warning, TRUE,
                                       Met(left, warning, TRUE, Hides(h)))
  /\ UNCHANGED <<wrae, results>>

(* SQLGetData without handle_warning: its warning is left to the caller. *)
UnwatchedCall ==
  /\ Running
  /\ \E left \in Infos : diag' = [diag EXCEPT !["stmt"] = Fresh(left)]
  /\ call' = [call EXCEPT !.steps = @ + 1]
  /\ UNCHANGED <<wrae, errors, warnings, results>>

(* CHECK_SQL_WARNING: a look at the warnings of the statement's last call *)
(* that fails nothing; hdb_has_rows and hdb_stream_read take it.          *)
CHECK_SQL_WARNING ==
  /\ Running /\ diag["stmt"] \in {Fresh(left) : left \in Infos}
  /\ handle_errors_and_warnings(core_hdb_get_odbc_error("stmt", diag, results), TRUE, FALSE,
                                Met(diag["stmt"], TRUE, FALSE, Hides("stmt")))
  /\ UNCHANGED <<wrae, diag, results>>

(* check_for_mars_error in SQLExecute and SQLExecDirect: a connection that *)
(* is busy is reported as the extension's own error before ODBC's.         *)
check_for_mars_error ==
  /\ Running
  /\ \E left \in {Fresh(left) : left \in {f \in Failures : Head(f) = "busy"}} :
       /\ diag' = [diag EXCEPT !["stmt"] = left]
       /\ handle_errors_and_warnings(
            Fresh(<<"mars off">>) \o core_hdb_get_odbc_error("stmt", diag', results), FALSE, TRUE,
            [Met(left, FALSE, TRUE, Hides("stmt")) EXCEPT !.custom = TRUE])
  /\ UNCHANGED <<wrae, results>>

(* SQLRowCount: -1 from the call and in the count is an empty result set. *)
RowCountOfEmpty ==
  /\ Running
  /\ \E left \in Failures : diag' = [diag EXCEPT !["stmt"] = Fresh(left)]
  /\ call' = [call EXCEPT !.steps = @ + 1]
  /\ UNCHANGED <<wrae, errors, warnings, results>>

(* CHECK_CUSTOM_ERROR and THROW_CORE_ERROR: an error of the extension's own, *)
(* with whatever an earlier call left on the handle of the context.          *)
CustomError ==
  /\ Running
  /\ \E ctx \in Contexts :
       handle_errors_and_warnings(Fresh(<<"custom">>) \o core_hdb_get_odbc_error(ctx, diag, results),
                                  FALSE, TRUE, [Met(Fresh(<<"custom">>), FALSE, TRUE, FALSE) EXCEPT !.custom = TRUE])
  /\ UNCHANGED <<wrae, diag, results>>

(* CHECK_CUSTOM_WARNING_AS_ERROR: a column without a name in fetch_fields_common. *)
CustomWarning ==
  /\ Running
  /\ handle_errors_and_warnings(Fresh(<<"no name">>) \o core_hdb_get_odbc_error("stmt", diag, results),
                                TRUE, TRUE, [Met(Fresh(<<"no name">>), TRUE, TRUE, FALSE) EXCEPT !.custom = TRUE])
  /\ UNCHANGED <<wrae, diag, results>>

(* get_data of a buffered result: no ODBC call, its error is last_error, which *)
(* the next get_data or fetch clears.                                          *)
BufferedGetData ==
  /\ Running /\ results.kind = "buffered"
  /\ \/ /\ results' = [results EXCEPT !.last = <<>>]
        /\ call' = [call EXCEPT !.steps = @ + 1] /\ UNCHANGED <<errors, warnings>>
     \/ \E warning \in BOOLEAN, fatal \in BOOLEAN :
          /\ warning \/ fatal
          /\ results' = [results EXCEPT !.last = Fresh(<<IF warning THEN "info" ELSE "error">>)]
          /\ handle_errors_and_warnings(core_hdb_get_odbc_error("stmt", diag, results'), warning, fatal,
                                        Met(results'.last, warning, fatal, FALSE))
  /\ UNCHANGED <<wrae, diag>>

(* A result set of an execution or of hdb_next_result, or the end of one. *)
NewResults ==
  /\ Running
  /\ \E k \in {None, "odbc", "buffered"} : results' = [kind |-> k, last |-> <<>>]
  /\ call' = [call EXCEPT !.steps = @ + 1]
  /\ UNCHANGED <<wrae, errors, warnings, diag>>

Return ==
  /\ call.state = "running"
  /\ call' = [call EXCEPT !.state = "returned"]
  /\ UNCHANGED <<wrae, errors, warnings, diag, results>>

(* hdb_configure: a known setting with a value of its type is taken; a mask *)
(* out of range is refused without a word, all else is a custom error.      *)
hdb_configure ==
  /\ call.state = "running" /\ call.steps = 0
  /\ \/ wrae' \in BOOLEAN /\ call' = [call EXCEPT !.state = "returned"] /\ UNCHANGED <<errors, warnings>>
     \/ wrae' = wrae /\ call' = [call EXCEPT !.state = "refused"] /\ UNCHANGED <<errors, warnings>>
  /\ UNCHANGED <<diag, results>>

(* RSHUTDOWN and the RINIT of the next script; its handles are new. *)
NextRequest ==
  /\ call.state \notin {"running", "crashed"}
  /\ reset_errors
  /\ wrae' \in BOOLEAN
  /\ diag' = [h \in DOMAIN diag |-> <<>>]
  /\ results' = [kind |-> None, last |-> <<>>]
  /\ call' = Quiet

Next ==
  \/ Enter \/ CallSucceeds \/ CheckedCall \/ UnwatchedCall \/ CHECK_SQL_WARNING \/ check_for_mars_error
  \/ RowCountOfEmpty \/ CustomError \/ CustomWarning \/ BufferedGetData \/ NewResults
  \/ Return \/ hdb_configure \/ NextRequest

Spec == Init /\ [][Next]_vars

----
(* hdb_errors( $errorsAndOrWarnings ): both chains or one of them, NULL (empty) *)
(* when there is nothing to tell; it resets nothing.                           *)
hdb_errors(flags) ==
  (IF flags # "warnings" THEN errors ELSE <<>>) \o (IF flags # "errors" THEN warnings ELSE <<>>)

(* The records of met at the places ns are in the chain, in their order. *)
InOrder(ns, met, chain) ==
  \E at \in [ns -> DOMAIN chain] :
    \A n \in ns : /\ chain[at[n]].what = met[n].what
                  /\ \A m \in ns : m < n => at[m] < at[n]
MetReadable == call.state # "crashed" /\ \A e \in ToSet(call.met) : e.what # "unreadable"

(* No diagnostic of a checked call is lost: hdb_errors has each of them, and  *)
(* the errors in the order they came, though the calls of one function share  *)
(* two chains, unless one cannot be read or the error that a buffered result  *)
(* keeps hides them.                                                          *)
NothingLost ==
  LET shown == {n \in DOMAIN call.met : ~call.met[n].hidden} IN
  MetReadable =>
    /\ InOrder({n \in shown : ~call.met[n].warning}, call.met, hdb_errors("errors"))
    /\ \A n \in shown : \E e \in ToSet(hdb_errors("all")) : e.what = call.met[n].what

(* A function fails for a diagnostic that it must not ignore, and only for    *)
(* one of its own calls: a warning of the list never fails it, another one    *)
(* does when WarningsReturnAsErrors is on.  When it fails, hdb_errors has an  *)
(* error to tell, unless the record that tells it cannot be read.             *)
FailsForCause ==
  LET Cause == \E e \in ToSet(call.met) :
                 e.fatal /\ (e.warning => wrae /\ e.what \notin Ignorable)
  IN  /\ call.state = "failed" =>
           /\ Cause \/ \E e \in ToSet(call.met) : e.hidden
           /\ MetReadable => hdb_errors("errors") # <<>>
      /\ call.state = "returned" /\ MetReadable => ~Cause

(* What hdb_errors tells is of the last operation: no record that an earlier  *)
(* function left, unless an error of the extension's own, or the one that a   *)
(* buffered result keeps, brought it along.                                   *)
NothingStale ==
  \A e \in ToSet(hdb_errors("all")) :
    e.fresh \/ call.custom \/ \E m \in ToSet(call.met) : m.hidden
====
