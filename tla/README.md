# TLA+ models of the HDB PHP driver

This directory specifies and checks the PHP extension under `src/source`: a
procedural PHP API (`hdb_connect`, `hdb_query`, `hdb_fetch`, ...) over ODBC. Paths
below are relative to `src/source`; files without a directory that start with
`core_`, `FormattedPrint`, `localizationimpl` or `interlockedslist` are in `shared`.

## 1. Inventory

| part | code | state it keeps | operations |
|---|---|---|---|
| connection resource | `conn.cpp`, `core_conn.cpp` | ODBC handle, `in_transaction`, table `stmts` of statement resources | `hdb_connect` (options, connection string), `hdb_close`, `hdb_begin_transaction`, `hdb_commit`, `hdb_rollback`, resource destructor |
| statement resource | `stmt.cpp`, `core_stmt.cpp` | `executed`, `fetch_called`, `has_rows`, `past_fetch_end`, `past_next_result_end`, `last_field_index`, `prepared`, `params_z`, `cursor_type`, `current_results`, `active_stream` | `hdb_prepare`, `hdb_query`, `hdb_execute`, `hdb_fetch`, `hdb_fetch_array`, `hdb_fetch_object`, `hdb_has_rows`, `hdb_get_field`, `hdb_next_result`, `hdb_num_rows`, `hdb_rows_affected`, `hdb_cancel`, `hdb_free_stmt` |
| result sets | `core_results.cpp` | ODBC: the server's cursor; buffered: `cache`, `current`, `last_error`, `read_so_far` | `fetch`, `get_data`, `get_diag_rec`, `row_count`, filling the buffer |
| field values | `core_get_field_common`, `get_field_as_string`, conversions of `core_results.cpp` | how far a field has been read, column size cache | chunked reads, conversions |
| streams over fields | `core_stream.cpp` | statement, field, encoding; the position is the handle's | open, read, close |
| parameters | `core_stmt.cpp` (`core_hdb_bind_param` and below), `bind_params` | bound buffers, output table, the stream being sent | bind, send packets, finalize outputs |
| type tables | `stmt.cpp`, `core_stmt.cpp`, `init.cpp` | none | type constants with sizes, defaults, metadata |
| error chains | `util.cpp`, `core_util.cpp` | `errors`, `warnings`, `last_error`, settings | `handle_errors_and_warnings`, `hdb_errors`, `hdb_configure` |
| message formatting | `FormattedPrint.cpp` | none | `FormattedPrintA`, `FormatMessageA` |
| code page conversion | `localizationimpl.cpp`, `globalization.h` | none that outlives a call | UTF-8 from and to UTF-16 |
| converter pool | `localizationimpl.cpp`, `interlockedslist.h` | linked list of `iconv_t`, its depth, a spin lock | borrow, return, destroy |
| module start | `init.cpp`, `core_init.cpp` | two environment handles, constant tables | MINIT, RINIT, RSHUTDOWN |
| helpers | `StringFunctions.cpp`, `xplat*.h`, `common/odbc/*` | none | |

How they interact. A PHP function finds its resource, empties the error chains,
and calls a `core_` function; that one calls ODBC through `core::SQLxxx`
wrappers which throw `CoreException` on an error (and on a warning that counts as
one) after the error was entered in the chains; the PHP function catches it and
returns false. A statement asks its result set for rows and for diagnostic
records. A connection closes the statements it lists before itself. Parameters
and field values go through the code page conversion, which borrows iconv
converters from a pool that all threads of a process share; everything else
belongs to one request, which runs on one thread.

What is hard here, and so what the properties are about:

* **partial failure**: nearly every function makes several ODBC calls and changes
  flags between them; every one of them may throw;
* **protocols across calls**: `hdb_has_rows` fetches a row that `hdb_fetch` must
  not fetch again; `hdb_execute` must first get rid of the results of the
  execution before it; a stream must not survive a move of its cursor; the
  buffers of parameters must live as long as the driver may use them;
* **stale state**: errors kept by a buffered result set, rows kept after a
  cancellation, column sizes kept for the next result, flags kept after a failure;
* **arithmetic**: offsets added in 64 bits; lengths in bytes or in units, with a
  terminator or without; characters cut at the end of a packet or a piece;
  rounding with carries; printf's widths and precisions;
* **concurrency**: the pool's hand-written lock, and its destruction at exit.

Correct means: no row is skipped or repeated; fields are read only on a row, and
whole; parameters arrive as they were given and outputs as they were answered; a
false comes with an error of that call, and only that; nothing crashes or loops;
a transaction ends as the script was told; handles are freed in order; a
converter is never shared.

## 2. Modules

| module | models | checked by | proofs |
|---|---|---|---|
| `ScrollCursor` | what a scrollable result promises: a clamped cursor over integers | (refined) | |
| `BufferedCursor` | `hdb_buffered_result_set::fetch` and the offset arithmetic of `core_hdb_fetch`, with the width of SQLLEN | `MCBufferedCursor` | `BufferedCursorProofs` |
| `OdbcStatement` | the ODBC statement handle and the server behind it (external) | through `HdbStmt` | in `HdbStmtProofs` |
| `HdbStmt` | the statement resource, its result set and its stream; uses `BufferedCursor`, `OdbcStatement` | `MCHdbStmt` | `HdbStmtProofs` |
| `HdbConn` | the connection resource, transactions, the statement table; the session (external) | `MCHdbConn` | `HdbConnProofs` |
| `ConverterSet` | what the pool promises: converters borrowed and returned at one moment | (refined) | |
| `ConverterPool` | the pool of converters, one step per shared access | `MCConverterPool` | `ConverterPoolProofs` |
| `Transcode` | UTF-8 from and to UTF-16 with bounded buffers | through the next three | |
| `FieldStream` | a PHP stream over a field; uses `Transcode` | `MCFieldStream` | `FieldStreamProofs` |
| `FieldString` | a field read as a string or an integer, from the driver or a buffer; uses `Transcode` | `MCFieldString` | `FieldStringProofs` |
| `Params` | the parameters of an execution, in both directions; uses `Transcode`, `SqlTypes` | `MCParams` | `ParamsProofs` |
| `SqlTypes` | PHP types, SQL types, defaults, sizes, metadata | through `Params` and `Texts` | |
| `ErrorChains` | the chains, the macros that fill them, the settings | `MCErrorChains` | `ErrorChainsProofs` |
| `Characters`, `FormattedPrint`, `DecimalInput`, `Options` | pure text functions | through `Texts` | |
| `Texts` | the inputs of these functions, and what each should give | `MCTexts` | |

An operator `X_Slip` next to `X` is a slip a programmer could make in `X`. Each
checked property is shown to fail when such a slip replaces the definition, so
that none of them holds by the shape of the model.

### BufferedCursor
`rowCount` and `current` are the fields of the same names, `outcome` what the
last fetch returned. A fetch is one of three actions, after the two range checks
of the code and its success. `Wrap` is two's complement addition: `current +=
offset` overflows in SQLLEN, which the code detects afterwards from signs
(formally undefined behaviour in C++; the model takes the wrap-around that the
code's own overflow test relies on).

### HdbStmt and OdbcStatement
`stmt` holds the flags, `res` the result set object (`kind` null, odbc or
buffered; a buffered one has its rows, its position and its last error), `odbc`
the handle with the server's cursor, the results still to come and the diagnostic
area, `stream` the open stream and the row it was opened on. `out` is what the
last call returned and which errors `hdb_errors` would show: `own` of this call,
`stale` from an earlier call, `custom` from the extension itself. `hist` is
history. A request runs one function at a time, so a PHP function is one action;
`hdb_execute` is several, one for each round of its loop over old results, since
whether that loop ends is one of the questions. `pc = "dead"` stands for the end
of the process by a null dereference or a failed `HDB_ASSERT`.

A function is written as the set of outcomes it may come to: `CoreFetch`,
`CoreHasRows`, `CoreGetField`, `CoreNextResult`, `CoreExecute` follow the `core_`
functions branch by branch, each ODBC call contributing success and failure with
what the exception handlers then do. `BufferedCursor` is instantiated for the
position of a buffered result set. Values are not in this module: a field is read
or fails. What is read is in `FieldString` and `FieldStream`, what is bound in
`Params`.

The assumptions about ODBC, all in `OdbcStatement`: a call that succeeds clears
the diagnostic area and one that fails leaves a record; on a lost connection
every call fails from then on; executing over an open cursor is refused (24000);
`SQLGetData` and `SQLRowCount` need a current result, metadata can be had from a
prepared statement; a failed member of a batch is skipped; with
`WarningsReturnAsErrors` a call may do its work and still count as failed.

### HdbConn
`conn` is the `ss_hdb_conn`, `stmts` the statement handles with their entries in
`conn->stmts`, `db` the session: its mode, and what became of each write. A write
is reported done in transaction `hist.of[w]`, 0 being none; `hist.told[t]` is
what the script was told about the end of transaction `t`. The assumptions about
the session: switching to auto-commit commits, disconnecting with work pending is
refused, a lost connection undoes what is pending.

### ConverterPool
One step per access to memory another thread uses, in program order: the look at
the head before the lock, the read of the lock word, the exchange, each write of
the critical section, the release. Accesses are volatile and the target is x86,
where stores are not reordered; on a weaker memory model the plain store that
releases the lock would need a barrier, which is not modelled. The destructor
runs in the exit handlers while no thread is inside the pool (converters may be
out): that is what the comment at `localizationimpl.cpp:84` claims of global
destructors. Its flush takes the free lock, one step. `owner` is history.

`ConverterSet` has neither list nor lock: a converter is not allocated, idle, or
with a thread. `BorrowsAndReturns` takes `owner` for its holder and the pool for
closed once its destructor has begun. A converter changes hands at one step of
the code each: it is borrowed where the head of the list is moved, returned where
it becomes the head, and deleted where `iconv_close` is called.

### Transcode
A text is a sequence of cells: units of UTF-16 or bytes of UTF-8. One letter
stands for all characters of the same length in UTF-8, since that is all a length
or a cut depends on; the two halves of a pair are cells of their own. `Convert`
is the loop of `EncodingConverter::Convert` around iconv (external): it stops
when the target is full, replaces what is ill-formed, and, asked to, keeps an
incomplete character at the end for later. The helpers measure first, through a
buffer of `FixedSize` cells, and fill then, as the code does.

### FieldStream
`field` is the value and how far the driver has delivered it, `stream` the PHP
stream, `got` what the script has read. A read is one `SQLGetData` for the chunk
PHP asks for (halved for UTF-8, whose buffer holds UTF-16), the correction for a
terminator that took the place of data, the conversion, and the test for the end.
Whether the driver reports the length that is left or `SQL_NO_TOTAL` is chosen
at the start.

### FieldString
`job` is a call of `get_field_as_string`: its buffer grows in one of three ways
(a fixed size from the column's display size; a first piece and the rest when the
driver tells the length; doubling when it does not), one step per `SQLGetData`.
`source` is how far the field has been read, in the driver or as `read_so_far` of
the buffer. For a buffered result `fill` copies the row first, large columns with
the loop of `read_lob_field`, charging each piece against the limit. `col_cache`
is the column size cache. The conversions of a buffered value (`SameString`,
`HexString`, `WideString`, `SystemString`, `NumberString`, `NumberBytes`) follow the
methods of `core_results.cpp` one by one. A number has its digits (`value`), the
bytes of the LONG or double that a buffered row holds of it (`kept`), and those that
the driver sends to a reader of binary (`sent`): read as binary from a buffer it
comes as `kept`, by `to_long` and `to_double`, which assert that the caller's room
suffices. A row holds `Held` cells of a column and is charged `Charge` for one of
known size. The second piece of text read as UTF-8 looks for its length at an
address that has moved already, and finds a part of the text there: `WideLengths`
stands for what that may be.

### Params
`given`, `var`, `held` and `stmt` are the extension's: the array of parameters,
the script's variables, the tables of what must stay alive, the flags. `driver`
is what is bound, what it has received and what it answers; `source` the streams.
`hdb_execute` is the actions `Execute`, `Flush`, `Free`, `Bind` (one parameter
each), `Run`; `NextStream` and `SendPacket` are rounds of `hdb_send_stream_data`
or of the loop inside `core_hdb_execute`, which ends in the same packet. Outputs
are put in order by `Finalize` when the last result has been processed. What a
parameter array means, and the defaults it leaves open, are `SqlTypes`. For a
piece with more continuation bytes than its character takes, `calc_utf8_missing`
looks before the buffer or wraps, and the code then reads on as far as the stream
goes: the packet is refused, or the process ends when that is more than the buffer
takes (`Overrun`).

### ErrorChains
A function of the extension is a few ODBC calls under one of the macros
(`CHECK_ODBC_ERROR`, `CHECK_ODBC_WARNING`, `CHECK_SQL_ERROR_OR_WARNING`, none), each
of which leaves records on the connection or the statement; every record carries
whether it is of this function or of an earlier one. `handle_errors_and_warnings`
reads all of them, splits them by severity, list of ignorable warnings and
setting, and decides from the length of the chain before and after. A buffered
result set brings its own last error in front. NextRequest is RSHUTDOWN and RINIT.

### Texts and the pure functions
`FormattedPrint` is the state machine of `FormattedPrintA` for integers and narrow
strings, and `FormatMessageA` with its cache of arguments. `DecimalInput` is
`adjustInputPrecision`. `Options` is the validation of the two option arrays, what
the options do to a new statement, and the connection string. `Texts` lets one
input grow piece by piece and compares at every length with a definition written
from what the function is for: `PrintsAsC` with printf's rules, `MessageIsWhole`
with plain substitution, `DecimalRounded` with arithmetic on the scaled value (to
either neighbour where the first digit dropped is 5, on which the code and its
comment part), `OptionsTakeEffect` with the last value given, `BracesPaired` with the parity of
runs of braces, `ColumnBound` with the column a metadata record was made from. Of the
characters that a message may escape (`EscapeOf`) the run has `%t` and `%%`, of
exponents those of one figure: TLC's integers do not hold what a decimal with two is
scaled to.

## 3. Runs

Passing runs:

| run | bounds | shows |
|---|---|---|
| `BufferedCursor_clamps` | SQLLEN of 5 bits, offsets other than 0 and 15, sizes -1..14 | the cursor stays in bounds, overflow included, and is a clamped cursor over integers |
| `HdbStmt_forward` | forward-only, three queries of up to 2 results, 2 executions, 1 fault, fair | rows come in turn; a true of `hdb_has_rows` is kept; old results are closed before an execution, by a loop that ends; false comes with an own error, nothing dies |
| `HdbStmt_scrolling` | buffered and static, a query over the buffer's limit, 4 kinds of moves, 2 executions, 1 fault, connection may be lost | a row under every read; a stream over the server's cursor reads the row it was opened on |
| `HdbConn_transactions` | 2 statements, 3 writes, 2 transactions, 2 faults, warnings as errors, lost connection | transactions end as told, whatever fails; without a failure, auto-commit outside transactions, and close ends the session |
| `ConverterPool_threads` | 3 threads, 3 converters, limit 2, fair | no sharing, depth, nothing leaked at exit, a set of converters, the lock always released |
| `FieldStream_read` | all texts of up to 4 units, some up to 9; chunks of 8, 10, 14 and 30 bytes over a buffer of 12; 3 encodings; lengths known or not; driver may fail; fair | the script gets the value in order, its end is the end, and reading comes to it |
| `FieldString_values` | 6 rows of up to 3 columns: large and small, of 5 C types, with null; first buffer of 4 bytes, limit 60, integers read as LONG of 4 bits, 4 and 8 bytes for a number of a row, 2 fetches of a row | a field is read whole, fails for a cause, and a buffer keeps to its limit |
| `Params_calls` | 30 parameter arrays of 1 to 3 parameters; packets of 5 bytes, pieces of 1 or 2; 2 answers of the server; 2 executions; fair | streams arrive whole, outputs are what was answered, what is bound is held, `hdb_execute` ends |
| `ErrorChains_reports` | 3 calls in a function, up to 2 records each, 4 kinds of warnings and 4 of errors | nothing lost, nothing stale, failure only for a cause |
| `Texts_inputs` | formats of 6 places, messages of 3 pieces, decimals with carries and exponents, 3 options with timeouts up to the largest whose milliseconds fit the int, values of 6 braces, all column types | the pure parts against reference definitions |

The bounds are where the cases begin. A 5-bit SQLLEN has all four combinations of
sign and overflow with every size. Results of up to three rows, in batches of up
to two, are the least with "another result", "another row" and "more than fits";
two executions are the least with an old result under a new one; two faults are
one failure and a failure of its handling, one where a property concerns a single
failure. Three threads let one wait while two race, and a limit below their
number reaches the branch that deletes. A chunk of 8 bytes holds one pair and its
terminator; with 10 and 14 the border of a piece falls on every place of a pair,
and 30 exceeds the buffer. A first buffer of 4 bytes is one unit and a
terminator, so that values of 1 to 11 cells are read at once, in two pieces and
by several doublings. Packets of 5 bytes cut sequences of two, three and four
bytes at each of their places. Three calls of two records let an error, an
ignorable warning and a leftover meet in one chain. Three options are the least
with one overriding another and a third between them. Where deadlock is not
checked (`CHECK_DEADLOCK FALSE`) the script has used up its executions, writes,
fetches or inputs, or the modelled process has died.

The cases that runs leave out, since the code does not keep the property there,
are in the table of section 3.1. `BufferedCursor_clamps` leaves out the offsets 0
and 15, `HdbStmt_scrolling` moves by relative 0. `StreamOnItsRow` is about server
cursors only. `EndIsEnd` allows for the last unit, `DeliversPrefix` for a pair split
between two reads, `ValueIsWhole` for the conversions that `Exact` does not list,
numbers read as binary among them, `FailsForCause` of `FieldString` for two
assertions of the buffer (`FieldString_narrow` and section 3.1), `DecimalRounded` for
the digit 5, `NothingLost` for a record that cannot be read and for one hidden by a
buffered result, `NothingStale` for what an error of the extension's own brings
along, `AutoCommittedUnlessFailed` for the time after a failure, `ExecuteEnds` for an
execution that starts while the driver waits for streams.

Two runs expect a violation. `Params_cancel` violates `CancelledOnFailure`, which
states the comment at `core_stmt.cpp:760`, "if the statement executed but failed in
a subsequent operation before returning, we need to cancel the statement and deref
the output and stream parameters": when an output was truncated, the handler calls
`finalize_output_parameters` again before it cancels; this throws on the same
parameter, so that neither the streams are released nor the statement cancelled.
`FieldString_narrow` violates `AssertionsHold`, that no read fails an assertion of the
buffer, here "Buffer too small for SQL_C_LONG" (`core_results.cpp:1442`): a BIT or
TINYINT shows fewer characters than a LONG has bytes, the caller leaves room for
what it shows, and reading it as binary ends the process.

### 3.1 Other places where the code departs from what it promises

They were met while the modules were written; no run is kept for them. The first
group can be seen in the modules, by running them with the bounds named or with
the allowance of the property taken away.

| code | what happens |
|---|---|
| `core_results.cpp:801`, `877` | moving by relative 0 before the first row succeeds with `current` 0, and the next field read fails the assertion "Failed to find row %1!d! in the cache" (`SuccessHasRow` with offset 0) |
| `core_stmt.cpp:824` | the largest absolute offset, incremented, wraps to before the first row (`ClampedCursor` with offset 15) |
| `stmt.cpp:276`, `core_stmt.cpp:1073` | on a lost connection `hdb_execute` skips old results for ever (`FlushTerminates` with `ConnectionDies`); so it does while the driver waits for stream data (`ExecuteEnds`) |
| `stmt.cpp:317`, `1722` | after a buffer could not be filled `current_results` is null and `executed` true; the next `hdb_has_rows`, `hdb_num_rows` or fetch dereferences it (`NeverDies`, buffered) |
| `core_stream.cpp:80`, `core_stmt.cpp:1666` | a stream over a field of a buffered row reads the server's cursor, past its last row (`StreamOnItsRow`, without its condition) |
| `conn.cpp:473`, `501` | after a failed commit or rollback the session stays in manual mode, and writes the script takes for committed are not (`AutoCommittedUnlessFailed`); a commit that failed at its second call has made the writes durable |
| `stmt.cpp:276` | after some failures of a buffered execution the statement counts as not executed and the next one runs into the open cursor (`CursorClosedBeforeExecute`, buffered) |
| `core_results.cpp:884`, `util.cpp:859` | the last error kept by a buffered result hides the records of the call that fails now, and can make an ignorable warning fail it (`OwnErrorReported`, `FailsForCause`) |
| `util.cpp:446`, `459` | an error of the extension's own copies the records that an earlier call left on the handle; "Errors generated on the last hdb function call are returned" |
| `core_results.cpp:359` | a record that cannot be read drops it and all that follow it; without a result set its null text is dereferenced |
| `stmt.cpp:1728` | `hdb_has_rows` on a static cursor loses the first row when its way back fails (`HasRowsPromise`, scrollable), and moves from after the end to before the start; "restore the cursor to its original position" |
| `stmt.cpp:1238` | `hdb_cancel` stops the server's cursor only: buffered rows are still delivered ("any pending results for the statement are discarded"), the flags and `current_stream` stay |
| `core_hdb.h:2089` | with `warnings_return_as_errors` a fetch that succeeded with a warning is reported as failed, and its row is passed over by the next one (`NextIsSuccessor`, with `WarningsAsErrors`) |
| `core_stmt.cpp:768` | after an execution that fails in SQLExecute the rows of the one before may still be fetched |
| `stmt.cpp:1231` | a value that cannot be bound frees `params_z` for good, and later executions run without parameters |
| `core_stream.cpp:87` | a value of which one unit more is left than the room beside the terminator loses that unit and ends; the comment says the end is when "data < than the count requested" |
| `core_results.cpp:465`, `469` | a number of a buffered result read as binary comes as the bytes of its LONG or double; "only allow binary retrievals for char and binary types.  All others get a string converted to the encoding type they asked for." (`core_stmt.cpp:2342`) (`ValueIsWhole`, with `Exact` for all numbers) |
| `core_results.cpp:1374` | a buffered UTF-16 value whose UTF-8 needs more bytes than it has fails the assertion at 1395, which ends the process; "allocate enough to handle WC -> DBCS conversion if it happens" (`FailsForCause` of `FieldString`, without that exemption) |
| `core_results.cpp:1305` | the second read of a buffered field returns an empty string; text read as binary loses its end |
| `core_results.cpp:1195` | text of several bytes to a character, read as UTF-8 from a buffer, leaves units that are not written; its second piece takes its length from the text (`ValueIsWhole`, with `Exact` for all text) |
| `core_stmt.cpp:2093` | the failing execution decodes variables that are only for output; in/out variables stay in UTF-16 when the results are skipped |
| `core_stmt.cpp:431` | a text parameter with `HDB_ENCODING_CHAR`, an output to a variable holding a boolean or an array without a PHP type, or an in/out one with only a SQL type, ends the process or is refused |
| `core_stmt.cpp:2669` | a first dropped digit of 5 rounds a decimal up; "check if the last digit to be popped is greater than 5, if so, the digit before it needs to round up" (2668) (`DecimalRounded`, without its second neighbour) |
| `FormattedPrint.cpp:1344` | an insert with exactly two 32-bit arguments left gets the first of them twice; "No more args so send the two Ints" (`MessageIsWhole`, with such a message) |
| `core_stmt.cpp:2646`, `2652` | "1.25e" and "e-3" are changed ("do not change the string and let SQL Server handle the invalid decimal string"); an exponent above 38 ends the process, one above 32767 wraps before the test |
| `core_conn.cpp:365` | "{a}}" passes for an escaped value; a value that is not escaped and not braced may hold a semicolon, which ends it |
| `conn.cpp:178`, `196` | the tables of connection and statement options are empty, all rows commented out, so that the documented options are refused; the models take the names as constants |
| `core_conn.cpp:434` | `hdb_connect` without UID reads a null pointer, though the options are optional (`conn.cpp:209`) |
| `core_conn.cpp:122` | a failed allocation of the connection handle calls a method of a null object; a warning taken for an error frees a connected handle without disconnecting it |
| `core_stmt.cpp:1222` | the query timeout also sets the lock timeout of the whole session, its milliseconds narrowed to an int: one that does not fit may come out negative |
| `stmt.cpp:2141` | the size 0 that metadata reports of a "max" column is refused when it is written back as a SQL type; `HDB_SQLTYPE_NVARCHAR` without a size means "max", `HDB_SQLTYPE_VARCHAR` means size 0 |
| `globalization.h:368` | the room left when UTF-8 is measured is counted in bytes where units are meant |
| `util.cpp:581`, `600` | `hdb_configure` refuses a mask out of range without an error |
| `core_hdb.h:2228` | an `SQLRowCount` that fails and leaves -1 counts as no rows, its error unseen |

## 4. Fairness

`HdbStmt!FairSpec` is weakly fair to the steps inside `hdb_execute`: once called
it runs on one thread to its end. Nothing is assumed of the script.
`Params!FairSpec` is the same, with the assumption that a stream delivers its next
bytes: reading from a PHP stream blocks until it does or fails.
`ConverterPool!FairSpec` is weakly fair to the steps inside the critical section,
since the operating system runs a thread again that holds the lock; nothing is
assumed of threads that spin, so no claim is made that a waiting thread ever gets
the lock (the code's lock has no queue). `FieldStream!FairSpec` is fair to the
script's reads: `ReadsToTheEnd` is about a script that reads until `feof()`, and
closing the stream ends it as well.

## 5. Proofs

TLAPS checks these for every value of the constants, from the named assumptions
of the modules, which TLC evaluates as well: `MaxLenAssumption`,
`RowCountsAssumption` and `OffsetsAssumption` (widths and ranges of the cursor),
`ConnAssumption`, `PoolAssumption`, and for the statement `BatchesAssumption` (a
batch is a nonempty sequence of results, one without columns has no rows),
`FaultsAssumption`, `FieldsAssumption` (a result with columns has at least one),
`BoundsAssumption` (a result has fewer rows than the largest SQLLEN) and
`ArgumentsAssumption` (the fetch styles that `hdb_fetch` accepts, offsets of a
SQLLEN); for values `StreamAssumption` (a chunk has room for a unit and its
terminator), `FieldAssumption` (text is no longer than the column size the
driver gives, and a number no longer than its slot, which is what the row buffer is
sized by) and `ParamsAssumption`
(the parameters are an array of values, a stream delivers whole numbers of bytes); for the error chains `RecordsAssumption` (a call
that fails or warns leaves at least one record, and the list of ignorable warnings,
which holds SQLSTATE 01000, 01S02, 01001 and 01003, names none of a buffered
result's nor the extension's own). Where a theorem has a hypothesis of its own, the code does not keep the
property outside it, and section 3.1 has the case.

* `CursorStaysInBounds`: `CursorInv`, the type invariant with `CursorInBounds`, is
  inductive by itself. The lemmas compute `Wrap` without and with overflow; that
  a wrapped sum has the sign opposite to its offset is what makes the code's
  overflow test complete.
* `CursorImplementsClamp`: under the assumption that 0 and the largest SQLLEN are
  not among the offsets (the first two rows of section 3.1), every step of
  `BufferedCursor` is a step of `ScrollCursor` for the same position. It needs
  `CursorInv`, and compares the wrapped sum with the exact one case by case.
* `SuccessIsOnRow`: without offset 0, which repeats the position before the first
  row. `SuccessHasRow` is inductive together with `CursorInv`.
* `TransactionsEndAsTold`, `NeverAutocommitInTransaction`, `StatementsNeverOutlive`:
  `EndedAsTold` is not inductive: nothing in it says that the writes of the open
  transaction are still pending when `hdb_commit` comes. `ConnInv` adds
  `OpenTransaction` (they are, on a live session in manual mode, and transactions
  not begun have no writes and no end), `InTransactionIsManual`, and
  `StatementTable` (a handle exists exactly when it is listed).
* `AutoCommitsOutside`, `CloseEndsSession`: the invariant is `ConnInv` with
  `NothingFailed`: as long as no call has failed, `SessionAgrees`, which relates
  `in_transaction` to the mode of the session (outside a transaction a live one is
  in auto-commit mode) and says that a lost session has nothing pending. It is
  needed because `AutoCommitted` alone says nothing of the mode in which the next
  write is executed. A lost connection is not a failed call: the steps after it are
  part of the proof (`FaultFreeCall` is the lemma that tells the two apart). After
  a failed call both theorems end, and section 3.1 says how.
* `LockExcludes`, `ConvertersNotShared`: `PoolInv` adds to exclusion where the
  pointer of each thread stands at each step (`Pointers`), the shape of the list
  as far as it is local (`ListShape`: a pooled converter is followed by a pooled
  one, and no converter has two predecessors) and what holds after exit
  (`Shutdown`). With these the converter that is unlinked is not anyone's.

* `DepthIsListLength`, `NothingLeftAllocated`: both are about the list as a
  whole, which `PoolInv` describes only node by node. `WholeList` says that the
  pooled converters are the range of an injective function on `1 .. n` in which
  each is followed by the next (`Chain`), that `depth` is `n` but for the thread
  that has just linked or unlinked a node and not yet counted it (`Counted`), and
  that an allocated converter is in the list or in the hands of one thread
  (`InHand`). Linking and unlinking shift that function by one, so that no
  induction along the list is needed.
* `PoolImplementsSet`: from both invariants, every step of the code is a step of
  `ConverterSet` or leaves the set alone.
* `StatementTypes`, `FieldsHaveARow`, `StreamStaysOnItsRow`, `FailureIsReported`,
  `ErrorsComeBack`, `OldResultsClosed`, for all batches of results, all arguments
  of `hdb_fetch`, any number of failures and a connection that may be lost. All
  rest on `StmtInv`, which relates the parts of a statement: an executed statement
  has a result set of its kind (`KindOK`, without which a null one would be
  dereferenced); a dead one holds nothing (`Dead`); an open stream implies a
  current row and stands on it (`StreamOnRow`); `fetch_called`, or a row that
  `hdb_has_rows` has fetched ahead, implies a row under the cursor (`RowThere`);
  after the end of the results no cursor is open (`CursorClosed`); a false has an
  error of its own call (`AnswerOK`); and between the steps of `hdb_execute` no
  cursor is left under the next execution (`ControlOK`). TLC checked `StmtInv` for
  each cursor type, with and without warnings as errors and a lost connection,
  before it was proved. The first lemmas say what the ODBC calls may come back
  with; then there is one lemma for each `core_` function, that every outcome it
  may have is `Sound` (leaves the four parts consistent and brings its own
  errors); then one for each action. The hypotheses: for a buffered result
  `FieldsHaveARow` has no relative move by 0, and `FailureIsReported`, `ErrorsComeBack` and
  `OldResultsClosed` exclude buffered results, whose failing reads leave a null
  result set, a kept last error and an open cursor; with warnings that count as errors a
  call may have moved the cursor or made a result although it failed, so that
  `FieldsHaveARow` needs a buffer and `OldResultsClosed` needs them off.

* `RowsComeInOrder`, for forward-only cursors, any batches and failures and a
  connection lost at any moment. `StmtInv` says where the cursor may be, not what
  the script has seen, so `OrderInv` relates the cursor, the flags and the row
  delivered last (`InTurn`): the cursor stands on that row; or `hdb_has_rows` has
  moved it to the first row of a result of which none was delivered; or it is
  before the first row or after the last. One lemma per `core_` function shows that
  it leaves cursor and flags alone (`Remains`) or drops the result for a later one
  (`Renews`); either keeps `InTurn`, whatever was seen. What is left are
  `core_hdb_fetch` and the probe of `hdb_has_rows`, which move the cursor by one.
  With warnings as errors a fetch that failed has moved (section 3.1).
* `FoundRowIsFetched`, for forward-only cursors and client-side buffers:
  `PromiseInv` says that, until the script fetches from a new result, `has_rows`
  of the statement remembers what `hdb_has_rows` said, no row counts as fetched,
  and a buffer found to have rows is back before its first. It is an invariant for
  static cursors too; what fails there is the fetch (section 3.1), so they are
  excluded.

* `EndIsTheEnd`, `BytesInTheirPlace`, `EveryReadMoves`, of a stream over a field,
  for every text, chunk size and buffer size, and a driver that knows lengths or
  not. `StreamInv` adds to `EndIsEnd` that the driver's position stays within the
  value and that a stream that failed is at its end. `PieceWithin` is the lemma
  with the arithmetic: a piece that is cut has at least one unit, one that is not
  is the rest, and the only cut piece that passes for the last one leaves a
  single unit. `BytesInTheirPlace` is `DeliversPrefix` for the encodings that are
  passed through; for UTF-8 it rests on what `Convert` computes, and stays with
  TLC. `EveryReadMoves` is the safety half of `ReadsToTheEnd`: a read ends the
  stream or advances, so reads cannot go on for ever.
* `RowWithinLimit`: the copy of a row stays within `buffered_query_limit`.
  `BufferWithinLimit` alone is not inductive: `read_lob_field` compares what is
  left of the value with the limit, and charges all of it. `LobInProgress` is what
  makes that right: from the second piece on the buffer itself, which is at least
  as long as the value when the last piece fits, has been compared before.
* `BoundIsHeld`, `StreamIsFound`: for all parameter arrays, answers, sizes of
  packets and any order of `hdb_execute`, `hdb_send_stream_data`,
  `hdb_next_result` and `hdb_cancel`, with every call that may fail. `HeldInv`
  adds to `BuffersHeld` when the driver may have anything to read or write at all
  (`Waiting`: between an execution and the end of its results, so that
  `free_param_data` and the handlers never run then), what binding has covered so
  far although the handle still has the bindings of the last execution
  (`Binding`), and that a failed bind leaves neither an array nor bindings
  (`Arrays`). With it the stream that the driver asks for is in the table, which
  an assertion of `check_for_next_stream_parameter` takes for granted.
* `StreamsArriveWhole`: for all texts, well-formed or not, pieces and sizes of
  packets, and executions that follow one another on streams read part of the way.
  `StreamsInv` adds to `HeldInv` what `StreamsWhole` leaves open while the statement
  runs (`Underway`): what the driver has of a stream is the conversion of what has
  been read of it, the streams before the one that the driver has asked for last are
  at their end, and so is that one as soon as the statement lets go of it. `Kinds`
  says that after an execution the handle's bindings agree with the script's
  variables, so that binding again, parameter by parameter, makes no stream of what
  was none and changes no stream's encoding; `Sources` that reading stays within the
  text. The lemmas before it are about `Convert` when it refuses what is ill-formed,
  for every text: its recursive function exists and is typed (`FillExists`,
  `FillTyped`), a character is complete or it is not whatever surrounds it
  (`CompleteBefore`, `CompleteBehind`), room beyond the need changes nothing
  (`ConvertedByAnyRoom`), and a text that converts, followed by one that converts,
  converts to the one conversion behind the other (`ConvertedConcat`). With these
  `PacketCarries` says that the bytes which `calc_utf8_missing` adds to a packet
  leave it at the end of a character, or the packet is refused.
* `DiagnosticsAreKept`, `FunctionsFailForCause`, `NothingOldIsTold`, of the error
  chains: for any records, any list and any number of calls in a function. The loop
  of the handler is a recursive function over the records (`Entered`);
  `EnteredProperties` says by induction what it leaves: the chain as it was, behind
  it exactly the records of the kind asked for, and all of them in their order when
  all are (`LoopLeft`). The three properties are not inductive: `FailsForCause`
  says of a running function nothing, so `ErrorsInv` adds that its calls so far gave
  it no cause to fail (`NoCauseYet`), that one that has made no call has met nothing
  (`MetInSteps`; it is what lets `hdb_configure` change the setting by which the
  calls are judged), and that a buffered result keeps nothing but errors and
  warnings of its own, none of them ignorable (`OfTheBuffer`). `HandlerKeeps` is the
  one lemma on a call of the handler, with what its callers differ in as hypotheses:
  where in the records read are those that the call left, whether an old error of a
  buffered result hides them, and what an error of the extension's own brings along.

Only model-checked: the modules on texts, `ValueIsWhole` and `FailsForCause` of
`FieldString`, `OutputsDelivered` of `Params`, and `DeliversPrefix` for UTF-8. The
text modules rest on recursive operators (formatting, carrying), which the prover
does not take; the others on what `Convert` computes in the other direction, from
UTF-16, measured first and filled then, for which no lemmas are proved. Also all
liveness properties (`FlushTerminates`, `LockReleased`, `ExecuteEnds`,
`ReadsToTheEnd`), since fairness and ENABLED are out of the prover's reach. Only
proved: `MutualExclusion` of the pool's lock, the type invariant of `HdbStmt`,
`EveryReadMoves` and `StreamIsFound`, that the cursor stays in bounds for the two
offsets that `BufferedCursor_clamps` leaves out, and the properties of `HdbStmt` in
the settings that no run has (all arguments of a fetch, longer batches, more
failures).

## 6. Not modelled, and the plan

Not modelled:

* module start (`MINIT`, the tables of constants): a straight line before any
  request, whose failures end the process; `StringFunctions` and the ODBC and
  portability headers, which keep no state;
* `hdb_server_info`, `hdb_client_info`, which only read, and the search for the
  ODBC driver's name;
* the bytes of floating-point numbers and of `DateTime` objects; floating-point,
  pointer and wide conversions of printf, which no message uses; code pages other
  than UTF-8 and UTF-16;
* column encryption, which no option of this extension enables;
* the arrays and objects that `hdb_fetch_array` and `hdb_fetch_object` build, and
  the field names they cache;
* inside `HdbStmt` a field is read whole or fails, and parameters are only there
  or not; `FieldString`, `FieldStream` and `Params` have the detail, each for one
  row or one statement.

Planned, in this order:

1. Proofs: the lemmas on `Convert` from UTF-16, and with them `OutputsDelivered`,
   `DeliversPrefix` for UTF-8 and `ValueIsWhole`.
2. `Lifetimes`: the reference counts of connection, statement and stream
   resources together, with PHP variables that outlive `hdb_close`.
