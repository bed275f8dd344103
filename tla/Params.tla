---- MODULE Params ----
(***************************************************************************)
(* The parameters of one prepared statement through hdb_execute,           *)
(* hdb_send_stream_data, hdb_next_result and hdb_cancel: bind_params and   *)
(* core_hdb_bind_param, the packets of stream parameters, and the output   *)
(* parameters that are put in order once all results have been processed.  *)
(*                                                                         *)
(* The ODBC driver is external: what is bound, whether it wants data, how  *)
(* many results are pending, and what it answers for an output parameter.  *)
(* The decimal digits of a string sent as DECIMAL are in DecimalInput.     *)
(***************************************************************************)
EXTENDS Transcode, FiniteSetsExt

CONSTANTS
  MaxFieldSize, MaxPrecision, IntMax,
  Scripts,      \* the parameter arrays: sequences of [u, v], as in SqlTypes
  AtExec,       \* subset of BOOLEAN: SendStreamParamsAtExec
  PacketSize,   \* PHP_STREAM_BUFFER_SIZE + 1 - 3: the bytes of a packet
  Pieces,       \* how many bytes a stream may deliver at once
  TextsOut,     \* what the server may answer for a string, in cells
  MaxResults,   \* bound: results of an execution
  MaxRuns       \* bound: executions in a behaviour

IsText(s) == Len(s) \in Nat /\ s = [i \in 1 .. Len(s) |-> s[i]]
IsValue(v) == DOMAIN v = {"t", "cp", "s"} /\ IsText(v.s)

ASSUME ParamsAssumption ==
  /\ MaxResults \in Nat /\ PacketSize \in Nat /\ Pieces \subseteq Nat
  /\ \A s \in Scripts :
       /\ Len(s) \in Nat /\ DOMAIN s = 1 .. Len(s)
       /\ \A p \in DOMAIN s : IsValue(s[p].v)

VARIABLES
  given,    \* stmt->params_z: the array of parameters, <<>> once a bind has failed
  var,      \* the value of each parameter, the script's own variable for an output
  held,     \* param_input_strings, param_streams, param_datetime_buffers, output_params
  stmt,     \* executed, past_next_result_end, send_streams_at_exec, current_stream
  source,   \* the streams: bytes read of each, and whether PHP knows it is at its end
  driver,   \* the statement handle: bound parameters with their lengths, state,
            \* results left, the data and outputs of this execution
  call      \* where hdb_execute stands, the parameter it binds, what the last call gave

vars == <<given, var, held, stmt, source, driver, call>>

T == INSTANCE SqlTypes
None == "none"
P == DOMAIN var
ConnEncoding == "UTF8"
NullData == -1
NoTotal == -4
NoHeld == [strings |-> {}, streams |-> {}, dates |-> {}, outputs |-> <<>>]

Init ==
  /\ \E s \in Scripts :
       /\ given = [p \in DOMAIN s |-> s[p].u]
       /\ var = [p \in DOMAIN s |-> s[p].v]
       /\ source = [p \in DOMAIN s |-> [text |-> s[p].v.s, read |-> 0, eof |-> FALSE]]
  /\ held = NoHeld
  /\ stmt \in [executed : {FALSE}, pastEnd : {FALSE}, atExec : AtExec, current : {0}, read : {0}]
  /\ driver = [bound |-> <<>>, ind |-> <<>>, state |-> "idle", left |-> 0, at |-> 0, got |-> <<>>,
               from |-> <<>>, told |-> <<>>]
  /\ call = [phase |-> "idle", next |-> 0, ret |-> None, runs |-> 0, cause |-> None]

Returns(ret) == [call EXCEPT !.phase = "idle", !.ret = ret]
Dies(cause) == [call EXCEPT !.phase = "dead", !.cause = cause]

(* SQLCancel and SQLFreeStmt( SQL_RESET_PARAMS ). *)
Cancelled(d) == [d EXCEPT !.state = "idle", !.left = 0]
Reset(d) == [d EXCEPT !.bound = <<>>, !.ind = <<>>]
Cut(s, n) == SubSeq(s, 1, Min({n, Len(s)}))
With(f, p, v) == [x \in DOMAIN f \cup {p} |-> IF x = p THEN v ELSE f[x]]

----
(***************************************************************************)
(* core_hdb_bind_param for parameter q as parsed, with value v.            *)
(***************************************************************************)
Scalar(t, s) == [t |-> t, cp |-> None, s |-> s]
Long(v) == IF v.t \in {"int", "big"} THEN v ELSE Scalar("int", IF v.t \in {"bool", "float"} THEN v.s ELSE <<0>>)
Double(v) == IF v.t = "float" THEN v ELSE Scalar("float", IF v.t \in {"bool", "int"} THEN v.s ELSE <<0>>)
Text(v) == IF v.t = "string" THEN v
           ELSE [t |-> "string", cp |-> "UTF8", s |-> IF v.t = "null" THEN <<>> ELSE <<"a">>]

(* The conversions that the direction and the wanted type ask for. *)
Coerced(q, v) ==
  CASE q.dir = "in" -> v
    [] q.want = "STRING" -> Text(v)
    [] q.dir = "out" -> IF q.want = "INT" THEN Long(v) ELSE Double(v)
    [] q.want = "INT" /\ v.t \in {"null", "bool"} -> Long(v)
    [] q.want = "FLOAT" /\ v.t = "null" -> Double(v)
    [] OTHER -> v

Matches(q, w) == q.want = "STRING" \/ (q.want = "INT" /\ w.t \in {"int", "big"}) \/ (q.want = "FLOAT" /\ w.t = "float")

SqlType(q, w) == IF q.sql = None THEN T!default_sql_type(w, q.enc) ELSE q.sql
ColumnSize(q, w) == IF q.sql = None THEN T!default_sql_size_and_scale(w, q.enc) ELSE q.size

(* An output string goes to and from the driver as UTF-16 when it is UTF-8  *)
(* or a wide type read as binary.                                           *)
Wide(q, w) == q.enc = "UTF8" \/ (q.enc = "BINARY" /\ SqlType(q, w) \in T!Wide \cup {"WLONGVARCHAR"})

(* convert_input_param_to_utf16. *)
Utf16(w) ==
  IF w.cp = "UTF8" THEN ToUtf16Measured(w.s) ELSE [ok |-> TRUE, out |-> <<"garbled">>]

SentAsUtf16(q, w) == (q.dir = "in" /\ q.enc = "UTF8") \/ (q.dir = "inout" /\ Wide(q, w))

BindError(q, w) ==
  CASE q.dir = "inout" /\ ~Matches(q, w) -> "type match"
    [] q.dir # "in" /\ q.sql \in T!Lob -> "output type"
    [] SqlType(q, w) = None \/ T!default_c_type(w, q.enc) = None -> "php type"
    [] w.t = "object" -> "not a DateTime"
    [] w.t = "string" /\ SentAsUtf16(q, w) /\ ~Utf16(w).ok -> "encoding"
    [] OTHER -> None

(* HDB_ASSERT: the wanted type of an output, the encoding of a text.         *)
BindDies(q, w) ==
  CASE q.dir # "in" /\ q.want \notin {"INT", "FLOAT", "STRING"} -> "output type"
    [] w.t \in {"string", "stream"} /\ q.enc \notin {"UTF8", "BINARY"} /\ (q.dir = "inout" => Matches(q, w))
       /\ ~(q.dir # "in" /\ q.sql \in T!Lob) -> "encoding"
    [] OTHER -> None

(* resize_output_buffer_if_necessary: the bytes that finalize_output_parameters *)
(* lets an output take.  A size of 'max' wraps to nothing: no resizing.      *)
Room(q, w, s) ==
  LET elem == IF Wide(q, w) THEN 2 ELSE 1
      signed == SqlType(q, w) \in T!Exact \cup {"BIGINT", "INTEGER", "SMALLINT"}
      field == ColumnSize(q, w) + (IF signed THEN elem ELSE 0) + (IF signed /\ q.digits > 0 THEN elem ELSE 0)
      length == Len(s.s) * CellBytes(s.cp)
  IN  IF length < field * elem THEN field * elem
      ELSE IF q.enc = "BINARY" THEN length + elem ELSE length

(* The value that stays in the script's variable, and what is sent of it. *)
Buffer(q, w) ==
  IF q.dir = "inout" /\ w.t = "string" /\ Wide(q, w) THEN [w EXCEPT !.cp = "UTF16", !.s = Utf16(w).out] ELSE w

Sent(q, w) ==
  IF q.dir = "in" /\ w.t = "string" /\ q.enc = "UTF8" THEN Utf16(w).out ELSE Buffer(q, w).s

Length(q, v, w) ==
  IF v.t = "null" THEN NullData
  ELSE IF w.t = "string" THEN Len(Buffer(q, w).s) * CellBytes(Buffer(q, w).cp) ELSE 8

(* save_output_param_for_later. *)
Output(q, v, w) ==
  IF w.t = "string" THEN [enc |-> q.enc, room |-> Room(q, w, Buffer(q, w)), bool |-> FALSE]
  ELSE [enc |-> None, room |-> 0, bool |-> v.t = "bool"]

Kept(h, p, q, v, w) ==
  [strings |-> IF q.dir = "in" /\ w.t = "string" /\ q.enc = "UTF8" THEN h.strings \cup {p} ELSE h.strings,
   streams |-> IF w.t = "stream" THEN h.streams \cup {p} ELSE h.streams,
   dates   |-> IF w.t = "datetime" THEN h.dates \cup {p} ELSE h.dates,
   outputs |-> IF q.dir # "in" THEN With(h.outputs, p, Output(q, v, w)) ELSE h.outputs]

----
(***************************************************************************)
(* finalize_output_parameters: parameter by parameter, up to the first     *)
(* that was truncated.  A value that is converted a second time comes out  *)
(* garbled, and one that is no longer a string or a number kills.          *)
(***************************************************************************)
Finalized(v) == [result |-> "ok", value |-> v]
Stops(v, how) == [result |-> how, value |-> v]
NullValue == Scalar("null", <<>>)

Decoded(w, r) ==
  IF r.ok THEN Finalized([w EXCEPT !.cp = "UTF8", !.s = r.out]) ELSE Stops(w, "throws")

FinalString(w, o, ind) ==
  LET length == IF ind = NoTotal THEN o.room ELSE ind
  IN  CASE ind = 0 -> Finalized([w EXCEPT !.cp = "UTF8", !.s = <<>>])
        [] ind = NullData -> Finalized(NullValue)
        [] ind \notin {0, NullData} /\ ind > o.room -> Stops(w, "throws")
        [] OTHER ->
             IF o.enc = "BINARY" THEN Finalized([w EXCEPT !.cp = "UTF8", !.s = Cut(@, length)])
             ELSE IF w.cp # "UTF16" \/ Contains(w.s, "garbled") THEN Finalized([w EXCEPT !.s = <<"garbled">>])
             ELSE Decoded(w, FromUtf16(Cut(w.s, length \div 2)))

Final_KeepNull(w, o, ind) == IF w.t = "string" THEN FinalString(w, o, ind) ELSE Finalized(w)
Final(w, o, ind) ==
  CASE w.t = "string" -> FinalString(w, o, ind)
    [] w.t \in {"int", "big", "float"} /\ ind = NullData -> Finalized(NullValue)
    [] w.t \in {"int", "big"} -> Finalized(IF o.bool THEN [w EXCEPT !.t = "bool"]
                                           ELSE IF w.t = "big" THEN Scalar("int", <<0>>) ELSE w)
    [] w.t = "float" -> Finalized(w)
    [] OTHER -> Stops(w, "dies")

(* The variables and whether it came to the end; the table is emptied then. *)
UpToFirstStop(v, done) ==
  LET stops == {p \in DOMAIN done : done[p].result # "ok"}
  IN  [var |-> [p \in DOMAIN v |-> IF p \in DOMAIN done /\ \A k \in stops : p <= k
                                   THEN done[p].value ELSE v[p]],
       result |-> IF stops = {} THEN "ok" ELSE done[Min(stops)].result]

Finalize(v, outputs, ind) ==
  UpToFirstStop(v, [p \in DOMAIN outputs |-> Final(v[p], outputs[p], ind[p])])

FinalizeIf(due, v, outputs, ind) ==
  IF due THEN Finalize(v, outputs, ind) ELSE [var |-> v, result |-> "ok"]

----
(* SQLExecute and the last SQLParamData: results to come, or a failure. *)
Ran(d, n) == [d EXCEPT !.state = IF n = 0 THEN "end" ELSE "results", !.left = n, !.at = 0]

(* The server's output parameters, written when no result is left: what it  *)
(* answers for each, and what of it the buffer has.                         *)
Width(o) == CellBytes(IF o.enc = "UTF8" THEN "UTF16" ELSE "UTF8")
Answers(o) ==
  IF o.enc = None THEN {<<NullData, <<1>>>>, <<8, <<1>>>>}
  ELSE {<<NullData, <<>>>>} \cup {<<Len(s) * Width(o), s>> : s \in TextsOut}
         \cup {<<NoTotal, s>> : s \in {x \in TextsOut : Len(x) * Width(o) > o.room}}

Written(v, o, a) ==
  IF o.enc = None THEN [v EXCEPT !.s = IF v.t = "big" THEN @ ELSE a[2]]
  ELSE [t |-> "string", cp |-> IF o.enc = "UTF8" THEN "UTF16" ELSE "UTF8",
        s |-> Cut(a[2], o.room \div Width(o))]

Outputs == DOMAIN held.outputs \cap DOMAIN driver.bound
Lengths(a) == [p \in DOMAIN driver.ind |-> IF p \in Outputs THEN a[p][1] ELSE driver.ind[p]]
Filled(a) == [p \in P |-> IF p \in Outputs THEN Written(var[p], held.outputs[p], a[p]) ELSE var[p]]
AllAnswers == {a \in [Outputs -> UNION {Answers(held.outputs[p]) : p \in Outputs}] :
                 \A p \in Outputs : a[p] \in Answers(held.outputs[p])}

----
(***************************************************************************)
(* hdb_execute: skip what is left of the last execution, bind, execute.    *)
(***************************************************************************)
Execute ==
  /\ call.phase = "idle" /\ call.runs < MaxRuns
  /\ call' = [call EXCEPT !.phase = IF stmt.executed /\ ~stmt.pastEnd THEN "flush" ELSE "free", !.runs = @ + 1]
  /\ UNCHANGED <<given, var, held, stmt, source, driver>>

(* One round of the loop: an error of SQLMoreResults is not looked at, and  *)
(* at the end the output parameters are written but not put in order.       *)
Flush ==
  /\ call.phase = "flush"
  /\ \/ /\ driver.state \in {"need", "put"}
        /\ UNCHANGED <<var, stmt, driver, call>>
     \/ /\ driver.state = "results" /\ driver.left > 1
        /\ driver' = [driver EXCEPT !.left = @ - 1]
        /\ UNCHANGED <<var, stmt, call>>
     \/ /\ driver.state \in {"end", "idle"} \/ driver.left = 1
        /\ stmt' = [stmt EXCEPT !.pastEnd = TRUE]
        /\ call' = [call EXCEPT !.phase = "free"]
        /\ IF driver.state = "results"
           THEN /\ driver' = [driver EXCEPT !.state = "end", !.left = 0]
                /\ \E a \in AllAnswers : var' = Filled(a)
           ELSE UNCHANGED <<var, driver>>
  /\ UNCHANGED <<given, held, source>>

(* The start of bind_params: free_param_data. *)
Free ==
  /\ call.phase = "free"
  /\ IF given = <<>>
     THEN call' = [call EXCEPT !.phase = "run"] /\ UNCHANGED <<held, stmt>>
     ELSE /\ held' = NoHeld
          /\ stmt' = [stmt EXCEPT !.executed = FALSE]
          /\ call' = [call EXCEPT !.phase = "bind", !.next = 1]
  /\ UNCHANGED <<given, var, source, driver>>

Parse(p) ==
  IF given[p].array THEN T!parse_param_array(given[p], var[p], ConnEncoding, FALSE)
  ELSE T!Parsed("in", "INVALID", ConnEncoding, None, 0, 0)

(* A failed bind gives up the array of parameters for good. *)
BindFails(freed) ==
  /\ given' = <<>>
  /\ held' = IF freed THEN NoHeld ELSE held
  /\ driver' = Reset(driver)
  /\ call' = Returns("false")

Bind ==
  /\ call.phase = "bind"
  /\ \E p \in {call.next} : \E q \in {Parse(p)} : \E w \in {Coerced(q, var[p])} :
       IF q.error # None THEN BindFails(FALSE) /\ UNCHANGED var
       ELSE IF BindDies(q, w) # None
       THEN call' = Dies(BindDies(q, w)) /\ UNCHANGED <<given, var, held, driver>>
       ELSE IF BindError(q, w) # None
       THEN BindFails(TRUE) /\ var' = [var EXCEPT ![p] = w]
       ELSE /\ var' = [var EXCEPT ![p] = IF w.t = "bool" THEN Long(w) ELSE Buffer(q, w)]
            /\ held' = Kept(held, p, q, var[p], w)
            /\ driver' = [driver EXCEPT
                 !.bound = With(@, p, [dir |-> q.dir, enc |-> q.enc, t |-> w.t, bool |-> var[p].t = "bool",
                                       sent |-> Sent(q, w)]),
                 !.ind = With(@, p, Length(q, var[p], w))]
            /\ call' = IF p = Len(given) THEN [call EXCEPT !.phase = "run"] ELSE [call EXCEPT !.next = p + 1]
            /\ UNCHANGED given
  /\ UNCHANGED <<stmt, source>>

Streams(d) == {p \in DOMAIN d.bound : d.bound[p].t = "stream"}

(* The handler of core_hdb_execute: output parameters again, whatever state *)
(* they are in, and only then the streams and the cancellation.             *)
Handler(f, h, s, d) ==
  [var |-> f.var,
   held |-> IF s.atExec /\ f.result = "ok" THEN [h EXCEPT !.outputs = <<>>, !.streams = {}] ELSE h,
   driver |-> IF f.result = "ok" /\ s.executed THEN Cancelled(d) ELSE d,
   call |-> IF f.result = "dies" THEN Dies("handler") ELSE Returns("false")]

Fails(v, h, s, d) ==
  \E f \in {FinalizeIf(s.atExec, v, h.outputs, d.ind)} : \E r \in {Handler(f, h, s, d)} :
    /\ var' = r.var /\ held' = r.held /\ driver' = r.driver /\ call' = r.call
    /\ stmt' = s

(* Output parameters stay until they have been put in order.                *)
Released_Early(h, atExec, done) == [h EXCEPT !.outputs = IF atExec THEN <<>> ELSE @, !.streams = IF atExec THEN {} ELSE @]
Released(h, atExec, done) == [h EXCEPT !.outputs = IF done THEN <<>> ELSE @, !.streams = IF atExec THEN {} ELSE @]

(* What core_hdb_execute does after everything has been sent.               *)
Finish(d, a) ==
  \E s \in {[stmt EXCEPT !.executed = TRUE, !.pastEnd = FALSE]},
     v \in {IF d.state = "end" THEN Filled(a) ELSE var},
     e \in {IF d.state = "end" THEN [d EXCEPT !.ind = Lengths(a), !.told = a] ELSE d} :
  \E f \in {FinalizeIf(s.atExec /\ e.state = "end", v, held.outputs, e.ind)} :
    \/ f.result = "throws" /\ Fails(f.var, held, s, e)
    \/ /\ f.result = "dies"
       /\ var' = f.var /\ driver' = e /\ stmt' = s /\ call' = Dies("output") /\ held' = held
    \/ /\ f.result = "ok"
       /\ var' = f.var /\ driver' = e /\ stmt' = s /\ call' = Returns("true")
       /\ held' = Released(held, s.atExec, s.atExec /\ e.state = "end")

(* SQLExecute. *)
Run ==
  /\ call.phase = "run"
  /\ LET d == [driver EXCEPT !.got = [p \in Streams(driver) |-> <<>>], !.told = <<>>,
                             !.from = [p \in Streams(driver) |-> source[p].read]]
     IN  \/ Fails(var, held, stmt, [d EXCEPT !.state = "idle"])
         \/ /\ DOMAIN driver.bound = P /\ Streams(d) = {}
            /\ \E n \in 0 .. MaxResults : \E a \in AllAnswers : Finish(Ran(d, n), a)
         \/ /\ DOMAIN driver.bound = P /\ Streams(d) # {}
            /\ IF stmt.atExec
               THEN /\ driver' = [d EXCEPT !.state = "need", !.at = 0]
                    /\ call' = [call EXCEPT !.phase = "send"]
                    /\ UNCHANGED <<var, held, stmt>>
               ELSE /\ driver' = [d EXCEPT !.state = "need", !.at = 0]
                    /\ call' = Returns("true")
                    /\ stmt' = [stmt EXCEPT !.executed = TRUE, !.pastEnd = FALSE]
                    /\ UNCHANGED <<var, held>>
  /\ UNCHANGED <<given, source>>

----
(***************************************************************************)
(* core_hdb_send_stream_packet: one packet of the current stream.  The     *)
(* stream gives as many bytes as it has at the moment.                     *)
(***************************************************************************)
Stream(p) == driver.bound[p]
TextOf(p) == source[p].text
AtEof(p, n) == source[p].read + n = Len(TextOf(p))

(* Failures inside its try block: parameters are freed, the call cancelled. *)
SendFails ==
  LET s == [stmt EXCEPT !.current = 0, !.read = 0]
      d == Cancelled(Reset(driver))
  IN  IF call.phase = "send" THEN Fails(var, NoHeld, s, d)
      ELSE /\ held' = NoHeld /\ driver' = d /\ stmt' = s /\ call' = Returns("false")
           /\ UNCHANGED var

(* SQLParamData fails: not inside it. *)
ParamDataFails ==
  IF call.phase = "send" THEN Fails(var, held, stmt, [driver EXCEPT !.state = "idle"])
  ELSE /\ call' = Returns("false")
       /\ driver' = IF driver.state = "put" THEN [driver EXCEPT !.state = "idle"] ELSE driver
       /\ UNCHANGED <<var, held, stmt>>

(* The bytes that complete a character cut off at the end of a piece.  With *)
(* more continuation bytes than it takes the difference wraps, and is more  *)
(* than any stream has.                                                     *)
HasLead(piece) == \E i \in DOMAIN piece : piece[i] # "m"
Lead(piece) == CHOOSE i \in DOMAIN piece :
                 piece[i] # "m" /\ \A j \in i + 1 .. Len(piece) : piece[j] = "m"
calc_utf8_missing(piece) == CchUtf8CodePt[piece[Lead(piece)]] - 1 - (Len(piece) - Lead(piece))

Converts(data) == [ok |-> TRUE, more |-> 0, data |-> data]
Refuses(more) == [ok |-> FALSE, more |-> more, data |-> <<>>]

(* What is put of the n bytes read, and how many more are read for it.  For *)
(* a piece of continuation bytes that depends on what lies before the       *)
(* buffer, where the code looks for the byte that leads them.               *)
Packet_CutReplaced(p, n) ==
  LET at == source[p].read
      piece == SubSeq(TextOf(p), at + 1, at + n)
  IN  {Converts(IF Stream(p).enc # "UTF8" THEN piece ELSE Convert("UTF8", piece, 2 * n + 1, FALSE).out)}

Packet(p, n) ==
  LET at == source[p].read
      rest == Len(TextOf(p)) - at - n
      piece == SubSeq(TextOf(p), at + 1, at + n)
      r == Convert("UTF8", piece, Len(piece) + 1, TRUE)
      more == calc_utf8_missing(piece)
      whole == Convert("UTF8", SubSeq(TextOf(p), at + 1, at + n + more), n + more, TRUE)
  IN  CASE Stream(p).enc # "UTF8" -> {Converts(piece)}
        [] Stream(p).enc = "UTF8" /\ r.error = "none" -> {Converts(r.out)}
        [] Stream(p).enc = "UTF8" /\ r.error # "none" /\ ~HasLead(piece) -> {Refuses(m) : m \in 0 .. rest}
        [] Stream(p).enc = "UTF8" /\ r.error # "none" /\ HasLead(piece) ->
             {IF piece[Lead(piece)] \notin Leads THEN Refuses(0)
              ELSE IF more < 0 \/ more > rest THEN Refuses(rest)
              ELSE IF whole.error # "none" THEN Refuses(more)
              ELSE [Converts(whole.out) EXCEPT !.more = more]}

Take(n) == {k \in Pieces \cup {n} : k <= n}

Goes == IF call.phase = "send" THEN call ELSE Returns("true")

(* The buffer has room for three bytes more than a packet.                  *)
Overrun(n, more) == more > PacketSize + 3 - n

(* SQLPutData: refused unless SQLParamData has asked for this parameter.    *)
PutData(p, n, eof) ==
  \E k \in Packet(p, n) :
      /\ source' = [source EXCEPT ![p].read = @ + n + k.more, ![p].eof = eof /\ AtEof(p, n + k.more)]
      /\ \/ ~k.ok /\ SendFails
         \/ ~k.ok /\ Overrun(n, k.more) /\ call' = Dies("overrun") /\ UNCHANGED <<var, held, driver, stmt>>
         \/ k.ok /\ driver.state # "put" /\ SendFails
         \/ /\ k.ok /\ driver.state = "put"
            /\ driver' = [driver EXCEPT !.got[p] = @ \o k.data]
            /\ stmt' = [stmt EXCEPT !.read = @ + n]
            /\ call' = Goes
            /\ UNCHANGED <<var, held>>

(* hdb_send_stream_data has nothing to do when execution sends everything. *)
Sending == call.phase = "send" \/ (call.phase = "idle" /\ ~stmt.atExec /\ call.runs > 0)

Rest_All(d) == Streams(d)
Rest(d) == {p \in Streams(d) : p > d.at}

(* check_for_next_stream_parameter: the driver names the next one, or all   *)
(* has been sent and it executes.                                           *)
NextStream ==
  /\ Sending /\ stmt.current = 0
  /\ LET rest == Rest(driver)
     IN  \/ ParamDataFails
         \/ /\ driver.state \in {"need", "put"} /\ rest # {}
            /\ IF Min(rest) \notin held.streams THEN call' = Dies("lost stream") /\ UNCHANGED <<stmt, driver>>
               ELSE /\ stmt' = [stmt EXCEPT !.current = Min(rest), !.read = 0]
                    /\ driver' = [driver EXCEPT !.state = "put", !.at = Min(rest)]
                    /\ call' = IF call.phase = "send" THEN call ELSE [call EXCEPT !.phase = "packet"]
            /\ UNCHANGED <<var, held>>
         \/ /\ driver.state \in {"need", "put"} /\ rest = {}
            /\ \E n \in 0 .. MaxResults : \E a \in AllAnswers :
                 IF call.phase = "send" THEN Finish(Ran(driver, n), a)
                 ELSE /\ driver' = [Ran(driver, n) EXCEPT !.ind = IF n = 0 THEN Lengths(a) ELSE @,
                                                          !.told = IF n = 0 THEN a ELSE @]
                      /\ var' = IF n = 0 THEN Filled(a) ELSE var
                      /\ call' = Returns("null")
                      /\ UNCHANGED <<held, stmt>>
  /\ UNCHANGED <<given, source>>

SendPacket ==
  /\ Sending \/ call.phase = "packet"
  /\ stmt.current # 0
  /\ LET p == stmt.current
         left == Len(TextOf(p)) - source[p].read
     IN  \/ /\ source[p].eof
            /\ IF driver.state # "put" /\ stmt.read = 0 THEN SendFails
               ELSE /\ stmt' = [stmt EXCEPT !.current = 0, !.read = 0]
                    /\ call' = Goes
                    /\ UNCHANGED <<var, held, driver>>
            /\ UNCHANGED source
         \/ /\ ~source[p].eof /\ left = 0
            /\ source' = [source EXCEPT ![p].eof = TRUE]
            /\ call' = Goes
            /\ UNCHANGED <<var, held, driver, stmt>>
         \/ /\ ~source[p].eof /\ left > 0
            /\ \E n \in Take(Min({left, PacketSize})), eof \in BOOLEAN : n > 0 /\ PutData(p, n, eof)
         \/ /\ ~source[p].eof
            /\ SendFails
            /\ UNCHANGED source
  /\ UNCHANGED given

----
(* hdb_next_result: core_hdb_next_result with its handler, which cancels.   *)
NextResult ==
  /\ call.phase = "idle" /\ stmt.executed
  /\ \/ /\ stmt.pastEnd \/ driver.state \in {"need", "put"}
        /\ driver' = Cancelled(driver)
        /\ call' = Returns("false")
        /\ UNCHANGED <<var, held, stmt>>
     \/ /\ ~stmt.pastEnd /\ driver.state = "results" /\ driver.left > 1
        /\ driver' = [driver EXCEPT !.left = @ - 1]
        /\ call' = Returns("true")
        /\ UNCHANGED <<var, held, stmt>>
     \/ /\ ~stmt.pastEnd /\ (driver.state \in {"end", "idle"} \/ driver.left = 1)
        /\ LET last == driver.state = "results" IN
           \E a \in IF last THEN AllAnswers ELSE {driver.told} :
           \E d \in {IF last THEN [driver EXCEPT !.ind = Lengths(a), !.told = a, !.state = "end", !.left = 0]
                     ELSE driver} :
           \E f \in {Finalize(IF last THEN Filled(a) ELSE var, held.outputs, d.ind)} :
             /\ var' = f.var
             /\ driver' = IF f.result = "throws" THEN Cancelled(d) ELSE d
             /\ held' = IF f.result = "ok" THEN [held EXCEPT !.outputs = <<>>] ELSE held
             /\ stmt' = IF f.result = "ok" THEN [stmt EXCEPT !.pastEnd = TRUE] ELSE stmt
             /\ call' = CASE f.result = "ok" -> Returns("null")
                          [] f.result = "throws" -> Returns("false")
                          [] OTHER -> Dies("output")
  /\ UNCHANGED <<given, source>>

(* hdb_cancel: nothing but the driver's side. *)
Cancel ==
  /\ call.phase = "idle" /\ call.runs > 0
  /\ driver' = Cancelled(driver)
  /\ call' = Returns("true")
  /\ UNCHANGED <<given, var, held, stmt, source>>

Next == Execute \/ Flush \/ Free \/ Bind \/ Run \/ NextStream \/ SendPacket \/ NextResult \/ Cancel

Spec == Init /\ [][Next]_vars

(* hdb_execute goes on to its end, and a stream has data sooner or later.   *)
Proceed == call.phase # "idle" /\ Next
FairSpec == Spec /\ WF_vars(Proceed)

----
(* Whatever the pieces a stream delivers, once the driver has executed the  *)
(* statement it has received each stream parameter as it is from where it   *)
(* stood: no character cut between packets is lost or damaged.              *)
Recoded16(p, from) ==
  LET rest == SubSeq(TextOf(p), from + 1, Len(TextOf(p)))
  IN  IF Stream(p).enc = "UTF8" THEN Convert("UTF8", rest, Len(rest) + 1, TRUE).out ELSE rest

StreamsWhole ==
  driver.state \in {"results", "end"} =>
    \A p \in Streams(driver) : driver.got[p] = Recoded16(p, driver.from[p])

(* When a call has succeeded and all results are processed, each output     *)
(* variable holds what the server answered for it, in the script's          *)
(* encoding; a text cut by a driver that does not know its length is cut.   *)
Told(p) ==
  LET a == driver.told[p]
      b == driver.bound[p]
  IN  CASE a[1] = NullData -> {NullValue}
        [] a[1] # NullData /\ b.t = "string" ->
             {[t |-> "string", cp |-> "UTF8", s |-> IF b.enc = "UTF8" THEN Encoded(s) ELSE s] :
                s \in IF a[1] = NoTotal THEN {SubSeq(a[2], 1, n) : n \in 0 .. Len(a[2])} ELSE {a[2]}}
        [] a[1] # NullData /\ b.t # "string" ->
             {Scalar(IF b.bool THEN "bool" ELSE IF b.t = "big" THEN "int" ELSE b.t,
                     IF b.t = "big" THEN <<0>> ELSE a[2])}

OutputsDelivered ==
  call.phase = "idle" /\ call.ret \in {"true", "null"} /\ driver.state = "end" /\ held.outputs = <<>> =>
    \A p \in DOMAIN driver.told : var[p] \in Told(p)

(* While the driver may still read or write them, the statement holds every *)
(* buffer and stream that is bound.                                         *)
BuffersHeld ==
  /\ driver.state \in {"need", "put"} =>
       \A p \in DOMAIN driver.bound :
         /\ driver.bound[p].dir = "in" /\ driver.bound[p].t = "string" /\ driver.bound[p].enc = "UTF8" => p \in held.strings
         /\ driver.bound[p].t = "stream" => p \in held.streams
         /\ driver.bound[p].t = "datetime" => p \in held.dates
  /\ driver.state \in {"need", "put", "results"} =>
       \A p \in DOMAIN driver.bound : driver.bound[p].dir # "in" => p \in DOMAIN held.outputs

(* The comment on the handler of core_hdb_execute: an execution that failed *)
(* after it had run is cancelled, and no output or stream is held.          *)
CancelledOnFailure ==
  call.phase = "idle" /\ call.ret = "false" /\ stmt.executed /\ stmt.atExec =>
    /\ driver.state = "idle" /\ held.outputs = <<>> /\ held.streams = {}

(* hdb_execute comes to an end, however many packets it sends, unless it    *)
(* finds the driver still waiting for the streams of the last execution.    *)
ExecuteEnds ==
  (call.phase \notin {"idle", "dead"} /\ driver.state \notin {"need", "put"}) ~> call.phase \in {"idle", "dead"}
====
