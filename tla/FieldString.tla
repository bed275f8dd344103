---- MODULE FieldString ----
(***************************************************************************)
(* A field of the current row read as a string or as an integer:           *)
(* core_get_field_common, get_field_as_string with its three ways to size  *)
(* its buffer, the column cache, and get_data of a buffered result set     *)
(* with the conversions of its matrix.  For a buffered result the row is   *)
(* first copied field by field, large ones by read_lob_field, under the    *)
(* memory limit.                                                           *)
(*                                                                         *)
(* Sizes are in bytes where the code hands them to SQLGetData and in cells *)
(* of Transcode otherwise.  SQLGetData is external: it converts the value  *)
(* and delivers it from where the last call on the same field stopped.     *)
(***************************************************************************)
EXTENDS Transcode

CONSTANTS
  Results,          \* the results of the query, each a row: a sequence of columns
  Encodings,        \* subset of {"char", "binary", "UTF8"}: what the script asks for
  Modes,            \* subset of BOOLEAN: is the result set buffered?
  LengthKnown,      \* subset of BOOLEAN: does the driver tell how much is left?
  InitialLength,    \* INITIAL_FIELD_STRING_LEN and INITIAL_LOB_FIELD_LEN, in bytes
  MemoryLimit,      \* buffered_query_limit, in bytes
  LongBits,         \* width of the driver's LONG, 32 in the code
  NumberSlot,       \* bytes of a buffered row for a number: sizeof(long), sizeof(double)
  MaxFetches        \* bound: fetches of one row

(* A column: its C type, the display size the driver reports (0: large or   *)
(* unknown), its value in cells, for a number its digits, and, of a numeric *)
(* one, the number.  Of a number also the bytes of the LONG or double kept  *)
(* in a buffered row, and those the driver sends to a reader of binary.     *)
Columns == UNION {{Results[r][i] : i \in 1 .. Len(Results[r])} : r \in 1 .. Len(Results)}
CTypes == {"char", "wchar", "binary", "long", "double"}
CellOf(ctype) == IF ctype = "wchar" THEN 2 ELSE 1
SizeOf(ctype, cells) == CellOf(ctype) * Len(cells)
IsText(c) == c.ctype \in {"char", "wchar", "binary"}

(* What a buffered row holds of a column, and what it is charged for one    *)
(* whose size is known.                                                     *)
Held(c) == IF IsText(c) THEN SizeOf(c.ctype, c.value) ELSE Len(c.kept)
Charge(c) == IF IsText(c) THEN c.display ELSE NumberSlot

ASSUME FieldAssumption ==
  /\ InitialLength \in Nat /\ InitialLength % 2 = 0 /\ InitialLength > 0
  /\ MemoryLimit \in Nat /\ LongBits \in Nat \ {0} /\ MaxFetches \in Nat
  /\ NumberSlot \in Nat
  /\ Modes \subseteq BOOLEAN /\ LengthKnown \subseteq BOOLEAN
  /\ Len(Results) \in Nat \ {0}
  /\ \A r \in 1 .. Len(Results) : Len(Results[r]) \in Nat \ {0}
  /\ \A c \in Columns :
       /\ c.ctype \in CTypes /\ c.display \in Nat /\ c.null \in BOOLEAN /\ Len(c.value) \in Nat
       /\ IsText(c) /\ ~c.null /\ c.display > 0 => SizeOf(c.ctype, c.value) <= c.display
       /\ ~IsText(c) => c.display > 0 /\ Len(c.kept) \in 0 .. NumberSlot

VARIABLES
  cursor,           \* buffered?, known?, the result, fetches of its row, last_field_index,
                    \* and the fields asked for since the last fetch
  fill,             \* the copying of a buffered row: the field, its loop, mem_used
  col_cache,        \* of each field the display size cached for it, -1: none
  source,           \* the field being read and how many of its cells are delivered:
                    \* last_field_index and read_so_far of the buffer, or the driver's
  job,              \* the call of get_field_as_string under way
  told              \* what the last call returned

vars == <<cursor, fill, col_cache, source, job, told>>

Row == Results[cursor.result]
FieldIds == 1 .. 3
NoTotal == -4

Idle == [pc |-> "idle", field |-> 0, enc |-> "char", buf |-> <<>>, len |-> 0]
Nothing == [kind |-> "none", field |-> 0, enc |-> "char", value |-> <<>>, int |-> 0, first |-> TRUE]
Unread == [field |-> 0, pos |-> 0]
Forgotten == [i \in FieldIds |-> -1]
Filling(buffered) == [pc |-> IF buffered THEN "next" ELSE "done", field |-> 1, toRead |-> 0,
                      already |-> 0, full |-> FALSE, used |-> 0, lens |-> <<>>]

Init ==
  /\ cursor \in [buffered : Modes, known : LengthKnown, result : {1}, fetches : {0}, last : {0}, asked : {{}}]
  /\ fill = Filling(cursor.buffered)
  /\ col_cache = Forgotten /\ source = Unread /\ job = Idle /\ told = Nothing

----
(***************************************************************************)
(* Copying the row (the constructor of hdb_buffered_result_set).  A column *)
(* of known size is charged its size and read at once, a number the size   *)
(* of its slot; a large one is read by read_lob_field, and charged what it *)
(* holds.                                                                  *)
(***************************************************************************)
FillColumn == Row[fill.field]
Exceeds(bytes) == fill.used + bytes > MemoryLimit

NextField(len, used) ==
  fill' = [fill EXCEPT !.pc = IF fill.field = Len(Row) THEN "done" ELSE "next",
                       !.field = IF fill.field = Len(Row) THEN 1 ELSE fill.field + 1,
                       !.toRead = 0, !.already = 0, !.full = FALSE,
                       !.used = used, !.lens = Append(@, len)]

OverLimit == fill' = [fill EXCEPT !.pc = "failed"]

FillFixed ==
  /\ fill.pc = "next" /\ FillColumn.display > 0
  /\ IF Exceeds(Charge(FillColumn)) THEN OverLimit
     ELSE NextField(IF FillColumn.null THEN -1 ELSE Held(FillColumn), fill.used + Charge(FillColumn))
  /\ UNCHANGED <<cursor, col_cache, source, job, told>>

LobStart ==
  /\ fill.pc = "next" /\ FillColumn.display = 0
  /\ fill' = [fill EXCEPT !.pc = "lob", !.toRead = InitialLength]
  /\ UNCHANGED <<cursor, col_cache, source, job, told>>

(* One round of the loop of read_lob_field. *)
LobRound_LastPieceOnly(left, size) == left
LobRound(left, size) == IF fill.full THEN size ELSE fill.already + left

LobRead ==
  /\ fill.pc = "lob"
  /\ LET size == Held(FillColumn)
         left == size - fill.already
         fits == left <= fill.toRead - fill.already
         known == cursor.known
     IN  \/ /\ FillColumn.null
            /\ NextField(-1, fill.used)
         \/ /\ ~FillColumn.null /\ fits
            /\ IF Exceeds(left) THEN OverLimit
               ELSE NextField(LobRound(left, size), fill.used + LobRound(left, size))
         \/ /\ ~FillColumn.null /\ ~fits
            /\ LET next == IF known THEN left ELSE 2 * fill.toRead
               IN  IF Exceeds(next) THEN OverLimit
                   ELSE fill' = [fill EXCEPT !.toRead = next, !.already = fill.toRead,
                                             !.full = known]
  /\ UNCHANGED <<cursor, col_cache, source, job, told>>

Ready == fill.pc = "done"

----
(* The cells written into a buffer at an offset; what is not written is     *)
(* whatever the memory holds.                                               *)
Junk(n) == [i \in 1 .. n |-> "junk"]
Cells(buf, n) == SubSeq(buf \o Junk(n), 1, n)
WriteAt(buf, at, cells) == Cells(buf, at) \o cells

(***************************************************************************)
(* get_data: what one call on a field delivers into `room` cells of the    *)
(* target, terminator included.  `kind` is "ok", "cut" for the truncation  *)
(* warning, "null", "no data", "error" or "dies"; `left` the length it     *)
(* reports, `pos` how many cells of the field are used up.                 *)
(***************************************************************************)
TargetCell(c, enc) ==
  IF enc = "UTF8" \/ (enc = "binary" /\ c.ctype = "wchar") THEN 2 ELSE 1

Hex(s) == FlattenSeq([i \in 1 .. Len(s) |-> <<s[i], s[i]>>])

(* The value in the cells of the target, before the last conversion to UTF-8. *)
Converted == [c \in Columns, enc \in Encodings |->
  CASE enc = "UTF8" /\ c.ctype = "char" -> Convert("UTF8", c.value, Len(c.value), FALSE).out
    [] enc = "char" /\ c.ctype = "wchar" -> Convert("UTF16", c.value, 4 * Len(c.value), FALSE).out
    [] enc # "binary" /\ c.ctype = "binary" -> Hex(c.value)
    [] enc = "binary" /\ ~IsText(c) -> c.sent
    [] OTHER -> c.value]

Delivery(kind, cells, left, pos) == [kind |-> kind, cells |-> cells, left |-> left, pos |-> pos]

(* A call that has `cells` to deliver, `per` of them for a position of the  *)
(* field; extra is the terminator, which follows the cells copied.          *)
Deliver(cells, room, extra, pos, per) ==
  LET cut == room < Len(cells) + extra
      n == IF cut THEN room - extra ELSE Len(cells)
      end == IF extra > 0 THEN <<"nul">> ELSE <<>>
  IN  Delivery(IF cut THEN "cut" ELSE "ok", SubSeq(cells, 1, n) \o end, Len(cells), pos + n \div per)

From(s, pos) == SubSeq(s, pos + 1, Len(s))

(* to_same_string and to_binary_string: the terminator is the column's,     *)
(* also when the caller asked for binary and has left no room for one.      *)
SameString_FromStart(c, room, pos) ==
  Deliver(c.value, room, IF c.ctype = "binary" THEN 0 ELSE 1, pos, 1)
SameString(c, room, pos) ==
  Deliver(From(c.value, pos), room, IF c.ctype = "binary" THEN 0 ELSE 1, pos, 1)

(* binary_to_system_string and binary_to_wide_string: the length is of what *)
(* is left, the digits are the value's first.                               *)
HexString(c, room, pos) ==
  LET left == 2 * (Len(c.value) - pos)
  IN  Deliver(SubSeq(Hex(c.value), 1, left), room, 1, pos, 2)

(* system_to_wide_string: a unit is counted for every byte; what the        *)
(* conversion leaves of them is not written.  The length of what is left is *)
(* looked for before the part still to be read (WideLengths).               *)
WideString(c, room, pos) ==
  LET left == Len(c.value) - pos
      n == IF room < left + 1 THEN room - 1 ELSE left
      units == Convert("UTF8", SubSeq(c.value, pos + 1, pos + n), n, FALSE).out
  IN  Delivery(IF room < left + 1 THEN "cut" ELSE "ok", Cells(units, n) \o <<"nul">>, left, pos + n)

(* wide_to_system_string: the whole value is converted into as many bytes   *)
(* as it has, and an assertion fails when they do not suffice.              *)
SystemString(c, room, pos) ==
  LET all == Convert("UTF16", c.value, SizeOf("wchar", c.value), FALSE)
  IN  IF c.value = <<>> THEN Delivery("ok", <<>>, 0, 0)
      ELSE IF all.error # "none" THEN Delivery("dies", <<>>, 0, 0)
      ELSE Deliver(From(all.out, pos), room, 1, pos, 1)

(* Where field_data already points past what was read, the length is taken  *)
(* out of the text: it is even, and anything else.                          *)
WideLengths(d, room, pos) == IF pos = 0 THEN {d.left} ELSE {0, d.left, d.left + room}

(* to_long and to_double, which serve a reader of binary too: the bytes of  *)
(* the row as they are, and an assertion on the room for them.              *)
NumberBytes(c, room) ==
  IF room < Len(c.kept) THEN Delivery("dies", <<>>, 0, 0)
  ELSE Delivery("ok", c.kept, Len(c.kept), 0)

(* number_to_string. *)
NumberString(c, room) ==
  IF Len(c.value) > room THEN Delivery("error", <<>>, 0, 0)
  ELSE Delivery("ok", c.value, Len(c.value), 0)

Pos(f) == IF source.field = f THEN source.pos ELSE 0

BufferedData(f, enc, room) ==
  LET c == Row[f]
  IN  CASE c.null -> Delivery("null", <<>>, 0, Pos(f))
        [] ~c.null /\ ~IsText(c) /\ enc = "binary" -> NumberBytes(c, room)
        [] ~c.null /\ ~IsText(c) /\ enc # "binary" -> NumberString(c, room)
        [] ~c.null /\ enc = "UTF8" /\ c.ctype = "char" -> WideString(c, room, Pos(f))
        [] ~c.null /\ enc = "char" /\ c.ctype = "wchar" -> SystemString(c, room, Pos(f))
        [] ~c.null /\ enc # "binary" /\ c.ctype = "binary" -> HexString(c, room, Pos(f))
        [] OTHER -> SameString(c, room, Pos(f))

DriverData(f, enc, room) ==
  LET c == Row[f]
      all == Converted[c, enc]
      d == Deliver(From(all, Pos(f)), room, IF enc = "binary" THEN 0 ELSE 1, Pos(f), 1)
  IN  IF c.null THEN Delivery("null", <<>>, 0, Pos(f))
      ELSE IF source.field = f /\ source.pos >= Len(all) THEN Delivery("no data", <<>>, 0, Pos(f))
      ELSE IF d.kind = "cut" /\ ~cursor.known THEN [d EXCEPT !.left = NoTotal] ELSE d

GetData(f, enc, room) ==
  IF ~cursor.buffered THEN {DriverData(f, enc, room)}
  ELSE LET d == BufferedData(f, enc, room)
       IN  IF Row[f].ctype = "char" /\ enc = "UTF8"
           THEN {[d EXCEPT !.left = n] : n \in WideLengths(d, room, Pos(f))} ELSE {d}

----
Answer(kind, value) ==
  /\ told' = [told EXCEPT !.kind = kind, !.field = job.field, !.enc = job.enc, !.value = value]
  /\ job' = Idle

Returned(kind, value) ==
  /\ Answer(kind, value)
  /\ cursor' = IF kind \in {"value", "null"} /\ cursor.last < job.field
               THEN [cursor EXCEPT !.last = job.field] ELSE cursor

(* The end of get_field_as_string: convert_string_from_utf16_inplace. *)
Finish(buf, len) ==
  \E cells \in {Cells(buf, len)} : \E junk \in {\E i \in 1 .. len : cells[i] = "junk"} :
    \E utf8 \in {IF job.enc = "UTF8" /\ ~junk THEN FromUtf16(cells) ELSE Refused} :
      IF junk THEN Returned("value", <<"junk">>)
      ELSE IF job.enc = "UTF8" THEN Returned(IF utf8.ok THEN "value" ELSE "error", utf8.out)
      ELSE Returned("value", cells)

Consume(f, d) == source' = [field |-> f, pos |-> d.pos]

(* What ends a call before there is a value. *)
Refusal(kind) == Returned(IF kind = "no data" THEN "error" ELSE kind, <<>>)

Extra(enc) == IF enc = "binary" THEN 0 ELSE 1
InitialCells == InitialLength \div TargetCell(Row[job.field], job.enc)

MayGet(f) ==
  /\ Ready /\ job.pc = "idle" /\ told.kind # "dies"
  /\ f \in 1 .. Len(Row) /\ cursor.fetches > 0 /\ f >= cursor.last

FirstTime(f) == source.field # f \/ f \notin cursor.asked

(* core_get_field_common to get_field_as_string, up to the choice of its    *)
(* buffer.  Fields are retrieved in order.                                  *)
Get(f, enc) ==
  /\ MayGet(f)
  /\ LET display == IF col_cache[f] >= 0 THEN col_cache[f] ELSE Row[f].display
     IN  /\ col_cache' = [col_cache EXCEPT ![f] = display]
         /\ job' = [pc |-> IF display = 0 THEN "first" ELSE "fixed", field |-> f, enc |-> enc,
                    buf |-> <<>>, len |-> 0]
  /\ told' = [Nothing EXCEPT !.first = FirstTime(f)]
  /\ cursor' = [cursor EXCEPT !.asked = @ \cup {f}]
  /\ UNCHANGED <<fill, source>>

(* A column of known size.  A warning of the server's cursor fails the      *)
(* call; the buffer's is not looked at.                                     *)
FixedRoom(f, enc) ==
  IF enc = "binary" THEN col_cache[f] \div TargetCell(Row[f], enc) ELSE col_cache[f] + 1

ReadFixed ==
  /\ job.pc = "fixed"
  /\ \E d \in GetData(job.field, job.enc, FixedRoom(job.field, job.enc)) :
         /\ Consume(job.field, d)
         /\ IF d.kind \in {"null", "no data", "error", "dies"} THEN Refusal(d.kind)
            ELSE IF d.kind = "cut" /\ ~cursor.buffered THEN Returned("error", <<>>)
            ELSE Finish(d.cells, d.left)
  /\ UNCHANGED <<fill, col_cache>>

(* A large one: the first piece tells how long the value is, or not. *)
ReadFirst ==
  /\ job.pc = "first"
  /\ \E n \in {InitialCells} : \E d \in GetData(job.field, job.enc, n + Extra(job.enc)) :
         /\ Consume(job.field, d)
         /\ IF d.kind \in {"null", "no data", "dies"} THEN Refusal(d.kind)
            ELSE IF d.kind = "cut"
            THEN /\ job' = [job EXCEPT !.pc = IF d.left = NoTotal THEN "more" ELSE "rest",
                                       !.buf = d.cells, !.len = IF d.left = NoTotal THEN n ELSE d.left]
                 /\ UNCHANGED <<cursor, told>>
            ELSE IF d.kind = "error" THEN Finish(<<>>, n)
            ELSE Finish(d.cells, d.left)
  /\ UNCHANGED <<fill, col_cache>>

(* The rest of a value of known length. *)
ReadRest ==
  /\ job.pc = "rest"
  /\ \E d \in GetData(job.field, job.enc, job.len - InitialCells + Extra(job.enc)) :
         /\ Consume(job.field, d)
         /\ IF d.kind \in {"null", "no data", "dies"} THEN Refusal(d.kind)
            ELSE Finish(WriteAt(job.buf, InitialCells, d.cells), job.len)
  /\ UNCHANGED <<fill, col_cache>>

(* One round of the loop that doubles the buffer until the last piece. *)
Grown(len) == 2 * len

ReadMore ==
  /\ job.pc = "more"
  /\ \E d \in GetData(job.field, job.enc, Grown(job.len) - job.len + Extra(job.enc)) :
     \E buf \in {WriteAt(job.buf, job.len, d.cells)} :
         /\ Consume(job.field, d)
         /\ IF d.kind = "cut"
            THEN /\ job' = [job EXCEPT !.buf = buf, !.len = Grown(job.len)]
                 /\ UNCHANGED <<cursor, told>>
            ELSE Finish(buf, job.len + d.left)
  /\ UNCHANGED <<fill, col_cache>>

----
(***************************************************************************)
(* An integer: get_data for SQL_C_LONG.  The driver refuses a number that  *)
(* does not fit or has a fraction.  Of the conversions of the buffer,      *)
(* double_to_long compares with the limits of a wider type, so that the    *)
(* cast is undefined, and string_to_number looks for a failure where none  *)
(* is recorded, and narrows.                                               *)
(***************************************************************************)
MaxLong == 2 ^ (LongBits - 1) - 1
Longs == -MaxLong - 1 .. MaxLong
Narrow(n) == ((n + MaxLong + 1) % 2 ^ LongBits) - MaxLong - 1
Fits(c) == c.num \in Longs /\ ~c.frac

DoubleToLong(c) == IF c.frac THEN {} ELSE IF Fits(c) THEN {c.num} ELSE Longs
StringToNumber(c) == IF c.numeric THEN Narrow(c.num) ELSE 0

IntsOf(c) ==
  CASE ~cursor.buffered -> IF c.numeric /\ Fits(c) THEN {c.num} ELSE {}
    [] cursor.buffered /\ c.ctype = "long" -> {c.num}
    [] cursor.buffered /\ c.ctype = "double" -> DoubleToLong(c)
    [] cursor.buffered /\ c.ctype \in {"char", "wchar"} -> {StringToNumber(c)}
    [] OTHER -> {}

GetInt(f) ==
  /\ MayGet(f)
  /\ source' = [field |-> f, pos |-> Pos(f)]
  /\ LET say(kind, n) == told' = [Nothing EXCEPT !.kind = kind, !.field = f, !.enc = "int", !.int = n,
                                                !.first = FirstTime(f)]
     IN  \/ Row[f].null /\ say("null", 0)
         \/ ~Row[f].null /\ \E n \in IntsOf(Row[f]) : say("int", n)
         \/ ~Row[f].null /\ IntsOf(Row[f]) = {} /\ say("error", 0)
  /\ cursor' = [cursor EXCEPT !.asked = @ \cup {f},
                               !.last = IF told'.kind # "error" /\ @ < f THEN f ELSE @]
  /\ UNCHANGED <<fill, col_cache, job>>

(* A fetch comes to a row, again or for the first time. *)
FetchRow == Unread

Fetch ==
  /\ Ready /\ job.pc = "idle" /\ told.kind # "dies" /\ cursor.fetches < MaxFetches
  /\ cursor' = [cursor EXCEPT !.fetches = @ + 1, !.last = 0, !.asked = {}]
  /\ source' = FetchRow /\ told' = Nothing
  /\ UNCHANGED <<fill, col_cache, job>>

(* core_hdb_next_result clears the column cache. *)
AfterResult_KeepCache == col_cache
AfterResult == Forgotten

NextResult ==
  /\ Ready /\ job.pc = "idle" /\ told.kind # "dies" /\ cursor.result < Len(Results)
  /\ cursor' = [cursor EXCEPT !.result = @ + 1, !.fetches = 0, !.last = 0, !.asked = {}]
  /\ fill' = Filling(cursor.buffered)
  /\ col_cache' = AfterResult /\ source' = Unread /\ told' = Nothing
  /\ UNCHANGED job

Continue == FillFixed \/ LobStart \/ LobRead \/ ReadFixed \/ ReadFirst \/ ReadRest \/ ReadMore

Next ==
  \/ Continue
  \/ \E f \in FieldIds : GetInt(f) \/ \E enc \in Encodings : Get(f, enc)
  \/ Fetch \/ NextResult

Spec == Init /\ [][Next]_vars

----
(* The value as a script should see it. *)
Whole(c, enc) ==
  CASE c.ctype = "wchar" /\ enc # "binary" -> Encoded(c.value)
    [] c.ctype = "binary" /\ enc # "binary" -> Hex(c.value)
    [] OTHER -> c.value

SingleByte(s) == \A i \in 1 .. Len(s) : s[i] \in {"a", "nul"}

(* Conversions of a buffered result that are exact whatever the length.     *)
(* Not among them: hexadecimal digits and text as binary, of values that    *)
(* are read in two pieces or fill their column, and text of several bytes   *)
(* to a character read as UTF-8.  A number read as binary comes as bytes,   *)
(* from the server too.                                                     *)
Exact(c, enc) ==
  \/ ~IsText(c) /\ enc # "binary"
  \/ IsText(c) /\ ~cursor.buffered
  \/ c.ctype = "char" /\ enc = "char"
  \/ c.ctype = "char" /\ enc = "UTF8" /\ SingleByte(c.value)
  \/ c.ctype = "wchar" /\ enc \in {"UTF8", "char"}
  \/ c.ctype = "binary" /\ (enc = "binary" \/ c.display > 0)

(* However a field is read, in one piece, two, or by doubling, from the     *)
(* server or the buffer, the script gets all of its value and nothing else, *)
(* the first time it asks after a fetch; an integer read from a column of   *)
(* numbers that fit 32 bits is the number.                                  *)
ValueIsWhole ==
  LET c == Row[told.field] IN
  /\ told.kind = "value" /\ told.first /\ Exact(c, told.enc) => told.value = Whole(c, told.enc)
  /\ told.kind = "int" /\ ~(cursor.buffered /\ (IsText(c) \/ ~Fits(c))) => told.int = c.num

(* The first call on a field fails for a reason in its value only: a number *)
(* that is no integer of the driver's width, ill-formed text, text of a     *)
(* buffered result that takes more bytes than it had in UTF-16, or a number *)
(* of one with fewer digits than bytes read as binary (AssertionsHold is    *)
(* about the last two).  Columns of an earlier result, still in the cache,  *)
(* are no reason.                                                           *)
FailsForCause ==
  told.kind \in {"error", "dies"} /\ told.first =>
    LET c == Row[told.field]
    IN  IF told.enc = "int" THEN ~c.numeric \/ ~Fits(c)
        ELSE \/ c.ctype = "wchar" /\ told.enc = "char" /\ Len(Encoded(c.value)) > SizeOf("wchar", c.value)
             \/ cursor.buffered /\ ~IsText(c) /\ told.enc = "binary" /\ c.display < Len(c.kept)
             \/ ~WellFormed(IF c.ctype = "wchar" THEN "UTF16" ELSE "UTF8", c.value)

(* What the buffer holds of a row is charged in full, and the total stays   *)
(* within the limit the whole time.                                         *)
BufferWithinLimit ==
  /\ fill.used <= MemoryLimit
  /\ \A i \in 1 .. Len(fill.lens) :
        fill.lens[i] = IF Row[i].null THEN -1 ELSE Held(Row[i])
  /\ \A i, j \in 1 .. Len(fill.lens) : i # j => fill.lens[i] + fill.lens[j] <= fill.used

(* No read fails an assertion of the buffer: the room a caller leaves holds *)
(* the number it is given, the room for a conversion what is converted.     *)
AssertionsHold == told.kind # "dies"
====
