---- MODULE FieldStream ----
(***************************************************************************)
(* A PHP stream over one field of the current row: hdb_stream_read and     *)
(* hdb_stream_close.  PHP asks for a chunk of bytes at a time until the    *)
(* stream says it is at its end; each read is one SQLGetData, whose pieces *)
(* are converted from UTF-16 when the stream delivers UTF-8.               *)
(*                                                                         *)
(* The driver's SQLGetData is external.  A null field never gets here:     *)
(* core_get_field_common returns null before it opens a stream.            *)
(***************************************************************************)
EXTENDS Transcode

CONSTANTS
  Fields,       \* the values: sequences of UTF-16 units
  Encodings,    \* subset of {"char", "binary", "UTF8"}
  Chunks,       \* bytes PHP asks for, stream_set_chunk_size
  BufferSize,   \* PHP_STREAM_BUFFER_SIZE
  LengthKnown,  \* subset of BOOLEAN: does the driver tell how much is left of a cut value?
  DriverFails   \* may SQLGetData fail?

(* With fewer than 8 bytes a read of UTF-8 has no room for a unit and its   *)
(* terminator, and reports an error or delivers terminators without end.    *)
ASSUME StreamAssumption ==
  /\ BufferSize \in Nat /\ BufferSize >= 4 /\ LengthKnown \subseteq BOOLEAN /\ DriverFails \in BOOLEAN
  /\ \A c \in Chunks : c \in Nat /\ c >= 8
  /\ Encodings \subseteq {"char", "binary", "UTF8"}
  /\ Fields \subseteq Seq(DOMAIN Utf8Of \cup {"lo"})

VARIABLES
  field,        \* the field: its value and how far the driver has delivered it
  stream,       \* encoding, chunk size, eof, whether the script holds it open, and
                \* whether the driver knows lengths
  got,          \* the bytes the script has read
  hist          \* history: positions where a pair was split between two reads,
                \* what the last read asked for and what was left of the value, and
                \* whether an error was reported

vars == <<field, stream, got, hist>>

CellSize(e) == IF e = "UTF8" THEN 2 ELSE 1
Terminator(e) == IF e = "binary" THEN 0 ELSE CellSize(e)

Init ==
  /\ field \in [value : Fields, pos : {0}]
  /\ stream \in [encoding : Encodings, chunk : Chunks, eof : {FALSE}, open : {TRUE},
                 known : LengthKnown]
  /\ got = <<>>
  /\ hist = [splits |-> {}, count |-> 0, left |-> 0, failed |-> FALSE, driverFailed |-> FALSE]

(* The bytes a read asks SQLGetData for: halved for UTF-8, which may be     *)
(* longer than the UTF-16 it comes from.                                    *)
Least(a, b) == IF a < b THEN a ELSE b
Count == IF stream.encoding = "UTF8" THEN Least(stream.chunk \div 2, BufferSize) ELSE stream.chunk

(***************************************************************************)
(* SQLGetData: what is left of the value if it fits with its terminator,   *)
(* otherwise a piece with the truncation warning.  `read` is what was left *)
(* before the call, in bytes, or SQL_NO_TOTAL.                             *)
(***************************************************************************)
Remaining == CellSize(stream.encoding) * (Len(field.value) - field.pos)
NoTotal == -4

Truncates(count) == Remaining + Terminator(stream.encoding) > count

Delivered(count) ==
  IF Truncates(count)
  THEN (count - Terminator(stream.encoding)) \div CellSize(stream.encoding)
  ELSE Len(field.value) - field.pos

Reported(count) ==
  IF Truncates(count) /\ ~stream.known THEN NoTotal ELSE Remaining

(* The units of the piece the read keeps, of the n delivered ones and the   *)
(* terminator after them: its length corrected when it was cut.             *)
Kept_AsReported(count, n) == Least(Remaining, count) \div CellSize(stream.encoding)
Kept(count, n) ==
  IF Truncates(count)
  THEN (count - Terminator(stream.encoding)) \div CellSize(stream.encoding)
  ELSE Remaining \div CellSize(stream.encoding)

(* The stream is at its end when it delivers less than was asked for; the   *)
(* comparison also takes a value of exactly that length, which the          *)
(* terminator does not leave whole, for the end.                            *)
AtEnd_WithoutNoTotal(count, read) == read <= count
AtEnd_OnError(count, read) == FALSE
AtEnd(count, read) == read <= count /\ read # NoTotal

(* The piece as the script gets it; refused when nothing was converted.     *)
Piece(units, room) ==
  IF stream.encoding = "UTF8"
  THEN LET r == Convert("UTF16", units, room, FALSE)
       IN  [ok |-> r.error = "none" /\ r.out # <<>>, out |-> r.out]
  ELSE [ok |-> TRUE, out |-> units]

SplitPair(pos, n) ==
  /\ stream.encoding = "UTF8" /\ pos + n < Len(field.value) /\ n > 0
  /\ field.value[pos + n] = "hi" /\ field.value[pos + n + 1] = "lo"

(* hdb_stream_read. *)
Read ==
  /\ stream.open /\ ~stream.eof
  /\ LET n == Delivered(Count)
         buffer == SubSeq(field.value, field.pos + 1, field.pos + n) \o <<"nul", "nul">>
         p == Piece(SubSeq(buffer, 1, Kept(Count, n)), 2 * Count)
     IN  /\ field' = [field EXCEPT !.pos = @ + n]
         /\ stream' = [stream EXCEPT !.eof = AtEnd(Count, Reported(Count)) \/ ~p.ok]
         /\ got' = IF p.ok THEN got \o p.out ELSE got
         /\ hist' = [hist EXCEPT
              !.splits = IF SplitPair(field.pos, n) THEN @ \cup {field.pos + n} ELSE @,
              !.count = Count, !.left = Remaining, !.failed = ~p.ok]

(* SQLGetData fails: the stream ends, and the read returns nothing. *)
ReadFails ==
  /\ DriverFails /\ stream.open /\ ~stream.eof
  /\ stream' = [stream EXCEPT !.eof = TRUE]
  /\ hist' = [hist EXCEPT !.failed = TRUE, !.driverFailed = TRUE]
  /\ UNCHANGED <<field, got>>

(* hdb_stream_close: by the script, or by the statement when its row or     *)
(* its results go.                                                          *)
Close ==
  /\ stream.open
  /\ stream' = [stream EXCEPT !.open = FALSE]
  /\ UNCHANGED <<field, got, hist>>

Next == Read \/ ReadFails \/ Close

Spec == Init /\ [][Next]_vars

(* The script reads until feof() unless it closes the stream. *)
FairSpec == Spec /\ WF_vars(Read)

----
(* What the script should see of the first n units: each in its place, the  *)
(* halves of a pair that two reads have split each as a replacement         *)
(* character, which is what Convert makes of them.                          *)
Expected(n) ==
  LET shown(i) == IF i \in hist.splits \/ i - 1 \in hist.splits THEN "R" ELSE field.value[i]
      units == [i \in 1 .. n |-> shown(i)]
  IN  IF stream.encoding # "UTF8" THEN SubSeq(field.value, 1, n)
      ELSE Convert("UTF16", units, 4 * n, FALSE).out

(* Whatever the chunk size, what the script has read is the value up to     *)
(* where the driver stands: pieces are neither lost, repeated nor damaged,  *)
(* but for a pair that falls on the border of two of them.  No terminator   *)
(* gets between the pieces.                                                 *)
DeliversPrefix == hist.failed \/ got = Expected(field.pos)

(* A stream that says it is at its end without an error has delivered       *)
(* everything, unless the last read had room for all that was left and not  *)
(* for the terminator: then the unit that made way for it is missing.       *)
EndIsEnd ==
  stream.eof /\ ~hist.failed =>
    \/ field.pos = Len(field.value)
    \/ /\ field.pos = Len(field.value) - 1
       /\ hist.left \in hist.count - Terminator(stream.encoding) + 1 .. hist.count

(* A script that reads until feof() comes to the end or closes the stream:  *)
(* every read makes progress, whether or not the driver knows the length.   *)
ReadsToTheEnd == <>(stream.eof \/ ~stream.open)
====
