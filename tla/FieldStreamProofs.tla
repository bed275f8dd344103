---- MODULE FieldStreamProofs ----
(***************************************************************************)
(* A stream that ends without an error has delivered the value, but for    *)
(* the unit that makes way for the terminator; in the encodings that are   *)
(* passed through it delivers every byte in its place; and every read that *)
(* does not end it moves on.  For all values, chunk and buffer sizes.      *)
(***************************************************************************)
EXTENDS FieldStream, SequenceTheorems, TLAPS

Cells == DOMAIN Utf8Of \cup {"lo"}

StreamTypeOK ==
  /\ field \in [value : Fields, pos : Nat]
  /\ stream \in [encoding : Encodings, chunk : Chunks, eof : BOOLEAN, open : BOOLEAN, known : LengthKnown]
  /\ hist \in [splits : SUBSET Int, count : Int, left : Int, failed : BOOLEAN, driverFailed : BOOLEAN]

(* The driver does not go past the value, and a failed stream is at its end. *)
StreamInv ==
  /\ StreamTypeOK
  /\ field.pos <= Len(field.value)
  /\ hist.failed => stream.eof
  /\ EndIsEnd

LEMMA FieldIsSeq == ASSUME StreamTypeOK PROVE field.value \in Seq(Cells) /\ Len(field.value) \in Nat
BY StreamAssumption, LenProperties DEF StreamTypeOK, Cells

(* What a read asks for has room for a unit and its terminator. *)
LEMMA CountHasRoom ==
  ASSUME StreamTypeOK
  PROVE  /\ Count \in Nat /\ stream.encoding \in {"char", "binary", "UTF8"}
         /\ Count >= CellSize(stream.encoding) + Terminator(stream.encoding)
<1>1. /\ stream.encoding \in {"char", "binary", "UTF8"}
      /\ stream.chunk \in Nat /\ stream.chunk >= 8 /\ BufferSize \in Nat /\ BufferSize >= 4
  BY StreamAssumption DEF StreamTypeOK
<1>2. stream.chunk \div 2 \in Nat /\ stream.chunk \div 2 >= 4
  BY <1>1
<1> QED
  BY <1>1, <1>2 DEF Count, Least, CellSize, Terminator

(* A piece stays within the value and has at least one unit when it is cut; *)
(* the piece that is not cut is the rest.                                   *)
LEMMA PieceWithin ==
  ASSUME StreamInv
  PROVE  LET n == Delivered(Count)
             left == Len(field.value) - field.pos
         IN  /\ n \in Nat /\ n <= left
             /\ Truncates(Count) => n > 0
             /\ ~Truncates(Count) => n = left /\ Remaining <= Count
             /\ Truncates(Count) /\ Remaining <= Count => n = left - 1
             /\ Truncates(Count) /\ Remaining <= Count =>
                  Remaining \in Count - Terminator(stream.encoding) + 1 .. Count
<1> DEFINE n == Delivered(Count)
           left == Len(field.value) - field.pos
           e == stream.encoding
           c == Count
<1>1. left \in Nat
  BY FieldIsSeq DEF StreamInv, StreamTypeOK
<1>2. c \in Nat /\ e \in {"char", "binary", "UTF8"} /\ c >= CellSize(e) + Terminator(e)
  BY CountHasRoom DEF StreamInv
<1>3. /\ Truncates(c) <=> CellSize(e) * left + Terminator(e) > c
      /\ Remaining = CellSize(e) * left
      /\ n = IF CellSize(e) * left + Terminator(e) > c THEN (c - Terminator(e)) \div CellSize(e) ELSE left
  BY DEF Truncates, Remaining, Delivered
<1> HIDE DEF n, left, e, c
<1> SUFFICES /\ n \in Nat /\ n <= left
             /\ Truncates(c) => n > 0
             /\ ~Truncates(c) => n = left /\ Remaining <= c
             /\ Truncates(c) /\ Remaining <= c => n = left - 1
             /\ Truncates(c) /\ Remaining <= c => Remaining \in c - Terminator(e) + 1 .. c
  BY DEF n, left, e, c
<1>4. CASE e = "char"
  BY <1>1, <1>2, <1>3, <1>4 DEF CellSize, Terminator
<1>5. CASE e = "binary"
  BY <1>1, <1>2, <1>3, <1>5 DEF CellSize, Terminator
<1>6. CASE e = "UTF8"
  BY <1>1, <1>2, <1>3, <1>6 DEF CellSize, Terminator
<1> QED
  BY <1>2, <1>4, <1>5, <1>6

LEMMA InitInv == Init => StreamInv
<1> SUFFICES ASSUME Init PROVE StreamInv
  OBVIOUS
<1>1. StreamTypeOK
  <2>1. field \in [value : Fields, pos : Nat]
    BY DEF Init
  <2>2. stream \in [encoding : Encodings, chunk : Chunks, eof : BOOLEAN, open : BOOLEAN, known : LengthKnown]
    BY DEF Init
  <2>3. hist \in [splits : SUBSET Int, count : Int, left : Int, failed : BOOLEAN, driverFailed : BOOLEAN]
    BY DEF Init
  <2> QED
    BY <2>1, <2>2, <2>3 DEF StreamTypeOK
<1>2. field.pos <= Len(field.value)
  BY <1>1, FieldIsSeq DEF Init
<1> QED
  BY <1>1, <1>2 DEF Init, StreamInv, EndIsEnd

LEMMA ReadInv == ASSUME StreamInv, Read PROVE StreamInv'
<1> DEFINE n == Delivered(Count)
           left == Len(field.value) - field.pos
           p == Piece(SubSeq(SubSeq(field.value, field.pos + 1, field.pos + n) \o <<"nul", "nul">>,
                             1, Kept(Count, n)), 2 * Count)
           end == AtEnd(Count, Reported(Count))
           ok == p.ok
           splits == IF SplitPair(field.pos, n) THEN hist.splits \cup {field.pos + n} ELSE hist.splits
           c == Count
           terminator == Terminator(stream.encoding)
<1>1. /\ StreamTypeOK /\ stream.eof = FALSE /\ field.pos <= Len(field.value)
      /\ Len(field.value) \in Nat /\ field.value \in Fields /\ field.pos \in Nat
  BY FieldIsSeq DEF StreamInv, StreamTypeOK, Read
<1>2. /\ field' = [field EXCEPT !.pos = @ + n]
      /\ stream' = [stream EXCEPT !.eof = end \/ ~ok]
      /\ hist' = [hist EXCEPT !.splits = splits, !.count = c, !.left = Remaining, !.failed = ~ok]
  BY DEF Read
<1>3. /\ n \in Nat /\ n <= left /\ c \in Nat
      /\ Truncates(c) \/ n = left
      /\ Truncates(c) /\ Remaining <= c => n = left - 1 /\ Remaining \in c - terminator + 1 .. c
  BY PieceWithin, CountHasRoom, <1>1
<1>4. end => ~Truncates(c) \/ Remaining <= c
  BY DEF AtEnd, Reported
<1>5. ok \in BOOLEAN
  BY DEF Piece
<1>6. splits \in SUBSET Int /\ Remaining \in Int /\ end \in BOOLEAN
  <2>1. Remaining \in Int
    BY <1>1 DEF Remaining, CellSize
  <2> QED
    BY <1>1, <1>3, <2>1 DEF StreamTypeOK, AtEnd
<1> HIDE DEF n, p, end, ok, splits, c, terminator
<1>7. field' \in [value : Fields, pos : Nat] /\ field'.value = field.value /\ field'.pos = field.pos + n
  BY <1>1, <1>2, <1>3 DEF StreamTypeOK
<1>8. /\ stream' \in [encoding : Encodings, chunk : Chunks, eof : BOOLEAN, open : BOOLEAN, known : LengthKnown]
      /\ stream'.eof = (end \/ ~ok) /\ stream'.encoding = stream.encoding
  BY <1>1, <1>2, <1>5, <1>6 DEF StreamTypeOK
<1>9. /\ hist' \in [splits : SUBSET Int, count : Int, left : Int, failed : BOOLEAN, driverFailed : BOOLEAN]
      /\ hist'.count = c /\ hist'.left = Remaining /\ hist'.failed = ~ok
  <2>1. /\ hist \in [splits : SUBSET Int, count : Int, left : Int, failed : BOOLEAN, driverFailed : BOOLEAN]
        /\ c \in Int /\ Remaining \in Int /\ splits \in SUBSET Int
    BY <1>1, <1>3, <1>6 DEF StreamTypeOK
  <2>2. hist' = [hist EXCEPT !.splits = splits, !.count = c, !.left = Remaining, !.failed = ~ok]
    BY <1>2
  <2>3. \E failed \in BOOLEAN : failed = ~ok
    OBVIOUS
  <2>4. PICK failed \in BOOLEAN : failed = ~ok
    BY <2>3
  <2>5. hist' = [hist EXCEPT !.splits = splits, !.count = c, !.left = Remaining, !.failed = failed]
    BY <2>2, <2>4
  <2> QED
    BY <2>1, <2>4, <2>5
<1>10. StreamTypeOK'
  BY <1>7, <1>8, <1>9 DEF StreamTypeOK
<1>11. field'.pos <= Len(field'.value) /\ (hist'.failed => stream'.eof)
  BY <1>1, <1>3, <1>7, <1>8, <1>9
<1>12. EndIsEnd'
  <2> SUFFICES ASSUME end
               PROVE  \/ field'.pos = Len(field'.value)
                      \/ /\ field'.pos = Len(field'.value) - 1
                         /\ hist'.left \in hist'.count - Terminator(stream'.encoding) + 1 .. hist'.count
    BY <1>8, <1>9 DEF EndIsEnd, Terminator, CellSize
  <2> QED
    BY <1>1, <1>3, <1>4, <1>7, <1>8, <1>9 DEF terminator, Terminator, CellSize
<1> QED
  BY <1>10, <1>11, <1>12 DEF StreamInv

LEMMA ReadFailsInv == ASSUME StreamInv, ReadFails PROVE StreamInv'
BY DEF StreamInv, StreamTypeOK, EndIsEnd, ReadFails

LEMMA CloseInv == ASSUME StreamInv, Close PROVE StreamInv'
BY DEF StreamInv, StreamTypeOK, EndIsEnd, Close, Terminator, CellSize

LEMMA Invariance == Spec => []StreamInv
<1>1. StreamInv /\ [Next]_vars => StreamInv'
  <2> SUFFICES ASSUME StreamInv, [Next]_vars PROVE StreamInv'
    OBVIOUS
  <2>1. CASE Read
    BY <2>1, ReadInv
  <2>2. CASE ReadFails
    BY <2>2, ReadFailsInv
  <2>3. CASE Close
    BY <2>3, CloseInv
  <2>4. CASE UNCHANGED vars
    BY <2>4 DEF vars, StreamInv, StreamTypeOK, EndIsEnd, Terminator, CellSize
  <2> QED
    BY <2>1, <2>2, <2>3, <2>4 DEF Next
<1> QED
  BY <1>1, InitInv, PTL DEF Spec

(* A stream that is at its end without an error has delivered all of its    *)
(* value, but for the unit that made way for the terminator: for every      *)
(* chunk size, buffer size and text, whatever the driver knows of lengths.  *)
THEOREM EndIsTheEnd == Spec => []EndIsEnd
BY Invariance, PTL DEF StreamInv

----
(* The first n units, then a piece, then what follows it in the buffer.     *)
LEMMA PieceOfBuffer ==
  ASSUME NEW S, NEW v \in Seq(S), NEW pos \in 0 .. Len(v), NEW n \in 0 .. Len(v) - pos,
         NEW T, NEW rest \in Seq(T)
  PROVE  SubSeq(v, 1, pos) \o SubSeq(SubSeq(v, pos + 1, pos + n) \o rest, 1, n) = SubSeq(v, 1, pos + n)
<1> DEFINE piece == SubSeq(v, pos + 1, pos + n)
<1>1. Len(v) \in Nat /\ pos \in Nat /\ n \in Nat /\ pos + n <= Len(v)
  BY LenProperties
<1>2. \A i \in pos + 1 .. pos + n : v[i] \in S
  BY <1>1, ElementOfSeq
<1>3. piece \in Seq(S) /\ Len(piece) = n
  BY <1>1, <1>2, SubSeqProperties
<1>4. SubSeq(piece \o rest, 1, n) = piece
  <2>1. CASE n = 0
    <3>1. piece = <<>> /\ SubSeq(piece \o rest, 1, n) = <<>>
      BY <1>1, <2>1, SubSeqEmpty
    <3> QED
      BY <3>1
  <2>2. CASE n > 0
    <3>1. piece \in Seq(S \cup T) /\ rest \in Seq(S \cup T)
      BY <1>3, SeqMonotonic
    <3>2. SubSeq(piece \o rest, 1, n) = SubSeq(piece, 1, n)
      BY <1>1, <1>3, <2>2, <3>1, SubSeqOfConcat1
    <3> QED
      BY <1>3, <3>2, SubSeqFull
  <2> QED
    BY <1>1, <2>1, <2>2
<1>5. SubSeq(v, 1, pos) \o piece = SubSeq(v, 1, pos + n)
  BY <1>1, ConcatAdjacentSubSeq
<1> QED
  BY <1>4, <1>5

LEMMA KeepsWhatIsDelivered == ASSUME StreamInv PROVE Kept(Count, Delivered(Count)) = Delivered(Count)
<1>1. Len(field.value) - field.pos \in Int /\ stream.encoding \in {"char", "binary", "UTF8"}
  BY FieldIsSeq, CountHasRoom DEF StreamInv, StreamTypeOK
<1> QED
  BY <1>1 DEF Kept, Delivered, Remaining, CellSize

(* A value that is delivered as it is: its units are the script's bytes.    *)
Verbatim == stream.encoding # "UTF8" => DeliversPrefix

LEMMA ReadVerbatim == ASSUME StreamInv, Verbatim, Read PROVE Verbatim'
<1> SUFFICES ASSUME stream'.encoding # "UTF8" PROVE got' = SubSeq(field'.value, 1, field'.pos)
  BY DEF Verbatim, DeliversPrefix, Expected
<1> DEFINE n == Delivered(Count)
           unit == SubSeq(SubSeq(field.value, field.pos + 1, field.pos + n) \o <<"nul", "nul">>, 1, Kept(Count, n))
<1>1. StreamTypeOK /\ ~stream.eof /\ field.pos \in 0 .. Len(field.value)
  BY FieldIsSeq DEF StreamInv, StreamTypeOK, Read
<1>2. stream'.encoding = stream.encoding /\ field'.value = field.value /\ field'.pos = field.pos + n
  BY <1>1 DEF Read, StreamTypeOK
<1>3. got' = got \o unit
  BY <1>2 DEF Read, Piece
<1>4. got = SubSeq(field.value, 1, field.pos)
  BY <1>1, <1>2 DEF StreamInv, Verbatim, DeliversPrefix, Expected
<1>5. field.value \in Seq(Cells) /\ n \in 0 .. Len(field.value) - field.pos
  BY <1>1, FieldIsSeq, PieceWithin
<1>6. <<"nul", "nul">> \in Seq({"nul"})
  OBVIOUS
<1>7. Kept(Count, n) = n
  BY KeepsWhatIsDelivered
<1> HIDE DEF n
<1>8. got' = SubSeq(field.value, 1, field.pos)
              \o SubSeq(SubSeq(field.value, field.pos + 1, field.pos + n) \o <<"nul", "nul">>, 1, n)
  BY <1>3, <1>4, <1>7
<1>9. SubSeq(field.value, 1, field.pos)
        \o SubSeq(SubSeq(field.value, field.pos + 1, field.pos + n) \o <<"nul", "nul">>, 1, n)
      = SubSeq(field.value, 1, field.pos + n)
  <2> DEFINE v == field.value
             at == field.pos
  <2>1. v \in Seq(Cells) /\ at \in 0 .. Len(v) /\ n \in 0 .. Len(v) - at
    BY <1>1, <1>5
  <2> HIDE DEF v, at
  <2>2. SubSeq(v, 1, at) \o SubSeq(SubSeq(v, at + 1, at + n) \o <<"nul", "nul">>, 1, n) = SubSeq(v, 1, at + n)
    BY <2>1, <1>6, PieceOfBuffer
  <2> QED
    BY <2>2 DEF v, at
<1> QED
  BY <1>2, <1>8, <1>9

(* A field read as characters of the code page or as bytes arrives byte by  *)
(* byte in its place, whatever the sizes: what the script has is the value  *)
(* up to where the driver stands, and no terminator is among it.            *)
THEOREM BytesInTheirPlace == Spec => [](stream.encoding # "UTF8" => DeliversPrefix)
<1>1. StreamInv /\ Verbatim /\ [Next]_vars => Verbatim'
  <2> SUFFICES ASSUME StreamInv, Verbatim, [Next]_vars PROVE Verbatim'
    OBVIOUS
  <2>1. CASE Read
    BY <2>1, ReadVerbatim
  <2>2. CASE ReadFails
    BY <2>2 DEF ReadFails, StreamInv, StreamTypeOK, Verbatim, DeliversPrefix
  <2>3. CASE Close
    BY <2>3 DEF Close, StreamInv, StreamTypeOK, Verbatim, DeliversPrefix, Expected
  <2>4. CASE UNCHANGED vars
    BY <2>4 DEF vars, Verbatim, DeliversPrefix, Expected
  <2> QED
    BY <2>1, <2>2, <2>3, <2>4 DEF Next
<1>2. Init => Verbatim
  <2> SUFFICES ASSUME Init PROVE SubSeq(field.value, 1, 0) = <<>> /\ got = <<>> /\ field.pos = 0
    BY DEF Init, Verbatim, DeliversPrefix, Expected
  <2> QED
    BY SubSeqEmpty DEF Init
<1> QED
  BY <1>1, <1>2, Invariance, PTL DEF Spec, Verbatim

(* Every read ends the stream or moves it on, so that a script that reads   *)
(* until feof() makes as many reads as the value has units, at most, and    *)
(* one more: no pair of sizes lets it read nothing for ever.                *)
THEOREM EveryReadMoves == Spec => [][Read => stream'.eof \/ field'.pos > field.pos]_vars
<1>1. StreamInv /\ [Next]_vars => [Read => stream'.eof \/ field'.pos > field.pos]_vars
  <2> SUFFICES ASSUME StreamInv, Read PROVE stream'.eof \/ field'.pos > field.pos
    OBVIOUS
  <2> DEFINE n == Delivered(Count)
             end == AtEnd(Count, Reported(Count))
  <2>1. StreamTypeOK /\ field.pos \in Nat
    BY DEF StreamInv, StreamTypeOK
  <2>2. field'.pos = field.pos + n /\ (end => stream'.eof)
    BY <2>1 DEF Read, StreamTypeOK
  <2>3. CASE Truncates(Count)
    BY <2>1, <2>2, <2>3, PieceWithin
  <2>4. CASE ~Truncates(Count)
    <3>1. Remaining <= Count /\ Remaining \in Nat
      BY <2>1, <2>4, PieceWithin, FieldIsSeq DEF Remaining, CellSize
    <3>2. Reported(Count) = Remaining
      BY <2>4 DEF Reported
    <3>3. end
      BY <3>1, <3>2 DEF AtEnd, NoTotal
    <3> QED
      BY <2>2, <3>3
  <2> QED
    BY <2>3, <2>4
<1> QED
  BY <1>1, Invariance, PTL DEF Spec
====
