---- MODULE FormattedPrint ----
(***************************************************************************)
(* The printf of the shared library, FormattedPrintA on a BufferOutput,    *)
(* and FormatMessageA on top of it, which writes the text of every custom  *)
(* error and log entry of the extension.                                   *)
(*                                                                         *)
(* A format and an output are sequences of one-character strings.  An      *)
(* argument is [int |-> TRUE, n |-> an integer] or [int |-> FALSE, s |->   *)
(* a text], with s = NullText for a null pointer.  Floating-point, pointer *)
(* and wide-character conversions and multi-byte lead bytes are left out,  *)
(* and so are MAXPRECISION and the 64000 characters of a message.          *)
(***************************************************************************)
EXTENDS Characters

CONSTANTS ShortBits, IntBits, LongBits, \* the widths of short, int and long long
          FmtSize                       \* the characters of fmt[] in FormatMessageToBufferA

NullText == <<"">>
Text(s) == [int |-> FALSE, s |-> s, n |-> 0]
Number(n) == [int |-> TRUE, n |-> n, s |-> NullText]

(***************************************************************************)
(* The state machine of a conversion specification.                        *)
(***************************************************************************)
GetCharType(ch) ==
  CASE ch = "%" -> "percent" [] ch = "." -> "dot" [] ch = "*" -> "star" [] ch = "0" -> "zero"
    [] ch \in Digits \ {"0"} -> "digit"
    [] ch \in {" ", "+", "-", "#"} -> "flag"
    [] ch \in {"F", "I", "L", "N", "h", "l", "w"} -> "size"
    [] ch \in {"C", "E", "G", "S", "X", "Z", "c", "d", "e", "f", "g", "i", "o", "p", "s", "u", "x"} -> "type"
    [] OTHER -> "other"

GetState(class, old) ==
  CASE old \in {"normal", "type"} -> IF class = "percent" THEN "percent" ELSE "normal"
    [] class \in {"size", "type"} -> class
    [] class = "percent" /\ old = "percent" -> "normal"
    [] class = "dot" /\ old \in {"percent", "flag", "width"} -> "dot"
    [] class \in {"flag", "zero"} /\ old \in {"percent", "flag"} -> "flag"
    [] class \in {"star", "digit"} /\ old \in {"percent", "flag"} -> "width"
    [] class \in {"digit", "zero"} /\ old = "width" -> "width"
    [] class \in {"star", "digit", "zero"} /\ old = "dot" -> "precis"
    [] class \in {"digit", "zero"} /\ old = "precis" -> "precis"
    [] OTHER -> "invalid"

(* The flags, the state and the characters skipped after the size prefix at i. *)
ProcessSize(f, i, flags) ==
  LET size(fl, skip) == [flags |-> fl, skip |-> skip, state |-> "size"]
  IN  CASE f[i] = "l" /\ At(f, i + 1) = "l" -> size(flags \cup {"LONGLONG"}, 1)
        [] f[i] = "I" /\ At(f, i + 1) = "6" /\ At(f, i + 2) = "4" -> size(flags \cup {"I64"}, 2)
        [] f[i] = "I" /\ At(f, i + 1) = "3" /\ At(f, i + 2) = "2" -> size(flags \ {"I64"}, 2)
        [] f[i] = "I" /\ At(f, i + 1) \notin {"d", "i", "o", "u", "x", "X"} ->
             [flags |-> flags \cup {"I64"}, skip |-> 0, state |-> "normal"]
        [] OTHER -> size(flags \cup (CASE f[i] = "l" -> {"LONG"} [] f[i] = "I" -> {"I64"}
                                       [] f[i] = "h" -> {"SHORT"} [] f[i] = "w" -> {"WIDECHAR"}
                                       [] OTHER -> {}), 0)

(***************************************************************************)
(* FormattedPrintA into a buffer of room characters.                       *)
(***************************************************************************)
Bits(n, w) == n % 2^w
SignedBits(n, w) == IF Bits(n, w) >= 2^(w - 1) THEN Bits(n, w) - 2^w ELSE Bits(n, w)

UpperFigures == <<"0", "1", "2", "3", "4", "5", "6", "7", "8", "9", "A", "B", "C", "D", "E", "F">>

Figures(number, radix, atLeast, figures) ==
  LET write[n \in Nat, k \in Int] ==
        IF n = 0 /\ k <= 0 THEN <<>>
        ELSE Append(write[n \div radix, k - 1], figures[(n % radix) + 1])
  IN  write[number, atLeast]

Repeat(ch, n) == [i \in 1 .. n |-> ch]

(* WRITE_CHAR, WRITE_MULTI_CHAR and WRITE_STRING of BufferOutput. *)
Write(p, text, room) ==
  IF p.count < 0 THEN p
  ELSE IF Len(p.out) + Len(text) <= room
       THEN [p EXCEPT !.out = @ \o text, !.count = @ + Len(text)]
       ELSE [p EXCEPT !.out = SubSeq(@ \o text, 1, room), !.count = -1]

Layout(p, prefix, text) ==
  LET pad == p.width - Len(prefix) - Len(text)
      left == "LEFT" \in p.flags
      zeros == "LEADZERO" \in p.flags
  IN  (IF left \/ zeros THEN <<>> ELSE Repeat(" ", pad)) \o prefix
      \o (IF zeros /\ ~left THEN Repeat("0", pad) ELSE <<>>) \o text
      \o (IF left THEN Repeat(" ", pad) ELSE <<>>)

Converted(flags, ch, n) ==
  LET width == IF flags \cap {"I64", "LONGLONG"} # {} THEN LongBits
               ELSE IF "SHORT" \in flags THEN ShortBits ELSE IntBits
  IN  IF ch \in {"d", "i"} THEN SignedBits(n, width) ELSE Bits(n, width)

(* A precision turns the leading zeros off. *)
NumberFlags_KeepZeros(p) == p.flags
NumberFlags(p) == IF p.precision < 0 THEN p.flags ELSE p.flags \ {"LEADZERO"}

PrintNumber(p, ch, n, room) ==
  LET value == Converted(p.flags, ch, n)
      radix == CASE ch \in {"x", "X"} -> 16 [] ch = "o" -> 8 [] OTHER -> 10
      digits == Figures(IF value < 0 THEN -value ELSE value, radix, IF p.precision < 0 THEN 1 ELSE p.precision,
                        IF ch = "X" THEN UpperFigures ELSE LowerFigures)
      octal == ch = "o" /\ "ALTERNATE" \in p.flags /\ (digits = <<>> \/ digits[1] # "0")
      prefix == CASE radix = 16 /\ "ALTERNATE" \in p.flags /\ value # 0 -> <<"0", ch>>
                  [] ch \notin {"d", "i"} -> <<>>
                  [] value < 0 -> <<"-">>
                  [] "SIGN" \in p.flags -> <<"+">>
                  [] "SIGNSP" \in p.flags -> <<" ">>
                  [] OTHER -> <<>>
      q == [p EXCEPT !.flags = NumberFlags(p)]
  IN  Write(q, Layout(q, prefix, IF octal THEN <<"0">> \o digits ELSE digits), room)

PrintText(p, s, room) ==
  LET text == IF s = NullText THEN <<"(", "n", "u", "l", "l", ")">> ELSE s
      n == IF p.precision = -1 \/ p.precision > Len(text) THEN Len(text) ELSE p.precision
  IN  Write(p, Layout(p, <<>>, SubSeq(text, 1, n)), room)

Fail(p) == [p EXCEPT !.count = -1, !.state = "invalid"]

PrintType(p, ch, room) ==
  LET q == [p EXCEPT !.args = Tail(@)]
  IN  CASE ch \in {"d", "i", "u", "x", "X", "o"} -> PrintNumber(q, ch, p.args[1].n, room)
        [] ch = "s" -> PrintText(q, p.args[1].s, room)
        [] ch = "c" -> Write(q, Layout(q, <<>>, p.args[1].s), room)
        [] OTHER -> Fail(p)

FlagOf == ("-" :> "LEFT") @@ ("+" :> "SIGN") @@ (" " :> "SIGNSP") @@ ("#" :> "ALTERNATE") @@ ("0" :> "LEADZERO")

Star(p) == SignedBits(p.args[1].n, IntBits)

(* The body of the loop for the character at i.  After a size prefix that   *)
(* fits no type, the prefix is printed as text.                             *)
PrintChar(p, f, i, room) ==
  LET ch == f[i]
      q == [p EXCEPT !.state = GetState(GetCharType(ch), p.state)]
  IN  IF p.count < 0 THEN p
      ELSE IF p.skip > 0 THEN [p EXCEPT !.skip = @ - 1]
      ELSE CASE q.state = "invalid" -> Fail(q)
             [] q.state = "normal" -> Write(q, <<ch>>, room)
             [] q.state = "percent" -> [q EXCEPT !.flags = {}, !.width = 0, !.precision = -1]
             [] q.state = "flag" -> [q EXCEPT !.flags = @ \cup {FlagOf[ch]}]
             [] q.state = "width" /\ ch = "*" ->
                  [q EXCEPT !.width = IF Star(p) < 0 THEN -Star(p) ELSE Star(p), !.args = Tail(@),
                            !.flags = IF Star(p) < 0 THEN @ \cup {"LEFT"} ELSE @]
             [] q.state = "width" -> [q EXCEPT !.width = 10 * @ + FigureOf[ch]]
             [] q.state = "dot" -> [q EXCEPT !.precision = 0]
             [] q.state = "precis" /\ ch = "*" ->
                  [q EXCEPT !.precision = IF Star(p) < 0 THEN -1 ELSE Star(p), !.args = Tail(@)]
             [] q.state = "precis" -> [q EXCEPT !.precision = 10 * @ + FigureOf[ch]]
             [] q.state = "size" ->
                  LET z == ProcessSize(f, i, q.flags)
                      r == [q EXCEPT !.flags = z.flags, !.skip = z.skip, !.state = z.state]
                  IN  IF z.state = "normal" THEN Write(r, <<ch>>, room) ELSE r
             [] q.state = "type" -> PrintType(q, ch, room)

(* A format that ends inside a specification fails. *)
FormattedPrintA(f, args, room) ==
  LET p == FoldLeft(LAMBDA q, i : PrintChar(q, f, i, room),
                    [state |-> "normal", flags |-> {}, width |-> 0, precision |-> -1, args |-> args,
                     out |-> <<>>, count |-> 0, skip |-> 0], [i \in 1 .. Len(f) |-> i])
  IN  [count |-> IF p.state \in {"normal", "type"} THEN p.count ELSE -1, out |-> p.out]

(***************************************************************************)
(* FormatMessageA.  Both passes over a message see the same tokens: a      *)
(* character, an escaped one, an insert of argument pos (a string when     *)
(* spec is empty), or "bad".                                               *)
(***************************************************************************)
(* The end of the specification at i, its "!", and the size flags in it;    *)
(* end is 0 when it is ill-formed.                                          *)
RECURSIVE SpecAt(_, _, _, _)
SpecAt(f, i, old, flags) ==
  LET state == GetState(GetCharType(f[i]), old)
      z == ProcessSize(f, i, flags)
      bad == [end |-> 0, flags |-> {}]
  IN  IF i > Len(f) THEN bad
      ELSE CASE state = "normal" -> IF f[i] = "!" THEN [end |-> i, flags |-> flags] ELSE bad
             [] state \in {"invalid", "percent"} -> bad
             [] state = "size" -> IF z.state = "size" THEN SpecAt(f, i + 1 + z.skip, "size", z.flags) ELSE bad
             [] OTHER -> SpecAt(f, i + 1, state, flags)

Token(kind, char, pos, spec, flags) == [kind |-> kind, char |-> char, pos |-> pos, spec |-> spec, flags |-> flags]

RECURSIVE Tokens(_, _)
Tokens(f, i) ==
  IF i > Len(f) THEN <<>>
  ELSE IF f[i] # "%" THEN <<Token("char", f[i], 0, <<>>, {})>> \o Tokens(f, i + 1)
  ELSE IF At(f, i + 1) \in {"0", ""} THEN <<>>
  ELSE IF f[i + 1] \notin Digits THEN <<Token("escape", f[i + 1], 0, <<>>, {})>> \o Tokens(f, i + 2)
  ELSE LET two == At(f, i + 2) \in Digits
           pos == IF two THEN 10 * FigureOf[f[i + 1]] + FigureOf[f[i + 2]] ELSE FigureOf[f[i + 1]]
           next == IF two THEN i + 3 ELSE i + 2
           spec == SpecAt(f, next + 1, "percent", {})
       IN  IF At(f, next) # "!" THEN <<Token("insert", "", pos, <<"s">>, {})>> \o Tokens(f, next)
           ELSE IF spec.end = 0 THEN <<Token("bad", "", pos, <<>>, {})>>
           ELSE <<Token("insert", "", pos, SubSeq(f, next + 1, spec.end - 1), spec.flags)>>
                \o Tokens(f, spec.end + 1)

(* The slots of the argument cache, in the size their first insert gives    *)
(* them; a slot no insert names is taken for a pointer.  "bad" is a         *)
(* conversion that a message cannot use.                                    *)
SlotSize(t) ==
  CASE Last(t.spec) \in {"s", "S", "p"} -> "Int64"
    [] Last(t.spec) \in {"d", "i", "u", "x", "X", "o"} ->
         IF t.flags \cap {"I64", "LONGLONG"} # {} THEN "Int64" ELSE "Int32"
    [] Last(t.spec) \in {"c", "C"} -> "Int32"
    [] OTHER -> "bad"

Stars(t) == Len(SelectSeq(t.spec, LAMBDA c : c = "*"))

SizeSlots(slots, t) ==
  LET last == t.pos + Stars(t)
  IN  IF t.pos <= Len(slots) /\ slots[t.pos] # "unknown" THEN slots
      ELSE [i \in 1 .. (IF last > Len(slots) THEN last ELSE Len(slots)) |->
              IF i = last THEN SlotSize(t)
              ELSE IF i \in t.pos .. last THEN "Int32" ELSE IF i <= Len(slots) THEN slots[i] ELSE "unknown"]

(* GetFormatMessageArgsA: every argument of the call that the message needs. *)
GetFormatMessageArgsA(tokens, args) ==
  LET slots == FoldLeft(LAMBDA s, t : IF t.kind = "insert" THEN SizeSlots(s, t) ELSE s, <<>>, tokens)
  IN  [ok |-> /\ \A i \in DOMAIN tokens : tokens[i].kind # "bad"
              /\ \A i \in DOMAIN slots : slots[i] # "bad",
       cache |-> [i \in DOMAIN slots |-> [size |-> IF slots[i] = "Int32" THEN "Int32" ELSE "Int64", arg |-> args[i]]]]

(* The arguments that go with the specification at slot pos: the first one  *)
(* of 64 bits is the last, and so is the last of the cache.  When two of 32 *)
(* bits are left, the first of them is passed twice.                        *)
Passed(cache, pos) ==
  IF cache[pos].size = "Int64" \/ pos = Len(cache) THEN <<cache[pos].arg>>
  ELSE IF cache[pos + 1].size = "Int64" THEN <<cache[pos].arg, cache[pos + 1].arg>>
  ELSE IF pos + 1 = Len(cache) THEN <<cache[pos].arg, cache[pos].arg>>
  ELSE <<cache[pos].arg, cache[pos + 1].arg, cache[pos + 2].arg>>

(* A plain insert of an argument held as 32 bits reads a null pointer.      *)
InsertText(t, cache, room) ==
  IF t.spec = <<"s">> /\ cache[t.pos].size = "Int32" THEN FormattedPrintA(<<"%", "s">>, <<Text(NullText)>>, room)
  ELSE FormattedPrintA(<<"%">> \o t.spec, Passed(cache, t.pos), room)

(* A message that does not leave room for its terminator is given up, and   *)
(* 0 stands for every failure, as for an empty message.                     *)
Roomy_NoTerminator(out, bufsize) == Len(out) <= bufsize
Roomy(out, bufsize) == Len(out) < bufsize

(* The control characters that an escape names.                             *)
EscapeOf == ("a" :> "bell") @@ ("b" :> "backspace") @@ ("f" :> "\f") @@ ("n" :> "\n") @@ ("r" :> "\r")
            @@ ("t" :> "\t") @@ ("v" :> "vertical tab")

FormatMessageToBufferA(tokens, cache, bufsize) ==
  LET put(m, t) ==
        IF ~m.ok \/ Len(m.out) >= bufsize THEN m
        ELSE CASE t.kind = "char" -> [m EXCEPT !.out = Append(@, t.char)]
               [] t.kind = "escape" -> [m EXCEPT !.out = Append(@, IF t.char \in DOMAIN EscapeOf THEN EscapeOf[t.char] ELSE t.char)]
               [] t.kind = "insert" ->
                    LET r == InsertText(t, cache, bufsize - Len(m.out))
                    IN  IF r.count < 0 \/ Len(t.spec) + 1 >= FmtSize THEN [m EXCEPT !.ok = FALSE]
                        ELSE [m EXCEPT !.out = @ \o r.out]
      m == FoldLeft(put, [ok |-> TRUE, out |-> <<>>], tokens)
  IN  IF m.ok /\ Roomy(m.out, bufsize) THEN [count |-> Len(m.out), out |-> m.out]
      ELSE [count |-> 0, out |-> <<>>]

FormatMessageA(format, args, bufsize) ==
  LET tokens == Tokens(format, 1)
      read == GetFormatMessageArgsA(tokens, args)
  IN  IF read.ok THEN FormatMessageToBufferA(tokens, read.cache, bufsize) ELSE [count |-> 0, out |-> <<>>]
====
