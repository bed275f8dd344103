---- MODULE Transcode ----
(***************************************************************************)
(* Conversion between UTF-8 and UTF-16: the loop of                        *)
(* EncodingConverter::Convert around iconv, its measuring form, and the    *)
(* helpers of core_util.cpp and core_stmt.cpp that call it twice, once to  *)
(* measure and once to fill.                                               *)
(*                                                                         *)
(* A text is a sequence of cells.  A UTF-16 cell is a unit: "a" or "nul"   *)
(* (ASCII), "b2" and "b3" (2 and 3 bytes in UTF-8), the halves "hi" and    *)
(* "lo" of a pair (4 bytes together), or "R", the replacement character.   *)
(* A UTF-8 cell is a byte: "a" or "nul", a lead byte that names its        *)
(* sequence, or "m", a continuation byte.  Other code pages are left out. *)
(***************************************************************************)
EXTENDS Integers, SequencesExt

CONSTANT FixedSize \* CCH_FIXED_SIZE, the cells of the buffer that measures

Utf8Of == [a  |-> <<"a">>, nul |-> <<"nul">>, b2 |-> <<"L2", "m">>, b3 |-> <<"L3", "m", "m">>,
           hi |-> <<"L4", "m", "m", "m">>, R |-> <<"LR", "m", "m">>]

Leads == {"L2", "L3", "L4", "LR"}
CchUtf8CodePt == [L2 |-> 2, L3 |-> 3, L4 |-> 4, LR |-> 3]
UnitOf == [a |-> <<"a">>, nul |-> <<"nul">>, L2 |-> <<"b2">>, L3 |-> <<"b3">>, L4 |-> <<"hi", "lo">>, LR |-> <<"R">>]

CellBytes(cp) == IF cp = "UTF16" THEN 2 ELSE 1

(* How many cells from s[i] on belong to the UTF-8 sequence that s[i] leads. *)
Continued(s, i) ==
  CHOOSE n \in 1 .. CchUtf8CodePt[s[i]] :
    /\ i + n - 1 <= Len(s) /\ \A k \in i + 1 .. i + n - 1 : s[k] = "m"
    /\ \/ n = CchUtf8CodePt[s[i]] \/ i + n > Len(s) \/ s[i + n] # "m"

(* The cells of the character at s[i], 0 when it is ill-formed. *)
HeadLen(cp, s, i) ==
  CASE s[i] \in {"a", "nul"} -> 1
    [] cp = "UTF16" -> IF s[i] \notin {"hi", "lo"} THEN 1
                       ELSE IF s[i] = "hi" /\ i < Len(s) /\ s[i + 1] = "lo" THEN 2 ELSE 0
    [] cp = "UTF8" /\ s[i] \in Leads ->
         IF Continued(s, i) = CchUtf8CodePt[s[i]] THEN Continued(s, i) ELSE 0
    [] OTHER -> 0

Recoded(cp, cell) == IF cp = "UTF16" THEN Utf8Of[cell] ELSE UnitOf[cell]

(* SkipUtf8Ch with NextChar, SkipSingleCh. *)
SkippedCells(cp, s, i) == IF cp = "UTF8" /\ s[i] \in Leads THEN Continued(s, i) ELSE 1

Default(src) == IF src = "UTF16" THEN Utf8Of.R ELSE <<"R">>

(***************************************************************************)
(* Convert from code page src into room cells of the other.  iconv goes on *)
(* to the first ill-formed character or until the next one does not fit;   *)
(* a lack of room takes precedence.  Only before the first character and   *)
(* after a default one is the room looked at before iconv.  `left` and     *)
(* `at` are the room and the place in the source that a failure leaves.    *)
(***************************************************************************)
Stop(error, room, at) == [out |-> <<>>, error |-> error, left |-> room, at |-> at]
Before(c, r) == [r EXCEPT !.out = c \o @]

ConvertFrom(src, s, start, room, strict) ==
  LET fill[i \in Nat \ {0}] == [left \in Nat |->
        IF i > Len(s) THEN Stop("none", left, i)
        ELSE LET n == HeadLen(src, s, i)
                 c == IF n > 0 THEN Recoded(src, s[i]) ELSE Default(src)
                 after == i + (IF n > 0 THEN n ELSE SkippedCells(src, s, i))
             IN  IF n > 0 /\ Len(c) <= left THEN Before(c, fill[after][left - Len(c)])
                 ELSE IF n > 0 \/ left = 0 THEN Stop("insufficient", left, i)
                 ELSE IF strict THEN Stop("no translation", left, i)
                 ELSE IF Len(c) > left THEN Stop("insufficient", left, after)
                 ELSE Before(c, IF left = Len(c) THEN Stop("none", 0, after) ELSE fill[after][left - Len(c)])]
  IN  IF room = 0 THEN Stop("none", 0, start) ELSE fill[start][room]

Convert(src, s, room, strict) == ConvertFrom(src, s, 1, room, strict)

(* Without a destination a fixed buffer is filled until the source ends.    *)
(* What a full buffer has left is counted in bytes, the rest in cells.      *)
LeftOver(src, r) == r.left * CellBytes(IF src = "UTF8" THEN "UTF16" ELSE "UTF8")

Measure(src, s, strict) ==
  LET measure[i \in Nat] ==
        IF i > Len(s) THEN 0
        ELSE LET r == ConvertFrom(src, s, i, FixedSize, strict)
             IN  CASE r.error = "none" -> Len(r.out)
                   [] r.error = "no translation" -> 0
                   [] r.error = "insufficient" -> FixedSize - LeftOver(src, r) + measure[r.at]
  IN  measure[1]

(***************************************************************************)
(* The two-call conversions.  A result is ok with exactly the cells        *)
(* converted, or not ok.                                                   *)
(***************************************************************************)
Refused == [ok |-> FALSE, out |-> <<>>]
Result(r) == IF r.error = "none" THEN [ok |-> TRUE, out |-> r.out] ELSE Refused

(* The second call, with the n cells that the first has measured. *)
SecondCall(src, s, n, strict) == IF n = 0 THEN Refused ELSE Result(Convert(src, s, n, strict))

Measured(src, s, strictFill) ==
  IF s = <<>> THEN [ok |-> TRUE, out |-> <<>>]
  ELSE SecondCall(src, s, Measure(src, s, TRUE), strictFill)

(* convert_string_from_utf16: the second call would put in defaults. *)
FromUtf16(s) == Measured("UTF16", s, FALSE)

(* convert_input_param_to_utf16. *)
ToUtf16Measured(s) == Measured("UTF8", s, TRUE)

----
(* Reference definitions: a text is well-formed when it is a sequence of    *)
(* characters, and recoding is then character by character.                 *)
WellFormed(cp, s) == Convert(cp, s, 4 * Len(s), TRUE).error = "none"
Encoded(units) == FlattenSeq([i \in 1 .. Len(units) |-> IF units[i] = "lo" THEN <<>> ELSE Utf8Of[units[i]]])
====
