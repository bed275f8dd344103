---- MODULE DecimalInput ----
(***************************************************************************)
(* adjustInputPrecision of core_stmt.cpp: a numeric string bound to a      *)
(* decimal is rounded to the digits of its column before it is sent.  An   *)
(* exponent is held in a short, and one above MaxExponent ends the         *)
(* process, as does one whose short became negative.                       *)
(***************************************************************************)
EXTENDS Characters

CONSTANTS MaxStrLen,    \* maxDecimalStrLen
          MaxExponent,  \* maxDecimalPrecision
          ExpBits       \* the width of the exponent's short

Signs == {"+", "-"}

ShortValue(digits) ==
  FoldLeft(LAMBDA n, c : LET m == (10 * n + FigureOf[c]) % 2^ExpBits
                         IN  IF m >= 2^(ExpBits - 1) THEN m - 2^ExpBits ELSE m, 0, digits)

Letters == {"e", "E"}

(* The string taken apart: any character may stand where the letter of the  *)
(* exponent is expected, but such a string does not come to its end.  The   *)
(* code stops collecting decimals after the one that decides the rounding,  *)
(* which changes nothing.                                                   *)
Parsed(s) ==
  LET first == IF At(s, 1) \in Signs THEN 2 ELSE 1
      dot == AfterDigits(s, first)
      exponent == IF At(s, dot) = "." THEN AfterDigits(s, dot + 1) ELSE dot
      scientific == Letters \cap ToSet(s) # {}
      digitsAt == IF At(s, exponent + 1) \in Signs THEN exponent + 2 ELSE exponent + 1
      size == ShortValue(SubSeq(s, digitsAt, AfterDigits(s, digitsAt) - 1))
  IN  [negative |-> At(s, 1) = "-",
       integer |-> SubSeq(s, first, dot - 1),
       decimals |-> SubSeq(s, dot + 1, exponent - 1),
       letter |-> At(s, exponent),
       dies |-> scientific /\ size \notin 0 .. MaxExponent,
       exp |-> IF ~scientific THEN 0 ELSE IF At(s, exponent + 1) = "-" THEN -size ELSE size,
       end |-> IF scientific THEN AfterDigits(s, digitsAt) ELSE exponent]

(* Adds one to the last digit; a carry past the first becomes a digit.      *)
RECURSIVE Carried(_)
Carried_StopsAtNine(digits) ==
  IF digits = <<>> THEN <<"1">>
  ELSE IF Last(digits) # "9" THEN Append(Front(digits), LowerFigures[FigureOf[Last(digits)] + 2])
  ELSE Append(Front(digits), "0")
Carried(digits) ==
  IF digits = <<>> THEN <<"1">>
  ELSE IF Last(digits) # "9" THEN Append(Front(digits), LowerFigures[FigureOf[Last(digits)] + 2])
  ELSE Append(Carried(Front(digits)), "0")

RoundsUp(dropped) == FigureOf[dropped] >= 5

Zeros(n) == [i \in 1 .. n |-> "0"]

(* An exponent has one figure or two: it is at most MaxExponent.            *)
ExponentText(letter, e) ==
  LET n == IF e < 0 THEN -e ELSE e
  IN  IF e = 0 THEN <<>>
      ELSE <<letter>> \o (IF e < 0 THEN <<"-">> ELSE <<>>)
           \o (IF n > 9 THEN <<LowerFigures[n \div 10 + 1]>> ELSE <<>>) \o <<LowerFigures[(n % 10) + 1]>>

(* The digits kept, in their places: zeros for the integer digits dropped,  *)
(* the point and the exponent.  `grown` is 1 after a carry past the front.  *)
Placed(kept, p, grown) ==
  LET whole == Len(p.integer) + grown
      n == Len(kept)
  IN  (IF n >= whole THEN SubSeq(kept, 1, whole) ELSE kept \o Zeros(whole - n))
      \o (IF n > whole THEN <<".">> \o SubSeq(kept, whole + 1, n) ELSE <<>>)
      \o ExponentText(p.letter, p.exp)

Adjusted(p, decimal_digits) ==
  LET digits == p.integer \o p.decimals
      drop == Len(p.decimals) - p.exp - decimal_digits
      kept == IF drop > Len(digits) THEN <<>> ELSE SubSeq(digits, 1, Len(digits) - drop)
      carry == drop <= Len(digits) /\ RoundsUp(digits[Len(digits) - drop + 1])
      rounded == IF carry THEN Carried(kept) ELSE kept
  IN  (IF p.negative THEN <<"-">> ELSE <<>>)
      \o (IF rounded = <<>> THEN <<"0">>
          ELSE Placed(rounded, p, Len(rounded) - Len(kept)))

(* What is invalid, or has no decimal too many, is left to the server.      *)
Dies == <<"dies">>
adjustInputPrecision(s, decimal_digits) ==
  LET p == Parsed(s)
  IN  IF Len(s) > MaxStrLen THEN s
      ELSE IF p.dies THEN Dies
      ELSE IF p.end <= Len(s) \/ Len(p.decimals) - p.exp <= (IF decimal_digits > 0 THEN decimal_digits ELSE 0) THEN s
      ELSE Adjusted(p, decimal_digits)

----
(***************************************************************************)
(* Reference: the value of a decimal in units of ten to the -k, and its    *)
(* roundings to a multiple of `unit`.  The first digit dropped decides; a  *)
(* 5 leaves both.                                                          *)
(***************************************************************************)
IsDecimal(s) ==
  LET p == Parsed(s)
      e == SelectInSeq(s, LAMBDA c : c \in Letters)
      expAt == IF At(s, e + 1) \in Signs THEN e + 2 ELSE e + 1
  IN  /\ p.end > Len(s) /\ Len(p.integer) + Len(p.decimals) > 0
      /\ e # 0 => expAt <= Len(s)

Scaled(s, k) ==
  LET p == Parsed(s)
  IN  (IF p.negative THEN -1 ELSE 1) * NumberOf(p.integer \o p.decimals) * 10^(k + p.exp - Len(p.decimals))

Magnitude(n) == IF n < 0 THEN -n ELSE n
Toward(n, unit) == (Magnitude(n) \div unit) * (IF n < 0 THEN -unit ELSE unit)
Away(n, unit) == Toward(n, unit) + (IF n < 0 THEN -unit ELSE unit)
Deciding(n, unit) == (Magnitude(n) \div (unit \div 10)) % 10
Roundings(n, unit) ==
  (IF Deciding(n, unit) <= 5 THEN {Toward(n, unit)} ELSE {})
    \cup (IF Deciding(n, unit) >= 5 THEN {Away(n, unit)} ELSE {})
====
