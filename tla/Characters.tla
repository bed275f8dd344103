---- MODULE Characters ----
(* Texts as sequences of one-character strings, as the C code scans them. *)
EXTENDS Integers, SequencesExt, TLC

Digits == {"0", "1", "2", "3", "4", "5", "6", "7", "8", "9"}
FigureOf == ("0" :> 0) @@ ("1" :> 1) @@ ("2" :> 2) @@ ("3" :> 3) @@ ("4" :> 4) @@ ("5" :> 5)
            @@ ("6" :> 6) @@ ("7" :> 7) @@ ("8" :> 8) @@ ("9" :> 9)

LowerFigures == <<"0", "1", "2", "3", "4", "5", "6", "7", "8", "9", "a", "b", "c", "d", "e", "f">>

(* The character at i; the end of the text reads as its terminator. *)
At(f, i) == IF i <= Len(f) THEN f[i] ELSE ""

(* The first place from i on that holds no digit. *)
RECURSIVE AfterDigits(_, _)
AfterDigits(f, i) == IF At(f, i) \in Digits THEN AfterDigits(f, i + 1) ELSE i

NumberOf(digits) == FoldLeft(LAMBDA n, c : 10 * n + FigureOf[c], 0, digits)
====
