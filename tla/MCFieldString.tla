---- MODULE MCFieldString ----
(* Small instances of FieldString: some results, whose columns differ in type and size. *)
EXTENDS FieldString

Text(s) == [null |-> FALSE, value |-> s, num |-> 0, frac |-> FALSE, numeric |-> FALSE]
Num(s, n, f) == [null |-> FALSE, value |-> s, num |-> n, frac |-> f, numeric |-> TRUE]
None == [null |-> TRUE, value |-> <<>>, num |-> 0, frac |-> FALSE, numeric |-> FALSE]
Raw(n) == [i \in 1 .. n |-> "raw"]
Column(ctype, display, v) ==
  [ctype |-> ctype, display |-> display, null |-> v.null, value |-> v.value,
   num |-> v.num, frac |-> v.frac, numeric |-> v.numeric,
   kept |-> CASE ctype = "long" -> Raw(4) [] ctype = "double" -> Raw(8) [] OTHER -> <<>>,
   sent |-> CASE ctype = "long" -> Raw(IF display < 4 THEN 1 ELSE 4) [] ctype = "double" -> Raw(8) [] OTHER -> <<>>]

Long == <<"a", "nul", "nul", "a", "a", "a", "nul", "a", "nul", "nul", "a">>
Units == <<"a", "b2", "hi", "lo", "a", "a", "b2", "b2", "hi", "lo", "a">>
Wide == <<"b3", "a", "b3", "b3">>
Multi == <<"a", "L2", "m", "L3", "m", "m", "a", "L4", "m", "m", "m">>

(* A column of TINYINT and one of INTEGER, of display sizes 3 and 11. *)
Tiny == Column("long", 3, Num(<<"a", "a">>, -3, FALSE))
Integer == Column("long", 11, Num(<<"a">>, 6, FALSE))

(* Large and small columns of each type, read in the order of the row. *)
SomeResults ==
  << << Column("wchar", 0, Text(Units)), Column("char", 0, Text(Long)), Column("binary", 0, Text(Long)) >>,
     << Column("binary", 10, Text(SubSeq(Long, 1, 5))), Column("wchar", 12, Text(SubSeq(Units, 1, 6))),
        Column("char", 5, None) >>,
     << Column("wchar", 0, Text(Wide)), Column("char", 0, Num(<<"a", "a">>, 9, FALSE)), Column("char", 0, Text(Multi)) >>,
     << Tiny, Column("double", 24, Num(<<"a", "a", "a">>, 9, FALSE)),
        Column("double", 24, Num(<<"a", "nul", "a">>, 2, TRUE)) >>,
     << Integer, Column("long", 11, None) >>,
     << Column("char", 0, None), Column("wchar", 0, Text(<<"b2", "b2">>)), Column("char", 60, None) >> >>

(* A row on which the code fails an assertion. *)
TinyResult == << << Tiny >> >>
====
