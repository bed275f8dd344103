---- MODULE MCTexts ----
(* Small instances of Texts. *)
EXTENDS Texts

Piece(text, n, args) == [text |-> text, n |-> n, args |-> args]

SpecPieces ==
  << {Piece(t, 0, <<>>) : t \in {<<>>, <<"-">>, <<"0">>, <<"+">>, <<" ">>, <<"#">>, <<"0", "-">>, <<"+", "0">>}},
     {Piece(<<>>, 0, <<>>), Piece(<<"5">>, 5, <<>>), Piece(<<"*">>, 0, <<Number(4)>>), Piece(<<"*">>, 0, <<Number(-4)>>)},
     {Piece(<<>>, -1, <<>>), Piece(<<".">>, 0, <<>>), Piece(<<".", "3">>, 3, <<>>), Piece(<<".", "*">>, 0, <<Number(-1)>>)},
     {Piece(t, 0, <<>>) : t \in {<<>>, <<"h">>, <<"l", "l">>, <<"I", "6", "4">>}},
     {Piece(<<t>>, 0, <<>>) : t \in {"d", "u", "X", "o", "s"}},
     {Piece(<<>>, 0, <<Number(n)>>) : n \in {0, 7, -8, 100}}
       \cup {Piece(<<>>, 0, <<Text(s)>>) : s \in {<<>>, <<"a", "b", "c", "d">>, NullText}} >>

(* Arguments 3 and 4 are the width and the precision of argument 5. *)
Args == <<Text(<<"a", "b">>), Number(7), Number(3), Number(1), Text(<<"c", "d">>)>>

Shown(text, shown, ends) == [text |-> text, shown |-> shown, ends |-> ends]
MessagePieces ==
  { Shown(<<"x">>, <<"x">>, FALSE), Shown(<<"%", "%">>, <<"%">>, FALSE), Shown(<<"%", "0">>, <<>>, TRUE), Shown(<<"%", "t">>, <<"\t">>, FALSE),
    Shown(<<"%", "1">>, <<"a", "b">>, FALSE), Shown(<<"%", "2", "!", "d", "!">>, <<"7">>, FALSE),
    Shown(<<"%", "2", "!", "0", "2", "X", "!">>, <<"0", "7">>, FALSE),
    Shown(<<"%", "3", "!", "*", ".", "*", "s", "!">>, <<" ", " ", "c">>, FALSE) }

DecimalPieces ==
  << {<<>>, <<"-">>, <<"+">>},
     {<<>>, <<"0">>, <<"9">>, <<"4">>, <<"9", "9">>, <<"5", "0">>},
     {<<>>, <<".">>, <<".", "5">>, <<".", "4", "9">>, <<".", "9", "5">>, <<".", "4", "4", "5">>, <<".", "9", "9", "5">>},
     {<<>>, <<"e", "1">>, <<"e", "+", "1">>, <<"e", "-", "1">>, <<"E", "-", "2">>, <<"E", "1">>} >>

OptionPieces ==
  { Option("scrollable", "string", "static"), Option("scrollable", "string", "odd"), Option("scrollable", "int", 1),
    Option("clientbuffermaxkbsize", "int", 5), Option("clientbuffermaxkbsize", "int", 0),
    Option("querytimeout", "int", 0), Option("querytimeout", "int", 32), Option("querytimeout", "int", -1),
    Option("sendstreamparamsatexec", "int", 0), Option("unknown", "int", 1) }

Column(t, size, scale) == [type |-> t, size |-> size, scale |-> scale]
ColumnPieces ==
  {Column(t, n, 0) : t \in T!Sized \ T!Wide, n \in 1 .. MaxFieldSize}
    \cup {Column(t, n, 0) : t \in T!Wide, n \in 1 .. MaxFieldSize \div 2}
    \cup {Column(t, n, d) : t \in T!Exact, n \in 1 .. MaxPrecision, d \in 0 .. 1}
    \cup {Column(t, MaxPrecision, MaxPrecision) : t \in T!Exact}
    \cup {Column("TYPE_TIMESTAMP", c[1], c[2]) : c \in {<<16, 0>>, <<23, 3>>, <<27, 7>>}}
    \cup {Column("BIGINT", 19, 0), Column("BIT", 1, 0), Column("INTEGER", 10, 0), Column("SMALLINT", 5, 0),
          Column("TINYINT", 3, 0), Column("GUID", 36, 0), Column("FLOAT", 53, 0), Column("REAL", 24, 0),
          Column("TYPE_DATE", 10, 0), Column("LONGVARBINARY", IntMax, 0), Column("LONGVARCHAR", IntMax, 0),
          Column("WLONGVARCHAR", IntMax \div 2, 0)}

InputPieces ==
  [spec |-> SpecPieces, message |-> [i \in 1 .. 3 |-> MessagePieces], decimal |-> DecimalPieces,
   options |-> [i \in 1 .. 3 |-> OptionPieces], value |-> [i \in 1 .. 6 |-> {"{", "}", "a"}],
   column |-> <<ColumnPieces>>]

AllKinds == {"spec", "message", "decimal", "options", "value", "column"}
====
