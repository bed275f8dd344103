---- MODULE Texts ----
(***************************************************************************)
(* The texts the extension reads and writes: formats, messages, decimal    *)
(* parameters, option arrays and connection values.  One input grows piece *)
(* by piece, and at every length the operators of FormattedPrint,          *)
(* DecimalInput, Options and SqlTypes are compared with a reference        *)
(* definition.                                                             *)
(***************************************************************************)
EXTENDS FormattedPrint, DecimalInput, Options

CONSTANTS Kinds,     \* the inputs examined: a subset of DOMAIN Pieces
          Pieces,    \* for each kind, the pieces that its n-th place may take
          Rooms      \* the sizes of an output buffer

VARIABLES kind, input

vars == <<kind, input>>

Init == kind \in Kinds /\ input = <<>>

Grow ==
  /\ Len(input) < Len(Pieces[kind])
  /\ \E p \in Pieces[kind][Len(input) + 1] : input' = Append(input, p)
  /\ UNCHANGED kind

Next == Grow
Spec == Init /\ [][Next]_vars

----
(***************************************************************************)
(* Formats.  The pieces of an input are the flags, the width, the          *)
(* precision, the size and the type, each with the arguments it takes; the *)
(* last piece is the value itself.                                         *)
(***************************************************************************)
SpecText == FlattenSeq([i \in DOMAIN input |-> input[i].text])
SpecArgs == FlattenSeq([i \in DOMAIN input |-> input[i].args])

(* As ISO C has it: as many figures as the precision asks for, or as the    *)
(* number needs; an alternate octal has a leading zero.                     *)
FiguresOfC(n, radix, precision, figures) ==
  LET size == CHOOSE k \in 0 .. 20 : /\ k >= precision /\ radix^k > n
                                     /\ \A j \in 0 .. k - 1 : j < precision \/ radix^j <= n
  IN  [i \in 1 .. size |-> figures[((n \div radix^(size - i)) % radix) + 1]]

NumberOfC(s, n) ==
  LET bits == CASE s.size = <<"h">> -> ShortBits [] s.size = <<>> -> IntBits [] OTHER -> LongBits
      signed == s.type \in {"d", "i"}
      value == IF signed THEN SignedBits(n, bits) ELSE Bits(n, bits)
      radix == CASE s.type \in {"x", "X"} -> 16 [] s.type = "o" -> 8 [] OTHER -> 10
      plain == FiguresOfC(IF value < 0 THEN -value ELSE value, radix, IF s.precision < 0 THEN 1 ELSE s.precision,
                          IF s.type = "X" THEN UpperFigures ELSE LowerFigures)
      figures == IF "#" \in s.flags /\ radix = 8 /\ At(plain, 1) # "0" THEN <<"0">> \o plain ELSE plain
      prefix == CASE signed /\ value < 0 -> <<"-">>
                  [] signed /\ value >= 0 /\ "+" \in s.flags -> <<"+">>
                  [] signed /\ value >= 0 /\ s.flags \cap {"+", " "} = {" "} -> <<" ">>
                  [] radix = 16 /\ "#" \in s.flags /\ value # 0 -> <<"0", s.type>>
                  [] OTHER -> <<>>
      gap == s.width - Len(prefix) - Len(figures)
  IN  CASE "-" \in s.flags -> prefix \o figures \o Repeat(" ", gap)
        [] "-" \notin s.flags /\ "0" \in s.flags /\ s.precision < 0 -> prefix \o Repeat("0", gap) \o figures
        [] OTHER -> Repeat(" ", gap) \o prefix \o figures

TextOfC(s, text) ==
  LET shown == IF s.precision \in 0 .. Len(text) THEN SubSeq(text, 1, s.precision) ELSE text
      gap == s.width - Len(shown)
  IN  IF "-" \in s.flags THEN shown \o Repeat(" ", gap) ELSE Repeat(" ", gap) \o shown

(* What the input asks for.  A negative width from the arguments is a "-",  *)
(* a negative precision none.                                               *)
SpecOfC ==
  LET star(i) == IF input[i].args = <<>> THEN input[i].n ELSE input[i].args[1].n
  IN  [flags |-> ToSet(input[1].text) \cup (IF star(2) < 0 THEN {"-"} ELSE {}),
       width |-> IF star(2) < 0 THEN -star(2) ELSE star(2),
       precision |-> IF star(3) < 0 THEN -1 ELSE star(3),
       size |-> input[4].text, type |-> input[5].text[1]]

Expected ==
  LET arg == input[6].args[1]
  IN  IF arg.int THEN NumberOfC(SpecOfC, arg.n)
      ELSE TextOfC(SpecOfC, IF arg.s = NullText THEN <<"(", "n", "u", "l", "l", ")">> ELSE arg.s)

(* C defines the output: a number for a number, and no zeros before a text. *)
Defined == /\ input[6].args[1].int <=> input[5].text[1] # "s"
           /\ input[5].text[1] = "s" => "0" \notin ToSet(input[1].text) /\ input[4].text = <<>>

(* FormattedPrintA prints every conversion of integers and texts, with any  *)
(* flags, width, precision and size, as C defines it, and reports -1 with   *)
(* as much of it as fits when the buffer is too small                        *)
(* (FormattedPrint.cpp, FormattedPrintA).                                    *)
PrintsAsC ==
  kind = "spec" /\ Len(input) = 6 /\ Defined =>
    \A room \in Rooms :
      FormattedPrintA(<<"%">> \o SpecText, SpecArgs, room) =
        IF Len(Expected) <= room THEN [count |-> Len(Expected), out |-> Expected]
        ELSE [count |-> -1, out |-> SubSeq(Expected, 1, room)]

----
(***************************************************************************)
(* Messages.  A piece has its text, what it stands for in the message, and *)
(* whether it ends the message.                                            *)
(***************************************************************************)
CONSTANT MessageArgs

Message == FlattenSeq([i \in DOMAIN input |-> input[i].text])
Substituted ==
  LET ends == SelectInSeq(input, LAMBDA p : p.ends)
  IN  FlattenSeq([i \in 1 .. (IF ends = 0 THEN Len(input) ELSE ends) |-> input[i].shown])

(* A message with its inserts in any order and any number is written whole, *)
(* with every argument in the place of its number, or not at all: 0 when it *)
(* leaves no room for the terminator (FormattedPrint.cpp, FormatMessageA).  *)
MessageIsWhole ==
  kind = "message" =>
    \A room \in Rooms :
      FormatMessageA(Message, MessageArgs, room) =
        IF Len(Substituted) < room THEN [count |-> Len(Substituted), out |-> Substituted]
        ELSE [count |-> 0, out |-> <<>>]

----
CONSTANTS Scales, \* the decimal digits of a column
          Unit    \* ten to the minus Unit divides every value of the instance

Number10 == FlattenSeq(input)

(* A decimal is sent with its value rounded to the digits of the column, to *)
(* the nearer one when the first digit dropped is not 5, to either when it  *)
(* is, whatever its sign, leading part and exponent (core_stmt.cpp,         *)
(* adjustInputPrecision).                                                   *)
DecimalRounded ==
  kind = "decimal" /\ IsDecimal(Number10) =>
    \A scale \in Scales :
      LET sent == adjustInputPrecision(Number10, scale)
      IN  IsDecimal(sent) /\ Scaled(sent, Unit) \in Roundings(Scaled(Number10, Unit), 10^(Unit - scale))

----
(* What each option asks of a statement, and whether it may.                *)
IsValid(o) ==
  CASE o.name = "scrollable" -> o.type = "string" /\ o.v \in CursorTypes
    [] o.name = "clientbuffermaxkbsize" -> o.type = "int" /\ o.v > 0
    [] o.name = "querytimeout" -> o.type = "int" /\ o.v >= 0
    [] OTHER -> TRUE

Asked(name) == SelectSeq(input, LAMBDA o : o.name = name)
Given(name, default) == IF Asked(name) = <<>> THEN default ELSE Last(Asked(name)).v

(* A statement is created exactly when every option has a known name and    *)
(* the value that counts, the last one given, is valid; each setting then   *)
(* has that value, and the rest their defaults; the session waits for locks *)
(* as long as the query may take, and for ever without a timeout            *)
(* (conn.cpp, validate_stmt_options; core_stmt.cpp, core_hdb_create_stmt).  *)
OptionsTakeEffect ==
  kind = "options" =>
    LET stmt == core_hdb_create_stmt(input)
        names == {input[i].name : i \in DOMAIN input}
    IN  /\ stmt.ok <=> names \subseteq StmtNames /\ \A n \in names : IsValid(Last(Asked(n)))
        /\ stmt.ok => /\ stmt.cursor = Given("scrollable", "forward")
                      /\ stmt.limit = Given("clientbuffermaxkbsize", 0)
                      /\ stmt.timeout = Given("querytimeout", 0)
                      /\ stmt.lock = (IF Asked("querytimeout") = <<>> THEN 0
                                      ELSE IF stmt.timeout = 0 THEN -1 ELSE 1000 * stmt.timeout)

(* hdb_connect with a user name or a password that is not quoted builds a   *)
(* connection string exactly when each run of closing braces in it has an   *)
(* even length, so that the driver reads it back whole when it is put in    *)
(* braces (core_conn.cpp, core_is_conn_opt_value_escaped and                *)
(* build_connection_string_and_set_conn_attr).                              *)
BracesPaired ==
  kind = "value" /\ ~Quoted(input) =>
    \A other \in {"uid", "pwd"} :
      LET own == CHOOSE key \in {"uid", "pwd"} : key # other
          c == validate_conn_options(<<Option(own, "string", input), Option(other, "string", <<"a">>)>>)
      IN  build_connection_string(<<"h">>, c).fault = "none" <=>
            \A i \in DOMAIN input : \A j \in i .. Len(input) :
              (/\ \A k \in i .. j : input[k] = "}"
               /\ At(input, j + 1) # "}" /\ (i = 1 \/ input[i - 1] # "}")) => (j - i) % 2 = 1

----
CONSTANTS MaxFieldSize, MaxPrecision, IntMax
T == INSTANCE SqlTypes

(* The SQL type that a script writes for a column of type t when            *)
(* hdb_field_metadata tells m of it: HDB_SQLTYPE_VARCHAR(Size),             *)
(* HDB_SQLTYPE_DECIMAL(Precision, Scale), or a plain constant.              *)
SqlTypeOf(t, m) ==
  CASE t \in T!Sized -> T!type_and_size_calc(t, m.Size)
    [] t \in T!Exact -> T!type_and_precision_calc(t, m.Precision, m.Scale)
    [] t \in T!Dates -> [type |-> t, size |-> m.Precision, scale |-> m.Scale]
    [] OTHER -> [type |-> t, size |-> 0, scale |-> 0]

(* A parameter declared with what hdb_field_metadata tells of a column, of  *)
(* any type and up to the largest size and precision, is accepted and bound *)
(* with the size and the digits of that column (stmt.cpp,                   *)
(* type_and_size_calc and determine_column_size_or_precision).              *)
ColumnBound ==
  kind = "column" =>
    \A i \in DOMAIN input :
      LET q == SqlTypeOf(input[i].type, T!hdb_field_metadata(input[i]))
      IN  /\ T!is_valid_hdb_sqltype(q.type)
          /\ T!determine_column_size_or_precision(q) = [ok |-> TRUE, size |-> input[i].size, digits |-> input[i].scale]
====
