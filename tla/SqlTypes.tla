---- MODULE SqlTypes ----
(***************************************************************************)
(* The type tables of the extension: what the script may write for a PHP   *)
(* type or a SQL type, what a parameter array such as                      *)
(* array(&$v, direction, phptype, sqltype) means, the defaults taken for   *)
(* what it leaves out, the PHP type a field is returned as, and the        *)
(* metadata of a field.                                                    *)
(*                                                                         *)
(* A type is named by its constant without the prefix SQL_ or HDB_PHPTYPE_,*)
(* an encoding without HDB_ENCODING_.  A PHP value is a record [t, cp, s]: *)
(* its Zend type, the code page of a string, and its content.  Column      *)
(* encryption, which no option of hdb_connect enables, is left out.        *)
(***************************************************************************)
EXTENDS Integers, Sequences

CONSTANTS
  MaxFieldSize,  \* SQL_SERVER_MAX_FIELD_SIZE
  MaxPrecision,  \* SQL_SERVER_MAX_PRECISION
  IntMax         \* the largest int

Sized == {"BINARY", "CHAR", "VARBINARY", "VARCHAR", "WCHAR", "WVARCHAR"}
Wide == {"WCHAR", "WVARCHAR"}
Lob == {"LONGVARBINARY", "LONGVARCHAR", "WLONGVARCHAR"}
Exact == {"DECIMAL", "NUMERIC"}
Small == {"BIT", "INTEGER", "SMALLINT", "TINYINT"}
Approximate == {"FLOAT", "REAL"}
Dates == {"TYPE_DATE", "TYPE_TIMESTAMP"}

(* What the server describes: its length is a size, not a precision. *)
Fixed == Small \cup Approximate \cup Exact \cup Dates \cup {"BIGINT", "GUID"}

is_valid_hdb_sqltype(t) == t \in Sized \cup Lob \cup Fixed

(* HDB_PHPTYPE_ constants and the names of encodings the script may give. *)
is_valid_hdb_phptype(p) ==
  \/ p.type \in {"NULL", "INT", "FLOAT", "DATETIME"}
  \/ p.type \in {"STRING", "STREAM"} /\ p.enc \in {"BINARY", "CHAR", "UTF8", "DEFAULT"}

type_and_encoding(type, name) ==
  LET known == [binary |-> "BINARY", char |-> "CHAR", utf8 |-> "UTF8"]
  IN  [type |-> type, enc |-> IF name \in DOMAIN known THEN known[name] ELSE "INVALID"]

(***************************************************************************)
(* HDB_SQLTYPE_VARCHAR(n) and HDB_SQLTYPE_DECIMAL(p, s): the arguments     *)
(* packed into the constant.  A size is a number read into an int, MaxType *)
(* for 'max', or Bad when it cannot be read.                               *)
(***************************************************************************)
MaxType == -1
InvalidSize == -2
InvalidPrecision == -1
ToInt(n) == ((n + IntMax + 1) % (2 * (IntMax + 1))) - (IntMax + 1)

type_and_size_calc_Exclusive(type, asked) ==
  LET size == ToInt(asked)
      max == IF type \in Wide THEN MaxFieldSize \div 2 ELSE MaxFieldSize
  IN  [type |-> type, scale |-> InvalidPrecision,
       size |-> IF size >= max \/ size < MaxType \/ size = 0 THEN InvalidSize ELSE size]

type_and_size_calc(type, asked) ==
  LET size == ToInt(asked)
      max == IF type \in Wide THEN MaxFieldSize \div 2 ELSE MaxFieldSize
  IN  [type |-> type, scale |-> InvalidPrecision,
       size |-> IF size > max \/ size < MaxType \/ size = 0 THEN InvalidSize ELSE size]

type_and_precision_calc(type, prec, scale) ==
  LET p == IF prec \in 0 .. MaxPrecision THEN prec ELSE InvalidPrecision
  IN  [type |-> type, size |-> p, scale |-> IF scale > p THEN InvalidPrecision ELSE scale]

Precision == [BIGINT |-> 19, BIT |-> 1, INTEGER |-> 10, SMALLINT |-> 5, TINYINT |-> 3, GUID |-> 36,
              FLOAT |-> 53, REAL |-> 24, TYPE_DATE |-> 10, LONGVARBINARY |-> IntMax,
              LONGVARCHAR |-> IntMax, WLONGVARCHAR |-> IntMax \div 2]

determine_column_size_or_precision(q) ==
  CASE q.type \in DOMAIN Precision -> [ok |-> TRUE, size |-> Precision[q.type], digits |-> 0]
    [] q.type \in Sized -> [ok |-> q.size = MaxType \/ q.size \in 0 .. MaxFieldSize, size |-> q.size, digits |-> 0]
    [] q.type \in Exact -> [ok |-> InvalidPrecision \notin {q.size, q.scale}, size |-> q.size, digits |-> q.scale]
    [] q.type = "TYPE_TIMESTAMP" -> [ok |-> TRUE, size |-> q.size, digits |-> q.scale]

(***************************************************************************)
(* The PHP type of a SQL type, for a field and for an output parameter     *)
(* whose PHP type is not given.  The two tables are not the same.          *)
(***************************************************************************)
PhpType(type, enc) == [type |-> type, enc |-> enc]
Untyped(type) == PhpType(type, "INVALID")

sql_type_to_php_type(t, preferString, enc, dateAsString) ==
  CASE t \in {"BIGINT", "CHAR", "GUID", "WCHAR", "VARCHAR", "WVARCHAR", "LONGVARCHAR", "WLONGVARCHAR"} \cup Exact
         -> PhpType("STRING", enc)
    [] t \in Small -> Untyped("INT")
    [] t \in {"BINARY", "VARBINARY", "LONGVARBINARY"}
         -> PhpType(IF preferString THEN "STRING" ELSE "STREAM", "BINARY")
    [] t \in Approximate -> Untyped("FLOAT")
    [] t \in Dates -> IF dateAsString THEN PhpType("STRING", enc) ELSE Untyped("DATETIME")
    [] OTHER -> Untyped("INVALID")

determine_hdb_php_type(t, preferString, enc, dateAsString) ==
  CASE t \in {"VARCHAR", "WVARCHAR"} -> PhpType("STREAM", enc)
    [] t \in {"LONGVARCHAR", "WLONGVARCHAR"} -> PhpType(IF preferString THEN "STRING" ELSE "STREAM", enc)
    [] OTHER -> sql_type_to_php_type(t, preferString, enc, dateAsString)

(***************************************************************************)
(* core_hdb_field_metadata and hdb_field_metadata: d is what the driver    *)
(* describes; Null where the script gets a null.                           *)
(***************************************************************************)
Null == "null"

core_hdb_field_metadata(d) ==
  IF d.type \in (Fixed \ {"GUID"}) \cup {"DOUBLE"}
  THEN [type |-> d.type, precision |-> d.size, size |-> 0, scale |-> d.scale]
  ELSE [type |-> d.type, precision |-> 0, size |-> d.size, scale |-> d.scale]

hdb_field_metadata(d) ==
  LET m == core_hdb_field_metadata(d)
  IN  IF d.type \in Exact \cup Dates THEN [Size |-> Null, Precision |-> m.precision, Scale |-> m.scale]
      ELSE IF d.type \in Small \cup Approximate \cup {"BIGINT", "DOUBLE"}
      THEN [Size |-> Null, Precision |-> m.precision, Scale |-> Null]
      ELSE [Size |-> m.size, Precision |-> Null, Scale |-> Null]

(***************************************************************************)
(* Defaults of a parameter from its value and encoding.  None is an        *)
(* exception.                                                              *)
(***************************************************************************)
None == "none"
Encoded3(enc, char, binary, wide) ==
  CASE enc = "CHAR" -> char [] enc = "BINARY" -> binary [] enc = "UTF8" -> wide [] OTHER -> None

default_c_type(v, enc) ==
  CASE v.t = "null" -> IF enc = "BINARY" THEN "C_BINARY" ELSE "C_CHAR"
    [] v.t \in {"bool", "int"} -> "C_SLONG"
    [] v.t = "big" -> "C_SBIGINT"
    [] v.t = "float" -> "C_DOUBLE"
    [] v.t \in {"string", "stream"} -> Encoded3(enc, "C_CHAR", "C_BINARY", "C_WCHAR")
    [] v.t \in {"datetime", "object"} -> "C_CHAR"
    [] OTHER -> None

default_sql_type(v, enc) ==
  CASE v.t = "null" -> IF enc = "BINARY" THEN "BINARY" ELSE "CHAR"
    [] v.t \in {"bool", "int"} -> "INTEGER"
    [] v.t = "big" -> "BIGINT"
    [] v.t = "float" -> "FLOAT"
    [] v.t \in {"string", "stream"} -> Encoded3(enc, "VARCHAR", "VARBINARY", "WVARCHAR")
    [] v.t \in {"datetime", "object"} -> "TYPE_TIMESTAMP"
    [] OTHER -> None

default_sql_size_and_scale(v, enc) ==
  LET width == IF enc = "UTF8" THEN 2 ELSE 1
  IN  CASE v.t = "null" -> 1
        [] v.t = "string" -> IF Len(v.s) * width > MaxFieldSize THEN 0 ELSE MaxFieldSize \div width
        [] v.t \in {"datetime", "object"} -> 23
        [] OTHER -> 0

(***************************************************************************)
(* parse_param_array: u is the array as the script wrote it, v the value,  *)
(* None what it left out.  `error` names the check that refused it.        *)
(***************************************************************************)
ZendType == [null |-> "NULL", bool |-> "INVALID", int |-> "INT", big |-> "INT", float |-> "FLOAT",
             string |-> "STRING", array |-> "INVALID", datetime |-> "DATETIME",
             object |-> "DATETIME", stream |-> "STREAM"]

Parsed(dir, want, enc, sql, size, digits) ==
  [error |-> None, dir |-> dir, want |-> want, enc |-> enc, sql |-> sql, size |-> size, digits |-> digits]

Refuse(why) == [Parsed(None, None, None, None, 0, 0) EXCEPT !.error = why]

DirectionError(u) ==
  CASE u.dir \notin {None, "in", "out", "inout"} -> "direction"
    [] u.dir \in {"out", "inout"} /\ ~u.ref -> "not a reference"
    [] OTHER -> None

SqlTypeError(u) ==
  IF u.sql.type = None THEN None
  ELSE IF ~is_valid_hdb_sqltype(u.sql.type) THEN "sqltype"
  ELSE IF ~determine_column_size_or_precision(u.sql).ok THEN "precision"
  ELSE None

(* The PHP type wanted back and the encoding. *)
Wanted(u, v, dir, connEncoding, dateAsString) ==
  IF u.php.type # None
  THEN PhpType(u.php.type, IF u.php.enc = "DEFAULT" THEN connEncoding ELSE u.php.enc)
  ELSE IF dir # "in" /\ u.sql.type # None
  THEN determine_hdb_php_type(u.sql.type, TRUE, connEncoding, dateAsString)
  ELSE PhpType(ZendType[v.t], connEncoding)

parse_param_array(u, v, connEncoding, dateAsString) ==
  LET dir == IF u.dir = None THEN "in" ELSE u.dir
      p == Wanted(u, v, dir, connEncoding, dateAsString)
      q == determine_column_size_or_precision(u.sql)
  IN  CASE DirectionError(u) # None -> Refuse(DirectionError(u))
        [] u.php.type # None /\ ~is_valid_hdb_phptype(u.php) -> Refuse("phptype")
        [] SqlTypeError(u) # None -> Refuse(SqlTypeError(u))
        [] dir = "out" /\ p.type \in {"NULL", "DATETIME", "STREAM"} -> Refuse("output type")
        [] OTHER -> IF u.sql.type = None THEN Parsed(dir, p.type, p.enc, None, 0, 0)
                    ELSE Parsed(dir, p.type, p.enc, u.sql.type, q.size, q.digits)
====
