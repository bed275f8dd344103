---- MODULE MCParams ----
(* Small instances of Params: parameter arrays of one to three parameters. *)
EXTENDS Params

Unset == [type |-> "none", enc |-> "none"]
NoSql == [type |-> "none", size |-> 0, scale |-> 0]
Value(t, s) == [t |-> t, cp |-> IF t = "string" THEN "UTF8" ELSE "none", s |-> s]
Plain(v) == [u |-> [array |-> FALSE, dir |-> "none", ref |-> FALSE, php |-> Unset, sql |-> NoSql], v |-> v]
Array(dir, php, sql, v) ==
  [u |-> [array |-> TRUE, dir |-> dir, ref |-> TRUE, php |-> php, sql |-> sql], v |-> v]
Php(type, name) == T!type_and_encoding(type, name)
Sql(type, size) == T!type_and_size_calc(type, size)

Old == Value("string", <<"L2", "m">>)
Bytes == <<"a", "L3", "m", "m", "L4", "m", "m", "m">>
Utf8Stream(s) == Plain(Value("stream", s))
BinaryStream == Array("in", Php("STREAM", "binary"), NoSql, Value("stream", <<"L3", "m">>))

Inputs == { <<Plain(Value(t, <<1>>))>> : t \in {"null", "bool", "int", "big", "float", "datetime", "object", "array"} }
            \cup { <<Plain(Old)>>, <<Plain(Value("string", <<"L3", "m">>))>> }
Sent2 == { <<Utf8Stream(Bytes), Plain(Old), BinaryStream>>, <<Utf8Stream(<<>>)>>,
           <<Utf8Stream(<<"a", "L3", "m">>)>>,
           <<Utf8Stream(<<"a", "a", "L2", "m", "m", "a", "m", "a", "a">>)>>,
           <<Utf8Stream(<<"a", "L4", "m", "a">>), Utf8Stream(<<"L2", "m">>)>>,
           <<Utf8Stream(<<"L4", "m", "m", "m", "L4", "m", "m", "m">>),
             Array("out", Php("STRING", "utf8"), Sql("WVARCHAR", 2), Value("null", <<>>))>> }
Returned == { <<Array("inout", Php("STRING", "utf8"), Sql("WVARCHAR", 2), Old),
                Array("out", Php("STRING", "binary"), Sql("VARBINARY", 2), Value("null", <<>>))>>,
              <<Array("inout", Php("INT", "none"), NoSql, Value("bool", <<1>>)),
                     Array("out", Php("STRING", "utf8"), Sql("WVARCHAR", 1), Old)>>,
                   <<Array("inout", Php("FLOAT", "none"), NoSql, Value("null", <<>>))>>,
                   <<Array("inout", Php("FLOAT", "none"), NoSql, Old)>>,
                   <<Array("out", Unset, [NoSql EXCEPT !.type = "LONGVARCHAR"], Old)>>,
                   <<Array("inout", Php("INT", "none"), NoSql, Value("big", <<1>>))>>,
                   <<Array("out", Unset, NoSql, Value("bool", <<1>>))>>,
                   <<Array("inout", Unset, Sql("WVARCHAR", 2), Old)>>,
                   <<Array("inout", Php("STRING", "binary"), Sql("WVARCHAR", 2), Old)>>,
                   <<Array("inout", Php("STRING", "binary"), Sql("WVARCHAR", 2), Value("string", <<"L2">>))>>,
                   <<Array("out", Unset, Sql("WVARCHAR", 2), Old)>>,
                   <<Array("in", Php("STRING", "char"), NoSql, Old)>>,
                   <<Array("sideways", Unset, NoSql, Old)>>,
                   <<Array("in", Unset, Sql("VARCHAR", 9), Old)>> }

AllScripts == Inputs \cup Sent2 \cup Returned
Answered == {<<"a">>, <<"b2", "hi", "lo">>}
====
