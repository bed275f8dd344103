---- MODULE Options ----
(***************************************************************************)
(* The option arrays of hdb_connect, hdb_prepare and hdb_query: their      *)
(* validation in conn.cpp, the statement options that core_hdb_create_stmt *)
(* applies, and the connection string that core_hdb_connect builds.        *)
(*                                                                         *)
(* An option is [name, type, v]: the name with its case folded ("" for a   *)
(* numeric key), the type of the value and a number or a text v.  The      *)
(* tables of conn.cpp are empty at this commit, all their rows being       *)
(* commented out; StmtNames and ConnStrings are the names they hold.       *)
(***************************************************************************)
EXTENDS Characters

CONSTANTS StmtNames,    \* the names in SS_STMT_OPTS
          ConnStrings,  \* the names in SS_CONN_OPTS, all of type CONN_ATTR_STRING
          LockBits      \* the width of the int that holds the lock timeout

Option(name, type, v) == [name |-> name, type |-> type, v |-> v]

(***************************************************************************)
(* Statement options.                                                      *)
(***************************************************************************)
(* validate_stmt_options: every name known, and of two spellings of a name  *)
(* the first one's place with the last one's value.                         *)
FirstPlace(opts) == SelectSeq([i \in DOMAIN opts |-> i], LAMBDA i : \A j \in 1 .. i - 1 : opts[j].name # opts[i].name)
LastOf_First(opts, name) == opts[SelectInSeq(opts, LAMBDA o : o.name = name)]
LastOf(opts, name) == opts[SelectLastInSeq(opts, LAMBDA o : o.name = name)]

validate_stmt_options(opts) ==
  [ok |-> \A i \in DOMAIN opts : opts[i].name \in StmtNames,
   table |-> [i \in DOMAIN FirstPlace(opts) |-> LastOf(opts, opts[FirstPlace(opts)[i]].name)]]

NewStmt == [cursor |-> "forward", limit |-> 0, timeout |-> 0, lock |-> 0, atExec |-> TRUE, ok |-> TRUE]

Refuse(stmt) == [stmt EXCEPT !.ok = FALSE]

CursorTypes == {"static", "dynamic", "keyset", "forward", "buffered"}

(* stmt_option_ss_scrollable and core_hdb_set_scrollable. *)
SetScrollable(stmt, o) ==
  IF o.type = "string" /\ o.v \in CursorTypes THEN [stmt EXCEPT !.cursor = o.v] ELSE Refuse(stmt)

(* core_hdb_set_buffered_query_limit. *)
SetLimit(stmt, o) == IF o.type = "int" /\ o.v > 0 THEN [stmt EXCEPT !.limit = o.v] ELSE Refuse(stmt)

(* core_hdb_set_query_timeout: also the lock timeout of the whole session,  *)
(* in milliseconds, with -1 for none, cut to an int.                         *)
LockTimeout(timeout) ==
  LET ms == (timeout * 1000) % 2^LockBits
  IN  IF timeout = 0 THEN -1 ELSE IF ms >= 2^(LockBits - 1) THEN ms - 2^LockBits ELSE ms

SetTimeout(stmt, o) ==
  IF o.type = "int" /\ o.v >= 0 THEN [stmt EXCEPT !.timeout = o.v, !.lock = LockTimeout(o.v)]
  ELSE Refuse(stmt)

(* core_hdb_set_send_at_exec: any value, as PHP takes it for true. *)
SetSendAtExec(stmt, o) ==
  [stmt EXCEPT !.atExec = IF o.type = "int" THEN o.v # 0 ELSE o.type = "string" /\ o.v \notin {"", "0"}]

ApplyOption(stmt, o) ==
  IF ~stmt.ok THEN stmt
  ELSE CASE o.name = "scrollable" -> SetScrollable(stmt, o)
         [] o.name = "clientbuffermaxkbsize" -> SetLimit(stmt, o)
         [] o.name = "querytimeout" -> SetTimeout(stmt, o)
         [] o.name = "sendstreamparamsatexec" -> SetSendAtExec(stmt, o)

(* core_hdb_create_stmt: an option that fails ends the statement. *)
core_hdb_create_stmt(opts) ==
  LET valid == validate_stmt_options(opts)
  IN  IF valid.ok THEN FoldLeft(ApplyOption, NewStmt, valid.table) ELSE Refuse(NewStmt)

(***************************************************************************)
(* Connection options.                                                     *)
(***************************************************************************)
(* core_is_conn_opt_value_escaped: whether every "}" is one of a pair.  The *)
(* value of a quoted text ends before its last brace, and the pair may read *)
(* that brace.                                                              *)
Quoted(value) == Len(value) >= 2 /\ Head(value) = "{" /\ Last(value) = "}"

AfterPair_One(i) == i + 1
AfterPair(i) == i + 2

RECURSIVE PairsUpTo(_, _, _)
PairsUpTo(value, i, end) ==
  IF i > end THEN TRUE
  ELSE IF At(value, i) # "}" THEN PairsUpTo(value, i + 1, end)
  ELSE At(value, i + 1) = "}" /\ PairsUpTo(value, AfterPair(i), end)

core_is_conn_opt_value_escaped(value) ==
  IF Quoted(value) THEN PairsUpTo(value, 2, Len(value) - 1) ELSE PairsUpTo(value, 1, Len(value))

None == <<"none">>

(* validate_conn_options, in the order of the array: the first fault ends it. *)
ConnOptionFault(o) ==
  CASE o.type = "null" -> "invalid option"
    [] o.name = "" -> "invalid key"
    [] o.name \in {"uid", "pwd"} -> "none"
    [] o.name \notin ConnStrings -> "invalid option"
    [] o.type # "string" -> "not a string"
    [] ~core_is_conn_opt_value_escaped(o.v) -> "braces"
    [] OTHER -> "none"

TakeConnOption(c, o) ==
  IF c.fault # "none" THEN c
  ELSE CASE ConnOptionFault(o) # "none" -> [c EXCEPT !.fault = ConnOptionFault(o)]
         [] ConnOptionFault(o) = "none" /\ o.name = "uid" -> [c EXCEPT !.uid = o.v]
         [] ConnOptionFault(o) = "none" /\ o.name = "pwd" -> [c EXCEPT !.pwd = o.v]
         [] OTHER -> c

validate_conn_options(opts) == FoldLeft(TakeConnOption, [fault |-> "none", uid |-> None, pwd |-> None], opts)

(* build_connection_string_and_set_conn_attr: a value goes into the string  *)
(* as it is, without quotes, and its key with it.  No user is a null        *)
(* pointer that the check of the braces reads.                              *)
Appended(key, value) == <<key, "=">> \o value \o <<";">>

build_connection_string(server, c) ==
  CASE c.uid = None -> [fault |-> "null pointer", text |-> <<>>]
    [] c.uid # None /\ (~core_is_conn_opt_value_escaped(c.uid)
                        \/ (c.pwd # None /\ ~core_is_conn_opt_value_escaped(c.pwd))) ->
         [fault |-> "braces", text |-> <<>>]
    [] OTHER -> [fault |-> "none",
                 text |-> Appended("Server", server) \o Appended("UID", c.uid)
                          \o (IF c.pwd = None THEN <<>> ELSE Appended("PWD", c.pwd))]
====
