---- MODULE MCHdbStmt ----
(* Small instances of HdbStmt: batches of one or two results with up to three rows. *)
EXTENDS HdbStmt

Table(n) == [cols |-> TRUE, rows |-> n]
Count0 == [cols |-> FALSE, rows |-> 0]

(* A query, an empty one, and an update whose trigger also selects a row. *)
Queries == {<<Table(2)>>, <<Table(0)>>, <<Count0, Table(1)>>}

(* The same with a query whose rows do not fit in a buffer of two. *)
LargeQueries == {<<Table(2)>>, <<Table(3)>>, <<Count0, Table(1)>>}

NextOnly == {<<"next", 0>>}
ScrollMoves == {<<"next", 0>>, <<"prior", 0>>, <<"absolute", 1>>, <<"relative", 2>>}
====
