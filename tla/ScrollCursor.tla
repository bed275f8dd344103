---- MODULE ScrollCursor ----
(***************************************************************************)
(* What a scrollable result set promises to the script: a cursor over the  *)
(* rows 1..rows that never gets further away than just before the first    *)
(* row (0) or just after the last one (rows + 1), and a fetch that reports *)
(* success exactly when it lands on a row.  Arithmetic is unbounded here.  *)
(***************************************************************************)
EXTENDS Integers

CONSTANTS
  Offsets          \* the offsets a script passes to hdb_fetch

VARIABLES
  rows,            \* number of rows, -1 for a result without columns
  at,              \* cursor position
  outcome          \* outcome of the last fetch

vars == <<rows, at, outcome>>

Styles == {"next", "first", "last", "prior", "absolute", "relative"}

(* The position asked for, wherever it lies: absolute offsets are 0-based. *)
Target(style, offset) ==
  CASE style = "next"     -> at + 1
    [] style = "prior"    -> at - 1
    [] style = "first"    -> 1
    [] style = "last"     -> rows
    [] style = "absolute" -> offset + 1
    [] style = "relative" -> at + offset

Init == at = 0 /\ outcome = "none" /\ rows \in Int /\ rows >= -1

Fetch(style, offset) ==
  LET t == Target(style, offset)
  IN  \/ t < 1 /\ at' = 0 /\ outcome' = "no_data" /\ UNCHANGED rows
      \/ t > rows /\ t >= 1 /\ at' = rows + 1 /\ outcome' = "no_data" /\ UNCHANGED rows
      \/ t \in 1..rows /\ at' = t /\ outcome' = "success" /\ UNCHANGED rows

Next == \E style \in Styles, offset \in Offsets : Fetch(style, offset)

Spec == Init /\ [][Next]_vars
====
