---- MODULE MCHdbConn ----
(* Small instances of HdbConn. *)
EXTENDS HdbConn, TLC

(* Statements and writes are interchangeable. *)
Symmetry == Permutations(Stmts) \cup Permutations(Writes)
====
