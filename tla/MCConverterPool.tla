---- MODULE MCConverterPool ----
(* Small instances of ConverterPool. *)
EXTENDS ConverterPool

(* Less than the threads can return at once, so that some converter is refused. *)
PoolLimit == Cardinality(Threads) - 1
====
