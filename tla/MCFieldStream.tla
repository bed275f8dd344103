---- MODULE MCFieldStream ----
(* Small instances of FieldStream: every text of up to MaxUnits units whose pairs are whole. *)
EXTENDS FieldStream

Texts(n) == UNION {[1 .. k -> {"a", "b3", "hi", "lo"}] : k \in 0 .. n}
Whole(s) == \A i \in 1 .. Len(s) :
              /\ s[i] = "hi" => i < Len(s) /\ s[i + 1] = "lo"
              /\ s[i] = "lo" => i > 1 /\ s[i - 1] = "hi"

Values == {s \in Texts(4) : Whole(s)} \cup {<<"b3", "hi", "lo", "a", "hi", "lo">>}
            \cup {[i \in 1 .. n |-> "b3"] : n \in 5 .. 9}
====
