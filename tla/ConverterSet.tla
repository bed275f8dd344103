---- MODULE ConverterSet ----
(***************************************************************************)
(* What the converter pool promises to the threads that convert strings: a *)
(* set of idle converters from which one is borrowed and to which it is    *)
(* returned at one moment, each converter with at most one thread and each *)
(* thread with at most one converter.  Exit closes the set for good: what  *)
(* is idle goes away, and a converter still out is deleted by its user.    *)
(***************************************************************************)
CONSTANTS
  Threads,
  Converters

VARIABLES
  holder,          \* who has each converter: "none" (not allocated), "pool" or a thread
  closed           \* has the pool been destroyed?

vars == <<holder, closed>>

Init ==
  /\ holder = [c \in Converters |-> "none"]
  /\ closed = FALSE

EmptyHanded(t) == \A c \in Converters : holder[c] # t

Moves(c, from, to) == holder[c] = from /\ holder' = [holder EXCEPT ![c] = to]

Create(t, c) == EmptyHanded(t) /\ Moves(c, "none", t) /\ UNCHANGED closed

Borrow(t, c) == ~closed /\ EmptyHanded(t) /\ Moves(c, "pool", t) /\ UNCHANGED closed

GiveBack(t, c) == ~closed /\ Moves(c, t, "pool") /\ UNCHANGED closed

Delete(t, c) == Moves(c, t, "none") /\ UNCHANGED closed

Close == ~closed /\ closed' = TRUE /\ UNCHANGED holder

(* The destructor deletes the idle converters one by one. *)
Discard(c) == closed /\ Moves(c, "pool", "none") /\ UNCHANGED closed

Next ==
  \/ \E t \in Threads, c \in Converters :
       Create(t, c) \/ Borrow(t, c) \/ GiveBack(t, c) \/ Delete(t, c)
  \/ Close
  \/ \E c \in Converters : Discard(c)

Spec == Init /\ [][Next]_vars
====
