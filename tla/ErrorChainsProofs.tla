---- MODULE ErrorChainsProofs ----
(***************************************************************************)
(* What hdb_errors tells: that the chains lose no diagnostic, tell none of *)
(* an earlier function, and that a function fails for a cause.             *)
(***************************************************************************)
EXTENDS ErrorChains, SequenceTheorems, WellFoundedInduction, TLAPS

OfOdbc == UNION {ToSet(left) : left \in Infos \cup Failures}
Whats == OfOdbc \cup {"info", "error", "custom", "mars off", "no name"}
Records == [what : Whats, fresh : BOOLEAN]
MetRecords == [what : Whats, warning : BOOLEAN, fatal : BOOLEAN, hidden : BOOLEAN]
States == {"idle", "running", "returned", "refused", "failed", "crashed"}
ResultSets == [kind : {None, "odbc", "buffered"}, last : Seq(Records)]
Calls == [state : States, steps : Nat, met : Seq(MetRecords), custom : BOOLEAN]

TypeOK ==
  /\ wrae \in BOOLEAN
  /\ errors \in Seq(Records) /\ warnings \in Seq(Records)
  /\ diag \in [{"conn", "stmt"} -> Seq(Records)]
  /\ results \in ResultSets
  /\ call \in Calls

----
LEMMA MinOfNats ==
  ASSUME NEW T \in SUBSET Nat, T # {}
  PROVE  Min(T) \in T /\ \A y \in T : Min(T) <= y
<1>0. T \subseteq Nat
  OBVIOUS
<1>1. \E x \in T : \A y \in T : <<y, x>> \notin OpToRel(<, Nat)
  BY <1>0, NatLessThanWellFounded, WFMin
<1>2. PICK x \in T : \A y \in T : ~(y < x)
  BY <1>0, <1>1 DEF OpToRel
<1>3. \A y \in T : x <= y
  BY <1>0, <1>2
<1> QED
  BY <1>3 DEF Min

(* Induction over the natural numbers, as a fact about sets. *)
LEMMA NatSet ==
  ASSUME NEW S \in SUBSET Nat, 0 \in S, \A n \in S : n + 1 \in S
  PROVE  S = Nat
<1>1. SUFFICES ASSUME S # Nat PROVE FALSE
  OBVIOUS
<1> DEFINE T == Nat \ S
           x == Min(T)
<1>2. T \subseteq Nat /\ T # {}
  BY <1>1
<1>3. x \in T /\ \A y \in T : x <= y
  <2> HIDE DEF T
  <2> QED
    BY <1>2, MinOfNats
<1> HIDE DEF x
<1>4. x # 0 /\ x - 1 \in Nat /\ x - 1 \in S
  BY <1>3
<1> QED
  BY <1>3, <1>4

(***************************************************************************)
(* The loop of the handler.  What it leaves begins with the chain as it    *)
(* was; behind it is each of the records among kind and nothing else, and  *)
(* all of them in their order when all are among kind.                     *)
(***************************************************************************)
OneBehind(before, e, kind) == IF e \in kind THEN Append(before, e) ELSE before

IsLoop(after, chain, records, kind, last) ==
  after = [n \in 0 .. last |-> IF n = 0 THEN chain ELSE OneBehind(after[n - 1], records[n], kind)]

LEMMA LoopExists ==
  ASSUME NEW chain, NEW records \in Seq(Records), NEW kind
  PROVE  \E after : IsLoop(after, chain, records, kind, Len(records))
<1> DEFINE S == {n \in Nat : \E after : IsLoop(after, chain, records, kind, n)}
<1>1. 0 \in S
  <2> DEFINE f == [n \in 0 .. 0 |-> chain]
  <2>1. IsLoop(f, chain, records, kind, 0)
    BY DEF IsLoop
  <2> QED
    BY <2>1
<1>2. ASSUME NEW n \in S PROVE n + 1 \in S
  <2>1. PICK f : IsLoop(f, chain, records, kind, n)
    BY <1>2
  <2> DEFINE g == [m \in 0 .. n + 1 |->
                     IF m = n + 1 THEN OneBehind(f[n], records[n + 1], kind) ELSE f[m]]
  <2>2. \A m \in 0 .. n : f[m] = IF m = 0 THEN chain ELSE OneBehind(f[m - 1], records[m], kind)
    BY <2>1 DEF IsLoop
  <2>3. \A m \in 0 .. n + 1 : g[m] = IF m = 0 THEN chain ELSE OneBehind(g[m - 1], records[m], kind)
    <3> TAKE m \in 0 .. n + 1
    <3>1. CASE m = n + 1
      BY <3>1
    <3>2. CASE m # n + 1
      BY <3>2, <2>2
    <3> QED
      BY <3>1, <3>2
  <2>4. IsLoop(g, chain, records, kind, n + 1)
    <3> HIDE DEF g
    <3>1. DOMAIN g = 0 .. n + 1 /\ g = [m \in 0 .. n + 1 |-> g[m]]
      BY DEF g
    <3> QED
      BY <2>3, <3>1 DEF IsLoop
  <2> QED
    BY <2>4
<1>3. S = Nat
  <2> HIDE DEF S
  <2>1. S \subseteq Nat
    BY DEF S
  <2> QED
    BY <1>1, <1>2, <2>1, NatSet
<1>4. Len(records) \in S
  BY <1>3, LenProperties
<1> QED
  BY <1>4

Begins(long, short) ==
  /\ Len(short) <= Len(long)
  /\ \A i \in 1 .. Len(short) : long[i] = short[i]

(* What the loop has left after the first n records. *)
LoopLeft(left, chain, records, kind, n) ==
  /\ left \in Seq(Records) /\ Begins(left, chain)
  /\ \A i \in Len(chain) + 1 .. Len(left) : \E k \in 1 .. n : left[i] = records[k] /\ records[k] \in kind
  /\ \A k \in 1 .. n : records[k] \in kind => \E i \in Len(chain) + 1 .. Len(left) : left[i] = records[k]
  /\ (\A k \in 1 .. n : records[k] \in kind) =>
       Len(left) = Len(chain) + n /\ \A k \in 1 .. n : left[Len(chain) + k] = records[k]

LEMMA LoopStep ==
  ASSUME NEW chain \in Seq(Records), NEW records \in Seq(Records), NEW kind,
         NEW n \in Nat, n < Len(records), NEW left, LoopLeft(left, chain, records, kind, n)
  PROVE  LoopLeft(OneBehind(left, records[n + 1], kind), chain, records, kind, n + 1)
<1> DEFINE e == records[n + 1]
           more == OneBehind(left, e, kind)
<1>1. e \in Records /\ left \in Seq(Records) /\ Len(left) \in Nat /\ Len(chain) \in Nat /\ Len(records) \in Nat
  BY LenProperties, ElementOfSeq DEF LoopLeft
<1>2. CASE e \notin kind
  <2>1. more = left
    BY <1>2 DEF OneBehind
  <2>2. \A k \in 1 .. n + 1 : records[k] \in kind => k \in 1 .. n
    BY <1>2
  <2>3. ~ \A k \in 1 .. n + 1 : records[k] \in kind
    BY <1>2
  <2>4. 1 .. n \subseteq 1 .. n + 1
    OBVIOUS
  <2> HIDE DEF more, e
  <2> QED
    BY <2>1, <2>2, <2>3, <2>4, <1>1 DEF LoopLeft, more, e
<1>3. CASE e \in kind
  <2>1. /\ more \in Seq(Records) /\ Len(more) = Len(left) + 1
        /\ \A i \in 1 .. Len(left) : more[i] = left[i]
        /\ more[Len(left) + 1] = e
    BY <1>1, <1>3, AppendProperties DEF OneBehind
  <2> HIDE DEF more
  <2>2. Begins(more, chain)
    BY <1>1, <2>1 DEF LoopLeft, Begins
  <2>3. ASSUME NEW i \in Len(chain) + 1 .. Len(more)
        PROVE  \E k \in 1 .. n + 1 : more[i] = records[k] /\ records[k] \in kind
    <3>1. CASE i = Len(left) + 1
      BY <3>1, <2>1, <1>3
    <3>2. CASE i # Len(left) + 1
      <4>1. i \in Len(chain) + 1 .. Len(left) /\ i \in 1 .. Len(left)
        BY <3>2, <2>1, <1>1
      <4>2. PICK k \in 1 .. n : left[i] = records[k] /\ records[k] \in kind
        BY <4>1 DEF LoopLeft
      <4> QED
        BY <4>1, <4>2, <2>1
    <3> QED
      BY <3>1, <3>2
  <2>4. ASSUME NEW k \in 1 .. n + 1, records[k] \in kind
        PROVE  \E i \in Len(chain) + 1 .. Len(more) : more[i] = records[k]
    <3>1. Len(chain) <= Len(left)
      BY DEF LoopLeft, Begins
    <3>2. CASE k = n + 1
      BY <3>1, <3>2, <2>1, <1>1
    <3>3. CASE k # n + 1
      <4>1. PICK i \in Len(chain) + 1 .. Len(left) : left[i] = records[k]
        BY <3>3, <2>4 DEF LoopLeft
      <4> QED
        BY <4>1, <2>1, <1>1
    <3> QED
      BY <3>2, <3>3
  <2>5. ASSUME \A k \in 1 .. n + 1 : records[k] \in kind
        PROVE  Len(more) = Len(chain) + (n + 1) /\ \A k \in 1 .. n + 1 : more[Len(chain) + k] = records[k]
    <3>1. Len(left) = Len(chain) + n /\ \A k \in 1 .. n : left[Len(chain) + k] = records[k]
      BY <2>5 DEF LoopLeft
    <3>2. Len(more) = Len(chain) + (n + 1)
      BY <3>1, <2>1, <1>1
    <3>3. ASSUME NEW k \in 1 .. n + 1 PROVE more[Len(chain) + k] = records[k]
      <4>1. CASE k = n + 1
        <5>1. Len(chain) + k = Len(left) + 1
          BY <3>1, <4>1, <1>1
        <5> QED
          BY <5>1, <4>1, <2>1
      <4>2. CASE k # n + 1
        <5>1. k \in 1 .. n /\ Len(chain) + k \in 1 .. Len(left)
          BY <3>1, <4>2, <1>1
        <5> QED
          BY <5>1, <3>1, <2>1
      <4> QED
        BY <4>1, <4>2
    <3> QED
      BY <3>2, <3>3
  <2> QED
    BY <2>1, <2>2, <2>3, <2>4, <2>5 DEF LoopLeft, more
<1> QED
  BY <1>2, <1>3

LEMMA EnteredProperties ==
  ASSUME NEW chain \in Seq(Records), NEW records \in Seq(Records), NEW kind
  PROVE  LoopLeft(Entered(chain, records, kind), chain, records, kind, Len(records))
<1> DEFINE after == CHOOSE f : IsLoop(f, chain, records, kind, Len(records))
<1>0. Len(records) \in Nat /\ Len(chain) \in Nat
  BY LenProperties
<1>1. IsLoop(after, chain, records, kind, Len(records))
  BY LoopExists
<1>2. Entered(chain, records, kind) = after[Len(records)]
  BY DEF Entered, IsLoop, OneBehind
<1> HIDE DEF after
<1>3. after[0] = chain
  BY <1>0, <1>1 DEF IsLoop
<1>4. \A n \in Nat : n < Len(records) => after[n + 1] = OneBehind(after[n], records[n + 1], kind)
  BY <1>0, <1>1 DEF IsLoop
<1> DEFINE S == {n \in Nat : n <= Len(records) => LoopLeft(after[n], chain, records, kind, n)}
<1>5. 0 \in S
  BY <1>0, <1>3 DEF LoopLeft, Begins
<1>6. \A n \in S : n + 1 \in S
  BY <1>0, <1>4, LoopStep
<1>7. S = Nat
  <2> HIDE DEF S
  <2>1. S \subseteq Nat
    BY DEF S
  <2> QED
    BY <1>5, <1>6, <2>1, NatSet
<1> QED
  BY <1>0, <1>2, <1>7

----
(***************************************************************************)
(* The inductive invariant.  Beside the three properties: the calls of a   *)
(* function that still runs gave it no cause to fail, one that has made no *)
(* call has met nothing, and a buffered result keeps at most an error or a *)
(* warning of its own.                                                     *)
(***************************************************************************)
IsCause(e) == e.fatal /\ (e.warning => wrae /\ e.what \notin Ignorable)
HasCause == \E e \in ToSet(call.met) : IsCause(e)
HasHidden == \E e \in ToSet(call.met) : e.hidden

NoCauseYet == call.state \in {"running", "returned"} /\ MetReadable => ~HasCause
FailedForCause == call.state = "failed" => (HasCause \/ HasHidden) /\ (MetReadable => errors # <<>>)
MetInSteps == call.steps = 0 => call.met = <<>>
OfTheBuffer(last) == \A n \in DOMAIN last : last[n].what \in {"info", "error"}

ErrorsInv ==
  /\ TypeOK
  /\ NothingLost /\ NothingStale /\ NoCauseYet /\ FailedForCause
  /\ MetInSteps /\ OfTheBuffer(results.last)

LEMMA FailsForCauseFollows == ErrorsInv => FailsForCause
<1> SUFFICES ASSUME ErrorsInv PROVE FailsForCause
  OBVIOUS
<1>1. hdb_errors("errors") = errors
  BY ConcatEmptySeq DEF hdb_errors, ErrorsInv, TypeOK
<1> QED
  BY <1>1 DEF ErrorsInv, FailsForCause, NoCauseYet, FailedForCause, HasCause, HasHidden, IsCause

----
(* Records behind the places compared so far, in their order in both. *)
Placed(met, met2, chain, chain2, ns, ns2, off) ==
  \A n \in ns2 : IF n <= Len(met) THEN n \in ns
                 ELSE /\ Len(chain) + off + (n - Len(met)) \in 1 .. Len(chain2)
                      /\ chain2[Len(chain) + off + (n - Len(met))].what = met2[n].what

LEMMA InOrderGrows ==
  ASSUME NEW met \in Seq(MetRecords), NEW met2 \in Seq(MetRecords), Begins(met2, met),
         NEW chain \in Seq(Records), NEW chain2 \in Seq(Records), Begins(chain2, chain),
         NEW ns \in SUBSET (1 .. Len(met)), NEW ns2 \in SUBSET (1 .. Len(met2)),
         NEW off \in Nat,
         Placed(met, met2, chain, chain2, ns, ns2, off),
         InOrder(ns, met, chain)
  PROVE  InOrder(ns2, met2, chain2)
<1>1. PICK at \in [ns -> DOMAIN chain] :
        \A n \in ns : chain[at[n]].what = met[n].what /\ \A m \in ns : m < n => at[m] < at[n]
  BY DEF InOrder
<1>2. /\ DOMAIN chain = 1 .. Len(chain) /\ DOMAIN chain2 = 1 .. Len(chain2)
      /\ Len(met) \in Nat /\ Len(chain) \in Nat /\ Len(chain2) \in Nat /\ Len(met2) \in Nat
      /\ Len(met) <= Len(met2) /\ Len(chain) <= Len(chain2)
  BY LenProperties DEF Begins
<1> DEFINE at2 == [n \in ns2 |-> IF n <= Len(met) THEN at[n] ELSE Len(chain) + off + (n - Len(met))]
<1>3. \A n \in ns2 : n <= Len(met) => at2[n] = at[n] /\ n \in ns /\ at[n] \in 1 .. Len(chain)
  BY <1>2 DEF Placed
<1>4. \A n \in ns2 : ~(n <= Len(met)) => at2[n] = Len(chain) + off + (n - Len(met))
  OBVIOUS
<1>5. at2 \in [ns2 -> DOMAIN chain2]
  <2>1. ASSUME NEW n \in ns2 PROVE at2[n] \in 1 .. Len(chain2)
    BY <2>1, <1>2, <1>3, <1>4 DEF Placed
  <2> QED
    BY <2>1, <1>2
<1> HIDE DEF at2
<1>6. ASSUME NEW n \in ns2 PROVE chain2[at2[n]].what = met2[n].what
  <2>1. CASE n <= Len(met)
    <3>1. at2[n] = at[n] /\ n \in ns /\ at[n] \in 1 .. Len(chain)
      BY <2>1, <1>3
    <3>2. chain2[at[n]] = chain[at[n]] /\ met2[n] = met[n]
      BY <3>1 DEF Begins
    <3> QED
      BY <3>1, <3>2, <1>1
  <2>2. CASE ~(n <= Len(met))
    BY <2>2, <1>4 DEF Placed
  <2> QED
    BY <2>1, <2>2
<1>7. ASSUME NEW n \in ns2, NEW m \in ns2, m < n PROVE at2[m] < at2[n]
  <2>0. n \in Nat /\ m \in Nat
    BY <1>2
  <2>1. CASE n <= Len(met)
    <3>1. m <= Len(met)
      BY <2>0, <2>1, <1>2, <1>7
    <3> QED
      BY <2>1, <3>1, <1>1, <1>3, <1>7
  <2>2. CASE ~(n <= Len(met)) /\ m <= Len(met)
    BY <2>0, <2>2, <1>2, <1>3, <1>4
  <2>3. CASE ~(n <= Len(met)) /\ ~(m <= Len(met))
    BY <2>0, <2>3, <1>2, <1>4, <1>7
  <2> QED
    BY <2>1, <2>2, <2>3
<1> QED
  BY <1>5, <1>6, <1>7 DEF InOrder

----
(* What a call leaves is met behind what the calls before it left. *)
MetOf(e, warning, fatal, hidden) ==
  [what |-> e.what, warning |-> warning, fatal |-> fatal, hidden |-> hidden]

CallWith(left, warning, fatal, hidden, custom) ==
  [Met(left, warning, fatal, hidden) EXCEPT !.custom = custom]

MetBehind(met2, met, left, warning, fatal, hidden) ==
  /\ Len(met2) = Len(met) + Len(left) /\ Begins(met2, met)
  /\ \A k \in 1 .. Len(left) : met2[Len(met) + k] = MetOf(left[k], warning, fatal, hidden)

HasMet(c, left, warning, fatal, hidden, custom) ==
  /\ c \in Calls
  /\ c.state = call.state /\ c.steps = call.steps + 1 /\ c.custom = custom
  /\ MetBehind(c.met, call.met, left, warning, fatal, hidden)

LEMMA MetGrows ==
  ASSUME call \in Calls, NEW left \in Seq(Records),
         NEW warning \in BOOLEAN, NEW fatal \in BOOLEAN, NEW hidden \in BOOLEAN, NEW custom \in BOOLEAN
  PROVE  HasMet(CallWith(left, warning, fatal, hidden, custom), left, warning, fatal, hidden, custom)
<1> DEFINE c == CallWith(left, warning, fatal, hidden, custom)
<1> DEFINE new == [n \in DOMAIN left |-> MetOf(left[n], warning, fatal, hidden)]
           all == call.met \o new
<1>1. /\ call.state \in States /\ call.steps \in Nat /\ call.met \in Seq(MetRecords)
      /\ Len(call.met) \in Nat /\ Len(left) \in Nat /\ DOMAIN left = 1 .. Len(left)
  BY LenProperties DEF Calls
<1>2. \A n \in 1 .. Len(left) : MetOf(left[n], warning, fatal, hidden) \in MetRecords
  <2> TAKE n \in 1 .. Len(left)
  <2>1. left[n] \in Records
    BY ElementOfSeq
  <2> QED
    BY <2>1 DEF Records, MetRecords, MetOf
<1>3. new \in Seq(MetRecords) /\ Len(new) = Len(left)
  BY <1>1, <1>2
<1>4. c = [call EXCEPT !.steps = call.steps + 1, !.met = all, !.custom = custom]
  BY DEF CallWith, Met, MetOf, Calls
<1> HIDE DEF new, c
<1>5. /\ all \in Seq(MetRecords) /\ Len(all) = Len(call.met) + Len(new)
      /\ \A i \in 1 .. Len(call.met) + Len(new) :
           all[i] = IF i <= Len(call.met) THEN call.met[i] ELSE new[i - Len(call.met)]
  BY <1>1, <1>3, ConcatProperties
<1> HIDE DEF all
<1>6. call.steps + 1 \in Nat
  BY <1>1
<1>7. c \in Calls /\ c.state = call.state /\ c.steps = call.steps + 1 /\ c.custom = custom /\ c.met = all
  BY <1>4, <1>5, <1>6 DEF Calls
<1>8. \A k \in 1 .. Len(left) : all[Len(call.met) + k] = MetOf(left[k], warning, fatal, hidden)
  <2> TAKE k \in 1 .. Len(left)
  <2>1. Len(call.met) + k \in 1 .. Len(call.met) + Len(new) /\ ~(Len(call.met) + k <= Len(call.met))
        /\ Len(call.met) + k - Len(call.met) = k
    BY <1>1, <1>3
  <2>2. all[Len(call.met) + k] = new[k]
    BY <1>5, <2>1
  <2> QED
    BY <1>1, <2>2 DEF new
<1>9. Begins(all, call.met)
  <2>1. \A i \in 1 .. Len(call.met) : i \in 1 .. Len(call.met) + Len(new) /\ i <= Len(call.met)
    BY <1>1, <1>3
  <2>2. \A i \in 1 .. Len(call.met) : all[i] = call.met[i]
    BY <2>1, <1>5
  <2>3. Len(call.met) <= Len(all)
    BY <1>1, <1>3, <1>5
  <2> QED
    BY <2>2, <2>3 DEF Begins
<1> QED
  BY <1>3, <1>5, <1>7, <1>8, <1>9 DEF HasMet, MetBehind, c

----
(* What the handler does with the records it finds. *)
Behind(old, new, records, warning) ==
  /\ \A k \in 1 .. Len(records) : Reported(records[k].what, warning) =>
       \E i \in Len(old.errors) + 1 .. Len(new.errors) : new.errors[i] = records[k]
  /\ \A k \in 1 .. Len(records) : ~Reported(records[k].what, warning) =>
       \E i \in 1 .. Len(new.warnings) : new.warnings[i] = records[k]
  /\ \A i \in Len(old.errors) + 1 .. Len(new.errors) :
       \E k \in 1 .. Len(records) : new.errors[i] = records[k] /\ Reported(records[k].what, warning)
  /\ \A i \in Len(old.warnings) + 1 .. Len(new.warnings) :
       \E k \in 1 .. Len(records) : new.warnings[i] = records[k]
  /\ ~warning => /\ Len(new.errors) = Len(old.errors) + Len(records)
                 /\ \A k \in 1 .. Len(records) : new.errors[Len(old.errors) + k] = records[k]

Chains == [errors |-> errors, warnings |-> warnings]

Outcome(c, records, warning, fatal) ==
  /\ errors' \in Seq(Records) /\ warnings' \in Seq(Records)
  /\ Begins(errors', errors) /\ Begins(warnings', warnings)
  /\ call' \in Calls /\ call'.met = c.met /\ call'.custom = c.custom /\ call'.steps = c.steps
  /\ \/ Unreadable(records) # {} /\ call'.state = "crashed" /\ UNCHANGED <<errors, warnings>>
     \/ /\ Behind(Chains, Chains', records, warning)
        /\ call'.state = IF fatal /\ ~Ignored(errors', warning) THEN "failed" ELSE "running"

LEMMA HandlerOutcome ==
  ASSUME TypeOK, NEW records \in Seq(Records), NEW warning \in BOOLEAN, NEW fatal \in BOOLEAN,
         NEW c \in Calls, c.state = "running",
         handle_errors_and_warnings(records, warning, fatal, c)
  PROVE  Outcome(c, records, warning, fatal)
<1>0. errors \in Seq(Records) /\ warnings \in Seq(Records) /\ Len(errors) \in Nat /\ Len(warnings) \in Nat
  BY LenProperties DEF TypeOK
<1>1. CASE Unreadable(records) # {}
  <2>1. call' = [c EXCEPT !.state = "crashed"] /\ UNCHANGED <<errors, warnings>>
    BY <1>1 DEF handle_errors_and_warnings
  <2>2. /\ call' \in Calls /\ call'.met = c.met /\ call'.custom = c.custom /\ call'.steps = c.steps
        /\ call'.state = "crashed"
    BY <2>1 DEF Calls, States
  <2> QED
    BY <1>0, <1>1, <2>1, <2>2 DEF Begins, Outcome
<1>2. CASE Unreadable(records) = {}
  <2> DEFINE yes == {e \in ToSet(records) : Reported(e.what, warning)}
             no  == {e \in ToSet(records) : Kept(e.what, warning)}
  <2>1. /\ errors' = Entered(errors, records, yes) /\ warnings' = Entered(warnings, records, no)
        /\ call' = IF fatal /\ ~Ignored(errors', warning) THEN [c EXCEPT !.state = "failed"] ELSE c
    BY <1>2 DEF handle_errors_and_warnings
  <2>2. /\ LoopLeft(errors', errors, records, yes, Len(records))
        /\ LoopLeft(warnings', warnings, records, no, Len(records))
    BY <1>0, <2>1, EnteredProperties
  <2>3. /\ call' \in Calls /\ call'.met = c.met /\ call'.custom = c.custom /\ call'.steps = c.steps
        /\ call'.state = IF fatal /\ ~Ignored(errors', warning) THEN "failed" ELSE "running"
    <3>1. CASE fatal /\ ~Ignored(errors', warning)
      <4>1. call' = [c EXCEPT !.state = "failed"]
        BY <2>1, <3>1
      <4> QED
        BY <3>1, <4>1 DEF Calls, States
    <3>2. CASE ~(fatal /\ ~Ignored(errors', warning))
      <4>1. call' = c
        BY <2>1, <3>2
      <4> QED
        BY <3>2, <4>1
    <3> QED
      BY <3>1, <3>2
  <2>4. \A k \in 1 .. Len(records) : /\ records[k] \in yes <=> Reported(records[k].what, warning)
                                     /\ records[k] \in no <=> ~Reported(records[k].what, warning)
    BY LenProperties DEF ToSet, Kept
  <2>5. ~warning => \A k \in 1 .. Len(records) : records[k] \in yes
    <3> HIDE DEF yes, no
    <3>1. ~warning => \A k \in 1 .. Len(records) : Reported(records[k].what, warning)
      BY DEF Reported
    <3> QED
      BY <2>4, <3>1
  <2> HIDE DEF yes, no
  <2>6. Len(warnings) + 1 .. Len(warnings') \subseteq 1 .. Len(warnings')
    BY <1>0
  <2>7. Behind(Chains, Chains', records, warning)
    <3>1. Chains.errors = errors /\ Chains.warnings = warnings
          /\ Chains'.errors = errors' /\ Chains'.warnings = warnings'
      BY DEF Chains
    <3>2. \A k \in 1 .. Len(records) : Reported(records[k].what, warning) =>
            \E i \in Len(errors) + 1 .. Len(errors') : errors'[i] = records[k]
      BY <2>2, <2>4 DEF LoopLeft
    <3>3. \A k \in 1 .. Len(records) : ~Reported(records[k].what, warning) =>
            \E i \in 1 .. Len(warnings') : warnings'[i] = records[k]
      <4> TAKE k \in 1 .. Len(records)
      <4> HAVE ~Reported(records[k].what, warning)
      <4>1. PICK i \in Len(warnings) + 1 .. Len(warnings') : warnings'[i] = records[k]
        BY <2>2, <2>4 DEF LoopLeft
      <4> QED
        BY <4>1, <2>6
    <3>4. \A i \in Len(errors) + 1 .. Len(errors') :
            \E k \in 1 .. Len(records) : errors'[i] = records[k] /\ Reported(records[k].what, warning)
      BY <2>2, <2>4 DEF LoopLeft
    <3>5. \A i \in Len(warnings) + 1 .. Len(warnings') :
            \E k \in 1 .. Len(records) : warnings'[i] = records[k]
      BY <2>2 DEF LoopLeft
    <3>6. ~warning => /\ Len(errors') = Len(errors) + Len(records)
                      /\ \A k \in 1 .. Len(records) : errors'[Len(errors) + k] = records[k]
      BY <2>2, <2>5 DEF LoopLeft
    <3> QED
      BY <3>1, <3>2, <3>3, <3>4, <3>5, <3>6 DEF Behind
  <2> QED
    BY <2>2, <2>3, <2>7 DEF LoopLeft, Outcome
<1> QED
  BY <1>1, <1>2

----
LEMMA ToldOfBoth ==
  ASSUME NEW s \in Seq(Records), NEW t \in Seq(Records)
  PROVE  s \o <<>> = s /\ ToSet(s \o t) = ToSet(s) \cup ToSet(t)
<1>1. s \o <<>> = s
  BY ConcatEmptySeq
<1>2. /\ DOMAIN s = 1 .. Len(s) /\ DOMAIN t = 1 .. Len(t) /\ Len(s) \in Nat /\ Len(t) \in Nat
      /\ s \o t \in Seq(Records) /\ Len(s \o t) = Len(s) + Len(t) /\ DOMAIN (s \o t) = 1 .. Len(s) + Len(t)
      /\ \A i \in 1 .. Len(s) + Len(t) : (s \o t)[i] = IF i <= Len(s) THEN s[i] ELSE t[i - Len(s)]
  BY LenProperties, ConcatProperties
<1>3. ASSUME NEW e \in ToSet(s \o t) PROVE e \in ToSet(s) \cup ToSet(t)
  <2>1. PICK i \in 1 .. Len(s) + Len(t) : e = (s \o t)[i]
    BY <1>2, <1>3 DEF ToSet
  <2> QED
    BY <1>2, <2>1 DEF ToSet
<1>4. ASSUME NEW i \in 1 .. Len(s) PROVE s[i] \in ToSet(s \o t)
  <2>1. i \in 1 .. Len(s) + Len(t) /\ s[i] = (s \o t)[i]
    BY <1>2
  <2> QED
    BY <1>2, <2>1 DEF ToSet
<1>5. ASSUME NEW i \in 1 .. Len(t) PROVE t[i] \in ToSet(s \o t)
  <2>1. i + Len(s) \in 1 .. Len(s) + Len(t) /\ t[i] = (s \o t)[i + Len(s)]
    BY <1>2
  <2> QED
    BY <1>2, <2>1 DEF ToSet
<1>6. ToSet(s) \subseteq ToSet(s \o t) /\ ToSet(t) \subseteq ToSet(s \o t)
  BY <1>2, <1>4, <1>5 DEF ToSet
<1> QED
  BY <1>1, <1>3, <1>6

(* The records met after a call: those before, and what the call left. *)
LEMMA MetAfter ==
  ASSUME NEW met \in Seq(MetRecords), NEW met2 \in Seq(MetRecords), NEW left \in Seq(Records), left # <<>>,
         NEW warning, NEW fatal, NEW hidden,
         MetBehind(met2, met, left, warning, fatal, hidden)
  PROVE  /\ ToSet(met) \subseteq ToSet(met2)
         /\ \A k \in 1 .. Len(left) : MetOf(left[k], warning, fatal, hidden) \in ToSet(met2)
         /\ \A e \in ToSet(met2) : e \in ToSet(met)
                                   \/ \E k \in 1 .. Len(left) : e = MetOf(left[k], warning, fatal, hidden)
         /\ 1 \in 1 .. Len(left)
<1>0. /\ Len(met2) = Len(met) + Len(left) /\ Begins(met2, met)
      /\ \A k \in 1 .. Len(left) : met2[Len(met) + k] = MetOf(left[k], warning, fatal, hidden)
  BY DEF MetBehind
<1>1. /\ Len(met) \in Nat /\ Len(left) \in Nat /\ Len(met2) \in Nat /\ 1 \in 1 .. Len(left)
      /\ DOMAIN met = 1 .. Len(met) /\ DOMAIN met2 = 1 .. Len(met2)
  <2>1. Len(left) \in Nat \ {0}
    BY EmptySeq
  <2> QED
    BY <2>1, <1>0, LenProperties
<1>2. ToSet(met) \subseteq ToSet(met2)
  <2>1. \A i \in 1 .. Len(met) : i \in 1 .. Len(met2) /\ met[i] = met2[i]
    BY <1>0, <1>1 DEF Begins
  <2> QED
    BY <1>0, <1>1, <2>1 DEF ToSet
<1>3. \A k \in 1 .. Len(left) : MetOf(left[k], warning, fatal, hidden) \in ToSet(met2)
  <2> TAKE k \in 1 .. Len(left)
  <2>1. Len(met) + k \in 1 .. Len(met2)
    BY <1>0, <1>1
  <2> QED
    BY <1>0, <1>1, <2>1 DEF ToSet
<1>4. ASSUME NEW i \in 1 .. Len(met2)
      PROVE  met2[i] \in ToSet(met) \/ \E k \in 1 .. Len(left) : met2[i] = MetOf(left[k], warning, fatal, hidden)
  <2>1. CASE i <= Len(met)
    <3>1. i \in 1 .. Len(met) /\ met2[i] = met[i]
      BY <2>1, <1>0, <1>1 DEF Begins
    <3> QED
      BY <1>1, <3>1 DEF ToSet
  <2>2. CASE ~(i <= Len(met))
    <3>1. i - Len(met) \in 1 .. Len(left) /\ Len(met) + (i - Len(met)) = i
      BY <2>2, <1>0, <1>1
    <3> QED
      BY <1>0, <3>1
  <2> QED
    BY <2>1, <2>2
<1>5. \A e \in ToSet(met2) : \E i \in 1 .. Len(met2) : e = met2[i]
  BY <1>1 DEF ToSet
<1> QED
  BY <1>1, <1>2, <1>3, <1>4, <1>5

(***************************************************************************)
(* One call of the handler, under any of the macros.  The records that it  *)
(* reads are what the call has left, from place off + 1 on, unless a       *)
(* buffered result hides them; what is not fresh was brought along.        *)
(***************************************************************************)
ReadsWhatIsLeft(records, left, off, hidden) ==
  /\ Unreadable(left) = {} /\ ~hidden =>
       \A k \in 1 .. Len(left) : off + k \in 1 .. Len(records) /\ records[off + k].what = left[k].what
BringsNothing(records, hidden, custom) ==
  /\ call.custom => custom
  /\ \A k \in 1 .. Len(records) : records[k].fresh \/ custom \/ hidden
FailsForThose(records, left, warning, fatal, hidden) ==
  /\ warning \/ fatal
  /\ hidden => records # <<>> /\ (warning => OfTheBuffer(records))
  /\ warning /\ ~hidden =>
       \/ \E k \in 1 .. Len(left) : left[k].what = "no name"
       \/ \A k \in 1 .. Len(records) : \E j \in 1 .. Len(left) : records[k].what = left[j].what

(* A record that was not in a chain before stands behind those that were.   *)
LEMMA BehindTheOld ==
  ASSUME NEW new, NEW old, Begins(new, old), DOMAIN old = 1 .. Len(old), Len(old) \in Nat,
         Len(new) \in Nat, NEW i \in 1 .. Len(new), new[i] \notin ToSet(old)
  PROVE  i \in Len(old) + 1 .. Len(new)
<1>1. ASSUME i \in 1 .. Len(old) PROVE FALSE
  <2>1. new[i] = old[i]
    BY <1>1 DEF Begins
  <2> QED
    BY <1>1, <2>1 DEF ToSet
<1> QED
  BY <1>1

LEMMA HandlerKeeps ==
  ASSUME ErrorsInv, call.state = "running", wrae' = wrae,
         diag' \in [{"conn", "stmt"} -> Seq(Records)], results' \in ResultSets, OfTheBuffer(results'.last),
         NEW records \in Seq(Records), NEW left \in Seq(Records), left # <<>>,
         NEW warning \in BOOLEAN, NEW fatal \in BOOLEAN, NEW hidden \in BOOLEAN, NEW custom \in BOOLEAN,
         NEW off \in Nat,
         ReadsWhatIsLeft(records, left, off, hidden), BringsNothing(records, hidden, custom),
         FailsForThose(records, left, warning, fatal, hidden),
         handle_errors_and_warnings(records, warning, fatal,
                                    CallWith(left, warning, fatal, hidden, custom))
  PROVE  ErrorsInv'
<1>0. TypeOK /\ call \in Calls /\ wrae \in BOOLEAN /\ errors \in Seq(Records) /\ warnings \in Seq(Records)
  BY DEF ErrorsInv, TypeOK
<1>1. call.met \in Seq(MetRecords) /\ call.steps \in Nat
  BY <1>0 DEF Calls
<1> DEFINE c == CallWith(left, warning, fatal, hidden, custom)
<1>2. HasMet(c, left, warning, fatal, hidden, custom)
  BY <1>0, MetGrows
<1> HIDE DEF c
<1>2a. /\ c \in Calls /\ c.state = "running" /\ c.steps = call.steps + 1 /\ c.custom = custom
       /\ c.met \in Seq(MetRecords) /\ MetBehind(c.met, call.met, left, warning, fatal, hidden)
  BY <1>2 DEF HasMet, Calls
<1>2b. Outcome(c, records, warning, fatal)
  BY <1>0, <1>2a, HandlerOutcome DEF c
<1>3. /\ errors' \in Seq(Records) /\ warnings' \in Seq(Records)
      /\ Begins(errors', errors) /\ Begins(warnings', warnings)
      /\ call' \in Calls /\ call'.met = c.met /\ call'.custom = custom /\ call'.steps = call.steps + 1
  BY <1>2a, <1>2b DEF Outcome
<1>3a. \/ Unreadable(records) # {} /\ call'.state = "crashed" /\ UNCHANGED <<errors, warnings>>
       \/ /\ Behind(Chains, Chains', records, warning)
          /\ call'.state = IF fatal /\ ~Ignored(errors', warning) THEN "failed" ELSE "running"
  BY <1>2b DEF Outcome
<1>4. /\ ToSet(call.met) \subseteq ToSet(call'.met)
      /\ \A k \in 1 .. Len(left) : MetOf(left[k], warning, fatal, hidden) \in ToSet(call'.met)
      /\ \A e \in ToSet(call'.met) : e \in ToSet(call.met)
                                    \/ \E k \in 1 .. Len(left) : e = MetOf(left[k], warning, fatal, hidden)
      /\ 1 \in 1 .. Len(left)
  <2>1. MetBehind(call'.met, call.met, left, warning, fatal, hidden) /\ call'.met \in Seq(MetRecords)
    BY <1>2a, <1>3
  <2> QED
    BY <1>1, <2>1, MetAfter, Zenon
<1>5. Chains.errors = errors /\ Chains.warnings = warnings /\ Chains'.errors = errors' /\ Chains'.warnings = warnings'
  BY DEF Chains
<1>6. /\ hdb_errors("errors") = errors /\ hdb_errors("errors")' = errors'
      /\ ToSet(hdb_errors("all")) = ToSet(errors) \cup ToSet(warnings)
      /\ ToSet(hdb_errors("all")') = ToSet(errors') \cup ToSet(warnings')
  <2>1. /\ hdb_errors("errors") = errors \o <<>> /\ hdb_errors("errors")' = errors' \o <<>>
        /\ hdb_errors("all") = errors \o warnings /\ hdb_errors("all")' = errors' \o warnings'
    BY DEF hdb_errors
  <2> QED
    BY <1>0, <1>3, <2>1, ToldOfBoth, Zenon
<1>7. /\ ToSet(errors) \subseteq ToSet(errors') /\ ToSet(warnings) \subseteq ToSet(warnings')
      /\ \A n \in 1 .. Len(left) : MetOf(left[n], warning, fatal, hidden).what = left[n].what
      /\ DOMAIN errors = 1 .. Len(errors) /\ DOMAIN errors' = 1 .. Len(errors')
      /\ DOMAIN warnings = 1 .. Len(warnings) /\ DOMAIN warnings' = 1 .. Len(warnings')
      /\ Len(errors) \in Nat /\ Len(errors') \in Nat /\ Len(warnings) \in Nat /\ Len(warnings') \in Nat
      /\ Len(records) \in Nat /\ DOMAIN records = 1 .. Len(records)
  <2>1. /\ DOMAIN errors = 1 .. Len(errors) /\ DOMAIN errors' = 1 .. Len(errors')
        /\ DOMAIN warnings = 1 .. Len(warnings) /\ DOMAIN warnings' = 1 .. Len(warnings')
        /\ Len(errors) \in Nat /\ Len(errors') \in Nat /\ Len(warnings) \in Nat /\ Len(warnings') \in Nat
        /\ Len(records) \in Nat /\ DOMAIN records = 1 .. Len(records)
    <3>1. errors \in Seq(Records) /\ errors' \in Seq(Records) /\ warnings \in Seq(Records) /\ warnings' \in Seq(Records)
      BY <1>0, <1>3
    <3> QED
      BY ONLY <3>1, records \in Seq(Records), LenProperties
  <2>2. /\ \A i \in 1 .. Len(errors) : i \in 1 .. Len(errors') /\ errors'[i] = errors[i]
        /\ \A i \in 1 .. Len(warnings) : i \in 1 .. Len(warnings') /\ warnings'[i] = warnings[i]
    BY <1>3, <2>1 DEF Begins
  <2>3. ToSet(errors) \subseteq ToSet(errors') /\ ToSet(warnings) \subseteq ToSet(warnings')
    BY <2>1, <2>2 DEF ToSet
  <2> QED
    BY <2>1, <2>3 DEF MetOf
<1>8. MetReadable' => MetReadable /\ Unreadable(left) = {} /\ Behind(Chains, Chains', records, warning)
  <2> SUFFICES ASSUME MetReadable' PROVE MetReadable /\ Unreadable(left) = {} /\ Behind(Chains, Chains', records, warning)
    OBVIOUS
  <2>1. call'.state # "crashed" /\ \A e \in ToSet(call'.met) : e.what # "unreadable"
    BY DEF MetReadable
  <2>2. MetReadable
    BY <2>1, <1>4 DEF MetReadable
  <2>3. Unreadable(left) = {}
    BY <2>1, <1>4, <1>7, LenProperties DEF Unreadable
  <2> QED
    BY <2>1, <2>2, <2>3, <1>3a
<1>9. NothingStale'
  <2> SUFFICES ASSUME NEW e \in ToSet(errors') \cup ToSet(warnings')
               PROVE  e.fresh \/ call'.custom \/ \E m \in ToSet(call'.met) : m.hidden
    BY <1>6 DEF NothingStale
  <2>1. CASE e \in ToSet(errors) \cup ToSet(warnings)
    <3>1. e.fresh \/ call.custom \/ \E m \in ToSet(call.met) : m.hidden
      BY <2>1, <1>6 DEF ErrorsInv, NothingStale
    <3> QED
      BY <3>1, <1>2, <1>3, <1>4 DEF BringsNothing
  <2>2. CASE e \notin ToSet(errors) \cup ToSet(warnings)
    <3>1. \E k \in 1 .. Len(records) : e = records[k]
      <4>1. Behind(Chains, Chains', records, warning)
        BY <2>2, <1>3a
      <4>2. /\ \A i \in Len(errors) + 1 .. Len(errors') : \E k \in 1 .. Len(records) : errors'[i] = records[k]
            /\ \A i \in Len(warnings) + 1 .. Len(warnings') : \E k \in 1 .. Len(records) : warnings'[i] = records[k]
        BY <4>1, <1>5, Zenon DEF Behind
      <4>3. CASE e \in ToSet(errors')
        <5>1. PICK i \in 1 .. Len(errors') : e = errors'[i]
          BY <4>3, <1>7 DEF ToSet
        <5>2. errors'[i] \notin ToSet(errors)
          BY <5>1, <2>2
        <5>3. i \in Len(errors) + 1 .. Len(errors')
          BY <5>2, <1>3, <1>7, BehindTheOld
        <5> QED
          BY <4>2, <5>1, <5>3
      <4>4. CASE e \in ToSet(warnings')
        <5>1. PICK i \in 1 .. Len(warnings') : e = warnings'[i]
          BY <4>4, <1>7 DEF ToSet
        <5>2. warnings'[i] \notin ToSet(warnings)
          BY <5>1, <2>2
        <5>3. i \in Len(warnings) + 1 .. Len(warnings')
          BY <5>2, <1>3, <1>7, BehindTheOld
        <5> QED
          BY <4>2, <5>1, <5>3
      <4> QED
        BY <4>3, <4>4
    <3>2. e.fresh \/ custom \/ hidden
      BY <3>1 DEF BringsNothing
    <3>3. hidden => \E m \in ToSet(call'.met) : m.hidden
      <4>1. MetOf(left[1], warning, fatal, hidden).hidden = hidden
        BY DEF MetOf
      <4> QED
        BY <4>1, <1>4
    <3> QED
      BY <3>2, <3>3, <1>2, <1>3
  <2> QED
    BY <2>1, <2>2
<1>10. /\ Len(call.met) \in Nat /\ Len(left) \in Nat /\ Len(call'.met) = Len(call.met) + Len(left)
       /\ DOMAIN call.met = 1 .. Len(call.met) /\ DOMAIN call'.met = 1 .. Len(call'.met)
       /\ Begins(call'.met, call.met) /\ call'.met \in Seq(MetRecords)
       /\ \A k \in 1 .. Len(left) : call'.met[Len(call.met) + k] = MetOf(left[k], warning, fatal, hidden)
  <2>1. call'.met \in Seq(MetRecords) /\ MetBehind(call'.met, call.met, left, warning, fatal, hidden)
    BY <1>2a, <1>3
  <2>2. /\ Len(call.met) \in Nat /\ Len(left) \in Nat
        /\ DOMAIN call.met = 1 .. Len(call.met) /\ DOMAIN call'.met = 1 .. Len(call'.met)
    BY ONLY <1>1, <2>1, left \in Seq(Records), LenProperties
  <2> QED
    BY <2>1, <2>2 DEF MetBehind
<1>11. /\ MetOf(left[1], warning, fatal, hidden).hidden = hidden
       /\ \A k \in 1 .. Len(left) : /\ MetOf(left[k], warning, fatal, hidden).what = left[k].what
                                   /\ MetOf(left[k], warning, fatal, hidden).hidden = hidden
                                   /\ MetOf(left[k], warning, fatal, hidden).warning = warning
                                   /\ MetOf(left[k], warning, fatal, hidden).fatal = fatal
  BY DEF MetOf
<1>12. ASSUME NEW k \in 1 .. Len(left), Unreadable(left) = {}, ~hidden
       PROVE  /\ off + k \in 1 .. Len(records) /\ records[off + k].what = left[k].what
  BY <1>12 DEF ReadsWhatIsLeft
<1>13. NothingLost'
  <2> DEFINE shown == {n \in DOMAIN call.met : ~call.met[n].hidden}
             ns == {n \in shown : ~call.met[n].warning}
             shown2 == {n \in DOMAIN call'.met : ~call'.met[n].hidden}
             ns2 == {n \in shown2 : ~call'.met[n].warning}
  <2> SUFFICES ASSUME MetReadable'
               PROVE  /\ InOrder(ns2, call'.met, errors')
                      /\ \A n \in shown2 : \E e \in ToSet(errors') \cup ToSet(warnings') : e.what = call'.met[n].what
    BY <1>6, Zenon DEF NothingLost
  <2>1. MetReadable /\ Unreadable(left) = {} /\ Behind(Chains, Chains', records, warning)
    BY <1>8
  <2>2. /\ InOrder(ns, call.met, errors)
        /\ \A n \in shown : \E e \in ToSet(errors) \cup ToSet(warnings) : e.what = call.met[n].what
    BY <2>1, <1>6, Zenon DEF ErrorsInv, NothingLost
  <2>3. \A n \in 1 .. Len(call'.met) : IF n <= Len(call.met) THEN n \in 1 .. Len(call.met) /\ call'.met[n] = call.met[n]
                                       ELSE /\ n - Len(call.met) \in 1 .. Len(left)
                                            /\ call'.met[n] = MetOf(left[n - Len(call.met)], warning, fatal, hidden)
    <3> TAKE n \in 1 .. Len(call'.met)
    <3>1. CASE n <= Len(call.met)
      <4>1. n \in 1 .. Len(call.met)
        BY <3>1, <1>10
      <4> QED
        BY <3>1, <4>1, <1>10 DEF Begins
    <3>2. CASE ~(n <= Len(call.met))
      <4>1. n - Len(call.met) \in 1 .. Len(left) /\ Len(call.met) + (n - Len(call.met)) = n
        BY <3>2, <1>10
      <4> QED
        BY <3>2, <4>1, <1>10
    <3> QED
      BY <3>1, <3>2
  <2>4. ASSUME ~warning
        PROVE  /\ Len(errors') = Len(errors) + Len(records)
               /\ \A k \in 1 .. Len(records) : errors'[Len(errors) + k] = records[k]
    BY <2>1, <2>4, <1>5, Zenon DEF Behind
  <2>5. ASSUME NEW n \in ns2
        PROVE  IF n <= Len(call.met) THEN n \in ns
               ELSE /\ Len(errors) + off + (n - Len(call.met)) \in 1 .. Len(errors')
                    /\ errors'[Len(errors) + off + (n - Len(call.met))].what = call'.met[n].what
    <3>1. n \in 1 .. Len(call'.met) /\ ~call'.met[n].hidden /\ ~call'.met[n].warning
      BY <2>5, <1>10
    <3>2. CASE n <= Len(call.met)
      BY <3>1, <3>2, <2>3, <1>10
    <3>3. CASE ~(n <= Len(call.met))
      <4> DEFINE k == n - Len(call.met)
      <4>1. k \in 1 .. Len(left) /\ call'.met[n] = MetOf(left[k], warning, fatal, hidden)
        BY <3>1, <3>3, <2>3
      <4>2. ~hidden /\ ~warning /\ call'.met[n].what = left[k].what
        BY <3>1, <4>1, <1>11, Zenon
      <4>3. off + k \in 1 .. Len(records) /\ records[off + k].what = left[k].what
        BY <4>1, <4>2, <2>1, <1>12, Zenon
      <4>4. /\ Len(errors') = Len(errors) + Len(records)
            /\ errors'[Len(errors) + (off + k)] = records[off + k]
        BY <4>2, <4>3, <2>4, Zenon
      <4> HIDE DEF k
      <4>5. Len(errors) + (off + k) = Len(errors) + off + k /\ Len(errors) + off + k \in 1 .. Len(errors')
        BY <4>1, <4>3, <4>4, <1>7
      <4>6. Len(errors) + off + k \in 1 .. Len(errors') /\ errors'[Len(errors) + off + k].what = call'.met[n].what
        BY <4>2, <4>3, <4>4, <4>5
      <4> QED
        BY <3>3, <4>6 DEF k
    <3> QED
      BY <3>2, <3>3
  <2>6. ns \in SUBSET (1 .. Len(call.met)) /\ ns2 \in SUBSET (1 .. Len(call'.met))
    BY <1>10
  <2>7. InOrder(ns2, call'.met, errors')
    <3>1. Placed(call.met, call'.met, errors, errors', ns, ns2, off)
      BY <2>5, Zenon DEF Placed
    <3> HIDE DEF ns, ns2
    <3> QED
      BY ONLY <2>2, <3>1, <2>6, <1>0, <1>1, <1>3, <1>10, off \in Nat, InOrderGrows
  <2>8. ASSUME NEW n \in shown2
        PROVE  \E e \in ToSet(errors') \cup ToSet(warnings') : e.what = call'.met[n].what
    <3>1. n \in 1 .. Len(call'.met) /\ ~call'.met[n].hidden
      BY <2>8, <1>10
    <3>2. CASE n <= Len(call.met)
      <4>1. call'.met[n] = call.met[n] /\ n \in shown
        BY <3>1, <3>2, <2>3, <1>10
      <4>2. PICK e \in ToSet(errors) \cup ToSet(warnings) : e.what = call.met[n].what
        BY <4>1, <2>2
      <4> QED
        BY <4>1, <4>2, <1>7
    <3>3. CASE ~(n <= Len(call.met))
      <4> DEFINE k == n - Len(call.met)
      <4>1. k \in 1 .. Len(left) /\ call'.met[n] = MetOf(left[k], warning, fatal, hidden)
        BY <3>1, <3>3, <2>3
      <4>2. ~hidden /\ call'.met[n].what = left[k].what
        BY <3>1, <4>1, <1>11, Zenon
      <4>3. off + k \in 1 .. Len(records) /\ records[off + k].what = left[k].what
        BY <4>1, <4>2, <2>1, <1>12, Zenon
      <4> HIDE DEF k
      <4>4. \/ \E i \in Len(errors) + 1 .. Len(errors') : errors'[i] = records[off + k]
            \/ \E i \in 1 .. Len(warnings') : warnings'[i] = records[off + k]
        BY <2>1, <4>3, <1>5, Zenon DEF Behind
      <4>5. records[off + k] \in ToSet(errors') \cup ToSet(warnings')
        <5>1. Len(errors) + 1 .. Len(errors') \subseteq 1 .. Len(errors')
          BY <1>7
        <5>2. /\ \A i \in 1 .. Len(errors') : errors'[i] \in ToSet(errors')
              /\ \A i \in 1 .. Len(warnings') : warnings'[i] \in ToSet(warnings')
          BY <1>7 DEF ToSet
        <5> QED
          BY <4>4, <5>1, <5>2
      <4> QED
        BY <4>2, <4>3, <4>5
    <3> QED
      BY <3>2, <3>3
  <2> QED
    BY <2>7, <2>8
<1>14. /\ HasCause' <=> \E e \in ToSet(call'.met) : IsCause(e)
       /\ HasHidden' <=> \E e \in ToSet(call'.met) : e.hidden
       /\ \A k \in 1 .. Len(left) : IsCause(MetOf(left[k], warning, fatal, hidden))
                                   <=> fatal /\ (warning => wrae /\ left[k].what \notin Ignorable)
  <2>1. HasCause' <=> \E e \in ToSet(call'.met) : IsCause(e)
    BY Zenon DEF HasCause, IsCause
  <2>2. HasHidden' <=> \E e \in ToSet(call'.met) : e.hidden
    BY Zenon DEF HasHidden
  <2>3. \A k \in 1 .. Len(left) : IsCause(MetOf(left[k], warning, fatal, hidden))
                                   <=> fatal /\ (warning => wrae /\ left[k].what \notin Ignorable)
    BY <1>11, Zenon DEF IsCause
  <2> QED
    BY <2>1, <2>2, <2>3
<1>15. /\ Ignored(errors', warning) <=> warning /\ (~wrae \/ Len(errors') = Len(errors))
       /\ \A what : Reported(what, warning) <=> ~warning \/ (wrae /\ what \notin Ignorable)
  BY Zenon DEF Ignored, Reported
<1>16. "info" \notin Ignorable /\ "error" \notin Ignorable /\ "no name" \notin Ignorable
  BY RecordsAssumption
<1>17. /\ Len(errors) <= Len(errors') /\ Len(errors) \in Nat /\ Len(errors') \in Nat
       /\ Len(errors') # 0 => errors' # <<>>
  BY <1>3, <1>7 DEF Begins
<1>18. FailedForCause'
  <2> SUFFICES ASSUME call'.state = "failed"
               PROVE  (HasCause' \/ HasHidden') /\ (MetReadable' => errors' # <<>>)
    BY Zenon DEF FailedForCause
  <2>1. Behind(Chains, Chains', records, warning) /\ fatal /\ ~Ignored(errors', warning)
    BY <1>3a
  <2>2. CASE ~warning
    <3>1. Len(errors') = Len(errors) + Len(records)
      BY <2>1, <2>2, <1>5, Zenon DEF Behind
    <3>2. MetReadable' => records # <<>>
      <4>1. CASE hidden
        BY <4>1 DEF FailsForThose
      <4>2. CASE ~hidden
        <5>1. MetReadable' => off + 1 \in 1 .. Len(records)
          BY <4>2, <1>4, <1>8, <1>12, Zenon
        <5> QED
          BY <5>1, <1>7
      <4> QED
        BY <4>1, <4>2
    <3>3. MetReadable' => errors' # <<>>
      <4>1. records # <<>> => Len(records) # 0
        BY EmptySeq
      <4>2. records # <<>> => Len(errors') # 0
        BY <4>1, <3>1, <1>7
      <4> QED
        BY <3>2, <4>2, <1>17
    <3>4. HasCause'
      BY <2>1, <2>2, <1>4, <1>14, Zenon
    <3> QED
      BY <3>3, <3>4
  <2>3. CASE warning
    <3>1. wrae /\ Len(errors') # Len(errors)
      BY <2>1, <2>3, <1>15, Zenon
    <3>2. errors' # <<>> /\ Len(errors') \in Len(errors) + 1 .. Len(errors')
      <4>1. Len(errors') # Len(errors)
        BY <3>1
      <4> QED
        BY ONLY <4>1, <1>17
    <3>3. CASE hidden
      BY <3>2, <3>3, <1>4, <1>11, <1>14, Zenon
    <3>4. CASE ~hidden
      <4>1. PICK k \in 1 .. Len(records) : Reported(records[k].what, warning)
        BY <3>2, <2>1, <1>5, Zenon DEF Behind
      <4>2. records[k].what \notin Ignorable
        BY <4>1, <2>3, <1>15, Zenon
      <4>3. \E j \in 1 .. Len(left) : left[j].what \notin Ignorable
        BY <2>3, <3>4, <4>2, <1>16 DEF FailsForThose
      <4>4. HasCause'
        BY <2>1, <3>1, <4>3, <1>4, <1>14, Zenon
      <4> QED
        BY <3>2, <4>4
    <3> QED
      BY <3>3, <3>4
  <2> QED
    BY <2>2, <2>3
<1>19. NoCauseYet'
  <2> SUFFICES ASSUME call'.state \in {"running", "returned"}, MetReadable', HasCause'
               PROVE  FALSE
    BY Zenon DEF NoCauseYet
  <2>1. MetReadable /\ Unreadable(left) = {} /\ Behind(Chains, Chains', records, warning)
    BY <1>8
  <2>2. ~HasCause
    BY <2>1 DEF ErrorsInv, NoCauseYet
  <2>3. PICK k \in 1 .. Len(left) : fatal /\ (warning => wrae /\ left[k].what \notin Ignorable)
    BY <2>2, <1>4, <1>14, Zenon DEF HasCause
  <2>4. Ignored(errors', warning)
    BY <2>3, <1>3a
  <2>5. warning /\ wrae /\ left[k].what \notin Ignorable /\ Len(errors') = Len(errors)
    BY <2>3, <2>4, <1>15, Zenon
  <2>6. \A r \in 1 .. Len(records) : records[r].what \in Ignorable
    <3> SUFFICES ASSUME NEW r \in 1 .. Len(records), records[r].what \notin Ignorable PROVE FALSE
      OBVIOUS
    <3>1. Reported(records[r].what, warning)
      BY <2>5, <1>15, Zenon
    <3>2. \E i \in Len(errors) + 1 .. Len(errors') : errors'[i] = records[r]
      BY <2>1, <3>1, <1>5, Zenon DEF Behind
    <3> QED
      BY <2>5, <3>2, <1>7
  <2>7. CASE hidden
    <3>1. records # <<>> /\ OfTheBuffer(records)
      BY <2>5, <2>7 DEF FailsForThose
    <3>2. Len(records) # 0
      BY <3>1, EmptySeq
    <3>3. 1 \in 1 .. Len(records)
      BY <3>2, <1>7
    <3> QED
      BY <3>1, <3>3, <2>6, <1>7, <1>16 DEF OfTheBuffer
  <2>8. CASE ~hidden
    BY <2>1, <2>5, <2>6, <2>8, <1>12
  <2> QED
    BY <2>7, <2>8
<1>20. MetInSteps'
  <2>1. call'.steps # 0
    BY <1>1, <1>3
  <2> QED
    BY <2>1 DEF MetInSteps
<1>21. TypeOK'
  BY <1>0, <1>3 DEF TypeOK
<1>22. OfTheBuffer(results.last)'
  BY DEF OfTheBuffer
<1> QED
  BY <1>9, <1>13, <1>18, <1>19, <1>20, <1>21, <1>22 DEF ErrorsInv

----
(* The records that a call has left and those that the handler finds. *)
LEMMA FreshProperties ==
  ASSUME NEW left \in Seq(Whats)
  PROVE  /\ Fresh(left) \in Seq(Records) /\ Len(Fresh(left)) = Len(left)
         /\ \A n \in 1 .. Len(left) : Fresh(left)[n].what = left[n] /\ Fresh(left)[n].fresh
         /\ left # <<>> => Fresh(left) # <<>>
<1>1. Len(left) \in Nat /\ DOMAIN left = 1 .. Len(left)
  BY LenProperties
<1>2. \A n \in 1 .. Len(left) : [what |-> left[n], fresh |-> TRUE] \in Records
  BY <1>1, ElementOfSeq DEF Records
<1>3. Fresh(left) \in Seq(Records) /\ Len(Fresh(left)) = Len(left)
  BY <1>1, <1>2 DEF Fresh
<1>4. \A n \in 1 .. Len(left) : Fresh(left)[n] = [what |-> left[n], fresh |-> TRUE]
  BY <1>1 DEF Fresh
<1>5. \A n \in 1 .. Len(left) : Fresh(left)[n].what = left[n] /\ Fresh(left)[n].fresh
  <2>1. \A what : [what |-> what, fresh |-> TRUE].what = what /\ [what |-> what, fresh |-> TRUE].fresh
    OBVIOUS
  <2> QED
    BY <1>4, <2>1, Zenon
<1>6. left # <<>> => Fresh(left) # <<>>
  <2>1. left # <<>> => Len(left) # 0
    BY EmptySeq
  <2>2. Len(Fresh(left)) # 0 => Fresh(left) # <<>>
    BY <1>3, EmptySeq
  <2> QED
    BY <1>3, <2>1, <2>2
<1> QED
  BY <1>3, <1>5, <1>6, Zenon

LEMMA AgedProperties ==
  ASSUME NEW records \in Seq(Records)
  PROVE  /\ Aged(records) \in Seq(Records) /\ DOMAIN Aged(records) = DOMAIN records
         /\ \A n \in DOMAIN records : Aged(records)[n].what = records[n].what
<1>1. Len(records) \in Nat /\ DOMAIN records = 1 .. Len(records)
  BY LenProperties
<1>2. \A n \in 1 .. Len(records) : records[n] \in Records
  BY ElementOfSeq
<1>3. \A n \in 1 .. Len(records) : /\ [records[n] EXCEPT !.fresh = FALSE] \in Records
                                  /\ [records[n] EXCEPT !.fresh = FALSE].what = records[n].what
  <2>1. \A r \in Records : [r EXCEPT !.fresh = FALSE] \in Records /\ [r EXCEPT !.fresh = FALSE].what = r.what
    BY DEF Records
  <2> HIDE DEF Records
  <2> QED
    BY <1>2, <2>1
<1>4. Aged(records) = [n \in 1 .. Len(records) |-> [records[n] EXCEPT !.fresh = FALSE]]
  BY <1>1 DEF Aged
<1>5. Aged(records) \in Seq(Records) /\ DOMAIN Aged(records) = 1 .. Len(records)
  BY <1>1, <1>3, <1>4
<1> QED
  BY <1>1, <1>3, <1>4, <1>5

HidesIn(ctx, res) == ctx = "stmt" /\ res.kind # None /\ res.last # <<>>

LEMMA RecordsFound ==
  ASSUME NEW ctx \in Contexts, NEW d \in [{"conn", "stmt"} -> Seq(Records)], NEW res \in ResultSets
  PROVE  /\ core_hdb_get_odbc_error(ctx, d, res) \in Seq(Records)
         /\ HidesIn(ctx, res) => core_hdb_get_odbc_error(ctx, d, res) = res.last
         /\ ctx # "none" /\ ~HidesIn(ctx, res) => Begins(d[ctx], core_hdb_get_odbc_error(ctx, d, res))
         /\ ctx # "none" /\ ~HidesIn(ctx, res) /\ Unreadable(d[ctx]) = {} =>
              core_hdb_get_odbc_error(ctx, d, res) = d[ctx]
<1> DEFINE found == core_hdb_get_odbc_error(ctx, d, res)
<1>1. res.last \in Seq(Records) /\ <<>> \in Seq(Records)
  BY DEF ResultSets
<1>2. CASE ctx = "none"
  <2>1. found = <<>>
    BY <1>2 DEF core_hdb_get_odbc_error
  <2> HIDE DEF found
  <2>2. found \in Seq(Records) /\ ~HidesIn(ctx, res)
    BY <2>1, <1>1, <1>2 DEF HidesIn
  <2> QED
    BY <2>2, <1>2 DEF found
<1>3. CASE ctx # "none"
  <2>1. d[ctx] \in Seq(Records)
    BY <1>3 DEF Contexts
  <2> DEFINE records == d[ctx]
  <2>2. Begins(records, records)
    BY <2>1, LenProperties DEF Begins
  <2>3. CASE ctx = "stmt" /\ res.kind # None
    <3>1. found = IF res.last # <<>> THEN res.last ELSE Readable(records)
      BY <2>3, <1>3 DEF core_hdb_get_odbc_error, get_diag_rec
    <3>2. Unreadable(records) = {} => Readable(records) = records
      BY DEF Readable
    <3>3. Readable(records) \in Seq(Records) /\ Begins(records, Readable(records))
      <4> HIDE DEF records
      <4>1. CASE Unreadable(records) = {}
        BY <2>1, <2>2, <3>2, <4>1 DEF records
      <4>2. CASE Unreadable(records) # {}
        <5> DEFINE m == Min(Unreadable(records))
        <5>0. records \in Seq(Records) /\ Len(records) \in Nat /\ DOMAIN records = 1 .. Len(records)
          BY <2>1, LenProperties DEF records
        <5>1. Unreadable(records) \subseteq 1 .. Len(records)
          BY <5>0 DEF Unreadable
        <5>2. m \in Unreadable(records)
          BY <5>0, <5>1, <4>2, MinOfNats
        <5>3. m - 1 \in 0 .. Len(records) - 1 /\ Readable(records) = SubSeq(records, 1, m - 1)
          BY <5>0, <5>1, <5>2, <4>2 DEF Readable
        <5> HIDE DEF m
        <5> DEFINE short == SubSeq(records, 1, m - 1)
        <5>4. \A i \in 1 .. m - 1 : records[i] \in Records
          BY <5>0, <5>3, ElementOfSeq
        <5>5. 1 \in Int /\ m - 1 \in Int /\ m - 1 - 1 + 1 = m - 1
          BY <5>0, <5>3
        <5>6. /\ short \in Seq(Records)
              /\ Len(short) = IF 1 <= m - 1 THEN m - 1 - 1 + 1 ELSE 0
              /\ \A i \in 1 .. m - 1 - 1 + 1 : short[i] = records[1 + i - 1]
          BY <5>4, <5>5, SubSeqProperties
        <5> HIDE DEF short
        <5>7. Len(short) = m - 1 /\ \A i \in 1 .. m - 1 : short[i] = records[i]
          BY <5>3, <5>5, <5>6
        <5>8. Begins(records, short)
          BY <5>0, <5>3, <5>7 DEF Begins
        <5> QED
          BY <5>3, <5>6, <5>8 DEF short
      <4> QED
        BY <4>1, <4>2
    <3> HIDE DEF found
    <3>4. HidesIn(ctx, res) <=> res.last # <<>>
      BY <2>3 DEF HidesIn
    <3> QED
      BY <3>1, <3>2, <3>3, <3>4, <1>1 DEF found
  <2>4. CASE ~(ctx = "stmt" /\ res.kind # None)
    <3>1. found = records
      BY <2>4, <1>3 DEF core_hdb_get_odbc_error
    <3>2. ~HidesIn(ctx, res)
      BY <2>4 DEF HidesIn
    <3> HIDE DEF found
    <3> QED
      BY <2>1, <2>2, <3>1, <3>2 DEF found
  <2> QED
    BY <2>3, <2>4
<1> QED
  BY <1>2, <1>3

----
(* The steps that report nothing. *)
LEMMA QuietKeeps ==
  ASSUME ErrorsInv, UNCHANGED <<wrae, errors, warnings>>,
         call.state = "running", call'.state \in {"running", "returned"}, call' \in Calls,
         call'.met = call.met, call'.custom = call.custom, call'.steps = 0 => call.steps = 0,
         diag' \in [{"conn", "stmt"} -> Seq(Records)], results' \in ResultSets, OfTheBuffer(results'.last)
  PROVE  ErrorsInv'
<1>1. TypeOK'
  BY DEF ErrorsInv, TypeOK
<1>2. (hdb_errors("errors"))' = hdb_errors("errors") /\ (hdb_errors("all"))' = hdb_errors("all")
  BY DEF hdb_errors
<1>3. MetReadable' <=> MetReadable
  BY DEF MetReadable
<1>4. NothingLost'
  BY <1>2, <1>3, Zenon DEF ErrorsInv, NothingLost
<1>5. NothingStale'
  BY <1>2, Zenon DEF ErrorsInv, NothingStale
<1>6. HasCause' <=> HasCause
  BY Zenon DEF HasCause, IsCause
<1>7. NoCauseYet'
  BY <1>3, <1>6 DEF ErrorsInv, NoCauseYet
<1>8. FailedForCause' /\ MetInSteps' /\ OfTheBuffer(results.last)'
  BY DEF ErrorsInv, FailedForCause, MetInSteps, OfTheBuffer
<1> QED
  BY <1>1, <1>4, <1>5, <1>7, <1>8 DEF ErrorsInv

(* The steps of a function, or of none, that has met nothing. *)
HasMetNothing ==
  TypeOK /\ call.met = <<>> /\ call.state # "failed" /\ NothingStale /\ OfTheBuffer(results.last)

LEMMA NothingMet == HasMetNothing => ErrorsInv
<1> SUFFICES ASSUME TypeOK, call.met = <<>>, call.state # "failed", NothingStale, OfTheBuffer(results.last)
             PROVE  ErrorsInv
  BY DEF HasMetNothing
<1>1. ToSet(call.met) = {} /\ DOMAIN call.met = {}
  <2>1. DOMAIN call.met = {}
    OBVIOUS
  <2> QED
    BY <2>1 DEF ToSet
<1>2. NothingLost
  <2> DEFINE ns == {n \in {n \in DOMAIN call.met : ~call.met[n].hidden} : ~call.met[n].warning}
             chain == hdb_errors("errors")
  <2>1. ns = {}
    BY <1>1, Zenon
  <2>2. [n \in {} |-> n] \in [{} -> DOMAIN chain]
    OBVIOUS
  <2>3. InOrder({}, call.met, chain)
    <3> HIDE DEF chain
    <3> QED
      BY <2>2, Zenon DEF InOrder
  <2>4. {n \in DOMAIN call.met : ~call.met[n].hidden} = {}
    BY <1>1, Zenon
  <2> QED
    BY <2>1, <2>3, <2>4, Zenon DEF NothingLost
<1>3. NoCauseYet /\ FailedForCause /\ MetInSteps
  BY <1>1, Zenon DEF NoCauseYet, FailedForCause, MetInSteps, HasCause
<1> QED
  BY <1>2, <1>3 DEF ErrorsInv

LEMMA NothingMetNext == (HasMetNothing => ErrorsInv)'
  BY NothingMet, PTL

LEMMA ToldNothing == errors = <<>> /\ warnings = <<>> => NothingStale
<1> SUFFICES ASSUME errors = <<>>, warnings = <<>> PROVE NothingStale
  OBVIOUS
<1>1. hdb_errors("all") = <<>>
  BY DEF hdb_errors
<1>2. ToSet(hdb_errors("all")) = {}
  BY <1>1 DEF ToSet
<1> QED
  BY <1>2, Zenon DEF NothingStale

LEMMA ToldNothingNext == (errors = <<>> /\ warnings = <<>> => NothingStale)'
  BY ToldNothing, PTL

----
LEMMA KeepsCustom ==
  ASSUME call \in Calls, NEW left, NEW warning, NEW fatal, NEW hidden
  PROVE  /\ call.custom \in BOOLEAN
         /\ Met(left, warning, fatal, hidden) = CallWith(left, warning, fatal, hidden, call.custom)
<1> DEFINE c == Met(left, warning, fatal, hidden)
<1>1. c = [call EXCEPT !.steps = c.steps, !.met = c.met] /\ c.custom = call.custom
  BY DEF Met, Calls
<1>2. c = [c EXCEPT !.custom = call.custom]
  <2> HIDE DEF c
  <2> QED
    BY <1>1 DEF Calls
<1> QED
  BY <1>2 DEF CallWith, Calls

(* An ODBC call that has left records on handle h of d. *)
LEMMA ReadsItsCall ==
  ASSUME NEW h \in {"conn", "stmt"}, NEW d \in [{"conn", "stmt"} -> Seq(Records)],
         NEW res \in ResultSets, OfTheBuffer(res.last),
         NEW left \in Seq(Whats), left # <<>>, d[h] = Fresh(left),
         NEW warning \in BOOLEAN, NEW fatal \in BOOLEAN, warning \/ fatal,
         NEW hidden \in BOOLEAN, hidden <=> HidesIn(h, res)
  PROVE  LET records == core_hdb_get_odbc_error(h, d, res) IN
         /\ records \in Seq(Records)
         /\ ReadsWhatIsLeft(records, Fresh(left), 0, hidden)
         /\ BringsNothing(records, hidden, call.custom)
         /\ FailsForThose(records, Fresh(left), warning, fatal, hidden)
<1> DEFINE records == core_hdb_get_odbc_error(h, d, res)
           fresh == Fresh(left)
<1>1. /\ h \in Contexts /\ h # "none"
  BY DEF Contexts
<1>2. /\ records \in Seq(Records)
      /\ hidden => records = res.last
      /\ ~hidden => Begins(fresh, records)
      /\ ~hidden /\ Unreadable(fresh) = {} => records = fresh
  BY <1>1, RecordsFound, Zenon
<1>3. /\ fresh \in Seq(Records) /\ Len(fresh) = Len(left)
      /\ \A n \in 1 .. Len(fresh) : fresh[n].fresh
  BY FreshProperties
<1>4. Len(fresh) \in Nat /\ Len(records) \in Nat
  BY ONLY <1>2, <1>3, LenProperties
<1>5. hidden => res.last # <<>>
  BY Zenon DEF HidesIn
<1> HIDE DEF records, fresh
<1>6. ~hidden => \A k \in 1 .. Len(records) : k \in 1 .. Len(fresh) /\ records[k] = fresh[k]
  <2>1. ASSUME Begins(fresh, records)
        PROVE  \A k \in 1 .. Len(records) : k \in 1 .. Len(fresh) /\ records[k] = fresh[k]
    <3>1. 1 .. Len(records) \subseteq 1 .. Len(fresh)
      BY ONLY <2>1, <1>4 DEF Begins
    <3> QED
      BY <2>1, <3>1, Zenon DEF Begins
  <2> QED
    BY <2>1, <1>2, Zenon
<1>7. ReadsWhatIsLeft(records, fresh, 0, hidden)
  <2>1. \A k \in 1 .. Len(fresh) : 0 + k \in 1 .. Len(fresh) /\ fresh[0 + k].what = fresh[k].what
    BY ONLY <1>4
  <2> QED
    BY <2>1, <1>2, Zenon DEF ReadsWhatIsLeft
<1>8. BringsNothing(records, hidden, call.custom)
  BY <1>3, <1>6, Zenon DEF BringsNothing
<1>9. FailsForThose(records, fresh, warning, fatal, hidden)
  BY <1>2, <1>5, <1>6, Zenon DEF FailsForThose
<1> QED
  BY <1>2, <1>7, <1>8, <1>9 DEF records, fresh

LEMMA OneElement ==
  ASSUME NEW S, NEW e \in S
  PROVE  <<e>> \in Seq(S) /\ Len(<<e>>) = 1
  OBVIOUS

(* An error or a warning of the extension's own, before what is found. *)
LEMMA OwnFirst ==
  ASSUME NEW own \in Whats, NEW found \in Seq(Records)
  PROVE  LET records == Fresh(<<own>>) \o found IN
         /\ records \in Seq(Records) /\ Len(records) = 1 + Len(found) /\ Len(found) \in Nat
         /\ records[1].what = own /\ records # <<>>
         /\ \A k \in 1 .. Len(found) : 1 + k \in 1 .. 1 + Len(found) /\ records[1 + k] = found[k]
         /\ Fresh(<<own>>) \in Seq(Records) /\ Len(Fresh(<<own>>)) = 1
         /\ Fresh(<<own>>) # <<>> /\ Fresh(<<own>>)[1].what = own
<1> DEFINE first == Fresh(<<own>>)
           records == first \o found
<1>1. <<own>> \in Seq(Whats) /\ Len(<<own>>) = 1 /\ <<own>> # <<>> /\ <<own>>[1] = own
  <2>1. <<own>> \in Seq(Whats) /\ Len(<<own>>) = 1
    BY OneElement, Zenon
  <2>2. <<own>>[1] = own
    OBVIOUS
  <2>3. <<own>> # <<>>
    BY <2>1, EmptySeq
  <2> QED
    BY <2>1, <2>2, <2>3
<1>2. first \in Seq(Records) /\ Len(first) = 1 /\ first # <<>> /\ first[1].what = own
  <2>1. 1 \in 1 .. Len(<<own>>)
    BY <1>1
  <2> QED
    BY <1>1, <2>1, FreshProperties
<1> HIDE DEF first
<1>3. Len(found) \in Nat
  BY LenProperties
<1>4. /\ records \in Seq(Records) /\ Len(records) = Len(first) + Len(found)
      /\ \A i \in 1 .. Len(first) + Len(found) :
           records[i] = IF i <= Len(first) THEN first[i] ELSE found[i - Len(first)]
  BY <1>2, ConcatProperties
<1> HIDE DEF records
<1>5. Len(records) = 1 + Len(found) /\ records[1] = first[1] /\ Len(records) # 0
  BY <1>2, <1>3, <1>4
<1>6. \A k \in 1 .. Len(found) : 1 + k \in 1 .. 1 + Len(found) /\ records[1 + k] = found[k]
  BY <1>2, <1>3, <1>4
<1>7. records # <<>>
  BY <1>4, <1>5, EmptySeq
<1> QED
  BY <1>2, <1>3, <1>4, <1>5, <1>6, <1>7 DEF records, first

----
(* One lemma for each action. *)
LEMMA EnterKeeps == ErrorsInv /\ Enter => ErrorsInv'
<1> SUFFICES ASSUME ErrorsInv, Enter PROVE ErrorsInv'
  OBVIOUS
<1>1. /\ wrae \in BOOLEAN /\ diag \in [{"conn", "stmt"} -> Seq(Records)] /\ results \in ResultSets
      /\ OfTheBuffer(results.last) /\ results.last \in Seq(Records)
  BY DEF ErrorsInv, TypeOK, ResultSets
<1>2. /\ errors' = <<>> /\ warnings' = <<>> /\ wrae' = wrae
      /\ diag' = [h \in DOMAIN diag |-> Aged(diag[h])]
      /\ results' = [results EXCEPT !.last = Aged(results.last)]
      /\ call' = [Quiet EXCEPT !.state = "running"]
  BY DEF Enter, reset_errors
<1>3. diag' \in [{"conn", "stmt"} -> Seq(Records)]
  <2>1. DOMAIN diag = {"conn", "stmt"}
    BY <1>1
  <2>2. \A h \in {"conn", "stmt"} : Aged(diag[h]) \in Seq(Records)
    BY <1>1, AgedProperties
  <2> QED
    BY <1>2, <2>1, <2>2
<1>4. results' \in ResultSets /\ OfTheBuffer(results'.last)
  <2>1. /\ Aged(results.last) \in Seq(Records) /\ DOMAIN Aged(results.last) = DOMAIN results.last
        /\ \A n \in DOMAIN results.last : Aged(results.last)[n].what = results.last[n].what
    BY <1>1, AgedProperties
  <2>2. results' \in ResultSets /\ results'.last = Aged(results.last)
    BY <1>1, <1>2, <2>1 DEF ResultSets
  <2> QED
    BY <1>1, <2>1, <2>2, Zenon DEF OfTheBuffer
<1>5. call' \in Calls /\ call'.met = <<>> /\ call'.state = "running"
  <2>1. call' = [state |-> "running", steps |-> 0, met |-> <<>>, custom |-> FALSE]
    BY <1>2 DEF Quiet
  <2>2. <<>> \in Seq(MetRecords)
    BY EmptySeq
  <2> QED
    BY <2>1, <2>2 DEF Calls, States
<1>6. TypeOK'
  BY <1>1, <1>2, <1>3, <1>4, <1>5 DEF TypeOK
<1>7. NothingStale'
  BY <1>2, ToldNothingNext
<1> QED
  BY <1>4, <1>5, <1>6, <1>7, NothingMetNext DEF HasMetNothing, OfTheBuffer

LEMMA NextRequestKeeps == ErrorsInv /\ NextRequest => ErrorsInv'
<1> SUFFICES ASSUME ErrorsInv, NextRequest PROVE ErrorsInv'
  OBVIOUS
<1>1. /\ errors' = <<>> /\ warnings' = <<>> /\ wrae' \in BOOLEAN
      /\ diag' = [h \in DOMAIN diag |-> <<>>] /\ results' = [kind |-> None, last |-> <<>>] /\ call' = Quiet
  BY DEF NextRequest, reset_errors
<1>2. diag' \in [{"conn", "stmt"} -> Seq(Records)] /\ results' \in ResultSets /\ OfTheBuffer(results'.last)
  <2>1. DOMAIN diag = {"conn", "stmt"} /\ <<>> \in Seq(Records)
    BY DEF ErrorsInv, TypeOK
  <2> QED
    BY <1>1, <2>1 DEF ResultSets, OfTheBuffer
<1>3. call' \in Calls /\ call'.met = <<>> /\ call'.state = "idle"
  BY <1>1 DEF Quiet, Calls, States
<1>4. TypeOK'
  BY <1>1, <1>2, <1>3 DEF TypeOK
<1>5. NothingStale'
  BY <1>1, ToldNothingNext
<1> QED
  BY <1>2, <1>3, <1>4, <1>5, NothingMetNext DEF HasMetNothing, OfTheBuffer

LEMMA InitErrors == Init => ErrorsInv
<1> SUFFICES ASSUME Init PROVE ErrorsInv
  OBVIOUS
<1>1. TypeOK /\ call.met = <<>> /\ call.state # "failed" /\ OfTheBuffer(results.last)
  BY DEF Init, TypeOK, Quiet, Calls, States, ResultSets, OfTheBuffer
<1>2. NothingStale
  BY ToldNothing DEF Init
<1> QED
  BY <1>1, <1>2, NothingMet DEF HasMetNothing

(* hdb_configure makes no call, so nothing has been judged by the old setting. *)
LEMMA ConfigureKeeps == ErrorsInv /\ hdb_configure => ErrorsInv'
<1> SUFFICES ASSUME ErrorsInv, hdb_configure PROVE ErrorsInv'
  OBVIOUS
<1>1. /\ call \in Calls /\ call.met = <<>> /\ OfTheBuffer(results.last) /\ NothingStale /\ TypeOK
  BY DEF ErrorsInv, TypeOK, MetInSteps, hdb_configure
<1>2. UNCHANGED <<errors, warnings, diag, results>>
  BY DEF hdb_configure
<1>3. wrae' \in BOOLEAN /\ \E state \in {"returned", "refused"} : call' = [call EXCEPT !.state = state]
  BY <1>1 DEF hdb_configure, TypeOK
<1>4. call' \in Calls /\ call'.met = call.met /\ call'.custom = call.custom /\ call'.state # "failed"
  BY <1>1, <1>3 DEF Calls, States
<1>5. TypeOK'
  BY <1>1, <1>2, <1>3, <1>4 DEF TypeOK
<1>6. NothingStale'
  <2>1. hdb_errors("all")' = hdb_errors("all")
    BY <1>2 DEF hdb_errors
  <2> QED
    BY <2>1, <1>1, <1>4, Zenon DEF NothingStale
<1> QED
  BY <1>1, <1>2, <1>4, <1>5, <1>6, NothingMetNext DEF HasMetNothing, OfTheBuffer

LEMMA RecordsOfCalls ==
  /\ \A left \in Infos \cup Failures : left \in Seq(Whats) /\ left # <<>> /\ Fresh(left) \in Seq(Records)
  /\ <<>> \in Seq(Records)
<1>1. \A left \in Infos \cup Failures : left \in Seq(OfOdbc) /\ left # <<>>
  BY RecordsAssumption DEF OfOdbc
<1>2. OfOdbc \subseteq Whats
  BY DEF Whats
<1>3. \A left \in Seq(OfOdbc) : left \in Seq(Whats)
  BY <1>2
<1> QED
  BY <1>1, <1>3, FreshProperties, EmptySeq

LEMMA OneMoreStep ==
  ASSUME call \in Calls, call' = [call EXCEPT !.steps = @ + 1]
  PROVE  /\ call' \in Calls /\ call'.state = call.state /\ call'.met = call.met
         /\ call'.custom = call.custom /\ call'.steps # 0
  BY DEF Calls

(* CallSucceeds, UnwatchedCall, RowCountOfEmpty, NewResults and Return, and *)
(* the call of BufferedGetData that succeeds.                               *)
LEMMA QuietActionsKeep ==
  ErrorsInv /\ (CallSucceeds \/ UnwatchedCall \/ RowCountOfEmpty \/ NewResults \/ Return) => ErrorsInv'
<1> SUFFICES ASSUME ErrorsInv, CallSucceeds \/ UnwatchedCall \/ RowCountOfEmpty \/ NewResults \/ Return
             PROVE  ErrorsInv'
  OBVIOUS
<1>1. /\ call \in Calls /\ diag \in [{"conn", "stmt"} -> Seq(Records)] /\ results \in ResultSets
      /\ OfTheBuffer(results.last)
  BY DEF ErrorsInv, TypeOK
<1>2. ASSUME NEW h \in DOMAIN diag, NEW left \in Seq(Records)
      PROVE  [diag EXCEPT ![h] = left] \in [{"conn", "stmt"} -> Seq(Records)]
  BY <1>1
<1>3. CASE CallSucceeds
  <2>1. PICK h \in DOMAIN diag : diag' = [diag EXCEPT ![h] = <<>>]
    BY <1>3 DEF CallSucceeds
  <2>2. diag' \in [{"conn", "stmt"} -> Seq(Records)]
    BY <2>1, <1>2, RecordsOfCalls
  <2>3. /\ call.state = "running" /\ call' = [call EXCEPT !.steps = @ + 1]
        /\ UNCHANGED <<wrae, errors, warnings, results>>
    BY <1>3 DEF CallSucceeds, Running
  <2> QED
    BY <1>1, <2>2, <2>3, OneMoreStep, QuietKeeps
<1>4. CASE UnwatchedCall \/ RowCountOfEmpty
  <2>1. PICK left \in Infos \cup Failures : diag' = [diag EXCEPT !["stmt"] = Fresh(left)]
    BY <1>4 DEF UnwatchedCall, RowCountOfEmpty
  <2>2. diag' \in [{"conn", "stmt"} -> Seq(Records)]
    BY <2>1, <1>1, RecordsOfCalls
  <2>3. /\ call.state = "running" /\ call' = [call EXCEPT !.steps = @ + 1]
        /\ UNCHANGED <<wrae, errors, warnings, results>>
    BY <1>4 DEF UnwatchedCall, RowCountOfEmpty, Running
  <2> QED
    BY <1>1, <2>2, <2>3, OneMoreStep, QuietKeeps
<1>5. CASE NewResults
  <2>1. results' \in ResultSets /\ OfTheBuffer(results'.last)
    BY <1>5, RecordsOfCalls DEF NewResults, ResultSets, OfTheBuffer
  <2>2. /\ call.state = "running" /\ call' = [call EXCEPT !.steps = @ + 1]
        /\ UNCHANGED <<wrae, errors, warnings, diag>>
    BY <1>5 DEF NewResults, Running
  <2> QED
    BY <1>1, <2>1, <2>2, OneMoreStep, QuietKeeps
<1>6. CASE Return
  <2>1. /\ call.state = "running" /\ call' = [call EXCEPT !.state = "returned"]
        /\ UNCHANGED <<wrae, errors, warnings, diag, results>>
    BY <1>6 DEF Return
  <2>2. /\ call' \in Calls /\ call'.state = "returned" /\ call'.met = call.met
        /\ call'.custom = call.custom /\ call'.steps = call.steps
    BY <2>1, <1>1 DEF Calls, States
  <2> QED
    BY <1>1, <2>1, <2>2, QuietKeeps
<1> QED
  BY <1>3, <1>4, <1>5, <1>6

LEMMA HidesSame ==
  ASSUME NEW h
  PROVE  \E hidden \in BOOLEAN : hidden = Hides(h) /\ (hidden <=> HidesIn(h, results))
  BY DEF Hides, HidesIn

(* CheckedCall and CHECK_SQL_WARNING. *)
LEMMA HandledCallKeeps ==
  ASSUME ErrorsInv, call.state = "running", UNCHANGED <<wrae, results>>,
         diag' \in [{"conn", "stmt"} -> Seq(Records)],
         NEW h \in {"conn", "stmt"}, NEW warning \in BOOLEAN, NEW fatal \in BOOLEAN, warning \/ fatal,
         NEW left \in Seq(Whats), left # <<>>, diag'[h] = Fresh(left),
         handle_errors_and_warnings(core_hdb_get_odbc_error(h, diag', results), warning, fatal,
                                    Met(Fresh(left), warning, fatal, Hides(h)))
  PROVE  ErrorsInv'
<1>1. call \in Calls /\ results' \in ResultSets /\ OfTheBuffer(results'.last) /\ results' = results /\ wrae' = wrae
  BY DEF ErrorsInv, TypeOK
<1>2. PICK hidden \in BOOLEAN : hidden = Hides(h) /\ (hidden <=> HidesIn(h, results))
  BY HidesSame
<1>3. Fresh(left) \in Seq(Records) /\ Fresh(left) # <<>>
  BY FreshProperties
<1>4. results \in ResultSets /\ OfTheBuffer(results.last)
  BY <1>1
<1>2a. hidden <=> HidesIn(h, results)
  BY <1>2
<1> DEFINE records == core_hdb_get_odbc_error(h, diag', results)
           fresh == Fresh(left)
<1>5. /\ records \in Seq(Records)
      /\ ReadsWhatIsLeft(records, fresh, 0, hidden)
      /\ BringsNothing(records, hidden, call.custom)
      /\ FailsForThose(records, fresh, warning, fatal, hidden)
  BY <1>2a, <1>4, ReadsItsCall
<1>6. call.custom \in BOOLEAN
  BY <1>1, KeepsCustom
<1>7. handle_errors_and_warnings(records, warning, fatal,
                                 CallWith(fresh, warning, fatal, hidden, call.custom))
  BY <1>1, <1>2, KeepsCustom, Zenon
<1>8. 0 \in Nat
  OBVIOUS
<1> HIDE DEF records, fresh
<1> QED
  BY <1>1, <1>3, <1>5, <1>6, <1>7, <1>8, HandlerKeeps DEF fresh

LEMMA CheckedCallKeeps == ErrorsInv /\ CheckedCall => ErrorsInv'
<1> SUFFICES ASSUME ErrorsInv, CheckedCall PROVE ErrorsInv'
  OBVIOUS
<1>1. /\ diag \in [{"conn", "stmt"} -> Seq(Records)] /\ call.state = "running" /\ UNCHANGED <<wrae, results>>
  BY DEF ErrorsInv, TypeOK, CheckedCall, Running
<1>2. PICK fatal \in BOOLEAN : fatal = TRUE
  OBVIOUS
<1>3. PICK h \in DOMAIN diag, warning \in BOOLEAN :
        \E e \in {Fresh(left) : left \in IF warning THEN Infos ELSE Failures} :
          /\ diag' = [diag EXCEPT ![h] = e]
          /\ handle_errors_and_warnings(core_hdb_get_odbc_error(h, diag', results), warning, fatal,
                                        Met(e, warning, fatal, Hides(h)))
  BY <1>2, Zenon DEF CheckedCall
<1>4. PICK left \in IF warning THEN Infos ELSE Failures :
        /\ diag' = [diag EXCEPT ![h] = Fresh(left)]
        /\ handle_errors_and_warnings(core_hdb_get_odbc_error(h, diag', results), warning, fatal,
                                      Met(Fresh(left), warning, fatal, Hides(h)))
  BY <1>3, Zenon
<1>5. h \in {"conn", "stmt"}
  BY <1>1
<1>6. left \in Seq(Whats) /\ left # <<>> /\ Fresh(left) \in Seq(Records)
  BY RecordsOfCalls
<1>7. diag' \in [{"conn", "stmt"} -> Seq(Records)] /\ diag'[h] = Fresh(left)
  BY <1>1, <1>4, <1>5, <1>6
<1>8. warning \/ fatal
  BY <1>2
<1> QED
  BY <1>1, <1>4, <1>5, <1>6, <1>7, <1>8, HandledCallKeeps, Zenon

LEMMA WarningLookKeeps == ErrorsInv /\ CHECK_SQL_WARNING => ErrorsInv'
<1> SUFFICES ASSUME ErrorsInv, CHECK_SQL_WARNING PROVE ErrorsInv'
  OBVIOUS
<1>1. PICK left \in Infos : diag["stmt"] = Fresh(left)
  BY DEF CHECK_SQL_WARNING
<1>2. /\ call.state = "running" /\ UNCHANGED <<wrae, diag, results>>
      /\ diag' \in [{"conn", "stmt"} -> Seq(Records)] /\ diag'["stmt"] = Fresh(left)
      /\ "stmt" \in {"conn", "stmt"}
  BY <1>1 DEF ErrorsInv, TypeOK, CHECK_SQL_WARNING, Running
<1>3. PICK warning \in BOOLEAN, fatal \in BOOLEAN : warning = TRUE /\ fatal = FALSE
  OBVIOUS
<1>4. handle_errors_and_warnings(core_hdb_get_odbc_error("stmt", diag', results), warning, fatal,
                                 Met(Fresh(left), warning, fatal, Hides("stmt")))
  BY <1>1, <1>2, <1>3, Zenon DEF CHECK_SQL_WARNING
<1>5. left \in Seq(Whats) /\ left # <<>> /\ Fresh(left) \in Seq(Records)
  BY RecordsOfCalls
<1>6. warning \/ fatal
  BY <1>3
<1> QED
  BY <1>2, <1>4, <1>5, <1>6, HandledCallKeeps, Zenon

(* CustomError and CustomWarning. *)
AsCustom(own, warning, fatal, hidden, custom) ==
  fatal /\ ~hidden /\ custom /\ (warning => own = "no name")

LEMMA OwnKeeps ==
  ASSUME ErrorsInv, call.state = "running", UNCHANGED <<wrae, diag, results>>,
         NEW own \in Whats, NEW found \in Seq(Records), NEW warning \in BOOLEAN, NEW fatal \in BOOLEAN,
         NEW hidden \in BOOLEAN, NEW custom \in BOOLEAN, AsCustom(own, warning, fatal, hidden, custom),
         handle_errors_and_warnings(Fresh(<<own>>) \o found, warning, fatal,
                                    CallWith(Fresh(<<own>>), warning, fatal, hidden, custom))
  PROVE  ErrorsInv'
<1>1. /\ diag' \in [{"conn", "stmt"} -> Seq(Records)] /\ results' \in ResultSets /\ OfTheBuffer(results'.last)
      /\ wrae' = wrae
  BY DEF ErrorsInv, TypeOK
<1> DEFINE records == Fresh(<<own>>) \o found
           left == Fresh(<<own>>)
<1>2. /\ records \in Seq(Records) /\ Len(records) = 1 + Len(found) /\ Len(found) \in Nat
      /\ records[1].what = own
      /\ left \in Seq(Records) /\ Len(left) = 1 /\ left # <<>> /\ left[1].what = own
  BY OwnFirst
<1>3. handle_errors_and_warnings(records, warning, fatal, CallWith(left, warning, fatal, hidden, custom))
  OBVIOUS
<1> HIDE DEF records, left
<1>4. ReadsWhatIsLeft(records, left, 0, hidden)
  <2>1. \A k \in 1 .. Len(left) : k = 1 /\ 0 + k = 1
    BY <1>2
  <2>2. 1 \in 1 .. Len(records)
    BY <1>2
  <2>3. \A k \in 1 .. Len(left) : 0 + k \in 1 .. Len(records) /\ records[0 + k].what = left[k].what
    BY <1>2, <2>1, <2>2
  <2> QED
    BY <2>3, Zenon DEF ReadsWhatIsLeft
<1>5. BringsNothing(records, hidden, custom)
  BY Zenon DEF BringsNothing, AsCustom
<1>6. FailsForThose(records, left, warning, fatal, hidden)
  <2>1. 1 \in 1 .. Len(left)
    BY <1>2
  <2> QED
    BY <1>2, <2>1, Zenon DEF FailsForThose, AsCustom
<1>7. 0 \in Nat
  OBVIOUS
<1> QED
  BY <1>1, <1>2, <1>3, <1>4, <1>5, <1>6, <1>7, HandlerKeeps

LEMMA CustomErrorKeeps == ErrorsInv /\ CustomError => ErrorsInv'
<1> SUFFICES ASSUME ErrorsInv, CustomError PROVE ErrorsInv'
  OBVIOUS
<1>1. /\ call \in Calls /\ diag \in [{"conn", "stmt"} -> Seq(Records)] /\ results \in ResultSets
      /\ call.state = "running" /\ UNCHANGED <<wrae, diag, results>>
  BY DEF ErrorsInv, TypeOK, CustomError, Running
<1>2a. PICK own \in Whats : own = "custom"
  <2>1. "custom" \in Whats
    BY DEF Whats
  <2> QED
    BY <2>1, Zenon
<1>2. PICK warning \in BOOLEAN, fatal \in BOOLEAN, hidden \in BOOLEAN, custom \in BOOLEAN :
        warning = FALSE /\ fatal = TRUE /\ hidden = FALSE /\ custom = TRUE
  OBVIOUS
<1>3. PICK ctx \in Contexts :
        handle_errors_and_warnings(Fresh(<<own>>) \o core_hdb_get_odbc_error(ctx, diag, results),
                                   warning, fatal, CallWith(Fresh(<<own>>), warning, fatal, hidden, custom))
  BY <1>2, <1>2a, Zenon DEF CustomError, CallWith
<1>4. core_hdb_get_odbc_error(ctx, diag, results) \in Seq(Records)
  BY <1>1, RecordsFound
<1>5. AsCustom(own, warning, fatal, hidden, custom)
  BY <1>2, <1>2a, Zenon DEF AsCustom
<1> QED
  BY <1>1, <1>3, <1>4, <1>5, OwnKeeps

LEMMA CustomWarningKeeps == ErrorsInv /\ CustomWarning => ErrorsInv'
<1> SUFFICES ASSUME ErrorsInv, CustomWarning PROVE ErrorsInv'
  OBVIOUS
<1>1. /\ call \in Calls /\ diag \in [{"conn", "stmt"} -> Seq(Records)] /\ results \in ResultSets
      /\ call.state = "running" /\ UNCHANGED <<wrae, diag, results>>
  BY DEF ErrorsInv, TypeOK, CustomWarning, Running
<1>2a. PICK own \in Whats : own = "no name"
  <2>1. "no name" \in Whats
    BY DEF Whats
  <2> QED
    BY <2>1, Zenon
<1>2. PICK warning \in BOOLEAN, fatal \in BOOLEAN, hidden \in BOOLEAN, custom \in BOOLEAN :
        warning = TRUE /\ fatal = TRUE /\ hidden = FALSE /\ custom = TRUE
  OBVIOUS
<1>3. handle_errors_and_warnings(Fresh(<<own>>) \o core_hdb_get_odbc_error("stmt", diag, results),
                                 warning, fatal, CallWith(Fresh(<<own>>), warning, fatal, hidden, custom))
  BY <1>2, <1>2a, Zenon DEF CustomWarning, CallWith
<1>4. core_hdb_get_odbc_error("stmt", diag, results) \in Seq(Records)
  BY <1>1, RecordsFound DEF Contexts
<1>5. AsCustom(own, warning, fatal, hidden, custom)
  BY <1>2, <1>2a, Zenon DEF AsCustom
<1> QED
  BY <1>1, <1>3, <1>4, <1>5, OwnKeeps

LEMMA BusyKeeps == ErrorsInv /\ check_for_mars_error => ErrorsInv'
<1> SUFFICES ASSUME ErrorsInv, check_for_mars_error PROVE ErrorsInv'
  OBVIOUS
<1>1. /\ call \in Calls /\ diag \in [{"conn", "stmt"} -> Seq(Records)] /\ results \in ResultSets
      /\ OfTheBuffer(results.last) /\ call.state = "running" /\ UNCHANGED <<wrae, results>>
  BY DEF ErrorsInv, TypeOK, check_for_mars_error, Running
<1>2. PICK own \in Whats : own = "mars off"
  <2>1. "mars off" \in Whats
    BY DEF Whats
  <2> QED
    BY <2>1, Zenon
<1>3. PICK warning \in BOOLEAN, fatal \in BOOLEAN, custom \in BOOLEAN :
        warning = FALSE /\ fatal = TRUE /\ custom = TRUE
  OBVIOUS
<1>4. PICK hidden \in BOOLEAN : hidden = Hides("stmt") /\ (hidden <=> HidesIn("stmt", results))
  BY HidesSame
<1> DEFINE found == core_hdb_get_odbc_error("stmt", diag', results)
           records == Fresh(<<own>>) \o found
<1>5. PICK raw \in Failures :
        /\ diag' = [diag EXCEPT !["stmt"] = Fresh(raw)]
        /\ handle_errors_and_warnings(records, warning, fatal, CallWith(Fresh(raw), warning, fatal, hidden, custom))
  BY <1>2, <1>3, <1>4, Zenon DEF check_for_mars_error, CallWith
<1> DEFINE left == Fresh(raw)
<1>6. /\ left \in Seq(Records) /\ left # <<>> /\ Len(left) \in Nat
      /\ diag' \in [{"conn", "stmt"} -> Seq(Records)] /\ diag'["stmt"] = left
  <2>1. raw \in Seq(Whats) /\ raw # <<>> /\ Fresh(raw) \in Seq(Records) /\ Fresh(raw) # <<>>
    BY RecordsOfCalls, FreshProperties
  <2> QED
    BY <2>1, <1>1, <1>5, LenProperties
<1>7. /\ found \in Seq(Records) /\ (~hidden /\ Unreadable(left) = {} => found = left)
  BY <1>1, <1>4, <1>6, RecordsFound DEF Contexts
<1> HIDE DEF found, left
<1>8. /\ records \in Seq(Records) /\ records # <<>>
      /\ \A k \in 1 .. Len(found) : 1 + k \in 1 .. Len(records) /\ records[1 + k] = found[k]
  BY <1>7, OwnFirst
<1>9. handle_errors_and_warnings(records, warning, fatal, CallWith(left, warning, fatal, hidden, custom))
  BY <1>5 DEF left
<1> HIDE DEF records
<1>10. ReadsWhatIsLeft(records, left, 1, hidden)
  BY <1>7, <1>8, Zenon DEF ReadsWhatIsLeft
<1>11. BringsNothing(records, hidden, custom) /\ FailsForThose(records, left, warning, fatal, hidden)
  BY <1>3, <1>8, Zenon DEF BringsNothing, FailsForThose
<1>12. 1 \in Nat /\ results' \in ResultSets /\ OfTheBuffer(results'.last) /\ wrae' = wrae
  BY <1>1
<1> QED
  BY <1>1, <1>6, <1>8, <1>9, <1>10, <1>11, <1>12, HandlerKeeps

LEMMA BufferedGetDataKeeps == ErrorsInv /\ BufferedGetData => ErrorsInv'
<1> SUFFICES ASSUME ErrorsInv, BufferedGetData PROVE ErrorsInv'
  OBVIOUS
<1>1. /\ call \in Calls /\ diag' \in [{"conn", "stmt"} -> Seq(Records)] /\ results \in ResultSets
      /\ call.state = "running" /\ results.kind = "buffered" /\ UNCHANGED <<wrae, diag>>
  BY DEF ErrorsInv, TypeOK, BufferedGetData, Running
<1>2. \A last \in Seq(Records) : /\ [results EXCEPT !.last = last] \in ResultSets
                                /\ [results EXCEPT !.last = last].last = last
                                /\ [results EXCEPT !.last = last].kind = "buffered"
  BY <1>1 DEF ResultSets
<1>3. CASE /\ results' = [results EXCEPT !.last = <<>>]
           /\ call' = [call EXCEPT !.steps = @ + 1] /\ UNCHANGED <<errors, warnings>>
  <2>1. results' \in ResultSets /\ OfTheBuffer(results'.last)
    <3>1. <<>> \in Seq(Records) /\ DOMAIN <<>> = {}
      BY EmptySeq
    <3>2. results' \in ResultSets /\ results'.last = <<>>
      BY <1>2, <1>3, <3>1
    <3> QED
      BY <3>1, <3>2, Zenon DEF OfTheBuffer
  <2> QED
    BY <1>1, <1>3, <2>1, OneMoreStep, QuietKeeps
<1>4. ASSUME NEW warning \in BOOLEAN, NEW fatal \in BOOLEAN, warning \/ fatal,
             results' = [results EXCEPT !.last = Fresh(<<IF warning THEN "info" ELSE "error">>)],
             handle_errors_and_warnings(core_hdb_get_odbc_error("stmt", diag, results'), warning, fatal,
                                        Met(results'.last, warning, fatal, FALSE))
      PROVE  ErrorsInv'
  <2>1. PICK own \in Whats : own = IF warning THEN "info" ELSE "error"
    <3>1. "info" \in Whats /\ "error" \in Whats
      BY DEF Whats
    <3> QED
      BY <3>1, Zenon
  <2>2. own \in {"info", "error"}
    BY <2>1
  <2>3. PICK hidden \in BOOLEAN : hidden = FALSE
    OBVIOUS
  <2> DEFINE left == Fresh(<<own>>)
  <2>4. left \in Seq(Records) /\ Len(left) = 1 /\ left # <<>> /\ left[1].what = own /\ DOMAIN left = 1 .. Len(left)
    <3>1. <<>> \in Seq(Records)
      BY EmptySeq
    <3>2. left \in Seq(Records) /\ Len(left) = 1 /\ left # <<>> /\ left[1].what = own
      BY <3>1, OwnFirst
    <3> HIDE DEF left
    <3> QED
      BY <3>2, LenProperties
  <2>5. results' = [results EXCEPT !.last = left]
    BY <1>4, <2>1, Zenon
  <2>6. /\ handle_errors_and_warnings(core_hdb_get_odbc_error("stmt", diag', results'), warning, fatal,
                                      Met(results'.last, warning, fatal, hidden))
    BY <1>1, <1>4, <2>3, Zenon
  <2>6a. \A n \in 1 .. Len(left) : left[n].fresh
    <3>1. <<own>> \in Seq(Whats)
      BY OneElement, Zenon
    <3> QED
      BY <3>1, FreshProperties, Zenon
  <2> HIDE DEF left
  <2>7. /\ results' \in ResultSets /\ results'.last = left /\ results'.kind = "buffered"
    BY <1>2, <2>4, <2>5
  <2>8. OfTheBuffer(results'.last)
    <3>1. \A n \in DOMAIN left : n = 1
      BY <2>4
    <3> QED
      BY <3>1, <2>2, <2>4, <2>7 DEF OfTheBuffer
  <2>9. HidesIn("stmt", results')
    BY <2>4, <2>7 DEF HidesIn, None
  <2>10. core_hdb_get_odbc_error("stmt", diag', results') = left
    BY <1>1, <2>7, <2>9, RecordsFound DEF Contexts
  <2>11. call.custom \in BOOLEAN
    BY <1>1, KeepsCustom
  <2>12. handle_errors_and_warnings(left, warning, fatal, CallWith(left, warning, fatal, hidden, call.custom))
    BY <1>1, <2>6, <2>7, <2>10, KeepsCustom, Zenon
  <2>13. ReadsWhatIsLeft(left, left, 0, hidden)
    <3>1. \A k \in 1 .. Len(left) : 0 + k \in 1 .. Len(left) /\ left[0 + k].what = left[k].what
      OBVIOUS
    <3> QED
      BY <3>1, Zenon DEF ReadsWhatIsLeft
  <2>14. BringsNothing(left, hidden, call.custom)
    BY <2>6a, Zenon DEF BringsNothing
  <2>15. FailsForThose(left, left, warning, fatal, hidden)
    BY <1>4, <2>3, Zenon DEF FailsForThose
  <2>16. 0 \in Nat
    OBVIOUS
  <2> QED
    BY <1>1, <2>4, <2>7, <2>8, <2>11, <2>12, <2>13, <2>14, <2>15, <2>16, HandlerKeeps
<1> QED
  BY <1>3, <1>4, Zenon DEF BufferedGetData

----
LEMMA NextErrors == ErrorsInv /\ [Next]_vars => ErrorsInv'
<1> SUFFICES ASSUME ErrorsInv, [Next]_vars PROVE ErrorsInv'
  OBVIOUS
<1>1. CASE CallSucceeds \/ UnwatchedCall \/ RowCountOfEmpty \/ NewResults \/ Return
  BY <1>1, QuietActionsKeep
<1>2. CASE UNCHANGED vars
  BY <1>2, Zenon DEF vars, ErrorsInv, TypeOK, NothingLost, NothingStale, NoCauseYet, FailedForCause, MetInSteps,
                     OfTheBuffer, HasCause, HasHidden, IsCause, MetReadable, hdb_errors
<1> QED
  BY <1>1, <1>2, EnterKeeps, CheckedCallKeeps, WarningLookKeeps, BusyKeeps, CustomErrorKeeps, CustomWarningKeeps,
     BufferedGetDataKeeps, ConfigureKeeps, NextRequestKeeps DEF Next

LEMMA Invariance == Spec => []ErrorsInv
<1> QED
  BY InitErrors, NextErrors, PTL DEF Spec

(* hdb_errors has every diagnostic that the checked calls of the function have *)
(* left, and its errors in the order in which they came: no entry of the chain *)
(* is dropped or put before another by a later call of the handler.            *)
THEOREM DiagnosticsAreKept == Spec => []NothingLost
<1>1. ErrorsInv => NothingLost
  BY DEF ErrorsInv
<1> QED
  BY <1>1, Invariance, PTL

(* A function that fails has met an error, or a warning that its setting and the *)
(* list of warnings turn into one, and hdb_errors tells it; one that returns has *)
(* met none.                                                                     *)
THEOREM FunctionsFailForCause == Spec => []FailsForCause
<1> QED
  BY FailsForCauseFollows, Invariance, PTL

(* Nothing of an earlier function is told, unless an error of the extension's own *)
(* or the error that a buffered result keeps brings it along.                     *)
THEOREM NothingOldIsTold == Spec => []NothingStale
<1>1. ErrorsInv => NothingStale
  BY DEF ErrorsInv
<1> QED
  BY <1>1, Invariance, PTL
====
