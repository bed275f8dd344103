---- MODULE ConverterPoolProofs ----
(***************************************************************************)
(* No converter is ever in the hands of two threads, none is leaked, the   *)
(* depth counts the list, and the list implements a set of converters, for *)
(* any number of threads, converters and any limit of the pool.            *)
(***************************************************************************)
EXTENDS ConverterPool, FiniteSetTheorems, TLAPS

LEMMA InitInv == Init => PoolInv
<1> SUFFICES ASSUME Init PROVE PoolInv
  OBVIOUS
<1> USE PoolAssumption DEF Init
<1>1. TypeOK
  <2>1. pc \in [Threads -> {"idle", "peek", "spin", "cas", "new", "using"} \cup Section]
    OBVIOUS
  <2>2. owner \in [Caches -> {"none", "pool"} \cup Threads]
    OBVIOUS
  <2>3. depth \in Int /\ mutex \in {0, 1} /\ node \in [Threads -> Caches \cup {Null}]
        /\ next \in [Caches -> Caches \cup {Null}] /\ op \in [Threads -> {"pop", "push"}]
    OBVIOUS
  <2>4. head \in Caches \cup {Null} /\ sweep \in Caches \cup {Null} /\ s_PoolDestroyed \in BOOLEAN
    OBVIOUS
  <2> QED
    BY <2>1, <2>2, <2>3, <2>4 DEF TypeOK
<1>2. MutualExclusion
  BY DEF MutualExclusion, Section
<1>3. Pointers
  BY DEF Pointers, Pushing, Popped
<1>4. ListShape
  BY DEF ListShape, Pooled, Front
<1>5. Shutdown
  BY DEF Shutdown
<1> QED
  BY <1>1, <1>2, <1>3, <1>4, <1>5 DEF PoolInv

LEMMA BorrowCacheInv == ASSUME PoolInv, NEW t \in Threads, BorrowCache(t) PROVE PoolInv'
<1> USE PoolAssumption DEF PoolInv, BorrowCache, Goto, Take, Own, list
<1>1. TypeOK'
  BY DEF TypeOK, Section, Pointers, Pushing, Popped
<1>2. MutualExclusion'
  BY DEF TypeOK, MutualExclusion, Section
<1>3. Pointers'
  BY DEF TypeOK, MutualExclusion, Section, Pointers, Pushing, Popped
<1>4. ListShape'
  BY DEF TypeOK, ListShape, Pooled, Front, Pointers, Pushing, Popped, Shutdown, Section
<1>5. Shutdown'
  BY DEF TypeOK, Shutdown, Section
<1> QED
  BY <1>1, <1>2, <1>3, <1>4, <1>5

LEMMA PeekInv == ASSUME PoolInv, NEW t \in Threads, Peek(t) PROVE PoolInv'
<1> USE PoolAssumption DEF PoolInv, Peek, Goto, Take, Own, list
<1>1. TypeOK'
  BY DEF TypeOK, Section, Pointers, Pushing, Popped
<1>2. MutualExclusion'
  BY DEF TypeOK, MutualExclusion, Section
<1>3. Pointers'
  BY DEF TypeOK, MutualExclusion, Section, Pointers, Pushing, Popped
<1>4. ListShape'
  BY DEF TypeOK, ListShape, Pooled, Front, Pointers, Pushing, Popped, Shutdown, Section
<1>5. Shutdown'
  BY DEF TypeOK, Shutdown, Section
<1> QED
  BY <1>1, <1>2, <1>3, <1>4, <1>5

LEMMA SpinInv == ASSUME PoolInv, NEW t \in Threads, Spin(t) PROVE PoolInv'
<1> USE PoolAssumption DEF PoolInv, Spin, Goto, Take, Own, list
<1>1. TypeOK'
  BY DEF TypeOK, Section, Pointers, Pushing, Popped
<1>2. MutualExclusion'
  BY DEF TypeOK, MutualExclusion, Section
<1>3. Pointers'
  BY DEF TypeOK, MutualExclusion, Section, Pointers, Pushing, Popped
<1>4. ListShape'
  BY DEF TypeOK, ListShape, Pooled, Front, Pointers, Pushing, Popped, Shutdown, Section
<1>5. Shutdown'
  BY DEF TypeOK, Shutdown, Section
<1> QED
  BY <1>1, <1>2, <1>3, <1>4, <1>5

LEMMA CompareExchangeInv == ASSUME PoolInv, NEW t \in Threads, CompareExchange(t) PROVE PoolInv'
<1> USE PoolAssumption DEF PoolInv, CompareExchange, Entry, Goto, Take, Own, list
<1>1. TypeOK'
  BY DEF TypeOK, Section, Pointers, Pushing, Popped
<1>2. MutualExclusion'
  BY DEF TypeOK, MutualExclusion, Section
<1>3. Pointers'
  BY DEF TypeOK, MutualExclusion, Section, Pointers, Pushing, Popped
<1>4. ListShape'
  BY DEF TypeOK, ListShape, Pooled, Front, Pointers, Pushing, Popped, Shutdown, Section
<1>5. Shutdown'
  BY DEF TypeOK, Shutdown, Section
<1> QED
  BY <1>1, <1>2, <1>3, <1>4, <1>5

LEMMA PopInv == ASSUME PoolInv, NEW t \in Threads, Pop(t) PROVE PoolInv'
<1> USE PoolAssumption DEF PoolInv, Pop, Goto, Take, Own, list
<1>1. TypeOK'
  BY DEF TypeOK, Section, Pointers, Pushing, Popped
<1>2. MutualExclusion'
  BY DEF TypeOK, MutualExclusion, Section
<1>3. Pointers'
  BY DEF TypeOK, MutualExclusion, Section, Pointers, Pushing, Popped
<1>4. ListShape'
  BY DEF TypeOK, ListShape, Pooled, Front, Pointers, Pushing, Popped, Shutdown, Section
<1>5. Shutdown'
  BY DEF TypeOK, Shutdown, Section
<1> QED
  BY <1>1, <1>2, <1>3, <1>4, <1>5

LEMMA UnlinkInv == ASSUME PoolInv, NEW t \in Threads, Unlink(t) PROVE PoolInv'
<1> USE PoolAssumption DEF PoolInv, Unlink, Goto, Take, Own, list
<1>1. TypeOK'
  BY DEF TypeOK, Section, Pointers, Pushing, Popped
<1>2. MutualExclusion'
  BY DEF TypeOK, MutualExclusion, Section
<1>3. Pointers'
  <2>1. /\ node[t] \in Caches /\ owner[node[t]] = "pool" /\ op[t] = "pop" /\ t # "pool"
    BY DEF TypeOK, Pointers, ListShape, Pooled, Front, Shutdown, Section
  <2>2. /\ pc' = [pc EXCEPT ![t] = "count"] /\ owner' = [owner EXCEPT ![node[t]] = t]
        /\ UNCHANGED <<node, op, next>>
    OBVIOUS
  <2>3. ASSUME NEW u \in Threads, u # t
        PROVE  pc'[u] = pc[u] /\ pc[u] \notin Section
    BY <2>2, <2>3 DEF TypeOK, MutualExclusion, Section
  <2>4. ASSUME NEW u \in Threads, u # t, node[u] # Null, owner[node[u]] = u
        PROVE  owner'[node[u]] = u
    BY <2>1, <2>2, <2>4 DEF TypeOK
  <2> QED
    BY <2>1, <2>2, <2>3, <2>4 DEF Pointers, Pushing, Popped, TypeOK, Section
<1>4. ListShape'
  BY DEF TypeOK, ListShape, Pooled, Front, Pointers, Pushing, Popped, Shutdown, Section
<1>5. Shutdown'
  BY DEF TypeOK, Shutdown, Section
<1> QED
  BY <1>1, <1>2, <1>3, <1>4, <1>5

LEMMA LinkInv == ASSUME PoolInv, NEW t \in Threads, Link(t) PROVE PoolInv'
<1> USE PoolAssumption DEF PoolInv, Link, Goto, Take, Own, list
<1>1. TypeOK'
  BY DEF TypeOK, Section, Pointers, Pushing, Popped
<1>2. MutualExclusion'
  BY DEF TypeOK, MutualExclusion, Section
<1>3. Pointers'
  BY DEF TypeOK, MutualExclusion, Section, Pointers, Pushing, Popped
<1>4. ListShape'
  BY DEF TypeOK, ListShape, Pooled, Front, Pointers, Pushing, Popped, Shutdown, Section
<1>5. Shutdown'
  BY DEF TypeOK, Shutdown, Section
<1> QED
  BY <1>1, <1>2, <1>3, <1>4, <1>5

LEMMA PublishInv == ASSUME PoolInv, NEW t \in Threads, Publish(t) PROVE PoolInv'
<1> USE PoolAssumption DEF PoolInv, Publish, Goto, Take, Own, list
<1>1. TypeOK'
  BY DEF TypeOK, Section, Pointers, Pushing, Popped
<1>2. MutualExclusion'
  BY DEF TypeOK, MutualExclusion, Section
<1>3. Pointers'
  BY DEF TypeOK, MutualExclusion, Section, Pointers, Pushing, Popped
<1>4. ListShape'
  BY DEF TypeOK, ListShape, Pooled, Front, Pointers, Pushing, Popped, Shutdown, Section
<1>5. Shutdown'
  BY DEF TypeOK, Shutdown, Section
<1> QED
  BY <1>1, <1>2, <1>3, <1>4, <1>5

LEMMA CountInv == ASSUME PoolInv, NEW t \in Threads, Count(t) PROVE PoolInv'
<1> USE PoolAssumption DEF PoolInv, Count, Goto, Take, Own, list
<1>1. TypeOK'
  BY DEF TypeOK, Section, Pointers, Pushing, Popped
<1>2. MutualExclusion'
  BY DEF TypeOK, MutualExclusion, Section
<1>3. Pointers'
  BY DEF TypeOK, MutualExclusion, Section, Pointers, Pushing, Popped
<1>4. ListShape'
  BY DEF TypeOK, ListShape, Pooled, Front, Pointers, Pushing, Popped, Shutdown, Section
<1>5. Shutdown'
  BY DEF TypeOK, Shutdown, Section
<1> QED
  BY <1>1, <1>2, <1>3, <1>4, <1>5

LEMMA UnlockInv == ASSUME PoolInv, NEW t \in Threads, Unlock(t) PROVE PoolInv'
<1> USE PoolAssumption DEF PoolInv, Unlock, Goto, Take, Own, list
<1>1. TypeOK'
  BY DEF TypeOK, Section, Pointers, Pushing, Popped
<1>2. MutualExclusion'
  BY DEF TypeOK, MutualExclusion, Section
<1>3. Pointers'
  BY DEF TypeOK, MutualExclusion, Section, Pointers, Pushing, Popped
<1>4. ListShape'
  BY DEF TypeOK, ListShape, Pooled, Front, Pointers, Pushing, Popped, Shutdown, Section
<1>5. Shutdown'
  BY DEF TypeOK, Shutdown, Section
<1> QED
  BY <1>1, <1>2, <1>3, <1>4, <1>5

LEMMA NewInv == ASSUME PoolInv, NEW t \in Threads, New(t) PROVE PoolInv'
<1> USE PoolAssumption DEF PoolInv, New, Goto, Take, Own, list
<1>1. TypeOK'
  BY DEF TypeOK, Section, Pointers, Pushing, Popped
<1>2. MutualExclusion'
  BY DEF TypeOK, MutualExclusion, Section
<1>3. Pointers'
  BY DEF TypeOK, MutualExclusion, Section, Pointers, Pushing, Popped
<1>4. ListShape'
  BY DEF TypeOK, ListShape, Pooled, Front, Pointers, Pushing, Popped, Shutdown, Section
<1>5. Shutdown'
  BY DEF TypeOK, Shutdown, Section
<1> QED
  BY <1>1, <1>2, <1>3, <1>4, <1>5

LEMMA ReturnCacheInv == ASSUME PoolInv, NEW t \in Threads, ReturnCache(t) PROVE PoolInv'
<1> USE PoolAssumption DEF PoolInv, ReturnCache, Delete, Goto, Take, Own, list
<1>1. TypeOK'
  BY DEF TypeOK, Section, Pointers, Pushing, Popped
<1>2. MutualExclusion'
  BY DEF TypeOK, MutualExclusion, Section
<1>3. Pointers'
  BY DEF TypeOK, MutualExclusion, Section, Pointers, Pushing, Popped
<1>4. ListShape'
  BY DEF TypeOK, ListShape, Pooled, Front, Pointers, Pushing, Popped, Shutdown, Section
<1>5. Shutdown'
  BY DEF TypeOK, Shutdown, Section
<1> QED
  BY <1>1, <1>2, <1>3, <1>4, <1>5

LEMMA DestroyInv == ASSUME PoolInv, Destroy PROVE PoolInv'
<1> USE PoolAssumption DEF PoolInv, Destroy, Own, list
<1>1. TypeOK'
  BY DEF TypeOK
<1>2. MutualExclusion'
  BY DEF MutualExclusion
<1>3. Pointers'
  BY DEF TypeOK, Pointers, Pushing, Popped, ListShape, Pooled, Front, Shutdown
<1>4. ListShape'
  BY DEF TypeOK, ListShape, Pooled, Front, Shutdown
<1>5. Shutdown'
  BY DEF TypeOK, Shutdown
<1> QED
  BY <1>1, <1>2, <1>3, <1>4, <1>5

LEMMA SweepInv == ASSUME PoolInv, Sweep PROVE PoolInv'
<1> USE PoolAssumption DEF PoolInv, Sweep, Own, list
<1>1. TypeOK'
  BY DEF TypeOK
<1>2. MutualExclusion'
  BY DEF MutualExclusion
<1>3. Pointers'
  BY DEF TypeOK, Pointers, Pushing, Popped, ListShape, Pooled, Front, Shutdown
<1>4. ListShape'
  BY DEF TypeOK, ListShape, Pooled, Front, Shutdown
<1>5. Shutdown'
  BY DEF TypeOK, Shutdown
<1> QED
  BY <1>1, <1>2, <1>3, <1>4, <1>5

LEMMA NextInv == PoolInv /\ [Next]_vars => PoolInv'
<1> SUFFICES ASSUME PoolInv, [Next]_vars PROVE PoolInv'
  OBVIOUS
<1>1. ASSUME NEW t \in Threads, Thread(t) PROVE PoolInv'
  BY <1>1, BorrowCacheInv, PeekInv, SpinInv, CompareExchangeInv, PopInv, UnlinkInv, LinkInv,
     PublishInv, CountInv, UnlockInv, NewInv, ReturnCacheInv DEF Thread
<1>2. CASE Destroy
  BY <1>2, DestroyInv
<1>3. CASE Sweep
  BY <1>3, SweepInv
<1>4. CASE UNCHANGED vars
  BY <1>4 DEF vars, list, PoolInv, TypeOK, MutualExclusion, Pointers, Pushing, Popped, ListShape,
     Pooled, Front, Shutdown
<1> QED
  BY <1>1, <1>2, <1>3, <1>4 DEF Next

LEMMA Invariance == Spec => []PoolInv
BY InitInv, NextInv, PTL DEF Spec

(* The test-and-set lock of the list admits one thread at a time. *)
THEOREM LockExcludes == Spec => []MutualExclusion
<1>1. PoolInv => MutualExclusion
  BY DEF PoolInv
<1> QED
  BY <1>1, Invariance, PTL

(* A converter in use belongs to one thread and is not in the list, although *)
(* the list is peeked at and its depth read without the lock.                *)
THEOREM ConvertersNotShared == Spec => []OneUser
<1>1. PoolInv => OneUser
  BY DEF PoolInv, Pointers, OneUser
<1> QED
  BY <1>1, Invariance, PTL

----
(***************************************************************************)
(* The whole list.  PoolInv says of it only what two neighbours know of    *)
(* each other; its length needs all of it.                                 *)
(***************************************************************************)
ListInv == \E n \in Nat : \E f \in [1 .. n -> Caches] : Chain(n, f) /\ Counted(n)

(* The list stays as it is when no pooled converter and no pointer changes. *)
LEMMA ChainKept ==
  ASSUME NEW n \in Nat, NEW f \in [1 .. n -> Caches], Chain(n, f), Front' = Front,
         \A c \in Caches : Pooled(c)' = Pooled(c),
         \A c \in Caches : Pooled(c) => next'[c] = next[c]
  PROVE  Chain(n, f)'
<1>1. \A i \in 1 .. n : f[i] \in Caches /\ Pooled(f[i])
  BY DEF Chain
<1> QED
  BY <1>1 DEF Chain

(* The steps that leave the list and the depth alone. *)
LEMMA ListKept ==
  ASSUME PoolInv, ListInv, UNCHANGED <<head, depth, sweep, s_PoolDestroyed>>,
         \A c \in Caches : Pooled(c)' = Pooled(c),
         \A c \in Caches : Pooled(c) => next'[c] = next[c],
         \A t \in Threads : pc[t] = "count" <=> pc'[t] = "count",
         \A t \in Threads : pc[t] = "count" => op'[t] = op[t]
  PROVE  ListInv'
<1>0. PICK n \in Nat : \E f \in [1 .. n -> Caches] : Chain(n, f) /\ Counted(n)
  BY DEF ListInv
<1>1. PICK f \in [1 .. n -> Caches] : Chain(n, f) /\ Counted(n)
  BY <1>0
<1>2. Chain(n, f)'
  BY <1>1, ChainKept DEF Front
<1>3. Counted(n)'
  BY <1>1 DEF Counted
<1> QED
  BY <1>2, <1>3 DEF ListInv

LEMMA InitList == ASSUME Init PROVE ListInv /\ InHand
<1>1. \A f \in [1 .. 0 -> Caches] : Chain(0, f) /\ Counted(0)
  BY DEF Init, Chain, Counted, Front, Pooled
<1>2. [i \in 1 .. 0 |-> Null] \in [1 .. 0 -> Caches]
  OBVIOUS
<1>3. InHand
  BY PoolAssumption DEF Init, InHand
<1> QED
  BY <1>1, <1>2, <1>3 DEF ListInv

(* Taking the front away; what is left is the list without its last entry. *)
LEMMA ChainShortened ==
  ASSUME NEW n \in Nat, NEW f \in [1 .. n -> Caches], Chain(n, f), Front # Null,
         TypeOK, UNCHANGED next, Front' = next[Front],
         NEW who, who # "pool", owner' = [owner EXCEPT ![Front] = who]
  PROVE  /\ n - 1 \in Nat
         /\ \E g \in [1 .. n - 1 -> Caches] : Chain(n - 1, g)'
<1> DEFINE g == [i \in 1 .. n - 1 |-> f[i]]
<1>1. n \in Nat \ {0} /\ Front = f[n] /\ f[n] \in Caches
  BY DEF Chain
<1>2. g \in [1 .. n - 1 -> Caches] /\ \A i \in 1 .. n - 1 : g[i] = f[i] /\ f[i] # f[n]
  BY <1>1 DEF Chain
<1>3. \A c \in Caches : Pooled(c)' <=> c # f[n] /\ Pooled(c)
  BY <1>1 DEF TypeOK, Pooled
<1> HIDE DEF g
<1>4. Front' = IF n - 1 = 0 THEN Null ELSE g[n - 1]
  BY <1>1, <1>2 DEF Chain
<1>5. \A i \in 1 .. n - 1 : next'[g[i]] = IF i = 1 THEN Null ELSE g[i - 1]
  BY <1>1, <1>2 DEF Chain
<1>6. \A c \in Caches : Pooled(c)' <=> \E i \in 1 .. n - 1 : g[i] = c
  <2>1. \A c \in Caches : Pooled(c) <=> \E i \in 1 .. n : f[i] = c
    BY DEF Chain
  <2> QED
    BY <2>1, <1>1, <1>2, <1>3
<1>7. \A i, j \in 1 .. n - 1 : g[i] = g[j] => i = j
  BY <1>1, <1>2 DEF Chain
<1> QED
  BY <1>1, <1>2, <1>4, <1>5, <1>6, <1>7 DEF Chain

(* Putting a converter that was not in the list before the front. *)
LEMMA ChainExtended ==
  ASSUME NEW n \in Nat, NEW f \in [1 .. n -> Caches], Chain(n, f), TypeOK, UNCHANGED next,
         NEW c \in Caches, ~Pooled(c), next[c] = Front, Front' = c,
         owner' = [owner EXCEPT ![c] = "pool"]
  PROVE  \E g \in [1 .. n + 1 -> Caches] : Chain(n + 1, g)'
<1> DEFINE g == [i \in 1 .. n + 1 |-> IF i = n + 1 THEN c ELSE f[i]]
<1>1. /\ g \in [1 .. n + 1 -> Caches] /\ g[n + 1] = c
      /\ \A i \in 1 .. n : g[i] = f[i] /\ f[i] # c
  BY DEF Chain
<1> HIDE DEF g
<1>2. \A d \in Caches : Pooled(d)' <=> d = c \/ Pooled(d)
  BY DEF TypeOK, Pooled
<1>3. Front' = IF n + 1 = 0 THEN Null ELSE g[n + 1]
  BY <1>1
<1>4. \A i \in 1 .. n + 1 : next'[g[i]] = IF i = 1 THEN Null ELSE g[i - 1]
  <2>1. CASE n = 0
    BY <2>1, <1>1 DEF Chain
  <2>2. CASE n # 0
    BY <2>2, <1>1 DEF Chain
  <2> QED
    BY <2>1, <2>2
<1>5. \A d \in Caches : Pooled(d)' <=> \E i \in 1 .. n + 1 : g[i] = d
  <2>1. \A d \in Caches : Pooled(d) <=> \E i \in 1 .. n : f[i] = d
    BY DEF Chain
  <2>2. \A i \in 1 .. n + 1 : i = n + 1 \/ i \in 1 .. n
    OBVIOUS
  <2>3. n + 1 \in 1 .. n + 1 /\ \A i \in 1 .. n : i \in 1 .. n + 1
    OBVIOUS
  <2> QED
    BY <2>1, <2>2, <2>3, <1>1, <1>2
<1>6. \A i, j \in 1 .. n + 1 : g[i] = g[j] => i = j
  BY <1>1 DEF Chain
<1> QED
  BY <1>1, <1>3, <1>4, <1>5, <1>6 DEF Chain

LEMMA UnlinkList == ASSUME PoolInv, ListInv, NEW t \in Threads, Unlink(t) PROVE ListInv'
<1>0. PICK n \in Nat : \E f \in [1 .. n -> Caches] : Chain(n, f) /\ Counted(n)
  BY DEF ListInv
<1>1. PICK f \in [1 .. n -> Caches] : Chain(n, f) /\ Counted(n)
  BY <1>0
<1>2. /\ ~s_PoolDestroyed /\ Front = head /\ node[t] = head /\ head # Null /\ op[t] = "pop"
  BY DEF PoolInv, Pointers, Shutdown, Front, Unlink, Section
<1>3. \A u \in Threads : u # t => pc[u] # "count"
  BY DEF PoolInv, MutualExclusion, Section, Unlink
<1>4. /\ pc[t] = "unlink" /\ pc' = [pc EXCEPT ![t] = "count"]
      /\ head' = next[node[t]] /\ owner' = [owner EXCEPT ![node[t]] = t]
      /\ UNCHANGED <<depth, next, op, s_PoolDestroyed>>
  BY DEF Unlink, Goto, Own
<1>5. Front' = next[Front] /\ t # "pool" /\ TypeOK
  BY <1>2, <1>4, PoolAssumption DEF Front, PoolInv
<1>6. n - 1 \in Nat /\ \E g \in [1 .. n - 1 -> Caches] : Chain(n - 1, g)'
  BY <1>1, <1>2, <1>4, <1>5, ChainShortened
<1>7. Counted(n - 1)'
  BY <1>1, <1>2, <1>3, <1>4, <1>5 DEF Counted, TypeOK
<1> QED
  BY <1>6, <1>7 DEF ListInv

LEMMA PublishList == ASSUME PoolInv, ListInv, NEW t \in Threads, Publish(t) PROVE ListInv'
<1>0. PICK n \in Nat : \E f \in [1 .. n -> Caches] : Chain(n, f) /\ Counted(n)
  BY DEF ListInv
<1>1. PICK f \in [1 .. n -> Caches] : Chain(n, f) /\ Counted(n)
  BY <1>0
<1>2. /\ pc[t] = "publish" /\ pc' = [pc EXCEPT ![t] = "count"]
      /\ head' = node[t] /\ owner' = [owner EXCEPT ![node[t]] = "pool"]
      /\ UNCHANGED <<depth, next, op, s_PoolDestroyed>>
  BY DEF Publish, Goto, Own
<1>3. /\ ~s_PoolDestroyed /\ Front = head /\ op[t] = "push" /\ TypeOK
      /\ node[t] # Null /\ owner[node[t]] = t /\ next[node[t]] = head
  BY <1>2 DEF PoolInv, Pointers, Pushing, Shutdown, Front, Section
<1>4. \A u \in Threads : u # t => pc[u] # "count"
  BY <1>2 DEF PoolInv, MutualExclusion, Section
<1>5. node[t] \in Caches /\ ~Pooled(node[t]) /\ Front' = node[t]
  BY <1>2, <1>3, PoolAssumption DEF TypeOK, Pooled, Front
<1>6. \E g \in [1 .. n + 1 -> Caches] : Chain(n + 1, g)'
  BY <1>1, <1>2, <1>3, <1>5, ChainExtended
<1>7. Counted(n + 1)'
  BY <1>1, <1>2, <1>3, <1>4 DEF Counted, TypeOK
<1> QED
  BY <1>6, <1>7 DEF ListInv

LEMMA CountList == ASSUME PoolInv, ListInv, NEW t \in Threads, Count(t) PROVE ListInv'
<1>0. PICK n \in Nat : \E f \in [1 .. n -> Caches] : Chain(n, f) /\ Counted(n)
  BY DEF ListInv
<1>1. PICK f \in [1 .. n -> Caches] : Chain(n, f) /\ Counted(n)
  BY <1>0
<1>2. /\ pc[t] = "count" /\ pc' = [pc EXCEPT ![t] = "unlock"]
      /\ depth' = (IF op[t] = "pop" THEN depth - 1 ELSE depth + 1)
      /\ UNCHANGED <<head, next, op, sweep, owner, s_PoolDestroyed>>
  BY DEF Count, Goto
<1>3. ~s_PoolDestroyed /\ TypeOK
  BY <1>2 DEF PoolInv, Shutdown
<1>4. \A u \in Threads : pc'[u] # "count"
  BY <1>2 DEF PoolInv, MutualExclusion, Section, TypeOK
<1>5. depth = IF op[t] = "pop" THEN n + 1 ELSE n - 1
  BY <1>1, <1>2, <1>3 DEF Counted
<1>6. Counted(n)'
  BY <1>2, <1>3, <1>4, <1>5 DEF Counted
<1>7. Chain(n, f)'
  BY <1>1, <1>2, ChainKept DEF Front, Pooled
<1> QED
  BY <1>6, <1>7 DEF ListInv

LEMMA SweepList == ASSUME PoolInv, ListInv, Sweep PROVE ListInv'
<1>0. PICK n \in Nat : \E f \in [1 .. n -> Caches] : Chain(n, f) /\ Counted(n)
  BY DEF ListInv
<1>1. PICK f \in [1 .. n -> Caches] : Chain(n, f) /\ Counted(n)
  BY <1>0
<1>2. s_PoolDestroyed /\ Front = sweep /\ sweep # Null /\ TypeOK
  BY DEF PoolInv, Shutdown, Front, Sweep
<1>3. /\ Front' = next[Front] /\ owner' = [owner EXCEPT ![Front] = "none"]
      /\ UNCHANGED <<depth, next, s_PoolDestroyed>>
  BY <1>2 DEF Sweep, Front, Own, list
<1>4. n - 1 \in Nat /\ \E g \in [1 .. n - 1 -> Caches] : Chain(n - 1, g)'
  BY <1>1, <1>2, <1>3, ChainShortened
<1>5. Counted(n - 1)'
  BY <1>1, <1>2, <1>3 DEF Counted
<1> QED
  BY <1>4, <1>5 DEF ListInv

LEMMA DestroyList == ASSUME PoolInv, ListInv, Destroy PROVE ListInv'
<1>0. PICK n \in Nat : \E f \in [1 .. n -> Caches] : Chain(n, f) /\ Counted(n)
  BY DEF ListInv
<1>1. PICK f \in [1 .. n -> Caches] : Chain(n, f) /\ Counted(n)
  BY <1>0
<1>2. Front' = Front /\ next' = next /\ owner' = owner /\ s_PoolDestroyed' /\ depth' = 0
  BY DEF Destroy, Front
<1>3. Chain(n, f)' /\ Counted(n)'
  BY <1>1, <1>2, ChainKept DEF Pooled, Counted
<1> QED
  BY <1>3 DEF ListInv

LEMMA ThreadList == ASSUME PoolInv, ListInv, NEW t \in Threads, Thread(t) PROVE ListInv'
<1> USE DEF Goto, Take, Own, list
<1>1. TypeOK /\ t # "pool"
  BY PoolAssumption DEF PoolInv
<1>2. CASE BorrowCache(t) \/ Peek(t) \/ Spin(t) \/ CompareExchange(t) \/ Pop(t) \/ Unlock(t)
  BY <1>1, <1>2, ListKept
     DEF BorrowCache, Peek, Spin, CompareExchange, Entry, Pop, Unlock, TypeOK, Pooled
<1>3. CASE Link(t)
  <2>1. owner[node[t]] = t
    BY <1>3 DEF Link, PoolInv, Pointers, Pushing
  <2> QED
    BY <1>1, <1>3, <2>1, ListKept DEF Link, TypeOK, Pooled
<1>4. CASE New(t)
  BY <1>1, <1>4, ListKept DEF New, TypeOK, Pooled
<1>5. CASE ReturnCache(t)
  <2>1. owner[node[t]] = t
    BY <1>5 DEF ReturnCache, PoolInv, Pointers
  <2> QED
    BY <1>1, <1>5, <2>1, ListKept DEF ReturnCache, Delete, TypeOK, Pooled
<1> QED
  BY <1>2, <1>3, <1>4, <1>5, UnlinkList, PublishList, CountList DEF Thread

(* Who owns a converter holds it, whatever the other threads do. *)
LEMMA ThreadHands == ASSUME PoolInv, InHand, NEW t \in Threads, Thread(t) PROVE InHand'
<1> USE PoolAssumption DEF Goto, Take, Own, list, InHand, Pushing, Popped
<1>1. TypeOK /\ Pointers
  BY DEF PoolInv
<1>2. CASE BorrowCache(t)
  BY <1>1, <1>2 DEF BorrowCache, TypeOK, Pointers, Section
<1>3. CASE Peek(t)
  BY <1>1, <1>3 DEF Peek, TypeOK, Pointers, Section
<1>4. CASE Spin(t)
  BY <1>1, <1>4 DEF Spin, TypeOK, Pointers, Section
<1>5. CASE CompareExchange(t)
  BY <1>1, <1>5 DEF CompareExchange, Entry, TypeOK, Pointers, Section
<1>6. CASE Pop(t)
  BY <1>1, <1>6 DEF Pop, TypeOK, Pointers, Section
<1>7. CASE Unlink(t)
  BY <1>1, <1>7 DEF Unlink, TypeOK, Pointers, Section
<1>8. CASE Link(t)
  BY <1>1, <1>8 DEF Link, TypeOK, Pointers, Section
<1>9. CASE Publish(t)
  BY <1>1, <1>9 DEF Publish, TypeOK, Pointers, Section
<1>10. CASE Count(t)
  BY <1>1, <1>10 DEF Count, TypeOK, Pointers, Section
<1>11. CASE Unlock(t)
  BY <1>1, <1>11 DEF Unlock, TypeOK, Pointers, Section
<1>12. CASE New(t)
  BY <1>1, <1>12 DEF New, TypeOK, Pointers, Section
<1>13. CASE ReturnCache(t)
  BY <1>1, <1>13 DEF ReturnCache, Delete, TypeOK, Pointers, Section
<1> QED
  BY <1>2, <1>3, <1>4, <1>5, <1>6, <1>7, <1>8, <1>9, <1>10, <1>11, <1>12, <1>13 DEF Thread

LEMMA NextList == PoolInv /\ ListInv /\ InHand /\ [Next]_vars => ListInv' /\ InHand'
<1> SUFFICES ASSUME PoolInv, ListInv, InHand, [Next]_vars PROVE ListInv' /\ InHand'
  OBVIOUS
<1>1. ASSUME NEW t \in Threads, Thread(t) PROVE ListInv' /\ InHand'
  BY <1>1, ThreadList, ThreadHands
<1>2. CASE Destroy
  <2>1. InHand'
    BY <1>2 DEF Destroy, InHand, Pushing, Popped
  <2> QED
    BY <1>2, <2>1, DestroyList
<1>3. CASE Sweep
  <2>1. sweep \in Caches /\ owner' = [owner EXCEPT ![sweep] = "none"] /\ UNCHANGED <<pc, node, op>>
    BY <1>3 DEF Sweep, Own, PoolInv, TypeOK
  <2>2. InHand'
    BY <2>1, PoolAssumption DEF InHand, Pushing, Popped, PoolInv, TypeOK
  <2> QED
    BY <1>3, <2>2, SweepList
<1>4. CASE UNCHANGED vars
  <2>1. InHand'
    BY <1>4 DEF vars, list, InHand, Pushing, Popped
  <2>2. ListInv'
    BY <1>4, ListKept DEF vars, list, Pooled
  <2> QED
    BY <2>1, <2>2
<1> QED
  BY <1>1, <1>2, <1>3, <1>4 DEF Next

LEMMA WholeList == Spec => [](PoolInv /\ ListInv /\ InHand)
<1>1. Init => PoolInv /\ ListInv /\ InHand
  BY InitInv, InitList
<1>2. (PoolInv /\ ListInv /\ InHand) /\ [Next]_vars => (PoolInv /\ ListInv /\ InHand)'
  BY NextInv, NextList
<1> QED
  BY <1>1, <1>2, PTL DEF Spec

(* The depth that ReturnCache compares with the limit is the number of idle  *)
(* converters whenever the lock is free: it does not drift, however the      *)
(* threads interleave.                                                       *)
THEOREM DepthIsListLength == Spec => []DepthIsLength
<1>1. ASSUME PoolInv, ListInv, mutex = 0
      PROVE  depth = Cardinality({c \in Caches : owner[c] = "pool" /\ ~s_PoolDestroyed})
  <2> DEFINE Idle == {c \in Caches : owner[c] = "pool" /\ ~s_PoolDestroyed}
  <2>1. PICK n \in Nat : \E f \in [1 .. n -> Caches] : Chain(n, f) /\ Counted(n)
    BY <1>1 DEF ListInv
  <2>2. PICK f \in [1 .. n -> Caches] : Chain(n, f) /\ Counted(n)
    BY <2>1
  <2>3. CASE s_PoolDestroyed
    <3>1. Idle = {} /\ depth = 0
      BY <2>2, <2>3 DEF Counted
    <3> QED
      BY <3>1, FS_EmptySet
  <2>4. CASE ~s_PoolDestroyed
    <3>1. depth = n
      BY <1>1, <2>2, <2>4 DEF Counted, PoolInv, MutualExclusion, Section
    <3>2. \A c \in Caches : c \in Idle <=> \E i \in 1 .. n : f[i] = c
      BY <2>2, <2>4 DEF Chain, Pooled
    <3>3. \A i, j \in 1 .. n : f[i] = f[j] => i = j
      BY <2>2 DEF Chain
    <3>4. f \in Bijection(1 .. n, Idle)
      BY <3>2, <3>3 DEF Bijection, Injection, Surjection, IsInjective
    <3>5. ExistsBijection(1 .. n, Idle)
      BY <3>4 DEF ExistsBijection
    <3>6. Cardinality(Idle) = n
      BY <3>5, FS_CountingElements
    <3> QED
      BY <3>1, <3>6
  <2> QED
    BY <2>3, <2>4
<1>2. PoolInv /\ ListInv => DepthIsLength
  BY <1>1 DEF DepthIsLength
<1> QED
  BY <1>2, WholeList, PTL

(* Once the exit handlers have emptied the list and every string has been    *)
(* converted, no converter is left: none was dropped between a user and the  *)
(* list, and none hid in the list from the destructor.                       *)
THEOREM NothingLeftAllocated == Spec => []NothingLeaked
<1>1. PoolInv /\ ListInv /\ InHand => NothingLeaked
  <2> SUFFICES ASSUME PoolInv, ListInv, InHand, s_PoolDestroyed, sweep = Null,
                      \A t \in Threads : pc[t] = "idle", NEW c \in Caches
               PROVE  owner[c] = "none"
    BY DEF NothingLeaked
  <2>1. ~Pooled(c)
    <3>1. PICK n \in Nat : \E f \in [1 .. n -> Caches] : Chain(n, f)
      BY DEF ListInv
    <3>2. PICK f \in [1 .. n -> Caches] : Chain(n, f)
      BY <3>1
    <3>3. n = 0
      BY <3>2, PoolAssumption DEF Chain, Front
    <3> QED
      BY <3>2, <3>3 DEF Chain
  <2>2. \A t \in Threads : owner[c] # t
    BY DEF InHand, Pushing, Popped
  <2> QED
    BY <2>1, <2>2 DEF Pooled, PoolInv, TypeOK
<1> QED
  BY <1>1, WholeList, PTL

----
(***************************************************************************)
(* The refinement.  A converter changes hands in one step each time, and   *)
(* the other steps of the list are steps of nobody.                        *)
(***************************************************************************)
LEMMA ThreadMapped ==
  ASSUME PoolInv, InHand, NEW t \in Threads, Thread(t)
  PROVE  Abstract!Next \/ UNCHANGED Abstract!vars
<1> USE PoolAssumption DEF Goto, Take, Own, list
<1>1. TypeOK /\ Pointers /\ Shutdown
  BY DEF PoolInv
<1>2. CASE BorrowCache(t) \/ Peek(t) \/ Spin(t) \/ CompareExchange(t) \/ Pop(t) \/ Link(t)
           \/ Count(t) \/ Unlock(t)
  BY <1>2 DEF BorrowCache, Peek, Spin, CompareExchange, Pop, Link, Count, Unlock, Abstract!vars
<1>3. CASE Unlink(t)
  <2>1. /\ node[t] \in Caches /\ owner[node[t]] = "pool" /\ ~s_PoolDestroyed /\ op[t] = "pop"
    BY <1>1, <1>3 DEF Unlink, PoolInv, Pointers, ListShape, Pooled, Front, TypeOK, Shutdown
  <2>2. \A c \in Caches : owner[c] # t
    BY <1>3, <2>1 DEF Unlink, InHand, Pushing, Popped
  <2>3. Abstract!Borrow(t, node[t])
    BY <1>3, <2>1, <2>2 DEF Unlink, Abstract!Borrow, Abstract!EmptyHanded, Abstract!Moves
  <2> QED
    BY <2>1, <2>3 DEF Abstract!Next
<1>4. CASE Publish(t)
  <2>1. node[t] \in Caches /\ owner[node[t]] = t /\ ~s_PoolDestroyed
    BY <1>1, <1>4 DEF Publish, Pointers, Pushing, TypeOK, Shutdown
  <2>2. Abstract!GiveBack(t, node[t])
    BY <1>4, <2>1 DEF Publish, Abstract!GiveBack, Abstract!Moves
  <2> QED
    BY <2>1, <2>2 DEF Abstract!Next
<1>5. CASE New(t)
  <2>1. \A c \in Caches : owner[c] # t
    BY <1>1, <1>5 DEF New, InHand, Pushing, Popped
  <2>2. (\E c \in Caches : Abstract!Create(t, c)) \/ UNCHANGED Abstract!vars
    BY <1>5, <2>1
       DEF New, Abstract!Create, Abstract!EmptyHanded, Abstract!Moves, Abstract!vars
  <2> QED
    BY <2>2 DEF Abstract!Next
<1>6. CASE ReturnCache(t)
  <2>1. node[t] \in Caches /\ owner[node[t]] = t
    BY <1>1, <1>6 DEF ReturnCache, Pointers, TypeOK
  <2>2. Abstract!Delete(t, node[t]) \/ UNCHANGED Abstract!vars
    BY <1>6, <2>1 DEF ReturnCache, Delete, Abstract!Delete, Abstract!Moves, Abstract!vars
  <2> QED
    BY <2>1, <2>2 DEF Abstract!Next
<1> QED
  BY <1>2, <1>3, <1>4, <1>5, <1>6 DEF Thread

(* The pool is a set of converters, borrowed and returned at one moment each *)
(* and by at most one thread: nothing of the list, the lock or the reads     *)
(* outside it shows through.                                                 *)
THEOREM PoolImplementsSet == Spec => BorrowsAndReturns
<1>1. Init => Abstract!Init
  BY DEF Init, Abstract!Init
<1>2. (PoolInv /\ InHand) /\ [Next]_vars => [Abstract!Next]_(Abstract!vars)
  <2> SUFFICES ASSUME PoolInv, InHand, [Next]_vars
               PROVE  Abstract!Next \/ UNCHANGED Abstract!vars
    OBVIOUS
  <2>1. ASSUME NEW t \in Threads, Thread(t) PROVE Abstract!Next \/ UNCHANGED Abstract!vars
    BY <2>1, ThreadMapped
  <2>2. CASE Destroy
    <3>1. Abstract!Close
      BY <2>2 DEF Destroy, Abstract!Close
    <3> QED
      BY <3>1 DEF Abstract!Next
  <2>3. CASE Sweep
    <3>1. /\ sweep \in Caches /\ owner[sweep] = "pool" /\ s_PoolDestroyed
          /\ owner' = [owner EXCEPT ![sweep] = "none"] /\ UNCHANGED s_PoolDestroyed
      BY <2>3 DEF Sweep, Own, PoolInv, TypeOK, ListShape, Front, Pooled, Shutdown
    <3>2. Abstract!Discard(sweep)
      BY <3>1 DEF Abstract!Discard, Abstract!Moves
    <3> QED
      BY <3>1, <3>2 DEF Abstract!Next
  <2>4. CASE UNCHANGED vars
    BY <2>4 DEF vars, Abstract!vars
  <2> QED
    BY <2>1, <2>2, <2>3, <2>4 DEF Next
<1> QED
  BY <1>1, <1>2, WholeList, PTL DEF Spec, BorrowsAndReturns, Abstract!Spec

====
