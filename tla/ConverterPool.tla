---- MODULE ConverterPool ----
(***************************************************************************)
(* IConvCachePool for one pair of code pages: threads borrow iconv         *)
(* converters from a linked list and return them.  The list is guarded by  *)
(* a test-and-set spin lock (interlockedslist.h); its head is peeked at    *)
(* and its depth is read without the lock.  The destructor of the pool     *)
(* empties it when the process exits.                                      *)
(*                                                                         *)
(* A step is one access to memory that other threads use, in program order *)
(* (volatile accesses on x86, where stores are not reordered).  An         *)
(* operator named Of_Slip is a slip a programmer could make in Of.         *)
(***************************************************************************)
EXTENDS Integers, FiniteSets

CONSTANTS
  Threads,
  Caches,          \* the addresses an IConvCache can be allocated at
  Null,
  MAX_POOL_SIZE

ASSUME PoolAssumption ==
  /\ Null \notin Caches /\ MAX_POOL_SIZE \in Nat
  /\ \A t \in Threads : t \notin {"none", "pool"}

VARIABLES
  head, depth, mutex,  \* the SLIST_HEADER
  next,                \* the Next field of every IConvCache
  pc, node,            \* where each thread is, and its pCache or newEntry
  op,                  \* what it wants the lock for: "pop" or "push"
  s_PoolDestroyed,
  sweep,               \* pNode of the destructor's loop
  owner                \* history: who has each IConvCache: "none", "pool" or a thread

list == <<head, depth, mutex, next>>
vars == <<list, pc, node, op, s_PoolDestroyed, sweep, owner>>

Goto(t, label) == pc' = [pc EXCEPT ![t] = label]
Take(t, c) == node' = [node EXCEPT ![t] = c]
Own(c, who) == owner' = [owner EXCEPT ![c] = who]

Init ==
  /\ head = Null /\ depth = 0 /\ mutex = 0
  /\ next = [c \in Caches |-> Null]
  /\ pc = [t \in Threads |-> "idle"]
  /\ node = [t \in Threads |-> Null]
  /\ op = [t \in Threads |-> "pop"]
  /\ s_PoolDestroyed = FALSE
  /\ sweep = Null
  /\ owner = [c \in Caches |-> "none"]

----
(* EncodingConverter::Initialize: BorrowCache. *)
BorrowCache(t) ==
  /\ pc[t] = "idle"
  /\ Goto(t, IF s_PoolDestroyed THEN "new" ELSE "peek")
  /\ op' = [op EXCEPT ![t] = "pop"]
  /\ UNCHANGED <<list, node, s_PoolDestroyed, sweep, owner>>

(* InterlockedPopEntrySList, before the lock: an empty list is left at once. *)
Peek(t) ==
  /\ pc[t] = "peek"
  /\ Goto(t, IF head = Null THEN "new" ELSE "spin")
  /\ UNCHANGED <<list, node, op, s_PoolDestroyed, sweep, owner>>

(* The lock: `0 != Mutex || 0 != CompareExchange`, a read and then the exchange. *)
Spin(t) ==
  /\ pc[t] = "spin"
  /\ Goto(t, IF mutex = 0 THEN "cas" ELSE "spin")
  /\ UNCHANGED <<list, node, op, s_PoolDestroyed, sweep, owner>>

Entry(t) == IF op[t] = "pop" THEN "pop" ELSE "link"

CompareExchange_StoreOnly(t) ==
  /\ pc[t] = "cas"
  /\ mutex' = 1
  /\ Goto(t, Entry(t))
  /\ UNCHANGED <<head, depth, next, node, op, s_PoolDestroyed, sweep, owner>>

CompareExchange(t) ==
  /\ pc[t] = "cas"
  /\ mutex' = 1
  /\ Goto(t, IF mutex = 0 THEN Entry(t) ELSE "spin")
  /\ UNCHANGED <<head, depth, next, node, op, s_PoolDestroyed, sweep, owner>>

Pop_TrustPeek(t) ==
  /\ pc[t] = "pop"
  /\ Take(t, head)
  /\ Goto(t, IF head = Null THEN "new" ELSE "unlink")
  /\ UNCHANGED <<list, op, s_PoolDestroyed, sweep, owner>>

(* The head is read again under the lock: the list may have become empty. *)
Pop(t) ==
  /\ pc[t] = "pop"
  /\ Take(t, head)
  /\ Goto(t, IF head = Null THEN "unlock" ELSE "unlink")
  /\ UNCHANGED <<list, op, s_PoolDestroyed, sweep, owner>>

Unlink(t) ==
  /\ pc[t] = "unlink"
  /\ head' = next[node[t]]
  /\ Own(node[t], t)
  /\ Goto(t, "count")
  /\ UNCHANGED <<depth, mutex, next, node, op, s_PoolDestroyed, sweep>>

(* InterlockedPushEntrySList: newEntry->Next = oldHead; Head = newEntry. *)
Link(t) ==
  /\ pc[t] = "link"
  /\ next' = [next EXCEPT ![node[t]] = head]
  /\ Goto(t, "publish")
  /\ UNCHANGED <<head, depth, mutex, node, op, s_PoolDestroyed, sweep, owner>>

Publish(t) ==
  /\ pc[t] = "publish"
  /\ head' = node[t]
  /\ Own(node[t], "pool")
  /\ Goto(t, "count")
  /\ UNCHANGED <<depth, mutex, next, node, op, s_PoolDestroyed, sweep>>

Count_PopForgotten(t) ==
  /\ pc[t] = "count"
  /\ depth' = depth + 1
  /\ Goto(t, "unlock")
  /\ UNCHANGED <<head, mutex, next, node, op, s_PoolDestroyed, sweep, owner>>

Count(t) ==
  /\ pc[t] = "count"
  /\ depth' = IF op[t] = "pop" THEN depth - 1 ELSE depth + 1
  /\ Goto(t, "unlock")
  /\ UNCHANGED <<head, mutex, next, node, op, s_PoolDestroyed, sweep, owner>>

(* Borrow makes a converter of its own when the list was empty. *)
Unlock(t) ==
  /\ pc[t] = "unlock"
  /\ mutex' = 0
  /\ \/ /\ op[t] = "pop"
        /\ Goto(t, IF node[t] = Null THEN "new" ELSE "using")
        /\ UNCHANGED node
     \/ /\ op[t] = "push"
        /\ Goto(t, "idle")
        /\ Take(t, Null)
  /\ UNCHANGED <<head, depth, next, op, s_PoolDestroyed, sweep, owner>>

(* new IConvCache; iconv_open may fail, and the borrower gets nothing. *)
New(t) ==
  /\ pc[t] = "new"
  /\ \/ \E c \in Caches :
          /\ owner[c] = "none"
          /\ Own(c, t)
          /\ Take(t, c)
          /\ Goto(t, "using")
     \/ /\ Goto(t, "idle")
        /\ UNCHANGED <<owner, node>>
  /\ UNCHANGED <<list, op, s_PoolDestroyed, sweep>>

Delete(t) ==
  /\ Own(node[t], "none")
  /\ Take(t, Null)
  /\ Goto(t, "idle")

ReturnCache_EvenDestroyed(t) ==
  /\ pc[t] = "using"
  /\ \/ /\ depth < MAX_POOL_SIZE
        /\ op' = [op EXCEPT ![t] = "push"]
        /\ Goto(t, "spin")
        /\ UNCHANGED <<node, owner>>
     \/ /\ depth >= MAX_POOL_SIZE
        /\ Delete(t)
        /\ UNCHANGED op
  /\ UNCHANGED <<list, s_PoolDestroyed, sweep>>

(* ~EncodingConverter: ReturnCache reads the depth without the lock. *)
ReturnCache(t) ==
  /\ pc[t] = "using"
  /\ \/ /\ ~s_PoolDestroyed /\ depth < MAX_POOL_SIZE
        /\ op' = [op EXCEPT ![t] = "push"]
        /\ Goto(t, "spin")
        /\ UNCHANGED <<node, owner>>
     \/ /\ s_PoolDestroyed \/ depth >= MAX_POOL_SIZE
        /\ Delete(t)
        /\ UNCHANGED op
  /\ UNCHANGED <<list, s_PoolDestroyed, sweep>>

(***************************************************************************)
(* ~IConvCachePool, run by the exit handlers when no thread is inside the  *)
(* pool (converters may still be out): InterlockedFlushSList, then the     *)
(* nodes of the list are deleted one by one.                               *)
(***************************************************************************)
Destroy ==
  /\ ~s_PoolDestroyed
  /\ \A t \in Threads : pc[t] \in {"idle", "using"}
  /\ s_PoolDestroyed' = TRUE
  /\ sweep' = head
  /\ head' = Null
  /\ depth' = 0
  /\ UNCHANGED <<mutex, next, pc, node, op, owner>>

Sweep ==
  /\ sweep # Null
  /\ sweep' = next[sweep]
  /\ Own(sweep, "none")
  /\ UNCHANGED <<list, pc, node, op, s_PoolDestroyed>>

----
InSection(t) == \/ Pop(t) \/ Unlink(t) \/ Link(t) \/ Publish(t) \/ Count(t) \/ Unlock(t)

Thread(t) ==
  \/ BorrowCache(t) \/ Peek(t) \/ Spin(t) \/ CompareExchange(t)
  \/ Pop(t) \/ Unlink(t) \/ Link(t) \/ Publish(t) \/ Count(t) \/ Unlock(t)
  \/ New(t) \/ ReturnCache(t)

Next == (\E t \in Threads : Thread(t)) \/ Destroy \/ Sweep

Spec == Init /\ [][Next]_vars

(* A thread that holds the lock is scheduled again and leaves its section. *)
FairSpec == Spec /\ \A t \in Threads : WF_vars(InSection(t))

----
Section == {"pop", "unlink", "link", "publish", "count", "unlock"}

TypeOK ==
  /\ head \in Caches \cup {Null} /\ sweep \in Caches \cup {Null}
  /\ depth \in Int /\ mutex \in {0, 1}
  /\ next \in [Caches -> Caches \cup {Null}]
  /\ pc \in [Threads -> {"idle", "peek", "spin", "cas", "new", "using"} \cup Section]
  /\ node \in [Threads -> Caches \cup {Null}]
  /\ op \in [Threads -> {"pop", "push"}]
  /\ s_PoolDestroyed \in BOOLEAN
  /\ owner \in [Caches -> {"none", "pool"} \cup Threads]

(* The spin lock: one thread at a time changes the list, and it holds the    *)
(* mutex.                                                                    *)
MutualExclusion ==
  /\ \A t, u \in Threads : pc[t] \in Section /\ pc[u] \in Section => t = u
  /\ (mutex = 1) <=> \E t \in Threads : pc[t] \in Section

(* A converter in use is used by one thread, is not in the list, and has not *)
(* been deleted: iconv_t objects must not be shared.                         *)
OneUser == \A t \in Threads : pc[t] = "using" => node[t] # Null /\ owner[node[t]] = t

(* What makes OneUser inductive: where each thread's node pointer stands ...  *)
Pushing(t) ==
  pc[t] \in {"link", "publish"} \/ (op[t] = "push" /\ pc[t] \in {"spin", "cas"})

Popped(t) == op[t] = "pop" /\ pc[t] \in {"count", "unlock"} /\ node[t] # Null

Pointers ==
  \A t \in Threads :
    /\ pc[t] = "using" \/ Pushing(t) \/ Popped(t) => node[t] # Null /\ owner[node[t]] = t
    /\ pc[t] \in {"idle", "peek", "new"} \/ (op[t] = "pop" /\ pc[t] \in {"spin", "cas", "pop"}) =>
         node[t] = Null
    /\ pc[t] \in {"peek", "new", "pop", "unlink"} => op[t] = "pop"
    /\ pc[t] \in {"link", "publish"} => op[t] = "push"
    /\ pc[t] = "unlink" => node[t] = head /\ head # Null
    /\ pc[t] = "publish" => next[node[t]] = head
    /\ pc[t] = "count" /\ op[t] = "pop" => node[t] # Null

(* ... and the shape of the list: it begins with a pooled converter, a pooled *)
(* one is followed by a pooled one, and no converter is entered twice.        *)
Front == IF s_PoolDestroyed THEN sweep ELSE head

Pooled(c) == owner[c] = "pool"

ListShape ==
  /\ Front # Null => Pooled(Front)
  /\ \A c \in Caches : Pooled(c) /\ next[c] # Null => Pooled(next[c]) /\ next[c] # Front
  /\ \A c, d \in Caches : Pooled(c) /\ Pooled(d) /\ next[c] = next[d] /\ next[c] # Null => c = d

(* The pool is destroyed while no thread is inside it. *)
Shutdown ==
  IF s_PoolDestroyed
  THEN head = Null /\ \A t \in Threads : pc[t] \in {"idle", "new", "using"}
  ELSE sweep = Null

(* The list from its end (f[1]) to its front (f[n]): every pooled converter   *)
(* is in it once.                                                             *)
Chain(n, f) ==
  /\ Front = IF n = 0 THEN Null ELSE f[n]
  /\ \A i \in 1 .. n : next[f[i]] = IF i = 1 THEN Null ELSE f[i - 1]
  /\ \A c \in Caches : Pooled(c) <=> \E i \in 1 .. n : f[i] = c
  /\ \A i, j \in 1 .. n : f[i] = f[j] => i = j

(* The depth follows the length of the list one step behind; exit resets it.  *)
Counted(n) ==
  IF s_PoolDestroyed THEN depth = 0
  ELSE /\ (\A t \in Threads : pc[t] # "count") => depth = n
       /\ \A t \in Threads : pc[t] = "count" => depth = IF op[t] = "pop" THEN n + 1 ELSE n - 1

(* A thread that owns a converter has it in its hands.                        *)
InHand == \A t \in Threads, c \in Caches :
  owner[c] = t => node[t] = c /\ (pc[t] = "using" \/ Pushing(t) \/ Popped(t))

PoolInv == TypeOK /\ MutualExclusion /\ Pointers /\ ListShape /\ Shutdown

(* Outside the critical section the depth is the number of converters in the *)
(* list: the limit of ReturnCache does not drift.                            *)
DepthIsLength ==
  mutex = 0 => depth = Cardinality({c \in Caches : owner[c] = "pool" /\ ~s_PoolDestroyed})

(* When the process has exited no converter is left allocated.               *)
NothingLeaked ==
  s_PoolDestroyed /\ sweep = Null /\ (\A t \in Threads : pc[t] = "idle") =>
    \A c \in Caches : owner[c] = "none"

(* The list, its lock and its unlocked reads implement a set of converters    *)
(* that are borrowed and returned at one moment: what Unlink takes is idle,   *)
(* what Publish and Delete give up is the thread's own, nothing is borrowed   *)
(* or returned after exit, and nobody who has a converter takes another.      *)
Abstract == INSTANCE ConverterSet WITH Converters <- Caches, holder <- owner, closed <- s_PoolDestroyed

BorrowsAndReturns == Abstract!Spec

(* No thread keeps the lock: the spinning ones get their chance.             *)
LockReleased == mutex = 1 ~> mutex = 0
====
