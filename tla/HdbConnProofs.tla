---- MODULE HdbConnProofs ----
(***************************************************************************)
(* Transactions end as the script was told and statement handles never     *)
(* outlive their connection, for every set of statements and writes, any   *)
(* number of failures and lost connections; and as long as no call fails,  *)
(* writes outside a transaction are durable and hdb_close ends the session. *)
(***************************************************************************)
EXTENDS HdbConn, TLAPS

(* Session e has the work of d, except that pending work may be settled. *)
Keeps(d, e) == \A w \in Writes : d.work[w] # "pending" => e.work[w] = d.work[w]

(* What a call to the session can come back with. *)
LEMMA CallShape ==
  ASSUME NEW d \in Sessions, NEW done \in Sessions, done.faults = d.faults,
         NEW c \in Call(d, done)
  PROVE  /\ c.db \in Sessions /\ c.ok \in BOOLEAN
         /\ c.ok => c.db = done /\ ~d.lost
         /\ \E q \in {d, done} : /\ c.db.work = q.work /\ c.db.autocommit = q.autocommit
                                 /\ c.db.lost = q.lost
<1>1. CASE c.ok
  BY <1>1, ConnAssumption DEF Call
<1>2. CASE ~c.ok
  <2>1. c.ok = FALSE /\ c.db \in IF d.lost THEN {d}
           ELSE {p \in {[q EXCEPT !.faults = d.faults + 1] :
                           q \in {d} \cup {x \in {done} : WarningsAsErrors}} : p.faults <= MaxFaults}
    BY <1>2 DEF Call
  <2>2. c.db = d \/ \E q \in {d, done} : /\ c.db = [q EXCEPT !.faults = d.faults + 1]
                                        /\ c.db.faults <= MaxFaults
    BY <2>1
  <2>3. CASE c.db = d
    BY <2>1, <2>3, <1>2
  <2>4. ASSUME NEW q \in {d, done}, c.db = [q EXCEPT !.faults = d.faults + 1], c.db.faults <= MaxFaults
        PROVE  c.db \in Sessions /\ c.db.work = q.work /\ c.db.autocommit = q.autocommit /\ c.db.lost = q.lost
    BY <2>4, ConnAssumption DEF Sessions
  <2> QED
    BY <2>1, <2>2, <2>3, <2>4, <1>2
<1> QED
  BY <1>1, <1>2 DEF Call

LEMMA SettleShape ==
  ASSUME NEW d \in Sessions, NEW fate \in {"durable", "undone"}
  PROVE  /\ Settle(d, fate) \in Sessions /\ Keeps(d, Settle(d, fate))
         /\ Settle(d, fate).faults = d.faults /\ Settle(d, fate).lost = d.lost
         /\ Settle(d, fate).autocommit = d.autocommit
         /\ \A w \in Writes : d.work[w] = "pending" => Settle(d, fate).work[w] = fate
<1> DEFINE work == [w \in Writes |-> IF d.work[w] = "pending" THEN fate ELSE d.work[w]]
<1>1. work \in [Writes -> {"none", "pending", "durable", "undone"}]
  BY DEF Sessions
<1>2. Settle(d, fate) = [d EXCEPT !.work = work]
  BY DEF Settle
<1>3. Settle(d, fate).work = work
  BY <1>2 DEF Sessions
<1> HIDE DEF work
<1>4. Settle(d, fate) \in Sessions /\ Settle(d, fate).faults = d.faults
      /\ Settle(d, fate).lost = d.lost /\ Settle(d, fate).autocommit = d.autocommit
  BY <1>1, <1>2 DEF Sessions
<1> QED
  BY <1>3, <1>4 DEF Keeps, work

(* core_hdb_commit and core_hdb_rollback: success means that everything *)
(* pending met the fate asked for, failure leaves the settled work alone. *)
LEMMA EndShape ==
  ASSUME db \in Sessions, NEW fate \in {"durable", "undone"}, NEW e \in EndTransaction(fate)
  PROVE  /\ e.db \in Sessions /\ e.ok \in BOOLEAN /\ Keeps(db, e.db)
         /\ e.ok => /\ ~db.lost
                    /\ \A w \in Writes : db.work[w] = "pending" => e.db.work[w] = fate
<1>1. PICK m \in SQLEndTran(db, fate) : e \in IF m.ok THEN SetAutocommit(m.db, TRUE) ELSE {m}
  BY DEF EndTransaction
<1> DEFINE ended == Settle(db, fate)
<1>2. ended \in Sessions /\ ended.faults = db.faults
  BY SettleShape
<1>3. /\ m.db \in Sessions /\ m.ok \in BOOLEAN
      /\ m.ok => m.db = ended /\ ~db.lost
      /\ \E q \in {db, ended} : m.db.work = q.work
  BY <1>1, <1>2, CallShape DEF SQLEndTran
<1>4. Keeps(db, m.db)
  BY <1>3, SettleShape DEF Keeps
<1>5. CASE ~m.ok
  BY <1>1, <1>3, <1>4, <1>5
<1>6. CASE m.ok
  <2> DEFINE auto == [Settle(m.db, "durable") EXCEPT !.autocommit = TRUE]
  <2>1. /\ auto \in Sessions /\ auto.faults = m.db.faults
        /\ auto.work = Settle(m.db, "durable").work
    <3> DEFINE settled == Settle(m.db, "durable")
    <3>1. settled \in Sessions /\ settled.faults = m.db.faults
      BY <1>3, SettleShape
    <3> HIDE DEF settled
    <3>2. LET r == [settled EXCEPT !.autocommit = TRUE]
          IN  r \in Sessions /\ r.faults = settled.faults /\ r.work = settled.work
      BY <3>1 DEF Sessions
    <3> QED
      BY <3>1, <3>2 DEF settled
  <2>2. e \in Call(m.db, auto)
    BY <1>1, <1>6 DEF SetAutocommit
  <2> HIDE DEF auto
  <2>3. /\ e.db \in Sessions /\ e.ok \in BOOLEAN
        /\ \E q \in {m.db, auto} : e.db.work = q.work
    BY <2>1, <2>2, <1>3, CallShape
  <2>4. Keeps(m.db, auto)
    BY <2>1, <1>3, SettleShape DEF Keeps
  <2>5. Keeps(m.db, e.db)
    BY <2>3, <2>4 DEF Keeps
  <2>6. \A w \in Writes : db.work[w] = "pending" => m.db.work[w] = fate
    BY <1>3, <1>6, SettleShape
  <2>7. \A w \in Writes : db.work[w] = "pending" => e.db.work[w] = fate
    BY <2>5, <2>6 DEF Keeps
  <2>8. Keeps(db, e.db)
    BY <2>5, <1>4, <1>3, <1>6, SettleShape DEF Keeps
  <2> QED
    BY <2>3, <2>7, <2>8, <1>3, <1>6
<1> QED
  BY <1>3, <1>5, <1>6

(* The history and the work of the transactions keep their meaning in a step *)
(* that ends no transaction and settles pending work at most.                *)
LEMMA EndedStays ==
  ASSUME TypeOK, EndedAsTold, hist' = hist, Keeps(db, db')
  PROVE  EndedAsTold'
BY DEF TypeOK, EndedAsTold, Keeps

LEMMA InitInv == Init => ConnInv
<1> SUFFICES ASSUME Init PROVE ConnInv
  OBVIOUS
<1> USE DEF Init, NoConn, NoStmt
<1>1. db \in Sessions
  BY ConnAssumption DEF Sessions, NoSession
<1>2. hist \in [of : [Writes -> -1 .. MaxTxns], txn : 0 .. MaxTxns,
                told : [Txns -> {"open", "committed", "rolled_back", "failed"}]]
  <2>1. -1 \in -1 .. MaxTxns /\ 0 \in 0 .. MaxTxns
    BY ConnAssumption
  <2>2. [w \in Writes |-> -1] \in [Writes -> -1 .. MaxTxns]
    BY <2>1
  <2> QED
    BY <2>1, <2>2
<1>3. TypeOK
  BY <1>1, <1>2 DEF TypeOK
<1>4. \A w \in Writes : hist.of[w] = -1
  OBVIOUS
<1>5. EndedAsTold /\ OpenTransaction
  BY <1>4, ConnAssumption DEF EndedAsTold, OpenTransaction, Txns
<1> QED
  BY <1>3, <1>5 DEF ConnInv, InTransactionIsManual, StatementTable, StatementsFreedFirst

LEMMA ConnectInv == ASSUME ConnInv, Connect PROVE ConnInv'
<1> USE DEF ConnInv
<1> DEFINE d == [db EXCEPT !.lost = FALSE]
           opened == [d EXCEPT !.handle = TRUE]
<1>1. d \in Sessions /\ opened \in Sessions /\ opened.faults = d.faults /\ opened.work = db.work
      /\ d.work = db.work
  BY DEF TypeOK, Sessions
<1>2. PICK a \in Call(d, opened) :
        \/ /\ ~a.ok
           /\ db' = a.db
           /\ conn' = [NoConn EXCEPT !.crashed = TRUE]
        \/ /\ a.ok
           /\ \E c \in Call(a.db, [a.db EXCEPT !.connected = TRUE, !.autocommit = TRUE]) :
                /\ db' = IF c.ok THEN c.db ELSE Invalidate(c.db)
                /\ conn' = [NoConn EXCEPT !.alive = c.ok]
  BY DEF Connect
<1> HIDE DEF d, opened
<1>3. a.db \in Sessions /\ a.db.work = db.work
  BY <1>1, <1>2, CallShape
<1>4. db' \in Sessions /\ db'.work = db.work /\ conn'.in_transaction = FALSE
      /\ conn' \in [alive : BOOLEAN, in_transaction : BOOLEAN, crashed : BOOLEAN]
  <2>1. CASE ~a.ok
    BY <1>2, <1>3, <2>1 DEF NoConn
  <2>2. CASE a.ok
    <3> DEFINE done == [a.db EXCEPT !.connected = TRUE, !.autocommit = TRUE]
    <3>1. done \in Sessions /\ done.faults = a.db.faults /\ done.work = db.work
      BY <1>3 DEF Sessions
    <3>2. PICK c \in Call(a.db, done) : /\ db' = IF c.ok THEN c.db ELSE Invalidate(c.db)
                                        /\ conn' = [NoConn EXCEPT !.alive = c.ok]
      BY <1>2, <2>2
    <3> HIDE DEF done
    <3>3. c.db \in Sessions /\ c.ok \in BOOLEAN /\ c.db.work = db.work
      BY <3>1, <3>2, <1>3, CallShape
    <3>4. Invalidate(c.db) \in Sessions /\ Invalidate(c.db).work = db.work
      BY <3>3 DEF Invalidate, Sessions
    <3> QED
      BY <3>2, <3>3, <3>4 DEF NoConn
  <2> QED
    BY <2>1, <2>2
<1>5. hist' = hist /\ stmts' = stmts /\ ~conn.alive
  BY DEF Connect
<1>6. TypeOK' /\ InTransactionIsManual' /\ StatementTable' /\ StatementsFreedFirst'
  BY <1>4, <1>5 DEF TypeOK, InTransactionIsManual, StatementTable, StatementsFreedFirst
<1>7. EndedAsTold'
  BY <1>4, <1>5, EndedStays DEF Keeps
<1>8. OpenTransaction'
  BY <1>4, <1>5 DEF OpenTransaction
<1> QED
  BY <1>6, <1>7, <1>8

LEMMA BeginInv == ASSUME ConnInv, Begin PROVE ConnInv'
<1> USE DEF ConnInv
<1>1. CASE UNCHANGED <<conn, db, hist, stmts>>
  BY <1>1 DEF TypeOK, InTransactionIsManual, OpenTransaction, EndedAsTold, StatementTable,
     StatementsFreedFirst
<1>2. CASE ~conn.in_transaction
  <2> DEFINE manual == [db EXCEPT !.autocommit = FALSE]
  <2>1. manual \in Sessions /\ manual.faults = db.faults /\ manual.work = db.work /\ ~manual.autocommit
    BY DEF TypeOK, Sessions
  <2>2. PICK b \in Call(db, manual) :
          /\ db' = b.db
          /\ conn' = [conn EXCEPT !.in_transaction = b.ok]
          /\ hist' = [hist EXCEPT !.txn = IF b.ok THEN @ + 1 ELSE @]
    BY <1>2 DEF Begin, SetAutocommit
  <2> HIDE DEF manual
  <2>3. /\ b.db \in Sessions /\ b.ok \in BOOLEAN /\ b.db.work = db.work
        /\ b.ok => ~b.db.autocommit
    BY <2>1, <2>2, CallShape DEF TypeOK
  <2>4. conn.alive /\ stmts' = stmts /\ hist.txn < MaxTxns
    BY DEF Begin
  <2>5. TypeOK'
    BY <2>2, <2>3, <2>4, ConnAssumption DEF TypeOK
  <2>6. hist'.of = hist.of /\ hist'.told = hist.told /\ hist'.txn = IF b.ok THEN hist.txn + 1 ELSE hist.txn
    BY <2>2 DEF TypeOK
  <2>7. conn'.in_transaction = b.ok /\ conn'.alive
    BY <2>2, <2>4 DEF TypeOK
  <2>8. EndedAsTold'
    BY <2>2, <2>3, <2>6 DEF EndedAsTold
  <2>9. OpenTransaction'
    BY <2>2, <2>3, <2>4, <2>6, <2>7, ConnAssumption DEF OpenTransaction, TypeOK, Txns
  <2> QED
    BY <2>2, <2>3, <2>4, <2>5, <2>7, <2>8, <2>9
       DEF InTransactionIsManual, StatementTable, StatementsFreedFirst
<1> QED
  BY <1>1, <1>2 DEF Begin

LEMMA FinishInv ==
  ASSUME ConnInv, NEW call, NEW fate, NEW told, Finish(call, fate, told),
         \/ fate = "durable" /\ told = "committed"
         \/ fate = "undone" /\ told = "rolled_back"
  PROVE  ConnInv'
<1> USE DEF ConnInv
<1>1. CASE UNCHANGED <<conn, db, hist, stmts>>
  BY <1>1 DEF TypeOK, InTransactionIsManual, OpenTransaction, EndedAsTold, StatementTable,
     StatementsFreedFirst
<1>2. CASE conn.in_transaction
  <2>1. PICK e \in EndTransaction(fate) :
          /\ db' = e.db
          /\ hist' = [hist EXCEPT !.told[hist.txn] = IF e.ok THEN told ELSE "failed"]
    BY <1>2 DEF Finish
  <2>2. conn' = [conn EXCEPT !.in_transaction = FALSE] /\ stmts' = stmts
    BY <1>2 DEF Finish
  <2>3. /\ e.db \in Sessions /\ e.ok \in BOOLEAN /\ Keeps(db, e.db)
        /\ e.ok => /\ ~db.lost
                   /\ \A w \in Writes : db.work[w] = "pending" => e.db.work[w] = fate
    BY EndShape DEF TypeOK
  <2>4. hist.txn \in Txns
    BY <1>2 DEF OpenTransaction
  <2>5. /\ hist'.of = hist.of /\ hist'.txn = hist.txn
        /\ hist'.told = [hist.told EXCEPT ![hist.txn] = IF e.ok THEN told ELSE "failed"]
    BY <2>1 DEF TypeOK
  <2>6. TypeOK'
    BY <2>1, <2>2, <2>3, <2>4 DEF TypeOK
  <2>7. ~conn'.in_transaction /\ conn'.alive = conn.alive
    BY <2>2 DEF TypeOK
  <2>8. OpenTransaction'
    BY <2>4, <2>5, <2>7, <2>6 DEF OpenTransaction, TypeOK, Txns
  <2>9. ASSUME NEW w \in Writes, NEW t \in Txns, hist'.of[w] = t
        PROVE  /\ hist'.told[t] = "committed" => db'.work[w] = "durable"
               /\ hist'.told[t] = "rolled_back" => db'.work[w] = "undone"
    <3>1. CASE t = hist.txn /\ e.ok
      BY <3>1, <2>9, <2>1, <2>3, <2>4, <2>5, <1>2 DEF OpenTransaction, TypeOK
    <3>2. CASE t = hist.txn /\ ~e.ok
      BY <3>2, <2>4, <2>5 DEF TypeOK
    <3>3. CASE t # hist.txn
      BY <3>3, <2>9, <2>1, <2>3, <2>5 DEF EndedAsTold, Keeps, TypeOK
    <3> QED
      BY <3>1, <3>2, <3>3
  <2> QED
    BY <2>2, <2>6, <2>7, <2>8, <2>9
       DEF InTransactionIsManual, StatementTable, StatementsFreedFirst, EndedAsTold
<1> QED
  BY <1>1, <1>2 DEF Finish

LEMMA PrepareInv == ASSUME ConnInv, NEW s \in Stmts, Prepare(s) PROVE ConnInv'
<1> USE DEF ConnInv
<1>1. PICK a \in Call(db, db) : /\ db' = a.db
                                /\ stmts' = [stmts EXCEPT ![s] = [handle |-> a.ok, listed |-> a.ok]]
  BY DEF Prepare
<1>2. /\ db' \in Sessions /\ a.ok \in BOOLEAN
      /\ db'.work = db.work /\ db'.autocommit = db.autocommit /\ db'.lost = db.lost
  BY <1>1, CallShape DEF TypeOK
<1>3. conn' = conn /\ hist' = hist /\ conn.alive
  BY DEF Prepare
<1>4. TypeOK' /\ StatementTable' /\ StatementsFreedFirst'
  BY <1>1, <1>2, <1>3 DEF TypeOK, StatementTable, StatementsFreedFirst
<1>5. EndedAsTold'
  BY <1>2, <1>3, EndedStays DEF Keeps
<1> QED
  BY <1>2, <1>3, <1>4, <1>5 DEF InTransactionIsManual, OpenTransaction

LEMMA ExecuteInv ==
  ASSUME ConnInv, NEW s \in Stmts, NEW w \in Writes, Execute(s, w) PROVE ConnInv'
<1> USE DEF ConnInv
<1> DEFINE done == [db EXCEPT !.work[w] = IF db.autocommit THEN "durable" ELSE "pending"]
<1>1. /\ done \in Sessions /\ done.faults = db.faults /\ done.lost = db.lost
      /\ done.autocommit = db.autocommit
      /\ done.work = [db.work EXCEPT ![w] = IF db.autocommit THEN "durable" ELSE "pending"]
  BY DEF TypeOK, Sessions
<1>2. PICK e \in Call(db, done) :
        /\ db' = e.db
        /\ hist' = [hist EXCEPT !.of[w] = IF ~e.ok THEN @ ELSE IF conn.in_transaction THEN hist.txn ELSE 0]
  BY DEF Execute, SQLExecute
<1> HIDE DEF done
<1>3. /\ db' \in Sessions /\ e.ok \in BOOLEAN
      /\ e.ok => db' = done /\ ~db.lost
      /\ db'.autocommit = db.autocommit /\ db'.lost = db.lost
      /\ db'.work = db.work \/ db'.work = done.work
  BY <1>1, <1>2, CallShape DEF TypeOK
<1>4. conn' = conn /\ stmts' = stmts /\ db.work[w] = "none"
  BY DEF Execute
<1>5. /\ hist'.told = hist.told /\ hist'.txn = hist.txn
      /\ hist'.of = [hist.of EXCEPT ![w] = IF ~e.ok THEN @ ELSE IF conn.in_transaction THEN hist.txn ELSE 0]
  BY <1>2 DEF TypeOK
<1>6. TypeOK'
  BY <1>2, <1>3, <1>4, <1>5, ConnAssumption DEF TypeOK
<1>7. \A v \in Writes \ {w} : db'.work[v] = db.work[v] /\ hist'.of[v] = hist.of[v]
  BY <1>1, <1>3, <1>5 DEF TypeOK, Sessions
<1>8. e.ok => /\ hist'.of[w] = (IF conn.in_transaction THEN hist.txn ELSE 0)
              /\ conn.in_transaction => db'.work[w] = "pending"
  BY <1>1, <1>3, <1>5 DEF TypeOK, Sessions, InTransactionIsManual
<1>9. ~e.ok => hist'.of[w] = hist.of[w]
  BY <1>5 DEF TypeOK
<1>10. EndedAsTold'
  <2> SUFFICES ASSUME NEW v \in Writes, NEW t \in Txns, hist'.of[v] = t
               PROVE  /\ hist.told[t] = "committed" => db'.work[v] = "durable"
                      /\ hist.told[t] = "rolled_back" => db'.work[v] = "undone"
    BY <1>5 DEF EndedAsTold
  <2>1. CASE v # w
    BY <2>1, <1>7 DEF EndedAsTold
  <2>2. CASE v = w /\ ~e.ok
    BY <2>2, <1>9, <1>4 DEF EndedAsTold
  <2>3. CASE v = w /\ e.ok
    BY <2>3, <1>8 DEF OpenTransaction, Txns
  <2> QED
    BY <2>1, <2>2, <2>3
<1>11. OpenTransaction'
  <2>1. ASSUME conn.in_transaction, ~db.lost, NEW v \in Writes, hist'.of[v] = hist.txn
        PROVE  db'.work[v] = "pending"
    <3>1. CASE v # w
      BY <3>1, <2>1, <1>7 DEF OpenTransaction
    <3>2. CASE v = w /\ ~e.ok
      BY <3>2, <2>1, <1>4, <1>9 DEF OpenTransaction
    <3>3. CASE v = w /\ e.ok
      BY <3>3, <2>1, <1>8
    <3> QED
      BY <3>1, <3>2, <3>3
  <2>2. \A v \in Writes : hist'.of[v] <= hist'.txn
    BY <1>5, <1>7, <1>8, <1>9 DEF OpenTransaction, TypeOK
  <2> QED
    BY <2>1, <2>2, <1>3, <1>4, <1>5 DEF OpenTransaction
<1> QED
  BY <1>3, <1>4, <1>6, <1>10, <1>11 DEF InTransactionIsManual, StatementTable, StatementsFreedFirst

LEMMA FreeStmtInv == ASSUME ConnInv, NEW s \in Stmts, FreeStmt(s) PROVE ConnInv'
BY DEF ConnInv, FreeStmt, NoStmt, TypeOK, InTransactionIsManual, OpenTransaction, EndedAsTold,
   StatementTable, StatementsFreedFirst

LEMMA CloseInv == ASSUME ConnInv, Close PROVE ConnInv'
<1> USE DEF ConnInv
<1>1. PICK e \in SQLEndTran(db, "undone") : db' = Invalidate(SQLDisconnect(e.db))
  BY DEF Close, CloseSession
<1>2. e.db \in Sessions /\ Keeps(db, e.db)
  BY <1>1, CallShape, SettleShape DEF SQLEndTran, TypeOK, Keeps
<1>3. db' \in Sessions /\ db'.work = e.db.work
  BY <1>1, <1>2 DEF Invalidate, SQLDisconnect, Sessions
<1>4. /\ conn' = NoConn /\ hist' = hist
      /\ stmts' = [s \in Stmts |-> IF stmts[s].listed THEN NoStmt ELSE stmts[s]]
  BY DEF Close
<1>5. TypeOK' /\ StatementTable' /\ StatementsFreedFirst'
  BY <1>3, <1>4 DEF TypeOK, StatementTable, StatementsFreedFirst, NoConn, NoStmt
<1>6. EndedAsTold'
  BY <1>2, <1>3, <1>4, EndedStays DEF Keeps
<1> QED
  BY <1>4, <1>5, <1>6 DEF InTransactionIsManual, OpenTransaction, NoConn

LEMMA LoseConnectionInv == ASSUME ConnInv, LoseConnection PROVE ConnInv'
<1> USE DEF ConnInv
<1>1. db' = [Settle(db, "undone") EXCEPT !.lost = TRUE] /\ UNCHANGED <<conn, stmts, hist>>
  BY DEF LoseConnection
<1>2. Settle(db, "undone") \in Sessions /\ Keeps(db, Settle(db, "undone"))
      /\ Settle(db, "undone").autocommit = db.autocommit
  BY SettleShape DEF TypeOK
<1>3. /\ db' \in Sessions /\ db'.lost /\ db'.work = Settle(db, "undone").work
      /\ db'.autocommit = db.autocommit
  BY <1>1, <1>2 DEF Sessions
<1>4. EndedAsTold'
  BY <1>1, <1>2, <1>3, EndedStays DEF Keeps
<1> QED
  BY <1>1, <1>3, <1>4 DEF TypeOK, InTransactionIsManual, OpenTransaction, StatementTable,
     StatementsFreedFirst

LEMMA NextInv == ConnInv /\ [Next]_vars => ConnInv'
<1> SUFFICES ASSUME ConnInv, [Next]_vars PROVE ConnInv'
  OBVIOUS
<1>1. CASE Connect
  BY <1>1, ConnectInv
<1>2. CASE Begin
  BY <1>2, BeginInv
<1>3. CASE Commit
  BY <1>3, FinishInv DEF Commit
<1>4. CASE Rollback
  BY <1>4, FinishInv DEF Rollback
<1>5. CASE Close
  BY <1>5, CloseInv
<1>6. CASE LoseConnection
  BY <1>6, LoseConnectionInv
<1>7. ASSUME NEW s \in Stmts, Prepare(s) PROVE ConnInv'
  BY <1>7, PrepareInv
<1>8. ASSUME NEW s \in Stmts, FreeStmt(s) PROVE ConnInv'
  BY <1>8, FreeStmtInv
<1>9. ASSUME NEW s \in Stmts, NEW w \in Writes, Execute(s, w) PROVE ConnInv'
  BY <1>9, ExecuteInv
<1>10. CASE UNCHANGED vars
  BY <1>10 DEF vars, ConnInv, TypeOK, InTransactionIsManual, OpenTransaction, EndedAsTold,
     StatementTable, StatementsFreedFirst
<1> QED
  BY <1>1, <1>2, <1>3, <1>4, <1>5, <1>6, <1>7, <1>8, <1>9, <1>10 DEF Next

LEMMA Invariance == Spec => []ConnInv
BY InitInv, NextInv, PTL DEF Spec

(* hdb_commit and hdb_rollback tell the truth when they return true, whatever *)
(* calls failed before and whenever the connection broke.                     *)
THEOREM TransactionsEndAsTold == Spec => []EndedAsTold
<1>1. ConnInv => EndedAsTold
  BY DEF ConnInv
<1> QED
  BY <1>1, Invariance, PTL

(* begin_transaction, commit and rollback never leave in_transaction set on a *)
(* session in auto-commit mode.                                               *)
THEOREM NeverAutocommitInTransaction == Spec => []InTransactionIsManual
<1>1. ConnInv => InTransactionIsManual
  BY DEF ConnInv
<1> QED
  BY <1>1, Invariance, PTL

(* hdb_conn_close_stmts leaves no statement handle behind. *)
THEOREM StatementsNeverOutlive == Spec => []StatementsFreedFirst
<1>1. ConnInv => StatementsFreedFirst
  BY DEF ConnInv
<1> QED
  BY <1>1, Invariance, PTL

----
(***************************************************************************)
(* As long as no call has failed: NothingFailed.  A lost connection is not *)
(* a failed call.                                                          *)
(***************************************************************************)

(* A call that adds no fault did its work, or found the connection lost. *)
LEMMA FaultFreeCall ==
  ASSUME NEW d \in Sessions, NEW done \in Sessions, done.faults = d.faults,
         NEW c \in Call(d, done), c.db.faults = 0
  PROVE  /\ d.faults = 0
         /\ \/ c.ok = TRUE /\ c.db = done /\ ~d.lost
            \/ c.ok = FALSE /\ c.db = d /\ d.lost
<1>1. CASE c \in [db : {p \in {done} : ~d.lost}, ok : {TRUE}]
  BY <1>1
<1>2. CASE c \in [db : IF d.lost THEN {d}
                     ELSE {p \in {[q EXCEPT !.faults = d.faults + 1] :
                                     q \in {d} \cup {x \in {done} : WarningsAsErrors}} :
                             p.faults <= MaxFaults},
                ok : {FALSE}]
  <2>1. CASE d.lost
    BY <1>2, <2>1
  <2>2. CASE ~d.lost
    <3>1. PICK q \in {d, done} : c.db = [q EXCEPT !.faults = d.faults + 1]
      BY <1>2, <2>2
    <3>2. c.db.faults = d.faults + 1
      BY <3>1 DEF Sessions
    <3> QED
      BY <3>2 DEF Sessions
  <2> QED
    BY <2>1, <2>2
<1> QED
  BY <1>1, <1>2 DEF Call

(* Settled work stays, so what was auto-committed does. *)
LEMMA AutoCommittedStays ==
  ASSUME AutoCommitted, Keeps(db, db'), hist'.of = hist.of
  PROVE  AutoCommitted'
BY DEF AutoCommitted, Keeps

LEMMA InitAgrees == ASSUME Init PROVE SessionAgrees
<1> USE DEF Init, NoConn, NoSession
<1>1. \A w \in Writes : hist.of[w] = -1
  OBVIOUS
<1> QED
  BY <1>1 DEF SessionAgrees, AutoCommitted

LEMMA ConnectAgrees == ASSUME ConnInv, NothingFailed, Connect, db'.faults = 0 PROVE SessionAgrees'
<1> DEFINE d == [db EXCEPT !.lost = FALSE]
           opened == [d EXCEPT !.handle = TRUE]
<1>1. /\ d \in Sessions /\ ~d.lost /\ opened \in Sessions /\ ~opened.lost
      /\ opened.faults = d.faults /\ d.faults = db.faults /\ opened.work = db.work
  BY DEF ConnInv, TypeOK, Sessions
<1>2. PICK a \in Call(d, opened) :
        \/ /\ ~a.ok
           /\ db' = a.db
        \/ /\ a.ok
           /\ \E c \in Call(a.db, [a.db EXCEPT !.connected = TRUE, !.autocommit = TRUE]) :
                /\ db' = IF c.ok THEN c.db ELSE Invalidate(c.db)
                /\ conn' = [NoConn EXCEPT !.alive = c.ok]
  BY DEF Connect
<1> HIDE DEF d, opened
<1>3. a.db \in Sessions /\ a.ok \in BOOLEAN
  BY <1>1, <1>2, CallShape
<1>4. CASE ~a.ok
  BY <1>1, <1>2, <1>4, FaultFreeCall
<1>5. CASE a.ok
  <2> DEFINE done == [a.db EXCEPT !.connected = TRUE, !.autocommit = TRUE]
  <2>1. /\ done \in Sessions /\ done.faults = a.db.faults /\ done.work = a.db.work
        /\ done.autocommit /\ done.lost = a.db.lost
    BY <1>3 DEF Sessions
  <2>2. PICK c \in Call(a.db, done) : /\ db' = IF c.ok THEN c.db ELSE Invalidate(c.db)
                                      /\ conn' = [NoConn EXCEPT !.alive = c.ok]
    BY <1>2, <1>5
  <2> HIDE DEF done
  <2>3. c.db \in Sessions /\ c.ok \in BOOLEAN
    BY <2>1, <2>2, <1>3, CallShape
  <2>4. c.db.faults = 0
    BY <2>2, <2>3 DEF Invalidate, Sessions
  <2>5. a.db.faults = 0 /\ ((c.ok = TRUE /\ c.db = done) \/ (c.ok = FALSE /\ a.db.lost))
    BY <2>1, <2>2, <2>4, <1>3, FaultFreeCall
  <2>6. d.faults = 0 /\ a.db = opened
    <3>1. d \in Sessions /\ opened \in Sessions /\ opened.faults = d.faults /\ a.db.faults = 0 /\ ~d.lost
      BY <1>1, <2>5
    <3>2. /\ d.faults = 0
          /\ (a.ok = TRUE /\ a.db = opened /\ ~d.lost) \/ (a.ok = FALSE /\ a.db = d /\ d.lost)
      BY <3>1, FaultFreeCall, Zenon
    <3> QED
      BY <3>1, <3>2, Zenon
  <2>7. c.ok = TRUE /\ db' = done /\ conn' = [NoConn EXCEPT !.alive = TRUE]
    BY <2>2, <2>5, <2>6, <1>1
  <2>8. AutoCommitted /\ db'.work = db.work /\ hist' = hist
    BY <2>1, <2>6, <2>7, <1>1 DEF NothingFailed, SessionAgrees, Connect
  <2>9. AutoCommitted'
    BY <2>8 DEF AutoCommitted
  <2> QED
    BY <2>1, <2>6, <2>7, <2>9, <1>1 DEF SessionAgrees, NoConn
<1> QED
  BY <1>3, <1>4, <1>5

LEMMA BeginAgrees == ASSUME ConnInv, NothingFailed, Begin, db'.faults = 0 PROVE SessionAgrees'
<1>1. CASE UNCHANGED <<conn, db, hist>>
  BY <1>1 DEF NothingFailed, SessionAgrees, AutoCommitted
<1>2. CASE ~conn.in_transaction
  <2> DEFINE manual == [db EXCEPT !.autocommit = FALSE]
  <2>1. /\ manual \in Sessions /\ manual.faults = db.faults /\ manual.work = db.work
        /\ manual.lost = db.lost /\ manual.connected = db.connected
    BY DEF ConnInv, TypeOK, Sessions
  <2>2. PICK b \in Call(db, manual) :
          /\ db' = b.db
          /\ conn' = [conn EXCEPT !.in_transaction = b.ok]
          /\ hist' = [hist EXCEPT !.txn = IF b.ok THEN @ + 1 ELSE @]
    BY <1>2 DEF Begin, SetAutocommit
  <2> HIDE DEF manual
  <2>3. db.faults = 0 /\ ((b.ok = TRUE /\ db' = manual) \/ (b.ok = FALSE /\ db' = db /\ db.lost))
    <3>1. db \in Sessions /\ b.db.faults = 0
      BY <2>2 DEF ConnInv, TypeOK
    <3>2. /\ db.faults = 0
          /\ (b.ok = TRUE /\ b.db = manual /\ ~db.lost) \/ (b.ok = FALSE /\ b.db = db /\ db.lost)
      BY <3>1, <2>1, FaultFreeCall, Zenon
    <3> QED
      BY <3>2, <2>2, Zenon
  <2>4. hist'.of = hist.of /\ conn'.alive = conn.alive /\ conn'.in_transaction = b.ok
    BY <2>2 DEF ConnInv, TypeOK
  <2>5. SessionAgrees /\ db'.work = db.work /\ db'.lost = db.lost /\ db'.connected = db.connected
    BY <2>1, <2>3 DEF NothingFailed
  <2> QED
    BY <2>3, <2>4, <2>5 DEF SessionAgrees, AutoCommitted
<1> QED
  BY <1>1, <1>2 DEF Begin

(* Without a failure hdb_commit and hdb_rollback leave auto-commit mode, or *)
(* a lost session as it was.                                                *)
LEMMA FaultFreeEnd ==
  ASSUME db \in Sessions, NEW fate \in {"durable", "undone"}, NEW e \in EndTransaction(fate),
         e.db.faults = 0
  PROVE  /\ db.faults = 0 /\ e.db.connected = db.connected
         /\ \/ ~db.lost /\ ~e.db.lost /\ e.db.autocommit
            \/ db.lost /\ e.db = db
<1> DEFINE ended == Settle(db, fate)
<1>1. ended \in Sessions /\ ended.faults = db.faults /\ ended.lost = db.lost
  BY SettleShape
<1>2. ended.connected = db.connected
  BY DEF Settle, Sessions
<1>3. PICK m \in SQLEndTran(db, fate) : e \in IF m.ok THEN SetAutocommit(m.db, TRUE) ELSE {m}
  BY DEF EndTransaction
<1>4. m \in Call(db, ended)
  BY <1>3 DEF SQLEndTran
<1> HIDE DEF ended
<1>5. m.db \in Sessions /\ m.ok \in BOOLEAN
  BY <1>1, <1>4, CallShape
<1>6. CASE ~m.ok
  <2>1. e = m
    BY <1>3, <1>6
  <2>2. m.db.faults = 0
    BY <2>1
  <2>3. /\ db.faults = 0
        /\ (m.ok = TRUE /\ m.db = ended /\ ~db.lost) \/ (m.ok = FALSE /\ m.db = db /\ db.lost)
    BY <2>2, <1>1, <1>4, FaultFreeCall, Zenon
  <2> QED
    BY <2>1, <2>3, <1>6
<1>7. CASE m.ok
  <2> DEFINE settled == Settle(m.db, "durable")
             auto == [settled EXCEPT !.autocommit = TRUE]
  <2>1. settled \in Sessions /\ settled.faults = m.db.faults /\ settled.lost = m.db.lost
    BY <1>5, SettleShape
  <2>2. settled.connected = m.db.connected
    BY <1>5 DEF Settle, Sessions
  <2>3. e \in Call(m.db, auto)
    BY <1>3, <1>7 DEF SetAutocommit
  <2> HIDE DEF settled
  <2>4. /\ auto \in Sessions /\ auto.faults = settled.faults /\ auto.lost = settled.lost
        /\ auto.connected = settled.connected /\ auto.autocommit
    BY <2>1 DEF Sessions
  <2> HIDE DEF auto
  <2>5. m.db.faults = 0 /\ (e.db = auto \/ (e.db = m.db /\ m.db.lost))
    <3>1. auto.faults = m.db.faults /\ e.db.faults = 0
      BY <2>1, <2>4
    <3>2. /\ m.db.faults = 0
          /\ (e.ok = TRUE /\ e.db = auto /\ ~m.db.lost) \/ (e.ok = FALSE /\ e.db = m.db /\ m.db.lost)
      BY <3>1, <2>3, <2>4, <1>5, FaultFreeCall, Zenon
    <3> QED
      BY <3>2, Zenon
  <2>6. db.faults = 0 /\ m.db = ended /\ ~db.lost
    <3>1. m.db.faults = 0
      BY <2>5
    <3>2. /\ db.faults = 0
          /\ (m.ok = TRUE /\ m.db = ended /\ ~db.lost) \/ (m.ok = FALSE /\ m.db = db /\ db.lost)
      BY <3>1, <1>1, <1>4, FaultFreeCall, Zenon
    <3> QED
      BY <3>2, <1>7
  <2> QED
    BY <2>1, <2>2, <2>4, <2>5, <2>6, <1>1, <1>2
<1> QED
  BY <1>5, <1>6, <1>7

LEMMA FinishAgrees ==
  ASSUME ConnInv, NothingFailed, NEW call, NEW fate \in {"durable", "undone"}, NEW told,
         Finish(call, fate, told), db'.faults = 0
  PROVE  SessionAgrees'
<1>1. CASE UNCHANGED <<conn, db, hist>>
  BY <1>1 DEF NothingFailed, SessionAgrees, AutoCommitted
<1>2. CASE conn.in_transaction
  <2>1. PICK e \in EndTransaction(fate) :
          /\ db' = e.db
          /\ hist' = [hist EXCEPT !.told[hist.txn] = IF e.ok THEN told ELSE "failed"]
    BY <1>2 DEF Finish
  <2>2. Keeps(db, db') /\ hist'.of = hist.of
    BY <2>1, EndShape DEF ConnInv, TypeOK
  <2>3. /\ db.faults = 0 /\ db'.connected = db.connected
        /\ \/ ~db.lost /\ ~db'.lost /\ db'.autocommit
           \/ db.lost /\ db' = db
    BY <2>1, FaultFreeEnd DEF ConnInv, TypeOK
  <2>4. conn'.alive = conn.alive
    BY <1>2 DEF Finish, ConnInv, TypeOK
  <2>5. SessionAgrees
    BY <2>3 DEF NothingFailed
  <2>6. AutoCommitted'
    BY <2>2, <2>5, AutoCommittedStays DEF SessionAgrees
  <2> QED
    BY <2>3, <2>4, <2>5, <2>6 DEF SessionAgrees
<1> QED
  BY <1>1, <1>2 DEF Finish

LEMMA PrepareAgrees ==
  ASSUME ConnInv, NothingFailed, NEW s \in Stmts, Prepare(s), db'.faults = 0 PROVE SessionAgrees'
<1>1. PICK a \in Call(db, db) : db' = a.db
  BY DEF Prepare
<1>2. db.faults = 0 /\ db' = db
  BY <1>1, FaultFreeCall DEF ConnInv, TypeOK
<1> QED
  BY <1>2 DEF Prepare, NothingFailed, SessionAgrees, AutoCommitted

LEMMA ExecuteAgrees ==
  ASSUME ConnInv, NothingFailed, NEW s \in Stmts, NEW w \in Writes, Execute(s, w), db'.faults = 0
  PROVE  SessionAgrees'
<1> DEFINE done == [db EXCEPT !.work[w] = IF db.autocommit THEN "durable" ELSE "pending"]
<1>1. /\ done \in Sessions /\ done.faults = db.faults /\ done.lost = db.lost
      /\ done.autocommit = db.autocommit /\ done.connected = db.connected
      /\ done.work = [db.work EXCEPT ![w] = IF db.autocommit THEN "durable" ELSE "pending"]
  BY DEF ConnInv, TypeOK, Sessions
<1>2. PICK e \in Call(db, done) :
        /\ db' = e.db
        /\ hist' = [hist EXCEPT !.of[w] = IF ~e.ok THEN @ ELSE IF conn.in_transaction THEN hist.txn ELSE 0]
  BY DEF Execute, SQLExecute
<1> HIDE DEF done
<1>3. /\ db.faults = 0
      /\ (e.ok = TRUE /\ db' = done /\ ~db.lost) \/ (e.ok = FALSE /\ db' = db /\ db.lost)
  <2>1. db \in Sessions /\ e.db.faults = 0
    BY <1>2 DEF ConnInv, TypeOK
  <2>2. /\ db.faults = 0
        /\ (e.ok = TRUE /\ e.db = done /\ ~db.lost) \/ (e.ok = FALSE /\ e.db = db /\ db.lost)
    BY <2>1, <1>1, FaultFreeCall, Zenon
  <2> QED
    BY <2>2, <1>2, Zenon
<1>4. SessionAgrees /\ conn' = conn /\ conn.alive
  BY <1>3 DEF NothingFailed, Execute
<1>5. hist'.of = [hist.of EXCEPT ![w] = IF ~e.ok THEN @ ELSE IF conn.in_transaction THEN hist.txn ELSE 0]
  BY <1>2 DEF ConnInv, TypeOK
<1>6. CASE e.ok = FALSE /\ db' = db
  <2>1. hist'.of = hist.of
    BY <1>5, <1>6 DEF ConnInv, TypeOK
  <2> QED
    BY <2>1, <1>4, <1>6 DEF SessionAgrees, AutoCommitted
<1>7. CASE e.ok = TRUE /\ db' = done /\ ~db.lost
  <2>1. \A v \in Writes \ {w} : db'.work[v] = db.work[v] /\ hist'.of[v] = hist.of[v]
    BY <1>1, <1>5, <1>7 DEF ConnInv, TypeOK, Sessions
  <2>2. hist'.of[w] = 0 => ~conn.in_transaction
    BY <1>5, <1>7 DEF ConnInv, TypeOK, OpenTransaction, Txns
  <2>3. hist'.of[w] = 0 => db'.work[w] = "durable"
    BY <2>2, <1>1, <1>4, <1>7 DEF SessionAgrees, ConnInv, TypeOK, Sessions
  <2>4. AutoCommitted'
    BY <2>1, <2>3, <1>4 DEF SessionAgrees, AutoCommitted
  <2> QED
    BY <2>4, <1>1, <1>4, <1>7 DEF SessionAgrees
<1> QED
  BY <1>3, <1>6, <1>7

(* The rollback of core_hdb_close leaves nothing for which the server would *)
(* refuse the disconnection.                                                *)
LEMMA CloseAgrees == ASSUME ConnInv, NothingFailed, Close, db'.faults = 0 PROVE SessionAgrees'
<1> DEFINE ended == Settle(db, "undone")
<1>1. PICK e \in Call(db, ended) : db' = Invalidate(SQLDisconnect(e.db))
  BY DEF Close, CloseSession, SQLEndTran
<1>2. /\ ended \in Sessions /\ ended.faults = db.faults /\ ended.lost = db.lost /\ Keeps(db, ended)
      /\ \A w \in Writes : ended.work[w] # "pending"
  <2>1. \A w \in Writes : db.work[w] = "pending" => ended.work[w] = "undone"
    BY SettleShape DEF ConnInv, TypeOK
  <2> QED
    BY <2>1, SettleShape DEF ConnInv, TypeOK, Keeps
<1> HIDE DEF ended
<1>3. e.db \in Sessions
  BY <1>1, <1>2, CallShape DEF ConnInv, TypeOK
<1>4. /\ db'.faults = e.db.faults /\ db'.work = e.db.work /\ db'.lost = e.db.lost
      /\ db'.connected = (e.db.connected /\ \E w \in Writes : e.db.work[w] = "pending")
  BY <1>1, <1>3 DEF Invalidate, SQLDisconnect, Sessions
<1>5. db.faults = 0 /\ (e.db = ended \/ (e.db = db /\ db.lost))
  <2>1. db \in Sessions /\ e.db.faults = 0
    BY <1>4 DEF ConnInv, TypeOK
  <2> QED
    BY <2>1, <1>2, FaultFreeCall, Zenon
<1>6. SessionAgrees
  BY <1>5 DEF NothingFailed
<1>7. Keeps(db, e.db) /\ \A w \in Writes : e.db.work[w] # "pending"
  BY <1>2, <1>5, <1>6 DEF SessionAgrees, Keeps
<1>8. conn' = NoConn /\ hist' = hist
  BY DEF Close
<1>9. AutoCommitted'
  BY <1>4, <1>6, <1>7, <1>8, AutoCommittedStays DEF SessionAgrees, Keeps
<1> QED
  BY <1>4, <1>7, <1>8, <1>9 DEF SessionAgrees, NoConn

LEMMA LoseConnectionAgrees ==
  ASSUME ConnInv, NothingFailed, LoseConnection, db'.faults = 0 PROVE SessionAgrees'
<1> DEFINE ended == Settle(db, "undone")
<1>1. /\ ended \in Sessions /\ ended.faults = db.faults /\ Keeps(db, ended)
      /\ \A w \in Writes : db.work[w] = "pending" => ended.work[w] = "undone"
  BY SettleShape DEF ConnInv, TypeOK
<1>2. ended.connected = db.connected
  BY DEF Settle, ConnInv, TypeOK, Sessions
<1>3. db' = [ended EXCEPT !.lost = TRUE] /\ UNCHANGED <<conn, hist>>
  BY DEF LoseConnection
<1> HIDE DEF ended
<1>4. /\ db'.faults = db.faults /\ db'.work = ended.work /\ db'.connected = db.connected /\ db'.lost
  BY <1>1, <1>2, <1>3 DEF Sessions
<1>5. SessionAgrees
  BY <1>4 DEF NothingFailed
<1>6. AutoCommitted'
  BY <1>1, <1>3, <1>4, <1>5, AutoCommittedStays DEF SessionAgrees, Keeps
<1>7. \A w \in Writes : db'.work[w] # "pending"
  BY <1>1, <1>4 DEF Keeps
<1> QED
  BY <1>3, <1>4, <1>5, <1>6, <1>7 DEF SessionAgrees

LEMMA NextAgrees == ConnInv /\ NothingFailed /\ [Next]_vars => NothingFailed'
<1> SUFFICES ASSUME ConnInv, NothingFailed, [Next]_vars, db'.faults = 0 PROVE SessionAgrees'
  BY DEF NothingFailed
<1>1. CASE Connect
  BY <1>1, ConnectAgrees
<1>2. CASE Begin
  BY <1>2, BeginAgrees
<1>3. CASE Commit
  BY <1>3, FinishAgrees DEF Commit
<1>4. CASE Rollback
  BY <1>4, FinishAgrees DEF Rollback
<1>5. CASE Close
  BY <1>5, CloseAgrees
<1>6. CASE LoseConnection
  BY <1>6, LoseConnectionAgrees
<1>7. ASSUME NEW s \in Stmts, Prepare(s) PROVE SessionAgrees'
  BY <1>7, PrepareAgrees
<1>8. ASSUME NEW s \in Stmts, FreeStmt(s) PROVE SessionAgrees'
  BY <1>8 DEF FreeStmt, NothingFailed, SessionAgrees, AutoCommitted
<1>9. ASSUME NEW s \in Stmts, NEW w \in Writes, Execute(s, w) PROVE SessionAgrees'
  BY <1>9, ExecuteAgrees
<1>10. CASE UNCHANGED vars
  BY <1>10 DEF vars, NothingFailed, SessionAgrees, AutoCommitted
<1> QED
  BY <1>1, <1>2, <1>3, <1>4, <1>5, <1>6, <1>7, <1>8, <1>9, <1>10 DEF Next

LEMMA AgreesAlways == Spec => []NothingFailed
<1>1. Init => NothingFailed
  BY InitAgrees DEF NothingFailed
<1> QED
  BY <1>1, NextAgrees, Invariance, PTL DEF Spec

(* A write reported done outside a transaction is durable, as long as no call *)
(* failed, the loss of the connection at any moment included.                 *)
THEOREM AutoCommitsOutside == Spec => []AutoCommittedUnlessFailed
<1>1. NothingFailed => AutoCommittedUnlessFailed
  BY DEF NothingFailed, SessionAgrees, AutoCommittedUnlessFailed
<1> QED
  BY <1>1, AgreesAlways, PTL

(* core_hdb_close ends the session, whatever was pending in it, as long as no *)
(* call failed.                                                               *)
THEOREM CloseEndsSession == Spec => []SessionEndsWithConnection
<1>1. NothingFailed => SessionEndsWithConnection
  BY DEF NothingFailed, SessionAgrees, SessionEndsWithConnection
<1> QED
  BY <1>1, AgreesAlways, PTL

====
