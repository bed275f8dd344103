---- MODULE HdbConn ----
(***************************************************************************)
(* A connection resource of the extension: hdb_connect, hdb_close, the     *)
(* in_transaction flag of hdb_begin_transaction, hdb_commit and            *)
(* hdb_rollback against the auto-commit mode of the session, and the table *)
(* of statement resources that the connection closes with itself.          *)
(*                                                                         *)
(* The session (SQLSetConnectAttr, SQLEndTran, SQLDisconnect and what they *)
(* do to the script's writes) is external.  An operator named Of_Slip is a *)
(* slip a programmer could make in Of.                                     *)
(***************************************************************************)
EXTENDS Integers, FiniteSets

CONSTANTS
  Stmts,           \* statement resources
  Writes,          \* updates the script executes, each at most once
  MaxTxns,         \* bound: transactions begun in a behaviour
  WarningsAsErrors, \* warnings_return_as_errors, and warnings that are not ignored?
  MaxFaults,       \* bound: ODBC calls that fail, the lost connection aside
  ConnectionDies   \* may the connection break for good?

ASSUME ConnAssumption ==
  /\ MaxTxns \in Nat /\ MaxFaults \in Nat
  /\ WarningsAsErrors \in BOOLEAN /\ ConnectionDies \in BOOLEAN

VARIABLES
  conn,            \* the ss_hdb_conn
  stmts,           \* of each statement: its ODBC handle, its entry in conn->stmts
  db,              \* the session on the server, and the ODBC handle of the connection
  out,             \* the last call and what it returned
  hist             \* history: of each write the transaction it was reported done in
                   \* (0: none, auto-committed; -1: not reported), the current
                   \* transaction, and what the script was told of each

vars == <<conn, stmts, db, out, hist>>

Txns == 1 .. MaxTxns
NoConn == [alive |-> FALSE, in_transaction |-> FALSE, crashed |-> FALSE]
NoStmt == [handle |-> FALSE, listed |-> FALSE]

----
(***************************************************************************)
(* The session.  A call is accepted, or fails; with WarningsReturnAsErrors *)
(* a call that did its work with a warning counts as failed as well.       *)
(***************************************************************************)
NoSession == [handle |-> FALSE, connected |-> FALSE, autocommit |-> TRUE, lost |-> FALSE,
              faults |-> 0, work |-> [w \in Writes |-> "none"]]

Sessions == [handle : BOOLEAN, connected : BOOLEAN, autocommit : BOOLEAN, lost : BOOLEAN,
             faults : 0 .. MaxFaults, work : [Writes -> {"none", "pending", "durable", "undone"}]]

Settle(d, fate) ==
  [d EXCEPT !.work = [w \in Writes |-> IF d.work[w] = "pending" THEN fate ELSE d.work[w]]]

(* `done` is the session the call leaves when it does its work. *)
Call(d, done) ==
  [db : {p \in {done} : ~d.lost}, ok : {TRUE}]
    \cup [db : IF d.lost THEN {d}
               ELSE {p \in {[q EXCEPT !.faults = d.faults + 1] :
                              q \in {d} \cup {x \in {done} : WarningsAsErrors}} :
                       p.faults <= MaxFaults},
          ok : {FALSE}]

SQLEndTran(d, fate) == Call(d, Settle(d, fate))

(* Switching to auto-commit commits what is pending. *)
SetAutocommit(d, on) ==
  Call(d, [(IF on THEN Settle(d, "durable") ELSE d) EXCEPT !.autocommit = on])

SQLExecute(d, w) ==
  Call(d, [d EXCEPT !.work[w] = IF d.autocommit THEN "durable" ELSE "pending"])

(* Disconnecting with work pending is refused: invalid transaction state. *)
SQLDisconnect(d) ==
  [d EXCEPT !.connected = @ /\ \E w \in Writes : d.work[w] = "pending"]

(* hdb_context::invalidate; the handle of an open session is not freed. *)
Invalidate(d) == [d EXCEPT !.handle = @ /\ d.connected]

----
Init ==
  /\ conn = NoConn
  /\ stmts = [s \in Stmts |-> NoStmt]
  /\ db = NoSession
  /\ out = [call |-> "none", ret |-> TRUE]
  /\ hist = [of |-> [w \in Writes |-> -1], txn |-> 0, told |-> [t \in Txns |-> "open"]]

Returns(call, ret) == out' = [call |-> call, ret |-> ret]

(***************************************************************************)
(* hdb_connect.  A failed SQLAllocHandle leaves no hdb_conn, and the       *)
(* handler of core_hdb_connect calls invalidate() on the null pointer.  A  *)
(* failed SQLDriverConnect, or a warning taken for one, frees the handle   *)
(* without disconnecting.                                                  *)
(***************************************************************************)
Connect ==
  /\ ~conn.alive /\ ~conn.crashed /\ ~db.handle
  /\ LET d == [db EXCEPT !.lost = FALSE]
     IN  \E a \in Call(d, [d EXCEPT !.handle = TRUE]) :
           \/ /\ ~a.ok
              /\ db' = a.db
              /\ conn' = [NoConn EXCEPT !.crashed = TRUE]
              /\ Returns("connect", FALSE)
           \/ /\ a.ok
              /\ \E c \in Call(a.db, [a.db EXCEPT !.connected = TRUE, !.autocommit = TRUE]) :
                   /\ db' = IF c.ok THEN c.db ELSE Invalidate(c.db)
                   /\ conn' = [NoConn EXCEPT !.alive = c.ok]
                   /\ Returns("connect", c.ok)
  /\ UNCHANGED <<stmts, hist>>

Begin_FlagFirst ==
  /\ conn.alive /\ hist.txn < MaxTxns /\ ~conn.in_transaction
  /\ conn' = [conn EXCEPT !.in_transaction = TRUE]
  /\ \E b \in SetAutocommit(db, FALSE) :
       /\ db' = b.db
       /\ hist' = [hist EXCEPT !.txn = IF b.ok THEN @ + 1 ELSE @]
       /\ Returns("begin", b.ok)
  /\ UNCHANGED stmts

(* hdb_begin_transaction. *)
Begin ==
  /\ conn.alive /\ hist.txn < MaxTxns
  /\ \/ /\ conn.in_transaction
        /\ Returns("begin", FALSE)
        /\ UNCHANGED <<conn, db, hist>>
     \/ /\ ~conn.in_transaction
        /\ \E b \in SetAutocommit(db, FALSE) :
             /\ db' = b.db
             /\ conn' = [conn EXCEPT !.in_transaction = b.ok]
             /\ hist' = [hist EXCEPT !.txn = IF b.ok THEN @ + 1 ELSE @]
             /\ Returns("begin", b.ok)
  /\ UNCHANGED stmts

EndTransaction_AutocommitFirst(fate) ==
  UNION {IF a.ok THEN SQLEndTran(a.db, fate) ELSE {a} : a \in SetAutocommit(db, TRUE)}

EndTransaction_ModeKept(fate) == SQLEndTran(db, fate)

(* core_hdb_commit and core_hdb_rollback: end the transaction, then go back *)
(* to auto-commit, which a failure of the first call skips.                 *)
EndTransaction(fate) ==
  UNION {IF e.ok THEN SetAutocommit(e.db, TRUE) ELSE {e} : e \in SQLEndTran(db, fate)}

(* hdb_commit and hdb_rollback forget the transaction before they end it. *)
Finish(call, fate, told) ==
  /\ conn.alive
  /\ \/ /\ ~conn.in_transaction
        /\ Returns(call, FALSE)
        /\ UNCHANGED <<conn, db, hist>>
     \/ /\ conn.in_transaction
        /\ conn' = [conn EXCEPT !.in_transaction = FALSE]
        /\ \E e \in EndTransaction(fate) :
             /\ db' = e.db
             /\ hist' = [hist EXCEPT !.told[hist.txn] = IF e.ok THEN told ELSE "failed"]
             /\ Returns(call, e.ok)
  /\ UNCHANGED stmts

Commit == Finish("commit", "durable", "committed")
Rollback == Finish("rollback", "undone", "rolled_back")

----
Prepare_NotListed(s) ==
  /\ conn.alive /\ stmts[s] = NoStmt
  /\ \E a \in Call(db, db) :
       /\ db' = a.db
       /\ stmts' = [stmts EXCEPT ![s].handle = a.ok]
       /\ Returns("prepare", a.ok)
  /\ UNCHANGED <<conn, hist>>

(* hdb_prepare, and the creation in hdb_query: a statement handle and an entry *)
(* in conn->stmts, or neither.                                                 *)
Prepare(s) ==
  /\ conn.alive /\ stmts[s] = NoStmt
  /\ \E a \in Call(db, db) :
       /\ db' = a.db
       /\ stmts' = [stmts EXCEPT ![s] = [handle |-> a.ok, listed |-> a.ok]]
       /\ Returns("prepare", a.ok)
  /\ UNCHANGED <<conn, hist>>

(* An update executed on the connection. *)
Execute(s, w) ==
  /\ conn.alive /\ stmts[s].handle /\ db.work[w] = "none"
  /\ \E e \in SQLExecute(db, w) :
       /\ db' = e.db
       /\ hist' = [hist EXCEPT !.of[w] = IF ~e.ok THEN @ ELSE IF conn.in_transaction THEN hist.txn ELSE 0]
       /\ Returns("execute", e.ok)
  /\ UNCHANGED <<conn, stmts>>

(* hdb_stmt_dtor: by hdb_free_stmt, or when the last reference goes. *)
FreeStmt(s) ==
  /\ conn.alive /\ stmts[s].handle
  /\ stmts' = [stmts EXCEPT ![s] = NoStmt]
  /\ Returns("free_stmt", TRUE)
  /\ UNCHANGED <<conn, db, hist>>

CloseSession_NoRollback == {Invalidate(SQLDisconnect(db))}

(* core_hdb_close ignores what the rollback and the disconnection return. *)
CloseSession == {Invalidate(SQLDisconnect(e.db)) : e \in SQLEndTran(db, "undone")}

(* hdb_conn_dtor: by hdb_close, or when the last reference goes. *)
Close ==
  /\ conn.alive
  /\ stmts' = [s \in Stmts |-> IF stmts[s].listed THEN NoStmt ELSE stmts[s]]
  /\ db' \in CloseSession
  /\ conn' = NoConn
  /\ Returns("close", TRUE)
  /\ UNCHANGED hist

(* The server undoes what was pending. *)
LoseConnection ==
  /\ ConnectionDies /\ db.connected /\ ~db.lost
  /\ db' = [Settle(db, "undone") EXCEPT !.lost = TRUE]
  /\ UNCHANGED <<conn, stmts, out, hist>>

Next ==
  \/ Connect \/ Begin \/ Commit \/ Rollback \/ Close \/ LoseConnection
  \/ \E s \in Stmts : Prepare(s) \/ FreeStmt(s) \/ \E w \in Writes : Execute(s, w)

Spec == Init /\ [][Next]_vars

----
TypeOK ==
  /\ conn \in [alive : BOOLEAN, in_transaction : BOOLEAN, crashed : BOOLEAN]
  /\ stmts \in [Stmts -> [handle : BOOLEAN, listed : BOOLEAN]]
  /\ db \in Sessions
  /\ hist \in [of : [Writes -> -1 .. MaxTxns], txn : 0 .. MaxTxns,
               told : [Txns -> {"open", "committed", "rolled_back", "failed"}]]

(* The extension never believes itself in a transaction on a session that    *)
(* commits every statement at once.                                          *)
InTransactionIsManual == conn.in_transaction => conn.alive /\ ~db.autocommit

(* A transaction ends as the script was told: when hdb_commit returned true  *)
(* every write reported done in it is durable, when hdb_rollback did none is.*)
EndedAsTold ==
  \A w \in Writes, t \in Txns :
    hist.of[w] = t =>
      /\ hist.told[t] = "committed" => db.work[w] = "durable"
      /\ hist.told[t] = "rolled_back" => db.work[w] = "undone"

(* What makes EndedAsTold inductive: while the extension is in a transaction *)
(* on a live session, what was reported done in it is still pending, and a   *)
(* transaction that has not begun has neither writes nor an end.             *)
OpenTransaction ==
  /\ conn.in_transaction => hist.txn \in Txns /\ hist.told[hist.txn] = "open"
  /\ conn.in_transaction /\ ~db.lost =>
       \A w \in Writes : hist.of[w] = hist.txn => db.work[w] = "pending"
  /\ \A w \in Writes : hist.of[w] <= hist.txn
  /\ \A t \in Txns : hist.told[t] # "open" => t <= hist.txn

StatementTable == \A s \in Stmts : stmts[s].handle = stmts[s].listed

(* A write reported done outside a transaction is durable, as hdb_commit's   *)
(* documentation says of all queries that are not in a transaction.          *)
AutoCommitted == \A w \in Writes : hist.of[w] = 0 => db.work[w] = "durable"

(* ... which holds as long as no call failed, also when the connection is    *)
(* lost: in_transaction and the mode of the session do not part by themselves. *)
AutoCommittedUnlessFailed == db.faults = 0 => AutoCommitted

(* Closing a connection closes its session, whatever was pending in it, if   *)
(* no call failed: core_hdb_close does not look at a refused disconnection.  *)
SessionEndsWithConnection == db.faults = 0 /\ db.connected => conn.alive

(* No statement handle outlives the connection handle it was allocated from. *)
StatementsFreedFirst == ~conn.alive => \A s \in Stmts : ~stmts[s].handle

(* What makes AutoCommittedUnlessFailed and SessionEndsWithConnection        *)
(* inductive: as long as no call failed, a session outside a transaction is  *)
(* in auto-commit mode, unless it is lost, and a lost session has nothing    *)
(* pending.                                                                  *)
SessionAgrees ==
  /\ AutoCommitted
  /\ conn.alive /\ ~conn.in_transaction /\ ~db.lost => db.autocommit
  /\ db.lost => \A w \in Writes : db.work[w] # "pending"
  /\ db.connected => conn.alive

NothingFailed == db.faults = 0 => SessionAgrees

(* The inductive invariant. *)
ConnInv ==
  /\ TypeOK /\ InTransactionIsManual /\ OpenTransaction /\ EndedAsTold
  /\ StatementTable /\ StatementsFreedFirst

====
