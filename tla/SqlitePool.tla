----------------------------- MODULE SqlitePool -----------------------------
(***************************************************************************)
(* sqlite.rs: one database, its bounded pool of connections, the transac- *)
(* tions and executions that lease them, and the Roc handlers that use    *)
(* and drop the handles from several worker threads.                      *)
(*                                                                         *)
(* Workers run the hosted functions.  Pool operations take the pool lock, *)
(* operations of a transaction take its state lock and are one step each; *)
(* stepping an execution holds the execution's lock and takes time.  The  *)
(* last reference to an execution, a transaction or the database is drop- *)
(* ped by whichever worker gives it up, which then runs the destructor.   *)
(* Time is not modelled: a wait may time out at any moment.  Statements   *)
(* run by the application do not themselves begin or end transactions.    *)
(***************************************************************************)
EXTENDS Naturals, FiniteSets, Sequences, SequencesExt

CONSTANTS
    Conns,              \* the connections of the pool, `size` of them
    Workers,            \* threads running Roc handlers
    Txns, Execs,        \* slots of the transaction and execution heaps
    Queries,            \* statement texts
    CacheCapacity,      \* statement_cache_capacity
    None

VARIABLES
    available,          \* PoolState.available, a stack
    leased,             \* PoolState.leased
    poolOpen,           \* the Arc<DatabasePool> is alive
    conn,               \* each native connection
    txn,                \* each TransactionShared
    exec,               \* each Execution
    handles,            \* what the application holds handles to
    worker,             \* what each worker is doing
    woken               \* workers notified on the pool's condition variable

vars == <<available, leased, poolOpen, conn, txn, exec, handles, worker, woken>>

Fresh == [open |-> TRUE, inTxn |-> FALSE, deadline |-> None, cached |-> <<>>]
NoTxn == [live |-> FALSE, conn |-> None, active |-> None, finished |-> FALSE]
NoExec == [live |-> FALSE, owner |-> None, conn |-> None, query |-> None]
Idle == [pc |-> "idle", for |-> None, conn |-> None, txn |-> None, exec |-> None, query |-> None]

\* Handles: the database, a statement of the pool, executions, transactions,
\* and statements prepared in a transaction.
DbHandle == <<"db">>
PoolStmt == <<"stmt">>
ExecHandle(e) == <<"exec", e>>
TxnHandle(t) == <<"txn", t>>
TxnStmt(t) == <<"txn_stmt", t>>

-----------------------------------------------------------------------------
(* Helpers *)

Set(w, record) == worker' = [worker EXCEPT ![w] = record]
Goto(w, pc) == worker' = [worker EXCEPT ![w].pc = pc]

\* Connection::return_statement: reset and cached, most recently used first;
\* a statement that cannot be reset is finalized.
return_statement(c, q, resets) ==
    [c EXCEPT !.cached = IF resets THEN SubSeq(<<q>> \o @, 1,
                                               IF Len(@) + 1 > CacheCapacity
                                               THEN CacheCapacity ELSE Len(@) + 1)
                         ELSE @]
\* Connection::take_statement: a cached statement, or a new one.
take_statement(c, q) == [c EXCEPT !.cached = SelectSeq(@, LAMBDA s : s # q)]

\* Other workers in the middle of a call, each holding a reference to what it
\* works on.
Using(field, x, w) == \E v \in Workers \ {w} : worker[v].pc # "idle" /\ worker[v][field] = x

ExecReferenced(e, w) == ExecHandle(e) \in handles \/ Using("exec", e, w)
TxnReferenced(t, w) ==
    \/ {TxnHandle(t), TxnStmt(t)} \cap handles # {}
    \/ \E e \in Execs : exec[e].live /\ exec[e].owner = t
    \/ Using("txn", t, w)
PoolReferenced ==
    \/ {DbHandle, PoolStmt} \cap handles # {}
    \/ \E e \in Execs : exec[e].live
    \/ \E t \in Txns : txn[t].live
    \/ \E w \in Workers : worker[w].pc # "idle"

Reserved(field, x) == \E w \in Workers : worker[w][field] = x

Init ==
    /\ available = SetToSeq(Conns)
    /\ leased = 0
    /\ poolOpen = TRUE
    /\ conn = [c \in Conns |-> Fresh]
    /\ txn = [t \in Txns |-> NoTxn]
    /\ exec = [e \in Execs |-> NoExec]
    /\ handles = {DbHandle}
    /\ worker = [w \in Workers |-> Idle]
    /\ woken = {}

-----------------------------------------------------------------------------
(* Pool: acquire, release, discard *)

Pop(w) ==
    /\ available # <<>>
    /\ worker' = [worker EXCEPT ![w].pc = "own", ![w].conn = Last(available)]
    /\ available' = Front(available)
    /\ leased' = leased + 1
    /\ UNCHANGED <<poolOpen, conn, txn, exec, handles>>

\* DatabasePool::acquire finds a connection, or waits.
Acquire(w) ==
    /\ worker[w].pc = "acquire"
    /\ UNCHANGED woken
    /\ \/ Pop(w)
       \/ /\ available = <<>>
          /\ Goto(w, "waiting")
          /\ UNCHANGED <<available, leased, poolOpen, conn, txn, exec, handles>>

\* Saturated: the deadline passed and no connection is available.
Saturated(w) ==
    /\ worker[w].pc \in {"acquire", "waiting"}
    /\ available = <<>>
    /\ Set(w, Idle)
    /\ woken' = woken \ {w}
    /\ UNCHANGED <<available, leased, poolOpen, conn, txn, exec, handles>>

\* wait_timeout returns, notified or timed out, with the lock held.
WakeUp(w) ==
    /\ worker[w].pc = "waiting"
    /\ woken' = woken \ {w}
    /\ \/ Pop(w)
       \/ /\ available = <<>>
          /\ w \in woken
          /\ Goto(w, "acquire")
          /\ UNCHANGED <<available, leased, poolOpen, conn, txn, exec, handles>>

\* DatabasePool::release, up to the unlock.
release(w) ==
    /\ worker[w].pc = "release"
    /\ available' = Append(available, worker[w].conn)
    /\ leased' = leased - 1
    /\ worker' = [worker EXCEPT ![w].pc = "notify", ![w].conn = None]
    /\ UNCHANGED <<poolOpen, conn, txn, exec, handles, woken>>

\* notify_one, after the unlock.  The worker then drops the references that
\* its call still holds.
notify_one(w) ==
    /\ worker[w].pc = "notify"
    /\ LET waiting == {v \in Workers : worker[v].pc = "waiting"} \ woken
       IN  IF waiting = {} THEN UNCHANGED woken
           ELSE \E v \in waiting : woken' = woken \union {v}
    /\ IF worker[w].txn = None THEN Set(w, Idle) ELSE Goto(w, "unref_txn")
    /\ UNCHANGED <<available, leased, poolOpen, conn, txn, exec, handles>>

\* DatabasePool::discard closes the connection, opens another in its place,
\* which may fail, and only then takes the lock.
CloseDiscarded(w) ==
    /\ worker[w].pc = "discard"
    /\ conn' = [conn EXCEPT ![worker[w].conn].open = FALSE]
    /\ Goto(w, "reopen")
    /\ UNCHANGED <<available, leased, poolOpen, txn, exec, handles, woken>>

\* The replacement is not announced.
ReplaceQuietly(w) ==
    /\ worker[w].pc = "reopen"
    /\ leased' = leased - 1
    /\ conn' = [conn EXCEPT ![worker[w].conn] = Fresh]
    /\ available' = Append(available, worker[w].conn)
    /\ Set(w, Idle)
    /\ UNCHANGED <<poolOpen, txn, exec, handles, woken>>

ReplaceDiscarded(w) ==
    /\ worker[w].pc = "reopen"
    /\ leased' = leased - 1
    /\ \/ /\ conn' = [conn EXCEPT ![worker[w].conn] = Fresh]
          /\ available' = Append(available, worker[w].conn)
       \/ UNCHANGED <<conn, available>>
    /\ worker' = [worker EXCEPT ![w].pc = "notify", ![w].conn = None]
    /\ UNCHANGED <<poolOpen, txn, exec, handles, woken>>

\* The last reference to the pool is gone: its connections are closed.
DropPool ==
    /\ poolOpen
    /\ ~PoolReferenced
    /\ poolOpen' = FALSE
    /\ conn' = [c \in Conns |-> IF Contains(available, c)
                                THEN [conn[c] EXCEPT !.open = FALSE, !.cached = <<>>]
                                ELSE conn[c]]
    /\ available' = <<>>
    /\ UNCHANGED <<leased, txn, exec, handles, worker, woken>>

-----------------------------------------------------------------------------
(* Hosted functions on the database: prepare, start, begin *)

\* The call resolves its handle, reserves a slot for what it will return, and
\* goes on to acquire a connection.
CallPrepare(w, q) ==
    /\ worker[w].pc = "idle" /\ DbHandle \in handles
    /\ Set(w, [Idle EXCEPT !.pc = "acquire", !.for = "prepare", !.query = q])
    /\ UNCHANGED <<available, leased, poolOpen, conn, txn, exec, handles, woken>>

CallStart(w, e, q) ==
    /\ worker[w].pc = "idle" /\ PoolStmt \in handles
    /\ ~exec[e].live /\ ~Reserved("exec", e)
    /\ Set(w, [Idle EXCEPT !.pc = "acquire", !.for = "start", !.exec = e, !.query = q])
    /\ UNCHANGED <<available, leased, poolOpen, conn, txn, exec, handles, woken>>

CallBegin(w, t) ==
    /\ worker[w].pc = "idle" /\ DbHandle \in handles
    /\ ~txn[t].live /\ ~Reserved("txn", t)
    /\ Set(w, [Idle EXCEPT !.pc = "acquire", !.for = "begin", !.txn = t])
    /\ UNCHANGED <<available, leased, poolOpen, conn, txn, exec, handles, woken>>

\* A failed call gives the connection back and the reserved slot up.
GiveBack(w, c, after) ==
    /\ conn' = [conn EXCEPT ![c] = after]
    /\ worker' = [worker EXCEPT ![w] = [Idle EXCEPT !.pc = "release", !.conn = c]]
    /\ UNCHANGED <<txn, exec, handles>>

\* prepare_columns: take the statement (which may not compile), read its
\* columns, return it and the connection.
prepare_columns(w) ==
    /\ worker[w].pc = "own" /\ worker[w].for = "prepare"
    /\ LET c == worker[w].conn
           q == worker[w].query
       IN  \/ GiveBack(w, c, take_statement(conn[c], q))
           \/ /\ conn' = [conn EXCEPT ![c] =
                              return_statement(take_statement(conn[c], q), q, TRUE)]
              /\ handles' = handles \union {PoolStmt}
              /\ worker' = [worker EXCEPT ![w] = [Idle EXCEPT !.pc = "release", !.conn = c]]
              /\ UNCHANGED <<txn, exec>>
    /\ UNCHANGED <<available, leased, poolOpen, woken>>

\* start_pooled_execution: the statement does not compile; it does not bind or
\* the timeout is invalid, and it is returned; or the execution owns both.
start_pooled_execution(w) ==
    /\ worker[w].pc = "own" /\ worker[w].for = "start"
    /\ LET c == worker[w].conn
           e == worker[w].exec
           q == worker[w].query
           taken == take_statement(conn[c], q)
       IN  \/ GiveBack(w, c, taken)
           \/ GiveBack(w, c, return_statement(taken, q, TRUE))
           \/ /\ conn' = [conn EXCEPT ![c] = [taken EXCEPT !.deadline = e]]
              /\ exec' = [exec EXCEPT ![e] = [live |-> TRUE, owner |-> None,
                                             conn |-> c, query |-> q]]
              /\ handles' = handles \union {ExecHandle(e)}
              /\ Set(w, Idle)
              /\ UNCHANGED txn
    /\ UNCHANGED <<available, leased, poolOpen, woken>>

\* hosted_sqlite_begin: the mode is unknown or BEGIN fails, or the transaction
\* owns the connection.
hosted_sqlite_begin(w) ==
    /\ worker[w].pc = "own" /\ worker[w].for = "begin"
    /\ LET c == worker[w].conn
           t == worker[w].txn
       IN  \/ GiveBack(w, c, conn[c])
           \/ /\ conn' = [conn EXCEPT ![c].inTxn = TRUE]
              /\ txn' = [txn EXCEPT ![t] = [NoTxn EXCEPT !.live = TRUE, !.conn = c]]
              /\ handles' = handles \union {TxnHandle(t)}
              /\ Set(w, Idle)
              /\ UNCHANGED exec
    /\ UNCHANGED <<available, leased, poolOpen, woken>>

-----------------------------------------------------------------------------
(* Hosted functions on a transaction: each runs under its state lock *)

\* A call on a transaction holds a reference to it until it returns.
CallTxn(w, t, purpose, q) ==
    /\ worker[w].pc = "idle" /\ TxnHandle(t) \in handles
    /\ Set(w, [Idle EXCEPT !.pc = "txn", !.for = purpose, !.txn = t, !.query = q])
    /\ UNCHANGED <<available, leased, poolOpen, conn, txn, exec, handles, woken>>

CallTxnStart(w, t, e, q) ==
    /\ worker[w].pc = "idle" /\ TxnStmt(t) \in handles
    /\ ~exec[e].live /\ ~Reserved("exec", e)
    /\ Set(w, [Idle EXCEPT !.pc = "txn", !.for = "start", !.txn = t, !.exec = e, !.query = q])
    /\ UNCHANGED <<available, leased, poolOpen, conn, txn, exec, handles, woken>>

InTxn(w, purpose) == worker[w].pc = "txn" /\ worker[w].for = purpose
\* The call is over; the reserved slot, if it was not used, is given up.
LeaveTxn(w) == Set(w, [Idle EXCEPT !.pc = "unref_txn", !.txn = worker[w].txn])

\* TRANSACTION_FINISHED or CONCURRENT_TRANSACTION_USE.
Refused(t) == txn[t].finished \/ txn[t].conn = None \/ txn[t].active # None

RefuseTxn(w) ==
    /\ worker[w].pc = "txn"
    /\ Refused(worker[w].txn)
    /\ LeaveTxn(w)
    /\ UNCHANGED <<available, leased, poolOpen, conn, txn, exec, handles, woken>>

hosted_sqlite_txn_prepare(w) ==
    /\ InTxn(w, "prepare")
    /\ ~Refused(worker[w].txn)
    /\ LET t == worker[w].txn
           q == worker[w].query
           taken == take_statement(conn[txn[t].conn], q)
       IN  \/ /\ conn' = [conn EXCEPT ![txn[t].conn] = taken]
              /\ UNCHANGED handles
           \/ /\ conn' = [conn EXCEPT ![txn[t].conn] = return_statement(taken, q, TRUE)]
              /\ handles' = handles \union {TxnStmt(t)}
    /\ LeaveTxn(w)
    /\ UNCHANGED <<available, leased, poolOpen, txn, exec, woken>>

start_transaction_execution(w) ==
    /\ InTxn(w, "start")
    /\ LET t == worker[w].txn
           e == worker[w].exec
           q == worker[w].query
           c == txn[t].conn
       IN  /\ ~Refused(t)
           /\ \/ /\ \E after \in {take_statement(conn[c], q),
                                   return_statement(take_statement(conn[c], q), q, TRUE)} :
                       conn' = [conn EXCEPT ![c] = after]
                 /\ UNCHANGED <<exec, txn, handles>>
              \/ /\ conn' = [conn EXCEPT ![c] = [take_statement(@, q) EXCEPT !.deadline = e]]
                 /\ exec' = [exec EXCEPT ![e] = [live |-> TRUE, owner |-> t,
                                                conn |-> c, query |-> q]]
                 /\ txn' = [txn EXCEPT ![t].active = e]
                 /\ handles' = handles \union {ExecHandle(e)}
           /\ LeaveTxn(w)
    /\ UNCHANGED <<available, leased, poolOpen, woken>>

\* COMMIT or ROLLBACK fails and the transaction stays open, or it ends and its
\* connection goes back to the pool.
hosted_sqlite_txn_finish(w) ==
    /\ InTxn(w, "finish")
    /\ LET t == worker[w].txn
           c == txn[t].conn
       IN  /\ ~Refused(t)
           /\ \/ LeaveTxn(w) /\ UNCHANGED <<conn, txn>>
              \/ /\ conn' = [conn EXCEPT ![c].inTxn = FALSE]
                 /\ txn' = [txn EXCEPT ![t].finished = TRUE, ![t].conn = None]
                 /\ worker' = [worker EXCEPT ![w].pc = "release", ![w].conn = c]
    /\ UNCHANGED <<available, leased, poolOpen, exec, handles, woken>>

\* A reference to the transaction is dropped; the last one runs Drop for
\* TransactionShared.
UnrefTxn(w) ==
    /\ worker[w].pc = "unref_txn"
    /\ IF TxnReferenced(worker[w].txn, w) THEN Set(w, Idle) ELSE Goto(w, "drop_txn")
    /\ UNCHANGED <<available, leased, poolOpen, conn, txn, exec, handles, woken>>

\* An unfinished transaction is rolled back; when that fails its connection is
\* discarded.
DropTransactionShared(w) ==
    /\ worker[w].pc = "drop_txn"
    /\ LET t == worker[w].txn
           c == txn[t].conn
       IN  /\ txn' = [txn EXCEPT ![t] = NoTxn]
           /\ \/ c = None /\ Set(w, Idle) /\ UNCHANGED conn
              \/ /\ c # None
                 /\ conn' = [conn EXCEPT ![c].inTxn = txn[t].finished /\ @]
                 /\ Set(w, [Idle EXCEPT !.pc = "release", !.conn = c])
              \/ /\ c # None /\ ~txn[t].finished
                 /\ Set(w, [Idle EXCEPT !.pc = "discard", !.conn = c])
                 /\ UNCHANGED conn
    /\ UNCHANGED <<available, leased, poolOpen, exec, handles, woken>>

-----------------------------------------------------------------------------
(* Executions *)

CallNextRow(w, e) ==
    /\ worker[w].pc = "idle" /\ ExecHandle(e) \in handles
    /\ Set(w, [Idle EXCEPT !.pc = "row", !.exec = e])
    /\ UNCHANGED <<available, leased, poolOpen, conn, txn, exec, handles, woken>>

\* sqlite3_step runs with the execution locked.
LockExecution(w) ==
    /\ worker[w].pc = "row"
    /\ ~ \E v \in Workers : worker[v].pc = "stepping" /\ worker[v].exec = worker[w].exec
    /\ Goto(w, "stepping")
    /\ UNCHANGED <<available, leased, poolOpen, conn, txn, exec, handles, woken>>

\* Done, a row, an error or a timeout: the call returns and drops its reference.
hosted_sqlite_next_row(w) ==
    /\ worker[w].pc = "stepping"
    /\ Goto(w, "unref_exec")
    /\ UNCHANGED <<available, leased, poolOpen, conn, txn, exec, handles, woken>>

UnrefExec(w) ==
    /\ worker[w].pc = "unref_exec"
    /\ IF ExecReferenced(worker[w].exec, w) THEN Set(w, Idle) ELSE Goto(w, "drop_exec")
    /\ UNCHANGED <<available, leased, poolOpen, conn, txn, exec, handles, woken>>

\* The progress handler is left behind.
KeepDeadline(w) ==
    /\ worker[w].pc = "drop_exec"
    /\ Goto(w, "return_exec")
    /\ UNCHANGED <<available, leased, poolOpen, conn, txn, exec, handles, woken>>

\* Drop for Execution: the progress handler goes first, then the statement and
\* the connection, or the transaction's claim.
ClearDeadline(w) ==
    /\ worker[w].pc = "drop_exec"
    /\ conn' = [conn EXCEPT ![exec[worker[w].exec].conn].deadline = None]
    /\ Goto(w, "return_exec")
    /\ UNCHANGED <<available, leased, poolOpen, txn, exec, handles, woken>>

DropExecution(w) ==
    /\ worker[w].pc = "return_exec"
    /\ LET e == worker[w].exec
           c == exec[e].conn
           t == exec[e].owner
       IN  /\ exec' = [exec EXCEPT ![e] = NoExec]
           /\ \E resets \in BOOLEAN :
                  conn' = [conn EXCEPT ![c] = return_statement(@, exec[e].query, resets)]
           /\ IF t = None
              THEN /\ Set(w, [Idle EXCEPT !.pc = "release", !.conn = c])
                   /\ UNCHANGED txn
              ELSE /\ Set(w, [Idle EXCEPT !.pc = "unref_txn", !.txn = t])
                   /\ txn' = [txn EXCEPT ![t].active = IF @ = e THEN None ELSE @]
    /\ UNCHANGED <<available, leased, poolOpen, handles, woken>>

-----------------------------------------------------------------------------
(* The application lets go of a handle *)

DropHandle(w, h) ==
    /\ worker[w].pc = "idle" /\ h \in handles
    /\ handles' = handles \ {h}
    /\ Set(w, CASE h \in {DbHandle, PoolStmt} -> Idle
                [] h[1] = "exec" -> [Idle EXCEPT !.pc = "unref_exec", !.exec = h[2]]
                [] OTHER -> [Idle EXCEPT !.pc = "unref_txn", !.txn = h[2]])
    /\ UNCHANGED <<available, leased, poolOpen, conn, txn, exec, woken>>

Call(w) ==
    \/ \E q \in Queries : CallPrepare(w, q)
    \/ \E e \in Execs, q \in Queries : CallStart(w, e, q)
    \/ \E t \in Txns : \/ CallBegin(w, t)
                       \/ CallTxn(w, t, "finish", None)
                       \/ \E q \in Queries : CallTxn(w, t, "prepare", q)
    \/ \E t \in Txns, e \in Execs, q \in Queries : CallTxnStart(w, t, e, q)
    \/ \E e \in Execs : CallNextRow(w, e)
    \/ \E h \in handles : DropHandle(w, h)

Work(w) ==
    \/ Acquire(w) \/ Saturated(w) \/ WakeUp(w) \/ release(w) \/ notify_one(w)
    \/ CloseDiscarded(w) \/ ReplaceDiscarded(w)
    \/ prepare_columns(w) \/ start_pooled_execution(w) \/ hosted_sqlite_begin(w)
    \/ RefuseTxn(w) \/ hosted_sqlite_txn_prepare(w) \/ start_transaction_execution(w)
    \/ hosted_sqlite_txn_finish(w) \/ UnrefTxn(w) \/ DropTransactionShared(w)
    \/ LockExecution(w) \/ hosted_sqlite_next_row(w) \/ UnrefExec(w)
    \/ ClearDeadline(w) \/ DropExecution(w)

Next == DropPool \/ \E w \in Workers : Call(w) \/ Work(w)

Spec == Init /\ [][Next]_vars

-----------------------------------------------------------------------------
(* Properties *)

WorkerPcs == {"idle", "acquire", "waiting", "own", "release", "notify", "discard", "reopen",
              "txn", "unref_txn", "drop_txn", "row", "stepping", "unref_exec", "drop_exec",
              "return_exec"}

\* The shape of the state.
TypeOK ==
    /\ available \in Seq(Conns) /\ leased \in 0 .. Cardinality(Conns)
    /\ poolOpen \in BOOLEAN /\ woken \subseteq Workers
    /\ \A c \in Conns : conn[c].deadline \in Execs \union {None} /\ conn[c].open \in BOOLEAN
    /\ \A t \in Txns : txn[t].conn \in Conns \union {None} /\ txn[t].active \in Execs \union {None}
    /\ \A e \in Execs : exec[e].owner \in Txns \union {None}
    /\ \A w \in Workers : worker[w].pc \in WorkerPcs

\* Everything that owns a connection: the pool, a transaction, a pooled
\* execution, or a call in progress.
Owners(c) ==
    {<<"pool", i>> : i \in {j \in DOMAIN available : available[j] = c}}
    \union {<<"txn", t>> : t \in {u \in Txns : txn[u].conn = c}}
    \union {<<"exec", e>> : e \in {x \in Execs : exec[x].owner = None /\ exec[x].conn = c}}
    \union {<<"worker", w>> : w \in {v \in Workers : worker[v].conn = c}}

\* A connection has at most one owner and only an ownerless one is gone for
\* good; `leased` counts exactly the connections out of the pool; and a pool is
\* dropped, closing what it has, only when nothing is leased.  While a
\* statement of a transaction is stepped, the transaction still has the
\* connection and counts that execution as its active one.
ConnectionOwnedOnce ==
    /\ \A c \in Conns : Cardinality(Owners(c)) <= 1 /\ (Owners(c) = {} => ~conn[c].open)
    /\ leased = Cardinality({c \in Conns : Owners(c) # {} /\ ~Contains(available, c)})
    /\ ~poolOpen => leased = 0 /\ available = <<>>
    /\ \A w \in Workers : worker[w].pc = "stepping" =>
          LET e == worker[w].exec
              t == exec[e].owner
          IN  /\ exec[e].live /\ conn[exec[e].conn].open
              /\ t # None => txn[t].conn = exec[e].conn /\ txn[t].active = e

\* A connection in the pool can be leased by anyone: it is open, outside any
\* transaction, and no progress handler points to the deadline of an earlier
\* execution.  Wherever a connection is, its handler's deadline is that of a
\* live execution on it.
ReadyForReuse ==
    /\ \A i \in DOMAIN available : LET c == conn[available[i]]
                                  IN  c.open /\ ~c.inTxn /\ c.deadline = None
    /\ \A c \in Conns : conn[c].deadline # None /\ conn[c].open =>
          exec[conn[c].deadline].live /\ exec[conn[c].deadline].conn = c

\* While a call waits that nobody has notified, every connection in the pool
\* has a notification on its way, to that call or to another waiting one: no
\* release or discard leaves a connection idle beside a sleeping waiter.
WaiterNotStranded ==
    LET waiting == {w \in Workers : worker[w].pc = "waiting"}
    IN  waiting \subseteq woken
        \/ Len(available) <= Cardinality(waiting \cap woken)
                             + Cardinality({w \in Workers : worker[w].pc = "notify"})

\* Nothing stays behind: when no call is running, what is out of the pool is
\* held by an execution or a transaction that the application still has a
\* handle to, directly or through a statement prepared in it.  Failed calls,
\* rollbacks that fail and executions dropped half-way lose no connection.
LeasesReturned ==
    (\A w \in Workers : worker[w].pc = "idle") =>
        /\ \A e \in Execs : exec[e].live => ExecHandle(e) \in handles
        /\ \A t \in Txns : txn[t].live =>
              \/ {TxnHandle(t), TxnStmt(t)} \cap handles # {}
              \/ \E e \in Execs : exec[e].live /\ exec[e].owner = t
        /\ leased = Cardinality({e \in Execs : exec[e].live /\ exec[e].owner = None})
                    + Cardinality({t \in Txns : txn[t].live /\ txn[t].conn # None})
=============================================================================
