------------------------- MODULE SqliteTransactions -------------------------
(***************************************************************************)
(* The Sqlite side of shed/sql: threads that share the connections of a    *)
(* few databases (SqliteMultithreaded), one guard at a time in the whole   *)
(* process (SqliteConnectionGuard), and the queries and transactions that  *)
(* run on a guard (Transaction and the functions of the queries! macro).   *)
(*                                                                         *)
(* A guard is obtained in two steps, the process-wide flag and then the    *)
(* database's connection, each with a mutex and a condition variable, and  *)
(* the process-wide mutex is held until the second step is done.  It is    *)
(* released in two steps as well, in the same order.                       *)
(*                                                                         *)
(* No name here is one of ConfigStore's: StoreProofs extends both.         *)
(***************************************************************************)
EXTENDS Integers

CONSTANTS
    Callers,        \* the threads that share the connections
    Databases,
    NoCaller,       \* a mutex nobody holds, a connection in no transaction
    MaxCalls        \* model bound: queries and transactions of a thread

ASSUME SqliteConstants ==
    /\ NoCaller \notin Callers
    /\ Databases # {}
    /\ MaxCalls \in Nat

VARIABLES
    allowed,        \* the flag in CONN_LOCK
    conn_lock,      \* who holds CONN_LOCK
    connection,     \* whether SqliteMultithreadedInner.connection is Some
    inner_lock,     \* who holds its mutex, if for more than one step
    at,             \* where each thread is
    db,             \* the database each thread works on
    kind,           \* "query" or "transaction"
    calls,          \* calls made so far
    open,           \* whose transaction is open on each connection
    failed          \* history: a statement of a transaction failed here

sqliteVars == <<allowed, conn_lock, connection, inner_lock, at, db, kind, calls,
                open, failed>>

locks == <<allowed, conn_lock, connection, inner_lock>>
data  == <<db, kind, calls, open, failed>>

Goto(t, label) == at' = [at EXCEPT ![t] = label]

SqliteInit ==
    /\ allowed = TRUE
    /\ conn_lock = NoCaller
    /\ connection = [d \in Databases |-> TRUE]
    /\ inner_lock = [d \in Databases |-> NoCaller]
    /\ at = [t \in Callers |-> "idle"]
    /\ db = [t \in Callers |-> CHOOSE d \in Databases : TRUE]
    /\ kind = [t \in Callers |-> "query"]
    /\ calls = [t \in Callers |-> 0]
    /\ open = [d \in Databases |-> NoCaller]
    /\ failed = [d \in Databases |-> FALSE]

-----------------------------------------------------------------------------
(* acquire_sqlite_connection() and SqliteConnectionGuard::new().           *)

\* A query or a start_transaction(); a query_start callback may refuse it.
Call(t) ==
    /\ at[t] = "idle"
    /\ calls[t] < MaxCalls
    /\ calls' = [calls EXCEPT ![t] = @ + 1]
    /\ \E d \in Databases, k \in {"query", "transaction"} :
          /\ db' = [db EXCEPT ![t] = d]
          /\ kind' = [kind EXCEPT ![t] = k]
    /\ \E label \in {"idle", "global"} : Goto(t, label)
    /\ UNCHANGED <<locks, open, failed>>

MutantLockGlobal(t) ==
    /\ at[t] = "global"
    /\ conn_lock = NoCaller
    /\ allowed' = FALSE
    /\ conn_lock' = t
    /\ Goto(t, "connection")
    /\ UNCHANGED <<connection, inner_lock, data>>

\* CONN_CONDVAR.wait_while(): the flag is set, so this thread clears it and
\* goes on with CONN_LOCK held ...
LockGlobal(t) ==
    /\ at[t] = "global"
    /\ conn_lock = NoCaller
    /\ allowed
    /\ allowed' = FALSE
    /\ conn_lock' = t
    /\ Goto(t, "connection")
    /\ UNCHANGED <<connection, inner_lock, data>>

\* ... or it is not, and the thread waits for CONN_CONDVAR.
WaitGlobal(t) ==
    /\ at[t] = "global"
    /\ conn_lock = NoCaller
    /\ ~allowed
    /\ Goto(t, "wait_global")
    /\ UNCHANGED <<locks, data>>

\* The connection is there: take it; both mutexes are free again.
TakeConnection(t) ==
    /\ at[t] = "connection"
    /\ inner_lock[db[t]] = NoCaller
    /\ connection[db[t]]
    /\ connection' = [connection EXCEPT ![db[t]] = FALSE]
    /\ conn_lock' = NoCaller
    /\ Goto(t, IF kind[t] = "query" THEN "use" ELSE "begin")
    /\ UNCHANGED <<allowed, inner_lock, data>>

\* It has not been put back yet: wait for it, with CONN_LOCK held.
WaitConnection(t) ==
    /\ at[t] = "connection"
    /\ inner_lock[db[t]] = NoCaller
    /\ ~connection[db[t]]
    /\ Goto(t, "wait_connection")
    /\ UNCHANGED <<locks, data>>

\* Condition variables may wake up threads for no reason.
SpuriousReturn(t) ==
    /\ \/ at[t] = "wait_global" /\ Goto(t, "global")
       \/ at[t] = "wait_connection" /\ Goto(t, "connection")
    /\ UNCHANGED <<locks, data>>

-----------------------------------------------------------------------------
(* Queries and transactions.                                               *)

\* sqlite_query() and sqlite_exec_query(): whatever comes of the statement,
\* the guard is dropped.
Query(t) ==
    /\ at[t] = "use"
    /\ kind[t] = "query"
    /\ Goto(t, "drop")
    /\ UNCHANGED <<locks, data>>

\* Transaction::new(): BEGIN DEFERRED ...
Begin(t) ==
    /\ at[t] = "begin"
    /\ open[db[t]] = NoCaller
    /\ open' = [open EXCEPT ![db[t]] = t]
    /\ Goto(t, "use")
    /\ UNCHANGED <<locks, db, kind, calls, failed>>

\* ... which Sqlite refuses inside a transaction, and may refuse anyway.
BeginFails(t) ==
    /\ at[t] = "begin"
    /\ Goto(t, "drop")
    /\ UNCHANGED <<locks, data>>

\* What Sqlite may do with the transaction when a statement fails: leave it
\* open, or roll it back.
OpenAfterError(t) ==
    \E o \in {open[db[t]], NoCaller} : open' = [open EXCEPT ![db[t]] = o]

\* query_internal_with_transaction() takes the guard out of the Transaction
\* and puts it back if the statement succeeds, which changes nothing here.
\* If it fails the guard is dropped and the Transaction is left empty.
StatementFails(t) ==
    /\ at[t] = "use"
    /\ kind[t] = "transaction"
    /\ failed' = [failed EXCEPT ![db[t]] = TRUE]
    /\ OpenAfterError(t)
    /\ Goto(t, "drop")
    /\ UNCHANGED <<locks, db, kind, calls>>

\* commit(): COMMIT, after which the guard is dropped ...
Commit(t) ==
    /\ at[t] = "use"
    /\ kind[t] = "transaction"
    /\ open' = [open EXCEPT ![db[t]] = NoCaller]
    /\ Goto(t, "drop")
    /\ UNCHANGED <<locks, db, kind, calls, failed>>

MutantCommitFails(t) ==
    /\ at[t] = "use"
    /\ kind[t] = "transaction"
    /\ OpenAfterError(t)
    /\ Goto(t, "drop")
    /\ UNCHANGED <<locks, db, kind, calls, failed>>

\* ... or put back into the Transaction, which is then dropped.
CommitFails(t) ==
    /\ at[t] = "use"
    /\ kind[t] = "transaction"
    /\ OpenAfterError(t)
    /\ Goto(t, "rollback")
    /\ UNCHANGED <<locks, db, kind, calls, failed>>

\* rollback(), or the Transaction is dropped.
Abandon(t) ==
    /\ at[t] = "use"
    /\ kind[t] = "transaction"
    /\ Goto(t, "rollback")
    /\ UNCHANGED <<locks, data>>

\* Transaction::drop() of a transaction that has its guard: ROLLBACK, a panic
\* if there is nothing to roll back.  The guard is dropped in any case.
Rollback(t) ==
    /\ at[t] = "rollback"
    /\ open' = [open EXCEPT ![db[t]] = NoCaller]
    /\ Goto(t, "drop")
    /\ UNCHANGED <<locks, db, kind, calls, failed>>

-----------------------------------------------------------------------------
(* SqliteConnectionGuard::drop().                                          *)

Release(t) ==
    /\ at[t] = "drop"
    /\ conn_lock = NoCaller
    /\ allowed' = TRUE
    /\ Goto(t, "put_back")
    /\ UNCHANGED <<conn_lock, connection, inner_lock, data>>

\* The condition variable's notify_one(): some waiting thread tries again.
NotifyOneOf(t, waiting, label, then) ==
    IF waiting = {} THEN Goto(t, then)
    ELSE \E u \in waiting : at' = [at EXCEPT ![t] = then, ![u] = label]

\* The connection is put back and a thread that waits for it notified, with
\* the database's mutex held.
PutBack(t) ==
    /\ at[t] = "put_back"
    /\ inner_lock[db[t]] = NoCaller
    /\ inner_lock' = [inner_lock EXCEPT ![db[t]] = t]
    /\ connection' = [connection EXCEPT ![db[t]] = TRUE]
    /\ NotifyOneOf(t, {u \in Callers : at[u] = "wait_connection" /\ db[u] = db[t]},
                 "connection", "notify")
    /\ UNCHANGED <<allowed, conn_lock, data>>

MutantNotify(t) ==
    /\ at[t] = "notify"
    /\ inner_lock' = [inner_lock EXCEPT ![db[t]] = NoCaller]
    /\ Goto(t, "idle")
    /\ UNCHANGED <<allowed, conn_lock, connection, data>>

\* A thread that waits for the flag is notified; the mutex is released.
Notify(t) ==
    /\ at[t] = "notify"
    /\ inner_lock' = [inner_lock EXCEPT ![db[t]] = NoCaller]
    /\ NotifyOneOf(t, {u \in Callers : at[u] = "wait_global"}, "global", "idle")
    /\ UNCHANGED <<allowed, conn_lock, connection, data>>

-----------------------------------------------------------------------------

Acquire(t) ==
    LockGlobal(t) \/ WaitGlobal(t) \/ TakeConnection(t) \/ WaitConnection(t)

Use(t) ==
    \/ Query(t) \/ Begin(t) \/ BeginFails(t) \/ StatementFails(t)
    \/ Commit(t) \/ CommitFails(t) \/ Abandon(t) \/ Rollback(t)

Drop(t) == Release(t) \/ PutBack(t) \/ Notify(t)

Step(t) == Acquire(t) \/ Use(t) \/ Drop(t)

Finished ==
    /\ \A t \in Callers : at[t] = "idle" /\ calls[t] = MaxCalls
    /\ UNCHANGED sqliteVars

SqliteNext ==
    \/ \E t \in Callers : Step(t) \/ Call(t) \/ SpuriousReturn(t)
    \/ Finished

SqliteSpec == SqliteInit /\ [][SqliteNext]_sqliteVars

\* Threads run, and those that hold a guard finish with it; nobody is obliged
\* to call, and no spurious wake-up can be relied on.
SqliteFairSpec == SqliteSpec /\ \A t \in Callers : WF_sqliteVars(Step(t))

-----------------------------------------------------------------------------
(* Properties.                                                             *)

\* Every variable keeps the type of its Rust counterpart.
SqliteTypeOK ==
    /\ allowed \in BOOLEAN
    /\ conn_lock \in Callers \cup {NoCaller}
    /\ connection \in [Databases -> BOOLEAN]
    /\ inner_lock \in [Databases -> Callers \cup {NoCaller}]
    /\ at \in [Callers -> {"idle", "global", "wait_global", "connection",
                           "wait_connection", "begin", "use", "rollback",
                           "drop", "put_back", "notify"}]
    /\ db \in [Callers -> Databases]
    /\ kind \in [Callers -> {"query", "transaction"}]
    /\ calls \in [Callers -> Nat]
    /\ open \in [Databases -> Callers \cup {NoCaller}]
    /\ failed \in [Databases -> BOOLEAN]

\* The threads that have the process-wide flag.
HasFlag(t) ==
    at[t] \in {"connection", "wait_connection", "begin", "use", "rollback", "drop"}

\* The threads that have taken a connection and not put it back.
HasConnection(t) == at[t] \in {"begin", "use", "rollback", "drop", "put_back"}

\* "only one connection is in use for writes at a time inside the process"
\* (sqlite.rs:24): at most one thread has the flag, across all databases, and
\* the flag is clear exactly while one does.
OneGuard ==
    /\ \A t, u \in Callers : HasFlag(t) /\ HasFlag(u) => t = u
    /\ allowed <=> ~\E t \in Callers : HasFlag(t)

\* A connection is in its place or in the hands of one thread: never lost,
\* never in two hands (get_or_insert() would drop the second one).
ConnectionKept ==
    \A d \in Databases :
        LET holders == {t \in Callers : HasConnection(t) /\ db[t] = d}
        IN  /\ connection[d] <=> holders = {}
            /\ \A t, u \in holders : t = u

\* A thread that waits for a connection holds CONN_LOCK, which drop() needs:
\* the holder of the connection is past that, so they never wait for each
\* other.
NeverEachOther ==
    \A t \in Callers :
        /\ conn_lock = t <=> at[t] \in {"connection", "wait_connection"}
        /\ at[t] = "wait_connection" =>
              \E u \in Callers : at[u] = "put_back" /\ db[u] = db[t]

\* While the flag is set, a thread that waits for it is not forgotten: a
\* notification is still to come, or another thread is about to take the flag
\* and will notify later.
NoLostWakeup ==
    allowed /\ (\E t \in Callers : at[t] = "wait_global") =>
        \E u \in Callers : at[u] \in {"put_back", "notify", "global"}

\* The protocol of the two mutexes and two condition variables is sound.
GuardsSound == OneGuard /\ ConnectionKept /\ NeverEachOther /\ NoLostWakeup

\* A transaction is open on a connection only while the thread that began it
\* has the connection and has yet to commit or roll back, so nobody else is
\* handed a connection inside it; unless a statement of a transaction failed.
TransactionsClosed ==
    \A d \in Databases :
        open[d] # NoCaller /\ ~failed[d] =>
            /\ at[open[d]] \in {"use", "rollback"}
            /\ kind[open[d]] = "transaction"
            /\ db[open[d]] = d

\* A thread that asks for a connection gets it.
Served == \A t \in Callers : at[t] = "global" ~> HasConnection(t)

-----------------------------------------------------------------------------

\* transaction.rs:65: "When a Sqlite transaction is dropped a rollback is
\* performed": no connection is put back with a transaction open on it.
RolledBackWhenDropped ==
    \A d \in Databases : connection[d] => open[d] = NoCaller
=============================================================================
