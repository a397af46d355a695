------------------------- MODULE TransactionManager -------------------------
(***************************************************************************)
(* The transaction manager of GuinsooDB together with the client contexts  *)
(* that drive it (src/src/transaction/transaction_manager.cpp,             *)
(* transaction_context.cpp and src/src/main/client_context.cpp).           *)
(*                                                                         *)
(* One user thread per connection calls into its ClientContext; the calls  *)
(* share the manager's timestamps, its lists of active, recently committed *)
(* and old transactions, and three kinds of mutexes: transaction_lock,     *)
(* connections_lock and one context_lock per connection.  What a           *)
(* transaction reads and writes is the business of module DataTable; here  *)
(* a transaction is its timestamps, its query number and its place in the  *)
(* manager's lists.                                                        *)
(*                                                                         *)
(* Granularity.  A section that runs under transaction_lock without        *)
(* waiting is one action, except where a step that does NOT take that lock *)
(* (GetQueryNumber, the store to active_query) can fall in between:        *)
(* RemoveTransaction is split after the loop that reads the active_query   *)
(* of the other transactions, and the commit that checkpoints is split at  *)
(* every lock it waits for.                                                *)
(***************************************************************************)
EXTENDS Integers, Sequences

CONSTANTS
    Clients,             \* the connections
    NoClient,            \* owner of a free mutex
    NoTxn,               \* the null Transaction*
    TransactionIdStart,  \* TRANSACTION_ID_START: 2^62 in the code, small here
    MaximumQueryId,      \* MAXIMUM_QUERY_ID: no query runs
    MaxQueries,          \* bound: no call starts past this query number
    Statements,          \* what users may run, a subset of AllStatements
    Drops                \* which Connections users drop: "free" ones, and ones
                         \* whose context is "held" by a checkpointing thread

\* Besides the SQL statements: the calls that run a "function" in a transaction,
\* run a parsed "statement" or relation, or set "autocommit".
AllStatements == {"query", "stream", "begin", "commit", "rollback", "checkpoint",
                  "force_checkpoint", "function", "statement", "autocommit"}

ASSUME ConstantsAssumption ==
    /\ NoClient \notin Clients
    /\ TransactionIdStart \in Nat \ {0}
    /\ MaximumQueryId \in Nat
    /\ MaxQueries \in Nat
    /\ MaxQueries < MaximumQueryId
    /\ NoTxn \notin Nat
    /\ Statements \subseteq AllStatements
    /\ Drops \subseteq {"free", "held"}

\* The ids StartTransaction can hand out: a start timestamp below
\* TransactionIdStart is consumed for each.
Txns == TransactionIdStart .. (2 * TransactionIdStart - 1)

VARIABLES
    \* the manager
    current_start_timestamp,
    current_transaction_id,
    current_query_number,
    active_transactions,      \* a set: only minima over the list matter
    recently_committed,
    old_transactions,
    thread_is_checkpointing,
    transaction_lock,         \* owner, or NoClient
    connections_lock,
    \* the transaction objects
    start_time,
    commit_id,
    active_query,
    highest_active_query,
    context,                  \* the weak_ptr to the context that began it
    \* the client contexts
    current_transaction,
    auto_commit,
    changes_made,             \* ChangesMade() of the current transaction
    open_result,              \* a StreamQueryResult is open
    context_lock,
    \* the user threads
    pc,
    after,                    \* where the call goes once a commit/rollback ended
    number,                   \* the query number taken and not yet stored
    removing,                 \* the argument of Commit-/RollbackTransaction
    scan,                     \* the locals of RemoveTransaction (one at a time)
    to_lock,                  \* the contexts LockClients has still to lock
    force,                    \* the argument of Checkpoint (one at a time)
    \* auxiliary
    users,                    \* the queries running when t was retired
    cleaned_until,            \* the highest commit id cleaned up so far
    freed_in_use,             \* the queries running when memory retired after
                              \* they began was freed
    leaked                    \* the transactions their context lost before
                              \* it ended them

timestamps == <<current_start_timestamp, current_transaction_id>>
lists == <<active_transactions, recently_committed, old_transactions>>
objects == <<start_time, commit_id, highest_active_query>>
auxiliary == <<users, cleaned_until, freed_in_use>>
origins == <<context, leaked>>
collected == <<timestamps, lists, objects, scan, auxiliary>>
manager == <<collected, origins>>
queries == <<current_query_number, active_query, number>>
mutexes == <<thread_is_checkpointing, transaction_lock, connections_lock, to_lock, force>>
contexts == <<current_transaction, auto_commit, changes_made, context_lock, after, removing>>
vars == <<manager, queries, mutexes, contexts, open_result, pc>>

NoScan == [start_time |-> 0, active_query |-> 0, seen |-> {}]

Init ==
    /\ current_start_timestamp = 0
    /\ current_transaction_id = TransactionIdStart
    /\ current_query_number = 1
    /\ active_transactions = {}
    /\ recently_committed = << >>
    /\ old_transactions = << >>
    /\ thread_is_checkpointing = FALSE
    /\ transaction_lock = NoClient
    /\ connections_lock = NoClient
    /\ start_time = [t \in Txns |-> 0]
    /\ commit_id = [t \in Txns |-> 0]
    /\ active_query = [t \in Txns |-> MaximumQueryId]
    /\ highest_active_query = [t \in Txns |-> 0]
    /\ current_transaction = [c \in Clients |-> NoTxn]
    /\ auto_commit = [c \in Clients |-> TRUE]
    /\ changes_made = [c \in Clients |-> FALSE]
    /\ open_result = [c \in Clients |-> FALSE]
    /\ context_lock = [c \in Clients |-> NoClient]
    /\ pc = [c \in Clients |-> "idle"]
    /\ after = [c \in Clients |-> "idle"]
    /\ number = [c \in Clients |-> 0]
    /\ removing = [c \in Clients |-> NoTxn]
    /\ scan = NoScan
    /\ to_lock = {}
    /\ force = FALSE
    /\ users = [t \in Txns |-> {}]
    /\ cleaned_until = -1
    /\ freed_in_use = {}
    /\ context = [t \in Txns |-> NoClient]
    /\ leaked = {}

-----------------------------------------------------------------------------
(***************************************************************************)
(* Mutexes and client contexts.                                            *)
(***************************************************************************)

TransactionLockFree == transaction_lock = NoClient

\* A context is in the connection list while somebody holds a shared_ptr to it.
Alive(c) == pc[c] # "closed" /\ after[c] # "closed"

CallOver_NeverUnlocks(target) == FALSE

\* The call of the thread ends: its ClientContextLock is released.
CallOver(target) == target \in {"idle", "closed"}

\* c drops the other contexts it holds; its own stays locked while the call
\* it is in goes on (target is where its thread continues).
LocksAfter(c, target) ==
    [d \in Clients |-> IF d = c
                       THEN IF CallOver(target) THEN NoClient ELSE c
                       ELSE IF context_lock[d] = c THEN NoClient ELSE context_lock[d]]

\* The last shared_ptr to a context that was dropped while c held it goes away
\* with c's client_locks: c destroys that context.
PcAfter(c, target) ==
    [d \in Clients |-> IF d = c THEN target
                       ELSE IF pc[d] = "dropped" /\ connections_lock = c
                            THEN "closed" ELSE pc[d]]

\* The dropped contexts whose destruction has to roll back a transaction.
DroppedWithTransaction ==
    {d \in Clients : pc[d] = "dropped" /\ current_transaction[d] # NoTxn}

ClearTransaction(c) == [current_transaction EXCEPT ![c] = NoTxn]

SetAutoCommit(c, value) == [auto_commit EXCEPT ![c] = value]

EndTransaction_ClearsFirst(c, how, next) ==
    /\ pc' = PcAfter(c, how)
    /\ context_lock' = LocksAfter(c, how)
    /\ after' = [after EXCEPT ![c] = next]
    /\ removing' = [removing EXCEPT ![c] = ClearTransaction(c)[c]]
    /\ current_transaction' = ClearTransaction(c)
    /\ auto_commit' = SetAutoCommit(c, TRUE)
    /\ changes_made' = [changes_made EXCEPT ![c] = FALSE]

\* The thread of c ends its transaction t with CommitTransaction or
\* RollbackTransaction (how) and continues at next; the context forgets t first
\* (TransactionContext::Commit, Rollback and ClearTransaction).
EndTransaction(c, how, next) ==
    /\ pc' = PcAfter(c, how)
    /\ context_lock' = LocksAfter(c, how)
    /\ after' = [after EXCEPT ![c] = next]
    /\ removing' = [removing EXCEPT ![c] = current_transaction[c]]
    /\ current_transaction' = ClearTransaction(c)
    /\ auto_commit' = SetAutoCommit(c, TRUE)
    /\ changes_made' = [changes_made EXCEPT ![c] = FALSE]

\* The thread of c continues at target with the transaction state of its
\* context as it is.
Continue(c, target) ==
    /\ pc' = PcAfter(c, target)
    /\ context_lock' = LocksAfter(c, target)
    /\ UNCHANGED <<after, removing, current_transaction, auto_commit, changes_made>>

(***************************************************************************)
(* ClientContext::FinalizeQuery: the query is over; in auto-commit mode its *)
(* transaction is committed or rolled back, by the actions at pc "commit"  *)
(* and "rollback".                                                         *)
(***************************************************************************)
FinalizeQuery(c, success, next) ==
    LET t == current_transaction[c]
    IN  /\ active_query' = IF t = NoTxn THEN active_query
                           ELSE [active_query EXCEPT ![t] = MaximumQueryId]
        /\ IF t # NoTxn /\ auto_commit[c]
           THEN EndTransaction(c, IF success THEN "commit" ELSE "rollback", next)
           ELSE Continue(c, next)

-----------------------------------------------------------------------------
(***************************************************************************)
(* What users do between calls.                                            *)
(***************************************************************************)

\* Connection::Connection and ConnectionManager::AddConnection.  It is a new
\* context: the weak_ptrs to the one c had before have expired.
AddConnection(c) ==
    /\ pc[c] = "closed"
    /\ connections_lock = NoClient
    /\ pc' = [pc EXCEPT ![c] = "idle"]
    /\ context' = [t \in Txns |-> IF context[t] = c THEN NoClient ELSE context[t]]
    /\ UNCHANGED <<collected, leaked, queries, mutexes, contexts, open_result>>

\* CleanupInternal has something to do.
NeedsCleanup(c) == open_result[c]

CloseOpenResult(c) == [open_result EXCEPT ![c] = FALSE]

\* ClientContext::Query(string) and the execution of a prepared statement lock
\* the context and close an open stream result first (InitialCleanup).  Which
\* statement is run is decided where it takes effect.
StartQuery(c) ==
    /\ pc[c] = "idle"
    /\ context_lock[c] = NoClient
    /\ current_query_number <= MaxQueries             \* the bound
    /\ IF NeedsCleanup(c)
       THEN FinalizeQuery(c, TRUE, "ready")
       ELSE Continue(c, "ready") /\ UNCHANGED active_query
    /\ open_result' = CloseOpenResult(c)
    /\ UNCHANGED <<manager, mutexes, current_query_number, number>>

\* RunFunctionInTransaction (prepare, describe, append) leaves an open result.
StartFunction(c) ==
    /\ "function" \in Statements
    /\ pc[c] = "idle"
    /\ context_lock[c] = NoClient
    /\ Continue(c, "ready_function")
    /\ UNCHANGED <<manager, queries, mutexes, open_result>>

\* Query(unique_ptr<SQLStatement>) and Execute(Relation) run a statement without
\* InitialCleanup: an open result stays open.
StartStatement(c) ==
    /\ "statement" \in Statements
    /\ pc[c] = "idle"
    /\ context_lock[c] = NoClient
    /\ current_query_number <= MaxQueries             \* the bound
    /\ Continue(c, "ready")
    /\ UNCHANGED <<manager, queries, mutexes, open_result>>

\* StreamQueryResult::Close (success) or a Fetch that throws (~success): both
\* run CleanupInternal under the context lock.
CloseResult(c, success) ==
    /\ pc[c] = "idle"
    /\ open_result[c]
    /\ context_lock[c] = NoClient
    /\ success \/ current_transaction[c] # NoTxn   \* Fetch dereferences it
    /\ FinalizeQuery(c, success, "idle")
    /\ open_result' = CloseOpenResult(c)
    /\ UNCHANGED <<manager, mutexes, current_query_number, number>>

\* LockClients of another thread keeps a shared_ptr to the context of c.
HeldByCheckpoint(c) == c \in to_lock \/ context_lock[c] \notin {c, NoClient}

\* The user drops the Connection, the last reference to its context:
\* ClientContext::Destroy (and ~TransactionContext) roll back what is active.
Destroy(c) ==
    /\ "free" \in Drops
    /\ pc[c] = "idle"
    /\ ~open_result[c]
    /\ ~HeldByCheckpoint(c)
    /\ IF current_transaction[c] # NoTxn
       THEN /\ EndTransaction(c, "rollback", "closed")
            /\ active_query' = [active_query EXCEPT ![current_transaction[c]] = MaximumQueryId]
       ELSE /\ Continue(c, "closed")
            /\ UNCHANGED active_query
    /\ UNCHANGED <<manager, mutexes, current_query_number, open_result, number>>

\* The user drops the Connection while a checkpointing thread holds a
\* shared_ptr to its context: destruction is left to that thread.
DropConnection(c) ==
    /\ "held" \in Drops
    /\ pc[c] = "idle"
    /\ ~open_result[c]
    /\ HeldByCheckpoint(c)
    /\ pc' = [pc EXCEPT ![c] = "dropped"]
    /\ UNCHANGED <<manager, queries, mutexes, contexts, open_result>>

-----------------------------------------------------------------------------
(***************************************************************************)
(* BeginTransaction, in a call or by Connection::SetAutoCommit.            *)
(***************************************************************************)

IdentifiersLeft_Unchecked == TRUE

IdentifiersLeft == current_start_timestamp < TransactionIdStart

\* current_start_timestamp++
NextTimestamp == current_start_timestamp + 1

\* TransactionContext::BeginTransaction -> StartTransaction.  The D_ASSERT that
\* no transaction is current is not compiled into a release build: a current
\* one is overwritten, and stays active.
BeginTransaction(c) ==
    /\ TransactionLockFree
    /\ IdentifiersLeft
    /\ LET t == current_transaction_id
       IN  /\ current_start_timestamp' = NextTimestamp
           /\ current_transaction_id' = t + 1
           /\ start_time' = [start_time EXCEPT ![t] = current_start_timestamp]
           /\ active_transactions' = active_transactions \union {t}
           /\ context' = [context EXCEPT ![t] = c]
           /\ leaked' = leaked \union ({current_transaction[c]} \ {NoTxn})
           /\ current_transaction' = [current_transaction EXCEPT ![c] = t]
    /\ UNCHANGED <<auxiliary, queries, mutexes, recently_committed, old_transactions,
                    commit_id, highest_active_query, changes_made, open_result,
                    context_lock, after, removing, scan>>

\* Connection::SetAutoCommit, which does not lock the context.  TRUE only sets
\* the flag: a current transaction stays current.
TurnAutoCommitOn(c) ==
    /\ "autocommit" \in Statements
    /\ pc[c] = "idle"
    /\ ~auto_commit[c]
    /\ auto_commit' = SetAutoCommit(c, TRUE)
    /\ UNCHANGED <<manager, queries, mutexes, current_transaction, changes_made,
                    open_result, context_lock, pc, after, removing>>

\* FALSE keeps the current transaction, or begins one.  (Only this thread reads
\* the flag, so setting it and waiting for transaction_lock is one step.)
TurnAutoCommitOff(c) ==
    /\ "autocommit" \in Statements
    /\ pc[c] = "idle"
    /\ auto_commit[c]
    /\ auto_commit' = SetAutoCommit(c, FALSE)
    /\ UNCHANGED pc
    /\ IF current_transaction[c] = NoTxn THEN BeginTransaction(c)
       ELSE UNCHANGED <<manager, queries, mutexes, current_transaction, changes_made,
                        open_result, context_lock, after, removing>>

UserStep(c) ==
    \/ AddConnection(c)
    \/ StartQuery(c)
    \/ StartFunction(c)
    \/ StartStatement(c)
    \/ TurnAutoCommitOn(c)
    \/ TurnAutoCommitOff(c)
    \/ \E success \in BOOLEAN : CloseResult(c, success)
    \/ Destroy(c)
    \/ DropConnection(c)

-----------------------------------------------------------------------------
(***************************************************************************)
(* A call: RunStatementOrPreparedStatement and RunFunctionInTransaction.    *)
(***************************************************************************)

\* A statement takes a query number after its transaction began; a function
\* runs at once.
AfterBegin(c) == IF pc[c] = "ready" THEN "begun" ELSE "running_function"

\* In auto-commit mode the call begins a transaction.
StartTransaction(c) ==
    /\ pc[c] \in {"ready", "ready_function"}
    /\ auto_commit[c]
    /\ BeginTransaction(c)
    /\ pc' = [pc EXCEPT ![c] = AfterBegin(c)]
    /\ UNCHANGED auto_commit

\* StartTransaction throws: out of transaction identifiers.
StartTransactionFails(c) ==
    /\ pc[c] \in {"ready", "ready_function"}
    /\ auto_commit[c]
    /\ TransactionLockFree
    /\ ~IdentifiersLeft
    /\ Continue(c, "idle")
    /\ UNCHANGED <<manager, queries, mutexes, open_result>>

\* The context is in an explicit transaction: there is nothing to begin.
InTransaction(c) ==
    /\ pc[c] \in {"ready", "ready_function"}
    /\ ~auto_commit[c]
    /\ Continue(c, AfterBegin(c))
    /\ UNCHANGED <<manager, queries, mutexes, open_result>>

\* TransactionManager::GetQueryNumber, an atomic increment without the lock ...
GetQueryNumber(c) ==
    /\ pc[c] = "begun"
    /\ number' = [number EXCEPT ![c] = current_query_number]
    /\ current_query_number' = current_query_number + 1
    /\ Continue(c, "numbered")
    /\ UNCHANGED <<manager, mutexes, active_query, open_result>>

\* ... and the separate store of the number in the transaction.
SetActiveQuery(c) ==
    /\ pc[c] = "numbered"
    /\ active_query' = [active_query EXCEPT ![current_transaction[c]] = number[c]]
    /\ number' = [number EXCEPT ![c] = 0]
    /\ Continue(c, "running")
    /\ UNCHANGED <<manager, mutexes, current_query_number, open_result>>

\* A statement of an explicit transaction changes data.  (In auto-commit mode
\* the transaction ends before anything asks for ChangesMade.)
Write(c) ==
    /\ "query" \in Statements
    /\ pc[c] = "running"
    /\ ~auto_commit[c]
    /\ ~changes_made[c]
    /\ changes_made' = [changes_made EXCEPT ![c] = TRUE]
    /\ UNCHANGED <<manager, queries, mutexes, current_transaction, auto_commit,
                    open_result, context_lock, pc, after, removing>>

\* A query ends; any other statement may also end like a failed query, when it
\* throws in the binder or because its transaction was invalidated.
RunQuery(c, success) ==
    /\ "query" \in Statements
    /\ pc[c] = "running"
    /\ FinalizeQuery(c, success, "idle")
    /\ UNCHANGED <<manager, mutexes, current_query_number, open_result, number>>

\* SendQuery: the result stays open and the call returns without FinalizeQuery.
RunStream(c) ==
    /\ "stream" \in Statements
    /\ pc[c] = "running"
    /\ open_result' = [open_result EXCEPT ![c] = TRUE]
    /\ Continue(c, "idle")
    /\ UNCHANGED <<manager, queries, mutexes>>

\* RunFunctionInTransactionInternal: no query number, and no FinalizeQuery.
RunFunction(c, success) ==
    /\ pc[c] = "running_function"
    /\ IF auto_commit[c]
       THEN EndTransaction(c, IF success THEN "commit" ELSE "rollback", "idle")
       ELSE Continue(c, "idle")
    /\ UNCHANGED <<manager, queries, mutexes, open_result>>

\* PhysicalTransaction, BEGIN TRANSACTION: SetAutoCommit(false), so FinalizeQuery
\* does not commit; within a transaction it throws, with the same effect.
RunBegin(c) ==
    /\ "begin" \in Statements
    /\ pc[c] = "running"
    /\ active_query' = [active_query EXCEPT ![current_transaction[c]] = MaximumQueryId]
    /\ pc' = PcAfter(c, "idle")
    /\ context_lock' = LocksAfter(c, "idle")
    /\ auto_commit' = SetAutoCommit(c, FALSE)
    /\ UNCHANGED <<manager, mutexes, current_query_number, current_transaction,
                    changes_made, open_result, after, number, removing>>

\* PhysicalTransaction, COMMIT and ROLLBACK: they end the explicit transaction
\* (FinalizeQuery then finds none) and throw in auto-commit mode.
RunCommitOrRollback(c, how) ==
    /\ how \in Statements
    /\ pc[c] = "running"
    /\ IF auto_commit[c]
       THEN FinalizeQuery(c, FALSE, "idle")
       ELSE EndTransaction(c, how, "idle") /\ UNCHANGED active_query
    /\ UNCHANGED <<manager, mutexes, current_query_number, open_result, number>>

-----------------------------------------------------------------------------
(***************************************************************************)
(* The manager's critical sections.                                        *)
(***************************************************************************)

CanCheckpoint_IgnoresActive(current) ==
    recently_committed = << >> /\ old_transactions = << >>

\* TransactionManager::CanCheckpoint (the database is persistent).
CanCheckpoint(current) ==
    /\ recently_committed = << >>
    /\ old_transactions = << >>
    /\ active_transactions \subseteq {current}

IsLowest(m, S) == m \in S /\ \A n \in S : m <= n

Others_IncludesSelf(t) == active_transactions

Others(t) == active_transactions \ {t}

\* RemoveTransaction, first loop: the minima over the OTHER active transactions.
\* t must be in the list (D_ASSERT): with a dangling pointer the behaviour is
\* undefined, and not modelled beyond RemovedTransactionActive.
ScanActive(t) ==
    LET starts == {start_time[a] : a \in Others(t)} \union {TransactionIdStart}
        running == {active_query[a] : a \in Others(t)} \union {MaximumQueryId}
    IN  /\ t \in active_transactions
        /\ \E s \in starts, q \in running :
            /\ IsLowest(s, starts)
            /\ IsLowest(q, running)
            /\ scan' = [start_time |-> s, active_query |-> q,
                        seen |-> running \ {MaximumQueryId}]

\* n is the length of the longest prefix of seq whose elements satisfy P.
IsPrefixLength(n, seq, P(_)) ==
    /\ n \in 0 .. Len(seq)
    /\ \A i \in 1 .. n : P(seq[i])
    /\ n < Len(seq) => ~P(seq[n + 1])

NotRelevant_ByStart(x) == start_time[x] < scan.start_time

\* The changes before committed transaction x are no longer relevant.
NotRelevant(x) == commit_id[x] < scan.start_time

Unused_AtOnce(highest) == TRUE

\* No query can be using a transaction retired at query number highest.
Unused(highest) == highest < scan.active_query

SeqToSet(seq) == {seq[i] : i \in 1 .. Len(seq)}

\* The fields of destroyed Transaction objects go back to their defaults.
ResetFields(f, S, default) == [t \in Txns |-> IF t \in S THEN default ELSE f[t]]

\* recently_committed_transactions once t is pushed to its back if it committed.
Recent(t) ==
    IF commit_id[t] # 0 THEN Append(recently_committed, t) ELSE recently_committed

Aborted(t) == IF commit_id[t] # 0 THEN << >> ELSE <<t>>

\* The first n recently committed transactions, to be cleaned up.
Cleaned(t, n) == SubSeq(Recent(t), 1, n)

\* old_transactions once t, if it aborted, and those n are pushed to its back.
Old(t, n) == old_transactions \o Aborted(t) \o Cleaned(t, n)

Retired(t, n) == SeqToSet(Aborted(t)) \union SeqToSet(Cleaned(t, n))

HighestActiveQuery(t, n) ==
    [x \in Txns |-> IF x \in Retired(t, n) THEN current_query_number
                    ELSE highest_active_query[x]]

\* Auxiliary: the queries of the other active transactions.
Running(t) == {active_query[a] : a \in active_transactions \ {t}} \ {MaximumQueryId}

\* Auxiliary: the queries that were running when x was retired.
UsersAfter(t, n) == [x \in Txns |-> IF x \in Retired(t, n) THEN Running(t) ELSE users[x]]

\* Auxiliary: query q stored its number after the first loop of this call, and
\* was not running when an earlier call retired x.
Late(t, n, q, x) == q \notin scan.seen /\ (x \in Retired(t, n) \/ q \notin users[x])

\* Auxiliary: the queries that run while transactions retired after those
\* queries took their number are freed.
StillRunning(t, n, freed) ==
    {[query |-> p[1], late |-> Late(t, n, p[1], p[2])] :
        p \in {r \in Running(t) \X freed : r[1] < HighestActiveQuery(t, n)[r[2]]}}

\* RemoveTransaction, the rest: t leaves the active list, the first n recently
\* committed transactions are cleaned up, and the first m old ones are freed.
Collect(t, n, m) ==
    LET freed == SeqToSet(SubSeq(Old(t, n), 1, m))
    IN  /\ active_transactions' = active_transactions \ {t}
        /\ recently_committed' = SubSeq(Recent(t), n + 1, Len(Recent(t)))
        /\ old_transactions' = SubSeq(Old(t, n), m + 1, Len(Old(t, n)))
        /\ start_time' = ResetFields(start_time, freed, 0)
        /\ commit_id' = ResetFields(commit_id, freed, 0)
        /\ active_query' = ResetFields(active_query, freed, MaximumQueryId)
        /\ highest_active_query' = ResetFields(HighestActiveQuery(t, n), freed, 0)
        /\ scan' = NoScan
        /\ cleaned_until' = IF n = 0 THEN cleaned_until ELSE commit_id[Recent(t)[n]]
        /\ users' = ResetFields(UsersAfter(t, n), freed, {})
        /\ freed_in_use' = freed_in_use \union StillRunning(t, n, freed)
        /\ context' = ResetFields(context, freed, NoClient)

\* Cleaned up are the transactions no active snapshot predates; freed are the
\* old ones no running query can be using, or all when nothing is active.
RemoveTransaction(t) ==
    \E n \in 0 .. Len(Recent(t)) :
        /\ IsPrefixLength(n, Recent(t), NotRelevant)
        /\ \E m \in 0 .. Len(Old(t, n)) :
            LET Free(x) == Unused(HighestActiveQuery(t, n)[x])
            IN  /\ IF active_transactions = {t} THEN m = Len(Old(t, n))
                   ELSE IsPrefixLength(m, Old(t, n), Free)
                /\ Collect(t, n, m)

\* The part of CommitTransaction from the commit id to RemoveTransaction's first
\* loop.  Transaction::Commit fails (~success) when a constraint or the write
\* ahead log does; the transaction is then rolled back.
CommitBody(c, success) ==
    LET t == removing[c]
    IN  /\ commit_id' = [commit_id EXCEPT ![t] = IF success THEN current_start_timestamp ELSE 0]
        /\ current_start_timestamp' = NextTimestamp
        /\ transaction_lock' = c
        /\ ScanActive(t)

\* CommitTransaction without a checkpoint: another thread is checkpointing, this
\* one cannot, or the WAL is still small.
CommitTransaction(c, success) ==
    /\ pc[c] = "commit"
    /\ TransactionLockFree
    /\ CommitBody(c, success)
    /\ Continue(c, "remove")
    /\ UNCHANGED <<lists, auxiliary, origins, queries, current_transaction_id,
                    thread_is_checkpointing, connections_lock, start_time,
                    highest_active_query, open_result, to_lock, force>>

\* AutomaticCheckpoint: take the checkpoint flag, and let go of the transaction
\* lock while the clients are locked.
CommitWantsCheckpoint(c) ==
    /\ pc[c] = "commit"
    /\ TransactionLockFree
    /\ ~thread_is_checkpointing
    /\ CanCheckpoint(removing[c])
    /\ thread_is_checkpointing' = TRUE
    /\ Continue(c, "lock_connections")
    /\ UNCHANGED <<manager, queries, transaction_lock, connections_lock, open_result,
                    to_lock, force>>

\* TransactionManager::RollbackTransaction.
RollbackTransaction(c) ==
    /\ pc[c] = "rollback"
    /\ TransactionLockFree
    /\ transaction_lock' = c
    /\ ScanActive(removing[c])
    /\ Continue(c, "remove")
    /\ UNCHANGED <<timestamps, lists, auxiliary, origins, objects, queries,
                    thread_is_checkpointing, connections_lock, open_result, to_lock,
                    force>>

\* The end of a commit or rollback; a commit that checkpoints (it holds the
\* connection manager) keeps its locks and writes the checkpoint.
FinishRemove(c) ==
    /\ pc[c] = "remove"
    /\ RemoveTransaction(removing[c])
    /\ IF connections_lock = c
       THEN /\ pc' = [pc EXCEPT ![c] = "create_checkpoint"]
            /\ UNCHANGED <<transaction_lock, context_lock, after, removing>>
       ELSE /\ pc' = [pc EXCEPT ![c] = after[c]]
            /\ context_lock' = LocksAfter(c, after[c])
            /\ transaction_lock' = NoClient
            /\ after' = [after EXCEPT ![c] = "idle"]
            /\ removing' = [removing EXCEPT ![c] = NoTxn]
    /\ UNCHANGED <<timestamps, current_query_number, thread_is_checkpointing,
                    connections_lock, current_transaction, auto_commit, changes_made,
                    open_result, number, to_lock, force, leaked>>

-----------------------------------------------------------------------------
(***************************************************************************)
(* Checkpoints: after a commit, or the CHECKPOINT and FORCE CHECKPOINT      *)
(* statements (TransactionManager::Checkpoint).                            *)
(***************************************************************************)

\* Checkpoint takes the flag or throws when another thread has it.
BeginCheckpoint(c, s) ==
    /\ s \in Statements
    /\ pc[c] = "running"
    /\ TransactionLockFree
    /\ IF thread_is_checkpointing
       THEN FinalizeQuery(c, FALSE, "idle") /\ UNCHANGED <<thread_is_checkpointing, force>>
       ELSE /\ thread_is_checkpointing' = TRUE
            /\ force' = (s = "force_checkpoint")
            /\ Continue(c, "lock_connections")
            /\ UNCHANGED active_query
    /\ UNCHANGED <<manager, current_query_number, transaction_lock, connections_lock,
                    open_result, number, to_lock>>

\* LockClients: the connection manager first, then every other context in turn.
LockConnections(c) ==
    /\ pc[c] = "lock_connections"
    /\ connections_lock = NoClient
    /\ connections_lock' = c
    /\ to_lock' = {d \in Clients \ {c} : Alive(d)}
    /\ Continue(c, "lock_clients")
    /\ UNCHANGED <<manager, queries, thread_is_checkpointing, transaction_lock,
                    open_result, force>>

LockClient(c, d) ==
    /\ pc[c] = "lock_clients"
    /\ d \in to_lock
    /\ context_lock[d] = NoClient
    /\ context_lock' = [context_lock EXCEPT ![d] = c]
    /\ to_lock' = to_lock \ {d}
    /\ UNCHANGED <<manager, queries, thread_is_checkpointing, transaction_lock,
                    connections_lock, current_transaction, auto_commit, changes_made,
                    open_result, pc, after, removing, force>>

AllClientsLocked(c) == pc[c] = "lock_clients" /\ to_lock = {} /\ TransactionLockFree

Committing(c) == removing[c] # NoTxn

ReleaseClients_KeepsFlag ==
    /\ UNCHANGED thread_is_checkpointing
    /\ connections_lock' = NoClient
    /\ force' = FALSE

\* The flag, the connection manager and (with LocksAfter) the clients are let go.
ReleaseClients ==
    /\ thread_is_checkpointing' = FALSE
    /\ connections_lock' = NoClient
    /\ force' = FALSE

\* CommitTransaction holds the transaction lock again and commits; it goes on
\* to checkpoint if it still can and the commit succeeds, and otherwise
\* unlocks the clients first.
CommitWithClientsLocked(c, success) ==
    /\ AllClientsLocked(c)
    /\ Committing(c)
    /\ CommitBody(c, success)
    /\ IF CanCheckpoint(removing[c]) /\ success
       THEN /\ pc' = [pc EXCEPT ![c] = "remove"]
            /\ UNCHANGED <<context_lock, thread_is_checkpointing, connections_lock, force,
                           after, removing, current_transaction, auto_commit, changes_made>>
       ELSE /\ DroppedWithTransaction = {}
            /\ Continue(c, "remove")
            /\ ReleaseClients
    /\ UNCHANGED <<lists, auxiliary, origins, queries, current_transaction_id, start_time,
                    highest_active_query, open_result, to_lock>>

\* Checkpoint throws: local changes, or (without FORCE) other transactions.
CheckpointRefused(c) ==
    changes_made[c] \/ (~force /\ ~CanCheckpoint(current_transaction[c]))

RefuseCheckpoint(c) ==
    /\ AllClientsLocked(c)
    /\ ~Committing(c)
    /\ CheckpointRefused(c)
    /\ DroppedWithTransaction = {}
    /\ FinalizeQuery(c, FALSE, "idle")
    /\ ReleaseClients
    /\ UNCHANGED <<manager, current_query_number, transaction_lock, open_result, number,
                    to_lock>>

\* What taking the transaction lock for good leaves alone.
OnlyTakesLock(c, target) ==
    /\ transaction_lock' = c
    /\ pc' = [pc EXCEPT ![c] = target]
    /\ UNCHANGED <<manager, queries, contexts, thread_is_checkpointing, connections_lock,
                    open_result, to_lock, force>>

\* The clients are released while the transaction lock is held, and the release
\* destroys a dropped context with an open transaction: its RollbackTransaction
\* waits for the transaction lock its own thread holds, for ever.
DestroyUnderLock(c) ==
    /\ AllClientsLocked(c)
    /\ IF Committing(c) THEN ~CanCheckpoint(removing[c]) ELSE CheckpointRefused(c)
    /\ DroppedWithTransaction # {}
    /\ OnlyTakesLock(c, "destroying")

\* Checkpoint goes ahead, after rolling back the others if it must.
AcceptCheckpoint(c) ==
    /\ AllClientsLocked(c)
    /\ ~Committing(c)
    /\ ~CheckpointRefused(c)
    /\ OnlyTakesLock(c, IF CanCheckpoint(current_transaction[c]) THEN "create_checkpoint"
                        ELSE "force")

\* FORCE CHECKPOINT rolls back the first active transaction in the list (the
\* list is in the order of the ids), the checkpointing one included, and
\* removes it ...
ForceRollback(c, t) ==
    /\ pc[c] = "force"
    /\ IsLowest(t, active_transactions)
    /\ ScanActive(t)
    /\ removing' = [removing EXCEPT ![c] = t]
    /\ pc' = [pc EXCEPT ![c] = "force_remove"]
    /\ UNCHANGED <<timestamps, lists, auxiliary, origins, objects, queries, mutexes,
                    current_transaction, auto_commit, changes_made, open_result,
                    context_lock, after>>

\* The context of t, through the weak_ptr the transaction keeps to it.
Owns(d, t) == context[t] = d

\* ... and clears whatever is current in the context that began it.
ForceRemove(c) ==
    /\ pc[c] = "force_remove"
    /\ RemoveTransaction(removing[c])
    /\ current_transaction' = [d \in Clients |-> IF Owns(d, removing[c]) THEN NoTxn
                                                 ELSE current_transaction[d]]
    /\ auto_commit' = [d \in Clients |-> Owns(d, removing[c]) \/ auto_commit[d]]
    /\ changes_made' = [d \in Clients |-> ~Owns(d, removing[c]) /\ changes_made[d]]
    /\ leaked' = leaked \union ({current_transaction[d] : d \in {d \in Clients : Owns(d, removing[c])}}
                                \ {removing[c], NoTxn})
    /\ removing' = [removing EXCEPT ![c] = NoTxn]
    /\ pc' = [pc EXCEPT ![c] = IF active_transactions' = {} THEN "create_checkpoint"
                               ELSE "force"]
    /\ UNCHANGED <<timestamps, mutexes, current_query_number, open_result,
                    context_lock, after, number>>

\* StorageManager::CreateCheckpoint ends or throws (~success) and every lock is
\* released; the CHECKPOINT statement then finalizes its query.
FinishCheckpoint(c, success) ==
    /\ pc[c] = "create_checkpoint"
    /\ transaction_lock' = NoClient
    /\ ReleaseClients
    /\ IF Committing(c)
       THEN /\ pc' = PcAfter(c, after[c])
            /\ context_lock' = LocksAfter(c, after[c])
            /\ after' = [after EXCEPT ![c] = "idle"]
            /\ removing' = [removing EXCEPT ![c] = NoTxn]
            /\ UNCHANGED <<active_query, current_transaction, auto_commit, changes_made>>
       ELSE FinalizeQuery(c, success, "idle")
    /\ UNCHANGED <<manager, current_query_number, open_result, number, to_lock>>

-----------------------------------------------------------------------------
(***************************************************************************)
(* The specification.                                                      *)
(***************************************************************************)

\* One step of the thread of c inside a call.
CallStep(c) ==
    \/ StartTransaction(c)
    \/ StartTransactionFails(c)
    \/ InTransaction(c)
    \/ GetQueryNumber(c)
    \/ SetActiveQuery(c)
    \/ Write(c)
    \/ \E success \in BOOLEAN : RunQuery(c, success)
    \/ RunStream(c)
    \/ \E success \in BOOLEAN : RunFunction(c, success)
    \/ RunBegin(c)
    \/ \E how \in {"commit", "rollback"} : RunCommitOrRollback(c, how)
    \/ \E success \in BOOLEAN : CommitTransaction(c, success)
    \/ CommitWantsCheckpoint(c)
    \/ RollbackTransaction(c)
    \/ FinishRemove(c)
    \/ \E s \in {"checkpoint", "force_checkpoint"} : BeginCheckpoint(c, s)
    \/ LockConnections(c)
    \/ \E d \in Clients : LockClient(c, d)
    \/ \E success \in BOOLEAN : CommitWithClientsLocked(c, success)
    \/ RefuseCheckpoint(c)
    \/ DestroyUnderLock(c)
    \/ AcceptCheckpoint(c)
    \/ \E t \in Txns : ForceRollback(c, t)
    \/ ForceRemove(c)
    \/ \E success \in BOOLEAN : FinishCheckpoint(c, success)

Next == \E c \in Clients : UserStep(c) \/ CallStep(c)

Spec == Init /\ [][Next]_vars

\* A thread inside a call is scheduled again and again, queries end, and a
\* mutex that is free again and again is eventually obtained.  Users need not
\* do anything.
FairSpec == Spec /\ \A c \in Clients : SF_vars(CallStep(c))

-----------------------------------------------------------------------------
(***************************************************************************)
(* Properties.                                                             *)
(***************************************************************************)

PcValues == {"closed", "dropped", "idle", "ready", "ready_function", "begun",
             "numbered", "running", "running_function", "commit", "rollback", "remove",
             "lock_connections", "lock_clients", "destroying", "force", "force_remove", "create_checkpoint"}

\* Every variable keeps its type.
TypeOK ==
    /\ current_start_timestamp \in Nat
    /\ current_transaction_id \in Nat
    /\ current_query_number \in Nat
    /\ active_transactions \in SUBSET Txns
    /\ recently_committed \in Seq(Txns)
    /\ old_transactions \in Seq(Txns)
    /\ thread_is_checkpointing \in BOOLEAN
    /\ transaction_lock \in Clients \union {NoClient}
    /\ connections_lock \in Clients \union {NoClient}
    /\ start_time \in [Txns -> Nat]
    /\ commit_id \in [Txns -> Nat]
    /\ active_query \in [Txns -> Nat]
    /\ highest_active_query \in [Txns -> Nat]
    /\ changes_made \in [Clients -> BOOLEAN]
    /\ current_transaction \in [Clients -> Txns \union {NoTxn}]
    /\ auto_commit \in [Clients -> BOOLEAN]
    /\ open_result \in [Clients -> BOOLEAN]
    /\ context_lock \in [Clients -> Clients \union {NoClient}]
    /\ pc \in [Clients -> PcValues]
    /\ after \in [Clients -> {"idle", "ready", "closed"}]
    /\ number \in [Clients -> Nat]
    /\ removing \in [Clients -> Txns \union {NoTxn}]
    /\ scan \in [start_time : Nat, active_query : Nat, seen : SUBSET Nat]
    /\ to_lock \in SUBSET Clients
    /\ force \in BOOLEAN
    /\ users \in [Txns -> SUBSET Nat]
    /\ cleaned_until \in Int
    /\ freed_in_use \in SUBSET [query : Nat, late : BOOLEAN]
    /\ context \in [Txns -> Clients \union {NoClient}]
    /\ leaked \in SUBSET Txns

\* The undo buffer of a committed transaction is cleaned up (RemoveTransaction
\* calls Cleanup) only when every transaction that is active, then or later,
\* began after the commit, so that none can need the versions before it.
CleanupSafe ==
    \A a \in active_transactions : cleaned_until < start_time[a]

\* "recently_committed_transactions is ordered on commit_id implicitly": the
\* loop in RemoveTransaction that stops at the first transaction that is still
\* relevant misses none, because threads append in commit order.
RecentOrdered ==
    \A i, j \in 1 .. Len(recently_committed) :
        i < j => commit_id[recently_committed[i]] < commit_id[recently_committed[j]]

\* When RemoveTransaction frees a transaction from old_transactions, every query
\* that took its number before the transaction was retired has finished, except
\* one that stored that number only after this call had looked at the active
\* transactions (and that was not running when an earlier call retired it).
FreedTransactionsUnused == \A f \in freed_in_use : f.late

\* Garbage collection keeps up: with no active transaction nothing is retained
\* (a later commit or CHECKPOINT can then checkpoint).  Past the last start
\* timestamp this fails, since commit ids reach TRANSACTION_ID_START.
NothingRetainedWhenIdle ==
    (active_transactions = {} /\ current_start_timestamp <= TransactionIdStart)
        => recently_committed = << >> /\ old_transactions = << >>

\* While a checkpoint is written no other transaction is active or retained (so
\* the database holds exactly the committed data) and no other thread is inside
\* a call: D_ASSERT(CanCheckpoint(nullptr)), also after FORCE CHECKPOINT.
CheckpointQuiescent ==
    \A c \in Clients :
        (pc[c] = "create_checkpoint" /\ current_start_timestamp <= TransactionIdStart) =>
        /\ active_transactions \subseteq {current_transaction[c]}
        /\ recently_committed = << >> /\ old_transactions = << >>
        /\ \A d \in Clients \ {c} : pc[d] \in {"idle", "dropped", "closed"}

\* Each active transaction belongs to exactly one context, which will end it,
\* unless that context began another one in its place or FORCE CHECKPOINT
\* cleared the context for such a lost one.
ActiveTransactionOwned ==
    \A t \in active_transactions \ leaked :
        \E c \in Clients :
            /\ t \in {current_transaction[c], removing[c]}
            /\ \A d \in Clients \ {c} :
                    /\ t # current_transaction[d]
                    /\ t = removing[d] => "force_remove" \in {pc[c], pc[d]}

\* Queries and stream results do not lose a transaction: the open result of the
\* one before is closed first.  (Functions, parsed statements and SetAutoCommit
\* do lose one.)
NothingLeaked == leaked = {}

\* A thread that decided to checkpoint gets through its locks: neither another
\* checkpoint, nor running calls, nor the destruction of contexts block it.
CheckpointEnds == thread_is_checkpointing ~> ~thread_is_checkpointing

\* Every call returns to its user.
CallReturns ==
    \A c \in Clients : context_lock[c] = c ~> context_lock[c] # c

-----------------------------------------------------------------------------
(***************************************************************************)
(* Statements that the code does not keep in every setting: they fail with *)
(* FORCE CHECKPOINT and open stream results or dropped connections, and    *)
(* for queries that begin late.                                            *)
(***************************************************************************)

\* A transaction that a thread is about to commit or roll back is still there:
\* RemoveTransaction's D_ASSERT(t_index != active_transactions.size()).
RemovedTransactionActive ==
    \A c \in Clients :
        pc[c] \in {"commit", "rollback"} => removing[c] \in active_transactions

\* A stream result that can still be fetched from has the transaction its scan
\* reads with (ActiveTransaction: D_ASSERT(current_transaction)).
OpenResultHasTransaction ==
    \A c \in Clients : open_result[c] => current_transaction[c] # NoTxn

\* "we can only safely do the actual memory cleanup when all the currently
\* active queries have finished running": every query that runs when a
\* transaction is freed began after that transaction was retired.
FreedAfterRunningQueries == freed_in_use = {}

\* D_ASSERT(!current_transaction), "cannot start a transaction within a
\* transaction": a call about to begin one finds none in its context.
NoTransactionWithinTransaction ==
    \A c \in Clients : (pc[c] \in {"ready", "ready_function"} /\ auto_commit[c])
                          => current_transaction[c] = NoTxn

=============================================================================
