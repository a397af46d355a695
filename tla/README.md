# GuinsooDB in TLA+

GuinsooDB is an embedded analytical SQL database in C++ (a single process, a
columnar store, many connections). This directory holds a TLA+ development of
its transactional core: models translated from the source, the TLC runs that
check them on small instances, and theorems about them that TLAPS checks for
every instance. All source paths below are relative to the repository, whose
root is `src/`; `src/src/` holds the database itself.

## 1. The system

### Components, their state and operations

| Component | State | Operations | What makes it correct |
|---|---|---|---|
| `TransactionManager` (`src/src/transaction/transaction_manager.cpp`) | timestamps, transaction ids, active / recently committed / old transactions, `thread_is_checkpointing`, `transaction_lock` | start, commit, rollback, remove (garbage collection), checkpoint, force checkpoint | no snapshot loses a version, no memory is freed under a query, nothing is kept for ever, a checkpoint sees a quiescent database, nobody deadlocks |
| `TransactionContext`, `ClientContext`, `ConnectionManager` (`transaction_context.cpp`, `src/src/main/client_context.cpp`, `connection_manager.hpp`) | one `context_lock`, current transaction, auto-commit flag and open stream result per connection; the list of connections | query, stream, fetch, close, begin, commit, rollback, functions in a transaction, destruction | a transaction is owned by one context, an open result has its transaction |
| Row versions (`src/src/storage/table/chunk_info.cpp`, `morsel_info.cpp`) | insert and delete ids per row, with shortcuts per vector | append, commit, revert, delete, read, serialize | snapshot isolation; shortcuts agree with the arrays |
| `DataTable` (`src/src/storage/data_table.cpp`) | row count, columns, versions, indexes, cardinality, `append_lock` | append, delete, update, scan, fetch, commit and revert of appends, checkpoint | scans return the snapshot; rows of others are never lost |
| `LocalStorage` (`src/src/storage/local_storage.cpp`) | per transaction and table a collection of rows, deleted flags, a local index, active scans | append (with early flush), delete, update, scan, flush, commit | rows are seen once, locally or in the table |
| `UndoBuffer` and its visitors (`undo_buffer.cpp`, `commit_state.cpp`, `rollback_state.cpp`, `cleanup_state.cpp`, `transaction.cpp`) | the entries of a transaction | commit, revert a failed commit, roll back, clean up | commit is atomic although it goes entry by entry; a failure leaves nothing behind |
| ART index (`src/src/execution/index/art`) | keys and row ids | insert, erase, verify, scan | a key is there exactly while some snapshot needs it |
| Write ahead log (`write_ahead_log.cpp`, `wal_replay.cpp`) | a file of records | write, flush, truncate, replay | replay yields what was committed |
| Checkpoints (`checkpoint_manager.cpp`, `storage_manager.cpp`, `src/src/storage/checkpoint`) | meta block chains | create, load | a crash at any point recovers all committed transactions once |
| `SingleFileBlockManager` | two headers, free list, modified blocks | allocate, write, write header, load | a block the durable header needs is never overwritten |
| `BufferManager` (`buffer_manager.cpp`) | block handles, reader counts, eviction queue, memory in use | register, pin, unpin, evict, set limit | a pinned block stays loaded, memory is accounted, no deadlock |
| `UpdateSegment`, column data | chains of update versions per vector | update, fetch, commit, roll back, clean up | readers see the version of their snapshot |
| `Catalog`, `CatalogSet`, `DependencyManager` | versioned entries, name mappings, dependencies | create, alter, rename, drop, undo | names resolve per snapshot, no dangling dependency |
| Sequences | value, usage per transaction | nextval, replay | values are unique and survive recovery |
| `Executor`, `Pipeline`, `TaskScheduler` (`src/src/parallel`) | counts of tasks, dependencies and pipelines, the error list | schedule, execute, finish, cancel | every pipeline finishes exactly once and after those it depends on |
| Parser, planner, optimizer, operators, expressions, functions, types | none beyond one query | | pure computation |
| Extensions, client interfaces, third party code | | | not part of the core |

### How they interact

A user thread calls its `ClientContext` with `context_lock` held. The context
asks the `TransactionManager` for a transaction, runs the plan (the executor
hands tasks to worker threads) and commits or rolls back. Statements append to
the transaction's `LocalStorage`, mark deletions directly in the shared version
information and record what they did in the transaction's `UndoBuffer`. A
commit, under `transaction_lock`, flushes the local rows into the `DataTable`
(under `append_lock`), visits the undo buffer to write the log and replace
transaction ids by the commit id, and then lets `RemoveTransaction` clean up
what no other transaction needs. A commit that finds the log long and no other
transaction active checkpoints instead, after locking all connections.

### What is hard

* `transaction_lock` protects commits from each other but not from readers:
  everything a reader does happens between the marks of a commit.
* The manager reads `active_query` of other connections without their locks.
* A checkpoint has to give up `transaction_lock` to take the connections' locks
  and decide again what it had decided before.
* Rows move: from the local collection to the table, at a flush a scan may
  overlap; out of the table, when an append is reverted; out of the index, when
  the last snapshot that needs them ends.
* A commit may fail in the middle and is then reverted *and* rolled back.
* The log names rows by their position, which recovery has to reproduce.
* A checkpoint and the log describe the same changes twice; a crash between any
  two of its writes, of which some may be lost, must not repeat or drop one.
* Threads of several queries evict each other's blocks, with a lock per block, in
  no order.
* The last task of a pipeline is found by counting, while finalizing announces
  more tasks and the executor waits to destroy the pipeline.
* Names and catalog entries have versions of their own, and dependencies are
  plain pointers to versions.
* An update changes two storage columns, values and validity, one after the other.

`PROJECT.json` lists these hazards with their source lines and the properties
that would catch them going wrong.

## 2. Modules

### `TransactionManager` (and `MCTransactionManager`, `TransactionManagerProofs`, `TransactionContextProofs`)

One process per connection (constant `Clients`). `pc[c]` is where the thread of
connection `c` is inside `ClientContext`, `TransactionContext` or
`TransactionManager`; `context_lock`, `connections_lock`, the checkpointing
flag and `transaction_lock` (held exactly in the `pc` values `Locked`) are the
locks of the code. The manager's lists are `active_transactions`,
`recently_committed` and `old_transactions`, with `start_time`, `commit_id`,
`highest_active_query` and the like per transaction.

`UserStep` are the calls a user may make (`StartQuery`, `StartFunction`,
`StartStatement`, `CloseResult`, `TurnAutoCommitOn`, `TurnAutoCommitOff`,
`DropConnection`, ...); `CallStep` are the steps of a call under way. Queries and
prepared statements close an open stream result first; functions, parsed statements
and relations do not, and `SetAutoCommit` does not even lock the context, so that
`BeginTransaction` may find a transaction it overwrites (`leaked`, a history variable,
remembers it). `SetAutoCommit(false)` that runs out of transaction identifiers is left
out. A section under `transaction_lock` that does not wait is one action, except
that `RemoveTransaction` is split after the loop that reads the `active_query`
of the others (`scan` holds what it read), because `GetQueryNumber` and the
store to `active_query` do not take that lock and can fall in between. Taking
the client locks is one action per connection. Whether a transaction has
changes and whether the log is long enough for an automatic checkpoint is a
choice. Each statement of a string with several statements is a call of its
own. `AddCatalogSet` and `old_catalog_sets` have no caller and are left out.
`Drops` says which connections may be destroyed while a checkpointing thread
has a reference to them (`"held"`) or only otherwise (`"free"`).

### `ChunkInfo`

The version information of one vector, as pure operators over records: no info,
constant info, vector info with `same_inserted_id` and `any_deleted`. `Fetch`
and `GetSelVector` are the two ways of reading, `AppendInfo`,
`CommitAppendInfo`, `ToVectorInfo`, `DeleteConflict`, `CommitDeleteInfo` the
ways of writing, `Reloaded` what a checkpoint and a restart make of it.

### `DataTable` (and `MCDataTable`, `DataTableProofs`)

One table, `MaxTxns` transactions. The version information of each vector is in
`info`, the values in `data`, the index in `index` (pairs of key and row), the
local collections in `local`, the undo buffers in `undo`. `status[t]` is where a
transaction is: running, flushing (early, or as the first part of its commit),
committing, reverting a failed commit, rolling back. Each undo entry is
committed, reverted and rolled back by an action of its own; a flush is split
after `InitializeAppend`, which publishes the rows before their data is there; a
scan chooses the rows of a vector in one action and reads their columns in another,
because the morsel lock covers only the first. `LogFailure` lets the log fail at any entry. When
the flush inside a commit throws, `RevertCommit` receives an iterator state that
was never initialised: `RevertFlush` chooses where it stops. The index is what
the table uses of the ART: a set of pairs, checked per chunk. Values are
abstract; without an index they are inserted at most once, so that a set of
values identifies rows.

Left out: updates (module `UpdateSegment`), ALTER TABLE, several tables and indexes, NULL keys, filters,
morsels (the vectors form one array; an erased morsel is one without infos). An
index together with log failures is excluded by `DataTableAssumption`: the
second revert of an append to an indexed table scans rows that are gone, inside
a `noexcept` function, which ends the process.

### `SnapshotTable`

What the table promises: a set of values under snapshot isolation in which two
transactions never delete the same value. `DataTable` implements it under the
mapping at the end of that module: a snapshot is what the version information
yields for a start time, a transaction commits in the step that ends its
commit, aborts in the step in which it fails.

### `Durability`, `DurableStore` (and `MCDurability`, `DurabilityProofs`, `RecoveryProofs`)

One process that commits and checkpoints, and crashes. A change is the number of
its commit, a segment a bag of changes, a block one structure (metadata, table
data, a segment, the free list). `WriteToLog`, `FlushCommit` and `FailCommit` are
`Transaction::Commit`. `AllocateMetadata`, `WriteSegment` (one segment of one table:
`ColumnData::Checkpoint`, which keeps the block of an unchanged persistent segment and
takes a new one for any other), `WriteMetadata`, `WriteCheckpointRecord`,
`FlushCheckpointRecord` and `TruncateLog` are `CheckpointManager::CreateCheckpoint`;
`WriteFreeList`, `WriteHeader` and `SyncHeader` are
`SingleFileBlockManager::WriteHeader`. A step ends wherever a crash makes a difference.
`Crash` loses any subset of the writes since the last sync (`stable`,
`stable_header` and `log_images` are what is certain, and what may be found);
`Restart` reads both headers, fails if the checksum of either is wrong, loads the newer
one and replays the log in its two passes.
`DurableStore` is the promise: a map from tables to bags of acknowledged changes,
which a crash leaves alone except that the commit under way is there or not.

Abstractions: one append fills one segment; the free list fits one block; a header or
a log record that is written in part is a fault of its own (`torn_header`, `torn_log`),
and so is a crash while a block of the checkpoint in use is overwritten
(`crash_in_header`); the option `use_direct_io`, which leaves out the sync before the
header, is not modelled; unsynced
writes to blocks that no structure refers to are not tracked; the order in which
tables are written is a choice; dropping a column releases blocks as dropping a
table does and is not separate.

### `BufferManager` (and `MCBufferManager`, `BufferManagerProofs`)

Threads call `RegisterBlock`, `RegisterMemory`, `Pin`, `Unpin` (the destructor of a
`BufferHandle`) and `SetLimit`, write to what they pinned, and drop handles. A step
ends where the code takes or gives up a lock or touches an atomic or the queue, so
`EvictBlocks` is a loop of `Reserve`, `CheckLimit`, `Dequeue`, `UnloadVictim`,
`ReleaseVictim` and `OutOfMemory`. Handles are objects with reference counts
(`owned`, `pins`, running calls); the destructor is a call of its own. Every block
has unit size. The nodes of a destroyed handle, which `EvictBlocks` skips, leave the
queue with it. Timestamps of a handle are used again when no node has them any more
(`MaxTimestamp` are told apart), so that a handle can be pinned and unpinned for ever.
`latest` (what was last written), `shared` (handles that got the temporary file of
another, because `temporary_id` is read and written without a lock) and `stale` are
history variables;
`stale` says that `LimitRespected` is off: memory was granted under a limit that had
been read before it was lowered, or a call that raised the limit failed and went back
to the lower one (section 4).

### `Executor` (and `MCExecutor`, `ExecutorProofs`)

`Plans` are the pipelines of a query with their dependencies and the pipelines that
recursive CTEs run again. A thread is a stack of frames: a task may finish a
pipeline, which schedules others, and a recursive CTE runs tasks inside a task.
Counting a task (`++finished_tasks`) and comparing with `total_tasks` are two steps,
as are announcing the tasks of `Finalize` and putting them into the queue. Any task
may throw (one that finalizes a hash aggregate has no handler: `FinalizeThrows`), the
user may interrupt, workers may be stopped. `Leave` destroys the pipelines as soon as
all are completed; a thread that compares after that either finds what was there or
anything (`ReadDestroyed`, place `undefined`). What tasks compute, and
how a plan is cut into pipelines, is left out.

### `Catalog`, `SnapshotMap` (and `MCCatalog`)

One `CatalogSet`: `mapping` holds the versions of each name, `entries` those of each
entry, `object` what is allocated (a freed id may be used again, as an address may),
`dependents`, `dependencies` and `tracked` the `DependencyManager`. A statement is
one step, because the code holds the catalog's `write_lock` throughout; commit,
failed commit at any entry, rollback and cleanup are one step each, because what
they change is invisible to everyone else until they end. CREATE OR REPLACE is a
drop and a creation. Left out: default entries, names that differ by case only,
several sets, what entries contain. `SnapshotMap` is the promise, shared with
`UpdateSegment`: a map from names (rows) to entries (values) under snapshot
isolation with first writer wins.

### `UpdateSegment` (and `MCUpdateSegment`, `UpdateSegmentProofs`)

One column: `column` is what the segments store, `info[s][v]` the updates of vector
`v` of the values (`"data"`) or of the validity (`"validity"`), with the latest
values and the chain of undo entries. A statement updates rows of one vector, values
first (`UpdateData`), then validity (`UpdateValidity`), each under that segment's
lock; commit and rollback go entry by entry. Transaction `t` writes the value `t` or
NULL. Left out: statistics, the log, rows that are also deleted, several update
segments per column.

### Faults

The modules model more than the passing runs allow: a constant `Faults` (or
`Operations`, `Drops`, `Plans`) names behaviours of the code under
which a property is known to fail. A run leaves them out so that it says something
about everything else; section 4 says what happens with them, and each can be seen
by adding the fault to the run's cfg.

## 3. Runs

| Run | Constants | Checks |
|---|---|---|
| `tm_gc` | 3 connections, 2 queries after each other, more at once, ids run out at 3 commits; functions, FORCE CHECKPOINT, contexts dropped while held | `TypeOK`, `CleanupSafe`, `FreedTransactionsUnused`, `NothingRetainedWhenIdle`, `CheckpointQuiescent` |
| `tm_checkpoint` | 2 connections, streams, parsed statements, SetAutoCommit, CHECKPOINT and automatic checkpoints, dropped connections, fairness | `ActiveTransactionOwned`, `CheckpointEnds`, `CallReturns` |
| `rv_versions` | 3 transactions, vectors of 2 rows, flush at 2 rows, deletes, rollbacks, the second transaction scans | `ScanMatchesFetch`, `ReloadFaithful`, `CommittedRowsHaveTransaction`, `ScanReturnsSnapshot`, `SnapshotIsolation` (refines `SnapshotTable`) |
| `rv_log` | 3 transactions, the log may fail, no early flush | `ReplayFaithful` |
| `rv_index` | 4 transactions, 2 keys, 2 rows in one vector | `UniqueKeys`, `IndexMatchesTable` |
| `du_recovery` | 2 tables, 3 commits, 3 checkpoints, 2 crashes, 11 blocks; aborted CHECKPOINT, failing log | `FreeBlocksUnused`, `BlocksAccounted`, `CheckpointIntact`, `NothingLost` (refines `DurableStore`) |
| `du_header` | the same tables, with crashes in the write of the header | violates `DatabaseOpens` |
| `bm_evict` | 2 threads, 2 handles, 1 block of the file, 1 temporary buffer, limit 2, set to 1 and 2 again and again | `MemoryAccounted`, `PinnedStaysLoaded`, `EvictableIsQueued`, `LimitRespected`, `NoCircularWait` |
| `bm_calls` | 2 threads, 2 handles, 1 block of the file, 2 temporary buffers, limit 1, fairness | `ContentKept`, `CallsEnd` |
| `pl_run` | a join, a shared dependency and a recursive CTE, 1 worker, fairness | `InputComplete`, `TasksAccounted`, `LeavesWhenDone`, `QueryEnds` |
| `cat_ddl` | 3 names, 3 transactions of 2 changes, 5 versions | `ScanMatchesLookup`, `DependenciesVisible`, `DependenciesLive`, `NothingRetained`, `SnapshotIsolation` (refines `SnapshotMap`) |
| `us_update` | 3 transactions, 2 rows in one vector, 3 updates | `ChainsReleased`, `SnapshotIsolation` (refines `SnapshotMap`), `ScansStable`, `ReadYourWrites` |

Every module states its `TypeOK`; `tm_gc` checks the manager's, which is about the ids
running out, and the others are documentation of the state. `RecentOrdered` and
`NothingLeaked` are not in a run: they are parts of inductive invariants and proved.
`ActiveTransactionOwned` also holds with the constants of `tm_gc`, where FORCE CHECKPOINT
rolls back transactions of other contexts. Each property has a mutant of the model, a plausible
bug of the code, that breaks it (`PROJECT.json`).

### Bounds

Every bound is a constant that appears in a guard. Three connections are what
garbage collection needs: one that ends, one whose snapshot is old, one that
begins meanwhile. A checkpoint involves the thread that checkpoints and one
other. Three transactions on a table give a writer, a second writer behind or
in conflict with it, and a reader older or younger than both; vectors of two
rows give full, partly filled and straddled vectors, and rows the append did not
cover. With an index a fourth transaction inserts a key again after its
deletion was cleaned up. Four rows in two vectors let a scan be overtaken; one transaction scans (`Scanners`), the
second, so that the first may have committed rows for it or still run.
`TransactionIdStart` is small enough in the `tm_` runs that identifiers run out.

Three checkpoints use both headers and then one again, so that the blocks the first
one freed are written by the third; a second crash interrupts what followed a
recovery; `MaxBlocks` is what those need. Two handles and limits of one and two
blocks make every pin of the second block evict the first, or fail. Two timestamps per
handle leave a node of an earlier unpin in the queue beside the current one. A plan of three
pipelines has a fork and a join; one worker beside the query's own thread gives the
races between a task and the executor's loop. Three names let a rename meet a
creation of the old and of the new name. Three updates by three transactions give a
conflict, an older reader, and an entry in the middle of a chain.

### Fairness

`TransactionManager`: strong fairness on each connection's `CallStep`: a thread
inside a call is scheduled again and again, a query ends, and a mutex that becomes
free again and again is eventually obtained (what the operating system's mutexes
give in practice; nothing weaker suffices, because another connection can keep
taking `transaction_lock`). Users need not make any call.

`BufferManager`: weak fairness on each thread's steps inside a call, and strong
fairness on taking the lock of a victim, for the same reason. Nobody need make a
call or let go of a handle.

`Executor`: weak fairness on the query's thread and on each worker: they spin or
wait on a semaphore, and no lock is fought over. The user need not interrupt.

The other specifications are about safety only.

## 4. Findings

What the models show to go wrong in the code, with the setting that shows it: the
cfg to start from, what to change in it and the property to check. `du_header` is kept
as a run. The passing runs leave these settings or properties out; everything here was
met with TLC unless it says otherwise.

Transactions (`MCTransactionManager`):

* `tm_checkpoint.cfg` with `Drops = {"held"}`: a `Connection` destroyed while a
  committing thread holds its context is really destroyed by `client_locks.clear()`,
  under `transaction_lock`, for which its rollback then waits in the same thread;
  `CheckpointEnds` fails. The comment at `transaction_manager.cpp:182` wants "to
  avoid deadlock".
* `OpenResultHasTransaction` fails with `force_checkpoint` and `stream` together: an
  open stream result loses its transaction. `RemovedTransactionActive` fails with
  `force_checkpoint` and `Drops = {"free"}`: the destructor removes a transaction that
  is gone.
* `tm_checkpoint.cfg`, `NoTransactionWithinTransaction`: functions, parsed statements (`client_context.cpp:476`) and relations
  (`client_context.cpp:766`) begin a transaction over the one an open stream result
  uses, although "cannot start a transaction within a transaction"
  (`transaction_context.cpp:19`); `SetAutoCommit(true)` inside a transaction does the
  same to the next call. The transaction stays in `active_transactions`: nothing is
  cleaned up any more and no checkpoint is possible but a forced one, which then also
  clears the context of what it runs now. `ActiveTransactionOwned` speaks of the other
  transactions, `NothingLeaked` (theorem `NothingIsLeaked`) says when there are no such ones.
* `tm_checkpoint.cfg`, `FreedAfterRunningQueries`: this, the literal reading of the comment on
  `highest_active_query` (`transaction_manager.cpp:283`), fails: a query may have taken
  its number before and stored it after the loop that reads it.
  `FreedTransactionsUnused` says that this is the only query that may still run: none
  that the loop saw, or that was running when the transaction was retired by an
  earlier call.

Tables (`MCDataTable`):

* `rv_versions.cfg` with `LogFails = TRUE`: rows of a failed commit stay visible
  if another transaction appended behind them, although they "will never be committed"
  (`data_table.cpp:689`); `CommittedRowsHaveTransaction` fails. The same failed commit
  reverts its append twice.
* `rv_log.cfg` with `FlushCount = 2`, `LogFails = FALSE`: replay deletes other rows than
  those that were deleted; `ReplayFaithful` fails.
* `rv_index.cfg` with `MaxRows = 4`, `MaxLocal = 3` and four values: keys of deleted rows stay in the
  index when a cleanup batch spans vectors, and can never be inserted again;
  `IndexMatchesTable` fails.
* A scan counts the rows of a table once, those of running transactions included. When
  such a transaction rolls back (or its flush fails) while the scan runs, `RevertAppend`
  drops the version information of the vectors it empties, and the scan returns the rows
  it was to hide. `rv_versions` has this case: `cut` marks the scans it can happen to, and
  without that exception `ScanReturnsSnapshot` fails there.
* `CardinalityExact` fails when an append is reverted in a table with deletions or
  pending appends (`data_table.cpp:696` sets the count to a position), and when the
  commit of a deletion is reverted (`commit_state.cpp:240` adds what was never
  subtracted).

Durability (`NothingLost`, unless another property is named, fails when the fault is
added to `du_recovery.cfg`):

* `du_header` (`crash_in_header`): `WriteHeader` moves `modified_blocks` to the free list and writes
  the free list into one of them before the new header is on disk; a crash there
  leaves the old header with an overwritten checkpoint, and the database does not open
  (`DatabaseOpens`). `CheckpointIntact` says that this block and this moment are the only
  ones. The comment at `single_file_block_manager.cpp:240` says the blocks "can now be
  written to again".
* `torn_header`: a crash that leaves the new header in part keeps the database
  from opening, although the old header and its checkpoint are intact: both headers are
  read and a wrong checksum of either throws (`single_file_block_manager.cpp:149`,
  `file_buffer.cpp:51`); `DatabaseOpens` fails. `storage_info.hpp:45` says that of the two "the DatabaseHeader
  with the highest iteration count is used".
* `torn_log`: a record cut short makes the first pass of replay give up on the whole
  log (`wal_replay.cpp:91`), and the database opens without the commits in it.
* `abort_auto`: an automatic checkpoint that throws makes a commit fail that is in the
  log and comes back.
* `abort_truncate`: after an error between header and truncation, later commits go to
  a log whose checkpoint record matches the header, and are skipped by recovery.
* `crash_after_failure` (with `log_fails`): the truncation of a failed commit is not
  synced, and its records may come back. `drop_fails`: the failed commit of a DROP
  TABLE has released the table's blocks (`FreeBlocksUnused`).
* Blocks leak when a checkpoint is aborted, when there is no table to write, and when
  a dropped table is replayed; `BlocksAccounted` names these exceptions (`leaked`).

Buffers:

* `bm_calls.cfg` with three handles and `Limits = {2}`: `temporary_id` is neither atomic nor locked (`buffer_manager.cpp:176`); two
  buffers may share a temporary file, and the destructor of one deletes what the other
  was evicted to (`EveryContentKept`), although a buffer "needs to be written to a
  temporary file so it can be reloaded" (`buffer_manager.hpp:41`). `ContentKept` says that
  only such buffers lose anything.
* `bm_evict.cfg`, `SetLimitReturns`: `SetLimit` evicts with `manager_lock` held and may destroy a handle
  whose destructor takes it, although `buffer_manager.hpp:54` says
  of the call only that it throws if not enough memory can be freed. `NoCircularWait`
  says that no threads deadlock without `SetLimit`.
* `bm_calls.cfg` with `MaxTemporary = 1`, `EvictionEnds`: a thread that pins and unpins one block puts a node into the queue per
  unpin and has the block pinned when `EvictBlocks` looks at it; the evicting thread goes
  on for ever, although it "returns false if this was not possible"
  (`buffer_manager.hpp:69`). `CallsEnd` says that without `SetLimit`, which
  `bm_calls` leaves out, nothing else keeps a call from ending.
* `read_fails`: a block whose read threw is marked as loaded without a buffer
  (`PinnedStaysLoaded`). `write_fails`: one that could not be written stays counted
  (`MemoryAccounted`, `ContentKept`).
* `SetLimit` that raises the limit stores it before its second eviction and, when that
  fails because of what others reserved meanwhile, goes back to the old, lower limit
  although memory was granted under the new one (`buffer_manager.cpp:276`). It takes
  three threads and came up in the proof of `LimitIsRespected`; `stale` records it.

Execution:

* `Plans <- PlansThatFail`: the pipelines of a recursive CTE that several threads run
  are counted and scheduled as if they were those of the query (`InputComplete`,
  `LeavesWhenDone`).
* `pl_run.cfg`, `NoTaskAfterLeaving`: a thread that counted its task compares with `total_tasks` of a pipeline
  that `Initialize`, which waits for `completed_pipelines` only, has destroyed meanwhile
  (`executor.cpp:46-54`, `pipeline.cpp:119`). `LeavesWhenDone` holds:
  this comparison is all a thread can still be at, and the object would have told it not
  to go on.
* `half_finalized`: a
  `Finalize` that throws after it raised `total_tasks` leaves a query that never ends
  (`QueryEnds`, `TasksAccounted`).
* `FinalizeTask::Execute` (`physical_hash_aggregate.cpp:278`) does not catch exceptions
  as pipeline tasks do. `FinalizeThrows` models it: on the query's thread the error
  leaves `Initialize` with its tasks and workers as they are, on a worker it ends the
  process, and only inside a recursive CTE is it caught. `QueryEnds` counts the first two
  as an end of the query.

Catalog:

* `second_mapping`: a name that is mapped a second time hides an entry from
  transactions that still see the version before (`SnapshotIsolation`,
  `ScanMatchesLookup`). `rename_over_versions`: the commit of a rename overwrites the
  timestamp of the version below, which a fourth transaction needs
  (`SnapshotIsolation` with `MaxTransactions = 4`, `MaxChanges = 1`, two names).
  `rename_of_used`: a rename that is refused because of a dependent has changed the
  mapping (`SnapshotIsolation`, `ScanMatchesLookup`). `failed_rename`: a failed commit of
  a rename leaves its id on the renamed version (`NothingRetained`).
* A CREATE that fails on a conflict leaves a dummy entry; a DROP without CASCADE that is
  refused has dropped the indexes it met before; mappings are never cleaned up. These are
  in the model, and no property objects.
* From reading: `CatalogSet::Undo` holds the set's `catalog_lock` (`catalog_set.cpp:387`)
  when `EraseObject` takes the catalog's `write_lock` (`dependency_manager.cpp:97`);
  CREATE, ALTER and DROP take `write_lock` first and `catalog_lock` under it
  (`catalog_set.cpp:22`). A rollback and a statement on the same set can wait for each
  other for ever. The module makes each of them one step, so no property speaks of it.
* From reading: `DropObject` passes `true /* get_latest */` to the parameter that allows
  lower case aliases (`dependency_manager.cpp:40`).

Updates:

* `conflict_unseen`: a row set to NULL while another transaction gives it a value has
  entries of both in neither segment, and both commit (`SnapshotIsolation`).
* From reading: `FetchRow` (`update_segment.cpp:326`) leaves the start of its segment out
  of the row's offset and takes no lock; `IndexScan` checks one vector for uncommitted
  updates and fetches another (`standard_column_data.cpp:89`); updates of the validity are
  logged as booleans under the index of the value column (`commit_state.cpp:142`), to which
  replay applies them; an UPDATE and a DELETE of one row do not conflict.

## 5. Proofs

TLAPS checks theorems about six of the modules. They hold for every value of the
constants that the named assumptions of the modules allow (the bounds are natural
numbers, `NoClient`, `NoTxn`, `None`, `Absent`, `NoCommit` and `Torn` are not members of the sets they stand
outside of, identifiers of transactions lie above the timestamps, a table has room for whole
vectors, threads and pipelines are
finitely many), so for any number of connections, threads, rows, pipelines, tables,
checkpoints, crashes and steps.
Some have a further hypothesis on what users, files or plans do; each such hypothesis
excludes a finding of section 4 and cannot be dropped, because TLC has the
counterexample (except that TLC finds none to `BlocksAccounted` with failing drops).
`SingleRevert` allows early flushes or failing commits, not both. The first is the case
the comment on interleaved appends describes (append, append by another, rollback); with
both, TLC refutes `CommittedRowsHaveTransaction` (section 4). It excludes more than that:
TLC has no counterexample to the other two properties or with a unique index, where the
invariant needs it.
`NoRecursiveCTEs` excludes more than the finding: recursive CTEs that
one thread runs alone hold in `pl_run` and are not covered by the proof.

| Module | Theorem | States | Hypothesis |
|---|---|---|---|
| `TransactionManagerProofs` | `TypeCorrect`, `CleanupIsSafe`, `RecentIsOrdered` | `TypeOK`, `CleanupSafe`, `RecentOrdered` | |
| | `NothingIsRetained`, `FreedIsUnused` | `NothingRetainedWhenIdle`, `FreedTransactionsUnused` | |
| `TransactionContextProofs` | `ActiveIsOwned` | `ActiveTransactionOwned` | |
| | `NothingIsLeaked` | `NothingLeaked` | `ClosesResults` |
| | `CheckpointIsQuiescent`, `RemovedIsActive` | `CheckpointQuiescent`, `RemovedTransactionActive` | `DropsOrForce` |
| `DataTableProofs` | `ScanMatchesFetchHolds`, `CommittedRowsHold`, `ReloadFaithfulHolds` | `ScanMatchesFetch`, `CommittedRowsHaveTransaction`, `ReloadFaithful` | `SingleRevert` |
| `BufferManagerProofs` | `BufferTypeCorrect`, `MemoryIsAccounted`, `PinnedBlocksStay`, `EvictableIsFound`, `LimitIsRespected`, `ContentsAreKept`, `NobodyWaitsInACircle` | `TypeOK`, `MemoryAccounted`, `PinnedStaysLoaded`, `EvictableIsQueued`, `LimitRespected`, `ContentKept`, `NoCircularWait` | `ReliableFiles` |
| `ExecutorProofs` | `ExecutorTypeCorrect`, `InputIsComplete` | `TypeOK`, `InputComplete` | `NoRecursiveCTEs` |
| | `TasksAreAccounted` | `TasksAccounted` | `NoRecursiveCTEs`, `FinalizeIsWhole` |
| | `LeavesAreDone` | `LeavesWhenDone` | `NoRecursiveCTEs` |
| `DurabilityProofs` | `FreeBlocksAreUnused`, `BlocksAreAccounted`, `CheckpointsStayIntact` | `FreeBlocksUnused`, `BlocksAccounted`, `CheckpointIntact` | `HeaderIsAtomic`, `DropsSucceed` |
| `RecoveryProofs` | `NothingIsLost` | `NothingLost`: `Durability` implements `DurableStore` | `FaultsAreHandled` |
| `UpdateSegmentProofs` | `UpdateTypeCorrect`, `ChainsAreReleased`, `ScansAreStable` | `TypeOK`, `ChainsReleased`, `ScansStable` | |

The inductive invariants are theorems of their own: `Invariance`, `Retention`,
`Ownership`, `InvHolds` (of `DataTableProofs`), `Structure`, `ExecutorInvariance`, `UpdateInvariance`, `BlocksInvariant`,
`RecoveryInvariant`. TLC checked each of them on small instances before it was proved.

**Cleanup** (`IInv`). `CleanupSafe` is not inductive: while `RemoveTransaction` is
between its two parts, the minimum start time it computed must still be a lower bound
although transactions may begin. `IInv` is `TypeOK` and `CollectInv`, which adds that
`transaction_lock` has one holder (`LockInv`), identifiers grow and have not been
used (`CounterInv`, `FreshInv`), the three lists are disjoint (`DisjointInv`), start
times and commit ids lie in the past (`PastInv`), a transaction has a commit id only
while it commits or after (`CommittedInv`), and that what the interrupted removal has
read is still valid (`ScanInv`). There is one lemma for the steps that leave the
manager alone (`Calm`) and one per step that does not.

**Retention** (`RInv`). A query takes its number and stores it in two steps, neither
under `transaction_lock`. The invariant says which numbers were handed out and are not
yet stored, that nobody has seen those (`PendingInv`), that what the first loop of
`RemoveTransaction` saw stays above the lowest number it found whoever stores meanwhile
(`SeenInv`), and that the last active transaction finds no start time to keep anything
for (`LastInv`).

**Ownership** (`CInv`). What each place in a call says of the context's own lock,
transaction and result (`LocalInv`); that the holder of `connections_lock` covers every
other context, by holding its lock or because it is still to be locked or destroyed
(`MutexInv`); that a transaction is current in one context or being ended by one thread
(`OwnInv`, `OwnedInv`), to which its weak pointer leads (`OriginInv`), so that FORCE
CHECKPOINT clears the right context; and what a thread that took all locks finds
(`CheckpointInv`).
`ClosesResults`: users leave auto-commit alone, and run functions, parsed statements and
relations or leave stream results open, not both. `DropsOrForce`: connections are destroyed only while a checkpointing thread
refers to them, or nobody uses FORCE CHECKPOINT.

**Tables** (`Inv` of `DataTableProofs`). None of the three properties is inductive: whether
a shortcut of a vector is true after a commit or a revert depends on which rows the entry
names, and those are named by position, in a table that others extend and cut meanwhile.
`EntryInv` says of every append that is not reverted yet that its rows are in the table and
carry the transaction's id, or its commit id where the commit has passed; `OrderInv` and
`PendingInv` that the appends of a transaction follow each other and that the append under
way has the last rows; `FillInv` which vectors have version information. `OwnerInv` is the
converse, that every row has an owner: a row with the id of a running transaction is in one
of its appends, and a row with a commit id was marked by a transaction that committed or
is about to, which is `CommittedRowsHaveTransaction` between commits. `VectorInv` says that
the shortcuts are true, except that a vector with two appends of one transaction carries two
ids while the commit is between them (`Halfway`); nobody can see either, because no snapshot
reaches the commit id (`ClockInv`) and the committing transaction does not read. `DeleteInv`:
what is deleted is in the table and was committed, so that no revert takes it away and
puts another transaction's rows under the mark. `FlushInv` are the two cases of
`SingleRevert`: without early flushes the only append is that of the one committing
transaction and ends the table, so that reverting it twice is reverting it once; without
failures nothing is reverted but by rollback. `TickInv` and `BoundInv` count: timestamps stay
below the transaction ids and there is room for every local row. The steps are of few kinds,
each with its lemmas: those that leave the table alone (`QuietStep`), those that cut rows off
its end (`CutStep`), appending (`AppendEffect`) and marking (`CommitAppendEffect`).

**Buffers** (`StructInv`). Which calls get to which place (`PlaceInv`), who refers to a
handle and that it lives as long (`LifeInv`), that a handle in its destructor belongs to
one thread (`DestructorInv`), that a pinning thread holds the lock of a handle that stays
unloaded (`PinInv`), and that readers are counted (`ReadersInv`). Memory is a count over
two sets, the loaded blocks and the reserving calls, and each step moves at most one
element. `LimitInv` counts, for a limit that is being changed, the calls that will be
granted memory whatever it becomes. A step makes threads wait for the lock of a victim
only when it locks that handle, in `Pin`, and the thread that takes it waits for nobody
then (`NoNewWait`); so among any threads one waits for no victim of the others
(`VictimsInOrder`), and the only other lock, `manager_lock`, is held by `SetLimit`
(`LimitLockInv`). `SharedInv` says that two handles with one temporary file are recorded
in `shared`; `OwnerInv` that what can be pinned again was written when it was evicted.

**Execution** (`Inv` of `ExecutorProofs`). The lowest frame of a thread's stack is its
loop, all others are of tasks (`Shaped`). A pipeline with a frame is scheduled; frames
of one pipeline carry distinct counts, at most one claims to finish it, and only when
all tasks are counted and nobody has finished it (`Framed`, `Paired`). That is why two
threads that compare with `total_tasks` late, while `Finalize` raises it, do not both
finish the pipeline. Tasks in the queue and in frames are counted as tokens, and with
those counted in `finished_tasks` never exceed `total_tasks`; they are equal unless
`Finalize` fails halfway (`Counted`). `finished_dependencies` is the number of finished
dependencies that have told the pipeline, and a scheduled pipeline was told by all of
them (`ToldInv`, `Parented`); what `Initialize` has still to schedule has no tasks
(`InitialInv`). `completed_pipelines` counts the finished pipelines that nobody is
still completing (`CompletedInv`), and never falls: once `Initialize` has left
(`LeftInv`) all are completed, and a frame with a count has another than `total_tasks`,
or it would claim its pipeline.
Each way to change a stack (`Moved`) has one lemma per part of the invariant, and the
actions cite those. `NoRecursiveCTEs`: no plan runs pipelines again.
`FinalizeIsWhole`: `Finalize` does not throw after it raised `total_tasks`.
`InputIsComplete` and `LeavesAreDone` do without it.

**Updates** (`UInv`). What a reader finds in a chain is the old value of the last entry
that applies to it (`Shown`), and four lemmas say that it finds the same after an entry
was pushed in front, merged into, undone or removed (`ShownPush`, `ShownExtend`,
`ShownRollback`, `ShownThin`). They need the form of the chains: one entry per
transaction (`OneEach`), covered by the base info (`Covered`), an entry in front of a
running transaction's one committed after that one began (`Younger`), and of two entries
with a common row the older one no longer runs (`Apart`), which is what
`CheckForConflicts` is for. `VersionInv` says which version an entry has at every point
of a commit, `UndoInv` that the undo buffer of a running transaction names exactly the
chains it has an entry in and has not undone, `CountInv` that a transaction takes at most
two timestamps, so that none reaches the transaction ids. That `Unlinked`, a recursive
function, removes exactly the entries it should is proved by induction on the length of
the chain, from the well-foundedness of the naturals (`NatMin`, `KeepsExists`,
`UnlinkedThins`). No hypothesis is needed: `conflict_unseen` does not disturb a reader.

**Blocks** (`BlockInv`). `FreeBlocksUnused` speaks of the memory of the process, and a
restart rebuilds that memory from the file; so the invariant says what the file must
look like, at every moment, for the rebuilt memory to be right. `MemoryInv`: segments do
not share blocks, and the free list, the modified blocks and the blocks of tables are
disjoint (the blocks of a table whose drop is being logged are the exception). `Saved`:
a segment's block holds what the segment takes it to hold. `OwnInv`, `DoneInv` and
`WrittenInv` follow a checkpoint: its two first blocks belong to nobody else, what it has
passed is unchanged from then on, and its metadata lists exactly that. `FileInv`: the
file the newest synced header leads to is good (`GoodFile`: kinds, pointers, and one use
per block) and holds on disk what it held at the last sync, and none of its blocks is on
the free list. `SwitchInv` carries this over the change of the header, where for two
steps both the old and the new file must be good, unless the free list went to a block
of the old checkpoint (`overwrites`); the old file differs in that block and no other, which is what
`CheckpointIntact` says. `HeaderIsAtomic` is about the crashes: none comes in that case, and
none leaves the new header in part.
`AccountedInv` and `Whole`: no block is lost in memory or in the file. Replay is a
recursive function over the log; `EntriesKeep` shows by induction on its length that it
gives up blocks and never takes one (`Thins`).

**Recovery** (`RecoveryInv`). A log is `Live` under a header if replay from that header's
tables reaches the contents the clients know without stopping, and `Obsolete` if its last
checkpoint record names the header's root and the tables on disk are the contents.
`LogInv`: every image of the log that a crash may leave is one or the other, or holds a
commit that failed, or is the log with the record of the commit under way. `StateInv`: the
tables in memory have those contents, or the contents after the commit that
checkpoints. `RecordInv` follows the checkpoint record: the root it names is not the
current one until the header is written, and is from then on, which turns a live log
into an obsolete one in the step that writes the header. The rest is what commits do to
contents: `RowsOf` sums the segments of a table, and conversion, append, update and the
rewriting of segments change that sum as `DurableStore` says (`ContentsApplied`,
`ContentsSame`). Each step then keeps the invariant and is a step of `DurableStore` or
changes neither of its variables: a commit begins in `WriteToLog` or
`CommitAndCheckpoint`, is applied in `FlushCommit`, at the end of its checkpoint or by a
crash that finds its record, and fails in `FailCommit` or in a crash that does not.
`FaultsAreHandled` allows what `du_recovery` allows, an aborted CHECKPOINT and a failing
log. The theorem says nothing of a crash that leaves a header or a record in part, that
comes while the free list overwrites the old checkpoint, or before the truncation of a
failed commit is synced, nor of a failing DROP, a failing automatic checkpoint, or an error between the
header and the truncation: with each of them TLC refutes the refinement, or for the DROP
`FreeBlocksUnused` (section 4).

Only model-checked: the liveness properties (`CheckpointEnds`, `CallReturns`,
`CallsEnd`, `QueryEnds`), which are outside this prover's reach; the refinements of `SnapshotTable` and
`SnapshotMap`, and `ReadYourWrites`; the other invariants of `DataTable` (`ScanReturnsSnapshot`,
`ReplayFaithful`, `UniqueKeys`, `IndexMatchesTable`) and those of `Catalog`; and those of `Executor` for plans
with recursive CTEs. The library's induction theorems
take an operator as a parameter and cannot be cited with the installed provers;
inductions here go through least elements instead.

## 6. Plan

1. Proofs: `ScanReturnsSnapshot` for `DataTable`, `DependenciesLive` for `Catalog`, `ReadYourWrites` and the steps of the refinement of `SnapshotMap` for
   `UpdateSegment`.
2. Sequences as a small module (nextval, cycling, overflow, values in the log), and
   `StorageLock`.
3. The log's update and catalog records, so that `Durability` and `UpdateSegment` meet;
   rows that are updated and deleted.
4. The radix tree of the ART index, checked against a set of pairs.

## 7. Not modelled

Parser, planner, optimizer, physical operators, expression execution, functions
and types are computations without shared state; their correctness is a matter
of equivalence of expressions over data too large to enumerate. Segment
encodings and statistics are byte layouts. Extensions, client interfaces and
third party code are outside the core. `PROJECT.json` lists every component with
its status.
