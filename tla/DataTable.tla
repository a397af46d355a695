------------------------------ MODULE DataTable ------------------------------
(***************************************************************************)
(* One table under transactions: the rows in base storage with their       *)
(* version information, the rows transactions keep locally until they      *)
(* flush them, the undo buffers that commit, revert and roll them back,    *)
(* the unique index, the write ahead log and the scans that read           *)
(* concurrently (src/src/storage/data_table.cpp, local_storage.cpp,        *)
(* table/morsel_info.cpp, src/src/transaction/undo_buffer.cpp,             *)
(* commit_state.cpp, rollback_state.cpp, cleanup_state.cpp,                *)
(* transaction.cpp).                                                       *)
(*                                                                         *)
(* Granularity.  A transaction that commits or rolls back holds            *)
(* transaction_lock throughout, but goes through its undo buffer entry by  *)
(* entry, and everyone else may read, delete and flush in between: one     *)
(* action per entry.  A flush holds append_lock and is split after         *)
(* InitializeAppend, which already publishes the rows.  A scan is two      *)
(* actions per vector: it chooses the rows under the morsel lock, and      *)
(* reads their columns after it gave the lock up.                          *)
(*                                                                         *)
(* The morsels of a table are one array of vectors here; a morsel that     *)
(* RevertAppend erases leaves vectors without info.                        *)
(***************************************************************************)
EXTENDS ChunkInfo, Sequences, FiniteSetsExt, SequencesExt

CONSTANTS
    NoTxn,         \* nobody: the owner of a free mutex
    MaxTxns,       \* bound: how many transactions begin
    MaxRows,       \* bound: rows in base storage
    MaxLocal,      \* bound: rows a transaction keeps locally
    Values,        \* what is inserted: with an index, the keys
    NoValue,
    FlushCount,    \* a local collection this long is flushed at once (2 * MORSEL_SIZE)
    Unique,        \* the table has a unique index
    LogFails,      \* a write to the write ahead log may fail
    Scanners,      \* bound: the transactions that scan
    Operations     \* what users do besides, a subset of AllOperations

AllOperations == {"insert", "delete", "local_delete", "rollback"}

ASSUME DataTableAssumption ==
    /\ MaxTxns \in Nat /\ MaxRows \in Nat /\ MaxLocal \in Nat /\ FlushCount \in Nat \ {0}
    /\ MaxRows % VectorSize = 0                 \* whole vectors
    /\ TransactionIdStart > 2 * MaxTxns + 1
    /\ TransactionIdStart + MaxTxns <= NotDeletedId
    /\ NoTxn \notin Nat
    /\ NoValue \notin Values
    /\ Unique \in BOOLEAN /\ LogFails \in BOOLEAN
    /\ ~(Unique /\ LogFails)
    /\ Operations \subseteq AllOperations

Txns == TransactionIdStart .. (TransactionIdStart + MaxTxns - 1)
Rows == 0 .. (MaxRows - 1)
VectorOf(row) == row \div VectorSize
OffsetOf(row) == row % VectorSize
Vectors == {VectorOf(row) : row \in Rows}

VARIABLES
    \* the transaction manager, as far as the table is concerned
    current_start_timestamp,
    current_transaction_id,
    transaction_lock,
    start_time,
    commit_id,
    status,          \* where each transaction is
    cleaned,         \* the committed transactions that were cleaned up
    \* the table
    total_rows,
    info,            \* vector -> version information
    data,            \* row -> value
    index,           \* the entries <<value, row>> of the unique index
    cardinality,
    append_lock,
    wal,             \* the entries written, in order
    \* the transactions
    local,           \* the local collection: values and the deleted positions
    undo,            \* the undo buffer
    position,        \* the entry an iteration over the undo buffer is at
    last,            \* the entry RevertCommit stops after
    wal_size,        \* GetWALSize when the commit began
    append_start,    \* row_start of the TableAppendState
    scan             \* the scan the transaction runs

manager == <<current_start_timestamp, current_transaction_id, transaction_lock,
             start_time, commit_id, cleaned>>
table == <<total_rows, info, data, index, cardinality, append_lock>>
progress == <<position, last, wal_size, append_start>>
vars == <<manager, status, table, wal, local, undo, progress, scan>>

NoLocal == [values |-> << >>, deleted |-> {}]

\* selected: the rows that are chosen and not read yet.  expected and cut are
\* history: what a query saw when the scan began, and whether rows below max_row
\* were taken back while it ran.
NoScan == [state |-> "none", current_row |-> 0, max_row |-> 0, local |-> 0, selected |-> {},
           found |-> {}, count |-> 0, expected |-> {}, cut |-> FALSE]

Init ==
    /\ current_start_timestamp = 1
    /\ current_transaction_id = TransactionIdStart
    /\ transaction_lock = NoTxn
    /\ start_time = [t \in Txns |-> 0]
    /\ commit_id = [t \in Txns |-> 0]
    /\ status = [t \in Txns |-> "none"]
    /\ cleaned = {}
    /\ total_rows = 0
    /\ info = [v \in Vectors |-> EmptyInfo]
    /\ data = [r \in Rows |-> NoValue]
    /\ index = {}
    /\ cardinality = 0
    /\ append_lock = NoTxn
    /\ wal = << >>
    /\ local = [t \in Txns |-> NoLocal]
    /\ undo = [t \in Txns |-> << >>]
    /\ position = [t \in Txns |-> 0]
    /\ last = [t \in Txns |-> 0]
    /\ wal_size = 0
    /\ append_start = 0
    /\ scan = [t \in Txns |-> NoScan]

-----------------------------------------------------------------------------
(***************************************************************************)
(* What a transaction sees.                                                *)
(***************************************************************************)

Active == {t \in Txns : status[t] \notin {"none", "committed", "aborted"}}

\* The transactions that can run a query.
Readable == {t \in Txns : status[t] = "active"}

Reader(t) == [start_time |-> start_time[t], transaction_id |-> t]

\* The rows below total_rows that the reader uses, row by row.
FetchRows(reader) ==
    {row \in 0 .. (total_rows - 1) : Fetch(info[VectorOf(row)], reader, OffsetOf(row))}

\* The live rows of the local collection.
LocalRows(t) ==
    {i \in 1 .. Len(local[t].values) : i \notin local[t].deleted}

LocalValues(t) == {local[t].values[i] : i \in LocalRows(t)}

\* What a query of t returns.
Contents(t) == {data[row] : row \in FetchRows(Reader(t))} \union LocalValues(t)

-----------------------------------------------------------------------------
(***************************************************************************)
(* Statements.                                                             *)
(***************************************************************************)

StartTransaction(t) ==
    /\ t = current_transaction_id
    /\ transaction_lock = NoTxn
    /\ current_transaction_id' = t + 1
    /\ current_start_timestamp' = current_start_timestamp + 1
    /\ start_time' = [start_time EXCEPT ![t] = current_start_timestamp]
    /\ status' = [status EXCEPT ![t] = "active"]
    /\ UNCHANGED <<transaction_lock, commit_id, cleaned, table, wal, local, undo, progress, scan>>

Stored(v) == \E row \in 0 .. (total_rows - 1) : data[row] = v

\* VerifyAppend finds the key in the table's index, or Append in the local one
\* (where deletes leave it).
KeyTaken(t, v) ==
    /\ Unique
    /\ \/ \E entry \in index : entry[1] = v
       \/ \E i \in 1 .. Len(local[t].values) : local[t].values[i] = v

\* Without an index values are told apart: each is in the table or in a
\* collection at most once.
MayInsert(t, v) ==
    IF Unique THEN ~KeyTaken(t, v)
    ELSE /\ ~Stored(v)
         /\ \A u \in Txns : \A i \in 1 .. Len(local[u].values) : local[u].values[i] # v

FlushesEarly_DuringScan(t, count) == count >= FlushCount

\* LocalStorage::Append flushes a long collection that no scan is reading.
FlushesEarly(t, count) == count >= FlushCount /\ (scan[t].state = "running" => scan[t].local = 0)

\* The rows that are kept locally, by anyone.
LocalPositions == {p \in Txns \X (1 .. MaxLocal) : p[2] <= Len(local[p[1]].values)}

\* LocalStorage::Append.
Insert(t, v) ==
    /\ "insert" \in Operations
    /\ status[t] = "active"
    /\ Len(local[t].values) < MaxLocal                \* the bounds
    /\ total_rows + Cardinality(LocalPositions) < MaxRows
    /\ MayInsert(t, v)
    /\ local' = [local EXCEPT ![t].values = Append(@, v)]
    /\ status' = [status EXCEPT
            ![t] = IF FlushesEarly(t, Len(local[t].values) + 1) THEN "flush" ELSE "active"]
    /\ UNCHANGED <<manager, table, wal, undo, progress, scan>>

\* A ConstraintException: the transaction can only be rolled back.
InsertFails(t, v) ==
    /\ "insert" \in Operations
    /\ status[t] = "active"
    /\ KeyTaken(t, v)
    /\ status' = [status EXCEPT ![t] = "failed"]
    /\ UNCHANGED <<manager, table, wal, local, undo, progress, scan>>

\* LocalStorage::Delete.
LocalDelete(t, i) ==
    /\ "local_delete" \in Operations
    /\ status[t] = "active"
    /\ scan[t].state # "running"
    /\ i \in LocalRows(t)
    /\ local' = [local EXCEPT ![t].deleted = @ \union {i}]
    /\ UNCHANGED <<manager, status, table, wal, undo, progress, scan>>

\* MorselInfo::Delete of rows of one vector that t found; on a conflict it
\* throws and the transaction can only be rolled back.
Delete(t, v, offsets) ==
    LET found == {OffsetOf(row) : row \in {r \in FetchRows(Reader(t)) : VectorOf(r) = v}}
        vector == MarkDeleted(ToVectorInfo(info[v]))
    IN  /\ "delete" \in Operations
        /\ status[t] = "active"
        /\ scan[t].state # "running"
        /\ offsets # {} /\ offsets \subseteq found
        /\ IF DeleteConflict(vector, offsets)
           THEN /\ info' = [info EXCEPT ![v] = vector]
                /\ status' = [status EXCEPT ![t] = "failed"]
                /\ UNCHANGED undo
           ELSE /\ info' = [info EXCEPT ![v] = CommitDeleteInfo(vector, offsets, t)]
                /\ undo' = [undo EXCEPT
                        ![t] = Append(@, [type |-> "delete", vector |-> v, rows |-> offsets])]
                /\ UNCHANGED status
        /\ UNCHANGED <<manager, total_rows, data, index, cardinality, append_lock, wal, local,
                       progress, scan>>

-----------------------------------------------------------------------------
(***************************************************************************)
(* Flushing the local collection to base storage.                          *)
(***************************************************************************)

\* The live values of the local collection in order.
ToFlush(t) ==
    LET live == SetToSortSeq(LocalRows(t), <)
    IN  [i \in 1 .. Cardinality(LocalRows(t)) |-> local[t].values[live[i]]]

\* The offsets of vector v among the rows start .. start + count - 1.
FirstOffset(v, start) == IF VectorOf(start) = v THEN OffsetOf(start) ELSE 0
EndOffset(v, end) == IF VectorOf(end - 1) = v THEN OffsetOf(end - 1) + 1 ELSE VectorSize
VectorsBetween(start, end) == VectorOf(start) .. VectorOf(end - 1)

\* DataTable::InitializeAppend: the rows are there for everyone to see, marked
\* as inserted by t, before their data is.
InitializeAppend(t) ==
    LET end == total_rows + Len(ToFlush(t))
    IN  /\ status[t] \in {"flush", "commit_flush"}
        /\ append_lock = NoTxn
        /\ ToFlush(t) # << >>
        /\ append_lock' = t
        /\ append_start' = total_rows
        /\ total_rows' = end
        /\ info' = [v \in Vectors |->
                IF v \in VectorsBetween(total_rows, end)
                THEN AppendInfo(info[v], FirstOffset(v, total_rows), EndOffset(v, end), t)
                ELSE info[v]]
        /\ UNCHANGED <<manager, status, data, index, cardinality, wal, local, undo, position, last,
                       wal_size, scan>>

\* Flush returns at once when every local row was deleted.
NothingToFlush(t) ==
    /\ status[t] \in {"flush", "commit_flush"}
    /\ ToFlush(t) = << >>
    /\ status' = [status EXCEPT ![t] = IF @ = "flush" THEN "active" ELSE "commit"]
    /\ position' = [position EXCEPT ![t] = 1]
    /\ UNCHANGED <<manager, table, wal, local, undo, last, wal_size, append_start, scan>>

NewEntries(t) ==
    {<<ToFlush(t)[i], append_start + i - 1>> : i \in 1 .. Len(ToFlush(t))}

ConstraintViolated_Ignored(t) == FALSE

\* AppendToIndexes fails: one of the keys is taken.
ConstraintViolated(t) ==
    Unique /\ \E new \in NewEntries(t), old \in index : new[1] = old[1]

\* LocalTableStorage::Clear once the rows are in base storage.
AfterFlush(t) == NoLocal

\* The rest of LocalStorage::Flush: keys and data are appended.
AppendRows(t) ==
    LET values == ToFlush(t)
    IN  /\ status[t] \in {"flush", "commit_flush"}
        /\ append_lock = t
        /\ ~ConstraintViolated(t)
        /\ data' = [r \in Rows |-> IF r \in append_start .. (append_start + Len(values) - 1)
                                   THEN values[r - append_start + 1] ELSE data[r]]
        /\ index' = IF Unique THEN index \union NewEntries(t) ELSE index
        /\ undo' = [undo EXCEPT
                ![t] = Append(@, [type |-> "insert", start |-> append_start,
                                  count |-> Len(values)])]
        /\ local' = [local EXCEPT ![t] = AfterFlush(t)]
        /\ append_lock' = NoTxn
        /\ append_start' = 0
        /\ status' = [status EXCEPT ![t] = IF @ = "flush" THEN "active" ELSE "commit"]
        /\ position' = [position EXCEPT ![t] = 1]
        /\ UNCHANGED <<manager, total_rows, info, cardinality, wal, last, wal_size, scan>>

\* MorselInfo::RevertAppend forgets the vectors that start at or after the row.
RevertInfo(start) ==
    [v \in Vectors |-> IF v * VectorSize >= start THEN EmptyInfo ELSE info[v]]

IsLastAppend_Unchecked(start, count) == TRUE

\* Nothing was appended behind the rows.
IsLastAppend(start, count) == total_rows = start + count

\* The running scans that go beyond start do so without version information.
CutScans(start) ==
    [u \in Txns |-> [scan[u] EXCEPT !.cut = @ \/ (scan[u].state = "running" /\ scan[u].max_row > start)]]

\* DataTable::RevertAppendInternal: rows behind which others appended stay, as
\* inserted by a transaction that never commits.
RevertAppendInternal(start, count) ==
    IF count # 0 /\ IsLastAppend(start, count)
    THEN /\ total_rows' = start
         /\ cardinality' = start
         /\ info' = RevertInfo(start)
         /\ scan' = CutScans(start)
    ELSE UNCHANGED <<total_rows, cardinality, info, scan>>

\* The append is reverted and the statement or the commit throws.  A commit
\* that throws here passes RevertCommit an iterator state that was never set.
RevertFlush(t) ==
    /\ status[t] \in {"flush", "commit_flush"}
    /\ append_lock = t
    /\ ConstraintViolated(t)
    /\ RevertAppendInternal(append_start, Len(ToFlush(t)))
    /\ local' = [local EXCEPT ![t] = NoLocal]
    /\ append_lock' = NoTxn
    /\ append_start' = 0
    /\ status' = [status EXCEPT ![t] = IF @ = "flush" THEN "failed" ELSE "revert"]
    /\ position' = [position EXCEPT ![t] = 1]
    /\ \E unset \in 0 .. Len(undo[t]) : last' = [last EXCEPT ![t] = unset]
    /\ UNCHANGED <<manager, data, index, wal, undo, wal_size>>

-----------------------------------------------------------------------------
(***************************************************************************)
(* Committing (Transaction::Commit).                                       *)
(***************************************************************************)

CommitTransaction(t) ==
    /\ status[t] = "active"
    /\ scan[t].state # "running"
    /\ transaction_lock = NoTxn
    /\ transaction_lock' = t
    /\ commit_id' = [commit_id EXCEPT ![t] = current_start_timestamp]
    /\ current_start_timestamp' = current_start_timestamp + 1
    /\ wal_size' = Len(wal)
    /\ status' = [status EXCEPT ![t] = "commit_flush"]
    /\ UNCHANGED <<current_transaction_id, start_time, cleaned, table, wal, local, undo, position,
                   last, append_start, scan>>

LogEntry_OffsetInVector(entry) ==
    IF entry.type = "insert"
    THEN [type |-> "insert", values |-> [i \in 1 .. entry.count |-> data[entry.start + i - 1]]]
    ELSE [type |-> "delete", rows |-> entry.rows]

\* What CommitEntry writes to the log: the rows of an insert, or the row ids of
\* a delete.
LogEntry(entry) ==
    IF entry.type = "insert"
    THEN [type |-> "insert", values |-> [i \in 1 .. entry.count |-> data[entry.start + i - 1]]]
    ELSE [type |-> "delete", rows |-> {entry.vector * VectorSize + i : i \in entry.rows}]

\* MorselInfo::CommitAppend on every vector of the append.
CommitAppend(entry, id) ==
    LET end == entry.start + entry.count
    IN  [v \in Vectors |->
            IF v \in VectorsBetween(entry.start, end)
            THEN CommitAppendInfo(info[v], FirstOffset(v, entry.start), EndOffset(v, end), id)
            ELSE info[v]]

CommitDelete(entry, id) ==
    [info EXCEPT ![entry.vector] = CommitDeleteInfo(@, entry.rows, id)]

\* CommitState::CommitEntry.  CommitAppend takes append_lock.
CommitEntry(t) ==
    LET entry == undo[t][position[t]]
    IN  /\ status[t] = "commit"
        /\ position[t] <= Len(undo[t])
        /\ entry.type = "insert" => append_lock = NoTxn
        /\ wal' = Append(wal, LogEntry(entry))
        /\ IF entry.type = "insert"
           THEN /\ info' = CommitAppend(entry, commit_id[t])
                /\ cardinality' = cardinality + entry.count
           ELSE /\ info' = CommitDelete(entry, commit_id[t])
                /\ UNCHANGED cardinality
        /\ position' = [position EXCEPT ![t] = @ + 1]
        /\ UNCHANGED <<manager, status, total_rows, data, index, append_lock, local, undo, last,
                       wal_size, append_start, scan>>

\* The log cannot be written, for an entry or at the end.
LogFailure(t) ==
    /\ LogFails
    /\ status[t] = "commit"
    /\ undo[t] # << >>
    /\ status' = [status EXCEPT ![t] = "revert"]
    /\ last' = [last EXCEPT ![t] = IF position[t] <= Len(undo[t]) THEN position[t]
                                   ELSE Len(undo[t])]
    /\ position' = [position EXCEPT ![t] = 1]
    /\ UNCHANGED <<manager, table, wal, local, undo, wal_size, append_start, scan>>

\* DataTable::RevertAppend: the keys leave the index in any case.
RevertAppend(entry) ==
    /\ append_lock = NoTxn
    /\ index' = index \ {<<data[r], r>> : r \in entry.start .. (entry.start + entry.count - 1)}
    /\ RevertAppendInternal(entry.start, entry.count)

\* The id a reverted deletion has: the transaction's again.
RevertedDelete(t) == t

\* CommitState::RevertCommit of one entry, the one that failed included.
RevertCommit(t) ==
    LET entry == undo[t][position[t]]
    IN  /\ status[t] = "revert"
        /\ position[t] <= last[t]
        /\ IF entry.type = "insert"
           THEN RevertAppend(entry)
           ELSE /\ info' = CommitDelete(entry, RevertedDelete(t))
                /\ cardinality' = cardinality + Cardinality(entry.rows)
                /\ UNCHANGED <<total_rows, index, scan>>
        /\ position' = [position EXCEPT ![t] = @ + 1]
        /\ UNCHANGED <<manager, status, data, append_lock, wal, local, undo, last, wal_size,
                       append_start>>

\* The log is cut back and CommitTransaction rolls the transaction back.
RevertDone(t) ==
    /\ status[t] = "revert"
    /\ position[t] > last[t]
    /\ wal' = SubSeq(wal, 1, wal_size)
    /\ commit_id' = [commit_id EXCEPT ![t] = 0]
    /\ status' = [status EXCEPT ![t] = "rollback"]
    /\ position' = [position EXCEPT ![t] = Len(undo[t])]
    /\ UNCHANGED <<current_start_timestamp, current_transaction_id, transaction_lock, start_time,
                   cleaned, table, local, undo, last, wal_size, append_start, scan>>

\* A statement that failed is over, and so is its scan.
RollbackTransaction(t) ==
    /\ \/ status[t] = "failed"
       \/ status[t] = "active" /\ scan[t].state # "running" /\ "rollback" \in Operations
    /\ transaction_lock = NoTxn
    /\ transaction_lock' = t
    /\ status' = [status EXCEPT ![t] = "rollback"]
    /\ position' = [position EXCEPT ![t] = Len(undo[t])]
    /\ UNCHANGED <<current_start_timestamp, current_transaction_id, start_time, commit_id, cleaned,
                   table, wal, local, undo, last, wal_size, append_start, scan>>

\* RollbackState::RollbackEntry, last entry first.
RollbackEntry(t) ==
    LET entry == undo[t][position[t]]
    IN  /\ status[t] = "rollback"
        /\ position[t] > 0
        /\ IF entry.type = "insert"
           THEN RevertAppend(entry)
           ELSE /\ info' = CommitDelete(entry, NotDeletedId)
                /\ UNCHANGED <<total_rows, index, cardinality, scan>>
        /\ position' = [position EXCEPT ![t] = @ - 1]
        /\ UNCHANGED <<manager, status, data, append_lock, wal, local, undo, last, wal_size,
                       append_start>>

-----------------------------------------------------------------------------
(***************************************************************************)
(* The end of a transaction: what RemoveTransaction cleans up.             *)
(***************************************************************************)

Deletes(t) == {i \in 1 .. Len(undo[t]) : undo[t][i].type = "delete"}

\* The row ids of all deletions of t, in the order of its undo buffer.
DeletedRows(t) ==
    LET rows(i) == IF i \in Deletes(t)
                   THEN SetToSortSeq({undo[t][i].vector * VectorSize + o : o \in undo[t][i].rows}, <)
                   ELSE << >>
        all[i \in 0 .. Len(undo[t])] == IF i = 0 THEN << >> ELSE all[i - 1] \o rows(i)
    IN  all[Len(undo[t])]

\* CleanupState::CleanupDelete collects row ids in batches of VectorSize, and
\* RemoveFromIndexes looks all keys of a batch up in the vector of its first.
CleanedEntries(t) ==
    LET rows == DeletedRows(t)
        first(p) == rows[((p - 1) \div VectorSize) * VectorSize + 1]
        key(p) == data[VectorOf(first(p)) * VectorSize + OffsetOf(rows[p])]
    IN  {<<key(p), rows[p]>> : p \in 1 .. Len(rows)}

\* CleanupDelete subtracts the rows it removes from the cardinality.
RemovedRows(garbage) == MapThenSumSet(LAMBDA x : Len(DeletedRows(x)), garbage)

NoLongerNeeded_All(t, committed) == committed \ cleaned

\* The committed transactions nobody can need the old versions of, once t ended.
NoLongerNeeded(t, committed) ==
    {x \in committed \ cleaned : \A a \in Active \ {t} : commit_id[x] < start_time[a]}

\* RemoveTransaction of t, and UndoBuffer::Cleanup of what is no longer needed.
RemoveTransaction(t, outcome) ==
    LET committed == {x \in Txns : status[x] = "committed"} \union
                     (IF outcome = "committed" THEN {t} ELSE {})
        garbage == NoLongerNeeded(t, committed)
    IN  /\ transaction_lock' = NoTxn
        /\ status' = [status EXCEPT ![t] = outcome]
        /\ cleaned' = cleaned \union garbage
        /\ index' = index \ UNION {CleanedEntries(x) : x \in garbage}
        /\ cardinality' = cardinality - RemovedRows(garbage)
        /\ undo' = [x \in Txns |-> IF x \in garbage \/ (x = t /\ outcome = "aborted")
                                   THEN << >> ELSE undo[x]]
        /\ local' = [local EXCEPT ![t] = NoLocal]
        /\ scan' = [scan EXCEPT ![t] = NoScan]
        /\ position' = [position EXCEPT ![t] = 0]
        /\ last' = [last EXCEPT ![t] = 0]
        /\ wal_size' = 0
        /\ UNCHANGED <<current_start_timestamp, current_transaction_id, start_time, commit_id,
                       total_rows, info, data, append_lock, wal, append_start>>

FinishCommit(t) ==
    /\ status[t] = "commit"
    /\ position[t] > Len(undo[t])
    /\ RemoveTransaction(t, "committed")

FinishRollback(t) ==
    /\ status[t] = "rollback"
    /\ position[t] = 0
    /\ RemoveTransaction(t, "aborted")

-----------------------------------------------------------------------------
(***************************************************************************)
(* Scans.                                                                  *)
(***************************************************************************)

\* DataTable::InitializeScan: the number of rows is read once; the local
\* collection is pinned if it has rows.
InitializeScan(t) ==
    /\ t \in Scanners
    /\ status[t] = "active"
    /\ scan[t].state # "running"
    /\ scan' = [scan EXCEPT ![t] = [NoScan EXCEPT !.state = "running",
                                                  !.max_row = total_rows,
                                                  !.local = Len(local[t].values),
                                                  !.expected = Contents(t)]]
    /\ UNCHANGED <<manager, status, table, wal, local, undo, progress>>

\* DataTable::ScanBaseTable on one vector: the rows to read are chosen, and a
\* vector without any is skipped.
ScanBaseTable(t) ==
    LET s == scan[t]
        max_count == IF s.max_row - s.current_row < VectorSize
                     THEN s.max_row - s.current_row ELSE VectorSize
        rows == {s.current_row + i :
                    i \in GetSelVector(info[VectorOf(s.current_row)], Reader(t), max_count)}
    IN  /\ status[t] = "active"
        /\ s.state = "running"
        /\ s.selected = {}
        /\ s.current_row < s.max_row
        /\ scan' = [scan EXCEPT ![t].selected = rows,
                                ![t].current_row = IF rows = {} THEN @ + VectorSize ELSE @]
        /\ UNCHANGED <<manager, status, table, wal, local, undo, progress>>

\* The rest of ScanBaseTable: the columns of the chosen rows are read.
ScanColumns(t) ==
    LET s == scan[t]
    IN  /\ status[t] = "active"
        /\ s.selected # {}
        /\ scan' = [scan EXCEPT ![t].found = @ \union {data[r] : r \in s.selected},
                                ![t].count = @ + Cardinality(s.selected),
                                ![t].selected = {},
                                ![t].current_row = @ + VectorSize]
        /\ UNCHANGED <<manager, status, table, wal, local, undo, progress>>

\* LocalStorage::Scan: the rows the local collection had when the scan began.
ScanLocal(t) ==
    LET s == scan[t]
        rows == {i \in LocalRows(t) : i <= s.local}
    IN  /\ status[t] = "active"
        /\ s.state = "running"
        /\ s.current_row >= s.max_row
        /\ scan' = [scan EXCEPT ![t].found = @ \union {local[t].values[i] : i \in rows},
                                ![t].count = @ + Cardinality(rows),
                                ![t].state = "done"]
        /\ UNCHANGED <<manager, status, table, wal, local, undo, progress>>

-----------------------------------------------------------------------------
(***************************************************************************)
(* The specification.                                                      *)
(***************************************************************************)

Step(t) ==
    \/ StartTransaction(t)
    \/ \E v \in Values : Insert(t, v)
    \/ \E v \in Values : InsertFails(t, v)
    \/ \E i \in 1 .. MaxLocal : LocalDelete(t, i)
    \/ \E v \in Vectors, offsets \in SUBSET Offsets : Delete(t, v, offsets)
    \/ InitializeAppend(t)
    \/ NothingToFlush(t)
    \/ AppendRows(t)
    \/ RevertFlush(t)
    \/ CommitTransaction(t)
    \/ CommitEntry(t)
    \/ LogFailure(t)
    \/ RevertCommit(t)
    \/ RevertDone(t)
    \/ RollbackTransaction(t)
    \/ RollbackEntry(t)
    \/ FinishCommit(t)
    \/ FinishRollback(t)
    \/ InitializeScan(t)
    \/ ScanBaseTable(t)
    \/ ScanColumns(t)
    \/ ScanLocal(t)

\* The bounded number of transactions has ended.
Terminating ==
    /\ current_transaction_id \notin Txns
    /\ Active = {}
    /\ UNCHANGED vars

Next == (\E t \in Txns : Step(t)) \/ Terminating

Spec == Init /\ [][Next]_vars

-----------------------------------------------------------------------------
(***************************************************************************)
(* Properties.                                                             *)
(***************************************************************************)

Statuses == {"none", "active", "flush", "failed", "commit_flush", "commit", "revert",
             "rollback", "committed", "aborted"}

\* The entries of an undo buffer.
Entries == [type : {"insert"}, start : Rows, count : 1 .. MaxRows] \union
           [type : {"delete"}, vector : Vectors, rows : (SUBSET Offsets) \ {{}}]

\* Every variable keeps its type; undo entries and their iterations stay within
\* the table and the buffer.
TypeOK ==
    /\ current_start_timestamp \in Nat
    /\ current_transaction_id \in Nat
    /\ transaction_lock \in Txns \union {NoTxn}
    /\ start_time \in [Txns -> Nat]
    /\ commit_id \in [Txns -> Nat]
    /\ status \in [Txns -> Statuses]
    /\ cleaned \subseteq Txns
    /\ total_rows \in 0 .. MaxRows
    /\ \A v \in Vectors : info[v] \in Infos
    /\ data \in [Rows -> Values \union {NoValue}]
    /\ index \subseteq (Values \X Rows)
    /\ cardinality \in Int
    /\ append_lock \in Txns \union {NoTxn}
    /\ wal_size \in 0 .. Len(wal)
    /\ append_start \in 0 .. MaxRows
    /\ \A t \in Txns :
            /\ local[t].values \in Seq(Values)
            /\ local[t].deleted \subseteq 1 .. Len(local[t].values)
            /\ \A i \in 1 .. Len(undo[t]) : undo[t][i] \in Entries
            /\ position[t] \in 0 .. (Len(undo[t]) + 1)
            /\ last[t] \in 0 .. Len(undo[t])
            /\ scan[t].state \in {"none", "running", "done"}
            /\ scan[t].max_row \in 0 .. MaxRows

\* The shortcuts of GetSelVector (one insert id for the vector, nothing deleted)
\* never change what a transaction sees: a scan uses the rows that Fetch uses.
ScanMatchesFetch ==
    \A t \in Readable, v \in Vectors :
        LET filled == {i \in Offsets : v * VectorSize + i < total_rows}
        IN  GetSelVector(info[v], Reader(t), Cardinality(filled)) =
            {i \in filled : Fetch(info[v], Reader(t), i)}

\* A scan returns what the transaction saw when the scan began, whatever commits,
\* deletes, flushes (its own included) and rolls back while it runs, and each row
\* once.  It may return more only if RevertAppend took rows below its max_row
\* back meanwhile, and with them the version information that hid them.
ScanReturnsSnapshot ==
    \A t \in Txns : scan[t].state = "done" =>
        /\ scan[t].expected \subseteq scan[t].found
        /\ ~scan[t].cut => /\ scan[t].found = scan[t].expected
                           /\ scan[t].count = Cardinality(scan[t].expected)

\* The reader that begins now; while a transaction commits nobody can begin, and
\* what it has marked so far is not committed yet.
Horizon ==
    IF transaction_lock # NoTxn /\ commit_id[transaction_lock] # 0
    THEN commit_id[transaction_lock] ELSE current_start_timestamp

SeenBefore(time) ==
    {data[row] : row \in FetchRows([start_time |-> time, transaction_id |-> NotDeletedId + 1])}

Committed == SeenBefore(Horizon)

Running(t) == status[t] \in {"active", "flush", "commit_flush", "commit"}

\* The rows of the appends in the undo buffer of t.
AppendedRows(t) ==
    UNION {undo[t][i].start .. (undo[t][i].start + undo[t][i].count - 1) :
                i \in 1 .. Len(undo[t]) \ Deletes(t)}

\* The refinement mapping to the abstract table: a snapshot is not stored
\* anywhere, it is what the version information makes of start_time.
Phase(t) == CASE status[t] \in {"failed", "revert", "rollback"} -> "aborted"
              [] Running(t) -> "active"
              [] OTHER -> status[t]

Snapshots == INSTANCE SnapshotTable WITH
    committed <- Committed,
    phase <- [t \in Txns |-> Phase(t)],
    snapshot <- [t \in Txns |-> IF Running(t) THEN SeenBefore(start_time[t]) ELSE {}],
    inserted <- [t \in Txns |-> IF Running(t)
                                THEN LocalValues(t) \union {data[r] : r \in AppendedRows(t)}
                                ELSE {}],
    deleted <- [t \in Txns |-> IF Running(t)
                               THEN {data[DeletedRows(t)[i]] : i \in 1 .. Len(DeletedRows(t))}
                               ELSE {}]

\* Snapshot isolation: although a commit, its revert and a rollback mark rows
\* entry by entry while others read, a transaction takes effect at one point,
\* snapshots never change, and aborted changes are never seen.
SnapshotIsolation == Snapshots!Spec

\* The id of the transaction that inserted a row.
InsertedId(row) ==
    LET vector == info[VectorOf(row)]
    IN  CASE vector.type = "empty" -> 0
          [] vector.type = "constant" -> vector.insert_id
          [] vector.type = "vector" -> vector.inserted[OffsetOf(row)]

\* Rows of a transaction that did not commit "will stay as inserted by
\* transaction X, but will never be committed" (RevertAppendInternal): between
\* commits, a row that is marked as committed carries the id of a transaction
\* that committed, although others append before and behind the rows of a
\* transaction that rolls back.  A commit that fails behind others breaks it.
CommittedRowsHaveTransaction ==
    transaction_lock = NoTxn =>
        \A row \in 0 .. (total_rows - 1) :
            InsertedId(row) < TransactionIdStart =>
                \E t \in Txns : status[t] = "committed" /\ commit_id[t] = InsertedId(row)

\* A transaction never sees two rows with the same key, although the index was
\* asked before the rows were appended and knows nothing of snapshots.
UniqueKeys ==
    Unique => \A t \in Readable : \A r, s \in FetchRows(Reader(t)) :
                    data[r] = data[s] => r = s

\* Every row a transaction sees can be found in the index, old versions that
\* others deleted included, and the index of an idle database has no key that
\* is not in the table: cleaning up and reverting remove what they should.
IndexMatchesTable ==
    Unique =>
        /\ \A t \in Readable : \A row \in FetchRows(Reader(t)) : <<data[row], row>> \in index
        /\ Active = {} => \A entry \in index : entry[1] \in Committed

\* Replaying the log appends the rows of each insert at the end and deletes by
\* row id (ReplayInsert, ReplayDelete).
Replayed ==
    LET step(t, entry) == IF entry.type = "insert"
                          THEN [t EXCEPT !.rows = @ \o entry.values]
                          ELSE [t EXCEPT !.deleted = @ \union entry.rows]
        result == FoldLeft(step, [rows |-> << >>, deleted |-> {}], wal)
    IN  {result.rows[i] : i \in {j \in 1 .. Len(result.rows) : j - 1 \notin result.deleted}}

\* What recovery reconstructs from the log is what has been committed.
ReplayFaithful ==
    transaction_lock = NoTxn => Replayed = Committed

\* "This number signifies the amount of COMMITTED entries in the table": with no
\* transaction active, cardinality is that number.
CardinalityExact ==
    Active = {} => cardinality = Cardinality(Committed)

\* A checkpoint of an idle table keeps exactly the committed rows.
ReloadFaithful ==
    Active = {} =>
        \A v \in Vectors :
            LET filled == Cardinality({i \in Offsets : v * VectorSize + i < total_rows})
                now == [start_time |-> current_start_timestamp, transaction_id |-> NotDeletedId + 1]
            IN  GetSelVector(Reloaded(info[v]), now, filled) = GetSelVector(info[v], now, filled)

=============================================================================
