----------------------------- MODULE Durability -----------------------------
(***************************************************************************)
(* How a database survives crashes: commits go to the write ahead log,     *)
(* checkpoints write the tables into blocks of the database file and       *)
(* switch between two headers, and a restart loads the newer header and    *)
(* replays the log (src/src/storage/storage_manager.cpp,                   *)
(* checkpoint_manager.cpp, single_file_block_manager.cpp,                  *)
(* meta_block_writer.cpp, meta_block_reader.cpp, column_data.cpp,          *)
(* write_ahead_log.cpp, wal_replay.cpp).                                   *)
(*                                                                         *)
(* Data.  A change is the number of its commit; a segment holds a bag of   *)
(* changes, so that a change applied twice or not at all shows.  A block   *)
(* holds one structure: the metadata, the table data (the data pointers),  *)
(* one segment, or the free list.                                          *)
(*                                                                         *)
(* Crashes.  A write that was not synced may or may not be found after a   *)
(* crash: stable and stable_header are the file as of the last sync, and   *)
(* the images of the log all the contents a crash may leave of it.  A      *)
(* record of the log and a header may also be written in part (the faults  *)
(* torn_log and torn_header).  A block that is written in part fails its   *)
(* checksum: the blocks are synced before a header leads to them, so no    *)
(* restart reads one, except for a block of the fault crash_in_header.     *)
(* The sync before the header is skipped with the option use_direct_io,    *)
(* which is not modelled.                                                  *)
(*                                                                         *)
(* Granularity.  Commits and checkpoints exclude each other (module        *)
(* TransactionManager), so one of them runs at a time; a step ends where a *)
(* crash or an error tells a difference.                                   *)
(***************************************************************************)
EXTENDS Integers, Sequences, FiniteSets, FiniteSetsExt, SequencesExt

CONSTANTS
    Tables,
    Absent,
    NoCommit,
    Unreadable,    \* the contents of files that cannot be loaded
    Torn,          \* a log record that was written in part
    MaxCommits,    \* bound: commits that are attempted
    MaxBlocks,     \* bound: blocks of the database file
    MaxCheckpoints,\* bound: checkpoints that are started
    MaxCrashes,    \* bound: crashes
    Operations,    \* what commits do
    Faults         \* what may go wrong besides a crash, a subset of AllFaults

\* crash_in_header: a crash after WriteHeader wrote the free list and before the
\* new header is on disk; torn_header: a crash leaves that header in part;
\* torn_log: a crash leaves a log record in part;
\* abort_header, abort_auto: an error before the header is written, of CHECKPOINT
\* and of the checkpoint of a commit; abort_truncate: an error before the log is
\* truncated after which the database goes on; log_fails: writing a commit to the
\* log fails; drop_fails: also the commit of a DROP TABLE; crash_after_failure: a
\* crash before the truncation of the log by a failed commit is synced.
AllFaults == {"crash_in_header", "torn_header", "torn_log", "abort_header", "abort_auto",
              "abort_truncate", "log_fails", "drop_fails", "crash_after_failure"}

INVALID_BLOCK == -1
\* A block that was never written.
Empty == [kind |-> "empty"]
Blocks == 0 .. (MaxBlocks - 1)
Commits == 1 .. MaxCommits
Absents == [t \in Tables |-> Absent]

\* A bag of changes, a segment of a table, a commit, a record of the log.
Bag == [Commits -> Nat]
Segment == [block : Blocks \cup {INVALID_BLOCK}, rows : Bag, saved : Bag]
Commit == [op : {"append", "update", "drop"}, table : Tables, number : Commits]
Record == [type : {"commit"}, commit : Commit] \cup [type : {"checkpoint"}, block : Blocks]

ASSUME DurabilityAssumption ==
    /\ MaxCommits \in Nat /\ MaxBlocks \in Nat /\ MaxCheckpoints \in Nat /\ MaxCrashes \in Nat
    /\ Operations \subseteq {"append", "update", "drop"}
    /\ Faults \subseteq AllFaults
    /\ Absent \notin Seq(Segment) \cup Bag
    /\ NoCommit \notin Commit
    /\ Torn \notin Record

VARIABLES
    \* the files, as a process sees them, and what a crash may leave of them
    disk,            \* block id -> contents
    header,          \* the two database headers, 0 and 1
    log,             \* the write ahead log: a sequence of records
    stable,
    stable_header,
    log_images,
    \* memory
    tables,          \* table -> sequence of segments, or Absent
    free_list,
    modified_blocks,
    max_block,
    active_header,
    iteration_count,
    pc,              \* what the database is doing
    checkpoint,      \* the checkpoint under way: its first blocks and its reason
    \* history
    commit,          \* the commit under way, or NoCommit
    content,           \* the contents of the tables by the commits that returned
    numbers,         \* numbers given to commits so far
    failed,          \* the commits that returned an error
    checkpoints,
    crashes,
    leaked           \* a block was allocated, or released, without being recorded

files == <<disk, header, log, stable, stable_header, log_images>>
memory == <<tables, free_list, modified_blocks, max_block, active_header, iteration_count>>
history == <<content, numbers, failed, checkpoints, crashes, leaked>>
vars == <<files, memory, pc, checkpoint, commit, history>>

(***************************************************************************)
(* The database file                                                       *)
(***************************************************************************)
NoHeader == [iteration |-> 0, meta_block |-> INVALID_BLOCK, free_list |-> INVALID_BLOCK,
             block_count |-> 0]
\* A header whose checksum is wrong.
TornHeader == [NoHeader EXCEPT !.iteration = -1]

\* The smallest free block, or a new one at the end of the file, and what it leaves.
GetFreeBlockId(free, max) ==
    IF free # {}
      THEN [block |-> Min(free), free |-> free \ {Min(free)}, max |-> max]
      ELSE [block |-> max, free |-> free, max |-> max + 1]

\* done: how many segments of each table are written.
NoCheckpoint == [reason |-> "none", meta_block |-> INVALID_BLOCK, tabledata |-> INVALID_BLOCK,
                 done |-> [t \in Tables |-> 0], written |-> {}, header |-> NoHeader,
                 overwrites |-> FALSE]

(***************************************************************************)
(* Tables and their segments                                               *)
(***************************************************************************)
\* Rows are a bag of changes: how often each is there.
NoRows == [n \in Commits |-> 0]
Plus(rows, more) == [n \in Commits |-> rows[n] + more[n]]
With(rows, n) == [rows EXCEPT ![n] = @ + 1]

\* A transient segment has no block.  A persistent one has, and the changes in
\* rows beyond saved are updates kept in memory.
TransientSegment(rows) == [block |-> INVALID_BLOCK, rows |-> rows, saved |-> NoRows]
PersistentSegment(block, rows) == [block |-> block, rows |-> rows, saved |-> rows]
IsPersistent(segment) == segment.block # INVALID_BLOCK
HasUpdates(segment) == segment.rows # segment.saved

TableBlocks(table) ==
    IF table = Absent THEN {} ELSE {table[i].block : i \in DOMAIN table} \ {INVALID_BLOCK}
AllBlocks(ts) == UNION {TableBlocks(ts[t]) : t \in Tables}

\* The rows of all segments.
RowsOf(table) ==
    LET sum[i \in 0 .. Len(table)] == IF i = 0 THEN NoRows ELSE Plus(sum[i - 1], table[i].rows)
    IN  sum[Len(table)]
Contents(ts) == [t \in Tables |-> IF ts[t] = Absent THEN Absent ELSE RowsOf(ts[t])]

\* Appends need a transient segment at the end: ColumnData::InitializeAppend turns
\* a persistent one into a transient copy and releases its block.  An append fills
\* a segment of its own.  An update stays with the segment of its rows, the first
\* one here.
EndsPersistent(table) == table # Absent /\ table # <<>> /\ IsPersistent(Last(table))
Converted(table) ==
    IF EndsPersistent(table) THEN [table EXCEPT ![Len(table)] = TransientSegment(@.rows)] ELSE table
ConvertedBlock(table) == IF EndsPersistent(table) THEN {Last(table).block} ELSE {}

Appended(table, n) ==
    Append(IF table = Absent THEN <<>> ELSE Converted(table), TransientSegment(With(NoRows, n)))

Updated(table, n) == [table EXCEPT ![1].rows = With(@, n)]

CanApply(ts, c) == c.op = "append" \/ (ts[c.table] # Absent /\ (c.op = "update" => ts[c.table] # <<>>))

Applied(ts, c) ==
    [ts EXCEPT ![c.table] = CASE c.op = "append" -> Appended(@, c.number)
                              [] c.op = "update" -> Updated(@, c.number)
                              [] c.op = "drop"   -> Absent]

(***************************************************************************)
(* What a restart finds in the files                                       *)
(***************************************************************************)
\* The constructor of SingleFileBlockManager reads both headers, throws if the
\* checksum of either is wrong (FileBuffer::Read), and takes the one with the
\* higher iteration.
HeadersReadable(headers) == \A i \in {0, 1} : headers[i] # TornHeader
Newest(headers) == IF headers[0].iteration > headers[1].iteration THEN 0 ELSE 1

\* LoadFreeList and LoadFromStorage: the tables of the file, if every block is
\* what the block that refers to it says.
MetaOf(dsk, h) == IF h.meta_block = INVALID_BLOCK THEN Empty ELSE dsk[h.meta_block]
Readable(dsk, h) ==
    /\ h.free_list # INVALID_BLOCK => dsk[h.free_list].kind = "free"
    /\ h.meta_block # INVALID_BLOCK =>
         /\ MetaOf(dsk, h).kind = "meta"
         /\ MetaOf(dsk, h).tables # {} =>
              LET data == dsk[MetaOf(dsk, h).tabledata] IN
              /\ data.kind = "tabledata"
              /\ DOMAIN data.pointers = MetaOf(dsk, h).tables
              /\ \A t \in DOMAIN data.pointers : \A i \in DOMAIN data.pointers[t] :
                   dsk[data.pointers[t][i]].kind = "data"

LoadTables(dsk, h) ==
    LET meta == MetaOf(dsk, h)
        Pointers(t) == dsk[meta.tabledata].pointers[t]
    IN  [t \in Tables |->
           IF meta = Empty \/ t \notin meta.tables THEN Absent
           ELSE [i \in DOMAIN Pointers(t) |-> PersistentSegment(Pointers(t)[i], dsk[Pointers(t)[i]].rows)]]

\* The blocks read on the way, which MetaBlockReader marks as modified.
MetaBlocks(dsk, h) ==
    ({h.free_list, h.meta_block} \ {INVALID_BLOCK})
    \cup (IF MetaOf(dsk, h) = Empty \/ MetaOf(dsk, h).tables = {} THEN {} ELSE {MetaOf(dsk, h).tabledata})

\* WriteAheadLog::Replay.  A record that cannot be read ends the first pass, and
\* with it the replay; so does a last checkpoint record that names the root.
IsRootBlock_Never(h, block) == FALSE   \* mutant
IsRootBlock(h, block) == block = h.meta_block
LastCheckpoint(lg) ==
    LET at == {i \in DOMAIN lg : lg[i].type = "checkpoint"} IN
    IF at = {} THEN INVALID_BLOCK ELSE lg[Max(at)].block
Corrupt(lg) == Torn \in Range(lg)
AlreadyCheckpointed(h, lg) ==
    /\ ~Corrupt(lg)
    /\ LastCheckpoint(lg) # INVALID_BLOCK
    /\ IsRootBlock(h, LastCheckpoint(lg))

\* The log is not open during the replay, so that a dropped table's blocks are not
\* marked as modified; an append's are.
ReplayEntry(state, record) ==
    IF state.stopped \/ record.type = "checkpoint" THEN state
    ELSE IF CanApply(state.tables, record.commit)
      THEN [state EXCEPT
              !.tables = Applied(@, record.commit),
              !.modified = IF record.commit.op = "append"
                             THEN @ \cup ConvertedBlock(state.tables[record.commit.table]) ELSE @]
      ELSE [state EXCEPT !.stopped = TRUE]

ReplayStart(ts) == [tables |-> ts, modified |-> {}, stopped |-> FALSE]
ReplayEntries(ts, lg) ==
    LET state[i \in 0 .. Len(lg)] ==
            IF i = 0 THEN ReplayStart(ts) ELSE ReplayEntry(state[i - 1], lg[i])
    IN  state[Len(lg)]
Replay(ts, h, lg) ==
    IF Corrupt(lg) \/ AlreadyCheckpointed(h, lg) THEN ReplayStart(ts) ELSE ReplayEntries(ts, lg)

\* Mutant: the block of the free list is taken to be free as well.
LoadFreeList_Whole(dsk, h) ==
    IF h.free_list = INVALID_BLOCK THEN {} ELSE dsk[h.free_list].blocks \cup {h.free_list}

\* The blocks that are free according to the file.
LoadFreeList(dsk, h) == IF h.free_list = INVALID_BLOCK THEN {} ELSE dsk[h.free_list].blocks

\* The contents that a restart would load.
Recovered(dsk, headers, lg) ==
    LET h == headers[Newest(headers)] IN
    IF HeadersReadable(headers) /\ Readable(dsk, h)
      THEN Contents(Replay(LoadTables(dsk, h), h, lg).tables) ELSE Unreadable

(***************************************************************************)
(* Commits                                                                 *)
(***************************************************************************)
CommitRecord(c) == [type |-> "commit", commit |-> c]
CheckpointRecord(block) == [type |-> "checkpoint", block |-> block]

\* The images of a log to which a record was written without a sync.
Written(record) ==
    log_images \cup {Append(log, record)}
               \cup (IF "torn_log" \in Faults THEN {Append(log, Torn)} ELSE {})

\* Mutant: the blocks of a dropped table are forgotten.
ReleasedBlocks_NoDrop(c) == IF c.op = "append" THEN ConvertedBlock(tables[c.table]) ELSE {}

\* The blocks that a commit marks as modified: the one an append replaces, and
\* those of a dropped table (CommitDropTable, called before the drop is logged).
ReleasedBlocks(c) ==
    CASE c.op = "append" -> ConvertedBlock(tables[c.table])
      [] c.op = "update" -> {}
      [] c.op = "drop"   -> TableBlocks(tables[c.table])

\* Transaction::Commit appends the rows of the transaction to the tables and writes
\* its entries to the log.
WriteToLog(op, t) ==
    LET c == [op |-> op, table |-> t, number |-> numbers + 1] IN
    /\ pc = "idle"
    /\ numbers < MaxCommits
    /\ CanApply(tables, c)
    /\ commit' = c
    /\ numbers' = numbers + 1
    /\ modified_blocks' = modified_blocks \cup ReleasedBlocks(c)
    /\ tables' = IF op = "append" THEN [tables EXCEPT ![t] = Converted(@)] ELSE tables
    /\ log' = Append(log, CommitRecord(c))
    /\ log_images' = Written(CommitRecord(c))
    /\ pc' = "flush"
    /\ UNCHANGED <<disk, header, stable, stable_header, free_list, max_block,
                   active_header, iteration_count, checkpoint, content, failed, checkpoints,
                   crashes, leaked>>

\* WriteAheadLog::Flush syncs the log and the commit returns.
FlushCommit ==
    /\ pc = "flush"
    /\ log_images' = {log}
    /\ tables' = Applied(tables, commit)
    /\ content' = Contents(tables')
    /\ commit' = NoCommit
    /\ pc' = "idle"
    /\ UNCHANGED <<disk, header, log, stable, stable_header, free_list, modified_blocks,
                   max_block, active_header, iteration_count, checkpoint, numbers, failed,
                   checkpoints, crashes, leaked>>

\* Writing or syncing the log fails: the log is truncated to its initial size and
\* the transaction is reverted and rolled back.
FailCommit ==
    /\ pc = "flush"
    /\ "log_fails" \in Faults
    /\ commit.op = "drop" => "drop_fails" \in Faults
    /\ log' = Front(log)
    /\ log_images' = log_images \cup {log'}
    /\ failed' = failed \cup {commit.number}
    /\ commit' = NoCommit
    /\ pc' = "idle"
    /\ UNCHANGED <<disk, header, stable, stable_header, memory, checkpoint, content, numbers,
                   checkpoints, crashes, leaked>>

\* The database is quiet and the log is long: the commit is not logged and
\* CommitTransaction checkpoints instead.
CommitAndCheckpoint(op, t) ==
    LET c == [op |-> op, table |-> t, number |-> numbers + 1] IN
    /\ pc = "idle"
    /\ numbers < MaxCommits
    /\ checkpoints < MaxCheckpoints
    /\ CanApply(tables, c)
    /\ commit' = c
    /\ numbers' = numbers + 1
    /\ checkpoints' = checkpoints + 1
    /\ modified_blocks' = modified_blocks \cup ReleasedBlocks(c)
    /\ tables' = Applied(tables, c)
    /\ checkpoint' = [checkpoint EXCEPT !.reason = "commit"]
    /\ pc' = "checkpoint"
    /\ UNCHANGED <<files, free_list, max_block, active_header, iteration_count, content, failed,
                   crashes, leaked>>

(***************************************************************************)
(* Checkpoints                                                             *)
(***************************************************************************)
\* CHECKPOINT and the end of the database only checkpoint when something was
\* logged; the end of the database also deletes the log.
StartCheckpoint(reason) ==
    /\ pc = "idle"
    /\ log # <<>>
    /\ checkpoints < MaxCheckpoints
    /\ checkpoints' = checkpoints + 1
    /\ checkpoint' = [checkpoint EXCEPT !.reason = reason]
    /\ pc' = "checkpoint"
    /\ UNCHANGED <<files, memory, commit, content, numbers, failed, crashes, leaked>>

CloseWithoutCheckpoint ==
    /\ pc = "idle"
    /\ log = <<>>
    /\ content' = Recovered(disk, header, log)
    /\ pc' = "closed"
    /\ UNCHANGED <<files, memory, checkpoint, commit, numbers, failed, checkpoints, crashes, leaked>>

\* CreateCheckpoint: the metadata and the table data each start in a block of their
\* own, allocated before any segment is written.
AllocateMetadata ==
    LET meta == GetFreeBlockId(free_list, max_block)
        tabledata == GetFreeBlockId(meta.free, meta.max)
    IN
    /\ pc = "checkpoint"
    /\ tabledata.max <= MaxBlocks
    /\ free_list' = tabledata.free
    /\ max_block' = tabledata.max
    /\ checkpoint' = [checkpoint EXCEPT !.meta_block = meta.block, !.tabledata = tabledata.block]
    /\ pc' = "write"
    /\ UNCHANGED <<files, tables, modified_blocks, active_header, iteration_count, commit, history>>

\* The tables that the catalog lists.
Existing == {t \in Tables : tables[t] # Absent}

\* Whether the checkpoint keeps a segment's block.
Unchanged(segment) == IsPersistent(segment) /\ ~HasUpdates(segment)

\* Mutant: the blocks of unchanged segments are marked as well.
ReplacedBlock_Always(segment) == IF IsPersistent(segment) THEN {segment.block} ELSE {}

\* The block that is marked as modified when the segment is written.
ReplacedBlock(segment) ==
    IF IsPersistent(segment) /\ HasUpdates(segment) THEN {segment.block} ELSE {}

\* ColumnData::Checkpoint and ColumnCheckpointState::FlushSegment: an unchanged
\* persistent segment is kept, another one gets a new block.  The catalog yields the
\* tables in some order, one after the other.
WriteSegment(t) ==
    LET i == checkpoint.done[t] + 1
        segment == tables[t][i]
        a == GetFreeBlockId(free_list, max_block)
    IN
    /\ pc = "write"
    /\ t \in Existing
    /\ i <= Len(tables[t])
    /\ \A u \in Existing \ {t} : checkpoint.done[u] \in {0, Len(tables[u])}
    /\ checkpoint' = [checkpoint EXCEPT !.done[t] = i]
    /\ modified_blocks' = modified_blocks \cup ReplacedBlock(segment)
    /\ \/ /\ Unchanged(segment)
          /\ UNCHANGED <<disk, tables, free_list, max_block>>
       \/ /\ ~Unchanged(segment)
          /\ a.max <= MaxBlocks
          /\ disk' = [disk EXCEPT ![a.block] = [kind |-> "data", rows |-> segment.rows]]
          /\ tables' = [tables EXCEPT ![t][i] = PersistentSegment(a.block, segment.rows)]
          /\ free_list' = a.free
          /\ max_block' = a.max
    /\ UNCHANGED <<header, log, stable, stable_header, log_images, active_header, iteration_count,
                   pc, commit, history>>

PointersOf(table) == [i \in DOMAIN table |-> table[i].block]

\* The metadata and the table data are flushed.
WriteMetadata ==
    LET meta == [kind |-> "meta", tables |-> Existing, tabledata |-> checkpoint.tabledata]
        data == [kind |-> "tabledata", pointers |-> [t \in Existing |-> PointersOf(tables[t])]]
    IN
    /\ pc = "write"
    /\ \A t \in Existing : checkpoint.done[t] = Len(tables[t])
    /\ disk' = [b \in Blocks |-> IF b = checkpoint.meta_block THEN meta
                                ELSE IF b = checkpoint.tabledata /\ Existing # {} THEN data
                                ELSE disk[b]]
    /\ checkpoint' = [checkpoint EXCEPT !.written = {checkpoint.meta_block}
                          \cup (IF Existing = {} THEN {} ELSE {checkpoint.tabledata})]
    /\ leaked' = (leaked \/ Existing = {})
    /\ pc' = "record"
    /\ UNCHANGED <<header, log, stable, stable_header, log_images, memory, commit, content, numbers,
                   failed, checkpoints, crashes>>

\* The log gets a record that names the new root, and is synced.
WriteCheckpointRecord ==
    /\ pc = "record"
    /\ log' = Append(log, CheckpointRecord(checkpoint.meta_block))
    /\ log_images' = Written(CheckpointRecord(checkpoint.meta_block))
    /\ pc' = "sync_record"
    /\ UNCHANGED <<disk, header, stable, stable_header, memory, checkpoint, commit, history>>

FlushCheckpointRecord ==
    /\ pc = "sync_record"
    /\ log_images' = {log}
    /\ pc' = "header"
    /\ UNCHANGED <<disk, header, log, stable, stable_header, memory, checkpoint, commit, history>>

\* A checkpoint ends, with an error or not: a commit that checkpointed is visible
\* to everyone from now on; the destructor of the database swallows the error.
EndCheckpoint ==
    /\ content' = IF checkpoint.reason = "close" THEN Recovered(disk', header', log') ELSE Contents(tables)
    /\ commit' = NoCommit
    /\ checkpoint' = NoCheckpoint
    /\ pc' = IF checkpoint.reason = "close" THEN "closed" ELSE "idle"

AbortBeforeHeader ==
    /\ pc = "header"
    /\ (IF checkpoint.reason = "commit" THEN "abort_auto" ELSE "abort_header") \in Faults
    /\ leaked' = TRUE
    /\ UNCHANGED <<files, memory, numbers, failed, checkpoints, crashes>>
    /\ EndCheckpoint

\* The blocks that a restart from these files reads.
FileBlocks(dsk, h) ==
    LET meta == IF h.meta_block = INVALID_BLOCK THEN Empty ELSE dsk[h.meta_block]
        data == IF meta.kind = "meta" /\ meta.tables # {} THEN dsk[meta.tabledata] ELSE Empty
    IN  ({h.meta_block, h.free_list} \ {INVALID_BLOCK})
        \cup (IF meta.kind = "meta" /\ meta.tables # {} THEN {meta.tabledata} ELSE {})
        \cup (IF data.kind = "tabledata"
               THEN UNION {Range(data.pointers[t]) : t \in DOMAIN data.pointers} ELSE {})

\* SingleFileBlockManager::WriteHeader up to the write of the header: the modified
\* blocks become free and one of the free blocks takes the list of the others.
WriteFreeList ==
    LET free == free_list \cup modified_blocks
        block == IF free = {} THEN INVALID_BLOCK ELSE GetFreeBlockId(free, max_block).block
    IN
    /\ pc = "header"
    /\ iteration_count' = iteration_count + 1
    /\ free_list' = free \ {block}
    /\ modified_blocks' = {block} \ {INVALID_BLOCK}
    /\ disk' = [b \in Blocks |-> IF b = block THEN [kind |-> "free", blocks |-> free \ {block}] ELSE disk[b]]
    /\ checkpoint' = [checkpoint EXCEPT
            !.header = [iteration |-> iteration_count + 1, meta_block |-> checkpoint.meta_block,
                        free_list |-> block, block_count |-> max_block],
            !.overwrites = block \in FileBlocks(disk, header[active_header])]
    /\ pc' = "write_header"
    /\ UNCHANGED <<header, log, stable, stable_header, log_images, tables, max_block, active_header, commit,
                   history>>

\* The blocks are synced and the header that is not active is written.
WriteHeader ==
    /\ pc = "write_header"
    /\ stable' = disk
    /\ header' = [header EXCEPT ![1 - active_header] = checkpoint.header]
    /\ active_header' = 1 - active_header
    /\ pc' = "sync_header"
    /\ UNCHANGED <<disk, log, stable_header, log_images, tables, free_list, modified_blocks, max_block,
                   iteration_count, checkpoint, commit, history>>

SyncHeader ==
    /\ pc = "sync_header"
    /\ stable_header' = header
    /\ pc' = "truncate"
    /\ UNCHANGED <<disk, header, log, stable, log_images, memory, checkpoint, commit, history>>

AbortBeforeTruncate ==
    /\ pc = "truncate"
    /\ checkpoint.reason = "close" \/ "abort_truncate" \in Faults
    /\ leaked' = TRUE
    /\ UNCHANGED <<files, memory, numbers, failed, checkpoints, crashes>>
    /\ EndCheckpoint

\* The log is truncated (or deleted) without a sync, and the blocks of the
\* metadata are marked: the next checkpoint writes new ones.
TruncateLog ==
    /\ pc = "truncate"
    /\ log' = <<>>
    /\ log_images' = log_images \cup {<<>>}
    /\ modified_blocks' = modified_blocks \cup checkpoint.written
    /\ UNCHANGED <<disk, header, stable, stable_header, tables, free_list, max_block, active_header,
                   iteration_count, numbers, failed, checkpoints, crashes, leaked>>
    /\ EndCheckpoint

(***************************************************************************)
(* Crash and restart                                                       *)
(***************************************************************************)
\* Whether a crash would find a block of the checkpoint it must fall back to
\* overwritten by the new free list.
InHeaderWrite == pc \in {"write_header", "sync_header"} /\ checkpoint.overwrites

\* The blocks some header leads to: no restart reads the others, and whether their
\* last writes survive makes no difference.
ReachableBlocks ==
    UNION {FileBlocks(d, h[i]) : d \in {disk, stable}, h \in {header, stable_header}, i \in {0, 1}}

HoldsFailed(image) == \E i \in DOMAIN image : image[i] # Torn /\ image[i].type = "commit"
                                              /\ image[i].commit.number \in failed

\* The header that is being written, in part.
TornHeaders ==
    IF "torn_header" \in Faults /\ pc = "sync_header"
      THEN {[header EXCEPT ![active_header] = TornHeader]} ELSE {}

Crash ==
    /\ pc \notin {"down", "broken"}
    /\ crashes < MaxCrashes
    /\ InHeaderWrite => "crash_in_header" \in Faults
    /\ (\E image \in log_images : HoldsFailed(image)) => "crash_after_failure" \in Faults
    /\ \E kept \in SUBSET {b \in ReachableBlocks : disk[b] # stable[b]} :
         disk' = [b \in Blocks |-> IF b \in kept THEN disk[b] ELSE stable[b]]
    /\ header' \in {header, stable_header} \cup TornHeaders
    /\ log' \in log_images
    /\ stable' = disk'
    /\ stable_header' = header'
    /\ log_images' = {log'}
    /\ crashes' = crashes + 1
    /\ commit' = NoCommit
    /\ pc' = "down"
    /\ tables' = Absents /\ free_list' = {} /\ modified_blocks' = {} /\ max_block' = 0
    /\ active_header' = 0 /\ iteration_count' = 0
    /\ checkpoint' = NoCheckpoint
    /\ content' = Recovered(disk', header', log')
    /\ UNCHANGED <<numbers, failed, checkpoints, leaked>>

\* StorageManager::LoadDatabase.
Restart ==
    LET active == Newest(header)
        h == header[active]
        loaded == LoadTables(disk, h)
        replayed == Replay(loaded, h, log)
    IN
    /\ pc \in {"down", "closed"}
    /\ IF HeadersReadable(header) /\ Readable(disk, h)
         THEN /\ active_header' = active
              /\ iteration_count' = h.iteration
              /\ max_block' = h.block_count
              /\ free_list' = LoadFreeList(disk, h)
              /\ modified_blocks' = MetaBlocks(disk, h) \cup replayed.modified
              /\ tables' = replayed.tables
              /\ log' = IF AlreadyCheckpointed(h, log) THEN <<>> ELSE log
              /\ log_images' = log_images \cup {log'}
              /\ content' = Contents(tables')
              /\ leaked' = (leaked \/ AllBlocks(loaded) # AllBlocks(replayed.tables) \cup replayed.modified)
              /\ pc' = "idle"
         ELSE /\ pc' = "broken"
              /\ UNCHANGED <<memory, log, log_images, content, leaked>>
    /\ UNCHANGED <<disk, header, stable, stable_header, checkpoint, commit, numbers, failed,
                   checkpoints, crashes>>

Init ==
    /\ disk = [b \in Blocks |-> Empty]
    /\ header = [i \in {0, 1} |-> NoHeader]
    /\ log = <<>>
    /\ stable = disk
    /\ stable_header = header
    /\ log_images = {<<>>}
    /\ tables = Absents
    /\ free_list = {} /\ modified_blocks = {} /\ max_block = 0
    /\ active_header = 1 /\ iteration_count = 0
    /\ pc = "idle"
    /\ checkpoint = NoCheckpoint
    /\ commit = NoCommit
    /\ content = Absents
    /\ numbers = 0 /\ failed = {} /\ checkpoints = 0 /\ crashes = 0
    /\ leaked = FALSE

Next ==
    \/ \E op \in Operations, t \in Tables : WriteToLog(op, t) \/ CommitAndCheckpoint(op, t)
    \/ FlushCommit
    \/ FailCommit
    \/ \E reason \in {"statement", "close"} : StartCheckpoint(reason)
    \/ CloseWithoutCheckpoint
    \/ AllocateMetadata
    \/ \E t \in Tables : WriteSegment(t)
    \/ WriteMetadata
    \/ WriteCheckpointRecord
    \/ FlushCheckpointRecord
    \/ AbortBeforeHeader
    \/ WriteFreeList
    \/ WriteHeader
    \/ SyncHeader
    \/ AbortBeforeTruncate
    \/ TruncateLog
    \/ Crash
    \/ Restart

Spec == Init /\ [][Next]_vars

(***************************************************************************)
(* Properties                                                              *)
(***************************************************************************)
\* Types: block ids stay inside the file, and the free list and the blocks marked
\* as modified are blocks of the file (GetFreeBlockId, MarkBlockAsModified).
TypeOK ==
    /\ pc \in {"idle", "flush", "checkpoint", "write", "record", "sync_record", "header", "write_header",
               "sync_header", "truncate", "down", "closed", "broken"}
    /\ max_block \in 0 .. MaxBlocks
    /\ free_list \cup modified_blocks \subseteq 0 .. (max_block - 1)
    /\ active_header \in {0, 1}
    /\ iteration_count \in 0 .. (MaxCheckpoints + 1)
    /\ \A t \in Tables : TableBlocks(tables[t]) \subseteq 0 .. (max_block - 1)
    /\ log \in log_images

Store == INSTANCE DurableStore WITH pending <- commit

\* The files always bring back what the clients were told: every commit that
\* returned is there once, the one under way is there once or not at all, and
\* none that failed -- whatever crash interrupts a commit or a checkpoint, and
\* whichever of the blocks, log records and header that were written without a
\* sync are found after it (Replay, WriteHeader, the checkpoint record and the
\* truncation of the log).  It is false of the faults, which Crash and the
\* checkpoint's error paths guard: a record or a header that is written in part,
\* a crash while the free list overwrites the checkpoint in use, and one before
\* the log is cut back for a failed commit.
NothingLost == Store!Spec

\* No two segments share a block.
Distinct(ts) ==
    \A t, u \in Tables : ts[t] # Absent /\ ts[u] # Absent =>
      \A i \in DOMAIN ts[t], j \in DOMAIN ts[u] :
        IsPersistent(ts[t][i]) /\ ts[t][i].block = ts[u][j].block => t = u /\ i = j

\* No block is handed out that a table still uses, and no two segments share one
\* (GetFreeBlockId, WriteHeader).
FreeBlocksUnused ==
    /\ Distinct(tables)
    /\ AllBlocks(tables) \cap free_list = {}
    /\ free_list \cap modified_blocks = {}
    /\ pc = "idle" => AllBlocks(tables) \cap modified_blocks = {}

\* Space is reclaimed: between statements every block of the file is used by a
\* table, free, or on its way to the free list (LoadFreeList, MarkBlockAsModified,
\* CommitDropTable).  The exceptions are the known leaks: an aborted checkpoint, a
\* checkpoint without tables, a dropped table that is replayed.
BlocksAccounted ==
    pc = "idle" /\ ~leaked =>
      0 .. (max_block - 1) =
        free_list \cup modified_blocks \cup AllBlocks(tables)

\* The checkpoint that a crash falls back to: of the blocks that the synced header
\* leads to none is written before the next header is on disk but the one that
\* WriteHeader takes for the free list, and the file can be loaded at every moment
\* but between the sync of such a list and that of the header (GetFreeBlockId,
\* MarkBlockAsModified, LoadFreeList).
CheckpointIntact ==
    LET h == stable_header[Newest(stable_header)]
    IN  /\ \A b \in FileBlocks(stable, h) :
              disk[b] = stable[b] \/ (pc = "write_header" /\ b = checkpoint.header.free_list)
        /\ Readable(stable, h) \/ (pc = "sync_header" /\ checkpoint.overwrites)

\* A database opens after every crash: blocks of the free list "can now be written to
\* again" (single_file_block_manager.cpp:240), and of two headers "the DatabaseHeader
\* with the highest iteration count is used" (storage_info.hpp:45).
DatabaseOpens == pc # "broken"
=============================================================================
