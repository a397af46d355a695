------------------------------ MODULE ChunkInfo ------------------------------
(***************************************************************************)
(* The version information of one vector of rows: which transaction        *)
(* inserted and which deleted each row (src/src/storage/table/             *)
(* chunk_info.cpp and the vector-wise part of morsel_info.cpp).            *)
(*                                                                         *)
(* A vector has no info (every row is visible), a constant info (one       *)
(* append covered it) or a vector info, with an id per row and two         *)
(* shortcuts for readers: same_inserted_id and any_deleted.  Ids below     *)
(* TransactionIdStart are commit ids, ids from there on are ids of         *)
(* transactions that have not committed.                                   *)
(***************************************************************************)
EXTENDS Integers, FiniteSets

CONSTANTS
    TransactionIdStart,  \* TRANSACTION_ID_START
    NotDeletedId,        \* NOT_DELETED_ID, above every transaction id
    VectorSize           \* STANDARD_VECTOR_SIZE

ASSUME ChunkInfoAssumption ==
    /\ TransactionIdStart \in Nat \ {0}
    /\ NotDeletedId \in Nat
    /\ NotDeletedId > TransactionIdStart
    /\ VectorSize \in Nat \ {0}

Offsets == 0 .. (VectorSize - 1)

\* The ids a row can carry.
Ids == 0 .. NotDeletedId

\* A reader: a transaction as the version information sees it.
Readers == [start_time : Nat, transaction_id : Nat]

EmptyInfo == [type |-> "empty"]

ConstantInfo(insert_id, delete_id) ==
    [type |-> "constant", insert_id |-> insert_id, delete_id |-> delete_id]

VectorInfo(insert_id, same_inserted_id, inserted, deleted, any_deleted) ==
    [type |-> "vector", insert_id |-> insert_id, same_inserted_id |-> same_inserted_id,
     inserted |-> inserted, deleted |-> deleted, any_deleted |-> any_deleted]

ConstantInfos == [type : {"constant"}, insert_id : Ids, delete_id : Ids]

VectorInfos ==
    [type : {"vector"}, insert_id : Ids, same_inserted_id : BOOLEAN,
     inserted : [Offsets -> Ids], deleted : [Offsets -> Ids], any_deleted : BOOLEAN]

Infos == {EmptyInfo} \union ConstantInfos \union VectorInfos

\* ChunkVectorInfo::ChunkVectorInfo.
NewVectorInfo ==
    VectorInfo(0, TRUE, [i \in Offsets |-> 0], [i \in Offsets |-> NotDeletedId], FALSE)

-----------------------------------------------------------------------------
(***************************************************************************)
(* Reading.                                                                *)
(***************************************************************************)

UseVersion(reader, id) == id < reader.start_time \/ id = reader.transaction_id

\* Fetch: whether the reader uses row i.
Fetch(info, reader, i) ==
    CASE info.type = "empty" -> TRUE
      [] info.type = "constant" -> /\ UseVersion(reader, info.insert_id)
                                   /\ ~UseVersion(reader, info.delete_id)
      [] info.type = "vector" -> /\ UseVersion(reader, info.inserted[i])
                                 /\ ~UseVersion(reader, info.deleted[i])

\* GetSelVector: the rows the reader uses among the first max_count, decided
\* with the shortcuts.
GetSelVector(info, reader, max_count) ==
    LET rows == 0 .. (max_count - 1)
        insert_used(i) == IF info.same_inserted_id THEN UseVersion(reader, info.insert_id)
                          ELSE UseVersion(reader, info.inserted[i])
        delete_used(i) == info.any_deleted /\ UseVersion(reader, info.deleted[i])
    IN  IF info.type = "vector"
        THEN {i \in rows : insert_used(i) /\ ~delete_used(i)}
        ELSE {i \in rows : Fetch(info, reader, i)}

-----------------------------------------------------------------------------
(***************************************************************************)
(* Writing.                                                                *)
(***************************************************************************)

Assign(f, rows, id) == [i \in Offsets |-> IF i \in rows THEN id ELSE f[i]]

KeepsSameId_Always(info, start, id) == info.same_inserted_id

\* After an append from start on all rows still carry one id.
KeepsSameId(info, start, id) ==
    info.same_inserted_id /\ (start = 0 \/ info.insert_id = id)

\* ChunkVectorInfo::Append.
AppendToVector(info, start, end, id) ==
    [info EXCEPT !.insert_id = IF start = 0 \/ info.insert_id = id THEN id ELSE NotDeletedId,
                 !.same_inserted_id = KeepsSameId(info, start, id),
                 !.inserted = Assign(info.inserted, start .. (end - 1), id)]

\* MorselInfo::Append on one vector: a constant when the append covers it.
AppendInfo(info, start, end, id) ==
    IF start = 0 /\ end = VectorSize
    THEN ConstantInfo(id, NotDeletedId)
    ELSE AppendToVector(IF info.type = "empty" THEN NewVectorInfo ELSE info, start, end, id)

\* ChunkConstantInfo::CommitAppend and ChunkVectorInfo::CommitAppend.
CommitAppendInfo(info, start, end, commit_id) ==
    IF info.type = "constant"
    THEN [info EXCEPT !.insert_id = commit_id]
    ELSE [info EXCEPT !.insert_id = IF info.same_inserted_id THEN commit_id ELSE @,
                      !.inserted = Assign(info.inserted, start .. (end - 1), commit_id)]

\* VersionDeleteState::Delete converts whatever is there to a vector info.
ToVectorInfo(info) ==
    CASE info.type = "empty" -> NewVectorInfo
      [] info.type = "constant" ->
            VectorInfo(info.insert_id, TRUE, [i \in Offsets |-> info.insert_id],
                       [i \in Offsets |-> NotDeletedId], FALSE)
      [] info.type = "vector" -> info

DeleteConflict_Overwrites(info, rows) ==
    \E i \in rows : info.inserted[i] >= TransactionIdStart

\* ChunkVectorInfo::Delete throws: a row was already deleted, or was inserted
\* by a transaction that has not committed.
DeleteConflict(info, rows) ==
    \E i \in rows : info.deleted[i] # NotDeletedId \/ info.inserted[i] >= TransactionIdStart

\* any_deleted is set before the conflicts are looked for.
MarkDeleted(info) == [info EXCEPT !.any_deleted = TRUE]

\* ChunkVectorInfo::CommitDelete: commit, revert and rollback of a deletion.
CommitDeleteInfo(info, rows, id) == [info EXCEPT !.deleted = Assign(info.deleted, rows, id)]

-----------------------------------------------------------------------------
(***************************************************************************)
(* What a checkpoint writes and a restart reads (Serialize, Deserialize).  *)
(***************************************************************************)

CheckpointReader_Uncommitted ==
    [start_time |-> NotDeletedId, transaction_id |-> NotDeletedId + 1]

\* The reader that sees exactly what has committed.
CheckpointReader == [start_time |-> TransactionIdStart - 1, transaction_id |-> NotDeletedId + 1]

\* ChunkConstantInfo::Serialize and ChunkVectorInfo::Serialize: nothing, "all
\* deleted", or a flag per row; Deserialize turns it into an info again.
Reloaded(info) ==
    LET kept == GetSelVector(info, CheckpointReader, VectorSize)
        keep_all == IF info.type = "constant"
                    THEN info.insert_id < TransactionIdStart /\ info.delete_id >= TransactionIdStart
                    ELSE kept = Offsets
    IN  CASE keep_all -> EmptyInfo
          [] ~keep_all /\ (info.type = "constant" \/ kept = {}) -> ConstantInfo(0, 0)
          [] OTHER -> VectorInfo(0, TRUE, [i \in Offsets |-> 0],
                                 [i \in Offsets |-> IF i \in kept THEN NotDeletedId ELSE 0],
                                 TRUE)

=============================================================================
