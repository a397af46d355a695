--------------------------- MODULE DataTableProofs ---------------------------
(***************************************************************************)
(* Proofs about module DataTable: the shortcuts of the version information *)
(* never change what a transaction sees, rows that look committed were     *)
(* inserted by a transaction that committed, and a checkpoint of an idle   *)
(* table keeps what has been committed.  They hold for any number of       *)
(* transactions, rows and values and every size of a vector.               *)
(***************************************************************************)
EXTENDS DataTable, FiniteSetTheorems, TLAPS

(***************************************************************************)
(* The hypothesis.  A transaction that rolls back reverts its appends, and *)
(* leaves them, with its own id, when others appended behind it: the       *)
(* proofs cover that case in full (the second disjunct).  A commit that    *)
(* fails reverts its appends and its rollback reverts them again; the      *)
(* proofs cover that when nobody appends behind a commit (the first). Both *)
(* together are not covered, and CommittedRowsHaveTransaction is false of  *)
(* them: the first revert leaves the rows with the commit id of the failed *)
(* transaction (README, section 4).  For the other two properties, and for *)
(* unique indexes, TLC finds no counterexample, but the invariant below    *)
(* does not hold there.                                                    *)
(***************************************************************************)
SingleRevert == FlushCount > MaxLocal \/ (~LogFails /\ ~Unique)

(***************************************************************************)
(* Vectors and rows.                                                       *)
(***************************************************************************)
Base(v) == v * VectorSize

\* The id of the transaction that inserted row i of a vector.
IdOf(x, i) ==
    CASE x.type = "empty" -> 0
      [] x.type = "constant" -> x.insert_id
      [] x.type = "vector" -> x.inserted[i]

(***************************************************************************)
(* Undo buffers.                                                           *)
(***************************************************************************)
Ended == {"none", "committed", "aborted"}

\* The transaction holds transaction_lock.
Locking == {"commit_flush", "commit", "revert", "rollback"}

InsertEntries == [type : {"insert"}, start : Nat, count : Nat \ {0}]
DeleteEntries == [type : {"delete"}, vector : Vectors, rows : (SUBSET Offsets) \ {{}}]

End(entry) == entry.start + entry.count
RowsOf(entry) == {r \in Nat : entry.start <= r /\ r < End(entry)}
InsertIn(t, k) == k \in 1 .. Len(undo[t]) /\ undo[t][k].type = "insert"
DeleteIn(t, k) == k \in 1 .. Len(undo[t]) /\ undo[t][k].type = "delete"

\* An append whose rows are still in the table and belong to t.
LiveInsert(t, k) ==
    /\ InsertIn(t, k)
    /\ status[t] \notin Ended
    /\ status[t] = "revert" => k >= position[t]
    /\ status[t] = "rollback" => k <= position[t] /\ End(undo[t][k]) <= total_rows

\* A deletion that is not rolled back.
LiveDelete(t, k) ==
    /\ DeleteIn(t, k)
    /\ status[t] \notin Ended
    /\ status[t] = "rollback" => k <= position[t]

(***************************************************************************)
(* The inductive invariant.                                                *)
(***************************************************************************)
StateInv ==
    /\ current_start_timestamp \in Nat \ {0}
    /\ current_transaction_id \in TransactionIdStart .. (TransactionIdStart + MaxTxns)
    /\ transaction_lock \in Txns \union {NoTxn}
    /\ append_lock \in Txns \union {NoTxn}
    /\ start_time \in [Txns -> Nat]
    /\ commit_id \in [Txns -> Nat]
    /\ status \in [Txns -> Statuses]
    /\ total_rows \in Nat
    /\ local \in [Txns -> [values : Seq(Values), deleted : SUBSET Nat]]
    /\ undo \in [Txns -> Seq(InsertEntries \union DeleteEntries)]
    /\ position \in [Txns -> Nat]
    /\ last \in [Txns -> Nat]
    /\ append_start \in Nat
InfoInv == info \in [Vectors -> Infos]

\* An iteration over an undo buffer stays within it.
PositionInv == \A t \in Txns :
    /\ status[t] \in {"commit", "revert"} => position[t] >= 1
    /\ status[t] = "revert" => last[t] <= Len(undo[t])
    /\ status[t] = "rollback" => position[t] <= Len(undo[t])

\* Timestamps: who has a commit id, that nobody shares it, that a commit in progress is
\* after every snapshot, and that commit ids stay below the transaction ids.
ClockInv ==
    /\ \A t \in Txns : status[t] = "none" <=> t >= current_transaction_id
    /\ \A t \in Txns : status[t] # "none" => start_time[t] < current_start_timestamp
    /\ \A t \in Txns : transaction_lock = t <=> status[t] \in Locking
    /\ \A t \in Txns : IF status[t] \in {"commit_flush", "commit", "revert", "committed"}
                       THEN commit_id[t] \in 1 .. (current_start_timestamp - 1)
                       ELSE commit_id[t] = 0
    /\ \A t, u \in Txns : t # u /\ commit_id[t] # 0 => commit_id[t] # commit_id[u]
    /\ \A t, u \in Txns :
            status[t] \in {"commit_flush", "commit", "revert"} /\ status[u] # "none" =>
                start_time[u] < commit_id[t]

\* Every transaction begins once and commits at most once.
NotBegun == {t \in Txns : status[t] = "none"}
NotEnding == {t \in Txns : status[t] \in {"none", "active", "flush", "failed"}}
TickInv ==
    current_start_timestamp + Cardinality(NotBegun) + Cardinality(NotEnding) <= 2 * MaxTxns + 1

\* There is room in the table for what transactions keep locally.
Waiting == {p \in LocalPositions : p[1] # append_lock}
BoundInv ==
    /\ \A t \in Txns : Len(local[t].values) <= MaxLocal
    /\ total_rows + Cardinality(Waiting) <= MaxRows
    /\ total_rows <= MaxRows

\* The ids that occur in the table are commit ids of the past or transaction ids.
KnownIds == 0 .. (current_start_timestamp - 1) \union TransactionIdStart .. NotDeletedId
Known(x) ==
    /\ x.type = "constant" => x.insert_id \in KnownIds /\ x.delete_id \in KnownIds
    /\ x.type = "vector" => /\ x.insert_id \in KnownIds
                            /\ \A i \in Offsets : x.inserted[i] \in KnownIds /\ x.deleted[i] \in KnownIds
IdsInv == \A v \in Vectors : Known(info[v])

\* The vectors with rows are the ones with version information, and a constant one is
\* full.
FillInv == \A v \in Vectors :
    /\ info[v].type # "empty" <=> Base(v) < total_rows
    /\ info[v].type = "constant" => Base(v) + VectorSize <= total_rows

\* An append covers the constant vectors it has rows in.
CoversConstants(start, end) == \A v \in Vectors :
    info[v].type = "constant" /\ Base(v) < end /\ start < Base(v) + VectorSize =>
        start <= Base(v) /\ Base(v) + VectorSize <= end

\* The rows of an append carry the id of the transaction, or its commit id once CommitEntry
\* marked them.
EntryIds(t, k) ==
    IF status[t] = "commit" /\ k < position[t] THEN {commit_id[t]}
    ELSE IF status[t] = "revert" /\ k <= last[t] THEN {t, commit_id[t]}
    ELSE {t}

EntryInv == \A t \in Txns : \A k \in 1 .. Len(undo[t]) : LiveInsert(t, k) =>
    /\ End(undo[t][k]) <= total_rows
    /\ \A r \in RowsOf(undo[t][k]) : InsertedId(r) \in EntryIds(t, k)
    /\ CoversConstants(undo[t][k].start, End(undo[t][k]))

\* Appends of a transaction are in the order of its undo buffer.
OrderInv == \A t \in Txns : \A j, k \in 1 .. Len(undo[t]) :
    j < k /\ LiveInsert(t, j) /\ LiveInsert(t, k) => End(undo[t][j]) <= undo[t][k].start

\* The append in progress has the last rows of the table.
PendingInv == append_lock # NoTxn =>
    /\ status[append_lock] \in {"flush", "commit_flush"}
    /\ LocalRows(append_lock) # {}
    /\ append_start + Cardinality(LocalRows(append_lock)) = total_rows
    /\ \A r \in Nat : append_start <= r /\ r < total_rows => InsertedId(r) = append_lock
    /\ CoversConstants(append_start, total_rows)
    /\ \A k \in 1 .. Len(undo[append_lock]) : LiveInsert(append_lock, k) =>
            End(undo[append_lock][k]) <= append_start

\* A row with the id of a running transaction is in one of its appends, one that is not
\* marked yet; a row with a commit id was marked by a transaction that committed or is
\* committing.
InEntry(r, t, k) == LiveInsert(t, k) /\ r \in RowsOf(undo[t][k])
Owned(r, t) ==
    /\ status[t] # "none"
    /\ status[t] \in {"active", "flush", "commit_flush"} =>
            \/ append_lock = t /\ r >= append_start
            \/ \E k \in 1 .. Len(undo[t]) : InEntry(r, t, k)
    /\ status[t] = "commit" => \E k \in 1 .. Len(undo[t]) : k >= position[t] /\ InEntry(r, t, k)
MarkedBy(r, t) ==
    /\ commit_id[t] # 0
    /\ \/ status[t] = "committed"
       \/ status[t] = "commit" /\ \E k \in 1 .. Len(undo[t]) : k < position[t] /\ InEntry(r, t, k)
       \/ status[t] = "revert" /\ \E k \in 1 .. Len(undo[t]) : k <= last[t] /\ InEntry(r, t, k)

OwnerInv == \A r \in Nat : r < total_rows =>
    \/ InsertedId(r) \in Txns /\ Owned(r, InsertedId(r))
    \/ \E t \in Txns : InsertedId(r) = commit_id[t] /\ MarkedBy(r, t)

\* The shortcuts of a vector tell the truth, but for a commit that has marked one append of
\* the vector and not yet the next: nobody sees either.
Halfway(id, other) == \E t \in Txns :
    /\ status[t] = "commit" /\ id = commit_id[t] /\ other = t
    /\ \E k \in 1 .. Len(undo[t]) : k < position[t] /\ InsertIn(t, k)

VectorInv == \A v \in Vectors : info[v].type = "vector" =>
    /\ ~info[v].any_deleted => \A i \in Offsets : info[v].deleted[i] = NotDeletedId
    /\ info[v].same_inserted_id => \A i \in Offsets : Base(v) + i < total_rows =>
            \/ info[v].inserted[i] = info[v].insert_id
            \/ Halfway(info[v].insert_id, info[v].inserted[i])

\* What is deleted is in the table and was inserted by a transaction that committed, so that
\* no revert of an append takes it away.
DeleteInv == \A t \in Txns : \A k \in 1 .. Len(undo[t]) : LiveDelete(t, k) =>
    LET v == undo[t][k].vector
    IN  /\ info[v].type = "vector" /\ info[v].any_deleted
        /\ \A i \in undo[t][k].rows :
              /\ Base(v) + i < total_rows
              /\ \E y \in Txns : status[y] = "committed" /\ info[v].inserted[i] = commit_id[y]

\* The two cases of SingleRevert: nobody but the committing transaction appends, once, or
\* no commit fails.
OneAppend(t) ==
    /\ status[t] # "flush"
    /\ status[t] \in {"active", "failed", "commit_flush"} => \A k \in 1 .. Len(undo[t]) : ~InsertIn(t, k)
    /\ status[t] \notin Ended => \A k \in 1 .. Len(undo[t]) : InsertIn(t, k) => k = Len(undo[t])
    /\ status[t] \in {"commit", "revert"} =>
          \A k \in 1 .. Len(undo[t]) : LiveInsert(t, k) => End(undo[t][k]) = total_rows
    /\ status[t] = "revert" =>
          \A k \in 1 .. Len(undo[t]) : InsertIn(t, k) /\ k < position[t] => undo[t][k].start = total_rows

NoRevert(t) ==
    /\ status[t] # "revert"
    /\ status[t] = "rollback" =>
          \A k \in 1 .. Len(undo[t]) : InsertIn(t, k) /\ k <= position[t] => End(undo[t][k]) <= total_rows

FlushOf(t) ==
    /\ status[t] = "none" => undo[t] = << >>
    /\ IF FlushCount > MaxLocal THEN OneAppend(t) ELSE NoRevert(t)
FlushInv == \A t \in Txns : FlushOf(t)

\* The parts about types, clocks and bounds, and the parts about the table.
BasicInv ==
    /\ StateInv /\ InfoInv /\ PositionInv /\ ClockInv /\ TickInv /\ BoundInv /\ IdsInv /\ FlushInv
TableInv ==
    /\ FillInv /\ EntryInv /\ OrderInv /\ PendingInv /\ OwnerInv /\ VectorInv /\ DeleteInv
Inv == BasicInv /\ TableInv

-----------------------------------------------------------------------------
(***************************************************************************)
(* Rows, vectors and offsets.                                              *)
(***************************************************************************)

\* Every row has a place in a vector.
LEMMA RowPlace ==
    ASSUME NEW r \in Nat
    PROVE  /\ VectorOf(r) \in Nat /\ Base(VectorOf(r)) \in Nat
           /\ OffsetOf(r) \in Offsets
           /\ r = Base(VectorOf(r)) + OffsetOf(r)
  BY ChunkInfoAssumption DEF VectorOf, OffsetOf, Offsets, Base

LEMMA BaseMonotone ==
    ASSUME NEW v \in Nat, NEW w \in Nat, v < w
    PROVE  Base(v) + VectorSize <= Base(w)
<1>1. PICK d \in Nat : w = v + 1 + d
    <2>1. w - v - 1 \in Nat
        OBVIOUS
    <2> QED BY <2>1
<1>2. w * VectorSize = v * VectorSize + VectorSize + d * VectorSize
    BY ChunkInfoAssumption, <1>1
<1>3. d * VectorSize \in Nat /\ v * VectorSize \in Nat /\ w * VectorSize \in Nat
    BY ChunkInfoAssumption
<1> QED
    BY <1>2, <1>3, ChunkInfoAssumption DEF Base

\* The place of a row is unique.
LEMMA PlaceUnique ==
    ASSUME NEW v \in Nat, NEW i \in Offsets
    PROVE  /\ Base(v) \in Nat /\ Base(v) + i \in Nat
           /\ VectorOf(Base(v) + i) = v
           /\ OffsetOf(Base(v) + i) = i
<1>1. Base(v) \in Nat /\ Base(v) + i \in Nat
    BY ChunkInfoAssumption DEF Offsets, Base
<1> DEFINE w == VectorOf(Base(v) + i)
           p == OffsetOf(Base(v) + i)
<1>2. w \in Nat /\ Base(w) \in Nat /\ p \in Offsets /\ Base(v) + i = Base(w) + p
    BY <1>1, RowPlace
<1> HIDE DEF w, p
<1>3. ~(v < w)
    BY <1>1, <1>2, BaseMonotone, ChunkInfoAssumption DEF Offsets
<1>4. ~(w < v)
    BY <1>1, <1>2, BaseMonotone, ChunkInfoAssumption DEF Offsets
<1>5. w = v
    BY <1>2, <1>3, <1>4
<1>6. p = i
    BY <1>1, <1>2, <1>5, ChunkInfoAssumption DEF Offsets
<1> QED
    BY <1>1, <1>5, <1>6 DEF w, p

LEMMA VectorsAreNat ==
    /\ \A v \in Vectors : v \in Nat /\ Base(v) \in Nat
    /\ \A r \in Rows : r \in Nat /\ VectorOf(r) \in Vectors
<1>1. \A r \in Rows : r \in Nat
    BY DataTableAssumption DEF Rows
<1>2. \A r \in Rows : VectorOf(r) \in Vectors
    BY DEF Vectors
<1>3. ASSUME NEW v \in Vectors
      PROVE  v \in Nat /\ Base(v) \in Nat
    BY <1>1, RowPlace DEF Vectors
<1> QED
    BY <1>1, <1>2, <1>3

\* The vectors and offsets of an append are those of its rows.
LEMMA Geometry ==
    ASSUME NEW start \in Nat, NEW end \in Nat, start < end, NEW v \in Nat
    PROVE  /\ v \in VectorsBetween(start, end) <=> Base(v) < end /\ start < Base(v) + VectorSize
           /\ v \in VectorsBetween(start, end) =>
                /\ FirstOffset(v, start) \in Offsets
                /\ EndOffset(v, end) \in 1 .. VectorSize
                /\ FirstOffset(v, start) < EndOffset(v, end)
                /\ FirstOffset(v, start) = 0 <=> start <= Base(v)
                /\ EndOffset(v, end) = VectorSize <=> Base(v) + VectorSize <= end
                /\ \A i \in Offsets : i \in FirstOffset(v, start) .. (EndOffset(v, end) - 1) <=>
                                        start <= Base(v) + i /\ Base(v) + i < end
<1> DEFINE s == VectorOf(start)
           p == OffsetOf(start)
           e == VectorOf(end - 1)
           q == OffsetOf(end - 1)
<1>1. s \in Nat /\ Base(s) \in Nat /\ p \in Offsets /\ start = Base(s) + p
    BY RowPlace
<1>2. e \in Nat /\ Base(e) \in Nat /\ q \in Offsets /\ end - 1 = Base(e) + q
    <2>1. end - 1 \in Nat
        OBVIOUS
    <2> QED BY <2>1, RowPlace
<1>3. Base(v) \in Nat
    BY ChunkInfoAssumption DEF Base
<1>4. VectorsBetween(start, end) = s .. e
    BY DEF VectorsBetween
<1>5. FirstOffset(v, start) = IF s = v THEN p ELSE 0
    BY DEF FirstOffset
<1>6. EndOffset(v, end) = IF e = v THEN q + 1 ELSE VectorSize
    BY DEF EndOffset
<1> HIDE DEF s, p, e, q
<1>7. /\ s < v => Base(s) + VectorSize <= Base(v)
      /\ v < s => Base(v) + VectorSize <= Base(s)
      /\ e < v => Base(e) + VectorSize <= Base(v)
      /\ v < e => Base(v) + VectorSize <= Base(e)
    BY <1>1, <1>2, BaseMonotone
<1>8. v \in VectorsBetween(start, end) <=> Base(v) < end /\ start < Base(v) + VectorSize
    <2>1. s <= v <=> start < Base(v) + VectorSize
        BY <1>1, <1>3, <1>7, ChunkInfoAssumption DEF Offsets
    <2>2. v <= e <=> Base(v) < end
        <3>1. CASE v < e
            BY <3>1, <1>2, <1>3, <1>7, ChunkInfoAssumption DEF Offsets
        <3>2. CASE v = e
            BY <3>2, <1>2, <1>3, ChunkInfoAssumption DEF Offsets
        <3>3. CASE e < v
            BY <3>3, <1>2, <1>3, <1>7, ChunkInfoAssumption DEF Offsets
        <3> QED BY <1>2, <3>1, <3>2, <3>3
    <2> QED BY <1>1, <1>2, <1>4, <2>1, <2>2
<1>9. ASSUME v \in VectorsBetween(start, end)
      PROVE  /\ FirstOffset(v, start) \in Offsets
             /\ EndOffset(v, end) \in 1 .. VectorSize
             /\ FirstOffset(v, start) < EndOffset(v, end)
             /\ FirstOffset(v, start) = 0 <=> start <= Base(v)
             /\ EndOffset(v, end) = VectorSize <=> Base(v) + VectorSize <= end
             /\ \A i \in Offsets : i \in FirstOffset(v, start) .. (EndOffset(v, end) - 1) <=>
                                     start <= Base(v) + i /\ Base(v) + i < end
    <2>1. s <= v /\ v <= e
        BY <1>1, <1>2, <1>4, <1>9
    <2>2. FirstOffset(v, start) \in Offsets /\ EndOffset(v, end) \in 1 .. VectorSize
        BY <1>1, <1>2, <1>5, <1>6, ChunkInfoAssumption DEF Offsets
    <2>3. FirstOffset(v, start) = 0 <=> start <= Base(v)
        BY <1>1, <1>3, <1>5, <1>7, <2>1, ChunkInfoAssumption DEF Offsets
    <2>4. EndOffset(v, end) = VectorSize <=> Base(v) + VectorSize <= end
        BY <1>2, <1>3, <1>6, <1>7, <2>1, ChunkInfoAssumption DEF Offsets
    <2>5. FirstOffset(v, start) < EndOffset(v, end)
        <3>1. CASE s = v /\ e = v
            BY <3>1, <1>1, <1>2, <1>5, <1>6 DEF Offsets
        <3>2. CASE s # v
            BY <3>2, <2>2, <1>5
        <3>3. CASE s = v /\ e # v
            BY <3>3, <2>2, <1>1, <1>5, <1>6, ChunkInfoAssumption DEF Offsets
        <3> QED BY <3>1, <3>2, <3>3
    <2>6. ASSUME NEW i \in Offsets
          PROVE  i \in FirstOffset(v, start) .. (EndOffset(v, end) - 1) <=>
                    start <= Base(v) + i /\ Base(v) + i < end
        <3>1. FirstOffset(v, start) <= i <=> start <= Base(v) + i
            BY <1>1, <1>3, <1>5, <1>7, <2>1, ChunkInfoAssumption DEF Offsets
        <3>2. i <= EndOffset(v, end) - 1 <=> Base(v) + i < end
            BY <1>2, <1>3, <1>6, <1>7, <2>1, ChunkInfoAssumption DEF Offsets
        <3> QED BY <3>1, <3>2, <2>2, ChunkInfoAssumption DEF Offsets
    <2> QED BY <2>2, <2>3, <2>4, <2>5, <2>6
<1> QED
    BY <1>8, <1>9

-----------------------------------------------------------------------------
(***************************************************************************)
(* The version information of a vector.                                    *)
(***************************************************************************)

\* What an info consists of.
LEMMA InfoFields ==
    ASSUME NEW x \in Infos
    PROVE  /\ x.type \in {"empty", "constant", "vector"}
           /\ x.type = "empty" => x = EmptyInfo
           /\ x.type = "constant" => /\ x \in ConstantInfos
                                     /\ x = ConstantInfo(x.insert_id, x.delete_id)
                                     /\ x.insert_id \in Ids /\ x.delete_id \in Ids
           /\ x.type = "vector" => /\ x \in VectorInfos
                                   /\ x.insert_id \in Ids
                                   /\ x.same_inserted_id \in BOOLEAN /\ x.any_deleted \in BOOLEAN
                                   /\ x.inserted \in [Offsets -> Ids]
                                   /\ x.deleted \in [Offsets -> Ids]
<1>1. CASE x = EmptyInfo
    BY <1>1 DEF EmptyInfo
<1>2. CASE x \in ConstantInfos
    BY <1>2 DEF ConstantInfos, ConstantInfo
<1>3. CASE x \in VectorInfos
    BY <1>3 DEF VectorInfos
<1> QED
    BY <1>1, <1>2, <1>3 DEF Infos

LEMMA ConstantFields ==
    ASSUME NEW a \in Ids, NEW b \in Ids
    PROVE  LET x == ConstantInfo(a, b)
           IN  x \in Infos /\ x.type = "constant" /\ x.insert_id = a /\ x.delete_id = b
  BY DEF Infos, ConstantInfos, ConstantInfo

LEMMA VectorFields ==
    ASSUME NEW id \in Ids, NEW same \in BOOLEAN, NEW f \in [Offsets -> Ids],
           NEW g \in [Offsets -> Ids], NEW any \in BOOLEAN
    PROVE  LET x == VectorInfo(id, same, f, g, any)
           IN  /\ x \in Infos /\ x.type = "vector" /\ x.insert_id = id
               /\ x.same_inserted_id = same /\ x.inserted = f /\ x.deleted = g
               /\ x.any_deleted = any
  BY DEF Infos, VectorInfos, VectorInfo

LEMMA EmptyFields == EmptyInfo \in Infos /\ EmptyInfo.type = "empty"
  BY DEF Infos, EmptyInfo

LEMMA IdFacts ==
    /\ 0 \in Ids /\ NotDeletedId \in Ids
    /\ \A t \in Txns : t \in Nat /\ t \in Ids /\ t >= TransactionIdStart /\ t < NotDeletedId /\ t # NoTxn
  BY ChunkInfoAssumption, DataTableAssumption DEF Ids, Txns

LEMMA AssignFacts ==
    ASSUME NEW f \in [Offsets -> Ids], NEW rows, NEW id \in Ids
    PROVE  /\ Assign(f, rows, id) \in [Offsets -> Ids]
           /\ \A i \in Offsets : Assign(f, rows, id)[i] = IF i \in rows THEN id ELSE f[i]
  BY DEF Assign

LEMMA NewVectorFields ==
    /\ NewVectorInfo \in Infos /\ NewVectorInfo.type = "vector" /\ NewVectorInfo.insert_id = 0
    /\ NewVectorInfo.same_inserted_id = TRUE /\ NewVectorInfo.any_deleted = FALSE
    /\ NewVectorInfo.inserted = [i \in Offsets |-> 0]
    /\ NewVectorInfo.deleted = [i \in Offsets |-> NotDeletedId]
<1> DEFINE f == [i \in Offsets |-> 0]
           g == [i \in Offsets |-> NotDeletedId]
<1>1. f \in [Offsets -> Ids] /\ g \in [Offsets -> Ids]
    BY IdFacts
<1>2. NewVectorInfo = VectorInfo(0, TRUE, f, g, FALSE)
    BY DEF NewVectorInfo
<1> HIDE DEF f, g
<1> DEFINE y == VectorInfo(0, TRUE, f, g, FALSE)
<1>3. /\ y \in Infos /\ y.type = "vector" /\ y.insert_id = 0 /\ y.same_inserted_id = TRUE
      /\ y.inserted = f /\ y.deleted = g /\ y.any_deleted = FALSE
    BY <1>1, IdFacts DEF Infos, VectorInfos, VectorInfo
<1> HIDE DEF y
<1>4. NewVectorInfo = y
    BY <1>2 DEF y
<1> QED
    BY <1>3, <1>4 DEF f, g

\* ToVectorInfo keeps what readers see and marks nothing as deleted.
LEMMA ToVectorFields ==
    ASSUME NEW x \in Infos
    PROVE  LET y == ToVectorInfo(x)
           IN  /\ y \in Infos /\ y.type = "vector"
               /\ x.type = "vector" => y = x
               /\ x.type # "vector" => y.same_inserted_id /\ ~y.any_deleted
               /\ x.type # "vector" => \A i \in Offsets : y.deleted[i] = NotDeletedId
               /\ x.type = "constant" => y.insert_id = x.insert_id
               /\ \A i \in Offsets : y.inserted[i] = IdOf(x, i)
<1>1. CASE x.type = "empty"
    <2>1. ToVectorInfo(x) = NewVectorInfo
        BY <1>1 DEF ToVectorInfo
    <2> QED BY <1>1, <2>1, NewVectorFields DEF IdOf
<1>2. CASE x.type = "constant"
    <2> DEFINE id == x.insert_id
               f == [i \in Offsets |-> id]
               g == [i \in Offsets |-> NotDeletedId]
               y == VectorInfo(id, TRUE, f, g, FALSE)
    <2>1. ToVectorInfo(x) = y
        BY <1>2 DEF ToVectorInfo
    <2>2. id \in Ids
        BY <1>2, InfoFields
    <2>3. f \in [Offsets -> Ids] /\ g \in [Offsets -> Ids]
        BY <2>2, IdFacts
    <2> HIDE DEF f, g, id
    <2>4. /\ y \in Infos /\ y.type = "vector" /\ y.insert_id = id /\ y.same_inserted_id = TRUE
          /\ y.inserted = f /\ y.deleted = g /\ y.any_deleted = FALSE
        BY <2>2, <2>3 DEF Infos, VectorInfos, VectorInfo
    <2> HIDE DEF y
    <2>5. /\ y.insert_id = x.insert_id
          /\ \A i \in Offsets : y.inserted[i] = IdOf(x, i) /\ y.deleted[i] = NotDeletedId
        BY <1>2, <2>4 DEF IdOf, f, g, id
    <2>6. ToVectorInfo(x) = y
        BY <2>1 DEF y
    <2> QED BY <1>2, <2>4, <2>5, <2>6
<1>3. CASE x.type = "vector"
    <2>1. ToVectorInfo(x) = x
        BY <1>3 DEF ToVectorInfo
    <2>2. \A i \in Offsets : x.inserted[i] = IdOf(x, i)
        BY <1>3 DEF IdOf
    <2> QED BY <1>3, <2>1, <2>2
<1> QED
    BY <1>1, <1>2, <1>3, InfoFields

\* CommitDeleteInfo changes what is deleted only.
LEMMA CommitDeleteFields ==
    ASSUME NEW x \in Infos, x.type = "vector", NEW rows, NEW id \in Ids
    PROVE  LET y == CommitDeleteInfo(x, rows, id)
           IN  /\ y \in Infos /\ y.type = "vector" /\ y.insert_id = x.insert_id
               /\ y.same_inserted_id = x.same_inserted_id /\ y.any_deleted = x.any_deleted
               /\ y.inserted = x.inserted
               /\ \A i \in Offsets : y.deleted[i] = IF i \in rows THEN id ELSE x.deleted[i]
<1>1. x \in VectorInfos /\ x.deleted \in [Offsets -> Ids]
    BY InfoFields
<1>2. /\ Assign(x.deleted, rows, id) \in [Offsets -> Ids]
      /\ \A i \in Offsets : Assign(x.deleted, rows, id)[i] = IF i \in rows THEN id ELSE x.deleted[i]
    BY <1>1, AssignFacts
<1> DEFINE g == Assign(x.deleted, rows, id)
           y == [x EXCEPT !.deleted = g]
<1>3. g \in [Offsets -> Ids]
    BY <1>2
<1> HIDE DEF g
<1>4. /\ y \in VectorInfos /\ y.type = "vector" /\ y.insert_id = x.insert_id
      /\ y.same_inserted_id = x.same_inserted_id /\ y.any_deleted = x.any_deleted
      /\ y.inserted = x.inserted /\ y.deleted = g
    BY <1>1, <1>3 DEF VectorInfos
<1>5. CommitDeleteInfo(x, rows, id) = y
    BY DEF CommitDeleteInfo, g
<1> HIDE DEF y
<1> QED
    BY <1>2, <1>4, <1>5 DEF Infos, g

LEMMA MarkDeletedFields ==
    ASSUME NEW x \in Infos, x.type = "vector"
    PROVE  LET y == MarkDeleted(x)
           IN  /\ y \in Infos /\ y.type = "vector" /\ y.insert_id = x.insert_id
               /\ y.same_inserted_id = x.same_inserted_id /\ y.any_deleted = TRUE
               /\ y.inserted = x.inserted /\ y.deleted = x.deleted
<1>1. x \in VectorInfos
    BY InfoFields
<1>2. /\ MarkDeleted(x) \in VectorInfos /\ MarkDeleted(x).type = "vector"
      /\ MarkDeleted(x).insert_id = x.insert_id
      /\ MarkDeleted(x).same_inserted_id = x.same_inserted_id /\ MarkDeleted(x).any_deleted = TRUE
      /\ MarkDeleted(x).inserted = x.inserted /\ MarkDeleted(x).deleted = x.deleted
    BY <1>1 DEF VectorInfos, MarkDeleted
<1> QED
    BY <1>2 DEF Infos

\* AppendInfo marks the new rows; a vector it covers becomes a constant.
LEMMA AppendFields ==
    ASSUME NEW x \in Infos, NEW a \in Offsets, NEW b \in 1 .. VectorSize, a < b, NEW id \in Ids,
           x.type = "constant" => a = 0 /\ b = VectorSize
    PROVE  LET y == AppendInfo(x, a, b, id)
               new == a .. (b - 1)
           IN  /\ y \in Infos /\ y.type # "empty"
               /\ y.type = "constant" <=> a = 0 /\ b = VectorSize
               /\ y.type = "constant" => y = ConstantInfo(id, NotDeletedId)
               /\ \A i \in Offsets : IdOf(y, i) = IF i \in new THEN id ELSE IdOf(x, i)
               /\ y.type = "vector" =>
                    /\ y.any_deleted <=> (x.type = "vector" /\ x.any_deleted)
                    /\ \A i \in Offsets : y.deleted[i] = IF x.type = "vector" THEN x.deleted[i]
                                                         ELSE NotDeletedId
                    /\ y.insert_id \in {id, NotDeletedId}
                    /\ y.same_inserted_id =>
                         /\ y.insert_id = id
                         /\ a = 0 \/ (IF x.type = "vector" THEN x.same_inserted_id /\ x.insert_id = id
                                      ELSE id = 0)
<1>1. CASE a = 0 /\ b = VectorSize
    <2>1. AppendInfo(x, a, b, id) = ConstantInfo(id, NotDeletedId)
        BY <1>1 DEF AppendInfo
    <2> DEFINE y == ConstantInfo(id, NotDeletedId)
    <2>2. y \in Infos /\ y.type = "constant" /\ y.insert_id = id
        BY ConstantFields, IdFacts
    <2>3. \A i \in Offsets : i \in a .. (b - 1)
        BY <1>1 DEF Offsets
    <2>4. \A i \in Offsets : IdOf(y, i) = id
        <3> HIDE DEF y
        <3> QED BY <2>2 DEF IdOf
    <2> QED BY <1>1, <2>1, <2>2, <2>3, <2>4
<1>2. CASE ~(a = 0 /\ b = VectorSize)
    <2> DEFINE w == IF x.type = "empty" THEN NewVectorInfo ELSE x
    <2>1. /\ w \in Infos /\ w.type = "vector"
          /\ x.type = "vector" => w = x
          /\ x.type # "vector" => /\ w.same_inserted_id = TRUE /\ w.any_deleted = FALSE /\ w.insert_id = 0
                                  /\ \A i \in Offsets : w.deleted[i] = NotDeletedId
          /\ \A i \in Offsets : w.inserted[i] = IdOf(x, i)
        <3>1. CASE x.type = "empty"
            BY <3>1, NewVectorFields DEF IdOf
        <3>2. CASE x.type = "vector"
            BY <3>2 DEF IdOf
        <3> QED BY <3>1, <3>2, <1>2, InfoFields
    <2>2. AppendInfo(x, a, b, id) = AppendToVector(w, a, b, id)
        BY <1>2 DEF AppendInfo
    <2> HIDE DEF w
    <2>3. /\ w \in VectorInfos /\ w.inserted \in [Offsets -> Ids] /\ w.insert_id \in Ids
          /\ w.same_inserted_id \in BOOLEAN
        BY <2>1, InfoFields
    <2> DEFINE f == Assign(w.inserted, a .. (b - 1), id)
               first == IF a = 0 \/ w.insert_id = id THEN id ELSE NotDeletedId
               same == KeepsSameId(w, a, id)
               y == [w EXCEPT !.insert_id = first, !.same_inserted_id = same, !.inserted = f]
    <2>4. f \in [Offsets -> Ids] /\ \A i \in Offsets : f[i] = IF i \in a .. (b - 1) THEN id ELSE w.inserted[i]
        BY <2>3 DEF Assign
    <2>5. first \in Ids /\ same \in BOOLEAN
        BY <2>3, IdFacts DEF KeepsSameId
    <2>6. same <=> w.same_inserted_id /\ (a = 0 \/ w.insert_id = id)
        BY DEF KeepsSameId
    <2>7. AppendToVector(w, a, b, id) = y
        BY DEF AppendToVector
    <2>8. first \in {id, NotDeletedId} /\ (same => first = id)
        BY <2>6
    <2> HIDE DEF f, first, same
    <2>9. /\ y \in VectorInfos /\ y.type = "vector" /\ y.insert_id = first /\ y.same_inserted_id = same
          /\ y.inserted = f /\ y.deleted = w.deleted /\ y.any_deleted = w.any_deleted
        BY <2>3, <2>4, <2>5 DEF VectorInfos
    <2> HIDE DEF y
    <2>10. \A i \in Offsets : IdOf(y, i) = IF i \in a .. (b - 1) THEN id ELSE IdOf(x, i)
        BY <2>1, <2>4, <2>9 DEF IdOf
    <2>11. AppendInfo(x, a, b, id) = y
        BY <2>2, <2>7
    <2>12. y \in Infos /\ y.type # "empty" /\ y.type # "constant"
        BY <2>9 DEF Infos
    <2>13. /\ y.any_deleted <=> (x.type = "vector" /\ x.any_deleted)
           /\ \A i \in Offsets : y.deleted[i] = IF x.type = "vector" THEN x.deleted[i] ELSE NotDeletedId
        BY <2>1, <2>9
    <2>14. y.same_inserted_id =>
                /\ y.insert_id = id
                /\ a = 0 \/ (IF x.type = "vector" THEN x.same_inserted_id /\ x.insert_id = id ELSE id = 0)
        BY <2>1, <2>6, <2>8, <2>9
    <2> QED BY <1>2, <2>8, <2>9, <2>10, <2>11, <2>12, <2>13, <2>14
<1> QED
    BY <1>1, <1>2

\* CommitAppendInfo marks the rows; of a constant, all.
LEMMA CommitAppendFields ==
    ASSUME NEW x \in Infos, x.type # "empty", NEW a \in Offsets, NEW b \in 1 .. VectorSize,
           NEW id \in Ids
    PROVE  LET y == CommitAppendInfo(x, a, b, id)
           IN  /\ y \in Infos /\ y.type = x.type
               /\ x.type = "constant" => y = ConstantInfo(id, x.delete_id)
               /\ x.type = "vector" =>
                    /\ \A i \in Offsets : y.inserted[i] = IF i \in a .. (b - 1) THEN id ELSE x.inserted[i]
                    /\ y.insert_id = IF x.same_inserted_id THEN id ELSE x.insert_id
                    /\ y.same_inserted_id = x.same_inserted_id /\ y.any_deleted = x.any_deleted
                    /\ y.deleted = x.deleted
<1>1. CASE x.type = "constant"
    <2>1. x \in ConstantInfos /\ x = ConstantInfo(x.insert_id, x.delete_id) /\ x.delete_id \in Ids
        BY <1>1, InfoFields
    <2>2. CommitAppendInfo(x, a, b, id) = [x EXCEPT !.insert_id = id]
        BY <1>1 DEF CommitAppendInfo
    <2>3. [x EXCEPT !.insert_id = id] = ConstantInfo(id, x.delete_id)
        BY <2>1 DEF ConstantInfo, ConstantInfos
    <2> QED BY <1>1, <2>1, <2>2, <2>3, ConstantFields
<1>2. CASE x.type = "vector"
    <2>1. /\ x \in VectorInfos /\ x.inserted \in [Offsets -> Ids] /\ x.insert_id \in Ids
        BY <1>2, InfoFields
    <2> DEFINE f == Assign(x.inserted, a .. (b - 1), id)
               first == IF x.same_inserted_id THEN id ELSE x.insert_id
               y == [x EXCEPT !.insert_id = first, !.inserted = f]
    <2>2. f \in [Offsets -> Ids] /\ \A i \in Offsets : f[i] = IF i \in a .. (b - 1) THEN id ELSE x.inserted[i]
        BY <2>1 DEF Assign
    <2>3. first \in Ids
        BY <2>1
    <2>4. CommitAppendInfo(x, a, b, id) = y
        BY <1>2 DEF CommitAppendInfo
    <2> HIDE DEF f
    <2>5. /\ y \in VectorInfos /\ y.type = "vector" /\ y.insert_id = first
          /\ y.same_inserted_id = x.same_inserted_id
          /\ y.inserted = f /\ y.deleted = x.deleted /\ y.any_deleted = x.any_deleted
        <3> HIDE DEF first
        <3> QED BY <2>1, <2>2, <2>3 DEF VectorInfos
    <2> HIDE DEF y
    <2> QED BY <1>2, <2>2, <2>4, <2>5 DEF Infos
<1> QED
    BY <1>1, <1>2, InfoFields

-----------------------------------------------------------------------------
(***************************************************************************)
(* Types.                                                                  *)
(***************************************************************************)

LEMMA TxnFacts ==
    ASSUME NEW t \in Txns
    PROVE  t \in Nat /\ t \in Ids /\ t >= TransactionIdStart /\ t < NotDeletedId /\ t # NoTxn
  BY IdFacts

\* The rows a transaction flushes are the live ones of its local collection.
LEMMA FlushLength ==
    ASSUME StateInv, NEW t \in Txns
    PROVE  /\ IsFiniteSet(LocalRows(t)) /\ Cardinality(LocalRows(t)) \in Nat
           /\ Cardinality(LocalRows(t)) <= Len(local[t].values)
           /\ Len(ToFlush(t)) = Cardinality(LocalRows(t))
           /\ ToFlush(t) = << >> <=> LocalRows(t) = {}
           /\ LocalRows(t) # {} => Cardinality(LocalRows(t)) > 0
<1>1. local[t].values \in Seq(Values) /\ Len(local[t].values) \in Nat
    BY DEF StateInv
<1>2. LocalRows(t) \in SUBSET (1 .. Len(local[t].values))
    BY DEF LocalRows
<1>3. IsFiniteSet(1 .. Len(local[t].values)) /\ Cardinality(1 .. Len(local[t].values)) = Len(local[t].values)
    BY <1>1, FS_Interval
<1>4. IsFiniteSet(LocalRows(t)) /\ Cardinality(LocalRows(t)) <= Len(local[t].values)
    BY <1>2, <1>3, FS_Subset
<1>5. Cardinality(LocalRows(t)) \in Nat
    BY <1>4, FS_CardinalityType
<1>6. Cardinality(LocalRows(t)) = 0 <=> LocalRows(t) = {}
    BY <1>4, FS_EmptySet
<1> DEFINE n == Cardinality(LocalRows(t))
           e(i) == local[t].values[SetToSortSeq(LocalRows(t), <)[i]]
           S == {e(i) : i \in 1 .. n}
<1>7. ToFlush(t) = [i \in 1 .. n |-> e(i)]
    BY DEF ToFlush
<1> HIDE DEF n, e
<1>8. n \in Nat
    BY <1>5 DEF n
<1>9. [i \in 1 .. n |-> e(i)] \in Seq(S) /\ Len([i \in 1 .. n |-> e(i)]) = n
    BY <1>8
<1>10. ToFlush(t) \in Seq(S) /\ Len(ToFlush(t)) = n
    BY <1>7, <1>9
<1>11. ToFlush(t) = << >> <=> n = 0
    BY <1>8, <1>10
<1> QED
    BY <1>4, <1>5, <1>6, <1>10, <1>11 DEF n

LEMMA EntryTypes ==
    ASSUME StateInv, NEW t \in Txns, NEW k \in 1 .. Len(undo[t])
    PROVE  /\ Len(undo[t]) \in Nat /\ k \in Nat
           /\ undo[t][k] \in InsertEntries \union DeleteEntries
           /\ InsertIn(t, k) => /\ undo[t][k] \in InsertEntries
                                /\ undo[t][k].start \in Nat
                                /\ undo[t][k].count \in Nat /\ undo[t][k].count > 0
                                /\ End(undo[t][k]) \in Nat /\ undo[t][k].start < End(undo[t][k])
           /\ DeleteIn(t, k) => /\ undo[t][k].vector \in Vectors
                                /\ undo[t][k].rows \in SUBSET Offsets /\ undo[t][k].rows # {}
           /\ InsertIn(t, k) \/ DeleteIn(t, k)
           /\ ~(InsertIn(t, k) /\ DeleteIn(t, k))
<1>1. undo[t] \in Seq(InsertEntries \union DeleteEntries)
    BY DEF StateInv
<1>2. Len(undo[t]) \in Nat /\ undo[t][k] \in InsertEntries \union DeleteEntries
    BY <1>1
<1>3. CASE undo[t][k] \in InsertEntries
    BY <1>2, <1>3 DEF InsertIn, DeleteIn, End, InsertEntries
<1>4. CASE undo[t][k] \in DeleteEntries
    BY <1>2, <1>4 DEF InsertIn, DeleteIn, DeleteEntries
<1> QED
    BY <1>2, <1>3, <1>4

\* Every variable but info keeps its type.
LEMMA StateStep ==
    ASSUME StateInv, PendingInv, PositionInv, NEW t \in Txns, Step(t)
    PROVE  StateInv'
<1>0. t \in Nat /\ t \in Ids /\ t >= TransactionIdStart /\ t < NotDeletedId /\ t # NoTxn
    BY TxnFacts
<1>a. /\ status \in [Txns -> Statuses] /\ position \in [Txns -> Nat] /\ last \in [Txns -> Nat]
      /\ local \in [Txns -> [values : Seq(Values), deleted : SUBSET Nat]]
      /\ undo \in [Txns -> Seq(InsertEntries \union DeleteEntries)]
      /\ start_time \in [Txns -> Nat] /\ commit_id \in [Txns -> Nat]
      /\ total_rows \in Nat /\ append_start \in Nat /\ current_start_timestamp \in Nat \ {0}
    BY DEF StateInv
<1>g. undo[t] \in Seq(InsertEntries \union DeleteEntries) /\ Len(undo[t]) \in Nat
      /\ local[t] \in [values : Seq(Values), deleted : SUBSET Nat]
    BY <1>a
\* What the actions assign.
<1>b. \A s \in Statuses : [status EXCEPT ![t] = s] \in [Txns -> Statuses]
    BY <1>a
<1>c. \A n \in Nat : [position EXCEPT ![t] = n] \in [Txns -> Nat] /\ [last EXCEPT ![t] = n] \in [Txns -> Nat]
                     /\ [start_time EXCEPT ![t] = n] \in [Txns -> Nat]
                     /\ [commit_id EXCEPT ![t] = n] \in [Txns -> Nat]
    BY <1>a
<1>d. \A e \in InsertEntries \union DeleteEntries :
        [undo EXCEPT ![t] = Append(@, e)] \in [Txns -> Seq(InsertEntries \union DeleteEntries)]
    BY <1>a
<1>e. [local EXCEPT ![t] = NoLocal] \in [Txns -> [values : Seq(Values), deleted : SUBSET Nat]]
    <2>1. NoLocal \in [values : Seq(Values), deleted : SUBSET Nat]
        BY DEF NoLocal
    <2> QED BY <1>a, <2>1
<1>f. ASSUME NEW k \in Nat, NEW undone, undone = undo[t][k], k \in 1 .. Len(undo[t]),
             undone.type = "insert", RevertAppend(undone)
      PROVE  total_rows' \in Nat
    <2>1. undone.start \in Nat
        BY <1>f, EntryTypes DEF InsertIn
    <2> QED BY <1>a, <1>f, <2>1 DEF RevertAppend, RevertAppendInternal
<1>1. CASE StartTransaction(t)
    <2>1. current_transaction_id' \in TransactionIdStart .. (TransactionIdStart + MaxTxns)
        BY <1>1, <1>0, DataTableAssumption, ChunkInfoAssumption DEF StartTransaction, Txns
    <2>2. status' \in [Txns -> Statuses] /\ start_time' \in [Txns -> Nat]
        BY <1>1, <1>a, <1>b, <1>c DEF StartTransaction, Statuses
    <2>3. current_start_timestamp' \in Nat \ {0}
        BY <1>1, <1>a DEF StartTransaction
    <2> QED BY <1>1, <2>1, <2>2, <2>3 DEF StartTransaction, table, progress, StateInv
<1>2. ASSUME NEW v \in Values, Insert(t, v)
      PROVE  StateInv'
    <2>1. status' \in [Txns -> Statuses]
        BY <1>2, <1>b DEF Insert, Statuses
    <2>2. local' \in [Txns -> [values : Seq(Values), deleted : SUBSET Nat]]
        <3> DEFINE longer == Append(local[t].values, v)
                   new == [local[t] EXCEPT !.values = longer]
        <3>0. longer \in Seq(Values)
            BY <1>g
        <3>1. new \in [values : Seq(Values), deleted : SUBSET Nat]
            <4> HIDE DEF longer
            <4> QED BY <1>g, <3>0
        <3>2. local' = [local EXCEPT ![t] = new]
            BY <1>2 DEF Insert
        <3> HIDE DEF new
        <3> QED BY <1>a, <3>1, <3>2
    <2> QED BY <1>2, <2>1, <2>2 DEF Insert, manager, table, progress, StateInv
<1>20. ASSUME NEW v \in Values, InsertFails(t, v)
       PROVE  StateInv'
    <2>1. status' \in [Txns -> Statuses]
        BY <1>20, <1>b DEF InsertFails, Statuses
    <2> QED BY <1>20, <2>1 DEF InsertFails, manager, table, progress, StateInv
<1>3. ASSUME NEW i \in 1 .. MaxLocal, LocalDelete(t, i)
      PROVE  StateInv'
    <2>1. i \in Nat
        BY DataTableAssumption
    <2>2. local' \in [Txns -> [values : Seq(Values), deleted : SUBSET Nat]]
        BY <1>3, <1>a, <2>1 DEF LocalDelete
    <2> QED BY <1>3, <2>2 DEF LocalDelete, manager, table, progress, StateInv
<1>4. ASSUME NEW v \in Vectors, NEW offsets \in SUBSET Offsets, Delete(t, v, offsets)
      PROVE  StateInv'
    <2>1. [type |-> "delete", vector |-> v, rows |-> offsets] \in DeleteEntries
        BY <1>4 DEF DeleteEntries, Delete
    <2>2. status' \in [Txns -> Statuses]
        BY <1>4, <1>a, <1>b DEF Delete, Statuses
    <2>3. undo' \in [Txns -> Seq(InsertEntries \union DeleteEntries)]
        BY <1>4, <1>a, <1>d, <2>1 DEF Delete
    <2> QED BY <1>4, <2>2, <2>3 DEF Delete, manager, progress, StateInv
<1>5. CASE InitializeAppend(t)
    <2>1. Len(ToFlush(t)) \in Nat
        BY FlushLength
    <2>2. total_rows' \in Nat /\ append_start' \in Nat /\ append_lock' \in Txns
        BY <1>5, <1>a, <2>1 DEF InitializeAppend
    <2> QED BY <1>5, <2>2 DEF InitializeAppend, manager, StateInv
<1>6. CASE NothingToFlush(t)
    <2>1. status' \in [Txns -> Statuses] /\ position' \in [Txns -> Nat]
        BY <1>6, <1>b, <1>c DEF NothingToFlush, Statuses
    <2> QED BY <1>6, <2>1 DEF NothingToFlush, manager, table, StateInv
<1>7. CASE AppendRows(t)
    <2>1. append_lock = t /\ LocalRows(t) # {}
        BY <1>7, <1>0 DEF AppendRows, PendingInv
    <2>2. Len(ToFlush(t)) \in Nat \ {0}
        BY <2>1, FlushLength
    <2>3. [type |-> "insert", start |-> append_start, count |-> Len(ToFlush(t))] \in InsertEntries
        BY <2>2, <1>a DEF InsertEntries
    <2>4. status' \in [Txns -> Statuses] /\ position' \in [Txns -> Nat]
        BY <1>7, <1>b, <1>c DEF AppendRows, Statuses
    <2>5. undo' \in [Txns -> Seq(InsertEntries \union DeleteEntries)]
        BY <1>7, <1>d, <2>3 DEF AppendRows
    <2>6. local' \in [Txns -> [values : Seq(Values), deleted : SUBSET Nat]]
        BY <1>7, <1>e DEF AppendRows, AfterFlush
    <2> QED BY <1>7, <2>4, <2>5, <2>6 DEF AppendRows, manager, StateInv
<1>8. CASE RevertFlush(t)
    <2>1. total_rows' \in Nat
        BY <1>8, <1>a DEF RevertFlush, RevertAppendInternal
    <2>2. last' \in [Txns -> Nat]
        BY <1>8, <1>a, <1>c DEF RevertFlush
    <2>3. status' \in [Txns -> Statuses] /\ position' \in [Txns -> Nat]
        BY <1>8, <1>b, <1>c DEF RevertFlush, Statuses
    <2>4. local' \in [Txns -> [values : Seq(Values), deleted : SUBSET Nat]]
        BY <1>8, <1>e DEF RevertFlush
    <2> QED BY <1>8, <2>1, <2>2, <2>3, <2>4 DEF RevertFlush, manager, StateInv
<1>9. CASE CommitTransaction(t)
    <2>1. status' \in [Txns -> Statuses] /\ commit_id' \in [Txns -> Nat]
        BY <1>9, <1>a, <1>b, <1>c DEF CommitTransaction, Statuses
    <2>2. current_start_timestamp' \in Nat \ {0} /\ transaction_lock' \in Txns
        BY <1>9, <1>a DEF CommitTransaction
    <2> QED BY <1>9, <2>1, <2>2 DEF CommitTransaction, table, StateInv
<1>10. CASE CommitEntry(t)
    <2>1. position' \in [Txns -> Nat]
        BY <1>10, <1>a DEF CommitEntry
    <2> QED BY <1>10, <2>1 DEF CommitEntry, manager, StateInv
<1>11. CASE LogFailure(t)
    <2>1. status' \in [Txns -> Statuses] /\ position' \in [Txns -> Nat] /\ last' \in [Txns -> Nat]
        BY <1>11, <1>a, <1>b, <1>c DEF LogFailure, Statuses
    <2> QED BY <1>11, <2>1 DEF LogFailure, manager, table, StateInv
<1>12. CASE RevertCommit(t)
    <2>1. total_rows' \in Nat
        <3>1. position[t] \in 1 .. Len(undo[t]) /\ position[t] \in Nat
            BY <1>12, <1>a, <1>g DEF RevertCommit, PositionInv
        <3>2. CASE undo[t][position[t]].type = "insert"
            BY <1>12, <1>f, <3>1, <3>2 DEF RevertCommit
        <3>3. CASE undo[t][position[t]].type # "insert"
            BY <1>12, <1>a, <3>3 DEF RevertCommit
        <3> QED BY <3>2, <3>3
    <2>2. position' \in [Txns -> Nat]
        BY <1>12, <1>a DEF RevertCommit
    <2> QED BY <1>12, <2>1, <2>2 DEF RevertCommit, manager, StateInv
<1>13. CASE RevertDone(t)
    <2>1. status' \in [Txns -> Statuses] /\ position' \in [Txns -> Nat] /\ commit_id' \in [Txns -> Nat]
        BY <1>13, <1>a, <1>b, <1>c DEF RevertDone, Statuses
    <2> QED BY <1>13, <2>1 DEF RevertDone, table, StateInv
<1>14. CASE RollbackTransaction(t)
    <2>1. status' \in [Txns -> Statuses] /\ position' \in [Txns -> Nat]
        BY <1>14, <1>a, <1>b, <1>c DEF RollbackTransaction, Statuses
    <2> QED BY <1>14, <2>1 DEF RollbackTransaction, table, StateInv
<1>15. CASE RollbackEntry(t)
    <2>1. position[t] \in 1 .. Len(undo[t]) /\ position[t] \in Nat
        BY <1>15, <1>a, <1>g DEF RollbackEntry, PositionInv
    <2>2. position' \in [Txns -> Nat]
        <3>1. position[t] - 1 \in Nat
            BY <2>1
        <3> QED BY <1>15, <1>c, <3>1 DEF RollbackEntry
    <2>3. total_rows' \in Nat
        <3>2. CASE undo[t][position[t]].type = "insert"
            BY <1>15, <1>f, <2>1, <3>2 DEF RollbackEntry
        <3>3. CASE undo[t][position[t]].type # "insert"
            BY <1>15, <1>a, <3>3 DEF RollbackEntry
        <3> QED BY <3>2, <3>3
    <2> QED BY <1>15, <2>2, <2>3 DEF RollbackEntry, manager, StateInv
<1>16. ASSUME NEW outcome \in {"committed", "aborted"}, RemoveTransaction(t, outcome)
       PROVE  StateInv'
    <2>1. undo' \in [Txns -> Seq(InsertEntries \union DeleteEntries)]
        BY <1>16, <1>a DEF RemoveTransaction
    <2>2. status' \in [Txns -> Statuses] /\ position' \in [Txns -> Nat] /\ last' \in [Txns -> Nat]
        BY <1>16, <1>b, <1>c DEF RemoveTransaction, Statuses
    <2>3. local' \in [Txns -> [values : Seq(Values), deleted : SUBSET Nat]]
        BY <1>16, <1>e DEF RemoveTransaction
    <2> QED BY <1>16, <2>1, <2>2, <2>3 DEF RemoveTransaction, StateInv
<1>17. CASE FinishCommit(t)
    BY <1>16, <1>17 DEF FinishCommit
<1>18. CASE FinishRollback(t)
    BY <1>16, <1>18 DEF FinishRollback
<1>19. CASE InitializeScan(t) \/ ScanBaseTable(t) \/ ScanColumns(t) \/ ScanLocal(t)
    BY <1>19 DEF InitializeScan, ScanBaseTable, ScanColumns, ScanLocal, manager, table, progress, StateInv
<1> QED
    BY <1>1, <1>2, <1>3, <1>4, <1>5, <1>6, <1>7, <1>8, <1>9, <1>10, <1>11, <1>12, <1>13,
       <1>14, <1>15, <1>17, <1>18, <1>19, <1>20 DEF Step

-----------------------------------------------------------------------------
(***************************************************************************)
(* Timestamps.                                                             *)
(***************************************************************************)

\* How the status of the transaction that steps changes.
StatusStep(t) ==
    \/ status' = status
    \/ /\ status[t] = "active" /\ status' = [status EXCEPT ![t] = "flush"]
    \/ /\ status[t] = "active" /\ status' = [status EXCEPT ![t] = "failed"]
    \/ /\ status[t] = "flush" /\ status' = [status EXCEPT ![t] = "active"]
    \/ /\ status[t] = "flush" /\ status' = [status EXCEPT ![t] = "failed"]
    \/ /\ status[t] = "commit_flush" /\ status' = [status EXCEPT ![t] = "commit"]
    \/ /\ status[t] = "commit_flush" /\ status' = [status EXCEPT ![t] = "revert"]
    \/ /\ status[t] = "commit" /\ status' = [status EXCEPT ![t] = "revert"]

\* The actions that change neither the clock nor who holds transaction_lock.
LEMMA OrdinaryStep ==
    ASSUME StateInv, NEW t \in Txns, Step(t)
    PROVE  \/ StartTransaction(t) \/ CommitTransaction(t) \/ RevertDone(t)
           \/ RollbackTransaction(t) \/ FinishCommit(t) \/ FinishRollback(t)
           \/ /\ UNCHANGED <<current_start_timestamp, current_transaction_id, transaction_lock,
                             start_time, commit_id>>
              /\ StatusStep(t)
<1>0. status \in [Txns -> Statuses]
    BY DEF StateInv
<1>2. ASSUME NEW v \in Values, Insert(t, v)
      PROVE  manager' = manager /\ StatusStep(t)
    BY <1>0, <1>2 DEF Insert, StatusStep
<1>20. ASSUME NEW v \in Values, InsertFails(t, v)
       PROVE  manager' = manager /\ StatusStep(t)
    BY <1>0, <1>20 DEF InsertFails, StatusStep
<1>3. ASSUME NEW i \in 1 .. MaxLocal, LocalDelete(t, i)
      PROVE  manager' = manager /\ StatusStep(t)
    BY <1>3 DEF LocalDelete, StatusStep
<1>4. ASSUME NEW v \in Vectors, NEW offsets \in SUBSET Offsets, Delete(t, v, offsets)
      PROVE  manager' = manager /\ StatusStep(t)
    BY <1>4 DEF Delete, StatusStep
<1>5. CASE InitializeAppend(t)
    BY <1>5 DEF InitializeAppend, StatusStep, manager
<1>6. CASE NothingToFlush(t)
    BY <1>6 DEF NothingToFlush, StatusStep, manager
<1>7. CASE AppendRows(t)
    BY <1>7 DEF AppendRows, StatusStep, manager
<1>8. CASE RevertFlush(t)
    BY <1>8 DEF RevertFlush, StatusStep, manager
<1>10. CASE CommitEntry(t)
    BY <1>10 DEF CommitEntry, StatusStep, manager
<1>11. CASE LogFailure(t)
    BY <1>11 DEF LogFailure, StatusStep, manager
<1>12. CASE RevertCommit(t)
    BY <1>12 DEF RevertCommit, StatusStep, manager
<1>15. CASE RollbackEntry(t)
    BY <1>15 DEF RollbackEntry, StatusStep, manager
<1>19. CASE InitializeScan(t) \/ ScanBaseTable(t) \/ ScanColumns(t) \/ ScanLocal(t)
    BY <1>19 DEF InitializeScan, ScanBaseTable, ScanColumns, ScanLocal, manager, StatusStep
<1> QED
    BY <1>2, <1>3, <1>4, <1>5, <1>6, <1>7, <1>8, <1>10, <1>11, <1>12, <1>15, <1>19, <1>20
       DEF Step, manager

LEMMA ClockStep ==
    ASSUME StateInv, ClockInv, NEW t \in Txns, Step(t)
    PROVE  ClockInv'
<1>0. /\ status \in [Txns -> Statuses] /\ commit_id \in [Txns -> Nat] /\ start_time \in [Txns -> Nat]
      /\ current_start_timestamp \in Nat \ {0} /\ current_transaction_id \in Nat
    <2>1. current_transaction_id \in TransactionIdStart .. (TransactionIdStart + MaxTxns)
        BY Zenon DEF StateInv
    <2>2. TransactionIdStart \in Nat /\ MaxTxns \in Nat
        BY ChunkInfoAssumption, DataTableAssumption
    <2>3. current_transaction_id \in Nat
        BY <2>1, <2>2
    <2> QED BY <2>3, Zenon DEF StateInv
<1>a. \A u \in Txns : u \in Nat /\ u # NoTxn
    BY TxnFacts
<1> USE DEF ClockInv, Locking
<1>1. CASE StartTransaction(t)
    <2>1. status' = [status EXCEPT ![t] = "active"]
          /\ start_time' = [start_time EXCEPT ![t] = current_start_timestamp]
          /\ commit_id' = commit_id /\ transaction_lock' = transaction_lock /\ transaction_lock = NoTxn
          /\ current_start_timestamp' = current_start_timestamp + 1
          /\ current_transaction_id' = t + 1 /\ t = current_transaction_id
        BY <1>1 DEF StartTransaction
    <2>2. status[t] = "none"
        BY <2>1, <1>a
    <2>3. \A u \in Txns : status[u] \notin Locking
        BY <2>1, <1>a
    <2>4. \A u \in Txns : (status[u] = "none" <=> u >= current_transaction_id)'
        BY <1>0, <1>a, <2>1, <2>2
    <2>5. \A u \in Txns : (status[u] # "none" => start_time[u] < current_start_timestamp)'
        BY <1>0, <2>1, <2>2
    <2>6. \A u \in Txns : (transaction_lock = u <=> status[u] \in Locking)'
        BY <1>0, <2>1, <2>3
    <2>7. \A u \in Txns : (IF status[u] \in {"commit_flush", "commit", "revert", "committed"}
                       THEN commit_id[u] \in 1 .. (current_start_timestamp - 1)
                       ELSE commit_id[u] = 0)'
        BY <1>0, <2>1, <2>2
    <2>8. (\A s, u \in Txns : status[s] \in {"commit_flush", "commit", "revert"} /\ status[u] # "none" =>
                start_time[u] < commit_id[s])'
        BY <1>0, <2>1, <2>3
    <2> QED BY <2>1, <2>4, <2>5, <2>6, <2>7, <2>8
<1>2. CASE CommitTransaction(t)
    <2>1. status' = [status EXCEPT ![t] = "commit_flush"] /\ status[t] = "active"
          /\ start_time' = start_time
          /\ commit_id' = [commit_id EXCEPT ![t] = current_start_timestamp]
          /\ transaction_lock' = t /\ transaction_lock = NoTxn
          /\ current_start_timestamp' = current_start_timestamp + 1
          /\ current_transaction_id' = current_transaction_id
        BY <1>2 DEF CommitTransaction
    <2>3. \A u \in Txns : status[u] \notin Locking
        BY <2>1, <1>a
    <2>4. \A u \in Txns : (status[u] = "none" <=> u >= current_transaction_id)'
        BY <1>0, <2>1
    <2>5. \A u \in Txns : (status[u] # "none" => start_time[u] < current_start_timestamp)'
        BY <1>0, <2>1
    <2>6. \A u \in Txns : (transaction_lock = u <=> status[u] \in Locking)'
        BY <1>0, <2>1, <2>3
    <2>7. \A u \in Txns : (IF status[u] \in {"commit_flush", "commit", "revert", "committed"}
                       THEN commit_id[u] \in 1 .. (current_start_timestamp - 1)
                       ELSE commit_id[u] = 0)'
        BY <1>0, <2>1
    <2>8. (\A s, u \in Txns : status[s] \in {"commit_flush", "commit", "revert"} /\ status[u] # "none" =>
                start_time[u] < commit_id[s])'
        BY <1>0, <2>1, <2>3
    <2>9. \A u \in Txns : commit_id[u] < current_start_timestamp
        BY <1>0
    <2>10. (\A s, u \in Txns : s # u /\ commit_id[s] # 0 => commit_id[s] # commit_id[u])'
        BY <1>0, <2>1, <2>9
    <2> QED BY <2>1, <2>4, <2>5, <2>6, <2>7, <2>8, <2>10
<1>3. CASE RevertDone(t)
    <2>1. status' = [status EXCEPT ![t] = "rollback"] /\ status[t] = "revert"
          /\ start_time' = start_time /\ commit_id' = [commit_id EXCEPT ![t] = 0]
          /\ transaction_lock' = transaction_lock
          /\ current_start_timestamp' = current_start_timestamp
          /\ current_transaction_id' = current_transaction_id
        BY <1>3 DEF RevertDone
    <2> QED BY <1>0, <2>1
<1>4. CASE RollbackTransaction(t)
    <2>1. status' = [status EXCEPT ![t] = "rollback"] /\ status[t] \in {"failed", "active"}
          /\ start_time' = start_time /\ commit_id' = commit_id
          /\ transaction_lock' = t /\ transaction_lock = NoTxn
          /\ current_start_timestamp' = current_start_timestamp
          /\ current_transaction_id' = current_transaction_id
        BY <1>4 DEF RollbackTransaction
    <2> QED BY <1>0, <1>a, <2>1
<1>5. CASE FinishCommit(t) \/ FinishRollback(t)
    <2>1. PICK s \in {"committed", "aborted"} :
             /\ status' = [status EXCEPT ![t] = s]
             /\ s = "committed" => status[t] = "commit"
             /\ s = "aborted" => status[t] = "rollback"
             /\ start_time' = start_time /\ commit_id' = commit_id
             /\ transaction_lock' = NoTxn
             /\ current_start_timestamp' = current_start_timestamp
             /\ current_transaction_id' = current_transaction_id
        BY <1>5 DEF FinishCommit, FinishRollback, RemoveTransaction
    <2>2. transaction_lock = t
        BY <2>1
    <2> QED BY <1>0, <1>a, <2>1, <2>2
<1>6. CASE /\ UNCHANGED <<current_start_timestamp, current_transaction_id, transaction_lock,
                          start_time, commit_id>>
           /\ StatusStep(t)
    BY <1>0, <1>6 DEF StatusStep
<1> QED
    BY <1>1, <1>2, <1>3, <1>4, <1>5, <1>6, OrdinaryStep

LEMMA TxnsFinite == IsFiniteSet(Txns)
<1>1. TransactionIdStart \in Int /\ TransactionIdStart + MaxTxns - 1 \in Int
    BY ChunkInfoAssumption, DataTableAssumption
<1> QED
    BY <1>1, FS_Interval DEF Txns

\* Every transaction begins once and commits at most once.
LEMMA TickStep ==
    ASSUME StateInv, ClockInv, TickInv, NEW t \in Txns, Step(t)
    PROVE  TickInv'
<1>0. status \in [Txns -> Statuses] /\ current_start_timestamp \in Nat
    BY DEF StateInv
<1>1. IsFiniteSet(NotBegun) /\ IsFiniteSet(NotEnding)
    BY TxnsFinite, FS_Subset DEF NotBegun, NotEnding
<1>2. Cardinality(NotBegun) \in Nat /\ Cardinality(NotEnding) \in Nat
    BY <1>1, FS_CardinalityType
<1>3. CASE StartTransaction(t)
    <2>1. status[t] = "none" /\ status' = [status EXCEPT ![t] = "active"]
          /\ current_start_timestamp' = current_start_timestamp + 1
        BY <1>3, TxnFacts DEF StartTransaction, ClockInv
    <2>2. NotBegun' = NotBegun \ {t} /\ t \in NotBegun /\ NotEnding' = NotEnding
        BY <1>0, <2>1 DEF NotBegun, NotEnding
    <2>3. Cardinality(NotBegun \ {t}) = Cardinality(NotBegun) - 1
        BY <1>1, <2>2, FS_RemoveElement
    <2> QED BY <1>0, <1>2, <2>1, <2>2, <2>3, DataTableAssumption DEF TickInv
<1>4. CASE CommitTransaction(t)
    <2>1. status[t] = "active" /\ status' = [status EXCEPT ![t] = "commit_flush"]
          /\ current_start_timestamp' = current_start_timestamp + 1
        BY <1>4 DEF CommitTransaction
    <2>2. NotEnding' = NotEnding \ {t} /\ t \in NotEnding /\ NotBegun' = NotBegun
        BY <1>0, <2>1 DEF NotBegun, NotEnding
    <2>3. Cardinality(NotEnding \ {t}) = Cardinality(NotEnding) - 1
        BY <1>1, <2>2, FS_RemoveElement
    <2> QED BY <1>0, <1>2, <2>1, <2>2, <2>3, DataTableAssumption DEF TickInv
<1>5. ASSUME current_start_timestamp' = current_start_timestamp,
             NEW s \in Statuses, s # "none", status[t] # "none",
             status[t] \in {"none", "active", "flush", "failed"} \/ s \notin {"none", "active", "flush", "failed"},
             status' = [status EXCEPT ![t] = s] \/ status' = status
      PROVE  TickInv'
    <2>1. NotBegun' \in SUBSET NotBegun /\ NotEnding' \in SUBSET NotEnding
        BY <1>0, <1>5 DEF NotBegun, NotEnding
    <2>2. Cardinality(NotBegun') <= Cardinality(NotBegun) /\ Cardinality(NotEnding') <= Cardinality(NotEnding)
          /\ IsFiniteSet(NotBegun') /\ IsFiniteSet(NotEnding')
        BY <1>1, <2>1, FS_Subset
    <2>3. Cardinality(NotBegun') \in Nat /\ Cardinality(NotEnding') \in Nat
        BY <2>2, FS_CardinalityType
    <2>4. (Cardinality(NotBegun))' = Cardinality(NotBegun') /\ (Cardinality(NotEnding))' = Cardinality(NotEnding')
        OBVIOUS
    <2> QED BY <1>0, <1>2, <1>5, <2>2, <2>3, <2>4, DataTableAssumption DEF TickInv
<1>6. CASE RevertDone(t)
    BY <1>5, <1>6 DEF RevertDone, Statuses
<1>7. CASE RollbackTransaction(t)
    BY <1>5, <1>7 DEF RollbackTransaction, Statuses
<1>8. CASE FinishCommit(t)
    BY <1>5, <1>8 DEF FinishCommit, RemoveTransaction, Statuses
<1>9. CASE FinishRollback(t)
    BY <1>5, <1>9 DEF FinishRollback, RemoveTransaction, Statuses
<1>10. CASE /\ UNCHANGED <<current_start_timestamp, current_transaction_id, transaction_lock,
                          start_time, commit_id>>
            /\ StatusStep(t)
    <2>1. CASE status' = status
        BY <2>1, <1>10 DEF TickInv, NotBegun, NotEnding
    <2>2. CASE status' # status
        BY <2>2, <1>5, <1>10 DEF StatusStep, Statuses
    <2> QED BY <2>1, <2>2
<1> QED
    BY <1>3, <1>4, <1>6, <1>7, <1>8, <1>9, <1>10, OrdinaryStep

\* Commit ids and start times are below the transaction ids.
LEMMA ClockBound ==
    ASSUME StateInv, TickInv
    PROVE  current_start_timestamp \in Nat /\ current_start_timestamp < TransactionIdStart
<1>1. IsFiniteSet(NotBegun) /\ IsFiniteSet(NotEnding)
    BY TxnsFinite, FS_Subset DEF NotBegun, NotEnding
<1>2. Cardinality(NotBegun) \in Nat /\ Cardinality(NotEnding) \in Nat
    BY <1>1, FS_CardinalityType
<1>3. current_start_timestamp \in Nat
    BY DEF StateInv
<1> QED
    BY <1>2, <1>3, DataTableAssumption, ChunkInfoAssumption DEF TickInv

-----------------------------------------------------------------------------
(***************************************************************************)
(* Iterations stay within the undo buffer, and rows within the table.      *)
(***************************************************************************)

LEMMA PositionStep ==
    ASSUME StateInv, PositionInv, NEW t \in Txns, Step(t)
    PROVE  PositionInv'
<1>0. /\ status \in [Txns -> Statuses] /\ position \in [Txns -> Nat] /\ last \in [Txns -> Nat]
      /\ undo \in [Txns -> Seq(InsertEntries \union DeleteEntries)]
    BY DEF StateInv
<1>a. \A u \in Txns : Len(undo[u]) \in Nat
    BY <1>0
<1>1. ASSUME \A u \in Txns \ {t} : UNCHANGED <<status[u], position[u], last[u]>>
                                   /\ (undo'[u] = undo[u] \/ status[u] = "committed"),
             /\ status'[t] \in {"commit", "revert"} => position'[t] >= 1
             /\ status'[t] = "revert" => last'[t] <= Len(undo'[t])
             /\ status'[t] = "rollback" => position'[t] <= Len(undo'[t])
      PROVE  PositionInv'
    <2>1. ASSUME NEW u \in Txns
          PROVE  (/\ status[u] \in {"commit", "revert"} => position[u] >= 1
                  /\ status[u] = "revert" => last[u] <= Len(undo[u])
                  /\ status[u] = "rollback" => position[u] <= Len(undo[u]))'
        <3>1. CASE u = t
            BY <3>1, <1>1
        <3>2. CASE u # t
            BY <3>2, <1>1 DEF PositionInv
        <3> QED BY <3>1, <3>2
    <2> QED BY <2>1 DEF PositionInv
<1> HIDE DEF PositionInv
<1>b. /\ status[t] \in {"commit", "revert"} => position[t] >= 1
      /\ status[t] = "revert" => last[t] <= Len(undo[t])
      /\ status[t] = "rollback" => position[t] <= Len(undo[t])
    BY DEF PositionInv
<1>2. CASE StartTransaction(t)
    BY <1>0, <1>1, <1>2 DEF StartTransaction, progress
<1>3. ASSUME NEW v \in Values, Insert(t, v)
      PROVE  PositionInv'
    BY <1>0, <1>1, <1>3 DEF Insert, progress
<1>18. ASSUME NEW v \in Values, InsertFails(t, v)
       PROVE  PositionInv'
    BY <1>0, <1>1, <1>18 DEF InsertFails, progress
<1>4. ASSUME NEW i \in 1 .. MaxLocal, LocalDelete(t, i)
      PROVE  PositionInv'
    BY <1>0, <1>1, <1>b, <1>4 DEF LocalDelete, progress
<1>5. ASSUME NEW v \in Vectors, NEW offsets \in SUBSET Offsets, Delete(t, v, offsets)
      PROVE  PositionInv'
    <2>1. status'[t] \in {"active", "failed"}
        BY <1>0, <1>5 DEF Delete
    <2>2. \A u \in Txns \ {t} : UNCHANGED <<status[u], position[u], last[u], undo[u]>>
        BY <1>0, <1>5 DEF Delete, progress
    <2> QED BY <1>1, <2>1, <2>2
<1>6. CASE InitializeAppend(t) \/ InitializeScan(t) \/ ScanBaseTable(t) \/ ScanColumns(t) \/ ScanLocal(t)
    BY <1>0, <1>1, <1>b, <1>6 DEF InitializeAppend, InitializeScan, ScanBaseTable, ScanColumns, ScanLocal, progress
<1>7. CASE NothingToFlush(t)
    BY <1>0, <1>1, <1>7 DEF NothingToFlush
<1>8. CASE AppendRows(t)
    BY <1>0, <1>1, <1>8 DEF AppendRows
<1>9. CASE RevertFlush(t)
    <2>1. PICK unset \in 0 .. Len(undo[t]) : last' = [last EXCEPT ![t] = unset]
        BY <1>9 DEF RevertFlush
    <2>2. unset <= Len(undo[t]) /\ undo' = undo
        BY <1>9, <1>a, <2>1 DEF RevertFlush
    <2> QED BY <1>0, <1>1, <1>9, <2>1, <2>2 DEF RevertFlush
<1>10. CASE CommitTransaction(t)
    BY <1>0, <1>1, <1>10 DEF CommitTransaction
<1>11. CASE CommitEntry(t)
    BY <1>0, <1>1, <1>b, <1>11 DEF CommitEntry
<1>12. CASE LogFailure(t)
    BY <1>0, <1>1, <1>a, <1>12 DEF LogFailure
<1>13. CASE RevertCommit(t)
    BY <1>0, <1>1, <1>b, <1>13 DEF RevertCommit
<1>14. CASE RevertDone(t)
    BY <1>0, <1>1, <1>a, <1>14 DEF RevertDone
<1>15. CASE RollbackTransaction(t)
    BY <1>0, <1>1, <1>a, <1>15 DEF RollbackTransaction
<1>16. CASE RollbackEntry(t)
    BY <1>0, <1>1, <1>a, <1>b, <1>16 DEF RollbackEntry
<1>17. ASSUME NEW outcome \in {"committed", "aborted"}, RemoveTransaction(t, outcome)
       PROVE  PositionInv'
    <2>1. \A u \in Txns \ {t} : undo'[u] = undo[u] \/ status[u] = "committed"
        BY <1>17 DEF RemoveTransaction, NoLongerNeeded
    <2> QED BY <1>0, <1>1, <1>17, <2>1 DEF RemoveTransaction
<1> QED
    BY <1>2, <1>3, <1>4, <1>5, <1>6, <1>7, <1>8, <1>9, <1>10, <1>11, <1>12, <1>13, <1>14,
       <1>15, <1>16, <1>17, <1>18 DEF Step, FinishCommit, FinishRollback

LEMMA PositionsFinite ==
    /\ IsFiniteSet(LocalPositions) /\ IsFiniteSet(Waiting)
    /\ Cardinality(LocalPositions) \in Nat /\ Cardinality(Waiting) \in Nat
<1>1. IsFiniteSet(1 .. MaxLocal)
    BY FS_Interval, DataTableAssumption
<1>2. IsFiniteSet(Txns \X (1 .. MaxLocal))
    BY <1>1, TxnsFinite, FS_Product
<1>3. LocalPositions \in SUBSET (Txns \X (1 .. MaxLocal)) /\ Waiting \in SUBSET (Txns \X (1 .. MaxLocal))
    BY DEF LocalPositions, Waiting
<1>4. IsFiniteSet(LocalPositions) /\ IsFiniteSet(Waiting)
    BY <1>2, <1>3, FS_Subset
<1> QED
    BY <1>4, FS_CardinalityType

LEMMA BoundStep ==
    ASSUME StateInv, PendingInv, PositionInv, BoundInv, NEW t \in Txns, Step(t)
    PROVE  BoundInv'
<1>0. /\ local \in [Txns -> [values : Seq(Values), deleted : SUBSET Nat]]
      /\ total_rows \in Nat /\ append_start \in Nat /\ t # NoTxn /\ MaxLocal \in Nat /\ MaxRows \in Nat
      /\ append_lock \in Txns \union {NoTxn}
    BY TxnFacts, DataTableAssumption DEF StateInv
<1>a. \A u \in Txns : Len(local[u].values) \in Nat /\ Len(local[u].values) <= MaxLocal
    BY <1>0 DEF BoundInv
<1>b. /\ IsFiniteSet(LocalPositions) /\ IsFiniteSet(Waiting)
      /\ Cardinality(LocalPositions) \in Nat /\ Cardinality(Waiting) \in Nat
    BY PositionsFinite
\* What is kept locally does not grow, nor does the table.
<1>1. ASSUME \A u \in Txns : Len(local'[u].values) <= Len(local[u].values) /\ Len(local'[u].values) \in Nat,
             total_rows' <= total_rows, total_rows' \in Nat,
             append_lock' = append_lock \/ (append_lock = t /\ append_lock' = NoTxn /\ Len(local'[t].values) = 0)
      PROVE  BoundInv'
    <2>1. Waiting' \in SUBSET Waiting
        <3> SUFFICES ASSUME NEW p \in Waiting'
                     PROVE  p \in Waiting
            OBVIOUS
        <3>1. p \in Txns \X (1 .. MaxLocal) /\ p[2] <= Len(local'[p[1]].values) /\ p[1] # append_lock'
            BY DEF Waiting, LocalPositions
        <3>2. p[1] \in Txns /\ p[2] \in Nat /\ p[2] >= 1
            BY <3>1, <1>0
        <3>3. p[2] <= Len(local[p[1]].values)
            BY <1>1, <1>a, <3>1, <3>2
        <3>4. p[1] # append_lock
            BY <1>1, <3>1, <3>2
        <3> QED BY <3>1, <3>3, <3>4 DEF Waiting, LocalPositions
    <2>2. Cardinality(Waiting') <= Cardinality(Waiting) /\ IsFiniteSet(Waiting')
        BY <1>b, <2>1, FS_Subset
    <2>3. Cardinality(Waiting') \in Nat
        BY <2>2, FS_CardinalityType
    <2>4. (Cardinality(Waiting))' = Cardinality(Waiting')
        OBVIOUS
    <2>5. \A u \in Txns : Len(local'[u].values) <= MaxLocal
        BY <1>0, <1>1, <1>a
    <2> QED BY <1>0, <1>1, <1>b, <2>2, <2>3, <2>4, <2>5 DEF BoundInv
<1>2. ASSUME NEW v \in Values, Insert(t, v)
      PROVE  BoundInv'
    <2> DEFINE n == Len(local[t].values) + 1
    <2>1. /\ n \in 1 .. MaxLocal
          /\ Len(local'[t].values) = n
          /\ \A u \in Txns \ {t} : local'[u] = local[u]
          /\ append_lock' = append_lock /\ total_rows' = total_rows
          /\ total_rows + Cardinality(LocalPositions) < MaxRows
        BY <1>0, <1>a, <1>2 DEF Insert, table
    <2> HIDE DEF n
    <2>2. Waiting' \in SUBSET (LocalPositions \union {<<t, n>>})
        <3> SUFFICES ASSUME NEW p \in Waiting'
                     PROVE  p \in LocalPositions \union {<<t, n>>}
            OBVIOUS
        <3>1. p \in Txns \X (1 .. MaxLocal) /\ p[2] <= Len(local'[p[1]].values)
            BY DEF Waiting, LocalPositions
        <3>2. p[1] \in Txns /\ p[2] \in Nat /\ p[2] >= 1 /\ p = <<p[1], p[2]>>
            BY <3>1, <1>0
        <3>3. CASE p[1] = t
            <4>1. p[2] = n \/ p[2] <= Len(local[t].values)
                BY <3>1, <3>2, <3>3, <2>1, <1>a DEF n
            <4> QED BY <4>1, <3>1, <3>2, <3>3 DEF LocalPositions
        <3>4. CASE p[1] # t
            BY <3>1, <3>2, <3>4, <2>1 DEF LocalPositions
        <3> QED BY <3>3, <3>4
    <2>3. IsFiniteSet(LocalPositions \union {<<t, n>>})
          /\ Cardinality(LocalPositions \union {<<t, n>>}) <= Cardinality(LocalPositions) + 1
        <3> DEFINE new == <<t, n>>
        <3> HIDE DEF new
        <3>1. /\ IsFiniteSet(LocalPositions \union {new})
              /\ \/ Cardinality(LocalPositions \union {new}) = Cardinality(LocalPositions)
                 \/ Cardinality(LocalPositions \union {new}) = Cardinality(LocalPositions) + 1
            BY <1>b, FS_AddElement
        <3>2. /\ IsFiniteSet(LocalPositions \union {new})
              /\ Cardinality(LocalPositions \union {new}) <= Cardinality(LocalPositions) + 1
            BY <1>b, <3>1
        <3> QED BY <3>2 DEF new
    <2>4. Cardinality(Waiting') <= Cardinality(LocalPositions \union {<<t, n>>}) /\ IsFiniteSet(Waiting')
        BY <2>2, <2>3, FS_Subset
    <2>5. Cardinality(Waiting') \in Nat /\ Cardinality(LocalPositions \union {<<t, n>>}) \in Nat
        BY <2>3, <2>4, FS_CardinalityType
    <2>6. (Cardinality(Waiting))' = Cardinality(Waiting')
        OBVIOUS
    <2>7. ASSUME NEW u \in Txns
          PROVE  Len(local'[u].values) <= MaxLocal
        <3>1. CASE u = t
            BY <1>0, <2>1, <3>1
        <3>2. CASE u # t
            BY <1>a, <2>1, <3>2
        <3> QED BY <3>1, <3>2
    <2> QED BY <1>0, <1>b, <2>1, <2>3, <2>4, <2>5, <2>6, <2>7 DEF BoundInv
<1>3. ASSUME NEW i \in 1 .. MaxLocal, LocalDelete(t, i)
      PROVE  BoundInv'
    <2>1. \A u \in Txns : local'[u].values = local[u].values
        BY <1>0, <1>3 DEF LocalDelete
    <2> QED BY <1>0, <1>1, <1>a, <1>3, <2>1 DEF LocalDelete, table
<1>4. ASSUME NEW v \in Vectors, NEW offsets \in SUBSET Offsets, Delete(t, v, offsets)
      PROVE  BoundInv'
    BY <1>0, <1>1, <1>a, <1>4 DEF Delete
<1>5. CASE InitializeAppend(t)
    <2> DEFINE m == Cardinality(LocalRows(t))
               mine == LocalPositions \ Waiting'
    <2>1. total_rows' = total_rows + m /\ append_lock = NoTxn /\ append_lock' = t /\ local' = local
          /\ m \in Nat /\ IsFiniteSet(LocalRows(t))
        BY <1>5, FlushLength DEF InitializeAppend
    <2>2. Waiting = LocalPositions
        BY <2>1, TxnFacts DEF Waiting, LocalPositions
    <2>3. Waiting' = {p \in LocalPositions : p[1] # t}
        BY <2>1 DEF Waiting, LocalPositions
    <2>4. mine = {p \in LocalPositions : p[1] = t}
        BY <2>3
    <2>5. Waiting' \in SUBSET LocalPositions /\ LocalPositions \cap Waiting' = Waiting'
        BY <2>3
    <2>6. Cardinality(mine) = Cardinality(LocalPositions) - Cardinality(Waiting') /\ IsFiniteSet(mine)
        BY <1>b, <2>5, FS_Difference
    <2>7. Cardinality(Waiting') \in Nat
        BY <1>b, <2>5, FS_Subset, FS_CardinalityType
    <2>8. m <= Cardinality(mine)
        <3> DEFINE f == [i \in LocalRows(t) |-> <<t, i>>]
        <3>1. \A i \in LocalRows(t) : <<t, i>> \in mine
            BY <1>0, <1>a, <2>4 DEF LocalRows, LocalPositions
        <3>2. f \in Injection(LocalRows(t), mine)
            <4> HIDE DEF mine
            <4> QED BY <3>1 DEF Injection, IsInjective
        <3> HIDE DEF f, mine
        <3> QED BY <2>6, <3>2, FS_Injection
    <2>9. (Cardinality(Waiting))' = Cardinality(Waiting')
        OBVIOUS
    <2>10. total_rows + Cardinality(LocalPositions) <= MaxRows
        BY <2>2 DEF BoundInv
    <2> HIDE DEF m, mine
    <2> QED BY <1>0, <1>a, <1>b, <2>1, <2>6, <2>7, <2>8, <2>9, <2>10 DEF BoundInv
<1>6. CASE AppendRows(t)
    <2>1. \A u \in Txns : Len(local'[u].values) <= Len(local[u].values) /\ Len(local'[u].values) \in Nat
        BY <1>0, <1>a, <1>6 DEF AppendRows, AfterFlush, NoLocal
    <2>2. Len(local'[t].values) = 0
        BY <1>0, <1>6 DEF AppendRows, AfterFlush, NoLocal
    <2> QED BY <1>0, <1>1, <1>6, <2>1, <2>2 DEF AppendRows
<1>7. CASE RevertFlush(t)
    <2>1. \A u \in Txns : Len(local'[u].values) <= Len(local[u].values) /\ Len(local'[u].values) \in Nat
        BY <1>0, <1>a, <1>7 DEF RevertFlush, NoLocal
    <2>2. Len(local'[t].values) = 0
        BY <1>0, <1>7 DEF RevertFlush, NoLocal
    <2>3. Len(ToFlush(t)) \in Nat
        BY FlushLength
    <2>4. total_rows' <= total_rows /\ total_rows' \in Nat
        BY <1>0, <1>7, <2>3 DEF RevertFlush, RevertAppendInternal, IsLastAppend
    <2> QED BY <1>0, <1>1, <1>7, <2>1, <2>2, <2>4 DEF RevertFlush
<1>8. ASSUME NEW k \in 1 .. Len(undo[t]), NEW undone, undone = undo[t][k],
             undone.type = "insert", RevertAppend(undone)
      PROVE  total_rows' <= total_rows /\ total_rows' \in Nat
    <2>1. undone.start \in Nat /\ undone.count \in Nat
        BY <1>8, EntryTypes DEF InsertIn
    <2> QED BY <1>0, <1>8, <2>1 DEF RevertAppend, RevertAppendInternal, IsLastAppend
<1>9. CASE RevertCommit(t)
    <2>1. position[t] \in 1 .. Len(undo[t])
        BY <1>9 DEF RevertCommit, PositionInv, StateInv
    <2>2. total_rows' <= total_rows /\ total_rows' \in Nat
        <3>2. CASE undo[t][position[t]].type = "insert"
            BY <1>9, <1>8, <2>1, <3>2 DEF RevertCommit
        <3>3. CASE undo[t][position[t]].type # "insert"
            BY <1>9, <1>0, <3>3 DEF RevertCommit
        <3> QED BY <3>2, <3>3
    <2> QED BY <1>0, <1>1, <1>a, <1>9, <2>2 DEF RevertCommit
<1>10. CASE RollbackEntry(t)
    <2>1. position[t] \in 1 .. Len(undo[t])
        BY <1>10 DEF RollbackEntry, PositionInv, StateInv
    <2>2. total_rows' <= total_rows /\ total_rows' \in Nat
        <3>2. CASE undo[t][position[t]].type = "insert"
            BY <1>10, <1>8, <2>1, <3>2 DEF RollbackEntry
        <3>3. CASE undo[t][position[t]].type # "insert"
            BY <1>10, <1>0, <3>3 DEF RollbackEntry
        <3> QED BY <3>2, <3>3
    <2> QED BY <1>0, <1>1, <1>a, <1>10, <2>2 DEF RollbackEntry
<1>11. ASSUME NEW outcome \in {"committed", "aborted"}, RemoveTransaction(t, outcome)
       PROVE  BoundInv'
    <2>1. \A u \in Txns : Len(local'[u].values) <= Len(local[u].values) /\ Len(local'[u].values) \in Nat
        BY <1>0, <1>a, <1>11 DEF RemoveTransaction, NoLocal
    <2> QED BY <1>0, <1>1, <1>11, <2>1 DEF RemoveTransaction
<1>12. CASE UNCHANGED <<local, total_rows, append_lock>>
    BY <1>0, <1>1, <1>a, <1>12
<1> QED
    BY <1>2, <1>3, <1>4, <1>5, <1>6, <1>7, <1>9, <1>10, <1>11, <1>12
       DEF Step, FinishCommit, FinishRollback, StartTransaction, NothingToFlush, CommitTransaction,
           CommitEntry, LogFailure, RevertDone, RollbackTransaction, InitializeScan, ScanBaseTable,
           ScanColumns, ScanLocal, InsertFails, table

\* A row of the table has its place in a vector.
LEMMA RowInTable ==
    ASSUME StateInv, BoundInv, NEW r \in Nat, r < total_rows
    PROVE  /\ r \in Nat /\ VectorOf(r) \in Vectors /\ OffsetOf(r) \in Offsets
           /\ VectorOf(r) \in Nat /\ Base(VectorOf(r)) \in Nat
           /\ r = Base(VectorOf(r)) + OffsetOf(r)
           /\ InsertedId(r) = IdOf(info[VectorOf(r)], OffsetOf(r))
<1>1. Cardinality(Waiting) \in Nat
    BY PositionsFinite
<1>2. r \in Rows /\ r \in Nat
    BY <1>1, DataTableAssumption DEF StateInv, BoundInv, Rows
<1> QED
    BY <1>2, RowPlace, VectorsAreNat DEF InsertedId, IdOf

LEMMA PlaceInTable ==
    ASSUME NEW v \in Vectors, NEW i \in Offsets
    PROVE  /\ v \in Nat /\ Base(v) \in Nat /\ Base(v) + i \in Nat
           /\ InsertedId(Base(v) + i) = IdOf(info[v], i)
           /\ VectorOf(Base(v) + i) = v /\ OffsetOf(Base(v) + i) = i
  BY VectorsAreNat, PlaceUnique DEF InsertedId, IdOf

-----------------------------------------------------------------------------
(***************************************************************************)
(* What the actions do to the version information.                         *)
(***************************************************************************)

\* The rows keep the ids of who inserted them.
SameIds == \A v \in Vectors :
    /\ info'[v].type = "empty" <=> info[v].type = "empty"
    /\ info'[v].type = "constant" => info[v].type = "constant"
    /\ \A i \in Offsets : IdOf(info'[v], i) = IdOf(info[v], i)

\* The shortcuts are those from before, or say what is the case.
SameShortcuts == \A v \in Vectors : info'[v].type = "vector" =>
    /\ ~info'[v].any_deleted => \A i \in Offsets : info'[v].deleted[i] = NotDeletedId
    /\ info'[v].same_inserted_id =>
          \/ /\ info[v].type = "vector" /\ info[v].same_inserted_id
             /\ info'[v].insert_id = info[v].insert_id
          \/ \A i \in Offsets : info'[v].inserted[i] = info'[v].insert_id

\* Who deletes keeps what has been deleted in its vectors.
KeepsDeleted == \A v \in Vectors :
    info[v].type = "vector" /\ info[v].any_deleted =>
        info'[v].type = "vector" /\ info'[v].any_deleted

LEMMA FewerKnownIds ==
    ASSUME NEW x, Known(x), StateInv, NEW now \in Nat, now >= current_start_timestamp,
           current_start_timestamp' = now
    PROVE  Known(x)'
<1>0. current_start_timestamp \in Nat
    BY DEF StateInv
<1>1. ASSUME NEW id \in KnownIds
      PROVE  id \in KnownIds'
    <2>1. id \in 0 .. (current_start_timestamp - 1) \/ id \in TransactionIdStart .. NotDeletedId
        BY DEF KnownIds
    <2>2. id \in 0 .. (now - 1) \/ id \in TransactionIdStart .. NotDeletedId
        BY <1>0, <2>1
    <2> QED BY <2>2 DEF KnownIds
<1> QED
    BY <1>1 DEF Known

LEMMA KnownFacts ==
    ASSUME StateInv, ClockInv
    PROVE  /\ 0 \in KnownIds /\ NotDeletedId \in KnownIds
           /\ \A t \in Txns : t \in KnownIds /\ commit_id[t] \in KnownIds
           /\ \A t \in Txns : commit_id[t] \in Nat /\ commit_id[t] < current_start_timestamp
<1>2. current_start_timestamp \in Nat \ {0} /\ \A t \in Txns : commit_id[t] \in Nat
    BY DEF StateInv
<1>1. ASSUME NEW t \in Txns
      PROVE  commit_id[t] \in Nat /\ commit_id[t] < current_start_timestamp
    <2>1. commit_id[t] \in 1 .. (current_start_timestamp - 1) \/ commit_id[t] = 0
        BY DEF ClockInv
    <2> QED BY <1>2, <2>1
<1> QED
    BY <1>1, <1>2, IdFacts, ChunkInfoAssumption DEF KnownIds

\* Commit ids are not ids of transactions, and nobody shares them.
LEMMA CommitIds ==
    ASSUME StateInv, ClockInv, TickInv
    PROVE  /\ \A t \in Txns : commit_id[t] \in Nat /\ commit_id[t] < TransactionIdStart /\ commit_id[t] \in Ids
           /\ \A t, u \in Txns : commit_id[t] # u
           /\ \A t, u \in Txns : commit_id[t] # 0 /\ commit_id[t] = commit_id[u] => t = u
<1>0. \A t \in Txns : commit_id[t] \in Nat /\ commit_id[t] < current_start_timestamp
    BY KnownFacts
<1>1. \A t \in Txns : commit_id[t] \in Nat /\ commit_id[t] < TransactionIdStart
    BY <1>0, ClockBound, ChunkInfoAssumption
<1>2. \A t, u \in Txns : commit_id[t] # 0 /\ commit_id[t] = commit_id[u] => t = u
    BY DEF ClockInv
<1> QED
    BY <1>1, <1>2, TxnFacts, ChunkInfoAssumption DEF Ids

\* The rows found by a statement are in the table.
LEMMA DeleteFound ==
    ASSUME StateInv, BoundInv, NEW t \in Txns, NEW v \in Vectors, NEW offsets \in SUBSET Offsets,
           Delete(t, v, offsets)
    PROVE  /\ offsets # {}
           /\ \A i \in offsets : i \in Offsets /\ Base(v) + i \in Nat /\ Base(v) + i < total_rows
           /\ Base(v) < total_rows
<1>1. ASSUME NEW i \in offsets
      PROVE  i \in Offsets /\ Base(v) + i \in Nat /\ Base(v) + i < total_rows
    <2>1. PICK r \in FetchRows(Reader(t)) : VectorOf(r) = v /\ i = OffsetOf(r)
        BY DEF Delete
    <2>2. r \in Nat /\ r < total_rows
        <3>1. r \in 0 .. (total_rows - 1) /\ total_rows \in Nat
            BY <2>1 DEF FetchRows, StateInv
        <3> QED BY <3>1
    <2>3. r \in Nat /\ r = Base(v) + i /\ i \in Offsets
        BY <2>1, <2>2, RowInTable
    <2> QED BY <2>2, <2>3 DEF StateInv
<1>2. offsets # {}
    BY DEF Delete
<1>3. Base(v) < total_rows
    <2>1. PICK i \in offsets : TRUE
        BY <1>2
    <2>2. i \in Nat /\ Base(v) \in Nat /\ Base(v) + i < total_rows
        BY <1>1, <2>1, VectorsAreNat DEF Offsets
    <2> QED BY <2>2 DEF StateInv
<1> QED
    BY <1>1, <1>2, <1>3

LEMMA DeleteEffect ==
    ASSUME StateInv, BoundInv, InfoInv, FillInv, IdsInv, ClockInv, VectorInv, NEW t \in Txns,
           NEW v \in Vectors, NEW offsets \in SUBSET Offsets, Delete(t, v, offsets)
    PROVE  /\ InfoInv' /\ IdsInv' /\ SameIds /\ SameShortcuts /\ KeepsDeleted
           /\ info'[v].type = "vector" /\ info'[v].any_deleted
           /\ \/ undo' = undo
              \/ /\ undo' = [undo EXCEPT
                        ![t] = Append(@, [type |-> "delete", vector |-> v, rows |-> offsets])]
                 /\ \A i \in offsets : info'[v].inserted[i] < TransactionIdStart
<1>0. info[v] \in Infos /\ info \in [Vectors -> Infos] /\ t \in Ids
    BY TxnFacts DEF InfoInv
<1>1. info[v].type # "empty"
    BY DeleteFound DEF FillInv
<1> DEFINE x == ToVectorInfo(info[v])
           y == MarkDeleted(x)
           z == CommitDeleteInfo(y, offsets, t)
<1>2. /\ x \in Infos /\ x.type = "vector"
      /\ info[v].type = "vector" => x = info[v]
      /\ info[v].type # "vector" => x.same_inserted_id /\ ~x.any_deleted
      /\ info[v].type # "vector" => \A i \in Offsets : x.deleted[i] = NotDeletedId
      /\ info[v].type = "constant" => x.insert_id = info[v].insert_id
      /\ \A i \in Offsets : x.inserted[i] = IdOf(info[v], i)
    BY <1>0, ToVectorFields
<1> HIDE DEF x
<1>3. /\ y \in Infos /\ y.type = "vector" /\ y.insert_id = x.insert_id
      /\ y.same_inserted_id = x.same_inserted_id /\ y.any_deleted = TRUE
      /\ y.inserted = x.inserted /\ y.deleted = x.deleted
    BY <1>2, MarkDeletedFields
<1> HIDE DEF y
<1>4. /\ z \in Infos /\ z.type = "vector" /\ z.insert_id = y.insert_id
      /\ z.same_inserted_id = y.same_inserted_id /\ z.any_deleted = y.any_deleted
      /\ z.inserted = y.inserted
      /\ \A i \in Offsets : z.deleted[i] = IF i \in offsets THEN t ELSE y.deleted[i]
    BY <1>0, <1>3, CommitDeleteFields
<1> HIDE DEF z
<1>5. PICK new \in {y, z} :
        /\ info' = [info EXCEPT ![v] = new]
        /\ \/ undo' = undo
           \/ /\ undo' = [undo EXCEPT
                      ![t] = Append(@, [type |-> "delete", vector |-> v, rows |-> offsets])]
              /\ ~DeleteConflict(y, offsets)
    BY DEF Delete, x, y, z
<1>6. /\ new \in Infos /\ new.type = "vector" /\ new.insert_id = x.insert_id
      /\ new.same_inserted_id = x.same_inserted_id /\ new.any_deleted = TRUE
      /\ new.inserted = x.inserted
      /\ \A i \in Offsets : new.deleted[i] \in {t, x.deleted[i]}
    BY <1>3, <1>4, <1>5
<1>7. info'[v] = new /\ (\A w \in Vectors \ {v} : info'[w] = info[w]) /\ info' \in [Vectors -> Infos]
    BY <1>0, <1>5, <1>6
<1>8. InfoInv'
    BY <1>7 DEF InfoInv
<1>9. IdsInv'
    <2>1. UNCHANGED current_start_timestamp
        BY DEF Delete, manager
    <2>2. \A id : id \in KnownIds' <=> id \in KnownIds
        BY <2>1 DEF KnownIds
    <2>3. Known(info[v])
        BY DEF IdsInv
    <2>4. \A i \in Offsets : IdOf(info[v], i) \in KnownIds
        BY <1>0, <1>1, <2>3, InfoFields DEF Known, IdOf
    <2>5. x.insert_id \in KnownIds
        BY <1>0, <1>1, <1>2, <2>3, InfoFields DEF Known
    <2>6. \A i \in Offsets : x.deleted[i] \in KnownIds
        BY <1>2, <2>3, KnownFacts DEF Known
    <2>7. Known(new)'
        BY <1>2, <1>6, <2>2, <2>4, <2>5, <2>6, KnownFacts DEF Known
    <2>8. \A w \in Vectors \ {v} : Known(info[w])'
        BY <1>7, <2>2 DEF IdsInv, Known
    <2> QED BY <1>7, <2>7, <2>8 DEF IdsInv, Known
<1>10. SameIds
    <2>1. \A i \in Offsets : IdOf(info'[v], i) = IdOf(info[v], i)
        BY <1>2, <1>6, <1>7 DEF IdOf
    <2> QED BY <1>1, <1>6, <1>7, <2>1 DEF SameIds
<1>11. SameShortcuts
    <2>1. CASE info[v].type = "vector"
        BY <1>2, <1>6, <1>7, <2>1 DEF SameShortcuts, VectorInv
    <2>2. CASE info[v].type # "vector"
        <3>1. info[v].type = "constant"
            BY <1>0, <1>1, <2>2, InfoFields
        <3>2. \A i \in Offsets : new.inserted[i] = new.insert_id
            BY <1>2, <1>6, <3>1 DEF IdOf
        <3> QED BY <1>6, <1>7, <3>2 DEF SameShortcuts, VectorInv
    <2> QED BY <2>1, <2>2
<1>12. KeepsDeleted
    BY <1>6, <1>7 DEF KeepsDeleted
<1>13. ~DeleteConflict(y, offsets) => \A i \in offsets : info'[v].inserted[i] < TransactionIdStart
    <2> SUFFICES ASSUME ~DeleteConflict(y, offsets), NEW i \in offsets
                 PROVE  info'[v].inserted[i] < TransactionIdStart
        OBVIOUS
    <2>1. ~(y.inserted[i] >= TransactionIdStart)
        BY DEF DeleteConflict
    <2>2. y.inserted[i] \in Nat
        <3>1. y.inserted \in [Offsets -> Ids]
            BY <1>3, InfoFields
        <3> QED BY <3>1, ChunkInfoAssumption DEF Ids
    <2>3. info'[v].inserted[i] = y.inserted[i]
        BY <1>3, <1>6, <1>7
    <2> QED BY <2>1, <2>2, <2>3, ChunkInfoAssumption
<1> QED
    BY <1>5, <1>6, <1>7, <1>8, <1>9, <1>10, <1>11, <1>12, <1>13

\* Commit, revert and rollback of a deletion.
LEMMA CommitDeleteEffect ==
    ASSUME StateInv, InfoInv, IdsInv, VectorInv, DeleteInv, NEW t \in Txns, NEW k \in 1 .. Len(undo[t]),
           LiveDelete(t, k), NEW id \in Ids, id \in KnownIds, info' = CommitDelete(undo[t][k], id),
           UNCHANGED current_start_timestamp
    PROVE  InfoInv' /\ IdsInv' /\ SameIds /\ SameShortcuts /\ KeepsDeleted
<1>0. PICK v \in Vectors, rows \in SUBSET Offsets, x \in Infos :
        v = undo[t][k].vector /\ rows = undo[t][k].rows /\ x = info[v]
    BY EntryTypes DEF LiveDelete, InfoInv
<1>a. info \in [Vectors -> Infos]
    BY DEF InfoInv
<1>1. x.type = "vector"
    BY <1>0 DEF DeleteInv
<1>c. x.any_deleted
    BY <1>0 DEF DeleteInv
<1>2. PICK new : new = CommitDeleteInfo(x, rows, id)
    OBVIOUS
<1>b. info' = [info EXCEPT ![v] = new]
    BY <1>0, <1>2, <1>a DEF CommitDelete
<1>3. /\ new \in Infos /\ new.type = "vector" /\ new.insert_id = x.insert_id
      /\ new.same_inserted_id = x.same_inserted_id /\ new.any_deleted = x.any_deleted
      /\ new.inserted = x.inserted
      /\ \A i \in Offsets : new.deleted[i] = IF i \in rows THEN id ELSE x.deleted[i]
    BY <1>1, <1>2, CommitDeleteFields
<1>4. info'[v] = new /\ (\A w \in Vectors \ {v} : info'[w] = info[w]) /\ info' \in [Vectors -> Infos]
      /\ info[v] = x
    BY <1>0, <1>3, <1>a, <1>b
<1>5. InfoInv'
    BY <1>4 DEF InfoInv
<1>6. IdsInv'
    <2>1. \A z : z \in KnownIds' <=> z \in KnownIds
        BY DEF KnownIds
    <2>2. Known(x)
        BY <1>0, <1>4 DEF IdsInv
    <2>3. Known(new)'
        BY <1>1, <1>3, <2>1, <2>2 DEF Known
    <2>4. \A w \in Vectors \ {v} : Known(info[w])'
        BY <1>4, <2>1 DEF IdsInv, Known
    <2> QED BY <1>0, <1>4, <2>3, <2>4 DEF IdsInv, Known
<1>7. SameIds
    <2>1. \A i \in Offsets : IdOf(new, i) = IdOf(x, i)
        BY <1>1, <1>3 DEF IdOf
    <2> QED BY <1>1, <1>3, <1>4, <2>1 DEF SameIds
<1>8. SameShortcuts
    <2>1. ASSUME NEW w \in Vectors, info'[w].type = "vector"
          PROVE  /\ ~info'[w].any_deleted => \A i \in Offsets : info'[w].deleted[i] = NotDeletedId
                 /\ info'[w].same_inserted_id =>
                       \/ /\ info[w].type = "vector" /\ info[w].same_inserted_id
                          /\ info'[w].insert_id = info[w].insert_id
                       \/ \A i \in Offsets : info'[w].inserted[i] = info'[w].insert_id
        <3>1. CASE w = v
            BY <1>1, <1>c, <1>3, <1>4, <3>1
        <3>2. CASE w # v
            BY <1>4, <2>1, <3>2 DEF VectorInv
        <3> QED BY <3>1, <3>2
    <2> QED BY <2>1 DEF SameShortcuts
<1>9. KeepsDeleted
    BY <1>c, <1>3, <1>4 DEF KeepsDeleted
<1> QED
    BY <1>5, <1>6, <1>7, <1>8, <1>9

\* A row of a table with the new size.
LEMMA RowPlaces ==
    ASSUME NEW r \in Nat, NEW n \in Nat, n <= MaxRows, r < n
    PROVE  /\ VectorOf(r) \in Vectors /\ OffsetOf(r) \in Offsets
           /\ VectorOf(r) \in Nat /\ Base(VectorOf(r)) \in Nat
           /\ r = Base(VectorOf(r)) + OffsetOf(r)
           /\ InsertedId(r) = IdOf(info[VectorOf(r)], OffsetOf(r))
           /\ InsertedId(r)' = IdOf(info'[VectorOf(r)], OffsetOf(r))
<1>1. r \in Rows
    BY DataTableAssumption DEF Rows
<1>2. /\ VectorOf(r) \in Vectors /\ OffsetOf(r) \in Offsets
      /\ VectorOf(r) \in Nat /\ Base(VectorOf(r)) \in Nat
      /\ r = Base(VectorOf(r)) + OffsetOf(r)
    BY <1>1, RowPlace, VectorsAreNat
<1>3. InsertedId(r) = IdOf(info[VectorOf(r)], OffsetOf(r))
    BY DEF InsertedId, IdOf
<1>4. InsertedId(r)' = IdOf(info'[VectorOf(r)], OffsetOf(r))
    BY DEF InsertedId, IdOf
<1> QED
    BY <1>2, <1>3, <1>4

LEMMA SameIdsFacts ==
    ASSUME StateInv, BoundInv, SameIds, UNCHANGED total_rows
    PROVE  /\ \A r \in Nat : r < total_rows => InsertedId(r)' = InsertedId(r)
           /\ FillInv => FillInv'
<1>0. total_rows \in Nat /\ total_rows <= MaxRows
    BY DEF StateInv, BoundInv
<1>1. ASSUME NEW r \in Nat, r < total_rows
      PROVE  InsertedId(r)' = InsertedId(r)
    <2>1. r \in Nat /\ r < total_rows
        BY <1>1
    <2>2. /\ VectorOf(r) \in Vectors /\ OffsetOf(r) \in Offsets
          /\ InsertedId(r) = IdOf(info[VectorOf(r)], OffsetOf(r))
          /\ InsertedId(r)' = IdOf(info'[VectorOf(r)], OffsetOf(r))
        BY <1>0, <2>1, RowPlaces
    <2> QED BY <2>2 DEF SameIds
<1>2. FillInv => FillInv'
    BY DEF FillInv, SameIds
<1> QED
    BY <1>1, <1>2

\* The rows from start on are cut off.
LEMMA CutEffect ==
    ASSUME StateInv, BoundInv, InfoInv, IdsInv, FillInv, VectorInv, NEW start \in Nat, start <= total_rows,
           CoversConstants(start, total_rows), total_rows' = start, info' = RevertInfo(start),
           UNCHANGED current_start_timestamp
    PROVE  /\ InfoInv' /\ IdsInv' /\ FillInv' /\ SameShortcuts
           /\ \A v \in Vectors : info'[v] = IF Base(v) < start THEN info[v] ELSE EmptyInfo
           /\ \A v \in Vectors : info'[v].type = "constant" => info[v].type = "constant"
           /\ \A r \in Nat : r < total_rows' => InsertedId(r)' = InsertedId(r)
<1>0. total_rows \in Nat /\ total_rows <= MaxRows /\ info \in [Vectors -> Infos]
    BY DEF StateInv, BoundInv, InfoInv
<1>1. info' \in [Vectors -> Infos]
    BY <1>0, EmptyFields DEF RevertInfo
<1>2. ASSUME NEW v \in Vectors
      PROVE  info'[v] = IF Base(v) < start THEN info[v] ELSE EmptyInfo
    <2>1. Base(v) \in Nat
        BY VectorsAreNat
    <2> QED BY <2>1 DEF RevertInfo, Base
<1>3. IdsInv'
    <2>1. \A z : z \in KnownIds' <=> z \in KnownIds
        BY DEF KnownIds
    <2>2. ASSUME NEW v \in Vectors
          PROVE  Known(info[v])'
        <3>1. CASE info'[v] = info[v]
            BY <2>1, <3>1 DEF IdsInv, Known
        <3>2. CASE info'[v] = EmptyInfo
            BY <3>2, EmptyFields DEF Known
        <3> QED BY <1>2, <3>1, <3>2
    <2> QED BY <2>2 DEF IdsInv
<1>4. FillInv'
    <2>1. ASSUME NEW v \in Vectors
          PROVE  /\ info'[v].type # "empty" <=> Base(v) < start
                 /\ info'[v].type = "constant" => Base(v) + VectorSize <= start
        <3>0. Base(v) \in Nat
            BY VectorsAreNat
        <3>1. CASE Base(v) < start
            <4>1. info'[v] = info[v] /\ Base(v) < total_rows
                BY <1>0, <1>2, <3>0, <3>1
            <4>2. info[v].type # "empty"
                BY <4>1 DEF FillInv
            <4>3. ASSUME info[v].type = "constant"
                  PROVE  Base(v) + VectorSize <= start
                BY <1>0, <3>0, <3>1, <4>1, <4>3, ChunkInfoAssumption DEF CoversConstants
            <4> QED BY <3>1, <4>1, <4>2, <4>3
        <3>2. CASE ~(Base(v) < start)
            BY <1>2, <3>2, EmptyFields
        <3> QED BY <3>1, <3>2
    <2> QED BY <2>1 DEF FillInv
<1>5. SameShortcuts
    <2>1. \A v \in Vectors : info'[v].type = "vector" => info'[v] = info[v]
        BY <1>2, EmptyFields
    <2> QED BY <2>1 DEF SameShortcuts, VectorInv
<1>6. \A v \in Vectors : info'[v].type = "constant" => info[v].type = "constant"
    BY <1>2, EmptyFields
<1>7. ASSUME NEW r \in Nat, r < total_rows'
      PROVE  InsertedId(r)' = InsertedId(r)
    <2>1. r \in Nat /\ r < start
        BY <1>7
    <2>2. start <= MaxRows
        BY <1>0, DataTableAssumption
    <2>3. /\ VectorOf(r) \in Vectors /\ OffsetOf(r) \in Offsets /\ Base(VectorOf(r)) \in Nat
          /\ r = Base(VectorOf(r)) + OffsetOf(r)
          /\ InsertedId(r) = IdOf(info[VectorOf(r)], OffsetOf(r))
          /\ InsertedId(r)' = IdOf(info'[VectorOf(r)], OffsetOf(r))
        BY <2>1, <2>2, RowPlaces
    <2>4. Base(VectorOf(r)) < start
        BY <2>1, <2>3, ChunkInfoAssumption DEF Offsets
    <2>5. info'[VectorOf(r)] = info[VectorOf(r)]
        BY <1>2, <2>3, <2>4
    <2> QED BY <2>3, <2>5
<1> QED
    BY <1>1, <1>2, <1>3, <1>4, <1>5, <1>6, <1>7 DEF InfoInv

\* An append is marked with the commit id.
LEMMA CommitAppendEffect ==
    ASSUME StateInv, BoundInv, InfoInv, IdsInv, FillInv, ClockInv, TickInv, EntryInv, NEW t \in Txns,
           NEW k \in 1 .. Len(undo[t]), LiveInsert(t, k), info' = CommitAppend(undo[t][k], commit_id[t]),
           UNCHANGED <<current_start_timestamp, total_rows>>
    PROVE  /\ InfoInv' /\ IdsInv' /\ FillInv'
           /\ \A v \in Vectors : info'[v].type = info[v].type
           /\ \A r \in Nat : r < total_rows =>
                 InsertedId(r)' = IF r \in RowsOf(undo[t][k]) THEN commit_id[t] ELSE InsertedId(r)
           /\ \A v \in Vectors : info[v].type = "vector" =>
                 /\ info'[v].same_inserted_id <=> info[v].same_inserted_id
                 /\ info'[v].any_deleted <=> info[v].any_deleted
                 /\ info'[v].deleted = info[v].deleted
                 /\ \/ info'[v] = info[v]
                    \/ /\ info[v].same_inserted_id => info'[v].insert_id = commit_id[t]
                       /\ \E i \in Offsets : Base(v) + i \in RowsOf(undo[t][k])
<1>0. total_rows \in Nat /\ total_rows <= MaxRows /\ info \in [Vectors -> Infos]
    BY DEF StateInv, BoundInv, InfoInv
<1>1. PICK start \in Nat, end \in Nat : start < end /\ start = undo[t][k].start /\ end = End(undo[t][k])
    BY EntryTypes DEF LiveInsert
<1>2. PICK c \in Ids : c = commit_id[t] /\ c \in KnownIds
    BY CommitIds, KnownFacts
<1>3. end <= total_rows /\ CoversConstants(start, end)
    BY <1>1 DEF EntryInv
<1>4. \A r : r \in RowsOf(undo[t][k]) <=> r \in Nat /\ start <= r /\ r < end
    BY <1>1 DEF RowsOf
<1>5. info' = [v \in Vectors |->
            IF v \in VectorsBetween(start, end)
            THEN CommitAppendInfo(info[v], FirstOffset(v, start), EndOffset(v, end), c)
            ELSE info[v]]
    BY <1>1, <1>2 DEF CommitAppend, End
\* One vector.
<1>6. ASSUME NEW v \in Vectors
      PROVE  /\ info'[v] \in Infos /\ Known(info[v])' /\ info'[v].type = info[v].type
             /\ \A i \in Offsets : Base(v) + i < total_rows =>
                   IdOf(info'[v], i) = IF start <= Base(v) + i /\ Base(v) + i < end THEN c ELSE IdOf(info[v], i)
             /\ info[v].type = "vector" =>
                   /\ info'[v].same_inserted_id <=> info[v].same_inserted_id
                   /\ info'[v].any_deleted <=> info[v].any_deleted
                   /\ info'[v].deleted = info[v].deleted
                   /\ \/ info'[v] = info[v]
                      \/ /\ info[v].same_inserted_id => info'[v].insert_id = c
                         /\ \E i \in Offsets : start <= Base(v) + i /\ Base(v) + i < end
    <2>0. v \in Nat /\ Base(v) \in Nat
        BY VectorsAreNat
    <2>a. PICK x \in Infos : x = info[v]
        BY <1>0
    <2>b. Known(x) /\ \A z : z \in KnownIds' <=> z \in KnownIds
        BY <2>a DEF IdsInv, KnownIds
    <2>1. CASE v \in VectorsBetween(start, end)
        <3>0. /\ FirstOffset(v, start) \in Offsets
              /\ EndOffset(v, end) \in 1 .. VectorSize
              /\ FirstOffset(v, start) < EndOffset(v, end)
              /\ FirstOffset(v, start) = 0 <=> start <= Base(v)
              /\ EndOffset(v, end) = VectorSize <=> Base(v) + VectorSize <= end
              /\ \A i \in Offsets : i \in FirstOffset(v, start) .. (EndOffset(v, end) - 1) <=>
                                      start <= Base(v) + i /\ Base(v) + i < end
            BY <1>1, <2>0, <2>1, Geometry
        <3>1. PICK a \in Offsets, b \in 1 .. VectorSize :
                /\ a = FirstOffset(v, start) /\ b = EndOffset(v, end) /\ a < b
                /\ a = 0 <=> start <= Base(v)
                /\ b = VectorSize <=> Base(v) + VectorSize <= end
                /\ \A i \in Offsets : i \in a .. (b - 1) <=> start <= Base(v) + i /\ Base(v) + i < end
            BY <3>0
        <3>2. Base(v) < end /\ start < Base(v) + VectorSize
            BY <1>1, <2>0, <2>1, Geometry
        <3>3. x.type # "empty"
            BY <1>0, <1>3, <2>0, <2>a, <3>2 DEF FillInv
        <3>4. PICK y : y = CommitAppendInfo(x, a, b, c)
            OBVIOUS
        <3>5. info'[v] = y
            BY <1>5, <2>1, <2>a, <3>1, <3>4
        <3>6. /\ y \in Infos /\ y.type = x.type
              /\ x.type = "constant" => y = ConstantInfo(c, x.delete_id)
              /\ x.type = "vector" =>
                   /\ \A i \in Offsets : y.inserted[i] = IF i \in a .. (b - 1) THEN c ELSE x.inserted[i]
                   /\ y.insert_id = IF x.same_inserted_id THEN c ELSE x.insert_id
                   /\ y.same_inserted_id = x.same_inserted_id /\ y.any_deleted = x.any_deleted
                   /\ y.deleted = x.deleted
            BY <3>3, <3>4, CommitAppendFields
        <3>7. \A i \in Offsets : i \in a .. (b - 1) <=> start <= Base(v) + i /\ Base(v) + i < end
            BY <3>1
        <3>8. CASE x.type = "constant"
            <4>1. a = 0 /\ b = VectorSize
                BY <1>3, <2>a, <3>1, <3>2, <3>8 DEF CoversConstants
            <4>2. \A i \in Offsets : i \in a .. (b - 1)
                BY <4>1 DEF Offsets
            <4>3. x.delete_id \in Ids /\ x.delete_id \in KnownIds
                BY <2>b, <3>8, InfoFields DEF Known
            <4>4. y.type = "constant" /\ y.insert_id = c /\ y.delete_id = x.delete_id
                BY <3>6, <3>8, <4>3, ConstantFields
            <4>5. Known(y)'
                BY <1>2, <2>b, <4>3, <4>4 DEF Known
            <4>6. \A i \in Offsets : IdOf(y, i) = c
                BY <4>4 DEF IdOf
            <4>7. \A i \in Offsets : start <= Base(v) + i /\ Base(v) + i < end
                BY <3>7, <4>2
            <4> QED BY <2>a, <3>5, <3>6, <3>8, <4>5, <4>6, <4>7 DEF Known
        <3>9. CASE x.type = "vector"
            <4>1. Known(y)'
                BY <1>2, <2>b, <3>6, <3>9 DEF Known
            <4>2. \A i \in Offsets : IdOf(y, i) = IF start <= Base(v) + i /\ Base(v) + i < end THEN c ELSE IdOf(x, i)
                BY <3>6, <3>7, <3>9 DEF IdOf
            <4>3. a \in a .. (b - 1)
                BY <3>1 DEF Offsets
            <4>4. \E i \in Offsets : start <= Base(v) + i /\ Base(v) + i < end
                BY <3>1, <3>7, <4>3
            <4>5. x.same_inserted_id => y.insert_id = c
                BY <3>6, <3>9
            <4>6. (y.same_inserted_id <=> x.same_inserted_id) /\ (y.any_deleted <=> x.any_deleted)
                  /\ y.deleted = x.deleted
                BY <3>6, <3>9
            <4> QED BY <2>a, <3>5, <3>6, <3>9, <4>1, <4>2, <4>4, <4>5, <4>6 DEF Known
        <3> QED BY <3>3, <3>8, <3>9, InfoFields
    <2>2. CASE v \notin VectorsBetween(start, end)
        <3>1. info'[v] = x
            BY <1>5, <2>2, <2>a
        <3>2. ~(Base(v) < end /\ start < Base(v) + VectorSize)
            BY <1>1, <2>0, <2>2, Geometry
        <3>3. \A i \in Offsets : ~(start <= Base(v) + i /\ Base(v) + i < end)
            BY <1>1, <2>0, <3>2, ChunkInfoAssumption DEF Offsets
        <3>4. Known(info[v])'
            BY <2>b, <3>1 DEF Known
        <3> QED BY <2>a, <3>1, <3>3, <3>4
    <2> QED BY <2>1, <2>2
<1>7. InfoInv'
    BY <1>5, <1>6 DEF InfoInv
<1>8. IdsInv'
    BY <1>6 DEF IdsInv
<1>9. FillInv'
    BY <1>6 DEF FillInv
<1>10. ASSUME NEW r \in Nat, r < total_rows
       PROVE  InsertedId(r)' = IF start <= r /\ r < end THEN c ELSE InsertedId(r)
    <2>1. r \in Nat /\ r < total_rows
        BY <1>10
    <2>2. PICK v \in Vectors, i \in Offsets :
             r = Base(v) + i /\ InsertedId(r) = IdOf(info[v], i) /\ InsertedId(r)' = IdOf(info'[v], i)
        BY <1>0, <2>1, RowPlaces
    <2> QED BY <1>6, <2>1, <2>2
<1>11. \A v \in Vectors : \A i \in Offsets : start <= Base(v) + i /\ Base(v) + i < end => Base(v) + i \in RowsOf(undo[t][k])
    BY <1>4, PlaceInTable
<1> QED
    BY <1>2, <1>4, <1>6, <1>7, <1>8, <1>9, <1>10, <1>11

\* InitializeAppend publishes rows at the end, with the id of the transaction.
LEMMA AppendEffect ==
    ASSUME StateInv, BoundInv, InfoInv, IdsInv, FillInv, ClockInv, TickInv, VectorInv, NEW t \in Txns,
           InitializeAppend(t), total_rows' <= MaxRows
    PROVE  /\ InfoInv' /\ IdsInv' /\ FillInv' /\ VectorInv' /\ KeepsDeleted
           /\ total_rows' = total_rows + Cardinality(LocalRows(t))
           /\ total_rows' \in Nat /\ total_rows' > total_rows
           /\ \A r \in Nat : r < total_rows' =>
                 InsertedId(r)' = IF r < total_rows THEN InsertedId(r) ELSE t
           /\ \A v \in Vectors : info'[v].type = "constant" =>
                 \/ info[v].type = "constant"
                 \/ total_rows <= Base(v) /\ Base(v) + VectorSize <= total_rows'
<1>0. total_rows \in Nat /\ total_rows <= MaxRows /\ info \in [Vectors -> Infos] /\ t \in Ids
      /\ t \in KnownIds /\ t # 0
    <2>1. total_rows \in Nat /\ total_rows <= MaxRows /\ info \in [Vectors -> Infos]
        BY DEF StateInv, BoundInv, InfoInv
    <2>2. t \in Nat /\ t \in Ids /\ t >= TransactionIdStart
        BY TxnFacts
    <2>3. t # 0
        BY <2>2, ChunkInfoAssumption
    <2> QED BY <2>1, <2>2, <2>3, KnownFacts
<1>1. PICK start \in Nat, end \in Nat :
        start = total_rows /\ end = total_rows' /\ start < end
        /\ total_rows' = total_rows + Cardinality(LocalRows(t))
    <2>1. /\ total_rows' = total_rows + Cardinality(LocalRows(t))
          /\ Cardinality(LocalRows(t)) \in Nat /\ Cardinality(LocalRows(t)) > 0
        BY FlushLength DEF InitializeAppend
    <2>2. total_rows' \in Nat /\ total_rows < total_rows'
        BY <1>0, <2>1
    <2> QED BY <1>0, <2>1, <2>2
<1>2. info' = [v \in Vectors |->
            IF v \in VectorsBetween(start, end)
            THEN AppendInfo(info[v], FirstOffset(v, start), EndOffset(v, end), t)
            ELSE info[v]]
    BY <1>1 DEF InitializeAppend
<1>3. UNCHANGED <<current_start_timestamp, commit_id, status, undo, position>>
    BY DEF InitializeAppend, manager
<1>4. \A a, b : Halfway(a, b)' <=> Halfway(a, b)
    BY <1>3 DEF Halfway, InsertIn
<1>5. \A a \in Txns : \A b : ~Halfway(a, b)
    BY CommitIds DEF Halfway
\* One vector.
<1>6. ASSUME NEW v \in Vectors
      PROVE  /\ info'[v] \in Infos /\ Known(info[v])'
             /\ info'[v].type # "empty" <=> Base(v) < end
             /\ info'[v].type = "constant" => Base(v) + VectorSize <= end
             /\ info'[v].type = "constant" =>
                   info[v].type = "constant" \/ (start <= Base(v) /\ Base(v) + VectorSize <= end)
             /\ \A i \in Offsets : Base(v) + i < end =>
                   IdOf(info'[v], i) = IF Base(v) + i < start THEN IdOf(info[v], i) ELSE t
             /\ info[v].type = "vector" /\ info[v].any_deleted =>
                   info'[v].type = "vector" /\ info'[v].any_deleted
             /\ info'[v].type = "vector" =>
                   /\ ~info'[v].any_deleted => \A i \in Offsets : info'[v].deleted[i] = NotDeletedId
                   /\ info'[v].same_inserted_id => \A i \in Offsets : Base(v) + i < end =>
                         \/ info'[v].inserted[i] = info'[v].insert_id
                         \/ Halfway(info'[v].insert_id, info'[v].inserted[i])
    <2>0. v \in Nat /\ Base(v) \in Nat
        BY VectorsAreNat
    <2>a. PICK x \in Infos : x = info[v]
        BY <1>0
    <2>b. Known(x) /\ \A z : z \in KnownIds' <=> z \in KnownIds
        BY <1>3, <2>a DEF IdsInv, KnownIds
    <2>c. /\ x.type # "empty" <=> Base(v) < start
          /\ x.type = "constant" => Base(v) + VectorSize <= start
        BY <1>1, <2>a DEF FillInv
    <2>d. x.type = "vector" =>
             /\ ~x.any_deleted => \A i \in Offsets : x.deleted[i] = NotDeletedId
             /\ x.same_inserted_id => \A i \in Offsets : Base(v) + i < start =>
                   x.inserted[i] = x.insert_id \/ Halfway(x.insert_id, x.inserted[i])
        BY <1>1, <2>a DEF VectorInv
    <2>1. CASE v \in VectorsBetween(start, end)
        <3>0. /\ FirstOffset(v, start) \in Offsets
              /\ EndOffset(v, end) \in 1 .. VectorSize
              /\ FirstOffset(v, start) < EndOffset(v, end)
              /\ FirstOffset(v, start) = 0 <=> start <= Base(v)
              /\ EndOffset(v, end) = VectorSize <=> Base(v) + VectorSize <= end
              /\ \A i \in Offsets : i \in FirstOffset(v, start) .. (EndOffset(v, end) - 1) <=>
                                      start <= Base(v) + i /\ Base(v) + i < end
            BY <1>1, <2>0, <2>1, Geometry
        <3>1. PICK a \in Offsets, b \in 1 .. VectorSize :
                /\ a = FirstOffset(v, start) /\ b = EndOffset(v, end) /\ a < b
                /\ a = 0 <=> start <= Base(v)
                /\ b = VectorSize <=> Base(v) + VectorSize <= end
                /\ \A i \in Offsets : i \in a .. (b - 1) <=> start <= Base(v) + i /\ Base(v) + i < end
            BY <3>0
        <3>2. Base(v) < end /\ start < Base(v) + VectorSize
            BY <1>1, <2>0, <2>1, Geometry
        <3>3. x.type # "constant"
            BY <2>0, <2>c, <3>2, ChunkInfoAssumption
        <3>4. a # 0 <=> x.type = "vector"
            BY <2>0, <2>c, <3>1, <3>3, InfoFields
        <3>5. PICK y : y = AppendInfo(x, a, b, t)
            OBVIOUS
        <3>6. info'[v] = y
            BY <1>2, <2>1, <2>a, <3>1, <3>5
        <3>7. /\ y \in Infos /\ y.type # "empty"
              /\ y.type = "constant" <=> a = 0 /\ b = VectorSize
              /\ y.type = "constant" => y = ConstantInfo(t, NotDeletedId)
              /\ \A i \in Offsets : IdOf(y, i) = IF i \in a .. (b - 1) THEN t ELSE IdOf(x, i)
              /\ y.type = "vector" =>
                   /\ y.any_deleted <=> (x.type = "vector" /\ x.any_deleted)
                   /\ \A i \in Offsets : y.deleted[i] = IF x.type = "vector" THEN x.deleted[i]
                                                        ELSE NotDeletedId
                   /\ y.insert_id \in {t, NotDeletedId}
                   /\ y.same_inserted_id =>
                        /\ y.insert_id = t
                        /\ a = 0 \/ (IF x.type = "vector" THEN x.same_inserted_id /\ x.insert_id = t
                                     ELSE t = 0)
            BY <1>0, <3>1, <3>3, <3>5, AppendFields
        <3>8. \A i \in Offsets : Base(v) + i < end =>
                 IdOf(y, i) = IF Base(v) + i < start THEN IdOf(x, i) ELSE t
            <4> SUFFICES ASSUME NEW i \in Offsets, Base(v) + i < end
                         PROVE  IdOf(y, i) = IF Base(v) + i < start THEN IdOf(x, i) ELSE t
                OBVIOUS
            <4>1. i \in a .. (b - 1) <=> ~(Base(v) + i < start)
                BY <2>0, <3>1, ChunkInfoAssumption DEF Offsets
            <4> QED BY <3>7, <4>1
        <3>9. CASE y.type = "constant"
            <4>1. y.insert_id = t /\ y.delete_id = NotDeletedId
                BY <1>0, <3>7, <3>9, IdFacts, ConstantFields
            <4>2. Known(y)'
                BY <1>0, <2>b, <3>9, <4>1, KnownFacts DEF Known
            <4>3. x.type # "vector" /\ start <= Base(v) /\ Base(v) + VectorSize <= end
                BY <3>1, <3>4, <3>7, <3>9
            <4> QED BY <2>a, <3>2, <3>6, <3>7, <3>8, <3>9, <4>2, <4>3 DEF Known
        <3>10. CASE y.type = "vector"
            <4>0. \A i \in Offsets : y.inserted[i] = IdOf(y, i)
                BY <3>10 DEF IdOf
            <4>1. x.type = "vector" => \A i \in Offsets : x.inserted[i] = IdOf(x, i)
                BY DEF IdOf
            <4>2. \A i \in Offsets : IdOf(x, i) \in KnownIds /\ (x.type = "vector" => x.deleted[i] \in KnownIds)
                BY <2>b, <3>3, <4>1, InfoFields, KnownFacts DEF Known, IdOf
            <4>3. Known(y)'
                <5>1. y.insert_id \in KnownIds'
                    BY <1>0, <2>b, <3>7, <3>10, KnownFacts
                <5>2. ASSUME NEW i \in Offsets
                      PROVE  y.inserted[i] \in KnownIds' /\ y.deleted[i] \in KnownIds'
                    BY <1>0, <2>b, <3>7, <3>10, <4>0, <4>2, KnownFacts
                <5> QED BY <3>10, <5>1, <5>2 DEF Known
            <4>4. ~y.any_deleted => \A i \in Offsets : y.deleted[i] = NotDeletedId
                BY <2>d, <3>7, <3>10
            <4>5. ASSUME y.same_inserted_id, NEW i \in Offsets, Base(v) + i < end
                  PROVE  y.inserted[i] = y.insert_id
                <5>1. y.insert_id = t
                    BY <3>7, <3>10, <4>5
                <5>2. CASE Base(v) + i < start
                    <6>1. a # 0 /\ x.type = "vector"
                        BY <2>0, <2>c, <3>1, <3>4, <5>2, <1>1 DEF Offsets
                    <6>2. x.same_inserted_id /\ x.insert_id = t
                        BY <3>7, <3>10, <4>5, <6>1
                    <6>3. x.inserted[i] = t
                        BY <1>5, <2>d, <5>2, <6>1, <6>2
                    <6> QED BY <3>8, <4>0, <4>1, <4>5, <5>1, <5>2, <6>1, <6>3
                <5>3. CASE ~(Base(v) + i < start)
                    BY <3>8, <4>0, <4>5, <5>1, <5>3
                <5> QED BY <5>2, <5>3
            <4>6. (x.type = "vector" /\ x.any_deleted) => y.any_deleted
                BY <3>7, <3>10
            <4>7. Known(info[v])'
                BY <3>6, <4>3 DEF Known
            <4>8. y.type # "constant" /\ y.type # "empty"
                BY <3>10
            <4> QED BY <2>a, <3>2, <3>6, <3>7, <3>8, <3>10, <4>4, <4>5, <4>6, <4>7, <4>8
        <3> QED BY <3>7, <3>9, <3>10, InfoFields
    <2>2. CASE v \notin VectorsBetween(start, end)
        <3>1. info'[v] = x
            BY <1>2, <2>2, <2>a
        <3>2. ~(Base(v) < end /\ start < Base(v) + VectorSize)
            BY <1>1, <2>0, <2>2, Geometry
        <3>3. Base(v) < end <=> Base(v) < start
            BY <1>1, <2>0, <3>2, ChunkInfoAssumption
        <3>4. \A i \in Offsets : Base(v) + i < end <=> Base(v) + i < start
            BY <1>1, <2>0, <3>2, ChunkInfoAssumption DEF Offsets
        <3>5. Known(info[v])'
            BY <2>b, <3>1 DEF Known
        <3>6. x.type = "constant" => Base(v) + VectorSize <= end
            BY <1>1, <2>0, <2>c, ChunkInfoAssumption
        <3> QED BY <2>a, <2>c, <2>d, <3>1, <3>3, <3>4, <3>5, <3>6
    <2> QED BY <2>1, <2>2
<1>7. InfoInv'
    BY <1>2, <1>6 DEF InfoInv
<1>8. IdsInv'
    BY <1>6 DEF IdsInv
<1>9. FillInv'
    BY <1>1, <1>6 DEF FillInv
<1>10. VectorInv'
    <2>1. ASSUME NEW v \in Vectors, info'[v].type = "vector"
          PROVE  (/\ ~info[v].any_deleted => \A i \in Offsets : info[v].deleted[i] = NotDeletedId
                  /\ info[v].same_inserted_id => \A i \in Offsets : Base(v) + i < total_rows =>
                          \/ info[v].inserted[i] = info[v].insert_id
                          \/ Halfway(info[v].insert_id, info[v].inserted[i]))'
        <3>1. PICK y : y = info'[v]
            OBVIOUS
        <3>2. /\ ~y.any_deleted => \A i \in Offsets : y.deleted[i] = NotDeletedId
              /\ y.same_inserted_id => \A i \in Offsets : Base(v) + i < end =>
                         \/ y.inserted[i] = y.insert_id
                         \/ Halfway(y.insert_id, y.inserted[i])'
            BY <1>4, <1>6, <2>1, <3>1
        <3> QED BY <1>1, <3>1, <3>2 DEF Halfway
    <2> QED BY <2>1 DEF VectorInv
<1>11. ASSUME NEW r \in Nat, r < total_rows'
       PROVE  InsertedId(r)' = IF r < total_rows THEN InsertedId(r) ELSE t
    <2>1. r \in Nat /\ r < end /\ end <= MaxRows
        BY <1>1, <1>11
    <2>2. PICK v \in Vectors, i \in Offsets :
             r = Base(v) + i /\ InsertedId(r) = IdOf(info[v], i) /\ InsertedId(r)' = IdOf(info'[v], i)
        BY <2>1, RowPlaces
    <2> QED BY <1>1, <1>6, <2>1, <2>2
<1>12. KeepsDeleted
    BY <1>6 DEF KeepsDeleted
<1>13. \A v \in Vectors : info'[v].type = "constant" =>
                 \/ info[v].type = "constant"
                 \/ total_rows <= Base(v) /\ Base(v) + VectorSize <= total_rows'
    BY <1>1, <1>6
<1> QED
    BY <1>1, <1>7, <1>8, <1>9, <1>10, <1>11, <1>12, <1>13

-----------------------------------------------------------------------------
(***************************************************************************)
(* What a step keeps.                                                      *)
(***************************************************************************)

\* A step changes nothing of the other transactions but the undo buffers it cleans up.
Others(t) == \A u \in Txns \ {t} :
    /\ UNCHANGED <<status[u], position[u], last[u], commit_id[u], local[u]>>
    /\ undo'[u] = undo[u] \/ (status[u] \in Ended /\ undo'[u] = << >>)

LEMMA OthersStep ==
    ASSUME StateInv, NEW t \in Txns, Step(t)
    PROVE  Others(t)
<1>0. /\ status \in [Txns -> Statuses] /\ position \in [Txns -> Nat] /\ last \in [Txns -> Nat]
      /\ undo \in [Txns -> Seq(InsertEntries \union DeleteEntries)] /\ commit_id \in [Txns -> Nat]
      /\ local \in [Txns -> [values : Seq(Values), deleted : SUBSET Nat]]
    BY DEF StateInv
<1>1. CASE StartTransaction(t)
    BY <1>0, <1>1 DEF StartTransaction, progress, Others
<1>2. ASSUME NEW v \in Values, Insert(t, v)
      PROVE  Others(t)
    BY <1>0, <1>2 DEF Insert, progress, manager, Others
<1>17. ASSUME NEW v \in Values, InsertFails(t, v)
       PROVE  Others(t)
    BY <1>0, <1>17 DEF InsertFails, progress, manager, Others
<1>3. ASSUME NEW i \in 1 .. MaxLocal, LocalDelete(t, i)
      PROVE  Others(t)
    BY <1>0, <1>3 DEF LocalDelete, progress, manager, Others
<1>4. ASSUME NEW v \in Vectors, NEW offsets \in SUBSET Offsets, Delete(t, v, offsets)
      PROVE  Others(t)
    <2>1. \A u \in Txns \ {t} : undo'[u] = undo[u] /\ status'[u] = status[u]
        BY <1>0, <1>4 DEF Delete
    <2> QED BY <1>0, <1>4, <2>1 DEF Delete, progress, manager, Others
<1>5. CASE InitializeAppend(t) \/ InitializeScan(t) \/ ScanBaseTable(t) \/ ScanColumns(t) \/ ScanLocal(t)
    BY <1>5 DEF InitializeAppend, InitializeScan, ScanBaseTable, ScanColumns, ScanLocal, progress, manager, Others
<1>6. CASE NothingToFlush(t)
    BY <1>0, <1>6 DEF NothingToFlush, manager, Others
<1>7. CASE AppendRows(t)
    BY <1>0, <1>7 DEF AppendRows, manager, Others
<1>8. CASE RevertFlush(t)
    <2>1. PICK unset \in 0 .. Len(undo[t]) : last' = [last EXCEPT ![t] = unset]
        BY <1>8 DEF RevertFlush
    <2> QED BY <1>0, <1>8, <2>1 DEF RevertFlush, manager, Others
<1>9. CASE CommitTransaction(t)
    BY <1>0, <1>9 DEF CommitTransaction, Others
<1>10. CASE CommitEntry(t)
    BY <1>0, <1>10 DEF CommitEntry, manager, Others
<1>11. CASE LogFailure(t)
    BY <1>0, <1>11 DEF LogFailure, manager, Others
<1>12. CASE RevertCommit(t)
    BY <1>0, <1>12 DEF RevertCommit, manager, Others
<1>13. CASE RevertDone(t)
    BY <1>0, <1>13 DEF RevertDone, Others
<1>14. CASE RollbackTransaction(t)
    BY <1>0, <1>14 DEF RollbackTransaction, Others
<1>15. CASE RollbackEntry(t)
    BY <1>0, <1>15 DEF RollbackEntry, manager, Others
<1>16. ASSUME NEW outcome \in {"committed", "aborted"}, RemoveTransaction(t, outcome)
       PROVE  Others(t)
    <2>1. \A u \in Txns \ {t} : undo'[u] = undo[u] \/ (status[u] \in Ended /\ undo'[u] = << >>)
        BY <1>0, <1>16 DEF RemoveTransaction, NoLongerNeeded, Ended
    <2> QED BY <1>0, <1>16, <2>1 DEF RemoveTransaction, Others
<1> QED
    BY <1>1, <1>2, <1>3, <1>4, <1>5, <1>6, <1>7, <1>8, <1>9, <1>10, <1>11, <1>12, <1>13,
       <1>14, <1>15, <1>16, <1>17 DEF Step, FinishCommit, FinishRollback

\* An append that stays what it is.
Kept(u, k) ==
    /\ k \in 1 .. Len(undo[u]) /\ LiveInsert(u, k) /\ undo'[u][k] = undo[u][k]
    /\ EntryIds(u, k) \subseteq EntryIds(u, k)'
    /\ End(undo[u][k]) <= total_rows'

\* Rows keep their ids and vectors do not become constants, but for new rows.
RowsKept ==
    /\ total_rows' \in Nat
    /\ \A r \in Nat : r < total_rows /\ r < total_rows' => InsertedId(r)' = InsertedId(r)
    /\ \A v \in Vectors : info'[v].type = "constant" =>
            info[v].type = "constant" \/ total_rows <= Base(v)

LEMMA OtherKept ==
    ASSUME StateInv, EntryInv, NEW t \in Txns, Others(t), NEW u \in Txns \ {t},
           NEW k \in 1 .. Len(undo'[u]), LiveInsert(u, k)', total_rows' \in Nat,
           total_rows' = total_rows \/ (total_rows' > total_rows /\ status[u] # "rollback")
    PROVE  Kept(u, k)
<1>1. /\ status'[u] = status[u] /\ position'[u] = position[u] /\ last'[u] = last[u]
      /\ commit_id'[u] = commit_id[u] /\ status[u] \notin Ended
    BY DEF Others, LiveInsert
<1>2. undo'[u] = undo[u]
    BY <1>1 DEF Others
<1>3. LiveInsert(u, k)
    BY <1>1, <1>2 DEF LiveInsert, InsertIn
<1>4. EntryIds(u, k)' = EntryIds(u, k)
    BY <1>1 DEF EntryIds
<1>5. End(undo[u][k]) <= total_rows /\ End(undo[u][k]) \in Nat
    BY <1>2, <1>3, EntryTypes DEF EntryInv, LiveInsert
<1>6. End(undo[u][k]) <= total_rows'
    <2>1. total_rows \in Nat
        BY DEF StateInv
    <2> QED BY <1>5, <2>1
<1> QED
    BY <1>2, <1>3, <1>4, <1>6 DEF Kept

LEMMA KeptEntry ==
    ASSUME StateInv, EntryInv, RowsKept, NEW u \in Txns, NEW k, Kept(u, k)
    PROVE  /\ k \in 1 .. Len(undo[u]) /\ LiveInsert(u, k) /\ undo'[u][k] = undo[u][k]
           /\ End(undo[u][k]) <= total_rows /\ End(undo[u][k]) <= total_rows'
           /\ \A r \in RowsOf(undo[u][k]) : InsertedId(r)' \in EntryIds(u, k)'
           /\ CoversConstants(undo[u][k].start, End(undo[u][k]))
           /\ CoversConstants(undo[u][k].start, End(undo[u][k]))'
<1>1. k \in 1 .. Len(undo[u]) /\ LiveInsert(u, k) /\ undo'[u][k] = undo[u][k]
    BY DEF Kept
<1>2. PICK start \in Nat, end \in Nat :
        start < end /\ start = undo[u][k].start /\ end = End(undo[u][k]) /\ RowsOf(undo[u][k]) = {r \in Nat : start <= r /\ r < end}
    BY <1>1, EntryTypes DEF LiveInsert, RowsOf
<1>3. end <= total_rows /\ end <= total_rows' /\ total_rows \in Nat
    BY <1>1, <1>2 DEF EntryInv, Kept, StateInv
<1>4. ASSUME NEW r \in Nat, start <= r, r < end
      PROVE  InsertedId(r)' \in EntryIds(u, k)'
    <2>1. InsertedId(r) \in EntryIds(u, k)
        BY <1>1, <1>2, <1>4 DEF EntryInv
    <2>2. r \in Nat /\ r < total_rows
        BY <1>3, <1>4
    <2>3. r < total_rows'
        BY <1>3, <1>4 DEF RowsKept
    <2> QED BY <2>1, <2>2, <2>3 DEF RowsKept, Kept
<1>5. CoversConstants(start, end)
    BY <1>1, <1>2 DEF EntryInv
<1>6. CoversConstants(start, end)'
    <2> SUFFICES ASSUME NEW v \in Vectors, info'[v].type = "constant", Base(v) < end,
                        start < Base(v) + VectorSize
                 PROVE  start <= Base(v) /\ Base(v) + VectorSize <= end
        BY DEF CoversConstants
    <2>1. Base(v) < total_rows
        BY <1>3, VectorsAreNat
    <2>2. info[v].type = "constant"
        BY <1>3, <2>1, VectorsAreNat DEF RowsKept
    <2> QED BY <1>5, <2>2 DEF CoversConstants
<1> QED
    BY <1>1, <1>2, <1>3, <1>4, <1>5, <1>6

\* All appends that are live then are kept.
AllKept == \A u \in Txns : \A k \in 1 .. Len(undo'[u]) : LiveInsert(u, k)' => Kept(u, k)

LEMMA EntryKept ==
    ASSUME StateInv, EntryInv, RowsKept, NEW u \in Txns, NEW k, Kept(u, k)
    PROVE  (/\ End(undo[u][k]) <= total_rows
            /\ \A r \in RowsOf(undo[u][k]) : InsertedId(r) \in EntryIds(u, k)
            /\ CoversConstants(undo[u][k].start, End(undo[u][k])))'
<1>1. /\ undo'[u][k] = undo[u][k]
      /\ End(undo[u][k]) <= total_rows'
      /\ \A r \in RowsOf(undo[u][k]) : InsertedId(r)' \in EntryIds(u, k)'
      /\ CoversConstants(undo[u][k].start, End(undo[u][k]))'
    BY KeptEntry
<1>2. (End(undo[u][k]) <= total_rows)'
    BY <1>1 DEF End
<1>3. (\A r \in RowsOf(undo[u][k]) : InsertedId(r) \in EntryIds(u, k))'
    BY <1>1 DEF RowsOf, End
<1>4. CoversConstants(undo[u][k].start, End(undo[u][k]))'
    BY <1>1
<1> QED
    BY <1>2, <1>3, <1>4

LEMMA EntriesKept ==
    ASSUME StateInv, EntryInv, OrderInv, RowsKept, AllKept
    PROVE  EntryInv' /\ OrderInv'
<1>1. EntryInv'
    BY EntryKept DEF AllKept, EntryInv
<1>2. OrderInv'
    <2> SUFFICES ASSUME NEW u \in Txns, NEW j \in 1 .. Len(undo'[u]), NEW k \in 1 .. Len(undo'[u]),
                        j < k, LiveInsert(u, j)', LiveInsert(u, k)'
                 PROVE  End(undo'[u][j]) <= undo'[u][k].start
        BY DEF OrderInv, End
    <2>1. Kept(u, j) /\ Kept(u, k)
        BY DEF AllKept
    <2> QED BY <2>1 DEF Kept, OrderInv
<1> QED
    BY <1>1, <1>2

LEMMA PendingKept ==
    ASSUME StateInv, PendingInv, RowsKept, AllKept,
           UNCHANGED <<total_rows, append_lock, append_start>>,
           append_lock # NoTxn => status'[append_lock] = status[append_lock]
                                  /\ local'[append_lock] = local[append_lock]
    PROVE  PendingInv'
<1> SUFFICES ASSUME append_lock # NoTxn
             PROVE  PendingInv'
    BY DEF PendingInv
<1>1. PICK p \in Txns : p = append_lock
    BY DEF StateInv
<1>2. /\ status[p] \in {"flush", "commit_flush"} /\ LocalRows(p) # {}
      /\ append_start + Cardinality(LocalRows(p)) = total_rows
      /\ \A r \in Nat : append_start <= r /\ r < total_rows => InsertedId(r) = p
      /\ CoversConstants(append_start, total_rows)
      /\ \A k \in 1 .. Len(undo[p]) : LiveInsert(p, k) => End(undo[p][k]) <= append_start
    BY <1>1 DEF PendingInv
<1>3. total_rows \in Nat /\ append_start \in Nat
    BY DEF StateInv
<1>4. LocalRows(p)' = LocalRows(p)
    BY <1>1 DEF LocalRows
<1>5. Cardinality(LocalRows(p))' = Cardinality(LocalRows(p))
    BY <1>4
<1>6. \A r \in Nat : append_start <= r /\ r < total_rows => InsertedId(r)' = p
    BY <1>2 DEF RowsKept
<1>7. \A v \in Vectors : info'[v].type = "constant" /\ Base(v) < total_rows => info[v].type = "constant"
    BY <1>3, VectorsAreNat DEF RowsKept
<1>8. CoversConstants(append_start, total_rows)'
    BY <1>2, <1>7 DEF CoversConstants
<1>9. \A k \in 1 .. Len(undo'[p]) : LiveInsert(p, k)' => End(undo'[p][k]) <= append_start
    BY <1>2 DEF AllKept, Kept
<1>10. append_lock' = p /\ append_start' = append_start /\ total_rows' = total_rows /\ status'[p] = status[p]
    BY <1>1
<1>a. LocalRows(append_lock)' = LocalRows(p)' /\ Cardinality(LocalRows(append_lock))' = Cardinality(LocalRows(p))'
    BY <1>10 DEF LocalRows
<1>b. \A k : LiveInsert(append_lock, k)' <=> LiveInsert(p, k)'
    BY <1>10 DEF LiveInsert, InsertIn
<1>11. (\A r \in Nat : append_start <= r /\ r < total_rows => InsertedId(r) = append_lock)'
    BY <1>6, <1>10
<1>12. (\A k \in 1 .. Len(undo[append_lock]) : LiveInsert(append_lock, k) =>
            End(undo[append_lock][k]) <= append_start)'
    BY <1>9, <1>10, <1>b DEF End
<1> QED
    BY <1>2, <1>4, <1>5, <1>8, <1>10, <1>11, <1>12, <1>a DEF PendingInv

LEMMA OtherInEntry ==
    ASSUME StateInv, NEW t \in Txns, Others(t), NEW u \in Txns \ {t}, status[u] # "rollback",
           NEW r, NEW k, InEntry(r, u, k)
    PROVE  InEntry(r, u, k)' /\ undo'[u] = undo[u]
<1>1. /\ status'[u] = status[u] /\ position'[u] = position[u] /\ last'[u] = last[u]
      /\ commit_id'[u] = commit_id[u] /\ status[u] \notin Ended
    BY DEF Others, LiveInsert, InEntry
<1>2. undo'[u] = undo[u]
    BY <1>1 DEF Others
<1> QED
    BY <1>1, <1>2 DEF InEntry, LiveInsert, InsertIn, RowsOf, End

\* Who owned a row still does.
OwnerKept(t) == \A r \in Nat : r < total_rows' =>
    /\ InsertedId(r) = t /\ Owned(r, t) => Owned(r, t)'
    /\ InsertedId(r) = commit_id[t] /\ MarkedBy(r, t) => commit_id'[t] = commit_id[t] /\ MarkedBy(r, t)'

LEMMA RowOwnerKept ==
    ASSUME StateInv, OwnerInv, NEW t \in Txns, Others(t), OwnerKept(t), RowsKept,
           \/ UNCHANGED <<append_lock, append_start>>
           \/ append_lock \in {t, NoTxn},
           NEW r \in Nat, r < total_rows, r < total_rows'
    PROVE  \/ InsertedId(r)' \in Txns /\ Owned(r, InsertedId(r))'
           \/ \E x \in Txns : InsertedId(r)' = commit_id'[x] /\ MarkedBy(r, x)'
<1>2. InsertedId(r)' = InsertedId(r)
    BY DEF RowsKept
<1>3. CASE InsertedId(r) \in Txns /\ Owned(r, InsertedId(r))
    <2>1. PICK x \in Txns : x = InsertedId(r) /\ Owned(r, x)
        BY <1>3
    <2>2. Owned(r, x)'
        <3>1. CASE x = t
            BY <2>1, <3>1 DEF OwnerKept
        <3>2. CASE x # t
            <4>1. status'[x] = status[x] /\ position'[x] = position[x]
                BY <3>2 DEF Others
            <4>2. status[x] # "rollback" => \A k : InEntry(r, x, k) => InEntry(r, x, k)' /\ undo'[x] = undo[x]
                BY <3>2, OtherInEntry
            <4>3. append_lock = x => append_lock' = x /\ append_start' = append_start
                BY <3>2, TxnFacts
            <4> QED BY <2>1, <4>1, <4>2, <4>3 DEF Owned
        <3> QED BY <3>1, <3>2
    <2>3. Owned(r, InsertedId(r))'
        BY <1>2, <2>1, <2>2 DEF Owned, InEntry, LiveInsert, InsertIn
    <2> QED BY <1>2, <2>1, <2>3
<1>4. CASE \E x \in Txns : InsertedId(r) = commit_id[x] /\ MarkedBy(r, x)
    <2>1. PICK x \in Txns : InsertedId(r) = commit_id[x] /\ MarkedBy(r, x)
        BY <1>4
    <2>2. commit_id'[x] = commit_id[x] /\ MarkedBy(r, x)'
        <3>1. CASE x = t
            BY <2>1, <3>1 DEF OwnerKept
        <3>2. CASE x # t
            <4>1. status'[x] = status[x] /\ position'[x] = position[x] /\ last'[x] = last[x]
                  /\ commit_id'[x] = commit_id[x]
                BY <3>2 DEF Others
            <4>2. status[x] # "rollback" => \A k : InEntry(r, x, k) => InEntry(r, x, k)' /\ undo'[x] = undo[x]
                BY <3>2, OtherInEntry
            <4> QED BY <2>1, <4>1, <4>2 DEF MarkedBy
        <3> QED BY <3>1, <3>2
    <2> QED BY <1>2, <2>1, <2>2
<1> QED
    BY <1>3, <1>4 DEF OwnerInv

LEMMA OwnersKept ==
    ASSUME StateInv, OwnerInv, NEW t \in Txns, Others(t), OwnerKept(t), RowsKept, total_rows' <= total_rows,
           \/ UNCHANGED <<append_lock, append_start>>
           \/ append_lock \in {t, NoTxn}
    PROVE  OwnerInv'
<1>1. total_rows \in Nat /\ total_rows' \in Nat
    BY DEF StateInv, RowsKept
<1>2. \A r \in Nat : r < total_rows' => r < total_rows
    BY <1>1
<1> QED
    BY <1>2, RowOwnerKept DEF OwnerInv

\* Halfway of another transaction is not disturbed.
LEMMA HalfwayKept ==
    ASSUME StateInv, NEW t \in Txns, Others(t), NEW a, NEW b, Halfway(a, b), b # t \/ Halfway(a, b)'
    PROVE  Halfway(a, b)'
<1> SUFFICES ASSUME b # t
             PROVE  Halfway(a, b)'
    OBVIOUS
<1>1. PICK x \in Txns :
        /\ status[x] = "commit" /\ a = commit_id[x] /\ b = x
        /\ \E k \in 1 .. Len(undo[x]) : k < position[x] /\ InsertIn(x, k)
    BY DEF Halfway
<1>2. x \in Txns \ {t} /\ status[x] \notin Ended
    BY <1>1 DEF Ended
<1>3. undo'[x] = undo[x] /\ UNCHANGED <<status[x], position[x], commit_id[x]>>
    BY <1>2 DEF Others
<1>4. (/\ status[x] = "commit" /\ a = commit_id[x] /\ b = x
       /\ \E k \in 1 .. Len(undo[x]) : k < position[x] /\ InsertIn(x, k))'
    BY <1>1, <1>3 DEF InsertIn
<1> QED
    BY <1>4 DEF Halfway

HalfKept(t) == \A r \in Nat : r < total_rows' /\ InsertedId(r) = t =>
    \A a : Halfway(a, t) => Halfway(a, t)'

LEMMA VectorsKept ==
    ASSUME StateInv, VectorInv, NEW t \in Txns, Others(t), HalfKept(t), RowsKept, SameShortcuts,
           total_rows' <= total_rows
    PROVE  VectorInv'
<1>1. ASSUME NEW v \in Vectors, info'[v].type = "vector"
      PROVE  (/\ ~info[v].any_deleted => \A i \in Offsets : info[v].deleted[i] = NotDeletedId
              /\ info[v].same_inserted_id => \A i \in Offsets : Base(v) + i < total_rows =>
                      \/ info[v].inserted[i] = info[v].insert_id
                      \/ Halfway(info[v].insert_id, info[v].inserted[i]))'
    <2>1. PICK y : y = info'[v]
        OBVIOUS
    <2>2. ~y.any_deleted => \A i \in Offsets : y.deleted[i] = NotDeletedId
        BY <1>1, <2>1 DEF SameShortcuts
    <2>3. ASSUME y.same_inserted_id, NEW i \in Offsets, Base(v) + i < total_rows'
          PROVE  y.inserted[i] = y.insert_id \/ Halfway(y.insert_id, y.inserted[i])'
        <3>1. CASE \A j \in Offsets : y.inserted[j] = y.insert_id
            BY <3>1
        <3>2. CASE /\ info[v].type = "vector" /\ info[v].same_inserted_id
                   /\ y.insert_id = info[v].insert_id
            <4>0. /\ Base(v) + i \in Nat
                  /\ VectorOf(Base(v) + i) = v /\ OffsetOf(Base(v) + i) = i
                BY PlaceInTable
            <4>1. InsertedId(Base(v) + i) = info[v].inserted[i]
                BY <3>2, PlaceInTable DEF IdOf
            <4>2. PICK r \in Nat : r = Base(v) + i /\ r < total_rows' /\ VectorOf(r) = v /\ OffsetOf(r) = i
                BY <2>3, <4>0
            <4>3. InsertedId(r)' = y.inserted[i]
                BY <1>1, <2>1, <4>2 DEF InsertedId
            <4>4. r < total_rows /\ total_rows' \in Nat
                BY <4>2 DEF StateInv, RowsKept
            <4>5. InsertedId(r)' = InsertedId(r)
                BY <4>2, <4>4 DEF RowsKept
            <4>6. y.inserted[i] = info[v].inserted[i] /\ InsertedId(r) = y.inserted[i]
                BY <4>1, <4>2, <4>3, <4>5
            <4>7. y.inserted[i] = y.insert_id \/ Halfway(y.insert_id, y.inserted[i])
                BY <3>2, <4>2, <4>4, <4>6 DEF VectorInv
            <4>8. PICK a, b : a = y.insert_id /\ b = y.inserted[i]
                OBVIOUS
            <4>9. b = t => (Halfway(a, b) => Halfway(a, b)')
                BY <4>2, <4>6, <4>8 DEF HalfKept
            <4>10. Halfway(a, b) => Halfway(a, b)'
                BY <4>9, HalfwayKept
            <4> QED BY <4>7, <4>8, <4>10
        <3> QED BY <1>1, <2>1, <2>3, <3>1, <3>2 DEF SameShortcuts
    <2> QED BY <2>1, <2>2, <2>3 DEF Halfway
<1> QED
    BY <1>1 DEF VectorInv

\* The deletions of the others stay what they are.
LEMMA OtherDelete ==
    ASSUME StateInv, NEW t \in Txns, Others(t), NEW u \in Txns \ {t}, NEW k \in 1 .. Len(undo'[u]),
           LiveDelete(u, k)'
    PROVE  k \in 1 .. Len(undo[u]) /\ LiveDelete(u, k) /\ undo'[u][k] = undo[u][k]
<1>1. status'[u] = status[u] /\ position'[u] = position[u] /\ status[u] \notin Ended
    BY DEF Others, LiveDelete
<1>2. undo'[u] = undo[u]
    BY <1>1 DEF Others
<1> QED
    BY <1>1, <1>2 DEF LiveDelete, DeleteIn

\* What the deletion of some rows of a vector relies on.
DeletedFrom(v, rows) ==
    /\ info[v].type = "vector" /\ info[v].any_deleted
    /\ \A i \in rows :
          /\ Base(v) + i < total_rows
          /\ \E y \in Txns : status[y] = "committed" /\ info[v].inserted[i] = commit_id[y]

LEMMA DeleteKept ==
    ASSUME StateInv, ClockInv, TickInv, NEW t \in Txns, Others(t), status[t] # "committed",
           NEW v \in Vectors, NEW rows \in SUBSET Offsets, rows # {}, DeletedFrom(v, rows), RowsKept,
           info[v].type = "vector" /\ info[v].any_deleted /\ Base(v) < total_rows' =>
               info'[v].type = "vector" /\ info'[v].any_deleted,
           \/ total_rows' >= total_rows
           \/ \A r \in Nat : total_rows' <= r /\ r < total_rows => InsertedId(r) \in {t, commit_id[t]}
    PROVE  DeletedFrom(v, rows)'
<1>0. total_rows \in Nat /\ total_rows' \in Nat /\ v \in Nat /\ Base(v) \in Nat
    BY VectorsAreNat DEF StateInv, RowsKept
<1>1. ASSUME NEW i \in rows
      PROVE  Base(v) + i < total_rows' /\ InsertedId(Base(v) + i)' = info[v].inserted[i]
    <2>1. PICK r \in Nat : r = Base(v) + i /\ r < total_rows
        BY <1>0, PlaceInTable DEF DeletedFrom
    <2>2. PICK y \in Txns : status[y] = "committed" /\ info[v].inserted[i] = commit_id[y]
        BY DEF DeletedFrom
    <2>3. InsertedId(r) = commit_id[y]
        BY <2>1, <2>2, PlaceInTable DEF IdOf, DeletedFrom
    <2>4. commit_id[y] \notin {t, commit_id[t]}
        <3>1. y # t /\ commit_id[y] # 0
            BY <2>2 DEF ClockInv
        <3> QED BY <3>1, CommitIds
    <2>5. r < total_rows'
        BY <1>0, <2>1, <2>3, <2>4
    <2> QED BY <2>1, <2>2, <2>3, <2>5 DEF RowsKept
<1>2. Base(v) < total_rows'
    <2>1. PICK i \in rows : TRUE
        OBVIOUS
    <2>2. i \in Nat /\ Base(v) + i < total_rows'
        BY <1>1 DEF Offsets
    <2> QED BY <1>0, <2>2
<1>3. info'[v].type = "vector" /\ info'[v].any_deleted
    BY <1>2 DEF DeletedFrom
<1>4. ASSUME NEW i \in rows
      PROVE  \E y \in Txns : status'[y] = "committed" /\ info'[v].inserted[i] = commit_id'[y]
    <2>1. PICK y \in Txns : status[y] = "committed" /\ info[v].inserted[i] = commit_id[y]
        BY DEF DeletedFrom
    <2>2. status'[y] = "committed" /\ commit_id'[y] = commit_id[y]
        BY <2>1 DEF Others
    <2>3. info'[v].inserted[i] = InsertedId(Base(v) + i)'
        <3>1. VectorOf(Base(v) + i) = v /\ OffsetOf(Base(v) + i) = i
            BY PlaceInTable
        <3>2. PICK r : r = Base(v) + i
            OBVIOUS
        <3> QED BY <1>3, <3>1, <3>2 DEF InsertedId
    <2> QED BY <1>1, <2>1, <2>2, <2>3
<1> QED
    BY <1>1, <1>3, <1>4 DEF DeletedFrom

-----------------------------------------------------------------------------
(***************************************************************************)
(* Steps that leave the rows alone, and steps that cut rows off.           *)
(***************************************************************************)

\* What the transaction that steps has appended stays what it is.
OwnKept(t) == \A k \in 1 .. Len(undo'[t]) : LiveInsert(t, k)' =>
    /\ k \in 1 .. Len(undo[t]) /\ LiveInsert(t, k) /\ undo'[t][k] = undo[t][k]
    /\ EntryIds(t, k) \subseteq EntryIds(t, k)'

\* What it has deleted, too.
OwnDeletes(t) == \A k \in 1 .. Len(undo'[t]) : LiveDelete(t, k)' =>
    \/ k \in 1 .. Len(undo[t]) /\ LiveDelete(t, k) /\ undo'[t][k] = undo[t][k]
    \/ DeletedFrom(undo[t][k].vector, undo[t][k].rows)'

LEMMA DeletesStep ==
    ASSUME BasicInv, TableInv, StateInv', NEW t \in Txns, Others(t), status[t] # "committed", OwnDeletes(t),
           RowsKept,
           \A v \in Vectors : info[v].type = "vector" /\ info[v].any_deleted /\ Base(v) < total_rows' =>
               info'[v].type = "vector" /\ info'[v].any_deleted,
           \/ total_rows' >= total_rows
           \/ \A r \in Nat : total_rows' <= r /\ r < total_rows => InsertedId(r) \in {t, commit_id[t]}
    PROVE  DeleteInv'
<1>0. StateInv /\ ClockInv /\ TickInv /\ DeleteInv
    BY DEF BasicInv, TableInv
<1>1. ASSUME NEW u \in Txns, NEW k \in 1 .. Len(undo'[u]), LiveDelete(u, k)'
      PROVE  DeletedFrom(undo[u][k].vector, undo[u][k].rows)'
    <2>1. CASE k \in 1 .. Len(undo[u]) /\ LiveDelete(u, k) /\ undo'[u][k] = undo[u][k]
        <3>1. PICK v \in Vectors, rows \in SUBSET Offsets :
                v = undo[u][k].vector /\ rows = undo[u][k].rows /\ rows # {}
            BY <1>0, <2>1, EntryTypes DEF LiveDelete
        <3>2. DeletedFrom(v, rows)
            BY <1>0, <2>1, <3>1 DEF DeleteInv, DeletedFrom
        <3>3. info[v].type = "vector" /\ info[v].any_deleted /\ Base(v) < total_rows' =>
               info'[v].type = "vector" /\ info'[v].any_deleted
            OBVIOUS
        <3>4. DeletedFrom(v, rows)'
            BY <1>0, <3>1, <3>2, <3>3, DeleteKept
        <3>5. undo'[u][k].vector = v /\ undo'[u][k].rows = rows
            BY <2>1, <3>1
        <3> QED BY <3>4, <3>5 DEF DeletedFrom
    <2>2. CASE u # t
        BY <1>0, <1>1, <2>1, <2>2, OtherDelete
    <2>3. CASE u = t
        BY <1>1, <2>1, <2>3 DEF OwnDeletes
    <2> QED BY <2>2, <2>3
<1> QED
    BY <1>1 DEF DeleteInv, DeletedFrom

LEMMA QuietStep ==
    ASSUME BasicInv, TableInv, StateInv', NEW t \in Txns, Others(t), status[t] # "committed",
           UNCHANGED <<total_rows, append_lock, append_start>>,
           append_lock = t => status'[t] = status[t] /\ local'[t] = local[t],
           SameIds, SameShortcuts, KeepsDeleted,
           OwnKept(t), OwnerKept(t), HalfKept(t), OwnDeletes(t)
    PROVE  TableInv'
<1>0. /\ StateInv /\ ClockInv /\ TickInv /\ BoundInv
      /\ FillInv /\ EntryInv /\ OrderInv /\ PendingInv /\ OwnerInv /\ VectorInv /\ DeleteInv
      /\ total_rows \in Nat /\ total_rows' \in Nat /\ total_rows' = total_rows
    BY DEF BasicInv, TableInv, StateInv
<1>1. FillInv' /\ RowsKept
    <2>1. FillInv' /\ \A r \in Nat : r < total_rows => InsertedId(r)' = InsertedId(r)
        BY <1>0, SameIdsFacts
    <2> QED BY <1>0, <2>1 DEF RowsKept, SameIds
<1>2. AllKept
    <2> SUFFICES ASSUME NEW u \in Txns, NEW k \in 1 .. Len(undo'[u]), LiveInsert(u, k)'
                 PROVE  Kept(u, k)
        BY DEF AllKept
    <2>1. CASE u # t
        BY <1>0, <2>1, OtherKept
    <2>2. CASE u = t
        <3>1. /\ k \in 1 .. Len(undo[t]) /\ LiveInsert(t, k) /\ undo'[t][k] = undo[t][k]
              /\ EntryIds(t, k) \subseteq EntryIds(t, k)'
            BY <2>2 DEF OwnKept
        <3>2. End(undo[t][k]) <= total_rows'
            BY <1>0, <3>1 DEF EntryInv
        <3> QED BY <2>2, <3>1, <3>2 DEF Kept
    <2> QED BY <2>1, <2>2
<1>3. EntryInv' /\ OrderInv'
    BY <1>0, <1>1, <1>2, EntriesKept
<1>4. PendingInv'
    <2>1. ASSUME append_lock # NoTxn
          PROVE  status'[append_lock] = status[append_lock] /\ local'[append_lock] = local[append_lock]
        <3>1. CASE append_lock = t
            BY <3>1
        <3>2. CASE append_lock # t
            BY <1>0, <2>1, <3>2 DEF Others, StateInv
        <3> QED BY <3>1, <3>2
    <2> QED BY <1>0, <1>1, <1>2, <2>1, PendingKept
<1>5. OwnerInv'
    BY <1>0, <1>1, OwnersKept
<1>6. VectorInv'
    BY <1>0, <1>1, VectorsKept
<1>7. DeleteInv'
    <2>1. \A v \in Vectors : info[v].type = "vector" /\ info[v].any_deleted /\ Base(v) < total_rows' =>
               info'[v].type = "vector" /\ info'[v].any_deleted
        BY DEF KeepsDeleted
    <2>2. total_rows' >= total_rows
        BY <1>0
    <2> QED BY <1>1, <2>1, <2>2, DeletesStep
<1> QED
    BY <1>1, <1>3, <1>4, <1>5, <1>6, <1>7 DEF TableInv

\* Rows of others are not behind rows of t.
LEMMA OtherCut ==
    ASSUME StateInv, ClockInv, TickInv, EntryInv, NEW t \in Txns, NEW u \in Txns \ {t},
           NEW k \in 1 .. Len(undo[u]), LiveInsert(u, k), NEW start \in Nat,
           \A r \in Nat : start <= r /\ r < total_rows => InsertedId(r) \in {t, commit_id[t]}
    PROVE  End(undo[u][k]) <= start
<1>1. PICK s \in Nat, end \in Nat : s < end /\ s = undo[u][k].start /\ end = End(undo[u][k])
    BY EntryTypes DEF LiveInsert
<1>2. end <= total_rows /\ total_rows \in Nat
    BY <1>1 DEF EntryInv, StateInv
<1>3. SUFFICES ASSUME end > start
               PROVE  FALSE
    BY <1>1
<1>4. PICK r \in Nat : end = r + 1
    <2>1. end - 1 \in Nat
        BY <1>1
    <2> QED BY <2>1, <1>1
<1>5. r \in RowsOf(undo[u][k]) /\ start <= r /\ r < total_rows
    BY <1>1, <1>2, <1>3, <1>4 DEF RowsOf
<1>6. InsertedId(r) \in EntryIds(u, k) /\ InsertedId(r) \in {t, commit_id[t]}
    BY <1>5 DEF EntryInv
<1>7. EntryIds(u, k) \subseteq {u, commit_id[u]}
      /\ (commit_id[u] \in EntryIds(u, k) /\ commit_id[u] # u => commit_id[u] # 0)
    BY DEF EntryIds, ClockInv
<1>8. commit_id[u] # t /\ commit_id[t] # u /\ commit_id[u] # u /\ (commit_id[u] # 0 => commit_id[u] # commit_id[t])
    BY CommitIds
<1> QED
    BY <1>6, <1>7, <1>8

LEMMA CutStep ==
    ASSUME BasicInv, TableInv, StateInv', NEW t \in Txns, Others(t), status[t] # "committed",
           UNCHANGED current_start_timestamp,
           append_lock \in {t, NoTxn}, append_lock' = NoTxn,
           NEW start \in Nat, start <= total_rows, total_rows' = start, info' = RevertInfo(start),
           CoversConstants(start, total_rows),
           \A r \in Nat : start <= r /\ r < total_rows => InsertedId(r) \in {t, commit_id[t]},
           OwnKept(t), \A k \in 1 .. Len(undo'[t]) : LiveInsert(t, k)' => End(undo[t][k]) <= start,
           OwnerKept(t), HalfKept(t), OwnDeletes(t)
    PROVE  TableInv' /\ InfoInv' /\ IdsInv'
<1>0. /\ StateInv /\ ClockInv /\ TickInv /\ BoundInv /\ InfoInv /\ IdsInv
      /\ FillInv /\ EntryInv /\ OrderInv /\ PendingInv /\ OwnerInv /\ VectorInv /\ DeleteInv
      /\ total_rows \in Nat /\ total_rows' \in Nat /\ total_rows' = start
    BY DEF BasicInv, TableInv, StateInv
<1>1. /\ InfoInv' /\ IdsInv' /\ FillInv' /\ SameShortcuts
      /\ \A v \in Vectors : info'[v] = IF Base(v) < start THEN info[v] ELSE EmptyInfo
      /\ \A v \in Vectors : info'[v].type = "constant" => info[v].type = "constant"
      /\ \A r \in Nat : r < total_rows' => InsertedId(r)' = InsertedId(r)
    BY <1>0, CutEffect
<1>2. RowsKept
    BY <1>0, <1>1 DEF RowsKept
<1>3. AllKept
    <2> SUFFICES ASSUME NEW u \in Txns, NEW k \in 1 .. Len(undo'[u]), LiveInsert(u, k)'
                 PROVE  Kept(u, k)
        BY DEF AllKept
    <2>1. CASE u # t
        <3>1. /\ status'[u] = status[u] /\ position'[u] = position[u] /\ last'[u] = last[u]
              /\ commit_id'[u] = commit_id[u] /\ status[u] \notin Ended
            BY <2>1 DEF Others, LiveInsert
        <3>2. undo'[u] = undo[u]
            BY <2>1, <3>1 DEF Others
        <3>3. InsertIn(u, k)
            BY <3>2 DEF LiveInsert, InsertIn
        <3>4. End(undo[u][k]) \in Nat /\ k \in 1 .. Len(undo[u])
            BY <1>0, <3>2, <3>3, EntryTypes
        <3>5. status[u] = "rollback" => k <= position[u] /\ End(undo[u][k]) <= total_rows
            <4>1. status[u] = "rollback" => k <= position[u] /\ End(undo[u][k]) <= start
                BY <1>0, <3>1, <3>2 DEF LiveInsert, End
            <4> QED BY <1>0, <3>4, <4>1
        <3>6. LiveInsert(u, k)
            BY <3>1, <3>2, <3>3, <3>5 DEF LiveInsert
        <3>7. End(undo[u][k]) <= start
            BY <1>0, <2>1, <3>4, <3>6, OtherCut
        <3>8. EntryIds(u, k)' = EntryIds(u, k)
            BY <3>1 DEF EntryIds
        <3> QED BY <1>0, <3>2, <3>4, <3>6, <3>7, <3>8 DEF Kept
    <2>2. CASE u = t
        BY <1>0, <2>2 DEF Kept, OwnKept
    <2> QED BY <2>1, <2>2
<1>4. EntryInv' /\ OrderInv'
    BY <1>0, <1>2, <1>3, EntriesKept
<1>5. PendingInv'
    BY DEF PendingInv
<1>6. OwnerInv'
    BY <1>0, <1>2, OwnersKept
<1>7. VectorInv'
    BY <1>0, <1>1, <1>2, VectorsKept
<1>8. DeleteInv'
    <2>1. \A v \in Vectors : info[v].type = "vector" /\ info[v].any_deleted /\ Base(v) < total_rows' =>
               info'[v].type = "vector" /\ info'[v].any_deleted
        BY <1>0, <1>1
    <2>2. \A r \in Nat : total_rows' <= r /\ r < total_rows => InsertedId(r) \in {t, commit_id[t]}
        BY <1>0
    <2> QED BY <1>2, <2>1, <2>2, DeletesStep
<1> QED
    BY <1>1, <1>4, <1>5, <1>6, <1>7, <1>8 DEF TableInv

-----------------------------------------------------------------------------
(***************************************************************************)
(* The actions that leave the version information alone.                   *)
(***************************************************************************)

LEMMA InfoSame ==
    ASSUME BasicInv, TableInv, UNCHANGED info
    PROVE  SameIds /\ SameShortcuts /\ KeepsDeleted /\ InfoInv'
<1>1. SameIds /\ KeepsDeleted
    BY DEF SameIds, KeepsDeleted
<1>2. SameShortcuts
    BY DEF SameShortcuts, TableInv, VectorInv
<1>3. InfoInv'
    BY DEF BasicInv, InfoInv
<1> QED
    BY <1>1, <1>2, <1>3

LEMMA IdsSame ==
    ASSUME BasicInv, UNCHANGED info, StateInv', current_start_timestamp' >= current_start_timestamp
    PROVE  IdsInv'
<1>0. StateInv /\ IdsInv
    BY DEF BasicInv
<1>1. PICK now \in Nat : now = current_start_timestamp' /\ now >= current_start_timestamp
    BY DEF StateInv
<1>2. ASSUME NEW v \in Vectors
      PROVE  Known(info[v])'
    <2>1. PICK x : x = info[v] /\ Known(x)
        BY <1>0 DEF IdsInv
    <2>2. Known(x)'
        BY <1>0, <1>1, <2>1, FewerKnownIds
    <2> QED BY <2>1, <2>2 DEF Known
<1> QED
    BY <1>2 DEF IdsInv

\* A transaction that is not marking rows is not halfway, and without a commit id it has
\* marked nothing.
LEMMA NotHalfway ==
    ASSUME NEW t \in Txns, status[t] # "commit"
    PROVE  HalfKept(t)
  BY DEF HalfKept, Halfway

LEMMA NotMarked ==
    ASSUME NEW t \in Txns, commit_id[t] = 0
    PROVE  \A r : ~MarkedBy(r, t)
  BY DEF MarkedBy

LEMMA PendingStatus ==
    ASSUME TableInv, NEW t \in Txns, append_lock = t
    PROVE  status[t] \in {"flush", "commit_flush"} /\ LocalRows(t) # {}
  BY TxnFacts DEF TableInv, PendingInv

LEMMA StartTable ==
    ASSUME BasicInv, TableInv, StateInv', NEW t \in Txns, Others(t), StartTransaction(t)
    PROVE  TableInv' /\ InfoInv' /\ IdsInv'
<1>1. /\ status[t] = "none" /\ undo' = undo /\ undo[t] = << >> /\ commit_id[t] = 0
      /\ UNCHANGED <<total_rows, info, append_lock, append_start, local>>
      /\ current_start_timestamp' = current_start_timestamp + 1 /\ current_start_timestamp \in Nat
    <2>1. status[t] = "none"
        BY TxnFacts DEF BasicInv, ClockInv, StartTransaction
    <2>2. undo[t] = << >> /\ commit_id[t] = 0
        BY <2>1 DEF BasicInv, ClockInv, FlushInv, FlushOf, OneAppend, NoRevert
    <2> QED BY <2>1, <2>2 DEF StartTransaction, table, progress, BasicInv, StateInv
<1>2. append_lock # t
    BY <1>1, PendingStatus
<1>3. \A k : k \notin 1 .. Len(undo'[t])
    BY <1>1
<1>4. OwnKept(t) /\ OwnDeletes(t)
    BY <1>3 DEF OwnKept, OwnDeletes
<1>5. OwnerKept(t) /\ HalfKept(t)
    BY <1>1, NotHalfway, NotMarked DEF OwnerKept, Owned
<1>6. TableInv' /\ InfoInv'
    BY <1>1, <1>2, <1>4, <1>5, InfoSame, QuietStep
<1>7. IdsInv'
    BY <1>1, IdsSame
<1> QED
    BY <1>6, <1>7

\* Nothing changes of what the transaction has done.
LEMMA IdleTable ==
    ASSUME BasicInv, TableInv, StateInv', NEW t \in Txns, Others(t),
           UNCHANGED <<total_rows, info, append_lock, append_start, undo, position, last, commit_id,
                       current_start_timestamp>>,
           \/ UNCHANGED <<status, local>>
           \/ status[t] = "active" /\ status'[t] \in {"active", "flush", "failed"}
    PROVE  TableInv' /\ InfoInv' /\ IdsInv'
<1>1. append_lock = t => status'[t] = status[t] /\ local'[t] = local[t]
    BY PendingStatus
<1>2. status'[t] = status[t] \/ (status[t] = "active" /\ status'[t] \in {"active", "flush", "failed"})
    OBVIOUS
<1>3. \A k : LiveInsert(t, k)' <=> LiveInsert(t, k)
    BY <1>2 DEF LiveInsert, InsertIn, Ended
<1>4. \A k : EntryIds(t, k)' = EntryIds(t, k)
    BY <1>2 DEF EntryIds
<1>5. OwnKept(t)
    BY <1>3, <1>4 DEF OwnKept
<1>6. OwnDeletes(t)
    BY <1>2 DEF OwnDeletes, LiveDelete, DeleteIn, Ended
<1>7. \A r : Owned(r, t) => Owned(r, t)'
    BY <1>2, <1>3 DEF Owned, InEntry
<1>8. \A r : MarkedBy(r, t) => MarkedBy(r, t)'
    BY <1>2, <1>3 DEF MarkedBy, InEntry
<1>9. OwnerKept(t)
    BY <1>7, <1>8 DEF OwnerKept
<1>10. HalfKept(t)
    <2>1. CASE status[t] # "commit"
        BY <2>1, NotHalfway
    <2>2. CASE status[t] = "commit"
        <3>1. status' = status
            BY <2>2
        <3> QED BY <3>1 DEF HalfKept, Halfway, InsertIn
    <2> QED BY <2>1, <2>2
<1>11. CASE status[t] # "committed"
    <2>1. TableInv' /\ InfoInv'
        BY <1>1, <1>5, <1>6, <1>9, <1>10, <1>11, InfoSame, QuietStep
    <2>2. current_start_timestamp' >= current_start_timestamp
        BY DEF BasicInv, StateInv
    <2>3. IdsInv'
        BY <2>2, IdsSame
    <2> QED BY <2>1, <2>3
<1>12. CASE status[t] = "committed"
    <2>1. UNCHANGED <<status, local>>
        BY <1>12
    <2>2. \A u, k : /\ LiveInsert(u, k)' <=> LiveInsert(u, k)
                    /\ LiveDelete(u, k)' <=> LiveDelete(u, k)
                    /\ EntryIds(u, k)' = EntryIds(u, k)
        BY <2>1 DEF LiveInsert, LiveDelete, InsertIn, DeleteIn, EntryIds
    <2>3. \A r : InsertedId(r)' = InsertedId(r)
        BY DEF InsertedId
    <2>4. \A a, b : CoversConstants(a, b)' <=> CoversConstants(a, b)
        BY DEF CoversConstants
    <2>5. \A a, b : Halfway(a, b)' <=> Halfway(a, b)
        BY <2>1 DEF Halfway, InsertIn
    <2>6. FillInv'
        BY DEF TableInv, FillInv
    <2>7. EntryInv' /\ OrderInv'
        BY <2>2, <2>3, <2>4 DEF TableInv, EntryInv, OrderInv, CoversConstants
    <2>8. PendingInv'
        BY <2>1, <2>2, <2>3, <2>4 DEF TableInv, PendingInv, CoversConstants, LocalRows, LiveInsert, InsertIn
    <2>9. OwnerInv'
        BY <2>1, <2>2, <2>3 DEF TableInv, OwnerInv, Owned, MarkedBy, InEntry, LiveInsert, InsertIn
    <2>10. VectorInv' /\ DeleteInv'
        BY <2>1, <2>2, <2>5 DEF TableInv, VectorInv, DeleteInv, Halfway, InsertIn
    <2>11. InfoInv' /\ IdsInv'
        BY DEF BasicInv, InfoInv, IdsInv, Known, KnownIds
    <2> QED BY <2>6, <2>7, <2>8, <2>9, <2>10, <2>11 DEF TableInv
<1> QED
    BY <1>11, <1>12

LEMMA NothingTable ==
    ASSUME BasicInv, TableInv, StateInv', NEW t \in Txns, Others(t), NothingToFlush(t)
    PROVE  TableInv' /\ InfoInv' /\ IdsInv'
<1>1. /\ UNCHANGED <<total_rows, info, append_lock, append_start, undo, commit_id, current_start_timestamp>>
      /\ status[t] \in {"flush", "commit_flush"}
      /\ status'[t] = IF status[t] = "flush" THEN "active" ELSE "commit"
      /\ position'[t] = 1
      /\ LocalRows(t) = {}
    BY FlushLength DEF NothingToFlush, table, manager, BasicInv, StateInv
<1>2. append_lock # t
    BY <1>1, PendingStatus
<1>3. \A k : LiveInsert(t, k)' <=> LiveInsert(t, k)
    BY <1>1 DEF LiveInsert, InsertIn, Ended
<1>4. \A k \in 1 .. Len(undo[t]) : ~(k < 1)
    BY EntryTypes DEF BasicInv
<1>5. \A k \in 1 .. Len(undo[t]) : EntryIds(t, k)' = EntryIds(t, k)
    BY <1>1, <1>4 DEF EntryIds
<1>6. OwnKept(t)
    BY <1>1, <1>3, <1>5 DEF OwnKept
<1>7. OwnDeletes(t)
    BY <1>1 DEF OwnDeletes, LiveDelete, DeleteIn, Ended
<1>8. \A k \in 1 .. Len(undo[t]) : k >= 1
    BY EntryTypes DEF BasicInv
<1>9. \A r : Owned(r, t) => Owned(r, t)'
    BY <1>1, <1>2, <1>3, <1>8 DEF Owned, InEntry
<1>10. \A r : ~MarkedBy(r, t)
    BY <1>1 DEF MarkedBy
<1>11. OwnerKept(t) /\ HalfKept(t)
    BY <1>1, <1>9, <1>10, NotHalfway DEF OwnerKept
<1>12. TableInv' /\ InfoInv'
    BY <1>1, <1>2, <1>6, <1>7, <1>11, InfoSame, QuietStep
<1>13. current_start_timestamp' >= current_start_timestamp
    BY <1>1 DEF BasicInv, StateInv
<1> QED
    BY <1>1, <1>12, <1>13, IdsSame

LEMMA CommitTable ==
    ASSUME BasicInv, TableInv, StateInv', NEW t \in Txns, Others(t), CommitTransaction(t)
    PROVE  TableInv' /\ InfoInv' /\ IdsInv'
<1>1. /\ UNCHANGED <<total_rows, info, append_lock, append_start, undo, position, last>>
      /\ status[t] = "active" /\ status'[t] = "commit_flush" /\ commit_id[t] = 0
      /\ current_start_timestamp' = current_start_timestamp + 1 /\ current_start_timestamp \in Nat
    BY DEF CommitTransaction, table, BasicInv, StateInv, ClockInv
<1>2. append_lock # t
    BY <1>1, PendingStatus
<1>3. \A k : LiveInsert(t, k)' <=> LiveInsert(t, k)
    BY <1>1 DEF LiveInsert, InsertIn, Ended
<1>4. \A k : EntryIds(t, k)' = EntryIds(t, k)
    BY <1>1 DEF EntryIds
<1>5. OwnKept(t)
    BY <1>1, <1>3, <1>4 DEF OwnKept
<1>6. OwnDeletes(t)
    BY <1>1 DEF OwnDeletes, LiveDelete, DeleteIn, Ended
<1>7. \A r : Owned(r, t) => Owned(r, t)'
    BY <1>1, <1>3 DEF Owned, InEntry
<1>8. OwnerKept(t) /\ HalfKept(t)
    BY <1>1, <1>7, NotHalfway, NotMarked DEF OwnerKept
<1>9. TableInv' /\ InfoInv'
    BY <1>1, <1>2, <1>5, <1>6, <1>8, InfoSame, QuietStep
<1> QED
    BY <1>1, <1>9, IdsSame

\* A row with the id of a transaction belongs to it.
LEMMA OwnedRow ==
    ASSUME BasicInv, TableInv, NEW t \in Txns, NEW r \in Nat, r < total_rows, InsertedId(r) = t
    PROVE  Owned(r, t)
<1>1. \A x \in Txns : commit_id[x] # t
    BY CommitIds DEF BasicInv
<1>2. OwnerInv
    BY DEF TableInv
<1> QED
    BY <1>1, <1>2 DEF OwnerInv

LEMMA FailureTable ==
    ASSUME BasicInv, TableInv, StateInv', NEW t \in Txns, Others(t), LogFailure(t), SingleRevert
    PROVE  TableInv' /\ InfoInv' /\ IdsInv'
<1>1. /\ UNCHANGED <<total_rows, info, append_lock, append_start, undo, commit_id, current_start_timestamp>>
      /\ status[t] = "commit" /\ status'[t] = "revert" /\ position'[t] = 1
      /\ last'[t] = IF position[t] <= Len(undo[t]) THEN position[t] ELSE Len(undo[t])
      /\ position[t] \in Nat /\ Len(undo[t]) \in Nat /\ LogFails
    BY DEF LogFailure, table, manager, BasicInv, StateInv
<1>2. append_lock # t
    BY <1>1, PendingStatus
<1>3. \A k \in 1 .. Len(undo[t]) : k \in Nat /\ k >= 1 /\ k <= Len(undo[t])
    BY <1>1
<1>4. \A k \in 1 .. Len(undo[t]) : k < position[t] => k <= last'[t]
    BY <1>1, <1>3
<1>5. \A k \in 1 .. Len(undo[t]) : LiveInsert(t, k)' <=> LiveInsert(t, k)
    BY <1>1, <1>3 DEF LiveInsert, InsertIn, Ended
<1>6. \A k \in 1 .. Len(undo[t]) : EntryIds(t, k) \subseteq EntryIds(t, k)'
    BY <1>1, <1>4 DEF EntryIds
<1>7. OwnKept(t)
    BY <1>1, <1>5, <1>6 DEF OwnKept
<1>8. OwnDeletes(t)
    BY <1>1 DEF OwnDeletes, LiveDelete, DeleteIn, Ended
<1>9. \A r : Owned(r, t) => Owned(r, t)'
    BY <1>1 DEF Owned
<1>10. \A r : MarkedBy(r, t) => MarkedBy(r, t)'
    BY <1>1, <1>4, <1>5 DEF MarkedBy, InEntry
<1>11. OwnerKept(t)
    BY <1>1, <1>9, <1>10 DEF OwnerKept
<1>12. HalfKept(t)
    <2> SUFFICES ASSUME NEW r \in Nat, r < total_rows', InsertedId(r) = t, NEW a, Halfway(a, t)
                 PROVE  FALSE
        BY DEF HalfKept
    <2>1. Owned(r, t)
        BY <1>1, OwnedRow
    <2>2. PICK k \in 1 .. Len(undo[t]) : k >= position[t] /\ InEntry(r, t, k)
        BY <1>1, <2>1 DEF Owned
    <2>3. PICK j \in 1 .. Len(undo[t]) : j < position[t] /\ InsertIn(t, j)
        BY DEF Halfway
    <2>4. k = Len(undo[t]) /\ j = Len(undo[t])
        BY <1>1, <2>2, <2>3 DEF BasicInv, FlushInv, FlushOf, OneAppend, NoRevert, SingleRevert, InEntry, LiveInsert, Ended
    <2> QED BY <1>1, <2>2, <2>3, <2>4
<1>13. TableInv' /\ InfoInv'
    BY <1>1, <1>2, <1>7, <1>8, <1>11, <1>12, InfoSame, QuietStep
<1>14. current_start_timestamp' >= current_start_timestamp
    BY <1>1 DEF BasicInv, StateInv
<1> QED
    BY <1>1, <1>13, <1>14, IdsSame

LEMMA RevertDoneTable ==
    ASSUME BasicInv, TableInv, StateInv', NEW t \in Txns, Others(t), RevertDone(t)
    PROVE  TableInv' /\ InfoInv' /\ IdsInv'
<1>1. /\ UNCHANGED <<total_rows, info, append_lock, append_start, undo, current_start_timestamp>>
      /\ status[t] = "revert" /\ status'[t] = "rollback" /\ position'[t] = Len(undo[t])
      /\ position[t] \in Nat /\ Len(undo[t]) \in Nat /\ last[t] \in Nat /\ position[t] > last[t]
      /\ total_rows \in Nat
    BY DEF RevertDone, table, BasicInv, StateInv
<1>2. append_lock # t
    BY <1>1, PendingStatus
<1>3. ASSUME NEW k \in 1 .. Len(undo[t]), LiveInsert(t, k)'
      PROVE  LiveInsert(t, k) /\ EntryIds(t, k) = {t} /\ EntryIds(t, k)' = {t}
    <2>1. InsertIn(t, k) /\ k \in Nat
        BY <1>1, <1>3 DEF LiveInsert, InsertIn
    <2>2. /\ undo[t][k].start \in Nat /\ undo[t][k].count \in Nat /\ undo[t][k].count > 0
        BY <2>1, EntryTypes DEF BasicInv
    <2>3. undo[t][k].start + undo[t][k].count <= total_rows
        BY <1>1, <1>3 DEF LiveInsert, End
    <2>4. k >= position[t]
        <3> SUFFICES ASSUME k < position[t]
                     PROVE  FALSE
            BY <1>1, <2>1
        <3>1. undo[t][k].start = total_rows
            BY <1>1, <2>1 DEF BasicInv, FlushInv, FlushOf, OneAppend, NoRevert
        <3> QED BY <1>1, <2>2, <2>3, <3>1
    <2>5. LiveInsert(t, k)
        BY <1>1, <2>1, <2>4 DEF LiveInsert, Ended
    <2>6. ~(k <= last[t])
        BY <1>1, <2>1, <2>4
    <2> QED BY <1>1, <2>5, <2>6 DEF EntryIds
<1>4. OwnKept(t)
    BY <1>1, <1>3 DEF OwnKept
<1>5. OwnDeletes(t)
    BY <1>1 DEF OwnDeletes, LiveDelete, DeleteIn, Ended
<1>6. \A r : Owned(r, t)'
    BY <1>1 DEF Owned
<1>7. \A k \in 1 .. Len(undo[t]) : ~(k <= last[t] /\ k >= position[t])
    BY <1>1
<1>8. \A r : ~MarkedBy(r, t)
    BY <1>1, <1>7 DEF MarkedBy, InEntry, LiveInsert
<1>9. OwnerKept(t) /\ HalfKept(t)
    BY <1>1, <1>6, <1>8, NotHalfway DEF OwnerKept
<1>10. TableInv' /\ InfoInv'
    BY <1>1, <1>2, <1>4, <1>5, <1>9, InfoSame, QuietStep
<1>11. current_start_timestamp' >= current_start_timestamp
    BY <1>1 DEF BasicInv, StateInv
<1> QED
    BY <1>1, <1>10, <1>11, IdsSame

LEMMA RollbackTable ==
    ASSUME BasicInv, TableInv, StateInv', NEW t \in Txns, Others(t), RollbackTransaction(t)
    PROVE  TableInv' /\ InfoInv' /\ IdsInv'
<1>1. /\ UNCHANGED <<total_rows, info, append_lock, append_start, undo, commit_id, current_start_timestamp>>
      /\ status[t] \in {"active", "failed"} /\ status'[t] = "rollback" /\ commit_id[t] = 0
    BY DEF RollbackTransaction, table, BasicInv, StateInv, ClockInv
<1>2. append_lock # t
    BY <1>1, PendingStatus
<1>3. \A k : LiveInsert(t, k)' => LiveInsert(t, k)
    BY <1>1 DEF LiveInsert, InsertIn, Ended
<1>4. \A k : EntryIds(t, k)' = EntryIds(t, k)
    BY <1>1 DEF EntryIds
<1>5. OwnKept(t)
    BY <1>1, <1>3, <1>4 DEF OwnKept
<1>6. OwnDeletes(t)
    BY <1>1 DEF OwnDeletes, LiveDelete, DeleteIn, Ended
<1>7. \A r : Owned(r, t)'
    BY <1>1 DEF Owned
<1>8. OwnerKept(t) /\ HalfKept(t)
    BY <1>1, <1>7, NotHalfway, NotMarked DEF OwnerKept
<1>9. TableInv' /\ InfoInv'
    BY <1>1, <1>2, <1>5, <1>6, <1>8, InfoSame, QuietStep
<1>10. current_start_timestamp' >= current_start_timestamp
    BY <1>1 DEF BasicInv, StateInv
<1> QED
    BY <1>1, <1>9, <1>10, IdsSame

LEMMA FinishTable ==
    ASSUME BasicInv, TableInv, StateInv', NEW t \in Txns, Others(t), FinishCommit(t) \/ FinishRollback(t)
    PROVE  TableInv' /\ InfoInv' /\ IdsInv'
<1>1. /\ UNCHANGED <<total_rows, info, append_lock, append_start, commit_id, current_start_timestamp>>
      /\ \/ status[t] = "commit" /\ status'[t] = "committed" /\ position[t] > Len(undo[t])
         \/ status[t] = "rollback" /\ status'[t] = "aborted" /\ commit_id[t] = 0
      /\ position[t] \in Nat /\ Len(undo[t]) \in Nat
    <2>1. /\ status \in [Txns -> Statuses] /\ position[t] \in Nat /\ Len(undo[t]) \in Nat
        <3>1. /\ status \in [Txns -> Statuses] /\ position \in [Txns -> Nat]
              /\ undo \in [Txns -> Seq(InsertEntries \union DeleteEntries)]
            BY Zenon DEF BasicInv, StateInv
        <3>2. undo[t] \in Seq(InsertEntries \union DeleteEntries)
            BY <3>1
        <3> QED BY <3>1, <3>2
    <2>2. status[t] = "rollback" => commit_id[t] = 0
        BY DEF BasicInv, ClockInv
    <2>3. CASE FinishCommit(t)
        <3>1. /\ UNCHANGED <<total_rows, info, append_lock, append_start, commit_id, current_start_timestamp>>
              /\ status' = [status EXCEPT ![t] = "committed"]
            BY <2>3, Zenon DEF FinishCommit, RemoveTransaction
        <3>2. status'[t] = "committed"
            BY <2>1, <3>1
        <3> QED BY <2>1, <2>3, <3>1, <3>2 DEF FinishCommit
    <2>4. CASE FinishRollback(t)
        <3>1. /\ UNCHANGED <<total_rows, info, append_lock, append_start, commit_id, current_start_timestamp>>
              /\ status' = [status EXCEPT ![t] = "aborted"]
            BY <2>4, Zenon DEF FinishRollback, RemoveTransaction
        <3>2. status'[t] = "aborted"
            BY <2>1, <3>1
        <3> QED BY <2>1, <2>2, <2>4, <3>1, <3>2 DEF FinishRollback
    <2> QED BY <2>3, <2>4
<1>2. append_lock # t
    BY <1>1, PendingStatus
<1>3. \A k : ~LiveInsert(t, k)' /\ ~LiveDelete(t, k)'
    BY <1>1 DEF LiveInsert, LiveDelete, Ended
<1>4. OwnKept(t) /\ OwnDeletes(t)
    BY <1>3 DEF OwnKept, OwnDeletes
<1>5. \A r : Owned(r, t)'
    BY <1>1 DEF Owned
<1>6. \A r : MarkedBy(r, t) => MarkedBy(r, t)'
    BY <1>1 DEF MarkedBy
<1>7. OwnerKept(t)
    BY <1>1, <1>5, <1>6 DEF OwnerKept
<1>8. HalfKept(t)
    <2>1. CASE status[t] # "commit"
        BY <2>1, NotHalfway
    <2>2. CASE status[t] = "commit"
        <3> SUFFICES ASSUME NEW r \in Nat, r < total_rows', InsertedId(r) = t
                     PROVE  FALSE
            BY DEF HalfKept
        <3>1. Owned(r, t)
            BY <1>1, OwnedRow
        <3>2. PICK k \in 1 .. Len(undo[t]) : k >= position[t]
            BY <2>2, <3>1 DEF Owned
        <3> QED BY <1>1, <2>2, <3>2
    <2> QED BY <2>1, <2>2
<1>9. status[t] # "committed"
    BY <1>1
<1>10. TableInv' /\ InfoInv'
    BY <1>1, <1>2, <1>4, <1>7, <1>8, <1>9, InfoSame, QuietStep
<1>11. current_start_timestamp' >= current_start_timestamp
    BY <1>1 DEF BasicInv, StateInv
<1> QED
    BY <1>1, <1>10, <1>11, IdsSame

-----------------------------------------------------------------------------
(***************************************************************************)
(* Deletions: made, committed, reverted and rolled back.                   *)
(***************************************************************************)

\* The iteration over the undo buffer of t goes past a deletion.
LEMMA PastDelete ==
    ASSUME BasicInv, TableInv, StateInv', NEW t \in Txns, Others(t), status[t] \in {"commit", "revert", "rollback"},
           NEW p \in 1 .. Len(undo[t]), position[t] = p, DeleteIn(t, p), NEW id \in Ids, id \in KnownIds,
           info' = CommitDelete(undo[t][p], id),
           UNCHANGED <<status, undo, last, commit_id, total_rows, append_lock, append_start, local,
                       current_start_timestamp>>,
           NEW q \in Nat, position'[t] = q, IF status[t] = "rollback" THEN p = q + 1 ELSE q = p + 1
    PROVE  TableInv' /\ InfoInv' /\ IdsInv'
<1>1. LiveDelete(t, p) /\ p \in Nat
    BY EntryTypes DEF LiveDelete, Ended, BasicInv
<1>2. InfoInv' /\ IdsInv' /\ SameIds /\ SameShortcuts /\ KeepsDeleted
    BY <1>1, CommitDeleteEffect DEF BasicInv, TableInv
<1>3. \A k \in 1 .. Len(undo[t]) : k \in Nat /\ (InsertIn(t, k) => k # p)
    BY <1>1, EntryTypes DEF BasicInv
<1>4. \A k \in 1 .. Len(undo[t]) : InsertIn(t, k) =>
        /\ status[t] # "rollback" => (k < q <=> k < p) /\ (k >= q <=> k >= p)
        /\ status[t] = "rollback" => (k <= q <=> k <= p)
    BY <1>1, <1>3
<1>5. \A k \in 1 .. Len(undo[t]) : LiveInsert(t, k)' <=> LiveInsert(t, k)
    BY <1>4 DEF LiveInsert, InsertIn
<1>6. \A k \in 1 .. Len(undo[t]) : InsertIn(t, k) => EntryIds(t, k)' = EntryIds(t, k)
    BY <1>4 DEF EntryIds
<1>7. OwnKept(t)
    BY <1>5, <1>6 DEF OwnKept, LiveInsert
<1>8. OwnDeletes(t)
    <2>1. \A k \in 1 .. Len(undo[t]) : status[t] = "rollback" /\ k <= q => k <= p
        BY <1>1, <1>3
    <2> QED BY <2>1 DEF OwnDeletes, LiveDelete, DeleteIn
<1>9. \A r, k : k \in 1 .. Len(undo[t]) => (InEntry(r, t, k)' <=> InEntry(r, t, k)) /\ (InEntry(r, t, k) => InsertIn(t, k))
    BY <1>5 DEF InEntry, LiveInsert
<1>10. \A r : append_lock # t /\ Owned(r, t) => Owned(r, t)'
    BY <1>4, <1>9 DEF Owned
<1>11. \A r : MarkedBy(r, t) => MarkedBy(r, t)'
    BY <1>4, <1>9 DEF MarkedBy
<1>12. append_lock # t
    BY PendingStatus
<1>13. OwnerKept(t)
    BY <1>10, <1>11, <1>12 DEF OwnerKept
<1>14. HalfKept(t)
    <2>1. \A a : Halfway(a, t) => Halfway(a, t)'
        BY <1>4 DEF Halfway, InsertIn
    <2> QED BY <2>1 DEF HalfKept
<1>15. TableInv'
    BY <1>2, <1>7, <1>8, <1>12, <1>13, <1>14, QuietStep
<1> QED
    BY <1>2, <1>15

LEMMA DeleteEntryTable ==
    ASSUME BasicInv, TableInv, StateInv', NEW t \in Txns, Others(t),
           CommitEntry(t) \/ RevertCommit(t) \/ RollbackEntry(t), undo[t][position[t]].type # "insert"
    PROVE  TableInv' /\ InfoInv' /\ IdsInv'
<1>0. StateInv /\ ClockInv /\ TickInv /\ PositionInv
    BY DEF BasicInv
<1>1. position \in [Txns -> Nat] /\ Len(undo[t]) \in Nat /\ last[t] \in Nat
    <2>1. /\ position \in [Txns -> Nat] /\ last \in [Txns -> Nat]
          /\ undo \in [Txns -> Seq(InsertEntries \union DeleteEntries)]
        BY <1>0 DEF StateInv
    <2> QED BY <2>1
<1>2. /\ status[t] \in {"commit", "revert", "rollback"}
      /\ UNCHANGED <<status, undo, last, commit_id, total_rows, append_lock, append_start, local,
                       current_start_timestamp>>
    BY DEF CommitEntry, RevertCommit, RollbackEntry, manager
<1>3. position[t] \in 1 .. Len(undo[t])
    BY <1>0, <1>1 DEF CommitEntry, RevertCommit, RollbackEntry, PositionInv
<1>4. PICK p \in 1 .. Len(undo[t]) : p = position[t]
    BY <1>3
<1>5. DeleteIn(t, p)
    BY <1>0, <1>4, EntryTypes DEF InsertIn
<1>6. PICK q \in Nat : position'[t] = q /\ IF status[t] = "rollback" THEN p = q + 1 ELSE q = p + 1
    <2>1. CASE status[t] = "rollback"
        <3>1. position'[t] = p - 1 /\ p - 1 \in Nat /\ p = (p - 1) + 1
            BY <1>1, <1>4, <2>1 DEF CommitEntry, RevertCommit, RollbackEntry
        <3> QED BY <2>1, <3>1
    <2>2. CASE status[t] # "rollback"
        <3>1. position'[t] = p + 1 /\ p + 1 \in Nat
            BY <1>1, <1>4, <2>2 DEF CommitEntry, RevertCommit, RollbackEntry
        <3> QED BY <2>2, <3>1
    <2> QED BY <2>1, <2>2
<1>7. PICK id \in Ids : id \in KnownIds /\ info' = CommitDelete(undo[t][p], id)
    <2>1. /\ commit_id[t] \in KnownIds /\ t \in KnownIds /\ NotDeletedId \in KnownIds
          /\ commit_id[t] \in Ids /\ t \in Ids /\ NotDeletedId \in Ids
        BY <1>0, KnownFacts, CommitIds, TxnFacts, ChunkInfoAssumption DEF Ids
    <2>2. \/ info' = CommitDelete(undo[t][p], commit_id[t])
          \/ info' = CommitDelete(undo[t][p], t)
          \/ info' = CommitDelete(undo[t][p], NotDeletedId)
        BY <1>4 DEF CommitEntry, RevertCommit, RollbackEntry, RevertedDelete
    <2> QED BY <2>1, <2>2
<1> QED
    BY <1>2, <1>4, <1>5, <1>6, <1>7, PastDelete

\* What a statement finds to delete was inserted by a transaction that committed, or by
\* itself.
LEMMA FoundCommitted ==
    ASSUME BasicInv, TableInv, NEW t \in Txns, NEW v \in Vectors, NEW offsets \in SUBSET Offsets,
           Delete(t, v, offsets), NEW i \in offsets, IdOf(info[v], i) < TransactionIdStart
    PROVE  \E y \in Txns : status[y] = "committed" /\ IdOf(info[v], i) = commit_id[y]
<1>0. StateInv /\ ClockInv /\ TickInv /\ BoundInv /\ OwnerInv
    BY DEF BasicInv, TableInv
<1>1. PICK r \in FetchRows(Reader(t)) : VectorOf(r) = v /\ i = OffsetOf(r)
    BY DEF Delete
<1>2. r \in Nat /\ r < total_rows /\ Fetch(info[v], Reader(t), i)
    <2>1. r \in 0 .. (total_rows - 1) /\ total_rows \in Nat /\ Fetch(info[v], Reader(t), i)
        BY <1>0, <1>1 DEF FetchRows, StateInv
    <2> QED BY <2>1
<1>3. InsertedId(r) = IdOf(info[v], i)
    BY <1>0, <1>1, <1>2, RowInTable
<1>4. info[v].type # "empty"
    BY <1>1, <1>2, <1>0, DeleteFound DEF TableInv, FillInv
<1>5. IdOf(info[v], i) < start_time[t] \/ IdOf(info[v], i) = t
    <2>1. info[v].type \in {"constant", "vector"}
        BY <1>4, InfoFields DEF BasicInv, InfoInv
    <2> QED BY <1>2, <2>1 DEF Fetch, UseVersion, Reader, IdOf
<1>6. PICK y \in Txns : InsertedId(r) = commit_id[y] /\ MarkedBy(r, y)
    <2>1. InsertedId(r) \notin Txns
        BY <1>3, TxnFacts, ChunkInfoAssumption
    <2> QED BY <1>0, <1>2, <2>1 DEF OwnerInv
<1>7. commit_id[y] < start_time[t]
    BY <1>0, <1>3, <1>5, <1>6, CommitIds
<1>8. status[t] # "none"
    BY DEF Delete
<1>9. status[y] \notin {"commit", "revert"}
    <2> SUFFICES ASSUME status[y] \in {"commit", "revert"}
                 PROVE  FALSE
        OBVIOUS
    <2>1. start_time[t] < commit_id[y]
        BY <1>0, <1>8 DEF ClockInv
    <2>2. start_time[t] \in Nat /\ commit_id[y] \in Nat
        BY <1>0 DEF StateInv
    <2> QED BY <1>7, <2>1, <2>2
<1> QED
    BY <1>3, <1>6, <1>9 DEF MarkedBy

LEMMA DeleteTable ==
    ASSUME BasicInv, TableInv, StateInv', NEW t \in Txns, Others(t), NEW v \in Vectors,
           NEW offsets \in SUBSET Offsets, Delete(t, v, offsets)
    PROVE  TableInv' /\ InfoInv' /\ IdsInv'
<1>0. StateInv /\ BoundInv /\ InfoInv /\ FillInv /\ IdsInv /\ ClockInv /\ VectorInv
    BY DEF BasicInv, TableInv
<1>1. /\ status[t] = "active" /\ status'[t] \in {"active", "failed"}
      /\ UNCHANGED <<position, last, commit_id, total_rows, append_lock, append_start, local,
                       current_start_timestamp>>
      /\ commit_id[t] = 0
    BY <1>0 DEF Delete, manager, progress, StateInv, ClockInv
<1>2. /\ InfoInv' /\ IdsInv' /\ SameIds /\ SameShortcuts /\ KeepsDeleted
      /\ info'[v].type = "vector" /\ info'[v].any_deleted
      /\ \/ undo' = undo
         \/ /\ undo' = [undo EXCEPT ![t] = Append(@, [type |-> "delete", vector |-> v, rows |-> offsets])]
            /\ \A i \in offsets : info'[v].inserted[i] < TransactionIdStart
    BY <1>0, DeleteEffect
<1>3. append_lock # t
    BY <1>1, PendingStatus
<1>4. undo[t] \in Seq(InsertEntries \union DeleteEntries) /\ undo \in [Txns -> Seq(InsertEntries \union DeleteEntries)]
    BY <1>0 DEF StateInv
<1>5. \/ undo'[t] = undo[t]
      \/ /\ undo'[t] = Append(undo[t], [type |-> "delete", vector |-> v, rows |-> offsets])
         /\ \A i \in offsets : info'[v].inserted[i] < TransactionIdStart
    BY <1>2, <1>4
<1>6. ASSUME NEW k \in 1 .. Len(undo'[t])
      PROVE  \/ k \in 1 .. Len(undo[t]) /\ undo'[t][k] = undo[t][k]
             \/ /\ undo'[t][k] = [type |-> "delete", vector |-> v, rows |-> offsets]
                /\ \A i \in offsets : info'[v].inserted[i] < TransactionIdStart
    BY <1>4, <1>5
<1>7. \A k \in 1 .. Len(undo[t]) : k \in 1 .. Len(undo'[t]) /\ undo'[t][k] = undo[t][k]
    BY <1>4, <1>5
<1>8. OwnKept(t)
    <2> SUFFICES ASSUME NEW k \in 1 .. Len(undo'[t]), LiveInsert(t, k)'
                 PROVE  /\ k \in 1 .. Len(undo[t]) /\ LiveInsert(t, k) /\ undo'[t][k] = undo[t][k]
                        /\ EntryIds(t, k) \subseteq EntryIds(t, k)'
        BY DEF OwnKept
    <2>1. k \in 1 .. Len(undo[t]) /\ undo'[t][k] = undo[t][k]
        BY <1>6 DEF LiveInsert, InsertIn
    <2>2. LiveInsert(t, k)
        BY <1>1, <2>1 DEF LiveInsert, InsertIn, Ended
    <2> QED BY <1>1, <2>1, <2>2 DEF EntryIds
<1>9. OwnDeletes(t)
    <2> SUFFICES ASSUME NEW k \in 1 .. Len(undo'[t]), LiveDelete(t, k)'
                 PROVE  \/ k \in 1 .. Len(undo[t]) /\ LiveDelete(t, k) /\ undo'[t][k] = undo[t][k]
                        \/ DeletedFrom(undo[t][k].vector, undo[t][k].rows)'
        BY DEF OwnDeletes
    <2>1. CASE k \in 1 .. Len(undo[t]) /\ undo'[t][k] = undo[t][k]
        BY <1>1, <2>1 DEF LiveDelete, DeleteIn, Ended
    <2>2. CASE /\ undo'[t][k] = [type |-> "delete", vector |-> v, rows |-> offsets]
               /\ \A i \in offsets : info'[v].inserted[i] < TransactionIdStart
        <3>1. ASSUME NEW i \in offsets
              PROVE  /\ Base(v) + i < total_rows'
                     /\ \E y \in Txns : status'[y] = "committed" /\ info'[v].inserted[i] = commit_id'[y]
            <4>1. info'[v].inserted[i] = IdOf(info[v], i)
                BY <1>2 DEF SameIds, IdOf
            <4>2. PICK y \in Txns : status[y] = "committed" /\ IdOf(info[v], i) = commit_id[y]
                BY <2>2, <4>1, FoundCommitted
            <4>3. status'[y] = "committed" /\ commit_id'[y] = commit_id[y]
                BY <1>1, <4>2 DEF Others
            <4>4. Base(v) + i < total_rows
                BY <1>0, DeleteFound
            <4> QED BY <1>1, <4>1, <4>2, <4>3, <4>4
        <3>2. DeletedFrom(v, offsets)'
            BY <1>2, <3>1 DEF DeletedFrom
        <3> QED BY <2>2, <3>2 DEF DeletedFrom
    <2> QED BY <1>6, <2>1, <2>2
<1>10. \A r : Owned(r, t) => Owned(r, t)'
    <2>1. \A r, k : k \in 1 .. Len(undo[t]) /\ InEntry(r, t, k) /\ status'[t] = "active" => InEntry(r, t, k)'
        BY <1>1, <1>7 DEF InEntry, LiveInsert, InsertIn, RowsOf, End, Ended
    <2> QED BY <1>1, <1>3, <1>7, <2>1 DEF Owned
<1>11. OwnerKept(t) /\ HalfKept(t)
    BY <1>1, <1>10, NotHalfway, NotMarked DEF OwnerKept
<1>12. TableInv'
    BY <1>1, <1>2, <1>3, <1>8, <1>9, <1>11, QuietStep
<1> QED
    BY <1>2, <1>12

-----------------------------------------------------------------------------
(***************************************************************************)
(* The end of a flush, and the appends that are reverted.                  *)
(***************************************************************************)

LEMMA PendingFacts ==
    ASSUME BasicInv, TableInv, NEW t \in Txns, append_lock = t
    PROVE  /\ append_start \in Nat /\ total_rows \in Nat /\ append_start < total_rows
           /\ Len(ToFlush(t)) \in Nat /\ Len(ToFlush(t)) # 0
           /\ append_start + Len(ToFlush(t)) = total_rows
           /\ \A r \in Nat : append_start <= r /\ r < total_rows => InsertedId(r) = t
           /\ CoversConstants(append_start, total_rows)
           /\ \A k \in 1 .. Len(undo[t]) : LiveInsert(t, k) => End(undo[t][k]) <= append_start
<1>1. /\ LocalRows(t) # {}
      /\ append_start + Cardinality(LocalRows(t)) = total_rows
      /\ \A r \in Nat : append_start <= r /\ r < total_rows => InsertedId(r) = t
      /\ CoversConstants(append_start, total_rows)
      /\ \A k \in 1 .. Len(undo[t]) : LiveInsert(t, k) => End(undo[t][k]) <= append_start
    BY TxnFacts DEF TableInv, PendingInv
<1>2. /\ Len(ToFlush(t)) = Cardinality(LocalRows(t)) /\ Cardinality(LocalRows(t)) \in Nat
      /\ Cardinality(LocalRows(t)) > 0
    BY <1>1, FlushLength DEF BasicInv
<1>3. append_start \in Nat /\ total_rows \in Nat
    BY DEF BasicInv, StateInv
<1> QED
    BY <1>1, <1>2, <1>3

LEMMA AppendTable ==
    ASSUME BasicInv, TableInv, StateInv', NEW t \in Txns, Others(t), AppendRows(t)
    PROVE  TableInv' /\ InfoInv' /\ IdsInv'
<1>0. /\ StateInv /\ ClockInv /\ TickInv /\ BoundInv /\ InfoInv /\ IdsInv
      /\ FillInv /\ EntryInv /\ OrderInv /\ PendingInv /\ OwnerInv /\ VectorInv /\ DeleteInv
      /\ total_rows \in Nat /\ append_start \in Nat
    BY DEF BasicInv, TableInv, StateInv
<1>1. /\ status[t] \in {"flush", "commit_flush"} /\ append_lock = t /\ append_lock' = NoTxn
      /\ UNCHANGED <<total_rows, info, commit_id, current_start_timestamp, last>>
      /\ status'[t] = IF status[t] = "flush" THEN "active" ELSE "commit"
      /\ position'[t] = 1
    BY <1>0 DEF AppendRows, manager, StateInv
<1>2. /\ append_start < total_rows
      /\ Len(ToFlush(t)) \in Nat /\ append_start + Len(ToFlush(t)) = total_rows
      /\ \A r \in Nat : append_start <= r /\ r < total_rows => InsertedId(r) = t
      /\ CoversConstants(append_start, total_rows)
      /\ \A k \in 1 .. Len(undo[t]) : LiveInsert(t, k) => End(undo[t][k]) <= append_start
    BY <1>1, PendingFacts
<1>3. PICK e : e = [type |-> "insert", start |-> append_start, count |-> Len(ToFlush(t))]
    OBVIOUS
<1>4. e.type = "insert" /\ e.start = append_start /\ End(e) = total_rows
    BY <1>2, <1>3 DEF End
<1>5. undo[t] \in Seq(InsertEntries \union DeleteEntries)
    BY <1>0 DEF StateInv
<1>6. undo'[t] = Append(undo[t], e)
    <2>1. undo \in [Txns -> Seq(InsertEntries \union DeleteEntries)]
        BY <1>0 DEF StateInv
    <2> QED BY <1>3, <2>1 DEF AppendRows
<1>7. PICK n \in Nat : n = Len(undo[t]) + 1
    BY <1>5
<1>8. /\ n \in 1 .. Len(undo'[t]) /\ undo'[t][n] = e
      /\ \A k \in 1 .. Len(undo'[t]) : k # n => k \in 1 .. Len(undo[t]) /\ undo'[t][k] = undo[t][k] /\ k < n
      /\ \A k \in 1 .. Len(undo[t]) : k \in 1 .. Len(undo'[t]) /\ undo'[t][k] = undo[t][k] /\ k # n
      /\ \A k \in 1 .. Len(undo'[t]) : k \in Nat /\ ~(k < 1) /\ k >= 1 /\ k <= n
    BY <1>5, <1>6, <1>7
<1>9. RowsKept
    BY <1>0, <1>1 DEF RowsKept, InsertedId
<1>10. ASSUME NEW u \in Txns, NEW k \in 1 .. Len(undo'[u]), LiveInsert(u, k)', u # t \/ k # n
       PROVE  Kept(u, k)
    <2>1. CASE u # t
        BY <1>0, <1>1, <1>10, <2>1, OtherKept
    <2>2. CASE u = t /\ k # n
        <3>1. k \in 1 .. Len(undo[t]) /\ undo'[t][k] = undo[t][k]
            BY <1>8, <1>10, <2>2
        <3>2. LiveInsert(t, k)
            BY <1>1, <1>10, <2>2, <3>1 DEF LiveInsert, InsertIn, Ended
        <3>3. EntryIds(t, k) = {t} /\ EntryIds(t, k)' = {t}
            BY <1>1, <1>8, <1>10, <2>2 DEF EntryIds
        <3>4. End(undo[t][k]) <= total_rows'
            BY <1>0, <1>1, <3>1, <3>2 DEF EntryInv
        <3> QED BY <2>2, <3>1, <3>2, <3>3, <3>4 DEF Kept
    <2> QED BY <1>10, <2>1, <2>2
<1>11. ASSUME NEW u \in Txns, NEW k \in 1 .. Len(undo'[u]), LiveInsert(u, k)'
       PROVE  (/\ End(undo[u][k]) <= total_rows
               /\ \A r \in RowsOf(undo[u][k]) : InsertedId(r) \in EntryIds(u, k)
               /\ CoversConstants(undo[u][k].start, End(undo[u][k])))'
    <2>1. CASE u # t \/ k # n
        BY <1>0, <1>9, <1>10, <1>11, <2>1, EntryKept
    <2>2. CASE u = t /\ k = n
        <3>1. undo'[u][k] = e /\ EntryIds(u, k)' = {t}
            BY <1>1, <1>8, <2>2 DEF EntryIds
        <3>2. (End(undo[u][k]) <= total_rows)'
            BY <1>0, <1>1, <1>4, <3>1 DEF End
        <3>3. (\A r \in RowsOf(undo[u][k]) : InsertedId(r) \in EntryIds(u, k))'
            <4>1. \A r \in RowsOf(e) : r \in Nat /\ append_start <= r /\ r < total_rows
                BY <1>4 DEF RowsOf
            <4>2. \A r \in RowsOf(e) : InsertedId(r)' = t
                BY <1>1, <1>2, <4>1 DEF InsertedId
            <4> QED BY <3>1, <4>2 DEF RowsOf, End
        <3>4. CoversConstants(undo[u][k].start, End(undo[u][k]))'
            <4>1. CoversConstants(append_start, total_rows)
                BY <1>2
            <4>2. undo'[u][k].start = append_start /\ End(undo'[u][k]) = total_rows
                BY <1>4, <3>1
            <4> QED BY <1>1, <4>1, <4>2 DEF CoversConstants, End
        <3> QED BY <3>2, <3>3, <3>4
    <2> QED BY <2>1, <2>2
<1>12. EntryInv'
    BY <1>11 DEF EntryInv
<1>13. OrderInv'
    <2> SUFFICES ASSUME NEW u \in Txns, NEW j \in 1 .. Len(undo'[u]), NEW k \in 1 .. Len(undo'[u]),
                        j < k, LiveInsert(u, j)', LiveInsert(u, k)'
                 PROVE  End(undo'[u][j]) <= undo'[u][k].start
        BY DEF OrderInv, End
    <2>1. CASE u = t /\ k = n
        <3>1. j # n
            BY <1>7, <2>1
        <3>2. Kept(t, j)
            BY <1>10, <2>1, <3>1
        <3>3. End(undo[t][j]) <= append_start /\ undo'[t][j] = undo[t][j]
            BY <1>2, <3>2 DEF Kept
        <3> QED BY <1>4, <1>8, <2>1, <3>3
    <2>2. CASE u # t \/ k # n
        <3>1. u = t => j # n
            BY <1>7, <1>8, <2>2
        <3>2. Kept(u, j) /\ Kept(u, k)
            BY <1>10, <2>2, <3>1
        <3> QED BY <1>0, <3>2 DEF Kept, OrderInv
    <2> QED BY <2>1, <2>2
<1>14. PendingInv'
    BY <1>1 DEF PendingInv
<1>15. OwnerKept(t)
    <2>1. ASSUME NEW r \in Nat, r < total_rows', Owned(r, t)
          PROVE  Owned(r, t)'
        <3>1. \E k \in 1 .. Len(undo'[t]) : InEntry(r, t, k)'
            <4>1. CASE r >= append_start
                <5>1. r \in RowsOf(e)
                    BY <1>1, <1>4, <2>1, <4>1 DEF RowsOf
                <5>2. InEntry(r, t, n)'
                    BY <1>1, <1>4, <1>8, <5>1 DEF InEntry, LiveInsert, InsertIn, Ended, RowsOf, End
                <5> QED BY <1>8, <5>2
            <4>2. CASE \E k \in 1 .. Len(undo[t]) : InEntry(r, t, k)
                <5>1. PICK k \in 1 .. Len(undo[t]) : InEntry(r, t, k)
                    BY <4>2
                <5>2. k \in 1 .. Len(undo'[t]) /\ undo'[t][k] = undo[t][k]
                    BY <1>8
                <5>3. InEntry(r, t, k)'
                    BY <1>1, <5>1, <5>2 DEF InEntry, LiveInsert, InsertIn, Ended, RowsOf, End
                <5> QED BY <5>2, <5>3
            <4> QED BY <1>1, <2>1, <4>1, <4>2 DEF Owned
        <3>2. \E k \in 1 .. Len(undo'[t]) : k >= 1 /\ InEntry(r, t, k)'
            BY <1>8, <3>1
        <3> QED BY <1>1, <3>1, <3>2 DEF Owned
    <2>2. \A r : ~MarkedBy(r, t)
        BY <1>1 DEF MarkedBy
    <2> QED BY <2>1, <2>2 DEF OwnerKept
<1>16. total_rows' <= total_rows /\ total_rows' >= total_rows
    BY <1>0, <1>1
<1>17. OwnerInv'
    BY <1>0, <1>1, <1>9, <1>15, <1>16, OwnersKept
<1>18. SameShortcuts /\ KeepsDeleted /\ InfoInv'
    BY <1>1, InfoSame
<1>19. VectorInv'
    BY <1>0, <1>1, <1>9, <1>16, <1>18, NotHalfway, VectorsKept
<1>20. OwnDeletes(t)
    <2> SUFFICES ASSUME NEW k \in 1 .. Len(undo'[t]), LiveDelete(t, k)'
                 PROVE  k \in 1 .. Len(undo[t]) /\ LiveDelete(t, k) /\ undo'[t][k] = undo[t][k]
        BY DEF OwnDeletes
    <2>1. k # n
        BY <1>4, <1>8 DEF LiveDelete, DeleteIn
    <2> QED BY <1>1, <1>8, <2>1 DEF LiveDelete, DeleteIn, Ended
<1>21. DeleteInv'
    BY <1>1, <1>9, <1>16, <1>18, <1>20, DeletesStep DEF KeepsDeleted
<1>22. FillInv'
    BY <1>0, <1>1 DEF FillInv
<1>23. IdsInv'
    <2>1. current_start_timestamp' >= current_start_timestamp
        BY <1>0, <1>1 DEF StateInv
    <2> QED BY <1>1, <2>1, IdsSame
<1> QED
    BY <1>12, <1>13, <1>14, <1>17, <1>18, <1>19, <1>21, <1>22, <1>23 DEF TableInv

LEMMA RevertFlushTable ==
    ASSUME BasicInv, TableInv, StateInv', NEW t \in Txns, Others(t), RevertFlush(t)
    PROVE  TableInv' /\ InfoInv' /\ IdsInv'
<1>1. /\ status[t] \in {"flush", "commit_flush"} /\ append_lock = t /\ append_lock' = NoTxn
      /\ UNCHANGED <<commit_id, current_start_timestamp, undo>>
      /\ status'[t] = IF status[t] = "flush" THEN "failed" ELSE "revert"
      /\ position'[t] = 1
    BY DEF RevertFlush, manager, BasicInv, StateInv
<1>2. PICK start \in Nat : start = append_start /\ start <= total_rows
    BY <1>1, PendingFacts
<1>3. /\ CoversConstants(start, total_rows)
      /\ \A r \in Nat : start <= r /\ r < total_rows => InsertedId(r) \in {t, commit_id[t]}
      /\ \A k \in 1 .. Len(undo[t]) : LiveInsert(t, k) => End(undo[t][k]) <= start
    BY <1>1, <1>2, PendingFacts
<1>4. total_rows' = start /\ info' = RevertInfo(start)
    BY <1>1, <1>2, PendingFacts DEF RevertFlush, RevertAppendInternal, IsLastAppend
<1>5. \A k \in 1 .. Len(undo[t]) : LiveInsert(t, k)' => LiveInsert(t, k) /\ EntryIds(t, k) \subseteq EntryIds(t, k)'
    BY <1>1 DEF LiveInsert, InsertIn, Ended, EntryIds
<1>6. OwnKept(t) /\ \A k \in 1 .. Len(undo'[t]) : LiveInsert(t, k)' => End(undo[t][k]) <= start
    BY <1>1, <1>3, <1>5 DEF OwnKept
<1>7. OwnDeletes(t)
    BY <1>1 DEF OwnDeletes, LiveDelete, DeleteIn, Ended
<1>8. \A r : Owned(r, t)' /\ ~MarkedBy(r, t)
    BY <1>1 DEF Owned, MarkedBy
<1>9. OwnerKept(t) /\ HalfKept(t) /\ status[t] # "committed"
    BY <1>1, <1>8, NotHalfway DEF OwnerKept
<1> QED
    BY <1>1, <1>2, <1>3, <1>4, <1>6, <1>7, <1>9, CutStep

LEMMA RevertInsertTable ==
    ASSUME BasicInv, TableInv, StateInv', NEW t \in Txns, Others(t), RevertCommit(t),
           undo[t][position[t]].type = "insert"
    PROVE  TableInv' /\ InfoInv' /\ IdsInv'
<1>0. StateInv /\ ClockInv /\ TickInv /\ PositionInv /\ EntryInv
    BY DEF BasicInv, TableInv
<1>1. /\ status[t] = "revert" /\ status'[t] = "revert" /\ append_lock = NoTxn /\ append_lock' = NoTxn
      /\ UNCHANGED <<commit_id, current_start_timestamp, undo, last>>
    BY DEF RevertCommit, RevertAppend, manager
<1>2. position \in [Txns -> Nat] /\ Len(undo[t]) \in Nat /\ last[t] \in Nat /\ total_rows \in Nat
    <2>1. /\ position \in [Txns -> Nat] /\ last \in [Txns -> Nat] /\ total_rows \in Nat
          /\ undo \in [Txns -> Seq(InsertEntries \union DeleteEntries)]
        BY <1>0 DEF StateInv
    <2> QED BY <2>1
<1>3. PICK p \in 1 .. Len(undo[t]) : p = position[t]
    BY <1>0, <1>2 DEF RevertCommit, PositionInv
<1>4. InsertIn(t, p) /\ LiveInsert(t, p) /\ p \in Nat
    BY <1>1, <1>2, <1>3 DEF InsertIn, LiveInsert, Ended
<1>5. /\ \A k \in 1 .. Len(undo[t]) : InsertIn(t, k) => k = p
      /\ End(undo[t][p]) = total_rows
    BY <1>1, <1>4 DEF BasicInv, FlushInv, FlushOf, OneAppend, NoRevert, Ended
<1>6. PICK start \in Nat : start = undo[t][p].start /\ start <= total_rows
    BY <1>0, <1>2, <1>4, <1>5, EntryTypes
<1>7. total_rows' = start /\ info' = RevertInfo(start)
    <2>1. undo[t][p].count # 0 /\ total_rows = undo[t][p].start + undo[t][p].count
        BY <1>0, <1>4, <1>5, EntryTypes DEF End
    <2>2. RevertAppendInternal(undo[t][p].start, undo[t][p].count)
        BY <1>3 DEF RevertCommit, RevertAppend
    <2> QED BY <1>6, <2>1, <2>2 DEF RevertAppendInternal, IsLastAppend
<1>8. CoversConstants(start, total_rows)
    BY <1>0, <1>4, <1>5, <1>6 DEF EntryInv
<1>9. \A r \in Nat : start <= r /\ r < total_rows => InsertedId(r) \in {t, commit_id[t]}
    <2>1. \A r \in Nat : start <= r /\ r < total_rows => r \in RowsOf(undo[t][p])
        BY <1>5, <1>6 DEF RowsOf
    <2>2. EntryIds(t, p) \subseteq {t, commit_id[t]}
        BY DEF EntryIds
    <2> QED BY <1>0, <1>4, <2>1, <2>2 DEF EntryInv
<1>10. position'[t] = p + 1
    BY <1>2, <1>3 DEF RevertCommit
<1>11. \A k \in 1 .. Len(undo'[t]) : ~LiveInsert(t, k)'
    <2>1. ~(p >= p + 1)
        BY <1>4
    <2> QED BY <1>1, <1>5, <1>10, <2>1 DEF LiveInsert, InsertIn
<1>12. OwnKept(t) /\ \A k \in 1 .. Len(undo'[t]) : LiveInsert(t, k)' => End(undo[t][k]) <= start
    BY <1>11 DEF OwnKept
<1>13. OwnDeletes(t)
    BY <1>1 DEF OwnDeletes, LiveDelete, DeleteIn, Ended
<1>14. ASSUME NEW r \in Nat, r < total_rows'
       PROVE  Owned(r, t)' /\ ~MarkedBy(r, t)
    <2>1. r \notin RowsOf(undo[t][p])
        BY <1>6, <1>7, <1>14 DEF RowsOf
    <2>2. \A k \in 1 .. Len(undo[t]) : ~InEntry(r, t, k)
        BY <1>5, <2>1 DEF InEntry, LiveInsert
    <2> QED BY <1>1, <2>2 DEF Owned, MarkedBy
<1>15. OwnerKept(t) /\ HalfKept(t) /\ status[t] # "committed"
    BY <1>1, <1>14, NotHalfway DEF OwnerKept
<1> QED
    BY <1>1, <1>6, <1>7, <1>8, <1>9, <1>12, <1>13, <1>15, CutStep

LEMMA RollbackInsertTable ==
    ASSUME BasicInv, TableInv, StateInv', NEW t \in Txns, Others(t), RollbackEntry(t),
           undo[t][position[t]].type = "insert"
    PROVE  TableInv' /\ InfoInv' /\ IdsInv'
<1>0. StateInv /\ ClockInv /\ TickInv /\ PositionInv /\ EntryInv
    BY DEF BasicInv, TableInv
<1>1. /\ status[t] = "rollback" /\ status'[t] = "rollback" /\ append_lock = NoTxn /\ append_lock' = NoTxn
      /\ UNCHANGED <<commit_id, current_start_timestamp, undo, last, append_start>>
    BY DEF RollbackEntry, RevertAppend, manager
<1>2. position \in [Txns -> Nat] /\ Len(undo[t]) \in Nat /\ total_rows \in Nat
    <2>1. /\ position \in [Txns -> Nat] /\ total_rows \in Nat
          /\ undo \in [Txns -> Seq(InsertEntries \union DeleteEntries)]
        BY <1>0 DEF StateInv
    <2> QED BY <2>1
<1>3. PICK p \in 1 .. Len(undo[t]) : p = position[t]
    BY <1>0, <1>1, <1>2 DEF RollbackEntry, PositionInv
<1>4. InsertIn(t, p) /\ p \in Nat
    BY <1>2, <1>3 DEF InsertIn
<1>5. PICK start \in Nat, end \in Nat :
        start = undo[t][p].start /\ end = End(undo[t][p]) /\ start <= end /\ undo[t][p].count # 0
    BY <1>0, <1>4, EntryTypes
<1>6. PICK q \in Nat : position'[t] = q /\ p = q + 1
    <2>1. position'[t] = p - 1 /\ p - 1 \in Nat /\ p = (p - 1) + 1
        BY <1>2, <1>3 DEF RollbackEntry
    <2> QED BY <2>1
<1>7. \A k \in 1 .. Len(undo[t]) : k <= q => k <= p
    BY <1>2, <1>4, <1>6
<1>8. OwnDeletes(t)
    BY <1>1, <1>3, <1>6, <1>7 DEF OwnDeletes, LiveDelete, DeleteIn, Ended
<1>9. \A r : Owned(r, t)' /\ ~MarkedBy(r, t)
    BY <1>1 DEF Owned, MarkedBy
<1>10. OwnerKept(t) /\ HalfKept(t) /\ status[t] # "committed"
    BY <1>1, <1>9, NotHalfway DEF OwnerKept
<1>11. \A k : EntryIds(t, k) = {t} /\ EntryIds(t, k)' = {t}
    BY <1>1 DEF EntryIds
<1>12. IF total_rows = end THEN total_rows' = start /\ info' = RevertInfo(start)
                           ELSE UNCHANGED <<total_rows, info>>
    <2>1. RevertAppendInternal(undo[t][p].start, undo[t][p].count)
        BY <1>3 DEF RollbackEntry, RevertAppend
    <2> QED BY <1>5, <2>1 DEF RevertAppendInternal, IsLastAppend, End
<1>13. total_rows' <= total_rows /\ total_rows' \in Nat
    BY <1>2, <1>5, <1>12
<1>14. ASSUME NEW k \in 1 .. Len(undo'[t]), LiveInsert(t, k)'
       PROVE  k \in 1 .. Len(undo[t]) /\ LiveInsert(t, k) /\ undo'[t][k] = undo[t][k]
              /\ End(undo[t][k]) <= total_rows'
    <2>1. InsertIn(t, k) /\ k <= q /\ End(undo[t][k]) <= total_rows' /\ k \in 1 .. Len(undo[t])
        BY <1>1, <1>6, <1>14 DEF LiveInsert, InsertIn, End
    <2>2. End(undo[t][k]) \in Nat
        BY <1>0, <2>1, EntryTypes
    <2>3. End(undo[t][k]) <= total_rows
        BY <1>2, <1>13, <2>1, <2>2
    <2> QED BY <1>1, <1>3, <1>7, <2>1, <2>3 DEF LiveInsert, Ended
<1>15. OwnKept(t)
    BY <1>11, <1>14 DEF OwnKept
<1>16. CASE total_rows = end
    <2>1. total_rows' = start /\ info' = RevertInfo(start) /\ start <= total_rows
        BY <1>5, <1>12, <1>16
    <2>2. LiveInsert(t, p)
        <3>1. p <= position[t] /\ End(undo[t][p]) <= total_rows
            BY <1>2, <1>3, <1>4, <1>5, <1>16
        <3> QED BY <1>1, <1>4, <3>1 DEF LiveInsert, Ended
    <2>3. CoversConstants(start, total_rows)
        BY <1>0, <1>5, <1>16, <2>2 DEF EntryInv
    <2>4. \A r \in Nat : start <= r /\ r < total_rows => InsertedId(r) \in {t, commit_id[t]}
        <3>1. \A r \in Nat : start <= r /\ r < total_rows => r \in RowsOf(undo[t][p])
            BY <1>5, <1>16 DEF RowsOf
        <3> QED BY <1>0, <1>11, <2>2, <3>1 DEF EntryInv
    <2>5. \A k \in 1 .. Len(undo'[t]) : LiveInsert(t, k)' => End(undo[t][k]) <= start
        BY <1>14, <2>1
    <2> QED BY <1>1, <1>8, <1>10, <1>15, <2>1, <2>3, <2>4, <2>5, CutStep
<1>17. CASE total_rows # end
    <2>1. UNCHANGED <<total_rows, info>>
        BY <1>12, <1>17
    <2>2. current_start_timestamp' >= current_start_timestamp
        BY <1>0, <1>1 DEF StateInv
    <2>3. append_lock # t
        BY <1>1, TxnFacts
    <2>4. TableInv' /\ InfoInv'
        BY <1>1, <1>8, <1>10, <1>15, <2>1, <2>3, InfoSame, QuietStep
    <2> QED BY <2>1, <2>2, <2>4, IdsSame
<1> QED
    BY <1>16, <1>17

-----------------------------------------------------------------------------
(***************************************************************************)
(* Rows that are appended, and appends that are committed.                 *)
(***************************************************************************)

LEMMA InitializeTable ==
    ASSUME BasicInv, TableInv, StateInv', BoundInv', SingleRevert, NEW t \in Txns, Others(t), InitializeAppend(t)
    PROVE  TableInv' /\ InfoInv' /\ IdsInv'
<1>0. /\ StateInv /\ ClockInv /\ TickInv /\ BoundInv /\ InfoInv /\ IdsInv
      /\ FillInv /\ EntryInv /\ OrderInv /\ PendingInv /\ OwnerInv /\ VectorInv /\ DeleteInv
      /\ total_rows \in Nat
    BY DEF BasicInv, TableInv, StateInv
<1>1. /\ status[t] \in {"flush", "commit_flush"} /\ append_lock = NoTxn /\ append_lock' = t
      /\ append_start' = total_rows
      /\ UNCHANGED <<status, undo, position, last, commit_id, local, current_start_timestamp>>
    BY DEF InitializeAppend, manager
<1>2. /\ InfoInv' /\ IdsInv' /\ FillInv' /\ VectorInv' /\ KeepsDeleted
      /\ total_rows' = total_rows + Cardinality(LocalRows(t))
      /\ total_rows' \in Nat /\ total_rows' > total_rows
      /\ \A r \in Nat : r < total_rows' =>
            InsertedId(r)' = IF r < total_rows THEN InsertedId(r) ELSE t
      /\ \A v \in Vectors : info'[v].type = "constant" =>
            \/ info[v].type = "constant"
            \/ total_rows <= Base(v) /\ Base(v) + VectorSize <= total_rows'
    <2>1. total_rows' <= MaxRows
        BY DEF BoundInv
    <2> QED BY <1>0, <2>1, AppendEffect
<1>3. RowsKept
    BY <1>2 DEF RowsKept
<1>4. ASSUME NEW u \in Txns, NEW k \in 1 .. Len(undo'[u]), LiveInsert(u, k)'
      PROVE  Kept(u, k)
    <2>1. /\ k \in 1 .. Len(undo[u]) /\ InsertIn(u, k) /\ status[u] \notin Ended
          /\ status[u] = "revert" => k >= position[u]
          /\ status[u] = "rollback" => k <= position[u]
        BY <1>1, <1>4 DEF LiveInsert, InsertIn
    <2>2. status[u] = "rollback" => End(undo[u][k]) <= total_rows
        <3> SUFFICES ASSUME status[u] = "rollback"
                     PROVE  End(undo[u][k]) <= total_rows
            OBVIOUS
        <3>1. transaction_lock = u /\ u # t
            BY <1>0, <1>1 DEF ClockInv, Locking
        <3>2. status[t] # "commit_flush"
            BY <1>0, <3>1 DEF ClockInv, Locking
        <3>3. status[t] = "flush"
            BY <1>1, <3>2
        <3>4. ~(FlushCount > MaxLocal)
            BY <3>3 DEF BasicInv, FlushInv, FlushOf, OneAppend, NoRevert
        <3> QED BY <2>1, <3>4 DEF BasicInv, FlushInv, FlushOf, OneAppend, NoRevert
    <2>3. LiveInsert(u, k)
        BY <2>1, <2>2 DEF LiveInsert
    <2>4. EntryIds(u, k)' = EntryIds(u, k) /\ undo'[u][k] = undo[u][k]
        BY <1>1 DEF EntryIds
    <2>5. End(undo[u][k]) <= total_rows /\ End(undo[u][k]) \in Nat
        BY <1>0, <2>1, <2>3, EntryTypes DEF EntryInv
    <2>6. End(undo[u][k]) <= total_rows'
        BY <1>0, <1>2, <2>5
    <2> QED BY <2>1, <2>3, <2>4, <2>6 DEF Kept
<1>5. EntryInv' /\ OrderInv'
    BY <1>0, <1>3, <1>4, EntriesKept DEF AllKept
<1>6. PendingInv'
    <2>1. LocalRows(t)' = LocalRows(t) /\ LocalRows(t) # {}
        BY <1>0, <1>1, FlushLength DEF LocalRows, InitializeAppend
    <2>2. LocalRows(append_lock)' = LocalRows(t)
        BY <1>1, <2>1 DEF LocalRows
    <2>3. (append_start + Cardinality(LocalRows(append_lock)) = total_rows)'
        BY <1>1, <1>2, <2>2
    <2>4. (\A r \in Nat : append_start <= r /\ r < total_rows => InsertedId(r) = append_lock)'
        <3>1. \A r \in Nat : total_rows <= r => ~(r < total_rows)
            BY <1>0
        <3> QED BY <1>1, <1>2, <3>1
    <2>5. CoversConstants(append_start, total_rows)'
        <3> SUFFICES ASSUME NEW v \in Vectors, info'[v].type = "constant", total_rows < Base(v) + VectorSize
                     PROVE  total_rows <= Base(v) /\ Base(v) + VectorSize <= total_rows'
            BY <1>1 DEF CoversConstants
        <3>1. ~(info[v].type = "constant")
            <4> SUFFICES ASSUME info[v].type = "constant"
                         PROVE  FALSE
                OBVIOUS
            <4>1. Base(v) + VectorSize <= total_rows
                BY <1>0 DEF FillInv
            <4>2. Base(v) \in Nat /\ VectorSize \in Nat
                BY VectorsAreNat, ChunkInfoAssumption
            <4> QED BY <1>0, <4>1, <4>2
        <3> QED BY <1>2, <3>1
    <2>6. \A k \in 1 .. Len(undo[t]) : LiveInsert(t, k)' => End(undo[t][k]) <= total_rows
        BY <1>0, <1>1, <1>4 DEF Kept, EntryInv
    <2>7. \A k : LiveInsert(append_lock, k)' <=> LiveInsert(t, k)'
        BY <1>1 DEF LiveInsert, InsertIn
    <2>8. (\A k \in 1 .. Len(undo[append_lock]) : LiveInsert(append_lock, k) =>
                End(undo[append_lock][k]) <= append_start)'
        BY <1>1, <2>6, <2>7 DEF End
    <2>9. (status[append_lock] \in {"flush", "commit_flush"})' /\ (LocalRows(append_lock) # {})'
        BY <1>1, <2>1, <2>2
    <2> QED BY <2>3, <2>4, <2>5, <2>8, <2>9 DEF PendingInv
<1>7. OwnerKept(t)
    <2>1. \A r, k : k \in 1 .. Len(undo[t]) /\ InEntry(r, t, k) => InEntry(r, t, k)'
        BY <1>1 DEF InEntry, LiveInsert, InsertIn, RowsOf, End
    <2>2. \A r : Owned(r, t) => Owned(r, t)'
        BY <1>1, <2>1, TxnFacts DEF Owned
    <2>3. \A r : ~MarkedBy(r, t)
        BY <1>1 DEF MarkedBy
    <2> QED BY <2>2, <2>3 DEF OwnerKept
<1>8. OwnerInv'
    <2> SUFFICES ASSUME NEW r \in Nat, r < total_rows'
                 PROVE  \/ InsertedId(r)' \in Txns /\ Owned(r, InsertedId(r))'
                        \/ \E x \in Txns : InsertedId(r)' = commit_id'[x] /\ MarkedBy(r, x)'
        BY DEF OwnerInv
    <2>1. CASE r < total_rows
        BY <1>0, <1>1, <1>3, <1>7, <2>1, RowOwnerKept
    <2>2. CASE ~(r < total_rows)
        <3>1. InsertedId(r)' = t /\ r >= total_rows
            BY <1>0, <1>2, <2>2
        <3>2. Owned(r, t)'
            BY <1>1, <3>1 DEF Owned
        <3>3. Owned(r, InsertedId(r))'
            BY <3>1, <3>2 DEF Owned, InEntry, LiveInsert, InsertIn
        <3> QED BY <3>1, <3>3
    <2> QED BY <2>1, <2>2
<1>9. OwnDeletes(t)
    BY <1>1 DEF OwnDeletes, LiveDelete, DeleteIn
<1>10. DeleteInv'
    <2>1. total_rows' >= total_rows /\ status[t] # "committed"
        BY <1>0, <1>1, <1>2
    <2> QED BY <1>2, <1>3, <1>9, <2>1, DeletesStep DEF KeepsDeleted
<1> QED
    BY <1>2, <1>5, <1>6, <1>8, <1>10 DEF TableInv

LEMMA CommitInsertTable ==
    ASSUME BasicInv, TableInv, StateInv', NEW t \in Txns, Others(t), CommitEntry(t),
           undo[t][position[t]].type = "insert"
    PROVE  TableInv' /\ InfoInv' /\ IdsInv'
<1>0. /\ StateInv /\ ClockInv /\ TickInv /\ BoundInv /\ InfoInv /\ IdsInv /\ PositionInv
      /\ FillInv /\ EntryInv /\ OrderInv /\ PendingInv /\ OwnerInv /\ VectorInv /\ DeleteInv
      /\ total_rows \in Nat
    BY DEF BasicInv, TableInv, StateInv
<1>1. /\ status[t] = "commit" /\ append_lock = NoTxn
      /\ UNCHANGED <<status, undo, last, commit_id, total_rows, append_lock, append_start,
                     current_start_timestamp>>
    BY DEF CommitEntry, manager
<1>2. position \in [Txns -> Nat] /\ Len(undo[t]) \in Nat
    <2>1. /\ position \in [Txns -> Nat]
          /\ undo \in [Txns -> Seq(InsertEntries \union DeleteEntries)]
        BY <1>0 DEF StateInv
    <2> QED BY <2>1
<1>3. PICK p \in 1 .. Len(undo[t]) : p = position[t]
    BY <1>0, <1>1, <1>2 DEF CommitEntry, PositionInv
<1>4. InsertIn(t, p) /\ LiveInsert(t, p) /\ p \in Nat
    BY <1>1, <1>2, <1>3 DEF InsertIn, LiveInsert, Ended
<1>5. position'[t] = p + 1 /\ \A u \in Txns \ {t} : position'[u] = position[u]
    BY <1>2, <1>3 DEF CommitEntry
<1>6. info' = CommitAppend(undo[t][p], commit_id[t])
    BY <1>3 DEF CommitEntry
<1>7. /\ InfoInv' /\ IdsInv' /\ FillInv'
      /\ \A v \in Vectors : info'[v].type = info[v].type
      /\ \A r \in Nat : r < total_rows =>
            InsertedId(r)' = IF r \in RowsOf(undo[t][p]) THEN commit_id[t] ELSE InsertedId(r)
      /\ \A v \in Vectors : info[v].type = "vector" =>
            /\ info'[v].same_inserted_id <=> info[v].same_inserted_id
            /\ info'[v].any_deleted <=> info[v].any_deleted
            /\ info'[v].deleted = info[v].deleted
            /\ \/ info'[v] = info[v]
               \/ /\ info[v].same_inserted_id => info'[v].insert_id = commit_id[t]
                  /\ \E i \in Offsets : Base(v) + i \in RowsOf(undo[t][p])
    BY <1>0, <1>1, <1>4, <1>6, CommitAppendEffect
<1>8. \A k \in 1 .. Len(undo[t]) : k \in Nat /\ (k < p + 1 <=> k < p \/ k = p) /\ (k >= p + 1 <=> k >= p /\ k # p)
    BY <1>2, <1>4
<1>9. /\ commit_id[t] # 0 /\ \A u \in Txns : commit_id[u] # t
      /\ \A u \in Txns : commit_id[u] = commit_id[t] => u = t
    <2>1. commit_id[t] # 0
        BY <1>0, <1>1 DEF ClockInv
    <2> QED BY <1>0, <2>1, CommitIds
<1>10. \A r \in RowsOf(undo[t][p]) : InsertedId(r) = t /\ r \in Nat /\ r < total_rows
    <2>1. EntryIds(t, p) = {t}
        BY <1>1, <1>3, <1>4 DEF EntryIds
    <2>2. End(undo[t][p]) <= total_rows /\ End(undo[t][p]) \in Nat
        BY <1>0, <1>4, EntryTypes DEF EntryInv
    <2>3. \A r \in RowsOf(undo[t][p]) : r \in Nat /\ r < total_rows
        BY <1>0, <2>2 DEF RowsOf
    <2> QED BY <1>0, <1>4, <2>1, <2>3 DEF EntryInv
<1>11. \A u \in Txns : \A k : LiveInsert(u, k)' <=> LiveInsert(u, k)
    BY <1>1, <1>5 DEF LiveInsert, InsertIn
<1>12. ASSUME NEW u \in Txns, NEW k \in 1 .. Len(undo[u]), LiveInsert(u, k)
       PROVE  (/\ End(undo[u][k]) <= total_rows
               /\ \A r \in RowsOf(undo[u][k]) : InsertedId(r) \in EntryIds(u, k)
               /\ CoversConstants(undo[u][k].start, End(undo[u][k])))'
    <2>1. PICK start \in Nat, end \in Nat :
            /\ start = undo[u][k].start /\ end = End(undo[u][k])
            /\ RowsOf(undo[u][k]) = {r \in Nat : start <= r /\ r < end}
        BY <1>0, <1>12, EntryTypes DEF LiveInsert, RowsOf
    <2>2. /\ end <= total_rows /\ CoversConstants(start, end)
          /\ \A r \in RowsOf(undo[u][k]) : InsertedId(r) \in EntryIds(u, k)
        BY <1>0, <1>12, <2>1 DEF EntryInv
    <2>3. ASSUME NEW r \in RowsOf(undo[u][k])
          PROVE  InsertedId(r)' \in EntryIds(u, k)'
        <3>1. r \in Nat /\ r < total_rows /\ start <= r
            BY <1>0, <2>1, <2>2, <2>3
        <3>2. InsertedId(r) \in EntryIds(u, k)
            BY <2>2
        <3>3. InsertedId(r)' = IF r \in RowsOf(undo[t][p]) THEN commit_id[t] ELSE InsertedId(r)
            BY <1>7, <3>1
        <3>4. CASE u # t
            <4>1. EntryIds(u, k)' = EntryIds(u, k) /\ EntryIds(u, k) \subseteq {u, commit_id[u]}
                BY <1>1, <1>5, <3>4 DEF EntryIds
            <4>2. InsertedId(r) # t
                BY <1>9, <3>2, <3>4, <4>1
            <4> QED BY <1>10, <3>2, <3>3, <4>1, <4>2
        <3>5. CASE u = t /\ k = p
            <4>1. EntryIds(u, k)' = {commit_id[t]}
                BY <1>1, <1>4, <1>5, <3>5 DEF EntryIds
            <4> QED BY <3>3, <3>5, <4>1
        <3>6. CASE u = t /\ k < p
            <4>1. EntryIds(u, k)' = {commit_id[t]} /\ EntryIds(u, k) = {commit_id[t]}
                BY <1>1, <1>3, <1>5, <1>8, <3>6 DEF EntryIds
            <4> QED BY <3>2, <3>3, <4>1
        <3>7. CASE u = t /\ p < k
            <4>1. ~(k < p + 1) /\ ~(k < p)
                BY <1>4, <1>8, <3>7
            <4>2. EntryIds(u, k)' = {t} /\ EntryIds(u, k) = {t}
                BY <1>1, <1>3, <1>5, <3>7, <4>1 DEF EntryIds
            <4>3. End(undo[t][p]) <= start
                BY <1>0, <1>4, <1>12, <2>1, <3>7 DEF OrderInv
            <4>4. End(undo[t][p]) \in Nat
                BY <1>0, <1>4, EntryTypes
            <4>5. ~(r < End(undo[t][p]))
                BY <2>1, <3>1, <4>3, <4>4
            <4>6. r \notin RowsOf(undo[t][p])
                BY <4>5 DEF RowsOf
            <4> QED BY <3>2, <3>3, <4>2, <4>6
        <3>8. u = t => k < p \/ k = p \/ p < k
            BY <1>4, <1>8
        <3> QED BY <3>4, <3>5, <3>6, <3>7, <3>8
    <2>4. (End(undo[u][k]) <= total_rows)'
        BY <1>1, <2>1, <2>2 DEF End
    <2>5. (\A r \in RowsOf(undo[u][k]) : InsertedId(r) \in EntryIds(u, k))'
        BY <1>1, <2>3 DEF RowsOf, End
    <2>6. CoversConstants(start, end)'
        BY <1>7, <2>2 DEF CoversConstants
    <2>7. CoversConstants(undo[u][k].start, End(undo[u][k]))'
        <3>1. undo'[u][k].start = start /\ End(undo[u][k])' = end
            BY <1>1, <2>1 DEF End
        <3> QED BY <2>6, <3>1
    <2> QED BY <2>4, <2>5, <2>7
<1>13. EntryInv' /\ OrderInv'
    <2>1. EntryInv'
        BY <1>1, <1>11, <1>12 DEF EntryInv
    <2>2. OrderInv'
        BY <1>0, <1>1, <1>11 DEF OrderInv, End
    <2> QED BY <2>1, <2>2
<1>14. PendingInv'
    BY <1>1 DEF PendingInv
<1>15. \A r, k : \A u \in Txns : InEntry(r, u, k)' <=> InEntry(r, u, k)
    BY <1>1, <1>11 DEF InEntry, RowsOf, End
<1>16. OwnerInv'
    <2> SUFFICES ASSUME NEW r \in Nat, r < total_rows
                 PROVE  \/ InsertedId(r)' \in Txns /\ Owned(r, InsertedId(r))'
                        \/ \E x \in Txns : InsertedId(r)' = commit_id'[x] /\ MarkedBy(r, x)'
        BY <1>1 DEF OwnerInv
    <2>1. CASE r \in RowsOf(undo[t][p])
        <3>1. InsertedId(r)' = commit_id'[t]
            BY <1>1, <1>7, <2>1
        <3>2. InEntry(r, t, p)' /\ p < p + 1
            BY <1>4, <1>15, <2>1 DEF InEntry
        <3>3. MarkedBy(r, t)'
            BY <1>1, <1>5, <1>9, <3>2 DEF MarkedBy
        <3> QED BY <3>1, <3>3
    <2>2. CASE r \notin RowsOf(undo[t][p])
        <3>1. InsertedId(r)' = InsertedId(r)
            BY <1>7, <2>2
        <3>2. \A k : InEntry(r, t, k) => k # p
            BY <2>2 DEF InEntry
        <3>3. CASE InsertedId(r) \in Txns /\ Owned(r, InsertedId(r))
            <4>1. PICK x \in Txns : x = InsertedId(r) /\ Owned(r, x)
                BY <3>3
            <4>2. Owned(r, x)'
                <5>1. CASE x = t
                    BY <1>1, <1>3, <1>5, <1>8, <1>15, <3>2, <4>1, <5>1 DEF Owned
                <5>2. CASE x # t
                    BY <1>1, <1>5, <1>15, <4>1, <5>2 DEF Owned
                <5> QED BY <5>1, <5>2
            <4>3. Owned(r, InsertedId(r))'
                BY <3>1, <4>1, <4>2 DEF Owned, InEntry, LiveInsert, InsertIn
            <4> QED BY <3>1, <4>1, <4>3
        <3>4. CASE \E x \in Txns : InsertedId(r) = commit_id[x] /\ MarkedBy(r, x)
            <4>1. PICK x \in Txns : InsertedId(r) = commit_id[x] /\ MarkedBy(r, x)
                BY <3>4
            <4>2. MarkedBy(r, x)'
                <5>1. CASE x = t
                    BY <1>1, <1>3, <1>5, <1>8, <1>15, <4>1, <5>1 DEF MarkedBy
                <5>2. CASE x # t
                    BY <1>1, <1>5, <1>15, <4>1, <5>2 DEF MarkedBy
                <5> QED BY <5>1, <5>2
            <4> QED BY <1>1, <3>1, <4>1, <4>2
        <3> QED BY <1>0, <3>3, <3>4 DEF OwnerInv
    <2> QED BY <2>1, <2>2
<1>17. \A a, b : Halfway(a, b) => Halfway(a, b)'
    BY <1>1, <1>3, <1>5, <1>8 DEF Halfway, InsertIn
<1>18. Halfway(commit_id[t], t)'
    <2>1. p < p + 1 /\ p \in 1 .. Len(undo[t]) /\ InsertIn(t, p)'
        BY <1>1, <1>4 DEF InsertIn
    <2> QED BY <1>1, <1>5, <2>1 DEF Halfway
<1>19. ASSUME NEW v \in Vectors, NEW i \in Offsets, info[v].type = "vector"
       PROVE  /\ InsertedId(Base(v) + i) = info[v].inserted[i]
              /\ InsertedId(Base(v) + i)' = info'[v].inserted[i]
              /\ Base(v) + i \in Nat
    <2>1. /\ Base(v) + i \in Nat /\ VectorOf(Base(v) + i) = v /\ OffsetOf(Base(v) + i) = i
          /\ InsertedId(Base(v) + i) = info[v].inserted[i]
        BY <1>19, PlaceInTable DEF IdOf
    <2>2. PICK r \in Nat : r = Base(v) + i
        BY <2>1
    <2>3. InsertedId(r)' = info'[v].inserted[i]
        BY <1>7, <1>19, <2>1, <2>2 DEF InsertedId
    <2> QED BY <2>1, <2>2, <2>3
<1>20. VectorInv'
    <2>1. ASSUME NEW v \in Vectors, info'[v].type = "vector"
          PROVE  (/\ ~info[v].any_deleted => \A i \in Offsets : info[v].deleted[i] = NotDeletedId
                  /\ info[v].same_inserted_id => \A i \in Offsets : Base(v) + i < total_rows =>
                          \/ info[v].inserted[i] = info[v].insert_id
                          \/ Halfway(info[v].insert_id, info[v].inserted[i]))'
        <3>0. PICK x, y : x = info[v] /\ y = info'[v]
            OBVIOUS
        <3>1. /\ x.type = "vector" /\ y.type = "vector"
              /\ y.same_inserted_id <=> x.same_inserted_id
              /\ y.any_deleted <=> x.any_deleted
              /\ y.deleted = x.deleted
              /\ \/ y = x
                 \/ /\ x.same_inserted_id => y.insert_id = commit_id[t]
                    /\ \E i \in Offsets : Base(v) + i \in RowsOf(undo[t][p])
            BY <1>7, <2>1, <3>0
        <3>2. /\ ~x.any_deleted => \A i \in Offsets : x.deleted[i] = NotDeletedId
              /\ x.same_inserted_id => \A i \in Offsets : Base(v) + i < total_rows =>
                          x.inserted[i] = x.insert_id \/ Halfway(x.insert_id, x.inserted[i])
            BY <1>0, <3>0, <3>1 DEF VectorInv
        <3>3. ~y.any_deleted => \A i \in Offsets : y.deleted[i] = NotDeletedId
            BY <3>1, <3>2
        <3>4. ASSUME y.same_inserted_id, NEW i \in Offsets, Base(v) + i < total_rows
              PROVE  y.inserted[i] = y.insert_id \/ Halfway(y.insert_id, y.inserted[i])'
            <4>0. x.inserted[i] = x.insert_id \/ Halfway(x.insert_id, x.inserted[i])
                BY <3>1, <3>2, <3>4
            <4>1. CASE y = x
                <5>1. PICK a, b : a = x.insert_id /\ b = x.inserted[i]
                    OBVIOUS
                <5>2. Halfway(a, b) => Halfway(a, b)'
                    BY <1>17
                <5> QED BY <4>0, <4>1, <5>1, <5>2
            <4>2. CASE /\ x.same_inserted_id => y.insert_id = commit_id[t]
                       /\ \E j \in Offsets : Base(v) + j \in RowsOf(undo[t][p])
                <5>1. PICK j \in Offsets : Base(v) + j \in RowsOf(undo[t][p])
                    BY <4>2
                <5>2. x.inserted[j] = t /\ Base(v) + j < total_rows
                    BY <1>10, <1>19, <3>0, <3>1, <5>1
                <5>3. x.insert_id \in {t, commit_id[t]}
                    <6>1. t = x.insert_id \/ Halfway(x.insert_id, t)
                        BY <3>1, <3>2, <3>4, <5>2
                    <6> QED BY <6>1 DEF Halfway
                <5>4. x.inserted[i] \in {t, commit_id[t]}
                    BY <1>9, <4>0, <5>3 DEF Halfway
                <5>5. y.inserted[i] \in {t, commit_id[t]}
                    <6>1. PICK r \in Nat : r = Base(v) + i
                        BY <1>19, <3>0, <3>1
                    <6>2. InsertedId(r) = x.inserted[i] /\ InsertedId(r)' = y.inserted[i]
                        BY <1>19, <3>0, <3>1, <6>1
                    <6> QED BY <1>7, <3>4, <5>4, <6>1, <6>2
                <5>6. y.insert_id = commit_id[t]
                    BY <3>1, <3>4, <4>2
                <5>7. PICK b : b = y.inserted[i]
                    OBVIOUS
                <5>8. b = t => Halfway(commit_id[t], b)'
                    BY <1>18
                <5>9. PICK a : a = y.insert_id
                    OBVIOUS
                <5>10. b = t => Halfway(a, b)'
                    BY <1>1, <5>6, <5>8, <5>9 DEF Halfway
                <5> QED BY <5>5, <5>6, <5>7, <5>9, <5>10
            <4> QED BY <3>1, <4>1, <4>2
        <3> QED BY <1>1, <3>0, <3>3, <3>4 DEF Halfway
    <2> QED BY <2>1 DEF VectorInv
<1>21. DeleteInv'
    <2>1. ASSUME NEW u \in Txns, NEW k \in 1 .. Len(undo[u]), LiveDelete(u, k)'
          PROVE  DeletedFrom(undo[u][k].vector, undo[u][k].rows)'
        <3>1. LiveDelete(u, k)
            BY <1>1, <1>5, <2>1 DEF LiveDelete, DeleteIn
        <3>2. PICK v \in Vectors, rows \in SUBSET Offsets : v = undo[u][k].vector /\ rows = undo[u][k].rows
            BY <1>0, <3>1, EntryTypes DEF LiveDelete
        <3>3. DeletedFrom(v, rows)
            BY <1>0, <3>1, <3>2 DEF DeleteInv, DeletedFrom
        <3>4. info[v].type = "vector" /\ info[v].any_deleted
            BY <3>3 DEF DeletedFrom
        <3>5. info'[v].type = "vector" /\ info'[v].any_deleted
            BY <1>7, <3>4
        <3>6. ASSUME NEW i \in rows
              PROVE  /\ Base(v) + i < total_rows'
                     /\ \E y \in Txns : status'[y] = "committed" /\ info'[v].inserted[i] = commit_id'[y]
            <4>1. PICK y \in Txns : status[y] = "committed" /\ info[v].inserted[i] = commit_id[y]
                BY <3>3 DEF DeletedFrom
            <4>2. PICK r \in Nat : r = Base(v) + i /\ r < total_rows
                BY <1>19, <3>3, <3>4 DEF DeletedFrom
            <4>3. InsertedId(r) = info[v].inserted[i] /\ InsertedId(r)' = info'[v].inserted[i]
                BY <1>19, <3>4, <4>2
            <4>4. InsertedId(r) # t
                BY <1>9, <4>1, <4>3
            <4>5. InsertedId(r)' = InsertedId(r)
                BY <1>7, <1>10, <4>2, <4>4
            <4> QED BY <1>1, <4>1, <4>2, <4>3, <4>5
        <3>7. DeletedFrom(v, rows)'
            BY <3>5, <3>6 DEF DeletedFrom
        <3> QED BY <1>1, <3>2, <3>7 DEF DeletedFrom
    <2> QED BY <1>1, <2>1 DEF DeleteInv, DeletedFrom
<1> QED
    BY <1>7, <1>13, <1>14, <1>16, <1>20, <1>21 DEF TableInv

-----------------------------------------------------------------------------
(***************************************************************************)
(* Appends that are reverted once.                                         *)
(***************************************************************************)

LEMMA OtherFlush ==
    ASSUME StateInv, ClockInv, StateInv', FlushInv, NEW t \in Txns, Others(t), NEW u \in Txns \ {t},
           \/ total_rows' = total_rows
           \/ ~(FlushCount > MaxLocal) /\ total_rows' >= total_rows
           \/ status[t] \in Locking
    PROVE  FlushOf(u)'
<1>1. /\ status'[u] = status[u] /\ position'[u] = position[u] /\ FlushOf(u)
      /\ undo'[u] = undo[u] \/ (status[u] \in Ended /\ undo'[u] = << >>)
    BY DEF Others, FlushInv
<1>2. (status[u] = "none" => undo[u] = << >>)'
    BY <1>1 DEF FlushOf
<1>3. CASE status[u] \in Ended
    BY <1>1, <1>2, <1>3 DEF FlushOf, OneAppend, NoRevert, Ended
<1>4. CASE status[u] \notin Ended
    <2>1. undo'[u] = undo[u]
        BY <1>1, <1>4
    <2>2. status[u] \in Locking => status[t] \notin Locking
        BY DEF ClockInv
    <2>3. FlushCount > MaxLocal /\ status[u] \in Locking => total_rows' = total_rows
        BY <2>2
    <2>4. CASE FlushCount > MaxLocal
        <3>1. \A k : InsertIn(u, k)' <=> InsertIn(u, k)
            BY <2>1 DEF InsertIn
        <3>2. status[u] \in {"commit", "revert"} => \A k : LiveInsert(u, k)' <=> LiveInsert(u, k)
            BY <1>1, <3>1 DEF LiveInsert
        <3>3. OneAppend(u)
            BY <1>1, <2>4 DEF FlushOf
        <3>4. OneAppend(u)'
            BY <1>1, <2>1, <2>3, <2>4, <3>1, <3>2, <3>3 DEF OneAppend, Locking, End
        <3> QED BY <1>2, <2>4, <3>4 DEF FlushOf
    <2>5. CASE ~(FlushCount > MaxLocal)
        <3>1. \A k : InsertIn(u, k)' <=> InsertIn(u, k)
            BY <2>1 DEF InsertIn
        <3>2. NoRevert(u)
            BY <1>1, <2>5 DEF FlushOf
        <3>3. status[u] = "rollback" => total_rows' >= total_rows
            BY <2>2 DEF Locking, StateInv
        <3>4. \A k \in 1 .. Len(undo[u]) : InsertIn(u, k) /\ status[u] = "rollback" /\ End(undo[u][k]) <= total_rows =>
                    End(undo[u][k]) <= total_rows'
            <4>1. total_rows \in Nat /\ total_rows' \in Nat
                BY DEF StateInv
            <4>2. \A k \in 1 .. Len(undo[u]) : InsertIn(u, k) => End(undo[u][k]) \in Nat
                BY EntryTypes
            <4> QED BY <3>3, <4>1, <4>2
        <3>5. NoRevert(u)'
            BY <1>1, <2>1, <3>1, <3>2, <3>4 DEF NoRevert, End
        <3> QED BY <1>2, <2>5, <3>5 DEF FlushOf
    <2> QED BY <2>4, <2>5
<1> QED
    BY <1>3, <1>4

\* A transaction that has appended nothing, or goes on as before.
LEMMA QuietFlush ==
    ASSUME FlushInv, NEW t \in Txns, status[t] \in {"active", "flush", "commit_flush", "commit"},
           status'[t] \in {"active", "failed", "flush", "commit_flush", "commit"},
           status'[t] = "flush" => ~(FlushCount > MaxLocal),
           status[t] = "commit" => status'[t] = "commit" /\ UNCHANGED <<undo, total_rows>>,
           \A k \in 1 .. Len(undo'[t]) : InsertIn(t, k)' => k \in 1 .. Len(undo[t]) /\ InsertIn(t, k)
    PROVE  FlushOf(t)'
<1>1. FlushOf(t)
    BY DEF FlushInv
<1>2. CASE ~(FlushCount > MaxLocal)
    BY <1>2 DEF FlushOf, NoRevert
<1>3. CASE FlushCount > MaxLocal /\ status[t] # "commit"
    <2>1. \A k \in 1 .. Len(undo'[t]) : ~InsertIn(t, k)'
        BY <1>1, <1>3 DEF FlushOf, OneAppend
    <2> QED BY <1>3, <2>1 DEF FlushOf, OneAppend, LiveInsert
<1>4. CASE FlushCount > MaxLocal /\ status[t] = "commit"
    <2>1. OneAppend(t) /\ status'[t] = "commit" /\ undo' = undo /\ total_rows' = total_rows
        BY <1>1, <1>4 DEF FlushOf
    <2>2. \A k : (InsertIn(t, k)' <=> InsertIn(t, k)) /\ (LiveInsert(t, k)' <=> LiveInsert(t, k))
        BY <1>4, <2>1 DEF InsertIn, LiveInsert
    <2>3. OneAppend(t)'
        BY <1>4, <2>1, <2>2 DEF OneAppend, End, Ended
    <2> QED BY <1>4, <2>1, <2>3 DEF FlushOf
<1> QED
    BY <1>2, <1>3, <1>4

\* The statements, and the steps of a commit that goes well.
LEMMA ForwardFlush ==
    ASSUME BasicInv, TableInv, StateInv', NEW t \in Txns,
           \/ StartTransaction(t)
           \/ \E v \in Values : Insert(t, v)
           \/ \E v \in Values : InsertFails(t, v)
           \/ \E v \in Vectors, offsets \in SUBSET Offsets : Delete(t, v, offsets)
           \/ InitializeAppend(t) \/ NothingToFlush(t) \/ AppendRows(t)
           \/ CommitTransaction(t) \/ CommitEntry(t)
           \/ FinishCommit(t) \/ FinishRollback(t)
    PROVE  FlushOf(t)'
<1>0. /\ StateInv /\ FlushInv /\ ClockInv
      /\ status \in [Txns -> Statuses] /\ undo \in [Txns -> Seq(InsertEntries \union DeleteEntries)]
      /\ local \in [Txns -> [values : Seq(Values), deleted : SUBSET Nat]]
      /\ FlushOf(t)
    BY DEF BasicInv, StateInv, FlushInv
<1>1. CASE StartTransaction(t)
    <2>1. undo'[t] = << >> /\ status'[t] = "active"
        <3>1. status[t] = "none"
            BY <1>0, <1>1, TxnFacts DEF ClockInv, StartTransaction
        <3> QED BY <1>0, <1>1, <3>1 DEF FlushOf, StartTransaction
    <2>2. \A k : k \notin 1 .. Len(undo'[t])
        BY <2>1
    <2> QED BY <2>1, <2>2 DEF FlushOf, OneAppend, NoRevert
<1>2. ASSUME NEW v \in Values, Insert(t, v)
      PROVE  FlushOf(t)'
    <2>1. status'[t] = "flush" => ~(FlushCount > MaxLocal)
        <3> SUFFICES ASSUME status'[t] = "flush"
                     PROVE  ~(FlushCount > MaxLocal)
            OBVIOUS
        <3>1. Len(local[t].values) + 1 >= FlushCount /\ Len(local[t].values) < MaxLocal
            BY <1>0, <1>2 DEF Insert, FlushesEarly
        <3>2. Len(local[t].values) \in Nat
            BY <1>0
        <3> QED BY <3>1, <3>2, DataTableAssumption
    <2>2. status[t] = "active" /\ status'[t] \in {"active", "flush"} /\ undo' = undo
        BY <1>0, <1>2 DEF Insert
    <2> QED BY <1>0, <2>1, <2>2, QuietFlush DEF InsertIn
<1>20. ASSUME NEW v \in Values, InsertFails(t, v)
       PROVE  FlushOf(t)'
    <2>1. status[t] = "active" /\ status'[t] = "failed" /\ undo' = undo
        BY <1>0, <1>20 DEF InsertFails
    <2> QED BY <1>0, <2>1, QuietFlush DEF InsertIn
<1>3. ASSUME NEW v \in Vectors, NEW offsets \in SUBSET Offsets, Delete(t, v, offsets)
      PROVE  FlushOf(t)'
    <2>1. \/ undo'[t] = undo[t]
          \/ undo'[t] = Append(undo[t], [type |-> "delete", vector |-> v, rows |-> offsets])
        BY <1>0, <1>3 DEF Delete
    <2>2. undo[t] \in Seq(InsertEntries \union DeleteEntries)
        BY <1>0
    <2>3. ASSUME NEW k \in 1 .. Len(undo'[t])
          PROVE  \/ k \in 1 .. Len(undo[t]) /\ undo'[t][k] = undo[t][k]
                 \/ undo'[t][k].type = "delete"
        BY <2>1, <2>2
    <2>4. status[t] = "active" /\ status'[t] \in {"active", "failed"}
        BY <1>0, <1>3 DEF Delete
    <2> QED BY <1>0, <2>3, <2>4, QuietFlush DEF InsertIn
<1>4. CASE InitializeAppend(t)
    <2>1. status[t] \in {"flush", "commit_flush"} /\ UNCHANGED <<status, undo>>
        BY <1>4 DEF InitializeAppend
    <2>2. status'[t] = "flush" => ~(FlushCount > MaxLocal)
        BY <1>0, <2>1 DEF FlushOf, OneAppend
    <2> QED BY <1>0, <2>1, <2>2, QuietFlush DEF InsertIn
<1>5. CASE NothingToFlush(t) \/ CommitTransaction(t) \/ CommitEntry(t)
    <2>1. /\ status[t] \in {"active", "flush", "commit_flush", "commit"} /\ undo' = undo
          /\ status'[t] \in {"active", "commit_flush", "commit"}
          /\ status[t] = "commit" => status'[t] = "commit" /\ total_rows' = total_rows
        BY <1>0, <1>5 DEF NothingToFlush, CommitTransaction, CommitEntry, table
    <2> QED BY <1>0, <2>1, QuietFlush DEF InsertIn
<1>6. CASE AppendRows(t)
    <2>1. /\ status[t] \in {"flush", "commit_flush"} /\ append_lock = t /\ total_rows' = total_rows
          /\ status'[t] = IF status[t] = "flush" THEN "active" ELSE "commit"
        BY <1>0, <1>6 DEF AppendRows
    <2>2. PICK e : e = [type |-> "insert", start |-> append_start, count |-> Len(ToFlush(t))]
        OBVIOUS
    <2>3. undo'[t] = Append(undo[t], e) /\ End(e) = total_rows
        BY <1>0, <1>6, <2>1, <2>2, PendingFacts DEF AppendRows, End
    <2>4. undo[t] \in Seq(InsertEntries \union DeleteEntries)
        BY <1>0
    <2>5. \A k \in 1 .. Len(undo'[t]) : \/ k \in 1 .. Len(undo[t]) /\ undo'[t][k] = undo[t][k]
                                        \/ k = Len(undo'[t]) /\ undo'[t][k] = e
        BY <2>3, <2>4
    <2>6. CASE FlushCount > MaxLocal
        <3>1. status[t] = "commit_flush" /\ status'[t] = "commit"
            BY <1>0, <2>1, <2>6 DEF FlushOf, OneAppend
        <3>2. \A k \in 1 .. Len(undo[t]) : ~InsertIn(t, k)
            BY <1>0, <2>6, <3>1 DEF FlushOf, OneAppend
        <3>3. \A k \in 1 .. Len(undo'[t]) : InsertIn(t, k)' => k = Len(undo'[t]) /\ undo'[t][k] = e
            BY <2>5, <3>2 DEF InsertIn
        <3>4. OneAppend(t)'
            BY <2>1, <2>3, <3>1, <3>3 DEF OneAppend, LiveInsert, End
        <3> QED BY <2>6, <3>1, <3>4 DEF FlushOf
    <2>7. CASE ~(FlushCount > MaxLocal)
        BY <2>1, <2>7 DEF FlushOf, NoRevert
    <2> QED BY <2>6, <2>7
<1>7. CASE FinishCommit(t) \/ FinishRollback(t)
    <2>1. status'[t] \in {"committed", "aborted"}
        BY <1>0, <1>7 DEF FinishCommit, FinishRollback, RemoveTransaction
    <2> QED BY <2>1 DEF FlushOf, OneAppend, NoRevert, Ended
<1> QED
    BY <1>1, <1>2, <1>3, <1>4, <1>5, <1>6, <1>7, <1>20

\* Failure, revert and rollback.
LEMMA BackwardFlush ==
    ASSUME BasicInv, TableInv, StateInv', SingleRevert, NEW t \in Txns,
           \/ RevertFlush(t) \/ LogFailure(t) \/ RevertCommit(t) \/ RevertDone(t)
           \/ RollbackTransaction(t) \/ RollbackEntry(t)
    PROVE  FlushOf(t)'
<1>0. /\ StateInv /\ FlushInv /\ ClockInv /\ PositionInv /\ EntryInv /\ OrderInv
      /\ status \in [Txns -> Statuses] /\ undo \in [Txns -> Seq(InsertEntries \union DeleteEntries)]
      /\ position \in [Txns -> Nat] /\ total_rows \in Nat /\ last[t] \in Nat
      /\ FlushOf(t)
    BY DEF BasicInv, TableInv, StateInv, FlushInv
<1>1. undo' = undo /\ Len(undo[t]) \in Nat /\ \A k \in 1 .. Len(undo[t]) : k \in Nat /\ ~(k < 1) /\ k <= Len(undo[t])
    <2>1. undo' = undo
        BY DEF RevertFlush, LogFailure, RevertCommit, RevertDone, RollbackTransaction, RollbackEntry
    <2>2. Len(undo[t]) \in Nat
        BY <1>0
    <2> QED BY <2>1, <2>2
<1>2. \A k : InsertIn(t, k)' <=> InsertIn(t, k)
    BY <1>1 DEF InsertIn
<1>3. CASE RevertFlush(t)
    <2>1. Unique /\ status[t] \in {"flush", "commit_flush"} /\ status'[t] \in {"failed", "revert"}
        BY <1>0, <1>3 DEF RevertFlush, ConstraintViolated
    <2>2. FlushCount > MaxLocal
        BY <2>1 DEF SingleRevert
    <2>3. \A k \in 1 .. Len(undo[t]) : ~InsertIn(t, k)
        BY <1>0, <2>1, <2>2 DEF FlushOf, OneAppend
    <2>4. OneAppend(t)'
        BY <1>1, <1>2, <2>1, <2>3 DEF OneAppend, LiveInsert
    <2> QED BY <2>1, <2>2, <2>4 DEF FlushOf
<1>4. CASE LogFailure(t)
    <2>1. LogFails /\ status[t] = "commit" /\ status'[t] = "revert" /\ position'[t] = 1 /\ total_rows' = total_rows
        BY <1>0, <1>4 DEF LogFailure, table
    <2>2. FlushCount > MaxLocal
        BY <2>1 DEF SingleRevert
    <2>3. \A k : LiveInsert(t, k)' => LiveInsert(t, k)
        BY <1>2, <2>1 DEF LiveInsert, Ended
    <2>4. OneAppend(t)
        BY <1>0, <2>2 DEF FlushOf
    <2>5. OneAppend(t)'
        BY <1>1, <1>2, <2>1, <2>3, <2>4 DEF OneAppend, Ended, End
    <2> QED BY <2>1, <2>2, <2>5 DEF FlushOf
<1>5. CASE RevertCommit(t)
    <2>1. status[t] = "revert" /\ status'[t] = "revert" /\ position[t] <= last[t] /\ position'[t] = position[t] + 1
        BY <1>0, <1>5 DEF RevertCommit
    <2>2. FlushCount > MaxLocal /\ OneAppend(t)
        BY <1>0, <2>1 DEF FlushOf, NoRevert
    <2>3. PICK p \in 1 .. Len(undo[t]) : p = position[t]
        BY <1>0, <1>1, <2>1 DEF PositionInv
    <2>4. p \in Nat /\ \A k \in 1 .. Len(undo[t]) : (k >= p + 1 <=> k >= p /\ k # p) /\ (k < p + 1 <=> k < p \/ k = p)
        BY <1>1
    <2>5. CASE undo[t][p].type = "insert"
        <3>1. \A k \in 1 .. Len(undo[t]) : InsertIn(t, k) => k = p
            BY <2>1, <2>2, <2>5 DEF OneAppend, Ended, InsertIn
        <3>2. InsertIn(t, p) /\ LiveInsert(t, p)
            BY <2>1, <2>3, <2>4, <2>5 DEF InsertIn, LiveInsert, Ended
        <3>3. End(undo[t][p]) = total_rows
            BY <2>1, <2>2, <3>2 DEF OneAppend
        <3>4. undo[t][p].count # 0 /\ total_rows = undo[t][p].start + undo[t][p].count
            BY <1>0, <3>2, <3>3, EntryTypes DEF End
        <3>5. total_rows' = undo[t][p].start
            BY <1>5, <2>3, <2>5, <3>4 DEF RevertCommit, RevertAppend, RevertAppendInternal, IsLastAppend
        <3>6. \A k \in 1 .. Len(undo[t]) : ~LiveInsert(t, k)'
            BY <1>1, <1>2, <2>1, <2>3, <2>4, <3>1 DEF LiveInsert
        <3>7. OneAppend(t)'
            BY <1>1, <1>2, <2>1, <2>2, <3>1, <3>5, <3>6 DEF OneAppend, Ended
        <3> QED BY <2>1, <2>2, <3>7 DEF FlushOf
    <2>6. CASE undo[t][p].type # "insert"
        <3>1. total_rows' = total_rows
            BY <1>5, <2>3, <2>6 DEF RevertCommit
        <3>2. \A k \in 1 .. Len(undo[t]) : InsertIn(t, k) => k # p
            BY <2>6 DEF InsertIn
        <3>3. \A k \in 1 .. Len(undo[t]) : LiveInsert(t, k)' => LiveInsert(t, k)
            BY <1>2, <2>1, <2>3, <2>4 DEF LiveInsert
        <3>4. \A k \in 1 .. Len(undo[t]) : InsertIn(t, k) /\ k < position'[t] => k < position[t]
            BY <2>1, <2>3, <2>4, <3>2
        <3>5. OneAppend(t)'
            BY <1>1, <1>2, <2>1, <2>2, <3>1, <3>3, <3>4 DEF OneAppend, Ended, End
        <3> QED BY <2>1, <2>2, <3>5 DEF FlushOf
    <2> QED BY <2>5, <2>6
<1>6. CASE RevertDone(t)
    <2>1. status[t] = "revert" /\ status'[t] = "rollback"
        BY <1>0, <1>6 DEF RevertDone
    <2>2. FlushCount > MaxLocal /\ OneAppend(t)
        BY <1>0, <2>1 DEF FlushOf, NoRevert
    <2>3. OneAppend(t)'
        BY <1>1, <1>2, <2>1, <2>2 DEF OneAppend, Ended
    <2> QED BY <2>1, <2>2, <2>3 DEF FlushOf
<1>7. CASE RollbackTransaction(t)
    <2>1. status[t] \in {"active", "failed"} /\ status'[t] = "rollback" /\ total_rows' = total_rows
        BY <1>0, <1>7 DEF RollbackTransaction, table
    <2>2. CASE FlushCount > MaxLocal
        <3>1. \A k \in 1 .. Len(undo[t]) : ~InsertIn(t, k)
            BY <1>0, <2>1, <2>2 DEF FlushOf, OneAppend
        <3>2. OneAppend(t)'
            BY <1>1, <1>2, <2>1, <3>1 DEF OneAppend
        <3> QED BY <2>1, <2>2, <3>2 DEF FlushOf
    <2>3. CASE ~(FlushCount > MaxLocal)
        <3>1. \A k \in 1 .. Len(undo[t]) : InsertIn(t, k) => LiveInsert(t, k)
            BY <2>1 DEF LiveInsert, Ended
        <3>2. \A k \in 1 .. Len(undo[t]) : InsertIn(t, k) => End(undo[t][k]) <= total_rows
            BY <1>0, <3>1 DEF EntryInv
        <3>3. NoRevert(t)'
            BY <1>1, <1>2, <2>1, <3>2 DEF NoRevert, End
        <3> QED BY <2>1, <2>3, <3>3 DEF FlushOf
    <2> QED BY <2>2, <2>3
<1>8. CASE RollbackEntry(t)
    <2>1. status[t] = "rollback" /\ status'[t] = "rollback"
        BY <1>8 DEF RollbackEntry
    <2>2. PICK p \in 1 .. Len(undo[t]) : p = position[t]
        BY <1>0, <1>1, <1>8, <2>1 DEF PositionInv, RollbackEntry
    <2>3. PICK q \in Nat : position'[t] = q /\ p = q + 1
        <3>1. position'[t] = p - 1 /\ p - 1 \in Nat /\ p = (p - 1) + 1
            BY <1>0, <1>1, <1>8, <2>2 DEF RollbackEntry
        <3> QED BY <3>1
    <2>4. \A k \in 1 .. Len(undo[t]) : k <= q => k <= p /\ k < p
        BY <1>1, <2>3
    <2>5. CASE FlushCount > MaxLocal
        <3>1. OneAppend(t)
            BY <1>0, <2>5 DEF FlushOf
        <3>2. OneAppend(t)'
            BY <1>1, <1>2, <2>1, <3>1 DEF OneAppend
        <3> QED BY <2>1, <2>5, <3>2 DEF FlushOf
    <2>6. CASE ~(FlushCount > MaxLocal)
        <3>1. ASSUME NEW k \in 1 .. Len(undo[t]), InsertIn(t, k), k <= q
              PROVE  End(undo[t][k]) <= total_rows'
            <4>1. End(undo[t][k]) <= total_rows
                BY <1>0, <2>1, <2>2, <2>4, <2>6, <3>1 DEF FlushOf, NoRevert
            <4>2. CASE total_rows' = total_rows
                BY <4>1, <4>2
            <4>3. CASE total_rows' # total_rows
                <5>1. /\ undo[t][p].type = "insert" /\ total_rows = End(undo[t][p])
                      /\ total_rows' = undo[t][p].start
                    BY <1>8, <2>2, <4>3
                       DEF RollbackEntry, RevertAppend, RevertAppendInternal, IsLastAppend, End
                <5>2. p <= position[t] /\ End(undo[t][p]) <= total_rows /\ k <= position[t]
                    BY <1>0, <1>1, <2>2, <2>4, <3>1, <5>1
                <5>3. LiveInsert(t, p) /\ LiveInsert(t, k)
                    BY <2>1, <3>1, <4>1, <5>1, <5>2 DEF LiveInsert, InsertIn, Ended
                <5> QED BY <1>0, <2>4, <3>1, <5>1, <5>3 DEF OrderInv
            <4> QED BY <4>2, <4>3
        <3>2. NoRevert(t)'
            BY <1>1, <1>2, <2>1, <2>3, <3>1 DEF NoRevert, End
        <3> QED BY <2>1, <2>6, <3>2 DEF FlushOf
    <2> QED BY <2>5, <2>6
<1> QED
    BY <1>3, <1>4, <1>5, <1>6, <1>7, <1>8

-----------------------------------------------------------------------------
(***************************************************************************)
(* The invariant is inductive.                                             *)
(***************************************************************************)

LEMMA TableStep ==
    ASSUME BasicInv, TableInv, StateInv', BoundInv', SingleRevert, NEW t \in Txns, Others(t), Step(t)
    PROVE  TableInv' /\ InfoInv' /\ IdsInv'
<1>0. status \in [Txns -> Statuses]
    BY DEF BasicInv, StateInv
<1>1. ASSUME NEW v \in Values, Insert(t, v)
      PROVE  TableInv' /\ InfoInv' /\ IdsInv'
    <2>1. /\ UNCHANGED <<total_rows, info, append_lock, append_start, undo, position, last, commit_id,
                         current_start_timestamp>>
          /\ status[t] = "active" /\ status'[t] \in {"active", "flush"}
        BY <1>0, <1>1 DEF Insert, table, progress, manager
    <2> QED BY <2>1, IdleTable
<1>11. ASSUME NEW v \in Values, InsertFails(t, v)
       PROVE  TableInv' /\ InfoInv' /\ IdsInv'
    <2>1. /\ UNCHANGED <<total_rows, info, append_lock, append_start, undo, position, last, commit_id,
                         current_start_timestamp>>
          /\ status[t] = "active" /\ status'[t] = "failed"
        BY <1>0, <1>11 DEF InsertFails, table, progress, manager
    <2> QED BY <2>1, IdleTable
<1>2. ASSUME NEW i \in 1 .. MaxLocal, LocalDelete(t, i)
      PROVE  TableInv' /\ InfoInv' /\ IdsInv'
    <2>1. /\ UNCHANGED <<total_rows, info, append_lock, append_start, undo, position, last, commit_id,
                         current_start_timestamp>>
          /\ status[t] = "active" /\ status'[t] = "active"
        BY <1>0, <1>2 DEF LocalDelete, table, progress, manager
    <2> QED BY <2>1, IdleTable
<1>3. CASE InitializeScan(t) \/ ScanBaseTable(t) \/ ScanColumns(t) \/ ScanLocal(t)
    <2>1. UNCHANGED <<total_rows, info, append_lock, append_start, undo, position, last, commit_id,
                      current_start_timestamp, status, local>>
        BY <1>3 DEF InitializeScan, ScanBaseTable, ScanColumns, ScanLocal, table, progress, manager
    <2> QED BY <2>1, IdleTable
<1>4. CASE CommitEntry(t)
    BY <1>4, CommitInsertTable, DeleteEntryTable
<1>5. CASE RevertCommit(t)
    BY <1>5, RevertInsertTable, DeleteEntryTable
<1>6. CASE RollbackEntry(t)
    BY <1>6, RollbackInsertTable, DeleteEntryTable
<1>7. ASSUME NEW v \in Vectors, NEW offsets \in SUBSET Offsets, Delete(t, v, offsets)
      PROVE  TableInv' /\ InfoInv' /\ IdsInv'
    BY <1>7, DeleteTable
<1>8. CASE StartTransaction(t) \/ InitializeAppend(t) \/ NothingToFlush(t) \/ AppendRows(t)
    BY <1>8, StartTable, InitializeTable, NothingTable, AppendTable
<1>9. CASE RevertFlush(t) \/ CommitTransaction(t) \/ LogFailure(t)
    BY <1>9, RevertFlushTable, CommitTable, FailureTable
<1>10. CASE RevertDone(t) \/ RollbackTransaction(t) \/ FinishCommit(t) \/ FinishRollback(t)
    BY <1>10, RevertDoneTable, RollbackTable, FinishTable
<1> QED
    BY <1>1, <1>2, <1>3, <1>4, <1>5, <1>6, <1>7, <1>8, <1>9, <1>10, <1>11 DEF Step

LEMMA FlushStep ==
    ASSUME BasicInv, TableInv, StateInv', SingleRevert, NEW t \in Txns, Others(t), Step(t)
    PROVE  FlushInv'
<1>0. /\ StateInv /\ FlushInv /\ ClockInv /\ FlushOf(t)
      /\ total_rows \in Nat /\ status \in [Txns -> Statuses]
    BY DEF BasicInv, StateInv, FlushInv
<1>1. FlushOf(t)'
    <2>1. CASE (\E i \in 1 .. MaxLocal : LocalDelete(t, i)) \/ InitializeScan(t) \/ ScanBaseTable(t) \/ ScanColumns(t) \/ ScanLocal(t)
        <3>1. UNCHANGED <<status, undo, position, total_rows>>
            BY <2>1 DEF LocalDelete, InitializeScan, ScanBaseTable, ScanColumns, ScanLocal, table, progress
        <3>2. \A k : (InsertIn(t, k)' <=> InsertIn(t, k)) /\ (LiveInsert(t, k)' <=> LiveInsert(t, k))
            BY <3>1 DEF InsertIn, LiveInsert
        <3> QED BY <1>0, <3>1, <3>2 DEF FlushOf, OneAppend, NoRevert, End
    <2> QED BY <2>1, ForwardFlush, BackwardFlush DEF Step
<1>2. \/ total_rows' = total_rows
      \/ ~(FlushCount > MaxLocal) /\ total_rows' >= total_rows
      \/ status[t] \in Locking
    <2>1. CASE InitializeAppend(t)
        <3>1. status[t] \in {"flush", "commit_flush"}
            BY <2>1 DEF InitializeAppend
        <3>2. total_rows' >= total_rows
            BY <1>0, <2>1, FlushLength DEF InitializeAppend
        <3>3. status[t] = "flush" => ~(FlushCount > MaxLocal)
            BY <1>0 DEF FlushOf, OneAppend
        <3> QED BY <3>1, <3>2, <3>3 DEF Locking
    <2>2. CASE RevertFlush(t)
        <3>1. Unique /\ status[t] \in {"flush", "commit_flush"}
            BY <2>2 DEF RevertFlush, ConstraintViolated
        <3>2. status[t] # "flush"
            BY <1>0, <3>1 DEF SingleRevert, FlushOf, OneAppend
        <3> QED BY <3>1, <3>2 DEF Locking
    <2>3. CASE RevertCommit(t) \/ RollbackEntry(t)
        BY <2>3 DEF RevertCommit, RollbackEntry, Locking
    <2>4. ASSUME NEW v \in Vectors, NEW offsets \in SUBSET Offsets, Delete(t, v, offsets)
          PROVE  total_rows' = total_rows
        BY <2>4 DEF Delete
    <2>5. CASE (\E v \in Values : Insert(t, v)) \/ (\E i \in 1 .. MaxLocal : LocalDelete(t, i))
        BY <2>5 DEF Insert, LocalDelete, table
    <2>9. ASSUME NEW v \in Values, InsertFails(t, v)
          PROVE  total_rows' = total_rows
        BY <2>9 DEF InsertFails, table
    <2>6. CASE StartTransaction(t) \/ NothingToFlush(t) \/ AppendRows(t) \/ CommitTransaction(t)
        BY <2>6 DEF StartTransaction, NothingToFlush, AppendRows, CommitTransaction, table
    <2>7. CASE CommitEntry(t) \/ LogFailure(t) \/ RevertDone(t) \/ RollbackTransaction(t)
        BY <2>7 DEF CommitEntry, LogFailure, RevertDone, RollbackTransaction, table
    <2>8. CASE FinishCommit(t) \/ FinishRollback(t) \/ InitializeScan(t) \/ ScanBaseTable(t) \/ ScanColumns(t) \/ ScanLocal(t)
        BY <2>8 DEF FinishCommit, FinishRollback, RemoveTransaction, InitializeScan, ScanBaseTable, ScanColumns, ScanLocal, table
    <2> QED BY <2>1, <2>2, <2>3, <2>4, <2>5, <2>6, <2>7, <2>8, <2>9 DEF Step
<1>3. \A u \in Txns \ {t} : FlushOf(u)'
    BY <1>0, <1>2, OtherFlush
<1> QED
    BY <1>1, <1>3 DEF FlushInv

LEMMA InvInit ==
    ASSUME Init
    PROVE  Inv
<1>0. /\ TransactionIdStart \in Nat \ {0} /\ NotDeletedId \in Nat /\ VectorSize \in Nat \ {0}
      /\ MaxTxns \in Nat /\ MaxRows \in Nat /\ MaxLocal \in Nat
    BY ChunkInfoAssumption, DataTableAssumption
<1>1. /\ status = [t \in Txns |-> "none"] /\ undo = [t \in Txns |-> << >>] /\ append_lock = NoTxn
      /\ total_rows = 0 /\ info = [v \in Vectors |-> EmptyInfo] /\ local = [t \in Txns |-> NoLocal]
      /\ \A t \in Txns : \A k : k \notin 1 .. Len(undo[t])
    BY DEF Init
<1>2. StateInv
    <2>1. local \in [Txns -> [values : Seq(Values), deleted : SUBSET Nat]]
        BY <1>1 DEF NoLocal
    <2>2. undo \in [Txns -> Seq(InsertEntries \union DeleteEntries)] /\ status \in [Txns -> Statuses]
        BY <1>1 DEF Statuses
    <2>3. current_transaction_id \in TransactionIdStart .. (TransactionIdStart + MaxTxns)
        BY <1>0 DEF Init
    <2> QED BY <2>1, <2>2, <2>3 DEF Init, StateInv
<1>3. InfoInv /\ IdsInv
    BY <1>1 DEF InfoInv, Infos, IdsInv, Known, EmptyInfo
<1>4. PositionInv /\ FlushInv
    BY <1>1 DEF PositionInv, FlushInv, FlushOf, OneAppend, NoRevert, Ended
<1>5. ClockInv
    BY <1>1, TxnFacts DEF Init, ClockInv, Locking
<1>6. TickInv
    <2>1. NotBegun = Txns /\ NotEnding = Txns
        BY <1>1 DEF NotBegun, NotEnding
    <2>2. Cardinality(Txns) = MaxTxns
        <3>1. PICK a \in Int, b \in Int : a = TransactionIdStart /\ b = TransactionIdStart + MaxTxns - 1
            BY <1>0
        <3>2. Txns = a .. b
            BY <3>1 DEF Txns
        <3>3. Cardinality(a .. b) = IF a > b THEN 0 ELSE b - a + 1
            BY FS_Interval
        <3> QED BY <1>0, <3>1, <3>2, <3>3
    <2>3. Cardinality(NotBegun) = MaxTxns /\ Cardinality(NotEnding) = MaxTxns /\ current_start_timestamp = 1
        BY <2>1, <2>2 DEF Init
    <2> QED BY <1>0, <2>3 DEF TickInv
<1>7. BoundInv
    <2>1. \A t \in Txns : Len(local[t].values) = 0
        BY <1>1 DEF NoLocal
    <2>2. Waiting = {}
        BY <1>0, <2>1 DEF Waiting, LocalPositions
    <2>3. Cardinality(Waiting) = 0
        BY <2>2, FS_EmptySet
    <2> QED BY <1>0, <1>1, <2>1, <2>3 DEF BoundInv
<1>8. FillInv /\ VectorInv
    <2>1. \A v \in Vectors : info[v].type = "empty" /\ ~(Base(v) < 0)
        BY <1>1, VectorsAreNat DEF EmptyInfo
    <2> QED BY <1>1, <2>1 DEF FillInv, VectorInv
<1>9. EntryInv /\ OrderInv /\ PendingInv /\ DeleteInv
    BY <1>1 DEF EntryInv, OrderInv, PendingInv, DeleteInv
<1>10. OwnerInv
    <2>1. \A r \in Nat : ~(r < total_rows)
        BY <1>1
    <2> QED BY <2>1 DEF OwnerInv
<1> QED
    BY <1>2, <1>3, <1>4, <1>5, <1>6, <1>7, <1>8, <1>9, <1>10 DEF Inv, BasicInv, TableInv

LEMMA InvStep ==
    ASSUME SingleRevert, Inv, [Next]_vars
    PROVE  Inv'
<1>0. BasicInv /\ TableInv
    BY DEF Inv
<1>1. ASSUME NEW t \in Txns, Step(t)
      PROVE  Inv'
    <2>1. StateInv /\ PositionInv /\ ClockInv /\ TickInv /\ BoundInv /\ PendingInv
        BY <1>0 DEF BasicInv, TableInv
    <2>2. StateInv' /\ PositionInv' /\ ClockInv' /\ TickInv' /\ BoundInv' /\ Others(t)
        BY <1>1, <2>1, StateStep, PositionStep, ClockStep, TickStep, BoundStep, OthersStep
    <2>3. TableInv' /\ InfoInv' /\ IdsInv' /\ FlushInv'
        BY <1>0, <1>1, <2>2, TableStep, FlushStep
    <2> QED BY <2>2, <2>3 DEF Inv, BasicInv
<1>2. CASE UNCHANGED vars
    <2>1. /\ UNCHANGED <<current_start_timestamp, current_transaction_id, transaction_lock, append_lock>>
          /\ UNCHANGED <<start_time, commit_id, status, total_rows, info, local, undo, position, last, append_start>>
        BY <1>2 DEF vars, manager, table, progress
    <2>2. \A u, k : /\ LiveInsert(u, k)' <=> LiveInsert(u, k)
                    /\ LiveDelete(u, k)' <=> LiveDelete(u, k)
                    /\ EntryIds(u, k)' = EntryIds(u, k)
                    /\ InsertIn(u, k)' <=> InsertIn(u, k)
        BY <2>1 DEF LiveInsert, LiveDelete, InsertIn, DeleteIn, EntryIds
    <2>3. \A r : InsertedId(r)' = InsertedId(r)
        BY <2>1 DEF InsertedId
    <2>4. StateInv' /\ InfoInv' /\ PositionInv' /\ ClockInv' /\ IdsInv'
        BY <1>0, <2>1 DEF BasicInv, StateInv, InfoInv, PositionInv, ClockInv, IdsInv, Known, KnownIds
    <2>5. TickInv' /\ BoundInv'
        BY <1>0, <2>1 DEF BasicInv, TickInv, NotBegun, NotEnding, BoundInv, Waiting, LocalPositions
    <2>6. FlushInv'
        BY <1>0, <2>1, <2>2 DEF BasicInv, FlushInv, FlushOf, OneAppend, NoRevert, End
    <2>7. FillInv' /\ EntryInv' /\ OrderInv'
        BY <1>0, <2>1, <2>2, <2>3 DEF TableInv, FillInv, EntryInv, OrderInv, CoversConstants, End, RowsOf
    <2>8. PendingInv'
        BY <1>0, <2>1, <2>2, <2>3 DEF TableInv, PendingInv, CoversConstants, LocalRows, LiveInsert, InsertIn, End
    <2>9. OwnerInv'
        BY <1>0, <2>1, <2>2, <2>3 DEF TableInv, OwnerInv, Owned, MarkedBy, InEntry, LiveInsert, InsertIn, End, RowsOf
    <2>10. VectorInv' /\ DeleteInv'
        BY <1>0, <2>1, <2>2 DEF TableInv, VectorInv, DeleteInv, Halfway, InsertIn
    <2> QED BY <2>4, <2>5, <2>6, <2>7, <2>8, <2>9, <2>10 DEF Inv, BasicInv, TableInv
<1> QED
    BY <1>1, <1>2 DEF Next, Terminating

-----------------------------------------------------------------------------
(***************************************************************************)
(* What the invariant says.                                                *)
(***************************************************************************)

\* The rows of a vector are its first ones.
LEMMA FilledOffsets ==
    ASSUME StateInv, NEW v \in Vectors
    PROVE  \E m \in 0 .. VectorSize :
              /\ {i \in Offsets : v * VectorSize + i < total_rows} = 0 .. (m - 1)
              /\ Cardinality({i \in Offsets : v * VectorSize + i < total_rows}) = m
<1>1. PICK n \in Nat, b \in Nat : n = total_rows /\ b = v * VectorSize
    BY VectorsAreNat DEF StateInv, Base
<1>2. VectorSize \in Nat \ {0}
    BY ChunkInfoAssumption
<1>3. PICK m \in 0 .. VectorSize : {i \in Offsets : b + i < n} = 0 .. (m - 1)
    <2>1. CASE n <= b
        <3>1. PICK m \in 0 .. VectorSize : m = 0
            BY <1>2
        <3>2. {i \in Offsets : b + i < n} = 0 .. (m - 1)
            BY <1>2, <2>1, <3>1 DEF Offsets
        <3> QED BY <3>2
    <2>2. CASE n >= b + VectorSize
        <3>1. {i \in Offsets : b + i < n} = 0 .. (VectorSize - 1)
            BY <1>2, <2>2 DEF Offsets
        <3> QED BY <1>2, <3>1
    <2>3. CASE b < n /\ n < b + VectorSize
        <3>1. PICK m \in 0 .. VectorSize : m = n - b
            BY <1>2, <2>3
        <3>2. \A i \in Int : i \in Offsets /\ b + i < n <=> i \in 0 .. (m - 1)
            BY <1>2, <2>3, <3>1 DEF Offsets
        <3>3. Offsets \subseteq Int /\ 0 .. (m - 1) \subseteq Int
            BY <1>2 DEF Offsets
        <3> QED BY <3>2, <3>3
    <2> QED BY <1>2, <2>1, <2>2, <2>3
<1>4. Cardinality(0 .. (m - 1)) = m
    <2>1. PICK c \in Int : c = m - 1
        BY <1>2
    <2>2. Cardinality(0 .. c) = IF 0 > c THEN 0 ELSE c - 0 + 1
        BY FS_Interval
    <2> QED BY <1>2, <2>1, <2>2
<1> QED
    BY <1>1, <1>3, <1>4

\* Nobody who reads sees the rows of a commit in progress, whatever id they carry.
LEMMA HalfwayUnseen ==
    ASSUME BasicInv, NEW t \in Txns, status[t] = "active", NEW a, NEW b, Halfway(a, b)
    PROVE  ~UseVersion(Reader(t), a) /\ ~UseVersion(Reader(t), b)
<1>0. StateInv /\ ClockInv /\ TickInv
    BY DEF BasicInv
<1>1. PICK x \in Txns : status[x] = "commit" /\ a = commit_id[x] /\ b = x
    BY DEF Halfway
<1>2. start_time[t] < commit_id[x] /\ start_time[t] \in Nat /\ commit_id[x] \in Nat /\ commit_id[x] # t
    BY <1>0, <1>1, CommitIds DEF ClockInv, StateInv
<1>3. start_time[t] < current_start_timestamp
    BY <1>0 DEF ClockInv
<1>4. start_time[t] < x
    <2>1. current_start_timestamp \in Nat /\ current_start_timestamp < TransactionIdStart
        BY <1>0, ClockBound
    <2> QED BY <1>2, <1>3, <2>1, TxnFacts, ChunkInfoAssumption
<1>5. x # t /\ x \in Nat
    BY <1>1, TxnFacts
<1>6. ~(commit_id[x] < start_time[t]) /\ ~(x < start_time[t])
    BY <1>2, <1>4, <1>5
<1> QED
    BY <1>1, <1>2, <1>5, <1>6 DEF UseVersion, Reader

LEMMA InvScan ==
    ASSUME Inv
    PROVE  ScanMatchesFetch
<1>0. BasicInv /\ TableInv /\ StateInv /\ ClockInv /\ TickInv /\ VectorInv
    BY DEF Inv, BasicInv, TableInv
<1> SUFFICES ASSUME NEW t \in Readable, NEW v \in Vectors
             PROVE  LET filled == {i \in Offsets : v * VectorSize + i < total_rows}
                    IN  GetSelVector(info[v], Reader(t), Cardinality(filled)) =
                        {i \in filled : Fetch(info[v], Reader(t), i)}
    BY DEF ScanMatchesFetch
<1> DEFINE filled == {i \in Offsets : v * VectorSize + i < total_rows}
<1>1. t \in Txns /\ status[t] = "active"
    BY DEF Readable
<1>2. filled = 0 .. (Cardinality(filled) - 1)
    BY <1>0, FilledOffsets
<1>3. CASE info[v].type # "vector"
    BY <1>2, <1>3 DEF GetSelVector
<1>4. CASE info[v].type = "vector"
    <2>1. ASSUME NEW i \in filled, info[v].same_inserted_id
          PROVE  UseVersion(Reader(t), info[v].insert_id) <=> UseVersion(Reader(t), info[v].inserted[i])
        <3>1. \/ info[v].inserted[i] = info[v].insert_id
              \/ Halfway(info[v].insert_id, info[v].inserted[i])
            BY <1>0, <1>4, <2>1 DEF VectorInv, Base
        <3> QED BY <1>0, <1>1, <3>1, HalfwayUnseen
    <2>2. ~UseVersion(Reader(t), NotDeletedId)
        <3>1. start_time[t] < current_start_timestamp /\ start_time[t] \in Nat
            BY <1>0, <1>1 DEF ClockInv, StateInv
        <3>2. current_start_timestamp \in Nat /\ current_start_timestamp < TransactionIdStart
            BY <1>0, ClockBound
        <3>3. ~(NotDeletedId < start_time[t]) /\ NotDeletedId # t
            BY <1>1, <3>1, <3>2, TxnFacts, ChunkInfoAssumption
        <3> QED BY <3>3 DEF UseVersion, Reader
    <2>3. ~info[v].any_deleted => \A i \in Offsets : info[v].deleted[i] = NotDeletedId
        BY <1>0, <1>4 DEF VectorInv
    <2>4. \A i \in filled : i \in Offsets
        OBVIOUS
    <2>5. \A i \in filled :
            /\ (IF info[v].same_inserted_id THEN UseVersion(Reader(t), info[v].insert_id)
                ELSE UseVersion(Reader(t), info[v].inserted[i])) <=> UseVersion(Reader(t), info[v].inserted[i])
            /\ (info[v].any_deleted /\ UseVersion(Reader(t), info[v].deleted[i])) <=>
                    UseVersion(Reader(t), info[v].deleted[i])
        BY <2>1, <2>2, <2>3, <2>4
    <2> HIDE DEF filled
    <2>6. GetSelVector(info[v], Reader(t), Cardinality(filled)) =
            {i \in filled : /\ (IF info[v].same_inserted_id THEN UseVersion(Reader(t), info[v].insert_id)
                                ELSE UseVersion(Reader(t), info[v].inserted[i]))
                            /\ ~(info[v].any_deleted /\ UseVersion(Reader(t), info[v].deleted[i]))}
        BY <1>2, <1>4 DEF GetSelVector
    <2>7. \A i \in filled : Fetch(info[v], Reader(t), i) <=>
            UseVersion(Reader(t), info[v].inserted[i]) /\ ~UseVersion(Reader(t), info[v].deleted[i])
        BY <1>4 DEF Fetch
    <2>8. GetSelVector(info[v], Reader(t), Cardinality(filled)) = {i \in filled : Fetch(info[v], Reader(t), i)}
        BY <2>5, <2>6, <2>7
    <2> QED BY <2>8 DEF filled
<1> QED
    BY <1>3, <1>4

LEMMA InvCommitted ==
    ASSUME Inv
    PROVE  CommittedRowsHaveTransaction
<1>0. BasicInv /\ TableInv /\ StateInv /\ ClockInv /\ OwnerInv /\ total_rows \in Nat
    BY DEF Inv, BasicInv, TableInv, StateInv
<1> SUFFICES ASSUME transaction_lock = NoTxn, NEW row \in 0 .. (total_rows - 1),
                    InsertedId(row) < TransactionIdStart
             PROVE  \E t \in Txns : status[t] = "committed" /\ commit_id[t] = InsertedId(row)
    BY DEF CommittedRowsHaveTransaction
<1>1. row \in Nat /\ row < total_rows
    BY <1>0
<1>2. InsertedId(row) \notin Txns
    BY TxnFacts, ChunkInfoAssumption
<1>3. PICK t \in Txns : InsertedId(row) = commit_id[t] /\ MarkedBy(row, t)
    BY <1>0, <1>1, <1>2 DEF OwnerInv
<1>4. status[t] \notin {"commit", "revert"}
    BY <1>0, TxnFacts DEF ClockInv, Locking
<1> QED
    BY <1>3, <1>4 DEF MarkedBy

\* The reader that begins now and the one of the checkpoint see the same of the known ids.
LEMMA KnownReaders ==
    ASSUME BasicInv, NEW id \in KnownIds, NEW now,
           now = [start_time |-> current_start_timestamp, transaction_id |-> NotDeletedId + 1]
    PROVE  /\ UseVersion(now, id) <=> id < TransactionIdStart
           /\ UseVersion(CheckpointReader, id) <=> id < TransactionIdStart
<1>1. /\ current_start_timestamp \in Nat /\ current_start_timestamp < TransactionIdStart
      /\ TransactionIdStart \in Nat /\ NotDeletedId \in Nat /\ NotDeletedId > TransactionIdStart
    BY ClockBound, ChunkInfoAssumption DEF BasicInv
<1>2. id \in Nat /\ id # NotDeletedId + 1 /\ (id < current_start_timestamp \/ id >= TransactionIdStart)
    BY <1>1 DEF KnownIds
<1>3. (id < current_start_timestamp <=> id < TransactionIdStart) /\ (id < TransactionIdStart - 1 <=> id < TransactionIdStart)
    BY <1>1, <1>2
<1> QED
    BY <1>2, <1>3 DEF UseVersion, CheckpointReader

LEMMA InvReload ==
    ASSUME Inv
    PROVE  ReloadFaithful
<1>0. BasicInv /\ StateInv /\ ClockInv /\ TickInv /\ InfoInv /\ IdsInv
    BY DEF Inv, BasicInv
<1>1. PICK now : now = [start_time |-> current_start_timestamp, transaction_id |-> NotDeletedId + 1]
    OBVIOUS
<1> SUFFICES ASSUME NEW v \in Vectors
             PROVE  LET filled == Cardinality({i \in Offsets : v * VectorSize + i < total_rows})
                    IN  GetSelVector(Reloaded(info[v]), now, filled) = GetSelVector(info[v], now, filled)
    BY <1>1 DEF ReloadFaithful
<1>2. PICK m \in 0 .. VectorSize : Cardinality({i \in Offsets : v * VectorSize + i < total_rows}) = m
    BY <1>0, FilledOffsets
<1>3. PICK x \in Infos : x = info[v] /\ Known(x)
    BY <1>0 DEF InfoInv, IdsInv
<1>4. PICK rows : rows = 0 .. (m - 1) /\ rows \subseteq Offsets
    BY ChunkInfoAssumption DEF Offsets
<1>5. /\ 0 \in KnownIds /\ NotDeletedId \in KnownIds
      /\ 0 < TransactionIdStart /\ ~(NotDeletedId < TransactionIdStart)
    BY <1>0, KnownFacts, ChunkInfoAssumption
<1>6. UseVersion(now, 0) /\ ~UseVersion(now, NotDeletedId)
    BY <1>0, <1>1, <1>5, KnownReaders
<1>7. GetSelVector(EmptyInfo, now, m) = rows
    BY <1>4 DEF GetSelVector, EmptyInfo, Fetch
<1>8. GetSelVector(ConstantInfo(0, 0), now, m) = {}
    BY <1>4, <1>6 DEF GetSelVector, ConstantInfo, Fetch
<1>9. CASE x.type = "empty"
    <2>1. GetSelVector(x, CheckpointReader, VectorSize) = Offsets
        BY <1>9 DEF GetSelVector, Fetch, Offsets
    <2>2. Reloaded(x) = EmptyInfo
        BY <1>9, <2>1 DEF Reloaded
    <2>3. GetSelVector(x, now, m) = rows
        BY <1>4, <1>9 DEF GetSelVector, Fetch
    <2> QED BY <1>2, <1>3, <1>7, <2>2, <2>3
<1>10. CASE x.type = "constant"
    <2>1. /\ UseVersion(now, x.insert_id) <=> x.insert_id < TransactionIdStart
          /\ UseVersion(now, x.delete_id) <=> x.delete_id < TransactionIdStart
        BY <1>0, <1>1, <1>3, <1>10, KnownReaders DEF Known
    <2>2. x.delete_id >= TransactionIdStart <=> ~(x.delete_id < TransactionIdStart)
        <3>1. x.delete_id \in KnownIds
            BY <1>3, <1>10 DEF Known
        <3>2. x.delete_id \in Int /\ TransactionIdStart \in Int
            BY <1>0, <3>1, ChunkInfoAssumption DEF KnownIds, StateInv
        <3> QED BY <3>2
    <2>3. GetSelVector(x, now, m) =
            IF x.insert_id < TransactionIdStart /\ ~(x.delete_id < TransactionIdStart) THEN rows ELSE {}
        BY <1>4, <1>10, <2>1 DEF GetSelVector, Fetch
    <2>4. Reloaded(x) = IF x.insert_id < TransactionIdStart /\ ~(x.delete_id < TransactionIdStart)
                        THEN EmptyInfo ELSE ConstantInfo(0, 0)
        BY <1>10, <2>2 DEF Reloaded
    <2> QED BY <1>2, <1>3, <1>7, <1>8, <2>3, <2>4
<1>11. CASE x.type = "vector"
    <2>1. PICK kept : kept = GetSelVector(x, CheckpointReader, VectorSize)
        OBVIOUS
    <2>2. \A i \in Offsets :
            /\ UseVersion(now, x.insert_id) <=> UseVersion(CheckpointReader, x.insert_id)
            /\ UseVersion(now, x.inserted[i]) <=> UseVersion(CheckpointReader, x.inserted[i])
            /\ UseVersion(now, x.deleted[i]) <=> UseVersion(CheckpointReader, x.deleted[i])
        BY <1>0, <1>1, <1>3, <1>11, KnownReaders DEF Known
    <2>3. kept = {i \in Offsets : /\ (IF x.same_inserted_id THEN UseVersion(CheckpointReader, x.insert_id)
                                      ELSE UseVersion(CheckpointReader, x.inserted[i]))
                                  /\ ~(x.any_deleted /\ UseVersion(CheckpointReader, x.deleted[i]))}
        BY <1>11, <2>1 DEF GetSelVector, Offsets
    <2>4. GetSelVector(x, now, m) =
            {i \in rows : /\ (IF x.same_inserted_id THEN UseVersion(now, x.insert_id)
                              ELSE UseVersion(now, x.inserted[i]))
                          /\ ~(x.any_deleted /\ UseVersion(now, x.deleted[i]))}
        BY <1>4, <1>11 DEF GetSelVector
    <2>5. GetSelVector(x, now, m) = {i \in rows : i \in kept}
        BY <1>4, <2>2, <2>3, <2>4
    <2>6. PICK y : y = VectorInfo(0, TRUE, [i \in Offsets |-> 0],
                                  [i \in Offsets |-> IF i \in kept THEN NotDeletedId ELSE 0], TRUE)
        OBVIOUS
    <2>7. Reloaded(x) = IF kept = Offsets THEN EmptyInfo ELSE IF kept = {} THEN ConstantInfo(0, 0) ELSE y
        BY <1>11, <2>1, <2>6 DEF Reloaded
    <2>8. GetSelVector(y, now, m) = {i \in rows : i \in kept}
        <3>1. /\ y.type = "vector" /\ y.insert_id = 0 /\ y.same_inserted_id = TRUE /\ y.any_deleted = TRUE
              /\ y.deleted = [i \in Offsets |-> IF i \in kept THEN NotDeletedId ELSE 0]
            BY <2>6 DEF VectorInfo
        <3>2. \A i \in rows : UseVersion(now, y.deleted[i]) <=> i \notin kept
            BY <1>4, <1>6, <3>1
        <3>3. GetSelVector(y, now, m) = {i \in rows : UseVersion(now, y.insert_id) /\ ~UseVersion(now, y.deleted[i])}
            BY <1>4, <3>1 DEF GetSelVector
        <3> QED BY <1>6, <3>1, <3>2, <3>3
    <2>9. CASE kept = Offsets
        BY <1>2, <1>3, <1>4, <1>7, <2>5, <2>7, <2>9
    <2>10. CASE kept # Offsets /\ kept = {}
        BY <1>2, <1>3, <1>8, <2>5, <2>7, <2>10
    <2>11. CASE kept # Offsets /\ kept # {}
        BY <1>2, <1>3, <2>5, <2>7, <2>8, <2>11
    <2> QED BY <2>9, <2>10, <2>11
<1> QED
    BY <1>3, <1>9, <1>10, <1>11, InfoFields

-----------------------------------------------------------------------------
(***************************************************************************)
(* The theorems.                                                           *)
(***************************************************************************)

\* The inductive invariant holds in every state: the rows of every append that is not
\* reverted carry the ids they should, in the order of the undo buffers, every row has an
\* owner, and what is deleted had been committed.
THEOREM InvHolds == SingleRevert /\ Spec => []Inv
<1>1. ASSUME SingleRevert
      PROVE  Spec => []Inv
    <2>1. Init => Inv
        BY InvInit
    <2>2. Inv /\ [Next]_vars => Inv'
        BY <1>1, InvStep
    <2> QED BY <2>1, <2>2, PTL DEF Spec
<1> QED
    BY <1>1

\* The shortcuts of ChunkVectorInfo::GetSelVector (one insert id for a vector, nothing
\* deleted) never change what a transaction sees, although a commit marks the appends of a
\* vector one after the other while others scan it.
THEOREM ScanMatchesFetchHolds == SingleRevert /\ Spec => []ScanMatchesFetch
<1>1. Inv => ScanMatchesFetch
    BY InvScan
<1> QED
    BY <1>1, InvHolds, PTL

\* A row that looks committed was inserted by a transaction that committed: whatever
\* RevertAppendInternal leaves behind or cuts off when a transaction rolls back, with
\* others appending before and behind it, or when a commit fails at the end of the table,
\* no row of a transaction that did not commit gets a commit id.  A commit that fails in
\* front of the rows of another is the case SingleRevert leaves out, where it is false.
THEOREM CommittedRowsHold == SingleRevert /\ Spec => []CommittedRowsHaveTransaction
<1>1. Inv => CommittedRowsHaveTransaction
    BY InvCommitted
<1> QED
    BY <1>1, InvHolds, PTL

\* What ChunkInfo::Serialize writes and Deserialize reads shows a new transaction the rows
\* that the table in memory shows it.
THEOREM ReloadFaithfulHolds == SingleRevert /\ Spec => []ReloadFaithful
<1>1. Inv => ReloadFaithful
    BY InvReload
<1> QED
    BY <1>1, InvHolds, PTL
=============================================================================
