--------------------------- MODULE UpdateSegment ---------------------------
(***************************************************************************)
(* UPDATEs of one column.  A column is two columns of storage: the values  *)
(* and a validity bit that says which of them are NULL.  Each keeps its    *)
(* updates beside the stored data: per vector, the latest value of every   *)
(* updated row and a chain of undo buffer entries with the values they     *)
(* replaced (src/src/storage/table/update_segment.cpp,                     *)
(* standard_column_data.cpp, validity_column_data.cpp, and the             *)
(* UPDATE_TUPLE cases of the undo buffer's visitors).                      *)
(*                                                                         *)
(* A statement updates the two one after the other, each under that        *)
(* UpdateSegment's exclusive lock: two steps.  Commit and rollback go      *)
(* through the undo buffer entry by entry, under transaction_lock, while   *)
(* others read and update.  Cleanup removes only entries that no           *)
(* transaction applies any more and is one step.  Transaction t writes the *)
(* value t or NULL, which tells the writers apart.                         *)
(***************************************************************************)
EXTENDS Naturals, Sequences, FiniteSets, SequencesExt, FiniteSetsExt, Functions

CONSTANTS
    NumRows,              \* rows of the column
    VectorSize,           \* STANDARD_VECTOR_SIZE
    NullRows,             \* the rows that are NULL before the first update
    Null,                 \* NULL
    MaxTransactions,      \* bound on the transactions that are begun
    MaxUpdates,           \* bound on the updates of all transactions
    TransactionIdStart,   \* timestamps from here on are transaction ids
    Faults                \* see ConflictUnseen

ASSUME UpdateAssumption ==
    /\ NumRows \in Nat /\ VectorSize \in Nat \ {0}
    /\ MaxTransactions \in Nat /\ MaxUpdates \in Nat
    /\ TransactionIdStart \in Nat /\ TransactionIdStart > 2 * MaxTransactions + 1
    /\ Faults \subseteq {"conflict_unseen"}

Segments == {"data", "validity"}
Rows == 0..(NumRows - 1)
VectorOf(r) == r \div VectorSize
Vectors == {VectorOf(r) : r \in Rows}
Txns == 1..MaxTransactions

VARIABLES
    column,   \* segment -> row -> what the ColumnSegments store
    info,     \* segment -> vector -> its UpdateInfos, see Infos
    txn,      \* transaction -> its state, see Transactions
    clock,    \* current_start_timestamp
    updates   \* the updates so far, for the bound

vars == <<column, info, txn, clock, updates>>

-----------------------------------------------------------------------------
(* State                                                                   *)

Content(s) == IF s = "data" THEN 0..MaxTransactions ELSE BOOLEAN
Partial(S) == UNION {[D -> S] : D \in SUBSET Rows}

\* latest: the base info, the newest value of every row that was updated.  chain: the
\* entries of the transactions, newest first; old holds the values they replaced.
Infos(s) ==
    [latest : Partial(Content(s)),
     chain : Seq([owner : Txns, version : Nat, old : Partial(Content(s))])]
NoInfo == [latest |-> <<>>, chain |-> <<>>]
HasInfo(s, v) == info[s][v] # NoInfo

\* undo: the segment and vector of each UPDATE_TUPLE entry of the undo buffer.  at: how far
\* commit or rollback got in it.  writes: the update between its two segments.  seen and
\* wrote: what the transaction saw and had written when it last was between statements.
Transactions ==
    [phase : {"none", "active", "updating", "invalid", "committing", "rolling_back",
              "committed", "aborted"},
     start : Nat, commit_id : Nat, undo : Seq(Segments \X Vectors), at : Nat,
     writes : Partial(Txns \union {Null}),
     seen : Partial(0..MaxTransactions \union {Null}), wrote : SUBSET Rows]

NewTransaction ==
    [phase |-> "none", start |-> 0, commit_id |-> 0, undo |-> <<>>, at |-> 0,
     writes |-> <<>>, seen |-> <<>>, wrote |-> {}]

Init ==
    /\ column = [s \in Segments |-> [r \in Rows |-> IF s = "data" THEN 0 ELSE r \notin NullRows]]
    /\ info = [s \in Segments |-> [v \in Vectors |-> NoInfo]]
    /\ txn = [t \in Txns |-> NewTransaction]
    /\ clock = 1
    /\ updates = 0

TransactionId(t) == TransactionIdStart + t
Running == {t \in Txns : txn[t].phase \notin {"none", "committed", "aborted"}}
TransactionLockFree ==
    \A t \in Txns : txn[t].phase \notin {"committing", "rolling_back"}

-----------------------------------------------------------------------------
(* Reads                                                                   *)

\* FetchCommitted: the stored value, or the base info's.
FetchCommitted(s, r) ==
    LET latest == info[s][VectorOf(r)].latest IN IF r \in DOMAIN latest THEN latest[r] ELSE column[s][r]

\* The entry's old values apply: it committed after the reader began, or not yet.
UpdatesForTransaction(node, start, id) == node.version > start /\ node.version # id

\* FetchUpdates: the oldest entry that applies has the last word.
Fetch(s, r, Applies(_)) ==
    LET chain == info[s][VectorOf(r)].chain
        applied == {i \in DOMAIN chain : Applies(chain[i]) /\ r \in DOMAIN chain[i].old}
    IN IF applied = {} THEN FetchCommitted(s, r) ELSE chain[Max(applied)].old[r]

FetchUpdates(t, s, r) ==
    Fetch(s, r, LAMBDA node : UpdatesForTransaction(node, txn[t].start, TransactionId(t)))

\* StandardColumnData::Scan: what transaction t reads.
ScanRow(t, r) == IF FetchUpdates(t, "validity", r) THEN FetchUpdates(t, "data", r) ELSE Null
Scan(t) == [r \in Rows |-> ScanRow(t, r)]

-----------------------------------------------------------------------------
(* Updates                                                                 *)

Own(t, chain) == {i \in DOMAIN chain : chain[i].owner = t}

\* Mutant: only entries that are not committed yet conflict.
CheckForConflicts_Uncommitted(t, s, v, rows) ==
    \E i \in DOMAIN info[s][v].chain :
        LET node == info[s][v].chain[i] IN
        node.version # TransactionId(t) /\ node.version >= TransactionIdStart /\ DOMAIN node.old \cap rows # {}

CheckForConflicts(t, s, v, rows) ==
    \E i \in DOMAIN info[s][v].chain :
        LET node == info[s][v].chain[i] IN
        node.version # TransactionId(t) /\ node.version > txn[t].start /\ DOMAIN node.old \cap rows # {}

\* Mutant: a second update of a row replaces the value that is kept for others.
OldValues_Latest(kept, s, rows) ==
    [r \in DOMAIN kept \union rows |-> IF r \in rows THEN FetchCommitted(s, r) ELSE kept[r]]

\* merge_update_function, first half: the entry keeps the values from before the
\* transaction's first update of a row.
OldValues(kept, s, rows) ==
    [r \in DOMAIN kept \union rows |-> IF r \in DOMAIN kept THEN kept[r] ELSE FetchCommitted(s, r)]

\* Update the rows of vector v in segment s to the given values: into t's own entry of the
\* chain, or a new one at its front.  initialize_update_function is the case of an empty chain
\* and base info.
Merged(t, s, v, new) ==
    LET chain == info[s][v].chain
        own == Own(t, chain)
        node(kept) == [owner |-> t, version |-> TransactionId(t), old |-> OldValues(kept, s, DOMAIN new)]
    IN [latest |-> [r \in DOMAIN info[s][v].latest \union DOMAIN new |->
                        IF r \in DOMAIN new THEN new[r] ELSE info[s][v].latest[r]],
        chain |-> IF own = {} THEN <<node(<<>>)>> \o chain
                  ELSE [i \in DOMAIN chain |-> IF i \in own THEN node(chain[i].old) ELSE chain[i]]]

\* The rows t has updated: the ones in its entries.
Wrote(t) ==
    UNION {UNION {DOMAIN info[s][v].chain[i].old : i \in Own(t, info[s][v].chain)} :
             s \in Segments, v \in Vectors}

\* The ghosts are recorded when a transaction leaves the phase between two statements.
Remember(t) ==
    IF txn[t].phase = "active" THEN [txn[t] EXCEPT !.seen = Scan(t), !.wrote = Wrote(t)] ELSE txn[t]

\* UpdateSegment::Update in transaction t, which is in the given phase afterwards, or
\* invalid when it finds a conflict.
Update(t, s, v, new, after) ==
    LET conflict == CheckForConflicts(t, s, v, DOMAIN new)
        created == Own(t, info[s][v].chain) = {}
    IN /\ info' = IF conflict THEN info ELSE [info EXCEPT ![s][v] = Merged(t, s, v, new)]
       /\ txn' = [txn EXCEPT ![t] =
                    IF conflict THEN [Remember(t) EXCEPT !.phase = "invalid", !.writes = <<>>]
                    ELSE [after EXCEPT !.undo = IF created THEN Append(@, <<s, v>>) ELSE @]]

BeginTransaction(t) ==
    /\ TransactionLockFree
    /\ \A u \in Txns : txn[u].phase = "none" <=> u >= t
    /\ txn' = [txn EXCEPT ![t].phase = "active", ![t].start = clock]
    /\ clock' = clock + 1
    /\ UNCHANGED <<column, info, updates>>

\* StandardColumnData::Update, first half: the values of the rows that do not become NULL.
UpdateData(t, v, writes) ==
    LET new == Restrict(writes, {r \in DOMAIN writes : writes[r] # Null})
        after == [Remember(t) EXCEPT !.phase = "updating", !.writes = writes]
    IN /\ txn[t].phase = "active"
       /\ updates < MaxUpdates
       /\ updates' = updates + 1
       /\ IF new = <<>> THEN txn' = [txn EXCEPT ![t] = after] /\ UNCHANGED info
          ELSE Update(t, "data", v, new, after)
       /\ UNCHANGED <<column, clock>>

\* Mutant: the skip looks at the update alone.
SkipsValidity_IgnoresStored(v, writes) == ~HasInfo("validity", v) /\ Null \notin Range(writes)

\* The fast path of a validity segment: no NULL before, none in the update, no versions.
SkipsValidity(v, writes) ==
    /\ ~HasInfo("validity", v)
    /\ Null \notin Range(writes)
    /\ \A r \in Rows : VectorOf(r) = v => column["validity"][r]

\* A row becomes NULL that a concurrent transaction gave a value, skipping the validity:
\* neither segment has entries of both, and the conflict goes unnoticed.
ConflictUnseen(t, v, writes) ==
    \E r \in DOMAIN writes, u \in Txns \ {t} :
        LET changed(s) == \E i \in Own(u, info[s][v].chain) :
                            r \in DOMAIN info[s][v].chain[i].old /\ info[s][v].chain[i].version > txn[t].start
        IN /\ writes[r] = Null
           /\ changed("data") /\ ~changed("validity")
           /\ txn[u].phase = "updating" => r \in txn[u].wrote

\* StandardColumnData::Update, second half: ValidityColumnData::Update.
UpdateValidity(t) ==
    LET writes == txn[t].writes
        v == VectorOf(Min(DOMAIN writes))
        new == [r \in DOMAIN writes |-> writes[r] # Null]
        after == [txn[t] EXCEPT !.phase = "active", !.writes = <<>>, !.seen = <<>>, !.wrote = {}]
    IN /\ txn[t].phase = "updating"
       /\ "conflict_unseen" \in Faults \/ ~ConflictUnseen(t, v, writes)
       /\ IF SkipsValidity(v, writes) THEN txn' = [txn EXCEPT ![t] = after] /\ UNCHANGED info
          ELSE Update(t, "validity", v, new, after)
       /\ UNCHANGED <<column, clock, updates>>

-----------------------------------------------------------------------------
(* Commit, rollback and cleanup                                            *)

WithVersion(t, i, version) ==
    [i EXCEPT !.chain = [n \in DOMAIN @ |-> IF @[n].owner = t THEN [@[n] EXCEPT !.version = version] ELSE @[n]]]

CommitTransaction(t) ==
    /\ TransactionLockFree
    /\ txn[t].phase = "active"
    /\ txn' = [txn EXCEPT ![t] = [Remember(t) EXCEPT !.phase = "committing", !.commit_id = clock]]
    /\ clock' = clock + 1
    /\ UNCHANGED <<column, info, updates>>

CommitEntry(t) ==
    LET next == txn[t].at + 1
        entry == txn[t].undo[next]
    IN
    /\ txn[t].phase = "committing"
    /\ next \in DOMAIN txn[t].undo
    /\ info' = [info EXCEPT ![entry[1]][entry[2]] = WithVersion(t, @, txn[t].commit_id)]
    /\ txn' = [txn EXCEPT ![t].at = next]
    /\ UNCHANGED <<column, clock, updates>>

\* A write to the log fails, at an entry or at the end: Transaction::Commit catches it,
\* gives the entries that were marked the transaction's id back, and the rollback begins.
CommitFails(t) ==
    LET marked == ToSet(SubSeq(txn[t].undo, 1, txn[t].at)) IN
    /\ txn[t].phase = "committing"
    /\ txn[t].undo # <<>>
    /\ info' = [s \in Segments |-> [v \in Vectors |->
                    IF <<s, v>> \in marked THEN WithVersion(t, info[s][v], TransactionId(t)) ELSE info[s][v]]]
    /\ txn' = [txn EXCEPT ![t].phase = "rolling_back", ![t].at = Len(txn[t].undo)]
    /\ UNCHANGED <<column, clock, updates>>

RollbackTransaction(t) ==
    /\ TransactionLockFree
    /\ txn[t].phase \in {"active", "invalid"}
    /\ txn' = [txn EXCEPT ![t] = [Remember(t) EXCEPT !.phase = "rolling_back", !.at = Len(txn[t].undo)]]
    /\ UNCHANGED <<column, info, clock, updates>>

\* CleanupUpdateInternal: take the entries of the given transactions out of the chain.
Unlinked(chain, gone) ==
    LET kept[n \in 0..Len(chain)] ==
            IF n = 0 THEN <<>>
            ELSE IF chain[n].owner \in gone THEN kept[n - 1] ELSE Append(kept[n - 1], chain[n])
    IN kept[Len(chain)]

\* UpdateSegment::RollbackUpdate: the old values go back into the base info.
RollbackUpdate(t, i) ==
    LET old == i.chain[CHOOSE n \in Own(t, i.chain) : TRUE].old
    IN [latest |-> [r \in DOMAIN i.latest |-> IF r \in DOMAIN old THEN old[r] ELSE i.latest[r]],
        chain |-> Unlinked(i.chain, {t})]

RollbackEntry(t) ==
    LET at == txn[t].at
        entry == txn[t].undo[at]
    IN /\ txn[t].phase = "rolling_back"
       /\ at > 0
       /\ info' = [info EXCEPT ![entry[1]][entry[2]] = RollbackUpdate(t, @)]
       /\ txn' = [txn EXCEPT ![t].at = at - 1]
       /\ UNCHANGED <<column, clock, updates>>

\* Mutant: a transaction is relevant while any other one runs.
Relevant_Always(u, running) == running # {}

\* Some transaction still running may apply u's entries.
Relevant(u, running) == \E a \in running : txn[u].commit_id >= txn[a].start

\* RemoveTransaction(t), with t ended as given: the entries of the committed transactions that
\* nobody applies any more leave the chains.
RemoveTransaction(t, ended) ==
    LET all == [txn EXCEPT ![t] = ended]
        past == {u \in Txns : all[u].phase = "committed" /\ ~Relevant(u, Running \ {t})}
    IN /\ txn' = all
       /\ info' = [s \in Segments |-> [v \in Vectors |->
                    [info[s][v] EXCEPT !.chain = Unlinked(@, past)]]]
       /\ UNCHANGED <<column, clock, updates>>

Ended(t, phase) ==
    [NewTransaction EXCEPT !.phase = phase, !.commit_id = IF phase = "committed" THEN txn[t].commit_id ELSE 0]

FinishCommit(t) ==
    /\ txn[t].phase = "committing"
    /\ txn[t].at = Len(txn[t].undo)
    /\ RemoveTransaction(t, Ended(t, "committed"))

FinishRollback(t) ==
    /\ txn[t].phase = "rolling_back"
    /\ txn[t].at = 0
    /\ RemoveTransaction(t, Ended(t, "aborted"))

\* A checkpoint, which no transaction and no chain is in the way of (CanCheckpoint), rewrites
\* the segments with the base infos merged into them and clears the updates.
Checkpoint ==
    /\ Running = {}
    /\ \E s \in Segments, v \in Vectors : HasInfo(s, v)
    /\ column' = [s \in Segments |-> [r \in Rows |-> FetchCommitted(s, r)]]
    /\ info' = [s \in Segments |-> [v \in Vectors |-> NoInfo]]
    /\ UNCHANGED <<txn, clock, updates>>

Next ==
    \/ \E t \in Txns :
        \/ BeginTransaction(t)
        \/ \E v \in Vectors :
             \E D \in (SUBSET {r \in Rows : VectorOf(r) = v}) \ {{}} :
               \E writes \in [D -> {t, Null}] : UpdateData(t, v, writes)
        \/ UpdateValidity(t)
        \/ CommitTransaction(t) \/ CommitEntry(t) \/ CommitFails(t) \/ FinishCommit(t)
        \/ RollbackTransaction(t) \/ RollbackEntry(t) \/ FinishRollback(t)
    \/ Checkpoint

Spec == Init /\ [][Next]_vars

-----------------------------------------------------------------------------
(* Properties                                                              *)

\* Every variable has its type: infos and undo buffers are well formed.
TypeOK ==
    /\ \A s \in Segments : column[s] \in [Rows -> Content(s)]
    /\ \A s \in Segments, v \in Vectors : info[s][v] \in Infos(s)
    /\ txn \in [Txns -> Transactions]
    /\ clock \in 1..(2 * MaxTransactions + 1)
    /\ updates \in 0..MaxUpdates

\* What a transaction that began now would read, before the end of a commit under way.
Committed ==
    LET Applies(node) == node.version >= TransactionIdStart \/ txn[node.owner].phase # "committed"
    IN [r \in Rows |-> IF Fetch("validity", r, Applies) THEN Fetch("data", r, Applies) ELSE Null]

\* A transaction has aborted, for the others, when its rollback begins to free its rows.
Open == {t \in Running : txn[t].phase # "rolling_back"}

\* Snapshot isolation of the rows (update_segment.cpp, Update, FetchUpdates, RollbackUpdate,
\* CleanupUpdate): a transaction keeps reading the column it began with and its own
\* updates, NULLs included; it commits all of them or none; and it never updates a row that
\* another transaction is updating or updated since it began.
Abstract == INSTANCE SnapshotMap WITH
    Names <- Rows,
    Entries <- 0..MaxTransactions,
    None <- Null,
    committed <- Committed,
    phase <- [t \in Txns |-> CASE t \in Open -> "active"
                               [] txn[t].phase = "rolling_back" -> "aborted"
                               [] OTHER -> txn[t].phase],
    view <- [t \in Txns |-> IF t \in Open THEN Remember(t).seen ELSE [r \in Rows |-> Null]],
    written <- [t \in Txns |-> IF t \in Open THEN Remember(t).wrote ELSE {}]
SnapshotIsolation == Abstract!Spec

\* A scan fetches the validity of a vector and then its values, under the two segments'
\* locks one after the other (standard_column_data.cpp:66, :72): whatever others do in
\* between, each segment alone keeps its content for the reader.
ScansStable ==
    [][\A t \in Txns :
        txn[t].phase = "active" /\ txn'[t] = txn[t]
            => \A s \in Segments, r \in Rows : FetchUpdates(t, s, r)' = FetchUpdates(t, s, r)]_vars

\* An update that succeeds is read back by its transaction, a NULL as NULL and a value as
\* that value, and changes no other row: the two segments never disagree, although a NULL
\* leaves the data segment and a value may leave the validity segment alone
\* (standard_column_data.cpp:117, update_segment.cpp:886, :901).
ReadYourWrites ==
    [][\A t \in Txns :
        txn[t].phase = "updating" /\ txn'[t].phase = "active"
            => Scan(t)' = [r \in Rows |-> IF r \in DOMAIN txn[t].writes THEN txn[t].writes[r]
                                          ELSE txn[t].seen[r]]]_vars

\* An entry is in a chain only while its transaction runs or some running one began before
\* its commit: undo buffers are freed afterwards, and readers must not follow the chain into
\* them (cleanup_state.cpp:52, update_segment.cpp:401).
ChainsReleased ==
    \A s \in Segments, v \in Vectors : \A i \in DOMAIN info[s][v].chain :
        LET u == info[s][v].chain[i].owner IN
        \/ u \in Running
        \/ txn[u].phase = "committed" /\ \E a \in Running : txn[a].start <= txn[u].commit_id

=============================================================================
