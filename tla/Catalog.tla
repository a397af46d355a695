------------------------------- MODULE Catalog -------------------------------
(***************************************************************************)
(* The versioned catalog: entries are created, altered, renamed and        *)
(* dropped by concurrent transactions, each of which sees the catalog as   *)
(* of its start, and a dependency manager refuses or cascades what other   *)
(* entries depend on (src/src/catalog/catalog_set.cpp,                     *)
(* dependency_manager.cpp, and the catalog cases of the undo buffer's      *)
(* visitors, src/src/transaction/commit_state.cpp, rollback_state.cpp and  *)
(* cleanup_state.cpp).                                                     *)
(*                                                                         *)
(* Every statement holds the catalog's write_lock from its first lookup to *)
(* its last write, and is one step.  Commit, rollback and cleanup run      *)
(* under transaction_lock; what they change carries the transaction's id   *)
(* or a commit id above every snapshot that can look at it meanwhile, and  *)
(* they are one step as well, so the order in which they and a statement   *)
(* take write_lock and catalog_lock is not here (README, section 4).  All  *)
(* entries are in one CatalogSet: the sets differ in the kind of their     *)
(* entries only.  Names differ by more than their case.                    *)
(***************************************************************************)
EXTENDS Integers, Sequences, FiniteSets, SequencesExt, FiniteSetsExt

CONSTANTS
    Names,                \* the names entries are given
    MaxTransactions,      \* bound on the transactions that are begun
    MaxObjects,           \* bound on the versions that exist at a time
    MaxChanges,           \* bound on the undo entries of a transaction
    TransactionIdStart,   \* timestamps from here on are transaction ids
    Faults                \* see Remaps, Renames and CommitFails

ASSUME CatalogAssumption ==
    /\ MaxTransactions \in Nat /\ MaxObjects \in Nat /\ MaxChanges \in Nat
    /\ TransactionIdStart \in Nat /\ TransactionIdStart > 2 * MaxTransactions + 1
    /\ Faults \subseteq {"second_mapping", "rename_over_versions", "rename_of_used", "failed_rename"}

Txns == 1..MaxTransactions
Ids == 1..MaxObjects
None == 0

VARIABLES
    catalog,  \* CatalogSet and DependencyManager, see CatalogType
    phase,    \* transaction -> "none", "active", "broken", "committed" or "aborted"
    start,    \* transaction -> its start_time
    undo,     \* transaction -> the versions in its undo buffer
    recent,   \* recently_committed_transactions, with their commit ids
    clock     \* current_start_timestamp

vars == <<catalog, phase, start, undo, recent, clock>>

-----------------------------------------------------------------------------
(* State                                                                   *)

Free == [type |-> "free"]
Object == [type : {"entry", "invalid", "deleted"}, index : BOOLEAN, name : Names, timestamp : Nat]
MappingValue == [index : Nat, timestamp : Nat, deleted : BOOLEAN]

\* mapping: the values of a name, newest first.  entries: the versions of an entry,
\* newest first.  object: what is allocated; a freed version is Free, and its id may
\* be given out again like the address it stands for.  tracked: the keys of
\* dependents_map and dependencies_map.
CatalogType ==
    [mapping : [Names -> Seq(MappingValue)], entries : Seq(Seq(Ids)),
     object : [Ids -> Object \union {Free}], tracked : SUBSET Ids,
     dependents : SUBSET [on : Ids, by : Ids, cascade : BOOLEAN],
     dependencies : [Ids -> SUBSET Ids]]

Init ==
    /\ catalog = [mapping |-> [n \in Names |-> <<>>], entries |-> <<>>,
                  object |-> [o \in Ids |-> Free], tracked |-> {}, dependents |-> {},
                  dependencies |-> [o \in Ids |-> {}]]
    /\ phase = [t \in Txns |-> "none"]
    /\ start = [t \in Txns |-> 0]
    /\ undo = [t \in Txns |-> <<>>]
    /\ recent = <<>>
    /\ clock = 1

Allocated(c) == {o \in Ids : c.object[o] # Free}
Deleted(c, o) == c.object[o].type # "entry"
TransactionId(t) == TransactionIdStart + t

-----------------------------------------------------------------------------
(* Lookups.  A reader r is a transaction: its id and its start time.       *)

Reader(t) == [id |-> TransactionId(t), start |-> start[t]]
\* A transaction that would begin now.
Newcomer == [id |-> TransactionIdStart, start |-> clock]

UseTimestamp(r, timestamp) == timestamp = r.id \/ timestamp < r.start

\* Mutant: a version that was committed after r began is no conflict.
HasConflict_Uncommitted(r, timestamp) ==
    timestamp >= TransactionIdStart /\ timestamp # r.id

HasConflict(r, timestamp) ==
    IF timestamp >= TransactionIdStart THEN timestamp # r.id ELSE timestamp > r.start

\* The first of a chain of timestamps that r may use, or the last of the chain.
FirstUsable(r, timestamps) ==
    CHOOSE i \in DOMAIN timestamps :
        /\ UseTimestamp(r, timestamps[i]) \/ i = Len(timestamps)
        /\ \A j \in 1..(i - 1) : ~UseTimestamp(r, timestamps[j])

Absent == [index |-> 0, timestamp |-> 0, deleted |-> TRUE]

GetMapping(c, r, n) ==
    LET values == c.mapping[n] IN
    IF values = <<>> THEN Absent
    ELSE values[FirstUsable(r, [i \in DOMAIN values |-> values[i].timestamp])]

GetEntryForTransaction(c, r, i) ==
    LET chain == c.entries[i] IN
    chain[FirstUsable(r, [k \in DOMAIN chain |-> c.object[chain[k]].timestamp])]

GetEntry(c, r, n) ==
    LET value == GetMapping(c, r, n) IN
    IF value.deleted THEN None
    ELSE LET current == GetEntryForTransaction(c, r, value.index) IN
         IF \/ Deleted(c, current)
            \/ c.object[current].name # n /\ ~UseTimestamp(r, value.timestamp)
         THEN None ELSE current

GetCommittedEntry(c, i) ==
    LET chain == c.entries[i] IN
    chain[Min({k \in DOMAIN chain : \/ c.object[chain[k]].timestamp < TransactionIdStart
                                    \/ k = Len(chain)})]

\* Both forms of Scan: what a transaction lists, and what a checkpoint writes.
Scan(c, r) == {GetEntryForTransaction(c, r, i) : i \in DOMAIN c.entries} \ {o \in Ids : Deleted(c, o)}
ScanCommitted(c) == {GetCommittedEntry(c, i) : i \in DOMAIN c.entries} \ {o \in Ids : Deleted(c, o)}

\* GetEntryInternal: the newest version under an index, which only the transaction
\* that wrote it, or one that began after its commit, may touch.
Newest(c, i) == Head(c.entries[i])
Conflicts(c, r, o) == HasConflict(r, c.object[o].timestamp)

-----------------------------------------------------------------------------
(* Changes of the catalog set.                                             *)

NewId(c) == Min(Ids \ Allocated(c))

\* A new version on top of the chain of an index.
Install(c, i, object) ==
    LET o == NewId(c) IN
    [c EXCEPT !.object[o] = object, !.entries[i] = <<o>> \o @]

\* The version that a transaction starting before the creation will see.
AddDummy(c, n) ==
    Install([c EXCEPT !.entries = Append(@, <<>>)], Len(c.entries) + 1,
            [type |-> "invalid", index |-> FALSE, name |-> n, timestamp |-> 0])

PutMapping(c, r, n, i) ==
    [c EXCEPT !.mapping[n] = <<[index |-> i, timestamp |-> r.id, deleted |-> FALSE]>> \o @]
\* Whether PutMapping throws instead.
MappingConflict(c, r, n) == c.mapping[n] # <<>> /\ HasConflict(r, Head(c.mapping[n]).timestamp)

DeleteMapping(c, r, n) ==
    [c EXCEPT !.mapping[n] = <<[index |-> Head(@).index, timestamp |-> r.id, deleted |-> TRUE]>> \o @]

UpdateTimestamp(c, o, timestamp) ==
    [c EXCEPT !.object[o].timestamp = timestamp,
              !.mapping[c.object[o].name] = <<[Head(@) EXCEPT !.timestamp = timestamp]>> \o Tail(@)]

\* The version above o, and the index of their chain.
ChainOf(c, o) == CHOOSE i \in DOMAIN c.entries : o \in ToSet(c.entries[i])
Parent(c, o) ==
    LET chain == c.entries[ChainOf(c, o)] IN
    chain[(CHOOSE k \in DOMAIN chain : chain[k] = o) - 1]

\* Takes a version out of its chain.
Unlink(c, o) ==
    [c EXCEPT !.entries[ChainOf(c, o)] = SelectSeq(@, LAMBDA p : p # o), !.object[o] = Free]

PopMapping(c, n) == [c EXCEPT !.mapping[n] = Tail(@)]

-----------------------------------------------------------------------------
(* The dependency manager                                                  *)

Track(c, o, dependencies, cascade) ==
    [c EXCEPT !.dependents = @ \union {[on |-> d, by |-> o, cascade |-> cascade] : d \in dependencies},
              !.tracked = @ \union {o},
              !.dependencies[o] = dependencies]

EraseObject(c, o) ==
    IF o \notin c.tracked THEN c
    ELSE [c EXCEPT !.dependents = {d \in @ : d.on # o /\ ~(d.by = o /\ d.on \in c.dependencies[o])},
                   !.tracked = @ \ {o},
                   !.dependencies[o] = {}]

\* Mutant: a dependency that is being dropped is taken.
DependencyConflict_Unchecked(c, r, dependencies) == FALSE

\* AddObject throws when a dependency was written by another transaction.
DependencyConflict(c, r, dependencies) ==
    \E d \in dependencies : Conflicts(c, r, Newest(c, GetMapping(c, r, c.object[d].name).index))

\* The entries that depend on o as DropObject finds them: by name, the newest version
\* under the index the transaction maps the name to, a deleted mapping included.
Dependents(c, r, o) ==
    {[entry |-> Newest(c, GetMapping(c, r, c.object[d.by].name).index), cascade |-> d.cascade] :
        d \in {d \in c.dependents : d.on = o /\ GetMapping(c, r, c.object[d.by].name) # Absent}}

\* AlterObject goes through GetEntryInternal, which finds nothing under a deleted mapping.
MappedDependents(c, r, o) ==
    {Newest(c, GetMapping(c, r, c.object[d.by].name).index) :
        d \in {d \in c.dependents : d.on = o /\ ~GetMapping(c, r, c.object[d.by].name).deleted}}

\* A dependent that is dropped with o, that stops the drop, and one in conflict.
Dropped(c, d, cascade) == ~Deleted(c, d.entry) /\ (cascade \/ ~d.cascade)
Stops(c, d, cascade) == ~Deleted(c, d.entry) /\ ~(cascade \/ ~d.cascade)

\* What DropObject visits from o on: o and all that is dropped before it.
Reached(c, r, o, cascade) ==
    LET from[k \in 0..Cardinality(Names)] ==
            IF k = 0 THEN {o}
            ELSE from[k - 1] \union
                 UNION {{d.entry : d \in {d \in Dependents(c, r, p) : Dropped(c, d, cascade) /\ ~Conflicts(c, r, d.entry)}} :
                            p \in from[k - 1]}
    IN from[Cardinality(Names)]

-----------------------------------------------------------------------------
(* Statements                                                              *)

\* A statement may begin, and what it allocates is within the bounds.
Runs(t, changes, objects) ==
    /\ phase[t] = "active"
    /\ Len(undo[t]) + changes <= MaxChanges
    /\ Cardinality(Ids \ Allocated(catalog)) >= objects

\* The statement ends with the catalog c and pushes versions to the undo buffer, or
\* throws a TransactionException: then the transaction can only be rolled back.
Done(t, c, pushed) ==
    /\ catalog' = c
    /\ undo' = [undo EXCEPT ![t] = @ \o pushed]
    /\ UNCHANGED <<phase, start, recent, clock>>

Throws(t, c, pushed) ==
    /\ catalog' = c
    /\ undo' = [undo EXCEPT ![t] = @ \o pushed]
    /\ phase' = [phase EXCEPT ![t] = "broken"]
    /\ UNCHANGED <<start, recent, clock>>

BeginTransaction(t) ==
    /\ phase[t] = "none"
    /\ t > 1 => phase[t - 1] # "none"
    /\ phase' = [phase EXCEPT ![t] = "active"]
    /\ start' = [start EXCEPT ![t] = clock]
    /\ clock' = clock + 1
    /\ UNCHANGED <<catalog, undo, recent>>

\* A name that has a mapping is given a second one: by a creation under the old name of
\* a renamed entry, or by a rename to the name of a dropped entry.  Commits of later
\* changes then hide the entry from the transactions that still see the version before.
Remaps(c, n) == "second_mapping" \in Faults \/ c.mapping[n] = <<>>

NewEntry(r, n, index) == [type |-> "entry", index |-> index, name |-> n, timestamp |-> r.id]

\* The dependencies a new entry may have: an index has the table it is on, others have
\* what their definition uses, and nothing uses an index.
DependencySets(c, r, index) ==
    {D \in SUBSET {o \in {GetEntry(c, r, n) : n \in Names} \ {None} : ~c.object[o].index} :
        index => Cardinality(D) = 1}

CreateEntry(t, n) ==
    LET r == Reader(t)
        value == GetMapping(catalog, r, n)
        fresh == value.deleted
        i == IF fresh THEN Len(catalog.entries) + 1 ELSE value.index
        dummy == IF fresh THEN AddDummy(catalog, n) ELSE catalog
        c == IF fresh THEN PutMapping(dummy, r, n, i) ELSE catalog
        current == Newest(c, i)
    IN
    /\ Runs(t, 1, 2)
    /\ \E index \in BOOLEAN : \E dependencies \in DependencySets(catalog, r, index) :
        \/ /\ fresh /\ MappingConflict(catalog, r, n)
           /\ Throws(t, dummy, <<>>)
        \/ /\ ~fresh /\ Conflicts(catalog, r, current)
           /\ Throws(t, catalog, <<>>)
        \/ /\ fresh => ~MappingConflict(catalog, r, n) /\ Remaps(catalog, n)
           /\ ~Conflicts(c, r, current) /\ Deleted(c, current)
           /\ IF DependencyConflict(c, r, dependencies)
              THEN Throws(t, c, <<>>)
              ELSE Done(t, Track(Install(c, i, NewEntry(r, n, index)), NewId(c), dependencies, ~index),
                        <<current>>)

\* A rename that is modelled only as a fault: of a version that was committed above
\* another one (commit then overwrites its timestamp, and the snapshots in between
\* lose it), and of an entry something depends on (refused after the mapping changed).
Renames(c, i) ==
    /\ \/ "rename_over_versions" \in Faults
       \/ Len(c.entries[i]) = 1 \/ c.object[Newest(c, i)].timestamp >= TransactionIdStart
    /\ "rename_of_used" \in Faults \/ \A d \in c.dependents : d.on # Newest(c, i)

\* A rename is refused when the transaction sees an entry with the new name.
NameTaken(c, r, m) ==
    LET value == GetMapping(c, r, m) IN
    ~value.deleted /\ ~Deleted(c, GetEntryForTransaction(c, r, value.index))

\* ALTER, which gives a new version the name m: the entry's own unless it is renamed.
AlterEntry(t, n, m) ==
    LET r == Reader(t)
        value == GetMapping(catalog, r, n)
        i == value.index
        entry == Newest(catalog, i)
        original == catalog.object[entry].name
        c == IF m = original THEN catalog
             ELSE DeleteMapping(PutMapping(catalog, r, m, i), r, original)
        dependents == MappedDependents(c, r, entry)
    IN
    /\ Runs(t, 1, 1)
    /\ ~value.deleted
    /\ IF Conflicts(catalog, r, entry) THEN Throws(t, catalog, <<>>)
       ELSE /\ ~Deleted(catalog, entry) /\ ~catalog.object[entry].index
            /\ m # original => ~NameTaken(catalog, r, m)
            /\ \/ /\ m # original /\ MappingConflict(catalog, r, m)
                  /\ Throws(t, catalog, <<>>)
               \/ /\ m # original => /\ ~MappingConflict(catalog, r, m)
                                     /\ Remaps(catalog, m) /\ Renames(catalog, i)
                  /\ \/ /\ \E o \in dependents : Conflicts(c, r, o)
                        /\ Throws(t, c, <<>>)
                     \/ /\ \E o \in dependents : ~Conflicts(c, r, o) /\ ~Deleted(c, o)
                        /\ Done(t, c, <<>>)
                     \/ /\ \A o \in dependents : ~Conflicts(c, r, o) /\ Deleted(c, o)
                        /\ Done(t, Track(Install(c, i, NewEntry(r, m, FALSE)), NewId(c),
                                         c.dependencies[entry], TRUE), <<entry>>)

\* DropEntryInternal: a tombstone on every chain.
DropAll(c, r, objects) ==
    FoldLeft(LAMBDA d, o : Install(d, ChainOf(d, o),
                 [type |-> "deleted", index |-> FALSE, name |-> d.object[o].name, timestamp |-> r.id]),
             c, objects)

\* A drop stops at a dependent that is in conflict or needs CASCADE, when some of the
\* others, in the order of a hash set, are dropped already.
DropEntry(t, n, cascade) ==
    LET r == Reader(t)
        value == GetMapping(catalog, r, n)
        entry == Newest(catalog, value.index)
        reached == Reached(catalog, r, entry, cascade)
        dependents == UNION {Dependents(catalog, r, o) : o \in reached}
        conflict == \E d \in dependents : Conflicts(catalog, r, d.entry)
        stopped == \E d \in dependents : ~Conflicts(catalog, r, d.entry) /\ Stops(catalog, d, cascade)
        \* What may have been dropped when a dependent of entry stops the drop.
        Before(objects) == \A o \in objects : {d.entry : d \in {d \in Dependents(catalog, r, o) :
                                                  ~Deleted(catalog, d.entry)}} \subseteq objects
    IN
    /\ ~value.deleted
    /\ Runs(t, Cardinality(reached), Cardinality(reached))
    /\ IF Conflicts(catalog, r, entry) THEN Throws(t, catalog, <<>>)
       ELSE /\ ~Deleted(catalog, entry)
            /\ IF conflict \/ stopped
               THEN \E before \in {S \in SUBSET (reached \ {entry}) : Before(S)} :
                      LET dropped == SetToSeq(before)  c == DropAll(catalog, r, dropped) IN
                      \/ conflict /\ Throws(t, c, dropped)
                      \/ stopped /\ Done(t, c, dropped)
               ELSE LET dropped == SetToSeq(reached) IN
                    Done(t, DropAll(catalog, r, dropped), dropped)

-----------------------------------------------------------------------------
(* The end of a transaction                                                *)

\* CommitState::CommitEntry of the version o.
CommitEntry(c, o, commit_id) ==
    LET parent == Parent(c, o)
        d == UpdateTimestamp(c, parent, commit_id)
    IN IF c.object[o].name # c.object[parent].name THEN UpdateTimestamp(d, o, commit_id) ELSE d

\* Mutant: the mark that a rename left on the old name stays.
RestoresName_Created(c, o) == c.object[o].type = "invalid"

\* The newest mapping of o's name goes with the change that is undone.
RestoresName(c, o) == Head(c.mapping[c.object[o].name]).deleted \/ c.object[o].type = "invalid"

\* CatalogSet::Undo: o takes the place of the version above it again.
Undo(c, o) ==
    LET parent == Parent(c, o)
        chain == c.entries[ChainOf(c, o)]
        name == c.object[o].name
        erased == IF Deleted(c, parent) THEN c ELSE EraseObject(c, parent)
        unnamed == IF name # c.object[parent].name THEN PopMapping(erased, c.object[parent].name) ELSE erased
        restored == IF parent = Head(chain)
                    THEN [unnamed EXCEPT !.entries[Head(unnamed.mapping[name]).index] = Tail(chain),
                                         !.object[parent] = Free]
                    ELSE Unlink(unnamed, parent)
    IN IF RestoresName(restored, o) THEN PopMapping(restored, name) ELSE restored

\* Mutant: the version is freed, and the dependency manager keeps its address.
CleanupEntry_NotErased(c, o) == Unlink(c, o)

\* CleanupState::CleanupEntry: nobody sees the version o any more.
CleanupEntry(c, o) ==
    Unlink(IF Deleted(c, o) THEN c ELSE EraseObject(c, o), o)

\* Mutant: the ending transaction counts as active itself.
RemoveTransaction_CountsSelf(t, c, committed) ==
    LET Relevant(u) == \E a \in Txns : phase[a] \in {"active", "broken"} /\ u.commit_id >= start[a]
        past == SelectSeq(committed, LAMBDA u : ~Relevant(u))
    IN /\ catalog' = FoldLeft(LAMBDA d, u : FoldLeft(CleanupEntry, d, u.undo), c, past)
       /\ recent' = SelectSeq(committed, Relevant)

\* RemoveTransaction(t): the undo buffers of the transactions that committed before every
\* active one began are cleaned up, in the order of their commits.
RemoveTransaction(t, c, committed) ==
    LET Relevant(u) == \E a \in Txns \ {t} : phase[a] \in {"active", "broken"} /\ u.commit_id >= start[a]
        past == SelectSeq(committed, LAMBDA u : ~Relevant(u))
    IN /\ catalog' = FoldLeft(LAMBDA d, u : FoldLeft(CleanupEntry, d, u.undo), c, past)
       /\ recent' = SelectSeq(committed, Relevant)

Commit(t) ==
    /\ phase[t] = "active"
    /\ RemoveTransaction(t, FoldLeft(LAMBDA c, o : CommitEntry(c, o, clock), catalog, undo[t]),
                         Append(recent, [undo |-> undo[t], commit_id |-> clock]))
    /\ clock' = clock + 1
    /\ undo' = [undo EXCEPT ![t] = <<>>]
    /\ phase' = [phase EXCEPT ![t] = "committed"]
    /\ UNCHANGED start

Rollback(t) ==
    /\ phase[t] \in {"active", "broken"}
    /\ RemoveTransaction(t, FoldLeft(Undo, catalog, Reverse(undo[t])), recent)
    /\ undo' = [undo EXCEPT ![t] = <<>>]
    /\ phase' = [phase EXCEPT ![t] = "aborted"]
    /\ UNCHANGED <<start, clock>>

\* A write to the log fails at the k-th entry of the commit: the entries up to it get the
\* transaction's id back, and the transaction is rolled back.  For a rename that leaves the
\* id on the version that was renamed, which is modelled as a fault.
CommitFails(t) ==
    /\ phase[t] = "active"
    /\ "failed_rename" \in Faults \/ \A o \in ToSet(undo[t]) :
            catalog.object[o].name = catalog.object[Parent(catalog, o)].name
    /\ \E k \in 1..Len(undo[t]) :
        LET entries == SubSeq(undo[t], 1, k)
            marked == FoldLeft(LAMBDA c, o : CommitEntry(c, o, clock), catalog, entries)
            reverted == FoldLeft(LAMBDA c, o : CommitEntry(c, o, TransactionId(t)), marked, entries)
        IN RemoveTransaction(t, FoldLeft(Undo, reverted, Reverse(undo[t])), recent)
    /\ clock' = clock + 1
    /\ undo' = [undo EXCEPT ![t] = <<>>]
    /\ phase' = [phase EXCEPT ![t] = "aborted"]
    /\ UNCHANGED start

Next ==
    \E t \in Txns :
        \/ BeginTransaction(t)
        \/ \E n \in Names : CreateEntry(t, n)
        \/ \E n, m \in Names : AlterEntry(t, n, m)
        \/ \E n \in Names, cascade \in BOOLEAN : DropEntry(t, n, cascade)
        \/ Commit(t)
        \/ CommitFails(t)
        \/ Rollback(t)

Spec == Init /\ [][Next]_vars

-----------------------------------------------------------------------------
(* Properties                                                              *)

Active == {t \in Txns : phase[t] \in {"active", "broken"}}
Readers == {Newcomer} \union {Reader(t) : t \in Active}
ViewOf(r) == [n \in Names |-> GetEntry(catalog, r, n)]
Visible(r) == {ViewOf(r)[n] : n \in Names} \ {None}

\* Every variable has its type: versions, mappings and dependencies are well formed.
TypeOK ==
    /\ catalog \in CatalogType
    /\ phase \in [Txns -> {"none", "active", "broken", "committed", "aborted"}]
    /\ start \in [Txns -> 0..clock]
    /\ undo \in [Txns -> Seq(Ids)]
    /\ recent \in Seq([undo : Seq(Ids), commit_id : 0..clock])
    /\ clock \in 1..(2 * MaxTransactions + 1)

\* Snapshot isolation of names (catalog_set.cpp, GetEntry, HasConflict, UpdateTimestamp,
\* Undo): a transaction keeps seeing the map it began with and its own changes, commits
\* all of them at once, and never writes a name that another transaction is writing or
\* wrote since it began.
Abstract == INSTANCE SnapshotMap WITH
    Entries <- Ids,
    committed <- ViewOf(Newcomer),
    phase <- [t \in Txns |-> IF t \in Active THEN "active" ELSE phase[t]],
    view <- [t \in Txns |-> IF t \in Active THEN ViewOf(Reader(t)) ELSE [n \in Names |-> None]],
    written <- [t \in Txns |-> IF t \in Active
                              THEN UNION {{catalog.object[o].name, catalog.object[Parent(catalog, o)].name} :
                                            o \in ToSet(undo[t])}
                              ELSE {}]
SnapshotIsolation == Abstract!Spec

\* The two ways to find an entry agree, for every transaction and for one that would
\* begin now: Scan walks the entries, GetEntry goes through the mapping of the name
\* (catalog_set.hpp:68, catalog_set.cpp:341) and finds an entry of that name; and what a
\* checkpoint writes is what a new transaction sees.
ScanMatchesLookup ==
    /\ \A r \in Readers :
         /\ Scan(catalog, r) = Visible(r)
         /\ \A n \in Names : ViewOf(r)[n] # None => catalog.object[ViewOf(r)[n]].name = n
    /\ ScanCommitted(catalog) = Visible(Newcomer)

\* Nobody sees an entry without what it depends on: a drop finds every dependent, one
\* that another transaction is creating included, and a creation finds a dependency that
\* is being dropped (dependency_manager.cpp, AddObject and DropObject).
DependenciesVisible ==
    \A r \in Readers : \A o \in Visible(r) : catalog.dependencies[o] \subseteq Visible(r)

\* The raw pointers of the dependency manager are to live versions: rollback and cleanup
\* erase a version before it is freed (catalog_set.cpp:396, cleanup_state.cpp:31).
DependenciesLive ==
    LET live == {o \in Allocated(catalog) : catalog.object[o].type = "entry"} IN
    /\ catalog.tracked = live
    /\ \A d \in catalog.dependents : {d.on, d.by} \subseteq live

\* Once no transaction is active, every entry is down to one version that anyone may
\* change, and no undo buffer waits for its cleanup: an ended transaction, a failed commit
\* included, leaves its id on nothing (transaction_manager.cpp:273, cleanup_state.cpp:33,
\* commit_state.cpp:218).
NothingRetained ==
    Active = {} => /\ recent = <<>>
                   /\ \A i \in DOMAIN catalog.entries : Len(catalog.entries[i]) = 1
                   /\ \A o \in Allocated(catalog) : ~Conflicts(catalog, Newcomer, o)

=============================================================================
