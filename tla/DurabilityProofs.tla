--------------------------- MODULE DurabilityProofs ---------------------------
(***************************************************************************)
(* Proofs about module Durability, for any number of tables, blocks,       *)
(* commits, checkpoints and crashes: that no block in use is handed out,   *)
(* that none is lost, and which writes a checkpoint in use is exposed to.  *)
(***************************************************************************)
EXTENDS Durability, NaturalsInduction, WellFoundedInduction, SequenceTheorems, TLAPS

(***************************************************************************)
(* What the theorems assume of the constants.                              *)
(***************************************************************************)
\* No crash comes between the write of the free list over a block of the checkpoint in
\* use and the sync of the new header, and none leaves that header in part: the database
\* does not open after those (run du_header and README, section 4).
HeaderIsAtomic == "crash_in_header" \notin Faults /\ "torn_header" \notin Faults
\* The commit of a DROP TABLE does not fail after it released the table's blocks.
DropsSucceed == "drop_fails" \notin Faults

(***************************************************************************)
(* What a file must look like to be loaded.                                *)
(***************************************************************************)
Header == [iteration : Nat, meta_block : Blocks \cup {INVALID_BLOCK},
           free_list : Blocks \cup {INVALID_BLOCK}, block_count : 0 .. MaxBlocks]
InFile(h) == 0 .. (h.block_count - 1)

\* The tables have their types, and every block is what the one that refers to it says.
FreeListOK(dsk, h) ==
    h.free_list # INVALID_BLOCK =>
      /\ h.free_list \in InFile(h)
      /\ dsk[h.free_list].kind = "free"
      /\ dsk[h.free_list].blocks \subseteq InFile(h)
PointersOK(dsk, h, listed, pointers) ==
    /\ pointers \in [listed -> Seq(InFile(h)) \ {<<>>}]
    /\ \A t \in listed : \A i \in DOMAIN pointers[t] :
         dsk[pointers[t][i]] \in [kind : {"data"}, rows : Bag]
MetaOK(dsk, h) ==
    h.meta_block # INVALID_BLOCK =>
      /\ h.meta_block \in InFile(h)
      /\ dsk[h.meta_block].kind = "meta"
      /\ dsk[h.meta_block].tables \subseteq Tables
      /\ dsk[h.meta_block].tables # {} =>
           /\ dsk[h.meta_block].tabledata \in InFile(h)
           /\ dsk[dsk[h.meta_block].tabledata].kind = "tabledata"
           /\ PointersOK(dsk, h, dsk[h.meta_block].tables, dsk[dsk[h.meta_block].tabledata].pointers)
\* Blocks serve one purpose each.
ApartOK(dsk, h) ==
    /\ Distinct(LoadTables(dsk, h))
    /\ AllBlocks(LoadTables(dsk, h)) \cap MetaBlocks(dsk, h) = {}
    /\ (AllBlocks(LoadTables(dsk, h)) \cup MetaBlocks(dsk, h)) \cap LoadFreeList(dsk, h) = {}
GoodFile(dsk, h) == h \in Header /\ FreeListOK(dsk, h) /\ MetaOK(dsk, h) /\ ApartOK(dsk, h)
\* A file without leaks.
Whole(dsk, h) == InFile(h) = FileBlocks(dsk, h) \cup LoadFreeList(dsk, h)
Loadable(dsk, h, lk) == GoodFile(dsk, h) /\ (~lk => Whole(dsk, h))

(***************************************************************************)
(* The inductive invariant.                                                *)
(***************************************************************************)
IsDisk(dsk) == dsk = [b \in Blocks |-> dsk[b]]
TablesType == [Tables -> (Seq(Segment) \ {<<>>}) \cup {Absent}]
CheckpointType ==
    [reason : {"none", "statement", "close", "commit"}, meta_block : Blocks \cup {INVALID_BLOCK},
     tabledata : Blocks \cup {INVALID_BLOCK}, done : [Tables -> Nat], written : SUBSET Blocks,
     header : Header, overwrites : BOOLEAN]
Places == {"idle", "flush", "checkpoint", "write", "record", "sync_record", "header",
           "write_header", "sync_header", "truncate", "down", "closed"}
\* A checkpoint has its first blocks.
Allocated == {"write", "record", "sync_record", "header", "write_header", "sync_header", "truncate"}

TypeInv ==
    /\ pc \in Places
    /\ IsDisk(disk) /\ IsDisk(stable)
    /\ header \in [{0, 1} -> Header] /\ stable_header \in [{0, 1} -> Header]
    /\ log_images \subseteq Seq(Record \cup {Torn}) /\ log \in log_images
    /\ tables \in TablesType
    /\ free_list \subseteq Blocks /\ modified_blocks \subseteq Blocks
    /\ max_block \in 0 .. MaxBlocks
    /\ active_header \in {0, 1}
    /\ iteration_count \in Nat
    /\ checkpoint \in CheckpointType
    /\ pc \notin Allocated => checkpoint.done = [t \in Tables |-> 0]
    /\ numbers \in Nat
    /\ leaked \in BOOLEAN

\* A commit that waits for its sync can be applied, and gave back its blocks.
FlushInv ==
    pc = "flush" =>
      /\ commit \in Commit
      /\ CanApply(tables, commit)
      /\ commit.op = "append" => ~EndsPersistent(tables[commit.table])
      /\ commit.op = "drop" => TableBlocks(tables[commit.table]) \subseteq modified_blocks

InUse(max) == 0 .. (max - 1)
\* What the memory says of the blocks.
Dropping(t) == pc = "flush" /\ commit.op = "drop" /\ commit.table = t
MemoryInv ==
    /\ Distinct(tables)
    /\ AllBlocks(tables) \cap free_list = {}
    /\ free_list \cap modified_blocks = {}
    /\ free_list \cup modified_blocks \cup AllBlocks(tables) \subseteq InUse(max_block)
    /\ \A t \in Tables : TableBlocks(tables[t]) \cap modified_blocks = {} \/ Dropping(t)
\* The blocks of segments hold what was saved in them.
Saved(ts, dsk) ==
    \A t \in Tables : ts[t] # Absent =>
      \A i \in DOMAIN ts[t] :
        IsPersistent(ts[t][i]) => dsk[ts[t][i].block] = [kind |-> "data", rows |-> ts[t][i].saved]

Agree(d, e, B) == \A b \in B : d[b] = e[b]
Top(hs) == hs[Newest(hs)]
\* The blocks of the checkpoint under way are its own.
OwnInv ==
    pc \in Allocated =>
      /\ checkpoint.meta_block # checkpoint.tabledata
      /\ {checkpoint.meta_block, checkpoint.tabledata} \subseteq InUse(max_block)
      /\ {checkpoint.meta_block, checkpoint.tabledata} \cap
           (free_list \cup modified_blocks \cup AllBlocks(tables)) = {}
      /\ pc = "write" =>
           {checkpoint.meta_block, checkpoint.tabledata} \cap FileBlocks(disk, Top(header)) = {}
\* Segments that are written are as they are on disk.
DoneInv ==
    pc = "write" =>
      \A t \in Existing :
        /\ checkpoint.done[t] <= Len(tables[t])
        /\ \A i \in 1 .. checkpoint.done[t] : Unchanged(tables[t][i])
MetaWritten == Allocated \ {"write"}
MetaRecord(ex, td) == [kind |-> "meta", tables |-> ex, tabledata |-> td]
DataRecord(ex, ts) == [kind |-> "tabledata", pointers |-> [t \in ex |-> PointersOf(ts[t])]]
WrittenInv ==
    pc \in MetaWritten =>
      /\ \A t \in Existing : \A i \in DOMAIN tables[t] : Unchanged(tables[t][i])
      /\ disk[checkpoint.meta_block] = MetaRecord(Existing, checkpoint.tabledata)
      /\ Existing # {} => disk[checkpoint.tabledata] = DataRecord(Existing, tables)
      /\ checkpoint.written = {checkpoint.meta_block} \cup
            (IF Existing = {} THEN {} ELSE {checkpoint.tabledata})
      /\ ~leaked => Existing # {}

\* What is on disk: the file that a restart loads is good, and the blocks it leads to are
\* as they were synced and are not free.
Running == pc \notin {"down", "closed"}
Switching == pc \in {"write_header", "sync_header"}
FileInv ==
    /\ pc # "sync_header" => stable_header = header
    /\ Running => active_header = Newest(header)
    /\ Running /\ pc # "write_header" => iteration_count = Top(header).iteration
    /\ pc # "sync_header" => Loadable(stable, Top(header), leaked)
    /\ ~Switching => Agree(disk, stable, FileBlocks(stable, Top(header)))
    /\ Running /\ pc # "write_header" =>
         /\ FileBlocks(disk, Top(header)) \cap free_list = {}
         /\ FileBlocks(disk, Top(header)) \subseteq InUse(max_block)
SwitchInv ==
    /\ pc = "write_header" =>
         /\ Loadable(disk, checkpoint.header, leaked)
         /\ checkpoint.header.iteration = iteration_count
         /\ iteration_count > Top(header).iteration
         /\ FileBlocks(disk, checkpoint.header) \cap free_list = {}
         /\ FileBlocks(disk, checkpoint.header) \subseteq InUse(max_block)
         /\ Agree(disk, stable, FileBlocks(stable, Top(header)) \ {checkpoint.header.free_list})
         /\ ~checkpoint.overwrites => Agree(disk, stable, FileBlocks(stable, Top(header)))
    /\ pc = "sync_header" =>
         /\ stable = disk
         /\ Loadable(disk, Top(header), leaked)
         /\ Newest(stable_header) = 1 - active_header
         /\ Top(stable_header) = stable_header[1 - active_header]
         /\ ~checkpoint.overwrites => Loadable(disk, Top(stable_header), leaked)

\* No block is lost.
AccountedInv ==
    Running /\ ~leaked =>
      InUse(max_block) = free_list \cup modified_blocks \cup AllBlocks(tables)
                          \cup (IF pc \in Allocated THEN {checkpoint.meta_block, checkpoint.tabledata} ELSE {})

BlockInv ==
    /\ TypeInv
    /\ FlushInv
    /\ MemoryInv
    /\ Saved(tables, disk)
    /\ OwnInv
    /\ DoneInv
    /\ WrittenInv
    /\ FileInv
    /\ SwitchInv
    /\ AccountedInv

(***************************************************************************)
(* Blocks.                                                                 *)
(***************************************************************************)
LEMMA NatMin == ASSUME NEW T, T \subseteq Nat, T # {} PROVE \E n \in T : \A m \in T : n <= m
<1> DEFINE R == {ss \in Nat \X Nat : ss[1] < ss[2]}
<1>1. IsWellFoundedOn(R, Nat)
  BY NatLessThanWellFounded DEF OpToRel
<1>2. PICK n \in T : \A y \in T : ~(<<y, n>> \in R)
  <2> HIDE DEF R
  <2> QED BY <1>1, WFMin
<1>3. \A y \in T : ~(y < n)
  BY <1>2
<1> QED BY <1>3

\* GetFreeBlockId takes one block out of the free list or adds one to the file.
LEMMA AllocateOne ==
    ASSUME NEW max \in Nat, NEW free, free \subseteq InUse(max), NEW a, a = GetFreeBlockId(free, max)
    PROVE  /\ a.max \in Nat /\ a.max >= max /\ a.max <= max + 1
           /\ a.block \in InUse(a.max)
           /\ a.free = free \ {a.block}
           /\ a.block \in free \/ a.block = max
           /\ InUse(a.max) = InUse(max) \cup {a.block}
           /\ a.block \in Nat
           /\ free # {} => a.max = max /\ a.block \in free
<1>1. CASE free = {}
  BY <1>1 DEF GetFreeBlockId, InUse
<1>2. CASE free # {}
  <2>1. free \subseteq Nat
    BY DEF InUse
  <2>2. Min(free) \in free
    BY <2>1, <1>2, NatMin DEF Min
  <2>3. a = [block |-> Min(free), free |-> free \ {Min(free)}, max |-> max]
    BY <1>2 DEF GetFreeBlockId
  <2>4. InUse(max) = InUse(max) \cup {a.block}
    BY <2>2, <2>3
  <2>5. a.block = Min(free) /\ a.free = free \ {Min(free)} /\ a.max = max
    BY <2>3
  <2>6. a.max >= max /\ a.max <= max + 1
    BY <2>5
  <2>7. a.block \in free /\ a.block \in InUse(max) /\ a.block \in Nat
    BY <2>1, <2>2, <2>5
  <2> QED BY <2>4, <2>5, <2>6, <2>7
<1> QED BY <1>1, <1>2

\* The blocks of tables, segment by segment.
Uses(ts, t, i, b) ==
    ts[t] # Absent /\ i \in DOMAIN ts[t] /\ ts[t][i].block = b /\ b # INVALID_BLOCK
LEMMA BlockOf ==
    ASSUME NEW ts, NEW b
    PROVE  /\ \A t \in Tables : b \in TableBlocks(ts[t]) <=> \E i : Uses(ts, t, i, b)
           /\ b \in AllBlocks(ts) <=> \E t, i : t \in Tables /\ Uses(ts, t, i, b)
<1>1. \A t \in Tables : b \in TableBlocks(ts[t]) <=> \E i : Uses(ts, t, i, b)
  BY DEF TableBlocks, Uses
<1>2. b \in AllBlocks(ts) <=> \E t \in Tables : b \in TableBlocks(ts[t])
  BY DEF AllBlocks
<1> QED BY <1>1, <1>2

LEMMA BlocksOfType ==
    ASSUME NEW ts \in TablesType
    PROVE  /\ AllBlocks(ts) \subseteq Blocks
           /\ \A t \in Tables : TableBlocks(ts[t]) \subseteq AllBlocks(ts)
<1>1. ASSUME NEW b \in AllBlocks(ts) PROVE b \in Blocks
  <2>1. PICK t, i : t \in Tables /\ Uses(ts, t, i, b)
    BY <1>1, BlockOf
  <2>2. ts[t] \in Seq(Segment)
    BY <2>1 DEF TablesType, Uses
  <2>3. ts[t][i] \in Segment
    BY <2>1, <2>2, ElementOfSeq DEF Uses
  <2> QED BY <2>1, <2>3 DEF Segment, Uses
<1> QED BY <1>1 DEF AllBlocks

LEMMA DistinctUses ==
    ASSUME NEW ts, Distinct(ts), NEW t \in Tables, NEW u \in Tables, NEW i, NEW j, NEW b,
           Uses(ts, t, i, b), Uses(ts, u, j, b)
    PROVE  t = u /\ i = j
  BY DEF Distinct, Uses, IsPersistent

\* Segments of new that have a block have it in old, at the same place.
Thins(new, old) ==
    \A t \in Tables : new[t] # Absent =>
      \A i \in DOMAIN new[t] : IsPersistent(new[t][i]) =>
        /\ old[t] # Absent /\ i \in DOMAIN old[t]
        /\ new[t][i].block = old[t][i].block
        /\ new[t][i].saved = old[t][i].saved

LEMMA ThinsUses ==
    ASSUME NEW new, NEW old, Thins(new, old), NEW t \in Tables, NEW i, NEW b, Uses(new, t, i, b)
    PROVE  Uses(old, t, i, b)
  BY DEF Thins, Uses, IsPersistent

LEMMA ThinsKeeps ==
    ASSUME NEW new, NEW old, Thins(new, old)
    PROVE  /\ AllBlocks(new) \subseteq AllBlocks(old)
           /\ \A t \in Tables : TableBlocks(new[t]) \subseteq TableBlocks(old[t])
           /\ Distinct(old) => Distinct(new)
           /\ \A dsk : Saved(old, dsk) => Saved(new, dsk)
<1>1. \A t \in Tables : TableBlocks(new[t]) \subseteq TableBlocks(old[t])
  <2> SUFFICES ASSUME NEW t \in Tables, NEW b \in TableBlocks(new[t]) PROVE b \in TableBlocks(old[t])
    OBVIOUS
  <2>1. PICK i : Uses(new, t, i, b)
    BY BlockOf
  <2> QED BY <2>1, ThinsUses, BlockOf
<1>2. AllBlocks(new) \subseteq AllBlocks(old)
  BY <1>1 DEF AllBlocks
<1>3. Distinct(old) => Distinct(new)
  <2> SUFFICES ASSUME Distinct(old), NEW t \in Tables, NEW u \in Tables, new[t] # Absent, new[u] # Absent,
                      NEW i \in DOMAIN new[t], NEW j \in DOMAIN new[u],
                      IsPersistent(new[t][i]), new[t][i].block = new[u][j].block
               PROVE  t = u /\ i = j
    BY DEF Distinct
  <2>1. Uses(new, t, i, new[t][i].block) /\ Uses(new, u, j, new[t][i].block)
    BY DEF Uses, IsPersistent
  <2> QED BY <2>1, ThinsUses, DistinctUses
<1>4. ASSUME NEW dsk, Saved(old, dsk) PROVE Saved(new, dsk)
  BY <1>4 DEF Saved, Thins, IsPersistent
<1> QED BY <1>1, <1>2, <1>3, <1>4

(***************************************************************************)
(* Files.                                                                  *)
(***************************************************************************)
LEMMA SizesAreNat ==
    ASSUME NEW h \in Header
    PROVE  /\ MaxBlocks \in Nat /\ h.block_count \in Nat /\ h.block_count <= MaxBlocks
           /\ InFile(h) \subseteq Blocks /\ INVALID_BLOCK \notin Blocks /\ INVALID_BLOCK \notin InFile(h)
           /\ InFile(h) \subseteq Nat
  BY DurabilityAssumption DEF Header, InFile, Blocks, INVALID_BLOCK

\* What a file without tables leads to.
LEMMA EmptyFile ==
    ASSUME NEW dsk, NEW h \in Header, MetaOK(dsk, h),
           h.meta_block = INVALID_BLOCK \/ dsk[h.meta_block].tables = {}
    PROVE  /\ LoadTables(dsk, h) = Absents
           /\ MetaBlocks(dsk, h) = {h.free_list, h.meta_block} \ {INVALID_BLOCK}
           /\ FileBlocks(dsk, h) = {h.free_list, h.meta_block} \ {INVALID_BLOCK}
           /\ AllBlocks(LoadTables(dsk, h)) = {}
<1>1. LoadTables(dsk, h) = Absents
  <2>1. CASE h.meta_block = INVALID_BLOCK
    BY <2>1 DEF LoadTables, MetaOf, Absents
  <2>2. CASE h.meta_block # INVALID_BLOCK
    BY <2>2 DEF LoadTables, MetaOf, Absents
  <2> QED BY <2>1, <2>2
<1>2. MetaBlocks(dsk, h) = {h.free_list, h.meta_block} \ {INVALID_BLOCK}
  <2>1. CASE h.meta_block = INVALID_BLOCK
    BY <2>1 DEF MetaBlocks, MetaOf
  <2>2. CASE h.meta_block # INVALID_BLOCK
    BY <2>2 DEF MetaBlocks, MetaOf
  <2> QED BY <2>1, <2>2
<1>3. FileBlocks(dsk, h) = {h.free_list, h.meta_block} \ {INVALID_BLOCK}
  <2>1. CASE h.meta_block = INVALID_BLOCK
    BY <2>1 DEF FileBlocks, Empty
  <2>2. CASE h.meta_block # INVALID_BLOCK
    BY <2>2 DEF FileBlocks, Empty
  <2> QED BY <2>1, <2>2
<1>4. AllBlocks(Absents) = {}
  BY DEF AllBlocks, TableBlocks, Absents
<1> QED BY <1>1, <1>2, <1>3, <1>4

\* What a file with tables leads to.
LEMMA FullFile ==
    ASSUME NEW dsk, NEW h \in Header, MetaOK(dsk, h),
           h.meta_block # INVALID_BLOCK, dsk[h.meta_block].tables # {},
           NEW m, m = dsk[h.meta_block], NEW p, p = dsk[m.tabledata].pointers
    PROVE  /\ \A t \in Tables :
                LoadTables(dsk, h)[t] =
                  IF t \notin m.tables THEN Absent
                  ELSE [i \in DOMAIN p[t] |-> PersistentSegment(p[t][i], dsk[p[t][i]].rows)]
           /\ MetaBlocks(dsk, h) = ({h.free_list, h.meta_block} \ {INVALID_BLOCK}) \cup {m.tabledata}
           /\ FileBlocks(dsk, h) = MetaBlocks(dsk, h) \cup UNION {{p[t][i] : i \in DOMAIN p[t]} : t \in m.tables}
           /\ m.tables \subseteq Tables /\ p \in [m.tables -> Seq(InFile(h)) \ {<<>>}]
<1>1. m.kind = "meta" /\ m # Empty /\ m.tables \subseteq Tables /\ m.tabledata \in InFile(h)
  <2>1. m.kind = "meta" /\ Empty.kind = "empty"
    BY DEF MetaOK, Empty
  <2> QED BY <2>1 DEF MetaOK
<1>2. dsk[m.tabledata].kind = "tabledata" /\ p \in [m.tables -> Seq(InFile(h)) \ {<<>>}]
  BY DEF MetaOK, PointersOK
<1>3. MetaOf(dsk, h) = m
  BY DEF MetaOf
<1>4. \A t \in Tables : LoadTables(dsk, h)[t] =
                  IF t \notin m.tables THEN Absent
                  ELSE [i \in DOMAIN p[t] |-> PersistentSegment(p[t][i], dsk[p[t][i]].rows)]
  BY <1>1, <1>3 DEF LoadTables
<1>5. MetaBlocks(dsk, h) = ({h.free_list, h.meta_block} \ {INVALID_BLOCK}) \cup {m.tabledata}
  BY <1>1, <1>3 DEF MetaBlocks
<1>6. FileBlocks(dsk, h) = ({h.meta_block, h.free_list} \ {INVALID_BLOCK}) \cup {m.tabledata}
                             \cup UNION {Range(p[t]) : t \in DOMAIN p}
  BY <1>1, <1>2 DEF FileBlocks
<1>7. \A t \in DOMAIN p : Range(p[t]) = {p[t][i] : i \in DOMAIN p[t]}
  BY DEF Range
<1>8. DOMAIN p = m.tables
  BY <1>2
<1>9. UNION {Range(p[t]) : t \in DOMAIN p} = UNION {{p[t][i] : i \in DOMAIN p[t]} : t \in m.tables}
  BY <1>7, <1>8
<1> QED BY <1>1, <1>2, <1>4, <1>5, <1>6, <1>9

\* The tables that a good file holds, and the blocks it leads to.
LEMMA LoadedFile ==
    ASSUME NEW dsk, NEW h \in Header, MetaOK(dsk, h), FreeListOK(dsk, h)
    PROVE  /\ LoadTables(dsk, h) \in TablesType
           /\ \A t \in Tables : LoadTables(dsk, h)[t] # Absent =>
                \A i \in DOMAIN LoadTables(dsk, h)[t] : Unchanged(LoadTables(dsk, h)[t][i])
           /\ FileBlocks(dsk, h) = MetaBlocks(dsk, h) \cup AllBlocks(LoadTables(dsk, h))
           /\ FileBlocks(dsk, h) \subseteq InFile(h)
           /\ LoadFreeList(dsk, h) \subseteq InFile(h)
           /\ Saved(LoadTables(dsk, h), dsk)
           /\ Readable(dsk, h)
<1>1. InFile(h) \subseteq Blocks /\ INVALID_BLOCK \notin InFile(h)
  BY SizesAreNat
<1>2. LoadFreeList(dsk, h) \subseteq InFile(h)
  BY DEF LoadFreeList, FreeListOK
<1>3. {h.free_list, h.meta_block} \ {INVALID_BLOCK} \subseteq InFile(h)
  BY DEF FreeListOK, MetaOK
<1>4. CASE h.meta_block = INVALID_BLOCK \/ dsk[h.meta_block].tables = {}
  <2>1. LoadTables(dsk, h) = Absents /\ MetaBlocks(dsk, h) = FileBlocks(dsk, h)
        /\ FileBlocks(dsk, h) \subseteq InFile(h) /\ AllBlocks(LoadTables(dsk, h)) = {}
    BY <1>3, <1>4, EmptyFile
  <2>2. Absents \in TablesType
    BY DEF TablesType, Absents
  <2>3. \A t \in Tables : Absents[t] = Absent
    BY DEF Absents
  <2>4. Saved(Absents, dsk)
    BY <2>3 DEF Saved
  <2>5. Readable(dsk, h)
    BY <1>4 DEF Readable, MetaOf, MetaOK, FreeListOK
  <2> QED BY <1>2, <2>1, <2>2, <2>3, <2>4, <2>5
<1>5. CASE ~(h.meta_block = INVALID_BLOCK \/ dsk[h.meta_block].tables = {})
  <2> DEFINE m == dsk[h.meta_block]
             p == dsk[m.tabledata].pointers
             L == LoadTables(dsk, h)
             seg(t) == [i \in DOMAIN p[t] |-> PersistentSegment(p[t][i], dsk[p[t][i]].rows)]
  <2>1. /\ \A t \in Tables : L[t] = IF t \notin m.tables THEN Absent ELSE seg(t)
        /\ MetaBlocks(dsk, h) = ({h.free_list, h.meta_block} \ {INVALID_BLOCK}) \cup {m.tabledata}
        /\ FileBlocks(dsk, h) = MetaBlocks(dsk, h) \cup UNION {{p[t][i] : i \in DOMAIN p[t]} : t \in m.tables}
        /\ m.tables \subseteq Tables /\ p \in [m.tables -> Seq(InFile(h)) \ {<<>>}]
    BY <1>5, FullFile
  <2>2. m.tabledata \in InFile(h) /\ PointersOK(dsk, h, m.tables, p) /\ dsk[m.tabledata].kind = "tabledata"
    BY <1>5 DEF MetaOK
  <2>3. L = [t \in Tables |-> L[t]]
    BY DEF LoadTables
  <2> HIDE DEF m, p, L
  <2>4. \A t \in m.tables : p[t] \in Seq(InFile(h)) /\ p[t] # <<>> /\ DOMAIN p[t] = 1 .. Len(p[t])
                            /\ Len(p[t]) \in Nat \ {0}
    BY <2>1
  <2>5. \A t \in m.tables : \A i \in DOMAIN p[t] :
           p[t][i] \in InFile(h) /\ dsk[p[t][i]] \in [kind : {"data"}, rows : Bag]
    BY <2>2, <2>4 DEF PointersOK
  <2>6. \A t \in m.tables : \A i \in DOMAIN p[t] : seg(t)[i] = PersistentSegment(p[t][i], dsk[p[t][i]].rows)
                                        /\ seg(t)[i].block = p[t][i] /\ seg(t)[i].rows = dsk[p[t][i]].rows
                                        /\ seg(t)[i].saved = dsk[p[t][i]].rows
                                        /\ seg(t)[i] \in Segment /\ Unchanged(seg(t)[i])
    BY <1>1, <2>5 DEF PersistentSegment, Segment, Unchanged, IsPersistent, HasUpdates
  <2>7. \A t \in m.tables : seg(t) \in Seq(Segment) /\ seg(t) # <<>> /\ DOMAIN seg(t) = DOMAIN p[t]
    <3> TAKE t \in m.tables
    <3>1. seg(t) = [i \in 1 .. Len(p[t]) |-> PersistentSegment(p[t][i], dsk[p[t][i]].rows)]
      BY <2>4
    <3>2. \A i \in 1 .. Len(p[t]) : PersistentSegment(p[t][i], dsk[p[t][i]].rows) \in Segment
      BY <2>4, <2>6
    <3>3. seg(t) \in Seq(Segment)
      BY <2>4, <3>1, <3>2, IsASeq
    <3>4. DOMAIN seg(t) = 1 .. Len(p[t]) /\ 1 \in 1 .. Len(p[t])
      BY <2>4, <3>1
    <3> QED BY <2>4, <3>3, <3>4
  <2> HIDE DEF seg
  <2>8. L \in TablesType
    <3>1. \A t \in Tables : L[t] \in (Seq(Segment) \ {<<>>}) \cup {Absent}
      BY <2>1, <2>7
    <3> QED BY <2>3, <3>1 DEF TablesType
  <2>9. \A t \in Tables : L[t] # Absent => t \in m.tables /\ L[t] = seg(t)
    BY <2>1
  <2>10. \A t \in m.tables : L[t] # Absent /\ L[t] = seg(t)
    BY <2>1, <2>7, DurabilityAssumption
  <2>11. AllBlocks(L) = UNION {{p[t][i] : i \in DOMAIN p[t]} : t \in m.tables}
    <3>1. ASSUME NEW b \in AllBlocks(L) PROVE \E t \in m.tables : \E i \in DOMAIN p[t] : p[t][i] = b
      <4>1. PICK t, i : t \in Tables /\ Uses(L, t, i, b)
        BY BlockOf
      <4> QED BY <4>1, <2>6, <2>7, <2>9 DEF Uses
    <3>2. ASSUME NEW t \in m.tables, NEW i \in DOMAIN p[t] PROVE p[t][i] \in AllBlocks(L)
      <4>1. Uses(L, t, i, p[t][i])
        BY <1>1, <2>5, <2>6, <2>7, <2>10 DEF Uses
      <4> QED BY <4>1, <2>1, BlockOf
    <3> QED BY <3>1, <3>2
  <2>12. FileBlocks(dsk, h) = MetaBlocks(dsk, h) \cup AllBlocks(L)
    BY <2>1, <2>11
  <2>13. FileBlocks(dsk, h) \subseteq InFile(h)
    BY <1>3, <2>1, <2>2, <2>5
  <2>14. Saved(L, dsk)
    <3> SUFFICES ASSUME NEW t \in Tables, L[t] # Absent, NEW i \in DOMAIN L[t], IsPersistent(L[t][i])
                 PROVE  dsk[L[t][i].block] = [kind |-> "data", rows |-> L[t][i].saved]
      BY DEF Saved
    <3>1. t \in m.tables /\ i \in DOMAIN p[t] /\ L[t][i].block = p[t][i] /\ L[t][i].saved = dsk[p[t][i]].rows
      BY <2>6, <2>7, <2>9
    <3>2. dsk[p[t][i]] \in [kind : {"data"}, rows : Bag]
      BY <3>1, <2>5
    <3> QED BY <3>1, <3>2
  <2>15. \A t \in Tables : L[t] # Absent => \A i \in DOMAIN L[t] : Unchanged(L[t][i])
    BY <2>6, <2>7, <2>9
  <2>16. Readable(dsk, h)
    <3>1. MetaOf(dsk, h) = m /\ m.kind = "meta"
      BY <1>5 DEF MetaOf, MetaOK, m
    <3>2. DOMAIN p = m.tables /\ p = dsk[m.tabledata].pointers
      BY <2>1 DEF p
    <3>3. \A t \in DOMAIN p : \A i \in DOMAIN p[t] : dsk[p[t][i]].kind = "data"
      BY <2>5, <3>2
    <3>4. h.free_list # INVALID_BLOCK => dsk[h.free_list].kind = "free"
      BY DEF FreeListOK
    <3> QED BY <2>2, <3>1, <3>2, <3>3, <3>4 DEF Readable
  <2> QED BY <1>2, <2>8, <2>12, <2>13, <2>14, <2>15, <2>16 DEF L
<1> QED BY <1>4, <1>5

\* A disk that has the same blocks holds the same file.
LEMMA FileFrame ==
    ASSUME NEW dsk, NEW new, NEW h, GoodFile(dsk, h), Agree(new, dsk, FileBlocks(dsk, h))
    PROVE  /\ GoodFile(new, h)
           /\ FileBlocks(new, h) = FileBlocks(dsk, h)
           /\ LoadTables(new, h) = LoadTables(dsk, h)
           /\ MetaBlocks(new, h) = MetaBlocks(dsk, h)
           /\ LoadFreeList(new, h) = LoadFreeList(dsk, h)
<1>1. h \in Header /\ FreeListOK(dsk, h) /\ MetaOK(dsk, h) /\ ApartOK(dsk, h)
  BY DEF GoodFile
<1>2. FileBlocks(dsk, h) = MetaBlocks(dsk, h) \cup AllBlocks(LoadTables(dsk, h))
  BY <1>1, LoadedFile
<1>3. \A b \in FileBlocks(dsk, h) : new[b] = dsk[b]
  BY DEF Agree
<1>4. {h.free_list, h.meta_block} \ {INVALID_BLOCK} \subseteq FileBlocks(dsk, h)
  BY DEF FileBlocks
<1>5. FreeListOK(new, h) /\ LoadFreeList(new, h) = LoadFreeList(dsk, h)
  BY <1>1, <1>3, <1>4 DEF FreeListOK, LoadFreeList
<1>6. h.meta_block # INVALID_BLOCK => new[h.meta_block] = dsk[h.meta_block]
  BY <1>3, <1>4
<1>7. CASE h.meta_block = INVALID_BLOCK \/ dsk[h.meta_block].tables = {}
  <2>1. MetaOK(new, h)
    BY <1>1, <1>6, <1>7 DEF MetaOK
  <2>2. h.meta_block = INVALID_BLOCK \/ new[h.meta_block].tables = {}
    BY <1>6, <1>7
  <2>3. /\ FileBlocks(new, h) = FileBlocks(dsk, h)
        /\ LoadTables(new, h) = LoadTables(dsk, h)
        /\ MetaBlocks(new, h) = MetaBlocks(dsk, h)
    BY <1>1, <1>7, <2>1, <2>2, EmptyFile
  <2>4. ApartOK(new, h)
    BY <1>1, <1>5, <2>3 DEF ApartOK
  <2> QED BY <1>1, <1>5, <2>1, <2>3, <2>4 DEF GoodFile
<1>8. CASE ~(h.meta_block = INVALID_BLOCK \/ dsk[h.meta_block].tables = {})
  <2> DEFINE m == dsk[h.meta_block]
             p == dsk[m.tabledata].pointers
  <2>1. /\ \A t \in Tables :
                LoadTables(dsk, h)[t] =
                  IF t \notin m.tables THEN Absent
                  ELSE [i \in DOMAIN p[t] |-> PersistentSegment(p[t][i], dsk[p[t][i]].rows)]
        /\ MetaBlocks(dsk, h) = ({h.free_list, h.meta_block} \ {INVALID_BLOCK}) \cup {m.tabledata}
        /\ FileBlocks(dsk, h) = MetaBlocks(dsk, h) \cup UNION {{p[t][i] : i \in DOMAIN p[t]} : t \in m.tables}
        /\ m.tables \subseteq Tables /\ p \in [m.tables -> Seq(InFile(h)) \ {<<>>}]
    BY <1>1, <1>8, FullFile
  <2>2. m.tabledata \in FileBlocks(dsk, h) /\ \A t \in m.tables : \A i \in DOMAIN p[t] : p[t][i] \in FileBlocks(dsk, h)
    <3> HIDE DEF m, p
    <3> QED BY <2>1
  <2>3. new[h.meta_block] = m /\ new[m.tabledata] = dsk[m.tabledata]
        /\ \A t \in m.tables : \A i \in DOMAIN p[t] : new[p[t][i]] = dsk[p[t][i]]
    BY <1>3, <1>6, <1>8, <2>2
  <2>4. MetaOK(new, h)
    <3>1. PointersOK(dsk, h, m.tables, p)
      BY <1>1, <1>8 DEF MetaOK
    <3>2. PointersOK(new, h, m.tables, p)
      BY <3>1, <2>3 DEF PointersOK
    <3> QED BY <1>1, <1>8, <2>3, <3>2 DEF MetaOK
  <2>5. /\ \A t \in Tables :
                LoadTables(new, h)[t] =
                  IF t \notin m.tables THEN Absent
                  ELSE [i \in DOMAIN p[t] |-> PersistentSegment(p[t][i], new[p[t][i]].rows)]
        /\ MetaBlocks(new, h) = ({h.free_list, h.meta_block} \ {INVALID_BLOCK}) \cup {m.tabledata}
        /\ FileBlocks(new, h) = MetaBlocks(new, h) \cup UNION {{p[t][i] : i \in DOMAIN p[t]} : t \in m.tables}
    <3>1. new[h.meta_block].tables # {} /\ h.meta_block # INVALID_BLOCK /\ m = new[h.meta_block] /\ p = new[m.tabledata].pointers
      BY <1>8, <2>3
    <3> DEFINE m2 == new[h.meta_block]
               p2 == new[m2.tabledata].pointers
    <3>2. /\ \A t \in Tables :
                LoadTables(new, h)[t] =
                  IF t \notin m2.tables THEN Absent
                  ELSE [i \in DOMAIN p2[t] |-> PersistentSegment(p2[t][i], new[p2[t][i]].rows)]
          /\ MetaBlocks(new, h) = ({h.free_list, h.meta_block} \ {INVALID_BLOCK}) \cup {m2.tabledata}
          /\ FileBlocks(new, h) = MetaBlocks(new, h) \cup UNION {{p2[t][i] : i \in DOMAIN p2[t]} : t \in m2.tables}
          /\ m2.tables \subseteq Tables /\ p2 \in [m2.tables -> Seq(InFile(h)) \ {<<>>}]
      <4>1. m2.tables # {} /\ h.meta_block # INVALID_BLOCK /\ h \in Header /\ MetaOK(new, h)
        BY <1>1, <2>4, <3>1
      <4> QED BY ONLY <4>1, FullFile
    <3>3. m2 = m /\ p2 = p
      BY <3>1
    <3> HIDE DEF m, p, m2, p2
    <3> QED BY <3>2, <3>3
  <2> HIDE DEF m, p
  <2>6. \A t \in Tables : LoadTables(new, h)[t] = LoadTables(dsk, h)[t]
    <3> TAKE t \in Tables
    <3>1. CASE t \notin m.tables
      <4>1. LoadTables(new, h)[t] = Absent
        BY <3>1, <2>5
      <4>2. LoadTables(dsk, h)[t] = Absent
        BY <3>1, <2>1
      <4> QED BY <4>1, <4>2
    <3>2. CASE t \in m.tables
      <4>1. \A i \in DOMAIN p[t] : PersistentSegment(p[t][i], new[p[t][i]].rows) = PersistentSegment(p[t][i], dsk[p[t][i]].rows)
        BY <2>3, <3>2
      <4>2. [i \in DOMAIN p[t] |-> PersistentSegment(p[t][i], new[p[t][i]].rows)]
              = [i \in DOMAIN p[t] |-> PersistentSegment(p[t][i], dsk[p[t][i]].rows)]
        BY <4>1
      <4>3. LoadTables(new, h)[t] = [i \in DOMAIN p[t] |-> PersistentSegment(p[t][i], new[p[t][i]].rows)]
        BY <2>5, <3>2
      <4>4. LoadTables(dsk, h)[t] = [i \in DOMAIN p[t] |-> PersistentSegment(p[t][i], dsk[p[t][i]].rows)]
        BY <2>1, <3>2
      <4> QED BY <4>2, <4>3, <4>4
    <3> QED BY <3>1, <3>2
  <2>7. LoadTables(new, h) = LoadTables(dsk, h)
    <3>1. LoadTables(new, h) = [t \in Tables |-> LoadTables(new, h)[t]]
      BY DEF LoadTables
    <3>2. LoadTables(dsk, h) = [t \in Tables |-> LoadTables(dsk, h)[t]]
      BY DEF LoadTables
    <3> HIDE DEF LoadTables
    <3>3. [t \in Tables |-> LoadTables(new, h)[t]] = [t \in Tables |-> LoadTables(dsk, h)[t]]
      BY <2>6
    <3> QED BY <3>1, <3>2, <3>3
  <2>8. MetaBlocks(new, h) = MetaBlocks(dsk, h) /\ FileBlocks(new, h) = FileBlocks(dsk, h)
    BY <2>1, <2>5
  <2>9. ApartOK(new, h)
    BY <1>1, <1>5, <2>7, <2>8 DEF ApartOK
  <2> QED BY <1>1, <1>5, <2>4, <2>7, <2>8, <2>9 DEF GoodFile
<1> QED BY <1>7, <1>8

LEMMA LoadableFrame ==
    ASSUME NEW dsk, NEW new, NEW h, NEW lk, Loadable(dsk, h, lk), Agree(new, dsk, FileBlocks(dsk, h))
    PROVE  Loadable(new, h, lk) /\ FileBlocks(new, h) = FileBlocks(dsk, h)
<1>1. GoodFile(dsk, h) /\ (~lk => Whole(dsk, h))
  BY DEF Loadable
<1>2. GoodFile(new, h) /\ FileBlocks(new, h) = FileBlocks(dsk, h) /\ LoadFreeList(new, h) = LoadFreeList(dsk, h)
  BY <1>1, FileFrame
<1> QED BY <1>1, <1>2 DEF Loadable, Whole

LEMMA LoadableFacts ==
    ASSUME NEW dsk, NEW h, NEW lk, Loadable(dsk, h, lk)
    PROVE  /\ h \in Header /\ GoodFile(dsk, h)
           /\ LoadTables(dsk, h) \in TablesType /\ Distinct(LoadTables(dsk, h))
           /\ FileBlocks(dsk, h) = MetaBlocks(dsk, h) \cup AllBlocks(LoadTables(dsk, h))
           /\ MetaBlocks(dsk, h) \cap AllBlocks(LoadTables(dsk, h)) = {}
           /\ FileBlocks(dsk, h) \cap LoadFreeList(dsk, h) = {}
           /\ FileBlocks(dsk, h) \subseteq InFile(h) /\ LoadFreeList(dsk, h) \subseteq InFile(h)
           /\ Saved(LoadTables(dsk, h), dsk)
           /\ Readable(dsk, h)
           /\ ~lk => InFile(h) = FileBlocks(dsk, h) \cup LoadFreeList(dsk, h)
<1>1. h \in Header /\ FreeListOK(dsk, h) /\ MetaOK(dsk, h) /\ ApartOK(dsk, h) /\ GoodFile(dsk, h)
  BY DEF Loadable, GoodFile
<1>2. ~lk => InFile(h) = FileBlocks(dsk, h) \cup LoadFreeList(dsk, h)
  BY DEF Loadable, Whole
<1> QED BY <1>1, <1>2, LoadedFile DEF ApartOK

(***************************************************************************)
(* What commits do to the blocks of tables.                                *)
(***************************************************************************)
Released(ts, c) ==
    CASE c.op = "append" -> ConvertedBlock(ts[c.table])
      [] c.op = "update" -> {}
      [] c.op = "drop"   -> TableBlocks(ts[c.table])

Rows == Seq(Segment) \ {<<>>}
LEMMA RowsFacts ==
    ASSUME NEW table \in Rows
    PROVE  /\ table # Absent /\ Len(table) \in Nat /\ Len(table) >= 1 /\ DOMAIN table = 1 .. Len(table)
           /\ \A i \in DOMAIN table : table[i] \in Segment
           /\ Last(table) = table[Len(table)]
<1>1. table # Absent
  BY DurabilityAssumption DEF Rows
<1>2. table \in Seq(Segment) /\ table # <<>>
  BY DEF Rows
<1>3. Len(table) \in Nat /\ Len(table) >= 1 /\ DOMAIN table = 1 .. Len(table)
  BY <1>2
<1> QED BY <1>1, <1>2, <1>3, ElementOfSeq DEF Last

LEMMA BagTypes ==
    /\ NoRows \in Bag
    /\ \A r \in Bag, n \in Commits : With(r, n) \in Bag
    /\ \A r \in Bag : TransientSegment(r) \in Segment /\ TransientSegment(r).block = INVALID_BLOCK
                      /\ TransientSegment(r).rows = r
  BY DEF NoRows, Bag, With, TransientSegment, Segment

\* The end of a table becomes a copy in memory.
LEMMA ConvertedFacts ==
    ASSUME NEW table \in Rows
    PROVE  /\ Converted(table) \in Rows
           /\ Len(Converted(table)) = Len(table)
           /\ ~EndsPersistent(Converted(table))
           /\ \A i \in DOMAIN table : Converted(table)[i] =
                IF i = Len(table) /\ EndsPersistent(table) THEN TransientSegment(table[i].rows) ELSE table[i]
           /\ EndsPersistent(table) => ConvertedBlock(table) = {table[Len(table)].block}
                                       /\ table[Len(table)].block # INVALID_BLOCK
           /\ ~EndsPersistent(table) => ConvertedBlock(table) = {}
           /\ DOMAIN Converted(table) = DOMAIN table
<1>1. /\ table # Absent /\ Len(table) \in Nat /\ Len(table) >= 1 /\ DOMAIN table = 1 .. Len(table)
      /\ \A i \in DOMAIN table : table[i] \in Segment
      /\ Last(table) = table[Len(table)]
  BY RowsFacts
<1>2. CASE ~EndsPersistent(table)
  BY <1>1, <1>2 DEF Converted, ConvertedBlock
<1>3. CASE EndsPersistent(table)
  <2> DEFINE new == [table EXCEPT ![Len(table)] = TransientSegment(table[Len(table)].rows)]
  <2>1. Converted(table) = new
    BY <1>3 DEF Converted
  <2>2. table[Len(table)] \in Segment /\ table[Len(table)].rows \in Bag
    BY <1>1 DEF Segment
  <2>3. TransientSegment(table[Len(table)].rows) \in Segment
    BY <2>2, BagTypes
  <2>4. table \in Seq(Segment)
    BY DEF Rows
  <2>5. new \in Seq(Segment) /\ Len(new) = Len(table) /\ DOMAIN new = DOMAIN table
    BY <1>1, <2>3, <2>4, ExceptSeq
  <2>6. new \in Rows
    BY <1>1, <2>5 DEF Rows
  <2>7. \A i \in DOMAIN table : new[i] = IF i = Len(table) THEN TransientSegment(table[i].rows) ELSE table[i]
    BY <1>1
  <2> HIDE DEF new
  <2>8. Last(new) = new[Len(table)]
    BY <2>5 DEF Last
  <2>9. Len(table) \in DOMAIN table
    BY <1>1
  <2>10. new[Len(table)] = TransientSegment(table[Len(table)].rows)
    BY <2>7, <2>9
  <2>11. ~EndsPersistent(new)
    BY <2>8, <2>10, <2>2, BagTypes DEF EndsPersistent, IsPersistent
  <2>12. ConvertedBlock(table) = {table[Len(table)].block} /\ table[Len(table)].block # INVALID_BLOCK
    BY <1>1, <1>3 DEF ConvertedBlock, EndsPersistent, IsPersistent
  <2> QED BY <1>3, <2>1, <2>5, <2>6, <2>7, <2>11, <2>12
<1> QED BY <1>2, <1>3

\* What an append leaves.
LEMMA AppendedFacts ==
    ASSUME NEW table \in Rows \cup {Absent}, NEW n \in Commits
    PROVE  /\ Appended(table, n) \in Rows
           /\ table = Absent => Appended(table, n) = <<TransientSegment(With(NoRows, n))>>
           /\ table # Absent =>
                /\ Len(Appended(table, n)) = Len(table) + 1
                /\ Appended(table, n)[Len(table) + 1] = TransientSegment(With(NoRows, n))
                /\ \A i \in DOMAIN table : Appended(table, n)[i] = Converted(table)[i]
<1> DEFINE s == TransientSegment(With(NoRows, n))
<1>1. s \in Segment
  BY BagTypes
<1> HIDE DEF s
<1>2. CASE table = Absent
  <2>1. Appended(table, n) = Append(<<>>, s)
    BY <1>2 DEF Appended, s
  <2>2. Append(<<>>, s) = <<s>>
    OBVIOUS
  <2>3. <<s>> \in Rows
    BY <1>1 DEF Rows
  <2> QED BY <1>2, <2>1, <2>2, <2>3 DEF s
<1>3. CASE table # Absent
  <2>1. table \in Rows
    BY <1>3
  <2>2. Converted(table) \in Seq(Segment) /\ Len(Converted(table)) = Len(table) /\ DOMAIN Converted(table) = DOMAIN table
    BY <2>1, ConvertedFacts DEF Rows
  <2>3. Appended(table, n) = Append(Converted(table), s)
    BY <1>3 DEF Appended, s
  <2>4. /\ Append(Converted(table), s) \in Seq(Segment)
        /\ Append(Converted(table), s) # <<>>
        /\ Len(Append(Converted(table), s)) = Len(Converted(table)) + 1
        /\ \A i \in 1 .. Len(Converted(table)) : Append(Converted(table), s)[i] = Converted(table)[i]
        /\ Append(Converted(table), s)[Len(Converted(table)) + 1] = s
    BY <1>1, <2>2, AppendProperties
  <2>5. DOMAIN table = 1 .. Len(table)
    BY <2>1, RowsFacts
  <2> QED BY <1>3, <2>2, <2>3, <2>4, <2>5 DEF Rows, s
<1> QED BY <1>2, <1>3

\* An update stays in memory.
LEMMA UpdatedFacts ==
    ASSUME NEW table \in Rows, NEW n \in Commits
    PROVE  /\ Updated(table, n) \in Rows
           /\ Len(Updated(table, n)) = Len(table)
           /\ \A i \in DOMAIN table : /\ Updated(table, n)[i].block = table[i].block
                                      /\ Updated(table, n)[i].saved = table[i].saved
                                      /\ Updated(table, n)[i].rows = IF i = 1 THEN With(table[1].rows, n) ELSE table[i].rows
           /\ DOMAIN Updated(table, n) = DOMAIN table
<1>1. /\ table # Absent /\ Len(table) \in Nat /\ Len(table) >= 1 /\ DOMAIN table = 1 .. Len(table)
      /\ \A i \in DOMAIN table : table[i] \in Segment
  BY RowsFacts
<1> DEFINE s == [table[1] EXCEPT !.rows = With(table[1].rows, n)]
<1>2. Updated(table, n) = [table EXCEPT ![1] = s]
  BY DEF Updated
<1>3. table[1] \in Segment
  BY <1>1
<1>4. With(table[1].rows, n) \in Bag
  BY <1>3, BagTypes DEF Segment
<1>5. s \in Segment /\ s.block = table[1].block /\ s.saved = table[1].saved /\ s.rows = With(table[1].rows, n)
  BY <1>3, <1>4 DEF Segment
<1> HIDE DEF s
<1>6. table \in Seq(Segment)
  BY DEF Rows
<1>7. [table EXCEPT ![1] = s] \in Seq(Segment) /\ Len([table EXCEPT ![1] = s]) = Len(table)
      /\ DOMAIN [table EXCEPT ![1] = s] = DOMAIN table
  BY <1>1, <1>5, <1>6, ExceptSeq
<1>8. \A i \in DOMAIN table : [table EXCEPT ![1] = s][i] = IF i = 1 THEN s ELSE table[i]
  OBVIOUS
<1> QED BY <1>1, <1>2, <1>5, <1>7, <1>8 DEF Rows

\* A table keeps the blocks of old but those in R, each at its place.
Has(table, i, b) == table # Absent /\ i \in DOMAIN table /\ table[i].block = b /\ b # INVALID_BLOCK
Gives(new, old, R) ==
    /\ \A i, b : Has(new, i, b) => Has(old, i, b) /\ new[i].saved = old[i].saved
    /\ \A i, b : Has(old, i, b) => b \in R \/ Has(new, i, b)
    /\ \A b \in R : \E i : Has(old, i, b) /\ ~Has(new, i, b)

Put(ts, t, table) == [ts EXCEPT ![t] = table]
LEMMA ReplaceTable ==
    ASSUME NEW ts \in TablesType, NEW t \in Tables, NEW new \in Rows \cup {Absent}, NEW R,
           Gives(new, ts[t], R), NEW us, us = Put(ts, t, new)
    PROVE  /\ us \in TablesType
           /\ Thins(us, ts)
           /\ AllBlocks(ts) = AllBlocks(us) \cup R
           /\ R \subseteq TableBlocks(ts[t])
           /\ Distinct(ts) => AllBlocks(us) \cap R = {}
           /\ us[t] = new /\ \A u \in Tables \ {t} : us[u] = ts[u]
<1>1. us \in TablesType /\ us[t] = new /\ \A u \in Tables \ {t} : us[u] = ts[u]
  BY DEF TablesType, Rows, Put
<1>2. \A u, i, b : Uses(ts, u, i, b) <=> Has(ts[u], i, b)
  BY DEF Uses, Has
<1>3. \A u, i, b : Uses(us, u, i, b) <=> Has(us[u], i, b)
  BY DEF Uses, Has
<1>4. /\ \A i, b : Has(us[t], i, b) => Has(ts[t], i, b) /\ us[t][i].saved = ts[t][i].saved
      /\ \A i, b : Has(ts[t], i, b) => b \in R \/ Has(us[t], i, b)
      /\ \A b \in R : \E i : Has(ts[t], i, b) /\ ~Has(us[t], i, b)
  BY <1>1 DEF Gives
<1>5. Thins(us, ts)
  <2> SUFFICES ASSUME NEW u \in Tables, us[u] # Absent, NEW i \in DOMAIN us[u], IsPersistent(us[u][i])
               PROVE  /\ ts[u] # Absent /\ i \in DOMAIN ts[u]
                      /\ us[u][i].block = ts[u][i].block
                      /\ us[u][i].saved = ts[u][i].saved
    BY DEF Thins
  <2>1. CASE u # t
    BY <1>1, <2>1
  <2>2. CASE u = t
    <3>1. Has(us[t], i, us[t][i].block)
      BY <2>2 DEF Has, IsPersistent
    <3>2. Has(ts[t], i, us[t][i].block) /\ us[t][i].saved = ts[t][i].saved
      BY <3>1, <1>4
    <3> QED BY <2>2, <3>2 DEF Has
  <2> QED BY <2>1, <2>2
<1>6. R \subseteq TableBlocks(ts[t])
  BY <1>2, <1>4, BlockOf
<1>7. AllBlocks(us) \subseteq AllBlocks(ts) /\ TableBlocks(ts[t]) \subseteq AllBlocks(ts)
  BY <1>5, ThinsKeeps, BlocksOfType
<1>8. ASSUME NEW b \in AllBlocks(ts) PROVE b \in AllBlocks(us) \cup R
  <2>1. PICK u, i : u \in Tables /\ Uses(ts, u, i, b)
    BY BlockOf
  <2>2. CASE u # t
    <3>1. Uses(us, u, i, b)
      BY <1>1, <2>1, <2>2 DEF Uses
    <3> QED BY <2>1, <3>1, BlockOf
  <2>3. CASE u = t
    <3>1. b \in R \/ Uses(us, t, i, b)
      BY <1>2, <1>3, <1>4, <2>1, <2>3
    <3> QED BY <3>1, BlockOf
  <2> QED BY <2>2, <2>3
<1>9. ASSUME Distinct(ts), NEW b \in AllBlocks(us) \cap R PROVE FALSE
  <2>1. PICK u, i : u \in Tables /\ Uses(us, u, i, b)
    BY BlockOf
  <2>2. PICK j : Has(ts[t], j, b) /\ ~Has(us[t], j, b)
    BY <1>4
  <2>3. Uses(ts, u, i, b) /\ Uses(ts, t, j, b)
    BY <1>2, <1>5, <2>1, <2>2, ThinsUses
  <2>4. u = t /\ i = j
    BY <1>9, <2>1, <2>3, DistinctUses
  <2> QED BY <1>3, <2>1, <2>2, <2>4
<1> QED BY <1>1, <1>5, <1>6, <1>7, <1>8, <1>9

LEMMA NothingGiven == ASSUME NEW table PROVE Gives(table, table, {})
  BY DEF Gives

LEMMA ConvertedGives ==
    ASSUME NEW table \in Rows \cup {Absent}
    PROVE  /\ Gives(Converted(table), table, ConvertedBlock(table))
           /\ Converted(table) \in Rows \cup {Absent}
           /\ ~EndsPersistent(Converted(table))
           /\ table = Absent => Converted(table) = Absent
           /\ table # Absent => Converted(table) # Absent /\ Len(Converted(table)) = Len(table)
<1>1. CASE table = Absent
  <2>1. ~EndsPersistent(table)
    BY <1>1 DEF EndsPersistent
  <2>2. Converted(table) = table /\ ConvertedBlock(table) = {}
    BY <2>1 DEF Converted, ConvertedBlock
  <2> QED BY <1>1, <2>1, <2>2, NothingGiven
<1>2. CASE table # Absent
  <2>1. /\ table # Absent /\ Len(table) \in Nat /\ Len(table) >= 1 /\ DOMAIN table = 1 .. Len(table)
        /\ \A i \in DOMAIN table : table[i] \in Segment
    BY <1>2, RowsFacts
  <2>2. /\ Converted(table) \in Rows
        /\ Len(Converted(table)) = Len(table)
        /\ ~EndsPersistent(Converted(table))
        /\ \A i \in DOMAIN table : Converted(table)[i] =
             IF i = Len(table) /\ EndsPersistent(table) THEN TransientSegment(table[i].rows) ELSE table[i]
        /\ EndsPersistent(table) => ConvertedBlock(table) = {table[Len(table)].block}
                                    /\ table[Len(table)].block # INVALID_BLOCK
        /\ ~EndsPersistent(table) => ConvertedBlock(table) = {}
        /\ DOMAIN Converted(table) = DOMAIN table
    BY <1>2, ConvertedFacts
  <2>3. Converted(table) # Absent
    BY <2>2, RowsFacts
  <2>4. CASE ~EndsPersistent(table)
    <3>1. Converted(table) = table
      BY <2>4 DEF Converted
    <3> QED BY <1>2, <2>2, <2>3, <2>4, <3>1, NothingGiven
  <2>5. CASE EndsPersistent(table)
    <3>1. \A i \in DOMAIN table : i # Len(table) => Converted(table)[i] = table[i]
      BY <2>2
    <3>2. Len(table) \in DOMAIN table
      BY <2>1
    <3>3. table[Len(table)].rows \in Bag
      BY <2>1, <3>2 DEF Segment
    <3>4. Converted(table)[Len(table)].block = INVALID_BLOCK
      BY <2>2, <2>5, <3>2, <3>3, BagTypes
    <3>5. ASSUME NEW i, NEW b, Has(Converted(table), i, b)
          PROVE  Has(table, i, b) /\ Converted(table)[i].saved = table[i].saved
      BY <1>2, <2>2, <3>1, <3>4, <3>5 DEF Has
    <3>6. ASSUME NEW i, NEW b, Has(table, i, b) PROVE b \in ConvertedBlock(table) \/ Has(Converted(table), i, b)
      BY <2>2, <2>3, <2>5, <3>1, <3>6 DEF Has
    <3>7. ASSUME NEW b \in ConvertedBlock(table) PROVE \E i : Has(table, i, b) /\ ~Has(Converted(table), i, b)
      <4>1. Has(table, Len(table), b) /\ ~Has(Converted(table), Len(table), b)
        BY <1>2, <2>2, <2>5, <3>2, <3>4 DEF Has
      <4> QED BY <4>1
    <3>8. Gives(Converted(table), table, ConvertedBlock(table))
      BY <3>5, <3>6, <3>7 DEF Gives
    <3> QED BY <1>2, <2>2, <2>3, <3>8
  <2> QED BY <2>4, <2>5
<1> QED BY <1>1, <1>2

\* What a commit does to its table.
LEMMA ChangedTable ==
    ASSUME NEW ts \in TablesType, NEW c \in Commit, CanApply(ts, c)
    PROVE  \E new \in Rows \cup {Absent} :
             Applied(ts, c) = [ts EXCEPT ![c.table] = new] /\ Gives(new, ts[c.table], Released(ts, c))
<1> DEFINE old == ts[c.table]
<1>1. c.table \in Tables /\ c.number \in Commits /\ c.op \in {"append", "update", "drop"}
  BY DEF Commit
<1>2. old \in Rows \cup {Absent}
  BY <1>1 DEF TablesType, Rows
<1>3. CASE c.op = "append"
  <2> DEFINE new == Appended(old, c.number)
  <2>1. Applied(ts, c) = [ts EXCEPT ![c.table] = new] /\ Released(ts, c) = ConvertedBlock(old)
    BY <1>3 DEF Applied, Released
  <2>2. new \in Rows
    BY <1>1, <1>2, AppendedFacts
  <2>3. Gives(new, old, ConvertedBlock(old))
    <3>1. TransientSegment(With(NoRows, c.number)).block = INVALID_BLOCK
      BY <1>1, BagTypes
    <3>2. CASE old = Absent
      <4>1. new = <<TransientSegment(With(NoRows, c.number))>>
        BY <1>1, <1>2, <3>2, AppendedFacts
      <4> HIDE DEF new
      <4>2. \A i, b : ~Has(new, i, b)
        BY <4>1, <3>1 DEF Has
      <4>3. ConvertedBlock(old) = {}
        BY <3>2 DEF ConvertedBlock, EndsPersistent
      <4>4. \A i, b : ~Has(old, i, b)
        BY <3>2 DEF Has
      <4> QED BY <4>2, <4>3, <4>4 DEF Gives
    <3>3. CASE old # Absent
      <4>1. /\ Len(new) = Len(old) + 1
            /\ new[Len(old) + 1] = TransientSegment(With(NoRows, c.number))
            /\ \A i \in DOMAIN old : new[i] = Converted(old)[i]
        BY <1>1, <1>2, <3>3, AppendedFacts
      <4>2. Gives(Converted(old), old, ConvertedBlock(old)) /\ Converted(old) # Absent
        BY <1>2, ConvertedGives, <3>3
      <4>3. DOMAIN Converted(old) = DOMAIN old /\ DOMAIN old = 1 .. Len(old) /\ Len(old) \in Nat
        BY <1>2, <3>3, ConvertedFacts, RowsFacts
      <4>4. DOMAIN new = 1 .. Len(new) /\ new # Absent
        BY <2>2, RowsFacts
      <4> HIDE DEF new, old
      <4>5. \A i, b : Has(new, i, b) <=> Has(Converted(old), i, b)
        <5> SUFFICES ASSUME NEW i, NEW b PROVE Has(new, i, b) <=> Has(Converted(old), i, b)
          OBVIOUS
        <5>1. CASE i \in DOMAIN old
          <6>1. new[i] = Converted(old)[i] /\ i \in DOMAIN new
            BY <5>1, <4>1, <4>3, <4>4
          <6> QED BY <5>1, <6>1, <4>2, <4>3, <4>4 DEF Has
        <5>2. CASE i \notin DOMAIN old
          <6>1. i \in DOMAIN new => i = Len(old) + 1
            BY <5>2, <4>1, <4>3, <4>4
          <6>2. ~Has(new, i, b)
            BY <6>1, <4>1, <3>1 DEF Has
          <6> QED BY <5>2, <6>2, <4>3 DEF Has
        <5> QED BY <5>1, <5>2
      <4>6. \A i, b : Has(Converted(old), i, b) => new[i] = Converted(old)[i]
        BY <4>1, <4>3 DEF Has
      <4> QED BY <4>2, <4>5, <4>6 DEF Gives
    <3> QED BY <3>2, <3>3
  <2> QED BY <2>1, <2>2, <2>3
<1>4. CASE c.op = "update"
  <2> DEFINE new == Updated(old, c.number)
  <2>1. Applied(ts, c) = [ts EXCEPT ![c.table] = new] /\ Released(ts, c) = {}
    BY <1>4 DEF Applied, Released
  <2>2. old \in Rows
    BY <1>2, <1>4 DEF CanApply
  <2>3. /\ new \in Rows
        /\ \A i \in DOMAIN old : new[i].block = old[i].block /\ new[i].saved = old[i].saved
        /\ DOMAIN new = DOMAIN old
    BY <1>1, <2>2, UpdatedFacts
  <2>4. new # Absent /\ old # Absent
    BY <2>2, <2>3, RowsFacts
  <2> HIDE DEF new, old
  <2>5. Gives(new, old, {})
    BY <2>3, <2>4 DEF Gives, Has
  <2> QED BY <2>1, <2>3, <2>5 DEF old
<1>5. CASE c.op = "drop"
  <2>1. Applied(ts, c) = [ts EXCEPT ![c.table] = Absent] /\ Released(ts, c) = TableBlocks(old)
    BY <1>5 DEF Applied, Released
  <2>2. \A b : b \in TableBlocks(old) <=> \E i : Has(old, i, b)
    BY DEF TableBlocks, Has
  <2>3. \A i, b : ~Has(Absent, i, b)
    BY DEF Has
  <2> HIDE DEF old
  <2>4. Gives(Absent, old, TableBlocks(old))
    BY <2>2, <2>3 DEF Gives
  <2> QED BY <2>1, <2>4 DEF old
<1> QED BY <1>1, <1>3, <1>4, <1>5

LEMMA AppliedFacts ==
    ASSUME NEW ts \in TablesType, NEW c \in Commit, CanApply(ts, c), NEW us, us = Applied(ts, c)
    PROVE  /\ us \in TablesType
           /\ Thins(us, ts)
           /\ AllBlocks(ts) = AllBlocks(us) \cup Released(ts, c)
           /\ Released(ts, c) \subseteq TableBlocks(ts[c.table])
           /\ Distinct(ts) => AllBlocks(us) \cap Released(ts, c) = {} /\ Distinct(us)
           /\ \A u \in Tables \ {c.table} : us[u] = ts[u]
           /\ Released(ts, c) \subseteq AllBlocks(ts)
<1>1. PICK new \in Rows \cup {Absent} : us = [ts EXCEPT ![c.table] = new] /\ Gives(new, ts[c.table], Released(ts, c))
  BY ChangedTable
<1>2. c.table \in Tables
  BY DEF Commit
<1>3. /\ us \in TablesType
      /\ Thins(us, ts)
      /\ AllBlocks(ts) = AllBlocks(us) \cup Released(ts, c)
      /\ Released(ts, c) \subseteq TableBlocks(ts[c.table])
      /\ Distinct(ts) => AllBlocks(us) \cap Released(ts, c) = {}
      /\ us[c.table] = new /\ \A u \in Tables \ {c.table} : us[u] = ts[u]
  <2> DEFINE tb == c.table
             R == Released(ts, c)
  <2>1. tb \in Tables /\ us = Put(ts, tb, new) /\ Gives(new, ts[tb], R)
    BY <1>1, <1>2 DEF Put
  <2> HIDE DEF tb, R
  <2>2. /\ us \in TablesType
        /\ Thins(us, ts)
        /\ AllBlocks(ts) = AllBlocks(us) \cup R
        /\ R \subseteq TableBlocks(ts[tb])
        /\ Distinct(ts) => AllBlocks(us) \cap R = {}
        /\ us[tb] = new /\ \A u \in Tables \ {tb} : us[u] = ts[u]
    BY ONLY <2>1, ts \in TablesType, new \in Rows \cup {Absent}, ReplaceTable
  <2> QED BY <2>2 DEF tb, R
<1> QED BY <1>3, ThinsKeeps

(***************************************************************************)
(* The replay of the log.                                                  *)
(***************************************************************************)
\* f is the recursive function of ReplayEntries up to n.
Replays(f, ts, lg, n) ==
    f = [i \in 0 .. n |-> IF i = 0 THEN ReplayStart(ts) ELSE ReplayEntry(f[i - 1], lg[i])]

\* The recursion defines a function.
LEMMA ReplaysExists ==
    ASSUME NEW ts, NEW lg, NEW n \in Nat
    PROVE  \E f : Replays(f, ts, lg, n)
<1> DEFINE T == {m \in Nat : ~\E f : Replays(f, ts, lg, m)}
<1> SUFFICES ASSUME T # {} PROVE FALSE
  OBVIOUS
<1>1. PICK m \in T : \A k \in T : m <= k
  BY NatMin
<1>2. Replays([k \in 0..0 |-> ReplayStart(ts)], ts, lg, 0)
  BY DEF Replays
<1>3. m # 0
  BY <1>2
<1>4. m - 1 \in Nat /\ m - 1 \notin T
  BY <1>1, <1>3
<1>5. PICK f : Replays(f, ts, lg, m - 1)
  BY <1>4
<1> DEFINE g == [k \in 0..m |-> IF k = m THEN ReplayEntry(f[m - 1], lg[m]) ELSE f[k]]
<1>6. \A k \in 0..(m - 1) : f[k] = IF k = 0 THEN ReplayStart(ts) ELSE ReplayEntry(f[k - 1], lg[k])
  BY <1>5 DEF Replays
<1>7. g[m] = ReplayEntry(g[m - 1], lg[m])
  BY <1>3, <1>4
<1>8. \A k \in 0..(m - 1) : g[k] = IF k = 0 THEN ReplayStart(ts) ELSE ReplayEntry(g[k - 1], lg[k])
  BY <1>3, <1>4, <1>6
<1>9. \A k \in 0..m : g[k] = IF k = 0 THEN ReplayStart(ts) ELSE ReplayEntry(g[k - 1], lg[k])
  <2> TAKE k \in 0..m
  <2>1. CASE k = m
    BY <2>1, <1>7, <1>3
  <2>2. CASE k # m
    <3>1. k \in 0..(m - 1)
      BY <2>2, <1>4
    <3> QED BY <3>1, <1>8
  <2> QED BY <2>1, <2>2
<1>10. Replays(g, ts, lg, m)
  <2>1. g = [k \in 0..m |-> g[k]]
    OBVIOUS
  <2> HIDE DEF g
  <2> QED BY <2>1, <1>9 DEF Replays
<1> QED BY <1>10

LEMMA ReplayIs ==
    ASSUME NEW ts, NEW S, NEW lg \in Seq(S)
    PROVE  \E f : Replays(f, ts, lg, Len(lg)) /\ ReplayEntries(ts, lg) = f[Len(lg)]
<1>1. Len(lg) \in Nat
  OBVIOUS
<1> DEFINE k == CHOOSE f : Replays(f, ts, lg, Len(lg))
<1>2. Replays(k, ts, lg, Len(lg))
  BY <1>1, ReplaysExists
<1>3. ReplayEntries(ts, lg) = k[Len(lg)]
  BY DEF ReplayEntries, Replays
<1> QED BY <1>2, <1>3

LEMMA ThinsChain ==
    ASSUME NEW a, NEW b, NEW c, Thins(a, b), Thins(b, c)
    PROVE  Thins(a, c)
  BY DEF Thins, IsPersistent
LEMMA ThinsSelf == ASSUME NEW a PROVE Thins(a, a)
  BY DEF Thins

\* What a replay from the tables ts keeps.
ReplayKeeps(st, ts) ==
    /\ st \in [tables : TablesType, modified : SUBSET AllBlocks(ts), stopped : BOOLEAN]
    /\ Thins(st.tables, ts)
    /\ st.modified \cap AllBlocks(st.tables) = {}

LEMMA EntryKeeps ==
    ASSUME NEW ts \in TablesType, Distinct(ts), NEW st, ReplayKeeps(st, ts), NEW rec \in Record
    PROVE  ReplayKeeps(ReplayEntry(st, rec), ts)
<1>1. CASE st.stopped \/ rec.type = "checkpoint"
  BY <1>1 DEF ReplayEntry
<1>2. CASE ~(st.stopped \/ rec.type = "checkpoint")
  <2> DEFINE c == rec.commit
  <2>1. c \in Commit
    BY <1>2 DEF Record
  <2>2. CASE ~CanApply(st.tables, c)
    <3>1. ReplayEntry(st, rec) = [st EXCEPT !.stopped = TRUE]
      BY <1>2, <2>2 DEF ReplayEntry
    <3> QED BY <3>1 DEF ReplayKeeps
  <2>3. CASE CanApply(st.tables, c)
    <3> DEFINE us == Applied(st.tables, c)
               more == IF c.op = "append" THEN ConvertedBlock(st.tables[c.table]) ELSE {}
    <3>1. ReplayEntry(st, rec) = [st EXCEPT !.tables = us, !.modified = @ \cup more]
      BY <1>2, <2>3 DEF ReplayEntry, ReplayKeeps
    <3>2. st.tables \in TablesType /\ Distinct(st.tables) /\ AllBlocks(st.tables) \subseteq AllBlocks(ts)
      BY ThinsKeeps DEF ReplayKeeps
    <3>3. /\ us \in TablesType
          /\ Thins(us, st.tables)
          /\ AllBlocks(st.tables) = AllBlocks(us) \cup Released(st.tables, c)
          /\ AllBlocks(us) \cap Released(st.tables, c) = {}
      BY <2>1, <2>3, <3>2, AppliedFacts
    <3>4. more \subseteq Released(st.tables, c)
      BY DEF Released
    <3>5. Thins(us, ts)
      BY <3>3, ThinsChain DEF ReplayKeeps
    <3> HIDE DEF us, more, c
    <3> QED BY <3>1, <3>2, <3>3, <3>4, <3>5 DEF ReplayKeeps
  <2> QED BY <2>2, <2>3
<1> QED BY <1>1, <1>2

LEMMA StartKeeps == ASSUME NEW ts \in TablesType PROVE ReplayKeeps(ReplayStart(ts), ts)
  BY ThinsSelf DEF ReplayKeeps, ReplayStart

LEMMA EntriesKeep ==
    ASSUME NEW ts \in TablesType, Distinct(ts), NEW lg \in Seq(Record)
    PROVE  ReplayKeeps(ReplayEntries(ts, lg), ts)
<1>1. PICK f : Replays(f, ts, lg, Len(lg)) /\ ReplayEntries(ts, lg) = f[Len(lg)]
  BY ReplayIs
<1>2. \A k \in 0 .. Len(lg) : f[k] = IF k = 0 THEN ReplayStart(ts) ELSE ReplayEntry(f[k - 1], lg[k])
  BY <1>1 DEF Replays
<1> DEFINE T == {m \in 0 .. Len(lg) : ~ReplayKeeps(f[m], ts)}
<1>3. ASSUME T # {} PROVE FALSE
  <2>1. PICK m \in T : \A k \in T : m <= k
    <3>1. T \subseteq Nat
      OBVIOUS
    <3> HIDE DEF T
    <3> QED BY <1>3, <3>1, NatMin
  <2>2. m # 0
    <3>1. f[0] = ReplayStart(ts)
      BY <1>2
    <3> QED BY <2>1, <3>1, StartKeeps
  <2>3. m - 1 \in 0 .. Len(lg) /\ m - 1 \notin T /\ m \in 1 .. Len(lg)
    BY <2>1, <2>2
  <2>4. ReplayKeeps(f[m - 1], ts)
    BY <2>3
  <2>5. lg[m] \in Record
    BY <2>3
  <2>6. f[m] = ReplayEntry(f[m - 1], lg[m])
    BY <1>2, <2>1, <2>2
  <2>7. ReplayKeeps(f[m], ts)
    BY <2>4, <2>5, <2>6, EntryKeeps
  <2> QED BY <2>1, <2>7
<1>4. Len(lg) \in 0 .. Len(lg)
  OBVIOUS
<1> QED BY <1>1, <1>3, <1>4

LEMMA NotTorn ==
    ASSUME NEW lg \in Seq(Record \cup {Torn}), ~Corrupt(lg)
    PROVE  lg \in Seq(Record)
<1>1. \A i \in 1 .. Len(lg) : lg[i] \in Record
  BY DEF Corrupt, Range
<1> QED BY <1>1

LEMMA ReplayResult ==
    ASSUME NEW ts \in TablesType, Distinct(ts), NEW lg \in Seq(Record \cup {Torn}), NEW h
    PROVE  ReplayKeeps(Replay(ts, h, lg), ts)
  BY StartKeeps, NotTorn, EntriesKeep DEF Replay

(***************************************************************************)
(* The initial state.                                                      *)
(***************************************************************************)
LEMMA InitBlocks == Init => BlockInv
<1> SUFFICES ASSUME Init PROVE BlockInv
  OBVIOUS
<1>1. MaxBlocks \in Nat
  BY DurabilityAssumption
<1>2. NoHeader \in Header /\ NoHeader.block_count = 0 /\ NoHeader.meta_block = INVALID_BLOCK
      /\ NoHeader.free_list = INVALID_BLOCK /\ NoHeader.iteration = 0
  BY <1>1 DEF NoHeader, Header
<1>3. header \in [{0, 1} -> Header] /\ header[0] = NoHeader /\ header[1] = NoHeader /\ Newest(header) = 1
      /\ Top(header) = NoHeader
  BY <1>2 DEF Init, Newest, Top
<1>4. MetaOK(disk, NoHeader) /\ FreeListOK(disk, NoHeader) /\ LoadFreeList(disk, NoHeader) = {}
  BY <1>2 DEF MetaOK, FreeListOK, LoadFreeList
<1>5. /\ LoadTables(disk, NoHeader) = Absents
      /\ MetaBlocks(disk, NoHeader) = {} /\ FileBlocks(disk, NoHeader) = {}
      /\ AllBlocks(LoadTables(disk, NoHeader)) = {}
  <2>1. {NoHeader.free_list, NoHeader.meta_block} \ {INVALID_BLOCK} = {}
    BY <1>2
  <2> QED BY <1>2, <1>4, <2>1, EmptyFile
<1>6. \A t \in Tables : Absents[t] = Absent
  BY DEF Absents
<1>7. Distinct(Absents) /\ Saved(Absents, disk) /\ AllBlocks(Absents) = {}
      /\ \A t \in Tables : TableBlocks(Absents[t]) = {}
  BY <1>5, <1>6 DEF Distinct, Saved, TableBlocks
<1>8. Loadable(disk, NoHeader, FALSE)
  <2>1. GoodFile(disk, NoHeader)
    BY <1>2, <1>4, <1>5, <1>7 DEF GoodFile, ApartOK
  <2>2. Whole(disk, NoHeader)
    BY <1>2, <1>4, <1>5 DEF Whole, InFile
  <2> QED BY <2>1, <2>2 DEF Loadable
<1>9. Absents \in TablesType
  BY DEF Absents, TablesType
<1>10. NoCheckpoint \in CheckpointType /\ NoCheckpoint.done = [t \in Tables |-> 0]
  BY <1>2 DEF NoCheckpoint, CheckpointType
<1>11. TypeInv
  <2>1. IsDisk(disk) /\ IsDisk(stable)
    BY DEF Init, IsDisk
  <2>2. log \in log_images /\ log_images \subseteq Seq(Record \cup {Torn})
    BY DEF Init
  <2>3. pc \in Places /\ header \in [{0, 1} -> Header] /\ stable_header \in [{0, 1} -> Header]
    BY <1>3 DEF Init, Places
  <2>4. /\ free_list \subseteq Blocks /\ modified_blocks \subseteq Blocks
        /\ max_block \in 0 .. MaxBlocks
        /\ active_header \in {0, 1}
        /\ iteration_count \in Nat
        /\ numbers \in Nat
    BY <1>1 DEF Init
  <2>6. leaked \in BOOLEAN
    BY DEF Init
  <2>5. tables \in TablesType /\ checkpoint \in CheckpointType
        /\ (pc \notin Allocated => checkpoint.done = [t \in Tables |-> 0])
    BY <1>9, <1>10 DEF Init
  <2> QED BY <2>1, <2>2, <2>3, <2>4, <2>5, <2>6 DEF TypeInv
<1>12. FlushInv /\ OwnInv /\ DoneInv /\ WrittenInv /\ SwitchInv
  BY DEF Init, FlushInv, OwnInv, DoneInv, WrittenInv, SwitchInv, Allocated, MetaWritten
<1>13. MemoryInv /\ Saved(tables, disk)
  BY <1>7 DEF Init, MemoryInv
<1>14. FileInv
  BY <1>2, <1>3, <1>5, <1>8 DEF Init, FileInv, Agree
<1>15. AccountedInv
  <2>1. AllBlocks(tables) = {} /\ InUse(max_block) = {}
    BY <1>7 DEF Init, InUse
  <2> QED BY <2>1 DEF Init, AccountedInv, Allocated
<1> QED BY <1>11, <1>12, <1>13, <1>14, <1>15 DEF BlockInv

(***************************************************************************)
(* Commits.                                                                *)
(***************************************************************************)
LEMMA LoadableWeaker ==
    ASSUME NEW dsk, NEW h, NEW lk, NEW lk2, Loadable(dsk, h, lk), lk => lk2
    PROVE  Loadable(dsk, h, lk2)
  BY DEF Loadable

\* A step that leaves the file and the free list as they are.
LEMMA SameFile ==
    ASSUME FileInv, Running, ~Switching, Running', ~Switching', leaked => leaked',
           UNCHANGED <<disk, header, stable, stable_header, active_header, iteration_count, free_list, max_block>>
    PROVE  FileInv' /\ SwitchInv'
<1>1. pc \notin {"write_header", "sync_header"} /\ pc' \notin {"write_header", "sync_header"}
  BY DEF Switching
<1>2. SwitchInv'
  BY <1>1 DEF SwitchInv
<1>3. Loadable(stable, Top(header), leaked')
  BY <1>1, LoadableWeaker DEF FileInv
<1>4. FileInv'
  BY <1>1, <1>3 DEF FileInv
<1> QED BY <1>2, <1>4

LEMMA NewCommit ==
    ASSUME BlockInv, pc = "idle", NEW op \in Operations, NEW t \in Tables, numbers < MaxCommits,
           NEW c, c = [op |-> op, table |-> t, number |-> numbers + 1], CanApply(tables, c)
    PROVE  /\ c \in Commit /\ c.table = t /\ c.op = op
           /\ ReleasedBlocks(c) = Released(tables, c)
           /\ Released(tables, c) \subseteq TableBlocks(tables[t])
           /\ TableBlocks(tables[t]) \subseteq AllBlocks(tables)
           /\ AllBlocks(tables) \cap modified_blocks = {}
           /\ numbers + 1 \in Nat
<1>1. c \in Commit /\ c.table = t /\ c.op = op /\ numbers + 1 \in Nat
  BY DurabilityAssumption DEF Commit, Commits, BlockInv, TypeInv
<1>2. ReleasedBlocks(c) = Released(tables, c)
  BY DEF ReleasedBlocks, Released
<1>3. tables \in TablesType
  BY DEF BlockInv, TypeInv
<1>4. Released(tables, c) \subseteq TableBlocks(tables[t]) /\ TableBlocks(tables[t]) \subseteq AllBlocks(tables)
  BY <1>1, <1>3, AppliedFacts, BlocksOfType
<1>5. \A u \in Tables : TableBlocks(tables[u]) \cap modified_blocks = {}
  BY DEF BlockInv, MemoryInv, Dropping
<1>6. AllBlocks(tables) \cap modified_blocks = {}
  BY <1>5 DEF AllBlocks
<1> QED BY <1>1, <1>2, <1>4, <1>6

LEMMA WriteToLogBlocks ==
    ASSUME BlockInv, NEW op \in Operations, NEW t \in Tables, WriteToLog(op, t)
    PROVE  BlockInv'
<1> DEFINE c == [op |-> op, table |-> t, number |-> numbers + 1]
<1>1. /\ pc = "idle" /\ numbers < MaxCommits /\ CanApply(tables, c)
      /\ commit' = c /\ numbers' = numbers + 1 /\ pc' = "flush"
      /\ modified_blocks' = modified_blocks \cup ReleasedBlocks(c)
      /\ tables' = IF op = "append" THEN [tables EXCEPT ![t] = Converted(@)] ELSE tables
      /\ log' = Append(log, CommitRecord(c))
      /\ log_images' = Written(CommitRecord(c))
      /\ UNCHANGED <<disk, header, stable, stable_header, free_list, max_block,
                   active_header, iteration_count, checkpoint, leaked>>
  BY DEF WriteToLog
<1>2. /\ c \in Commit /\ c.table = t /\ c.op = op
      /\ ReleasedBlocks(c) = Released(tables, c)
      /\ Released(tables, c) \subseteq TableBlocks(tables[t])
      /\ TableBlocks(tables[t]) \subseteq AllBlocks(tables)
      /\ AllBlocks(tables) \cap modified_blocks = {}
      /\ numbers + 1 \in Nat
  BY <1>1, NewCommit
<1> HIDE DEF c
<1>3. /\ tables \in TablesType /\ tables[t] \in Rows \cup {Absent}
      /\ Distinct(tables) /\ Saved(tables, disk)
      /\ AllBlocks(tables) \cap free_list = {}
      /\ free_list \cap modified_blocks = {}
      /\ free_list \cup modified_blocks \cup AllBlocks(tables) \subseteq InUse(max_block)
      /\ modified_blocks \subseteq Blocks /\ AllBlocks(tables) \subseteq Blocks
  BY BlocksOfType DEF BlockInv, TypeInv, MemoryInv, TablesType, Rows
\* What is left of the tables, and what was given back.
<1>4. /\ tables' \in TablesType /\ Thins(tables', tables)
      /\ \A u \in Tables \ {t} : tables'[u] = tables[u]
      /\ op = "drop" => tables' = tables /\ Released(tables, c) = TableBlocks(tables[t])
      /\ op # "drop" => AllBlocks(tables') \cap Released(tables, c) = {}
      /\ AllBlocks(tables) = AllBlocks(tables') \cup Released(tables, c)
      /\ CanApply(tables', c)
      /\ op = "append" => ~EndsPersistent(tables'[t])
  <2>1. CASE op = "append"
    <3>1. Released(tables, c) = ConvertedBlock(tables[t])
      BY <1>2, <2>1 DEF Released
    <3>2. tables' = Put(tables, t, Converted(tables[t]))
      BY <1>1, <2>1 DEF Put
    <3>3. Gives(Converted(tables[t]), tables[t], Released(tables, c)) /\ Converted(tables[t]) \in Rows \cup {Absent}
          /\ ~EndsPersistent(Converted(tables[t]))
      BY <1>3, <3>1, ConvertedGives
    <3> DEFINE new == Converted(tables[t])
               R == Released(tables, c)
               us == tables'
    <3>4. us = Put(tables, t, new) /\ Gives(new, tables[t], R) /\ new \in Rows \cup {Absent} /\ ~EndsPersistent(new)
      BY <3>2, <3>3
    <3> HIDE DEF new, R, us
    <3>5. /\ us \in TablesType
          /\ Thins(us, tables)
          /\ AllBlocks(tables) = AllBlocks(us) \cup R
          /\ R \subseteq TableBlocks(tables[t])
          /\ Distinct(tables) => AllBlocks(us) \cap R = {}
          /\ us[t] = new /\ \A u \in Tables \ {t} : us[u] = tables[u]
      <4>1. tables \in TablesType
        BY <1>3
      <4> QED BY ONLY <3>4, <4>1, t \in Tables, ReplaceTable
    <3>6. CanApply(tables', c)
      BY <1>2, <2>1 DEF CanApply
    <3> QED BY <1>3, <2>1, <3>4, <3>5, <3>6 DEF R, us
  <2>2. CASE op # "append"
    <3>1. tables' = tables
      BY <1>1, <2>2
    <3>2. op \in {"update", "drop"}
      BY <2>2, DurabilityAssumption
    <3>3. Released(tables, c) = IF op = "drop" THEN TableBlocks(tables[t]) ELSE {}
      BY <1>2, <3>2 DEF Released
    <3> QED BY <1>1, <1>2, <1>3, <2>2, <3>1, <3>3, ThinsSelf
  <2> QED BY <2>1, <2>2
<1>5. /\ AllBlocks(tables') \subseteq AllBlocks(tables)
      /\ \A u \in Tables : TableBlocks(tables'[u]) \subseteq TableBlocks(tables[u])
      /\ Distinct(tables') /\ Saved(tables', disk)
      /\ \A u \in Tables : TableBlocks(tables'[u]) \subseteq AllBlocks(tables')
  BY <1>3, <1>4, ThinsKeeps, BlocksOfType
<1>6. modified_blocks' = modified_blocks \cup Released(tables, c)
  BY <1>1, <1>2
<1>7. TypeInv'
  <2>1. CommitRecord(c) \in Record
    BY <1>2 DEF CommitRecord, Record
  <2>2. log \in log_images /\ log_images \subseteq Seq(Record \cup {Torn})
    BY DEF BlockInv, TypeInv
  <2>3. Append(log, CommitRecord(c)) \in Seq(Record \cup {Torn}) /\ Append(log, Torn) \in Seq(Record \cup {Torn})
    BY <2>1, <2>2
  <2>4. log' \in log_images' /\ log_images' \subseteq Seq(Record \cup {Torn})
    BY <1>1, <2>2, <2>3 DEF Written
  <2>5. modified_blocks' \subseteq Blocks
    BY <1>2, <1>3, <1>6
  <2>6. pc' \in Places /\ checkpoint.done = [u \in Tables |-> 0]
    BY <1>1 DEF Places, BlockInv, TypeInv, Allocated
  <2> QED BY <1>1, <1>2, <1>4, <2>4, <2>5, <2>6 DEF BlockInv, TypeInv
<1>8. FlushInv'
  BY <1>1, <1>2, <1>4, <1>6 DEF FlushInv
<1>9. MemoryInv'
  <2>1. AllBlocks(tables') \cap free_list' = {} /\ free_list' \cap modified_blocks' = {}
    BY <1>1, <1>2, <1>3, <1>5, <1>6
  <2>2. free_list' \cup modified_blocks' \cup AllBlocks(tables') \subseteq InUse(max_block')
    BY <1>1, <1>2, <1>3, <1>5, <1>6
  <2>3. ASSUME NEW u \in Tables PROVE TableBlocks(tables'[u]) \cap modified_blocks' = {} \/ Dropping(u)'
    <3>1. CASE op # "drop"
      <4>1. AllBlocks(tables') \cap modified_blocks' = {}
        BY <1>2, <1>4, <1>5, <1>6, <3>1
      <4> QED BY <4>1, <1>5
    <3>2. CASE op = "drop" /\ u = t
      BY <3>2, <1>1, <1>2 DEF Dropping
    <3>3. CASE op = "drop" /\ u # t
      <4>1. tables' = tables /\ Released(tables, c) = TableBlocks(tables[t])
        BY <1>4, <3>3
      <4>2. ASSUME NEW b, b \in TableBlocks(tables[u]), b \in TableBlocks(tables[t]) PROVE FALSE
        <5>1. PICK i : Uses(tables, u, i, b)
          BY <4>2, BlockOf
        <5>2. PICK j : Uses(tables, t, j, b)
          BY <4>2, BlockOf
        <5> QED BY <1>3, <3>3, <5>1, <5>2, DistinctUses
      <4>3. TableBlocks(tables[u]) \cap modified_blocks = {}
        BY <1>2, BlocksOfType, <1>3
      <4> QED BY <4>1, <4>2, <4>3, <1>6
    <3> QED BY <3>1, <3>2, <3>3
  <2> QED BY <1>5, <2>1, <2>2, <2>3 DEF MemoryInv
<1>10. Saved(tables, disk)'
  BY <1>1, <1>5
<1>11. OwnInv' /\ DoneInv' /\ WrittenInv'
  BY <1>1 DEF OwnInv, DoneInv, WrittenInv, Allocated, MetaWritten
<1>12. FileInv' /\ SwitchInv'
  BY <1>1, SameFile DEF BlockInv, Running, Switching
<1>13. AccountedInv'
  <2>1. ~leaked => InUse(max_block) = free_list \cup modified_blocks \cup AllBlocks(tables)
    BY <1>1 DEF BlockInv, AccountedInv, Running, Allocated
  <2> QED BY <1>1, <1>4, <1>6, <2>1 DEF AccountedInv, Allocated
<1> QED BY <1>7, <1>8, <1>9, <1>10, <1>11, <1>12, <1>13 DEF BlockInv

LEMMA CommitAndCheckpointBlocks ==
    ASSUME BlockInv, NEW op \in Operations, NEW t \in Tables, CommitAndCheckpoint(op, t)
    PROVE  BlockInv'
<1> DEFINE c == [op |-> op, table |-> t, number |-> numbers + 1]
<1>1. /\ pc = "idle" /\ numbers < MaxCommits /\ CanApply(tables, c)
      /\ commit' = c /\ numbers' = numbers + 1 /\ pc' = "checkpoint"
      /\ modified_blocks' = modified_blocks \cup ReleasedBlocks(c)
      /\ tables' = Applied(tables, c)
      /\ checkpoint' = [checkpoint EXCEPT !.reason = "commit"]
      /\ UNCHANGED <<disk, header, log, stable, stable_header, log_images, free_list, max_block,
                   active_header, iteration_count, leaked>>
  BY DEF CommitAndCheckpoint, files
<1>2. /\ c \in Commit /\ c.table = t /\ c.op = op
      /\ ReleasedBlocks(c) = Released(tables, c)
      /\ Released(tables, c) \subseteq TableBlocks(tables[t])
      /\ TableBlocks(tables[t]) \subseteq AllBlocks(tables)
      /\ AllBlocks(tables) \cap modified_blocks = {}
      /\ numbers + 1 \in Nat
  BY <1>1, NewCommit
<1> HIDE DEF c
<1>3. /\ tables \in TablesType
      /\ Distinct(tables) /\ Saved(tables, disk)
      /\ AllBlocks(tables) \cap free_list = {}
      /\ free_list \cap modified_blocks = {}
      /\ free_list \cup modified_blocks \cup AllBlocks(tables) \subseteq InUse(max_block)
      /\ modified_blocks \subseteq Blocks /\ AllBlocks(tables) \subseteq Blocks
  BY BlocksOfType DEF BlockInv, TypeInv, MemoryInv
<1>4. /\ tables' \in TablesType /\ Thins(tables', tables)
      /\ AllBlocks(tables') \cap Released(tables, c) = {}
      /\ AllBlocks(tables) = AllBlocks(tables') \cup Released(tables, c)
  BY <1>1, <1>2, <1>3, AppliedFacts
<1>5. /\ AllBlocks(tables') \subseteq AllBlocks(tables)
      /\ Distinct(tables') /\ Saved(tables', disk)
      /\ \A u \in Tables : TableBlocks(tables'[u]) \subseteq AllBlocks(tables')
  BY <1>3, <1>4, ThinsKeeps, BlocksOfType
<1>6. modified_blocks' = modified_blocks \cup Released(tables, c)
  BY <1>1, <1>2
<1>7. TypeInv'
  <2>1. modified_blocks' \subseteq Blocks
    BY <1>2, <1>3, <1>6
  <2>2. pc' \in Places /\ checkpoint.done = [u \in Tables |-> 0] /\ checkpoint \in CheckpointType
    BY <1>1 DEF Places, BlockInv, TypeInv, Allocated
  <2>3. checkpoint' \in CheckpointType /\ checkpoint'.done = checkpoint.done
    BY <1>1, <2>2 DEF CheckpointType
  <2> QED BY <1>1, <1>2, <1>4, <2>1, <2>2, <2>3 DEF BlockInv, TypeInv
<1>8. FlushInv'
  BY <1>1 DEF FlushInv
<1>9. MemoryInv'
  <2>1. AllBlocks(tables') \cap free_list' = {} /\ free_list' \cap modified_blocks' = {}
    BY <1>1, <1>2, <1>3, <1>5, <1>6
  <2>2. free_list' \cup modified_blocks' \cup AllBlocks(tables') \subseteq InUse(max_block')
    BY <1>1, <1>2, <1>3, <1>5, <1>6
  <2>3. AllBlocks(tables') \cap modified_blocks' = {}
    BY <1>2, <1>4, <1>5, <1>6
  <2>4. \A u \in Tables : TableBlocks(tables'[u]) \cap modified_blocks' = {}
    BY <2>3, <1>5
  <2> QED BY <1>5, <2>1, <2>2, <2>4 DEF MemoryInv
<1>10. Saved(tables, disk)'
  BY <1>1, <1>5
<1>11. OwnInv' /\ DoneInv' /\ WrittenInv'
  BY <1>1 DEF OwnInv, DoneInv, WrittenInv, Allocated, MetaWritten
<1>12. FileInv' /\ SwitchInv'
  BY <1>1, SameFile DEF BlockInv, Running, Switching
<1>13. AccountedInv'
  <2>1. ~leaked => InUse(max_block) = free_list \cup modified_blocks \cup AllBlocks(tables)
    BY <1>1 DEF BlockInv, AccountedInv, Running, Allocated
  <2> QED BY <1>1, <1>4, <1>6, <2>1 DEF AccountedInv, Allocated
<1> QED BY <1>7, <1>8, <1>9, <1>10, <1>11, <1>12, <1>13 DEF BlockInv

LEMMA FlushCommitBlocks ==
    ASSUME BlockInv, FlushCommit
    PROVE  BlockInv'
<1>1. /\ pc = "flush" /\ pc' = "idle"
      /\ log_images' = {log} /\ log' = log
      /\ tables' = Applied(tables, commit)
      /\ UNCHANGED <<disk, header, stable, stable_header, free_list, modified_blocks, max_block,
                   active_header, iteration_count, checkpoint, numbers, leaked>>
  BY DEF FlushCommit
<1>2. /\ commit \in Commit /\ CanApply(tables, commit) /\ commit.table \in Tables
      /\ commit.op = "append" => ~EndsPersistent(tables[commit.table])
      /\ commit.op = "drop" => TableBlocks(tables[commit.table]) \subseteq modified_blocks
      /\ commit.op \in {"append", "update", "drop"}
  BY <1>1 DEF BlockInv, FlushInv, Commit
<1>3. /\ tables \in TablesType
      /\ Distinct(tables) /\ Saved(tables, disk)
      /\ AllBlocks(tables) \cap free_list = {}
      /\ free_list \cap modified_blocks = {}
      /\ free_list \cup modified_blocks \cup AllBlocks(tables) \subseteq InUse(max_block)
      /\ \A u \in Tables : TableBlocks(tables[u]) \cap modified_blocks = {} \/ (commit.op = "drop" /\ commit.table = u)
  BY DEF BlockInv, TypeInv, MemoryInv, Dropping
<1>4. /\ tables' \in TablesType /\ Thins(tables', tables)
      /\ AllBlocks(tables) = AllBlocks(tables') \cup Released(tables, commit)
  BY <1>1, <1>2, <1>3, AppliedFacts
<1>5. /\ AllBlocks(tables') \subseteq AllBlocks(tables)
      /\ Distinct(tables') /\ Saved(tables', disk)
      /\ \A u \in Tables : TableBlocks(tables'[u]) \subseteq TableBlocks(tables[u])
  BY <1>3, <1>4, ThinsKeeps
<1>6. Released(tables, commit) \subseteq modified_blocks
  BY <1>2 DEF Released, ConvertedBlock
<1>7. TypeInv'
  BY <1>1, <1>4 DEF BlockInv, TypeInv, Places, Allocated
<1>8. FlushInv' /\ OwnInv' /\ DoneInv' /\ WrittenInv'
  BY <1>1 DEF FlushInv, OwnInv, DoneInv, WrittenInv, Allocated, MetaWritten
<1>9. MemoryInv'
  <2>1. ASSUME NEW u \in Tables PROVE TableBlocks(tables'[u]) \cap modified_blocks' = {}
    <3>1. CASE commit.op = "drop" /\ commit.table = u
      <4>1. tables'[u] = Absent
        BY <1>1, <1>2, <1>3, <3>1 DEF Applied, TablesType
      <4> QED BY <4>1 DEF TableBlocks
    <3>2. CASE ~(commit.op = "drop" /\ commit.table = u)
      BY <1>1, <1>3, <1>5, <3>2
    <3> QED BY <3>1, <3>2
  <2> QED BY <1>1, <1>3, <1>5, <2>1 DEF MemoryInv
<1>10. Saved(tables, disk)'
  BY <1>1, <1>5
<1>12. FileInv' /\ SwitchInv'
  BY <1>1, SameFile DEF BlockInv, Running, Switching
<1>13. AccountedInv'
  <2>1. ~leaked => InUse(max_block) = free_list \cup modified_blocks \cup AllBlocks(tables)
    BY <1>1 DEF BlockInv, AccountedInv, Running, Allocated
  <2> QED BY <1>1, <1>4, <1>6, <2>1 DEF AccountedInv, Allocated
<1> QED BY <1>7, <1>8, <1>9, <1>10, <1>12, <1>13 DEF BlockInv

\* Steps after which the memory and the file are as before.
LEMMA SameMemory ==
    ASSUME BlockInv, Running, Running', ~Switching, ~Switching',
           UNCHANGED <<disk, header, stable, stable_header, tables, free_list, modified_blocks, max_block,
                       active_header, iteration_count>>,
           pc = "flush" => commit.op # "drop", pc' # "flush", leaked' \in BOOLEAN, leaked => leaked'
    PROVE  /\ FlushInv' /\ MemoryInv' /\ Saved(tables, disk)' /\ FileInv' /\ SwitchInv'
           /\ pc \notin Allocated /\ pc' \notin Allocated => AccountedInv'
<1>1. FlushInv'
  BY DEF FlushInv
<1>2. \A u \in Tables : ~Dropping(u)
  BY DEF Dropping
<1>3. MemoryInv'
  BY <1>2 DEF BlockInv, MemoryInv
<1>4. FileInv' /\ SwitchInv'
  BY SameFile DEF BlockInv
<1>5. Saved(tables, disk)'
  BY DEF BlockInv
<1>6. pc \notin Allocated /\ pc' \notin Allocated => AccountedInv'
  BY DEF BlockInv, AccountedInv
<1> QED BY <1>1, <1>3, <1>4, <1>5, <1>6

LEMMA FailCommitBlocks ==
    ASSUME BlockInv, DropsSucceed, FailCommit
    PROVE  BlockInv'
<1>1. /\ pc = "flush" /\ pc' = "idle" /\ commit.op # "drop"
      /\ log' = Front(log) /\ log_images' = log_images \cup {log'}
      /\ UNCHANGED <<disk, header, stable, stable_header, tables, free_list, modified_blocks, max_block,
                   active_header, iteration_count, checkpoint, numbers, leaked>>
  BY DEF FailCommit, memory, DropsSucceed
<1>2. FlushInv' /\ MemoryInv' /\ Saved(tables, disk)' /\ FileInv' /\ SwitchInv' /\ AccountedInv'
  <2>1. leaked' \in BOOLEAN /\ Running /\ Running' /\ ~Switching /\ ~Switching'
    BY <1>1 DEF BlockInv, TypeInv, Running, Switching
  <2>2. pc \notin Allocated /\ pc' \notin Allocated
    BY <1>1 DEF Allocated
  <2> QED BY <1>1, <2>1, <2>2, SameMemory
<1>3. OwnInv' /\ DoneInv' /\ WrittenInv'
  BY <1>1 DEF OwnInv, DoneInv, WrittenInv, Allocated, MetaWritten
<1>4. TypeInv'
  <2>1. log \in Seq(Record \cup {Torn})
    BY DEF BlockInv, TypeInv
  <2>2. Front(log) \in Seq(Record \cup {Torn})
    BY <2>1 DEF Front
  <2> QED BY <1>1, <2>2 DEF BlockInv, TypeInv, Places, Allocated
<1> QED BY <1>2, <1>3, <1>4 DEF BlockInv

(***************************************************************************)
(* Checkpoints.                                                            *)
(***************************************************************************)
LEMMA StartCheckpointBlocks ==
    ASSUME BlockInv, NEW reason \in {"statement", "close"}, StartCheckpoint(reason)
    PROVE  BlockInv'
<1>1. /\ pc = "idle" /\ pc' = "checkpoint"
      /\ checkpoint' = [checkpoint EXCEPT !.reason = reason]
      /\ UNCHANGED <<disk, header, log, stable, stable_header, log_images, tables, free_list, modified_blocks,
                   max_block, active_header, iteration_count, numbers, leaked>>
  BY DEF StartCheckpoint, memory, files
<1>2. FlushInv' /\ MemoryInv' /\ Saved(tables, disk)' /\ FileInv' /\ SwitchInv' /\ AccountedInv'
  <2>1. leaked' \in BOOLEAN /\ Running /\ Running' /\ ~Switching /\ ~Switching'
    BY <1>1 DEF BlockInv, TypeInv, Running, Switching
  <2>2. pc \notin Allocated /\ pc' \notin Allocated
    BY <1>1 DEF Allocated
  <2> QED BY <1>1, <2>1, <2>2, SameMemory
<1>3. OwnInv' /\ DoneInv' /\ WrittenInv'
  BY <1>1 DEF OwnInv, DoneInv, WrittenInv, Allocated, MetaWritten
<1>4. TypeInv'
  <2>2. pc' \in Places /\ checkpoint.done = [u \in Tables |-> 0] /\ checkpoint \in CheckpointType
    BY <1>1 DEF Places, BlockInv, TypeInv, Allocated
  <2>3. checkpoint' \in CheckpointType /\ checkpoint'.done = checkpoint.done
    BY <1>1, <2>2 DEF CheckpointType
  <2> QED BY <1>1, <2>2, <2>3 DEF BlockInv, TypeInv
<1> QED BY <1>2, <1>3, <1>4 DEF BlockInv

LEMMA CloseBlocks ==
    ASSUME BlockInv, CloseWithoutCheckpoint
    PROVE  BlockInv'
<1>1. /\ pc = "idle" /\ pc' = "closed"
      /\ UNCHANGED <<disk, header, log, stable, stable_header, log_images, tables, free_list, modified_blocks,
                   max_block, active_header, iteration_count, checkpoint, numbers, leaked>>
  BY DEF CloseWithoutCheckpoint, memory, files
<1>2. TypeInv'
  BY <1>1 DEF BlockInv, TypeInv, Places, Allocated
<1>3. FlushInv' /\ OwnInv' /\ DoneInv' /\ WrittenInv' /\ SwitchInv' /\ AccountedInv'
  BY <1>1 DEF FlushInv, OwnInv, DoneInv, WrittenInv, Allocated, MetaWritten, SwitchInv, AccountedInv, Running
<1>4. MemoryInv' /\ Saved(tables, disk)'
  BY <1>1 DEF BlockInv, MemoryInv, Dropping
<1>5. FileInv'
  BY <1>1 DEF BlockInv, FileInv, Running, Switching
<1> QED BY <1>2, <1>3, <1>4, <1>5 DEF BlockInv

\* A step that writes no block of the file, and allocates only free ones.
LEMMA WriteOutside ==
    ASSUME FileInv, Running, ~Switching, Running', ~Switching', leaked => leaked',
           UNCHANGED <<header, stable, stable_header, active_header, iteration_count>>,
           free_list' \subseteq free_list, InUse(max_block) \subseteq InUse(max_block'),
           Agree(disk', disk, FileBlocks(disk, Top(header)))
    PROVE  FileInv' /\ SwitchInv' /\ FileBlocks(disk', Top(header)) = FileBlocks(disk, Top(header))
<1>1. pc \notin {"write_header", "sync_header"} /\ pc' \notin {"write_header", "sync_header"}
  BY DEF Switching
<1>2. SwitchInv'
  BY <1>1 DEF SwitchInv
<1>3. Loadable(stable, Top(header), leaked) /\ Loadable(stable, Top(header), leaked')
  BY <1>1, LoadableWeaker DEF FileInv
<1>4. Agree(disk, stable, FileBlocks(stable, Top(header)))
  BY <1>1 DEF FileInv
<1>5. FileBlocks(disk, Top(header)) = FileBlocks(stable, Top(header))
  BY <1>3, <1>4, LoadableFrame
<1>6. Agree(disk', stable, FileBlocks(stable, Top(header)))
  BY <1>4, <1>5 DEF Agree
<1>7. FileBlocks(disk', Top(header)) = FileBlocks(stable, Top(header))
  BY <1>3, <1>6, LoadableFrame
<1>8. /\ FileBlocks(disk, Top(header)) \cap free_list = {}
      /\ FileBlocks(disk, Top(header)) \subseteq InUse(max_block)
      /\ stable_header = header /\ active_header = Newest(header) /\ iteration_count = Top(header).iteration
  BY <1>1 DEF FileInv
<1>9. /\ FileBlocks(disk', Top(header)) \cap free_list' = {}
      /\ FileBlocks(disk', Top(header)) \subseteq InUse(max_block')
  BY <1>5, <1>7, <1>8
<1>10. FileInv'
  BY <1>1, <1>3, <1>6, <1>8, <1>9 DEF FileInv
<1> QED BY <1>2, <1>5, <1>7, <1>10

LEMMA InUseBlocks ==
    ASSUME NEW max \in Nat, max <= MaxBlocks
    PROVE  InUse(max) \subseteq Blocks /\ max \in 0 .. MaxBlocks /\ INVALID_BLOCK \notin InUse(max) /\ max \notin InUse(max)
  BY DurabilityAssumption DEF InUse, Blocks, INVALID_BLOCK

LEMMA AllocateMetadataBlocks ==
    ASSUME BlockInv, AllocateMetadata
    PROVE  BlockInv'
<1> DEFINE m == GetFreeBlockId(free_list, max_block)
           d == GetFreeBlockId(m.free, m.max)
<1>1. /\ pc = "checkpoint" /\ pc' = "write"
      /\ d.max <= MaxBlocks
      /\ free_list' = d.free
      /\ max_block' = d.max
      /\ checkpoint' = [checkpoint EXCEPT !.meta_block = m.block, !.tabledata = d.block]
      /\ UNCHANGED <<disk, header, log, stable, stable_header, log_images, tables, modified_blocks,
                     active_header, iteration_count, commit, numbers, leaked>>
  BY DEF AllocateMetadata, files, history
<1>2. /\ max_block \in Nat /\ free_list \subseteq InUse(max_block) /\ tables \in TablesType
      /\ AllBlocks(tables) \cap free_list = {}
      /\ free_list \cap modified_blocks = {}
      /\ free_list \cup modified_blocks \cup AllBlocks(tables) \subseteq InUse(max_block)
      /\ checkpoint \in CheckpointType /\ checkpoint.done = [t \in Tables |-> 0]
  BY <1>1, DurabilityAssumption DEF BlockInv, TypeInv, MemoryInv, Allocated
<1>3. /\ m.max \in Nat /\ m.max >= max_block /\ m.max <= max_block + 1
      /\ m.block \in InUse(m.max)
      /\ m.free = free_list \ {m.block}
      /\ m.block \in free_list \/ m.block = max_block
      /\ InUse(m.max) = InUse(max_block) \cup {m.block}
      /\ m.block \in Nat
      /\ free_list # {} => m.max = max_block /\ m.block \in free_list
  BY <1>2, AllocateOne
<1> HIDE DEF m
<1>4. m.free \subseteq InUse(m.max)
  BY <1>2, <1>3
<1>5. /\ d.max \in Nat /\ d.max >= m.max /\ d.max <= m.max + 1
      /\ d.block \in InUse(d.max)
      /\ d.free = m.free \ {d.block}
      /\ d.block \in m.free \/ d.block = m.max
      /\ InUse(d.max) = InUse(m.max) \cup {d.block}
      /\ d.block \in Nat
      /\ m.free # {} => d.max = m.max /\ d.block \in m.free
  BY <1>3, <1>4, AllocateOne
<1> HIDE DEF d
<1>6. max_block \notin InUse(max_block) /\ m.max \notin InUse(m.max)
  BY <1>2, <1>3 DEF InUse
<1>7. /\ m.block # d.block
      /\ {m.block, d.block} \subseteq InUse(d.max)
      /\ m.block \notin modified_blocks \cup AllBlocks(tables)
      /\ d.block \notin modified_blocks \cup AllBlocks(tables)
      /\ d.free = free_list \ {m.block, d.block}
      /\ InUse(d.max) = InUse(max_block) \cup {m.block, d.block}
  <2>1. m.block # d.block
    BY <1>3, <1>5, <1>6
  <2>2. m.block \notin modified_blocks \cup AllBlocks(tables)
    BY <1>2, <1>3, <1>6
  <2>3. m.max \notin InUse(max_block)
    BY <1>3, <1>6
  <2>4. d.block \notin modified_blocks \cup AllBlocks(tables)
    BY <1>2, <1>3, <1>5, <2>3
  <2> QED BY <1>3, <1>5, <2>1, <2>2, <2>4
<1>8. InUse(d.max) \subseteq Blocks /\ d.max \in 0 .. MaxBlocks /\ INVALID_BLOCK \notin InUse(d.max)
  BY <1>1, <1>5, InUseBlocks
<1>9. /\ checkpoint' \in CheckpointType /\ checkpoint'.done = checkpoint.done
      /\ checkpoint'.meta_block = m.block /\ checkpoint'.tabledata = d.block
  BY <1>1, <1>2, <1>7, <1>8 DEF CheckpointType
<1>10. TypeInv'
  BY <1>1, <1>7, <1>8, <1>9 DEF BlockInv, TypeInv, Places, Allocated
<1>11. FlushInv' /\ WrittenInv'
  BY <1>1 DEF FlushInv, WrittenInv, MetaWritten
<1>12. MemoryInv'
  <2>1. \A u \in Tables : ~Dropping(u)
    BY <1>1 DEF Dropping
  <2>2. \A u \in Tables : TableBlocks(tables[u]) \cap modified_blocks = {}
    BY <2>1 DEF BlockInv, MemoryInv
  <2>3. Distinct(tables)
    BY DEF BlockInv, MemoryInv
  <2> QED BY <1>1, <1>2, <1>7, <2>2, <2>3 DEF MemoryInv
<1>13. Saved(tables, disk)'
  BY <1>1 DEF BlockInv
<1>14. FileInv' /\ SwitchInv' /\ FileBlocks(disk', Top(header)) = FileBlocks(disk, Top(header))
  <2>1. Agree(disk', disk, FileBlocks(disk, Top(header)))
    BY <1>1 DEF Agree
  <2>2. free_list' \subseteq free_list /\ InUse(max_block) \subseteq InUse(max_block')
    BY <1>1, <1>7
  <2> QED BY <1>1, <2>1, <2>2, WriteOutside DEF BlockInv, Running, Switching
<1>15. OwnInv'
  <2>1. /\ FileBlocks(disk, Top(header)) \cap free_list = {}
        /\ FileBlocks(disk, Top(header)) \subseteq InUse(max_block)
    BY <1>1 DEF BlockInv, FileInv, Running
  <2>2. m.max \notin InUse(max_block)
    BY <1>3, <1>6
  <2>3. {m.block, d.block} \cap FileBlocks(disk, Top(header)) = {}
    BY <1>3, <1>5, <1>6, <2>1, <2>2
  <2>4. {m.block, d.block} \cap (free_list' \cup modified_blocks' \cup AllBlocks(tables')) = {}
    BY <1>1, <1>7
  <2> QED BY <1>1, <1>7, <1>9, <2>3, <2>4 DEF OwnInv
<1>16. DoneInv'
  <2>1. \A t \in Existing : tables[t] \in Seq(Segment)
    BY <1>2 DEF Existing, TablesType
  <2>2. \A t \in Existing' : checkpoint'.done[t] = 0 /\ tables'[t] \in Seq(Segment)
    BY <1>1, <1>2, <1>9, <2>1 DEF Existing
  <2>3. \A t \in Existing' : checkpoint'.done[t] <= Len(tables'[t]) /\ 1 .. checkpoint'.done[t] = {}
    BY <2>2
  <2> QED BY <2>3 DEF DoneInv
<1>17. AccountedInv'
  <2>1. ~leaked => InUse(max_block) = free_list \cup modified_blocks \cup AllBlocks(tables)
    BY <1>1 DEF BlockInv, AccountedInv, Running, Allocated
  <2>2. pc' \in Allocated
    BY <1>1 DEF Allocated
  <2> QED BY <1>1, <1>7, <1>9, <2>1, <2>2 DEF AccountedInv
<1> QED BY <1>10, <1>11, <1>12, <1>13, <1>14, <1>15, <1>16, <1>17 DEF BlockInv

PutSegment(ts, t, i, segment) == [ts EXCEPT ![t][i] = segment]
BlockOfSegment(segment) == IF IsPersistent(segment) THEN {segment.block} ELSE {}
\* A segment gets a block of its own.
LEMMA NewBlock ==
    ASSUME NEW ts \in TablesType, Distinct(ts), NEW t \in Tables, ts[t] # Absent, NEW i \in DOMAIN ts[t],
           NEW b \in Blocks, b \notin AllBlocks(ts), NEW r \in Bag, NEW s, s = PersistentSegment(b, r),
           NEW us, us = PutSegment(ts, t, i, s),
           NEW R, R = BlockOfSegment(ts[t][i])
    PROVE  /\ us \in TablesType /\ Distinct(us)
           /\ AllBlocks(us) = (AllBlocks(ts) \ R) \cup {b}
           /\ R \subseteq AllBlocks(ts)
           /\ \A u \in Tables \ {t} : us[u] = ts[u]
           /\ us[t] # Absent /\ DOMAIN us[t] = DOMAIN ts[t] /\ Len(us[t]) = Len(ts[t])
           /\ us[t][i] = s /\ \A j \in DOMAIN ts[t] \ {i} : us[t][j] = ts[t][j]
<1>1. ts[t] \in Rows
  BY DEF TablesType, Rows
<1>2. s \in Segment /\ s.block = b /\ s.rows = r /\ s.saved = r
  BY DEF PersistentSegment, Segment
<1>3. ts[t] \in Seq(Segment) /\ Len(ts[t]) \in Nat /\ Len(ts[t]) >= 1 /\ DOMAIN ts[t] = 1 .. Len(ts[t])
  BY <1>1, RowsFacts DEF Rows
<1> DEFINE new == [ts[t] EXCEPT ![i] = s]
<1>4. new \in Seq(Segment) /\ Len(new) = Len(ts[t])
  BY <1>2, <1>3, ExceptSeq
<1>5. new[i] = s /\ (\A j \in DOMAIN ts[t] \ {i} : new[j] = ts[t][j]) /\ DOMAIN new = DOMAIN ts[t]
  OBVIOUS
<1>6. us = Put(ts, t, new)
  BY DEF Put, PutSegment
<1> HIDE DEF new
<1>7. new \in Rows
  BY <1>3, <1>4 DEF Rows
<1>8. new # Absent
  BY <1>7, RowsFacts
<1>9. us \in TablesType /\ us[t] = new /\ \A u \in Tables \ {t} : us[u] = ts[u]
  BY <1>6, <1>7 DEF TablesType, Put, Rows
<1>10. b # INVALID_BLOCK
  BY DurabilityAssumption DEF Blocks, INVALID_BLOCK
<1>11. ASSUME NEW u \in Tables, NEW j, NEW x
       PROVE  Uses(us, u, j, x) <=> IF u = t /\ j = i THEN x = b ELSE Uses(ts, u, j, x)
  <2>1. CASE u # t
    BY <1>9, <2>1 DEF Uses
  <2>2. CASE u = t /\ j = i
    BY <1>2, <1>5, <1>8, <1>9, <1>10, <2>2 DEF Uses
  <2>3. CASE u = t /\ j # i
    BY <1>5, <1>8, <1>9, <2>3 DEF Uses
  <2> QED BY <2>1, <2>2, <2>3
<1>12. Distinct(us)
  <2> SUFFICES ASSUME NEW u \in Tables, NEW v \in Tables, us[u] # Absent, us[v] # Absent,
                      NEW j \in DOMAIN us[u], NEW k \in DOMAIN us[v],
                      IsPersistent(us[u][j]), us[u][j].block = us[v][k].block
               PROVE  u = v /\ j = k
    BY DEF Distinct
  <2> DEFINE x == us[u][j].block
  <2>1. Uses(us, u, j, x) /\ Uses(us, v, k, x)
    BY DEF Uses, IsPersistent
  <2> HIDE DEF x
  <2>2. CASE u = t /\ j = i /\ v = t /\ k = i
    BY <2>2
  <2>3. CASE u = t /\ j = i /\ ~(v = t /\ k = i)
    <3>1. x = b /\ Uses(ts, v, k, x)
      BY <1>11, <2>1, <2>3
    <3> QED BY <3>1, BlockOf
  <2>4. CASE ~(u = t /\ j = i) /\ v = t /\ k = i
    <3>1. x = b /\ Uses(ts, u, j, x)
      BY <1>11, <2>1, <2>4
    <3> QED BY <3>1, BlockOf
  <2>5. CASE ~(u = t /\ j = i) /\ ~(v = t /\ k = i)
    <3>1. Uses(ts, v, k, x) /\ Uses(ts, u, j, x)
      BY <1>11, <2>1, <2>5
    <3> QED BY <3>1, DistinctUses
  <2> QED BY <2>2, <2>3, <2>4, <2>5
<1>13. \A x \in R : Uses(ts, t, i, x)
  BY DEF Uses, IsPersistent, BlockOfSegment
<1>14. R \subseteq AllBlocks(ts)
  BY <1>13, BlockOf
<1>15. ASSUME NEW x PROVE x \in AllBlocks(us) <=> (x \in AllBlocks(ts) /\ x \notin R) \/ x = b
  <2>1. ASSUME x \in AllBlocks(us), x # b PROVE x \in AllBlocks(ts) /\ x \notin R
    <3>1. PICK u, j : u \in Tables /\ Uses(us, u, j, x)
      BY <2>1, BlockOf
    <3>2. ~(u = t /\ j = i) /\ Uses(ts, u, j, x)
      BY <1>11, <2>1, <3>1
    <3>3. x \notin R
      BY <1>13, <3>1, <3>2, DistinctUses
    <3> QED BY <3>1, <3>2, <3>3, BlockOf
  <2>2. ASSUME x = b PROVE x \in AllBlocks(us)
    <3>1. Uses(us, t, i, x)
      BY <1>11, <2>2
    <3> QED BY <3>1, BlockOf
  <2>3. ASSUME x \in AllBlocks(ts), x \notin R PROVE x \in AllBlocks(us)
    <3>1. PICK u, j : u \in Tables /\ Uses(ts, u, j, x)
      BY <2>3, BlockOf
    <3>2. ~(u = t /\ j = i)
      BY <2>3, <3>1 DEF Uses, IsPersistent, BlockOfSegment
    <3>3. Uses(us, u, j, x)
      BY <1>11, <3>1, <3>2
    <3> QED BY <3>1, <3>3, BlockOf
  <2> QED BY <2>1, <2>2, <2>3
<1>16. AllBlocks(us) = (AllBlocks(ts) \ R) \cup {b}
  BY <1>15
<1> QED BY <1>4, <1>5, <1>8, <1>9, <1>12, <1>14, <1>16

\* Blocks that a step writes are not the ones tables were saved in.
LEMMA SavedFrame ==
    ASSUME NEW ts, NEW dsk, NEW new, Saved(ts, dsk), Agree(new, dsk, AllBlocks(ts))
    PROVE  Saved(ts, new)
<1> SUFFICES ASSUME NEW t \in Tables, ts[t] # Absent, NEW i \in DOMAIN ts[t], IsPersistent(ts[t][i])
             PROVE  new[ts[t][i].block] = [kind |-> "data", rows |-> ts[t][i].saved]
  BY DEF Saved
<1>1. Uses(ts, t, i, ts[t][i].block)
  BY DEF Uses, IsPersistent
<1>2. ts[t][i].block \in AllBlocks(ts)
  BY <1>1, BlockOf
<1> QED BY <1>2 DEF Saved, Agree

LEMMA KeepSegmentBlocks ==
    ASSUME BlockInv, NEW t \in Tables, pc = "write", pc' = "write", t \in Existing,
           NEW i, i = checkpoint.done[t] + 1, i <= Len(tables[t]), Unchanged(tables[t][i]),
           checkpoint' = [checkpoint EXCEPT !.done[t] = i],
           UNCHANGED <<disk, header, log, stable, stable_header, log_images, tables, free_list, modified_blocks,
                       max_block, active_header, iteration_count, commit, numbers, leaked>>
    PROVE  BlockInv'
<1>1. /\ checkpoint \in CheckpointType /\ checkpoint.done[t] \in Nat
      /\ i \in Nat
  BY DEF BlockInv, TypeInv, CheckpointType
<1>2. /\ checkpoint' \in CheckpointType
      /\ checkpoint'.meta_block = checkpoint.meta_block /\ checkpoint'.tabledata = checkpoint.tabledata
      /\ checkpoint'.done[t] = i
      /\ \A u \in Tables \ {t} : checkpoint'.done[u] = checkpoint.done[u]
  BY <1>1 DEF CheckpointType
<1>3. TypeInv'
  BY <1>2 DEF BlockInv, TypeInv, Places, Allocated
<1>4. FlushInv' /\ WrittenInv'
  BY DEF FlushInv, WrittenInv, MetaWritten
<1>5. MemoryInv' /\ Saved(tables, disk)'
  BY DEF BlockInv, MemoryInv, Dropping
<1>6. OwnInv'
  BY <1>2 DEF BlockInv, OwnInv
<1>7. DoneInv'
  <2> SUFFICES ASSUME NEW u \in Existing
               PROVE  checkpoint'.done[u] <= Len(tables[u]) /\ \A j \in 1 .. checkpoint'.done[u] : Unchanged(tables[u][j])
    BY DEF DoneInv, Existing
  <2>1. checkpoint.done[u] <= Len(tables[u]) /\ \A j \in 1 .. checkpoint.done[u] : Unchanged(tables[u][j])
    BY DEF BlockInv, DoneInv
  <2>2. u \in Tables
    BY DEF Existing
  <2>3. CASE u # t
    BY <1>2, <2>1, <2>2, <2>3
  <2>4. CASE u = t
    BY <1>1, <1>2, <2>1, <2>4
  <2> QED BY <2>3, <2>4
<1>8. FileInv' /\ SwitchInv'
  BY SameFile DEF BlockInv, Running, Switching
<1>9. AccountedInv'
  BY <1>2 DEF BlockInv, AccountedInv, Running
<1> QED BY <1>3, <1>4, <1>5, <1>6, <1>7, <1>8, <1>9 DEF BlockInv

LEMMA FlushSegmentBlocks ==
    ASSUME BlockInv, NEW t \in Tables, pc = "write", pc' = "write", t \in Existing,
           NEW i, i = checkpoint.done[t] + 1, i <= Len(tables[t]),
           NEW segment, segment = tables[t][i], ~Unchanged(segment),
           NEW a, a = GetFreeBlockId(free_list, max_block), a.max <= MaxBlocks,
           disk' = [disk EXCEPT ![a.block] = [kind |-> "data", rows |-> segment.rows]],
           tables' = [tables EXCEPT ![t][i] = PersistentSegment(a.block, segment.rows)],
           free_list' = a.free, max_block' = a.max,
           modified_blocks' = modified_blocks \cup ReplacedBlock(segment),
           checkpoint' = [checkpoint EXCEPT !.done[t] = i],
           UNCHANGED <<header, log, stable, stable_header, log_images, active_header, iteration_count,
                       commit, numbers, leaked>>
    PROVE  BlockInv'
<1> DEFINE R == BlockOfSegment(segment)
           s == PersistentSegment(a.block, segment.rows)
<1>1. /\ checkpoint \in CheckpointType /\ checkpoint.done[t] \in Nat
      /\ i \in Nat /\ i >= 1
  BY DEF BlockInv, TypeInv, CheckpointType
<1>2. /\ checkpoint' \in CheckpointType
      /\ checkpoint'.meta_block = checkpoint.meta_block /\ checkpoint'.tabledata = checkpoint.tabledata
      /\ checkpoint'.done[t] = i
      /\ \A u \in Tables \ {t} : checkpoint'.done[u] = checkpoint.done[u]
  BY <1>1 DEF CheckpointType
<1>3. /\ max_block \in Nat /\ free_list \subseteq InUse(max_block) /\ tables \in TablesType
      /\ AllBlocks(tables) \cap free_list = {}
      /\ free_list \cap modified_blocks = {} /\ AllBlocks(tables) \subseteq InUse(max_block)
      /\ modified_blocks \subseteq InUse(max_block) /\ Distinct(tables)
      /\ modified_blocks \subseteq Blocks /\ disk = [b \in Blocks |-> disk[b]] /\ Saved(tables, disk)
  BY DurabilityAssumption DEF BlockInv, TypeInv, MemoryInv, IsDisk
<1>4. AllBlocks(tables) \cap modified_blocks = {}
  <2>1. \A u \in Tables : TableBlocks(tables[u]) \cap modified_blocks = {}
    BY DEF BlockInv, MemoryInv, Dropping
  <2> QED BY <2>1 DEF AllBlocks
<1>5. /\ a.max \in Nat /\ a.max >= max_block /\ a.max <= max_block + 1
      /\ a.block \in InUse(a.max)
      /\ a.free = free_list \ {a.block}
      /\ a.block \in free_list \/ a.block = max_block
      /\ InUse(a.max) = InUse(max_block) \cup {a.block}
      /\ a.block \in Nat
      /\ free_list # {} => a.max = max_block /\ a.block \in free_list
  BY <1>3, AllocateOne
<1>6. InUse(a.max) \subseteq Blocks /\ a.max \in 0 .. MaxBlocks /\ INVALID_BLOCK \notin InUse(a.max) /\ a.block \in Blocks
      /\ max_block \notin InUse(max_block)
  BY <1>3, <1>5, InUseBlocks DEF InUse
<1>7. a.block \notin AllBlocks(tables) \cup modified_blocks
  BY <1>3, <1>5, <1>6
<1>8. tables[t] # Absent /\ tables[t] \in Rows
  BY <1>3 DEF Existing, TablesType, Rows
<1>9. i \in DOMAIN tables[t] /\ segment \in Segment /\ DOMAIN tables[t] = 1 .. Len(tables[t]) /\ Len(tables[t]) \in Nat
  BY <1>1, <1>8, RowsFacts
<1>10. segment.rows \in Bag
  BY <1>9 DEF Segment
<1>11. s.block = a.block /\ s.rows = segment.rows /\ s.saved = segment.rows /\ Unchanged(s)
  BY <1>5, <1>6 DEF PersistentSegment, Unchanged, IsPersistent, HasUpdates
<1>12. ReplacedBlock(segment) = R
  BY DEF ReplacedBlock, Unchanged, BlockOfSegment
<1>13. /\ tables' \in TablesType /\ Distinct(tables')
       /\ AllBlocks(tables') = (AllBlocks(tables) \ R) \cup {a.block}
       /\ R \subseteq AllBlocks(tables)
       /\ \A u \in Tables \ {t} : tables'[u] = tables[u]
       /\ tables'[t] # Absent /\ DOMAIN tables'[t] = DOMAIN tables[t] /\ Len(tables'[t]) = Len(tables[t])
       /\ tables'[t][i] = s /\ \A j \in DOMAIN tables[t] \ {i} : tables'[t][j] = tables[t][j]
  <2> DEFINE us == tables'
             b == a.block
             r == segment.rows
  <2>1. /\ s = PersistentSegment(b, r) /\ us = PutSegment(tables, t, i, s)
        /\ R = BlockOfSegment(tables[t][i])
        /\ b \in Blocks /\ b \notin AllBlocks(tables) /\ r \in Bag
        /\ tables \in TablesType /\ Distinct(tables) /\ tables[t] # Absent /\ i \in DOMAIN tables[t]
    BY <1>3, <1>6, <1>7, <1>8, <1>9, <1>10 DEF PutSegment
  <2> HIDE DEF us, b, r, s, R
  <2>2. /\ us \in TablesType /\ Distinct(us)
        /\ AllBlocks(us) = (AllBlocks(tables) \ R) \cup {b}
        /\ R \subseteq AllBlocks(tables)
        /\ \A u \in Tables \ {t} : us[u] = tables[u]
        /\ us[t] # Absent /\ DOMAIN us[t] = DOMAIN tables[t] /\ Len(us[t]) = Len(tables[t])
        /\ us[t][i] = s /\ \A j \in DOMAIN tables[t] \ {i} : us[t][j] = tables[t][j]
    BY ONLY <2>1, t \in Tables, NewBlock
  <2> QED BY <2>2 DEF us, b
<1>14. modified_blocks' = modified_blocks \cup R
  BY <1>12
<1> HIDE DEF R, s
<1>15. TypeInv'
  <2>1. IsDisk(disk')
    BY <1>3 DEF IsDisk
  <2>2. modified_blocks' \subseteq Blocks /\ free_list' \subseteq Blocks
    BY <1>3, <1>5, <1>6, <1>13, <1>14
  <2> QED BY <1>2, <1>6, <1>13, <2>1, <2>2 DEF BlockInv, TypeInv, Places, Allocated
<1>16. FlushInv' /\ WrittenInv'
  BY DEF FlushInv, WrittenInv, MetaWritten
<1>17. MemoryInv'
  <2>1. AllBlocks(tables') \cap modified_blocks' = {}
    BY <1>4, <1>7, <1>13, <1>14
  <2>2. \A u \in Tables : TableBlocks(tables'[u]) \subseteq AllBlocks(tables')
    BY <1>13, BlocksOfType
  <2>3. \A u \in Tables : TableBlocks(tables'[u]) \cap modified_blocks' = {}
    BY <2>1, <2>2
  <2>4. AllBlocks(tables') \cap free_list' = {}
    BY <1>3, <1>5, <1>13
  <2>5. free_list' \cap modified_blocks' = {}
    BY <1>3, <1>5, <1>13, <1>14
  <2>6. free_list' \cup modified_blocks' \cup AllBlocks(tables') \subseteq InUse(max_block')
    BY <1>3, <1>5, <1>13, <1>14
  <2> QED BY <1>13, <2>3, <2>4, <2>5, <2>6 DEF MemoryInv
<1>18. Saved(tables, disk)'
  <2> SUFFICES ASSUME NEW u \in Tables, tables'[u] # Absent, NEW j \in DOMAIN tables'[u], IsPersistent(tables'[u][j])
               PROVE  disk'[tables'[u][j].block] = [kind |-> "data", rows |-> tables'[u][j].saved]
    BY DEF Saved
  <2>1. CASE u = t /\ j = i
    BY <1>3, <1>6, <1>11, <1>13, <2>1
  <2>2. CASE ~(u = t /\ j = i)
    <3>1. tables[u] # Absent /\ j \in DOMAIN tables[u] /\ tables'[u][j] = tables[u][j]
      BY <1>8, <1>13, <2>2
    <3>2. disk[tables[u][j].block] = [kind |-> "data", rows |-> tables[u][j].saved]
      BY <1>3, <3>1 DEF Saved
    <3>3. Uses(tables, u, j, tables[u][j].block)
      BY <3>1 DEF Uses, IsPersistent
    <3>4. tables[u][j].block \in AllBlocks(tables)
      BY <3>3, BlockOf
    <3>5. AllBlocks(tables) \subseteq Blocks
      BY <1>3, BlocksOfType
    <3>6. disk'[tables[u][j].block] = disk[tables[u][j].block]
      BY <1>3, <1>7, <3>4, <3>5
    <3> QED BY <3>1, <3>2, <3>6
  <2> QED BY <2>1, <2>2
<1>19. FileInv' /\ SwitchInv' /\ FileBlocks(disk', Top(header)) = FileBlocks(disk, Top(header))
  <2>1. /\ FileBlocks(disk, Top(header)) \cap free_list = {}
        /\ FileBlocks(disk, Top(header)) \subseteq InUse(max_block)
    BY DEF BlockInv, FileInv, Running
  <2>2. InUse(max_block) \subseteq Blocks
    BY <1>5, <1>6
  <2>3. Agree(disk', disk, FileBlocks(disk, Top(header)))
    BY <1>3, <1>5, <1>6, <2>1, <2>2 DEF Agree
  <2>4. free_list' \subseteq free_list /\ InUse(max_block) \subseteq InUse(max_block')
    BY <1>5
  <2> QED BY <2>3, <2>4, WriteOutside DEF BlockInv, Running, Switching
<1>20. OwnInv'
  <2> DEFINE P == {checkpoint.meta_block, checkpoint.tabledata}
  <2>1. /\ checkpoint.meta_block # checkpoint.tabledata
        /\ P \subseteq InUse(max_block)
        /\ P \cap (free_list \cup modified_blocks \cup AllBlocks(tables)) = {}
        /\ P \cap FileBlocks(disk, Top(header)) = {}
    BY DEF BlockInv, OwnInv, Allocated
  <2>2. P = {checkpoint'.meta_block, checkpoint'.tabledata}
    BY <1>2
  <2>3. checkpoint'.meta_block # checkpoint'.tabledata
    BY <1>2, <2>1
  <2> HIDE DEF P
  <2>4. a.block \notin P
    BY <1>5, <1>6, <2>1
  <2>5. P \subseteq InUse(max_block')
    BY <1>5, <2>1
  <2>6. P \cap (free_list' \cup modified_blocks' \cup AllBlocks(tables')) = {}
    <3>1. P \cap free_list' = {}
      BY <1>5, <2>1
    <3>2. P \cap modified_blocks' = {}
      BY <1>13, <1>14, <2>1
    <3>3. P \cap AllBlocks(tables') = {}
      BY <1>13, <2>1, <2>4
    <3> QED BY <3>1, <3>2, <3>3
  <2>7. P \cap FileBlocks(disk', Top(header')) = {}
    BY <1>19, <2>1
  <2> QED BY <2>2, <2>3, <2>5, <2>6, <2>7 DEF OwnInv
<1>21. DoneInv'
  <2> SUFFICES ASSUME NEW u \in Existing'
               PROVE  checkpoint'.done[u] <= Len(tables'[u]) /\ \A j \in 1 .. checkpoint'.done[u] : Unchanged(tables'[u][j])
    BY DEF DoneInv
  <2>1. u \in Tables /\ u \in Existing
    BY <1>8, <1>13 DEF Existing
  <2>2. checkpoint.done[u] <= Len(tables[u]) /\ \A j \in 1 .. checkpoint.done[u] : Unchanged(tables[u][j])
    BY <2>1 DEF BlockInv, DoneInv
  <2>3. CASE u # t
    BY <1>2, <1>13, <2>1, <2>2, <2>3
  <2>4. CASE u = t
    <3>1. checkpoint'.done[u] = i /\ Len(tables'[u]) = Len(tables[u])
      BY <1>2, <1>13, <2>4
    <3>2. ASSUME NEW j \in 1 .. i PROVE Unchanged(tables'[u][j])
      <4>1. CASE j = i
        BY <1>11, <1>13, <2>4, <4>1
      <4>2. CASE j # i
        <5>1. j \in 1 .. checkpoint.done[u]
          BY <1>1, <2>4, <4>2
        <5>2. j \in DOMAIN tables[t] \ {i}
          BY <1>1, <1>9, <4>2
        <5> QED BY <1>13, <2>2, <2>4, <5>1, <5>2
      <4> QED BY <4>1, <4>2
    <3> QED BY <3>1, <3>2, <2>4
  <2> QED BY <2>3, <2>4
<1>22. AccountedInv'
  <2>1. pc \in Allocated
    BY DEF Allocated
  <2>2. ~leaked => InUse(max_block) = free_list \cup modified_blocks \cup AllBlocks(tables)
                                       \cup {checkpoint.meta_block, checkpoint.tabledata}
    BY <2>1 DEF BlockInv, AccountedInv, Running
  <2>3. free_list' \cup modified_blocks' \cup AllBlocks(tables')
          = free_list \cup modified_blocks \cup AllBlocks(tables) \cup {a.block}
    BY <1>5, <1>13, <1>14
  <2>4. ~leaked => InUse(max_block') = free_list' \cup modified_blocks' \cup AllBlocks(tables')
                                       \cup {checkpoint.meta_block, checkpoint.tabledata}
    BY <1>5, <2>2, <2>3
  <2> QED BY <1>2, <2>1, <2>4 DEF AccountedInv
<1> QED BY <1>15, <1>16, <1>17, <1>18, <1>19, <1>20, <1>21, <1>22 DEF BlockInv

LEMMA WriteSegmentBlocks ==
    ASSUME BlockInv, NEW t \in Tables, WriteSegment(t)
    PROVE  BlockInv'
<1> DEFINE i == checkpoint.done[t] + 1
           segment == tables[t][i]
           a == GetFreeBlockId(free_list, max_block)
<1>1. /\ pc = "write" /\ pc' = "write" /\ t \in Existing /\ i <= Len(tables[t])
      /\ checkpoint' = [checkpoint EXCEPT !.done[t] = i]
      /\ modified_blocks' = modified_blocks \cup ReplacedBlock(segment)
      /\ UNCHANGED <<header, log, stable, stable_header, log_images, active_header, iteration_count,
                     commit, numbers, leaked>>
  BY DEF WriteSegment, history
<1>2. CASE Unchanged(segment) /\ UNCHANGED <<disk, tables, free_list, max_block>>
  <2>1. ReplacedBlock(segment) = {}
    BY <1>2 DEF ReplacedBlock, Unchanged
  <2>2. UNCHANGED modified_blocks
    BY <1>1, <2>1
  <2> HIDE DEF i, a
  <2>3. i = checkpoint.done[t] + 1
    BY DEF i
  <2> QED BY <1>1, <1>2, <2>2, <2>3, KeepSegmentBlocks
<1>3. CASE /\ ~Unchanged(segment)
           /\ a.max <= MaxBlocks
           /\ disk' = [disk EXCEPT ![a.block] = [kind |-> "data", rows |-> segment.rows]]
           /\ tables' = [tables EXCEPT ![t][i] = PersistentSegment(a.block, segment.rows)]
           /\ free_list' = a.free
           /\ max_block' = a.max
  <2>1. i = checkpoint.done[t] + 1 /\ segment = tables[t][i] /\ a = GetFreeBlockId(free_list, max_block)
    OBVIOUS
  <2> HIDE DEF i, a, segment
  <2> QED BY ONLY BlockInv, t \in Tables, <1>1, <1>3, <2>1, FlushSegmentBlocks
<1> QED BY <1>2, <1>3 DEF WriteSegment

LEMMA WriteMetadataBlocks ==
    ASSUME BlockInv, WriteMetadata
    PROVE  BlockInv'
<1> DEFINE meta == MetaRecord(Existing, checkpoint.tabledata)
           data == DataRecord(Existing, tables)
           mb == checkpoint.meta_block
           td == checkpoint.tabledata
<1>1. /\ pc = "write" /\ pc' = "record"
      /\ \A t \in Existing : checkpoint.done[t] = Len(tables[t])
      /\ disk' = [b \in Blocks |-> IF b = mb THEN meta ELSE IF b = td /\ Existing # {} THEN data ELSE disk[b]]
      /\ checkpoint' = [checkpoint EXCEPT !.written = {mb} \cup (IF Existing = {} THEN {} ELSE {td})]
      /\ leaked' = (leaked \/ Existing = {})
      /\ UNCHANGED <<header, log, stable, stable_header, log_images, tables, free_list, modified_blocks, max_block,
                     active_header, iteration_count, commit, numbers>>
  BY DEF WriteMetadata, memory, MetaRecord, DataRecord
<1>2. /\ mb # td /\ {mb, td} \subseteq InUse(max_block)
      /\ {mb, td} \cap (free_list \cup modified_blocks \cup AllBlocks(tables)) = {}
      /\ {mb, td} \cap FileBlocks(disk, Top(header)) = {}
  BY <1>1 DEF BlockInv, OwnInv, Allocated
<1>3. /\ max_block \in Nat /\ max_block <= MaxBlocks /\ tables \in TablesType
      /\ checkpoint \in CheckpointType /\ Saved(tables, disk)
  BY DurabilityAssumption DEF BlockInv, TypeInv
<1>4. InUse(max_block) \subseteq Blocks
  BY <1>3, InUseBlocks
<1>5. mb \in Blocks /\ td \in Blocks
  BY <1>2, <1>4
<1>6. disk'[mb] = meta /\ (Existing # {} => disk'[td] = data)
      /\ \A b \in Blocks \ {mb, td} : disk'[b] = disk[b]
  BY <1>1, <1>2, <1>5
<1> DEFINE W == {mb} \cup (IF Existing = {} THEN {} ELSE {td})
<1>7. /\ checkpoint' \in CheckpointType /\ checkpoint'.meta_block = mb /\ checkpoint'.tabledata = td
      /\ checkpoint'.written = W /\ checkpoint'.done = checkpoint.done
  <2>1. W \subseteq Blocks
    BY <1>5
  <2>2. checkpoint' = [checkpoint EXCEPT !.written = W]
    BY <1>1
  <2> HIDE DEF W
  <2> QED BY <1>3, <2>1, <2>2 DEF CheckpointType
<1>8. leaked' \in BOOLEAN /\ (leaked => leaked') /\ (~leaked' => Existing # {})
  BY <1>1 DEF BlockInv, TypeInv
<1> HIDE DEF meta, data, mb, td, W
<1>9. TypeInv'
  <2>1. IsDisk(disk')
    BY <1>1 DEF IsDisk
  <2> QED BY <1>1, <1>7, <1>8, <2>1 DEF BlockInv, TypeInv, Places, Allocated
<1>10. FlushInv' /\ DoneInv'
  BY <1>1 DEF FlushInv, DoneInv
<1>11. MemoryInv'
  BY <1>1 DEF BlockInv, MemoryInv, Dropping
<1>12. Saved(tables, disk)'
  <2>1. AllBlocks(tables) \subseteq Blocks
    BY <1>3, BlocksOfType
  <2>2. Agree(disk', disk, AllBlocks(tables))
    BY <1>2, <1>6, <2>1 DEF Agree
  <2> QED BY <1>1, <1>3, <2>2, SavedFrame
<1>13. FileInv' /\ SwitchInv'
  <2>1. FileBlocks(disk, Top(header)) \subseteq InUse(max_block)
    BY <1>1 DEF BlockInv, FileInv, Running
  <2>2. Agree(disk', disk, FileBlocks(disk, Top(header)))
    BY <1>2, <1>4, <1>6, <2>1 DEF Agree
  <2>3. free_list' \subseteq free_list /\ InUse(max_block) \subseteq InUse(max_block')
    BY <1>1
  <2> QED BY <1>1, <1>8, <2>2, <2>3, WriteOutside DEF BlockInv, Running, Switching
<1>14. OwnInv'
  BY <1>1, <1>2, <1>7 DEF OwnInv
<1>15. Existing' = Existing
  BY <1>1 DEF Existing
<1>16. WrittenInv'
  <2>1. \A t \in Existing : \A i \in DOMAIN tables[t] : Unchanged(tables[t][i])
    <3> TAKE t \in Existing
    <3>1. tables[t] \in Rows
      BY <1>3 DEF Existing, TablesType, Rows
    <3>2. DOMAIN tables[t] = 1 .. checkpoint.done[t]
      BY <1>1, <3>1, RowsFacts
    <3> QED BY <1>1, <3>2 DEF BlockInv, DoneInv
  <2>2. \A t \in Existing' : \A i \in DOMAIN tables'[t] : Unchanged(tables'[t][i])
    BY <1>1, <1>15, <2>1
  <2>3. disk'[checkpoint'.meta_block] = MetaRecord(Existing', checkpoint'.tabledata)
    BY <1>6, <1>7, <1>15 DEF meta, td
  <2>4. Existing' # {} => disk'[checkpoint'.tabledata] = DataRecord(Existing', tables')
    BY <1>1, <1>6, <1>7, <1>15 DEF data
  <2>5. checkpoint'.written = {checkpoint'.meta_block} \cup (IF Existing' = {} THEN {} ELSE {checkpoint'.tabledata})
    BY <1>7, <1>15 DEF W
  <2> QED BY <1>8, <1>15, <2>2, <2>3, <2>4, <2>5 DEF WrittenInv
<1>17. AccountedInv'
  <2>1. pc \in Allocated /\ pc' \in Allocated
    BY <1>1 DEF Allocated
  <2>2. ~leaked => InUse(max_block) = free_list \cup modified_blocks \cup AllBlocks(tables) \cup {mb, td}
    BY <1>1, <2>1 DEF BlockInv, AccountedInv, Running, mb, td
  <2> QED BY <1>1, <1>7, <1>8, <2>1, <2>2 DEF AccountedInv
<1> QED BY <1>9, <1>10, <1>11, <1>12, <1>13, <1>14, <1>16, <1>17 DEF BlockInv

\* Steps of a checkpoint that only move on.
LEMMA MoveOn ==
    ASSUME BlockInv, pc \in {"record", "sync_record"}, pc' \in {"sync_record", "header"},
           log' \in log_images', log_images' \subseteq Seq(Record \cup {Torn}),
           UNCHANGED <<disk, header, stable, stable_header, memory, checkpoint, commit, history>>
    PROVE  BlockInv'
<1>1. UNCHANGED <<tables, free_list, modified_blocks, max_block, active_header, iteration_count, numbers, leaked>>
  BY DEF memory, history
<1>2. TypeInv'
  BY <1>1 DEF BlockInv, TypeInv, Places, Allocated
<1>3. FlushInv' /\ MemoryInv' /\ Saved(tables, disk)' /\ FileInv' /\ SwitchInv'
  <2>1. leaked' \in BOOLEAN /\ Running /\ Running' /\ ~Switching /\ ~Switching'
    BY <1>1 DEF BlockInv, TypeInv, Running, Switching
  <2> QED BY <1>1, <2>1, SameMemory
<1>4. pc \in Allocated /\ pc' \in Allocated /\ pc \in MetaWritten /\ pc' \in MetaWritten
  BY DEF Allocated, MetaWritten
<1>5. OwnInv'
  BY <1>1, <1>4 DEF BlockInv, OwnInv
<1>6. DoneInv'
  BY DEF DoneInv
<1>7. WrittenInv'
  BY <1>1, <1>4 DEF BlockInv, WrittenInv, Existing
<1>8. AccountedInv'
  BY <1>1, <1>4 DEF BlockInv, AccountedInv, Running
<1> QED BY <1>2, <1>3, <1>5, <1>6, <1>7, <1>8 DEF BlockInv

LEMMA WriteCheckpointRecordBlocks ==
    ASSUME BlockInv, WriteCheckpointRecord
    PROVE  BlockInv'
<1>1. pc \in {"record"} /\ pc' = "sync_record"
  BY DEF WriteCheckpointRecord
<1>2. checkpoint.meta_block \in Blocks
  <2>1. checkpoint.meta_block \in InUse(max_block) /\ max_block \in Nat /\ max_block <= MaxBlocks
    BY <1>1, DurabilityAssumption DEF BlockInv, OwnInv, Allocated, TypeInv
  <2> QED BY <2>1, InUseBlocks
<1>3. CheckpointRecord(checkpoint.meta_block) \in Record
  BY <1>2 DEF CheckpointRecord, Record
<1>4. log \in log_images /\ log_images \subseteq Seq(Record \cup {Torn})
  BY DEF BlockInv, TypeInv
<1>5. Append(log, CheckpointRecord(checkpoint.meta_block)) \in Seq(Record \cup {Torn})
      /\ Append(log, Torn) \in Seq(Record \cup {Torn})
  BY <1>3, <1>4
<1>6. log' \in log_images' /\ log_images' \subseteq Seq(Record \cup {Torn})
  BY <1>4, <1>5 DEF WriteCheckpointRecord, Written
<1> QED BY <1>1, <1>6, MoveOn DEF WriteCheckpointRecord

LEMMA FlushCheckpointRecordBlocks ==
    ASSUME BlockInv, FlushCheckpointRecord
    PROVE  BlockInv'
<1>1. log' \in log_images' /\ log_images' \subseteq Seq(Record \cup {Torn})
  BY DEF FlushCheckpointRecord, BlockInv, TypeInv
<1> QED BY <1>1, MoveOn DEF FlushCheckpointRecord

\* A checkpoint ends at a point where the file is in order.
LEMMA EndBlocks ==
    ASSUME BlockInv, pc \in {"header", "truncate"}, pc' \in {"idle", "closed"},
           log' \in log_images', log_images' \subseteq Seq(Record \cup {Torn}),
           UNCHANGED <<disk, header, stable, stable_header, tables, free_list, max_block, active_header,
                       iteration_count, numbers>>,
           checkpoint' = NoCheckpoint, leaked' \in BOOLEAN, leaked => leaked',
           modified_blocks' \subseteq modified_blocks \cup checkpoint.written,
           ~leaked' => modified_blocks' = modified_blocks \cup checkpoint.written
    PROVE  BlockInv'
<1>1. NoCheckpoint \in CheckpointType /\ NoCheckpoint.done = [t \in Tables |-> 0]
  BY DurabilityAssumption DEF NoCheckpoint, CheckpointType, NoHeader, Header
<1>2. pc \in Allocated /\ pc \in MetaWritten /\ pc' \notin Allocated /\ ~Switching /\ ~Switching' /\ Running
  BY DEF Allocated, MetaWritten, Switching, Running
<1> DEFINE P == {checkpoint.meta_block, checkpoint.tabledata}
<1>3. /\ P \subseteq InUse(max_block)
      /\ P \cap (free_list \cup modified_blocks \cup AllBlocks(tables)) = {}
  BY <1>2 DEF BlockInv, OwnInv
<1>4. checkpoint.written \subseteq P /\ (~leaked => checkpoint.written = P)
  BY <1>2 DEF BlockInv, WrittenInv
<1> HIDE DEF P
<1>5. /\ Distinct(tables)
      /\ AllBlocks(tables) \cap free_list = {}
      /\ free_list \cap modified_blocks = {}
      /\ free_list \cup modified_blocks \cup AllBlocks(tables) \subseteq InUse(max_block)
      /\ \A t \in Tables : TableBlocks(tables[t]) \cap modified_blocks = {}
      /\ \A t \in Tables : TableBlocks(tables[t]) \subseteq AllBlocks(tables)
      /\ max_block \in Nat /\ max_block <= MaxBlocks
  BY BlocksOfType, DurabilityAssumption DEF BlockInv, MemoryInv, TypeInv, Dropping
<1>6. MemoryInv'
  <2>1. free_list \cap modified_blocks' = {}
    BY <1>3, <1>4, <1>5
  <2>2. free_list \cup modified_blocks' \cup AllBlocks(tables) \subseteq InUse(max_block)
    BY <1>3, <1>4, <1>5
  <2>3. \A t \in Tables : TableBlocks(tables[t]) \cap modified_blocks' = {}
    BY <1>3, <1>4, <1>5
  <2> QED BY <1>5, <2>1, <2>2, <2>3 DEF MemoryInv
<1>7. TypeInv'
  <2>1. modified_blocks' \subseteq Blocks
    BY <1>3, <1>4, <1>5, InUseBlocks
  <2> QED BY <1>1, <2>1 DEF BlockInv, TypeInv, Places
<1>8. Saved(tables, disk)'
  BY DEF BlockInv
<1>9. FlushInv' /\ OwnInv' /\ DoneInv' /\ WrittenInv'
  BY <1>2 DEF FlushInv, OwnInv, DoneInv, WrittenInv, MetaWritten
<1>10. FileInv' /\ SwitchInv'
  <2>1. CASE pc' = "idle"
    BY <1>2, <2>1, SameFile DEF BlockInv, Running
  <2>2. CASE pc' = "closed"
    <3>1. Loadable(stable, Top(header), leaked')
      BY LoadableWeaker DEF BlockInv, FileInv
    <3>2. SwitchInv'
      BY <2>2 DEF SwitchInv
    <3>3. FileInv'
      BY <1>2, <2>2, <3>1 DEF BlockInv, FileInv, Running
    <3> QED BY <3>2, <3>3
  <2> QED BY <2>1, <2>2
<1>11. AccountedInv'
  <2>1. ~leaked => InUse(max_block) = free_list \cup modified_blocks \cup AllBlocks(tables) \cup P
    BY <1>2 DEF BlockInv, AccountedInv, P
  <2>2. ~leaked' => InUse(max_block) = free_list \cup modified_blocks' \cup AllBlocks(tables)
    BY <1>4, <2>1
  <2> QED BY <1>2, <2>2 DEF AccountedInv
<1> QED BY <1>6, <1>7, <1>8, <1>9, <1>10, <1>11 DEF BlockInv

LEMMA AbortBeforeHeaderBlocks ==
    ASSUME BlockInv, AbortBeforeHeader
    PROVE  BlockInv'
<1>1. /\ pc = "header" /\ pc' \in {"idle", "closed"} /\ leaked' = TRUE /\ checkpoint' = NoCheckpoint
      /\ UNCHANGED <<disk, header, log, stable, stable_header, log_images, tables, free_list, modified_blocks,
                     max_block, active_header, iteration_count, numbers>>
  BY DEF AbortBeforeHeader, EndCheckpoint, files, memory
<1>2. log' \in log_images' /\ log_images' \subseteq Seq(Record \cup {Torn})
  BY <1>1 DEF BlockInv, TypeInv
<1> QED BY <1>1, <1>2, EndBlocks

LEMMA AbortBeforeTruncateBlocks ==
    ASSUME BlockInv, AbortBeforeTruncate
    PROVE  BlockInv'
<1>1. /\ pc = "truncate" /\ pc' \in {"idle", "closed"} /\ leaked' = TRUE /\ checkpoint' = NoCheckpoint
      /\ UNCHANGED <<disk, header, log, stable, stable_header, log_images, tables, free_list, modified_blocks,
                     max_block, active_header, iteration_count, numbers>>
  BY DEF AbortBeforeTruncate, EndCheckpoint, files, memory
<1>2. log' \in log_images' /\ log_images' \subseteq Seq(Record \cup {Torn})
  BY <1>1 DEF BlockInv, TypeInv
<1> QED BY <1>1, <1>2, EndBlocks

LEMMA TruncateLogBlocks ==
    ASSUME BlockInv, TruncateLog
    PROVE  BlockInv'
<1>1. /\ pc = "truncate" /\ pc' \in {"idle", "closed"} /\ leaked' = leaked /\ checkpoint' = NoCheckpoint
      /\ log' = <<>> /\ log_images' = log_images \cup {<<>>}
      /\ modified_blocks' = modified_blocks \cup checkpoint.written
      /\ UNCHANGED <<disk, header, stable, stable_header, tables, free_list,
                     max_block, active_header, iteration_count, numbers>>
  BY DEF TruncateLog, EndCheckpoint
<1>2. log' \in log_images' /\ log_images' \subseteq Seq(Record \cup {Torn})
  <2>1. <<>> \in Seq(Record \cup {Torn})
    OBVIOUS
  <2>2. log_images \subseteq Seq(Record \cup {Torn})
    BY DEF BlockInv, TypeInv
  <2> QED BY <1>1, <2>1, <2>2
<1>3. leaked' \in BOOLEAN
  BY <1>1 DEF BlockInv, TypeInv
<1> QED BY <1>1, <1>2, <1>3, EndBlocks

\* The file that a new header will lead to holds the tables.
LEMMA NewFile ==
    ASSUME BlockInv, pc = "header",
           NEW free, free = free_list \cup modified_blocks,
           NEW block, block \in free \cup {INVALID_BLOCK}, free # {} => block \in free,
           NEW h \in Header, h.meta_block = checkpoint.meta_block, h.free_list = block, h.block_count = max_block,
           NEW dsk, \A b \in Blocks : b # block => dsk[b] = disk[b],
           block # INVALID_BLOCK => dsk[block] = [kind |-> "free", blocks |-> free \ {block}]
    PROVE  /\ LoadTables(dsk, h) = tables
           /\ FileBlocks(dsk, h) \subseteq InUse(max_block)
           /\ FileBlocks(dsk, h) \cap (free \ {block}) = {}
           /\ Loadable(dsk, h, leaked)
<1> DEFINE mb == checkpoint.meta_block
           td == checkpoint.tabledata
<1>1. /\ max_block \in Nat /\ max_block <= MaxBlocks /\ tables \in TablesType /\ iteration_count \in Nat
      /\ AllBlocks(tables) \cap free = {} /\ Distinct(tables)
      /\ free \subseteq InUse(max_block) /\ AllBlocks(tables) \subseteq InUse(max_block)
      /\ Saved(tables, disk)
  <2>1. \A t \in Tables : TableBlocks(tables[t]) \cap modified_blocks = {}
    BY DEF BlockInv, MemoryInv, Dropping
  <2>2. AllBlocks(tables) \cap modified_blocks = {}
    BY <2>1 DEF AllBlocks
  <2>3. /\ max_block \in Nat /\ max_block <= MaxBlocks /\ tables \in TablesType /\ iteration_count \in Nat
        /\ Saved(tables, disk)
    BY DurabilityAssumption DEF BlockInv, TypeInv
  <2>4. AllBlocks(tables) \cap free_list = {} /\ free_list \cup modified_blocks \cup AllBlocks(tables) \subseteq InUse(max_block)
        /\ Distinct(tables)
    BY DEF BlockInv, MemoryInv
  <2> QED BY <2>2, <2>3, <2>4
<1>2. /\ mb # td /\ {mb, td} \subseteq InUse(max_block) /\ {mb, td} \cap (free \cup AllBlocks(tables)) = {}
  BY DEF BlockInv, OwnInv, Allocated
<1>3. /\ \A t \in Existing : \A i \in DOMAIN tables[t] : Unchanged(tables[t][i])
      /\ disk[mb] = MetaRecord(Existing, td)
      /\ Existing # {} => disk[td] = DataRecord(Existing, tables)
      /\ ~leaked => Existing # {}
  BY DEF BlockInv, WrittenInv, MetaWritten, Allocated
<1>4. InUse(max_block) \subseteq Blocks /\ max_block \in 0 .. MaxBlocks /\ INVALID_BLOCK \notin InUse(max_block)
      /\ INVALID_BLOCK \notin Blocks
  BY <1>1, InUseBlocks, DurabilityAssumption DEF Blocks, INVALID_BLOCK
<1>7. InFile(h) = InUse(max_block)
  BY DEF InFile, InUse
<1>6. h.meta_block = mb
  OBVIOUS
<1>8. /\ \A b \in Blocks : b # block => dsk[b] = disk[b]
      /\ block # INVALID_BLOCK => dsk[block] = [kind |-> "free", blocks |-> free \ {block}]
  OBVIOUS
<1> HIDE DEF mb, td
<1>9. FreeListOK(dsk, h)
  BY <1>1, <1>6, <1>7, <1>8 DEF FreeListOK
<1>10. LoadFreeList(dsk, h) = free \ {block}
  <2>1. CASE block = INVALID_BLOCK
    BY <1>1, <1>4, <2>1 DEF LoadFreeList
  <2>2. CASE block # INVALID_BLOCK
    BY <1>8, <2>2 DEF LoadFreeList
  <2> QED BY <2>1, <2>2
<1>11. /\ mb \in Blocks /\ mb # block /\ mb # INVALID_BLOCK
       /\ td \in Blocks /\ td # block
       /\ \A b \in AllBlocks(tables) : b \in Blocks /\ b # block
  BY <1>1, <1>2, <1>4
<1>12. /\ dsk[mb] = MetaRecord(Existing, td)
       /\ Existing # {} => dsk[td] = DataRecord(Existing, tables)
       /\ Saved(tables, dsk)
  <2>1. Agree(dsk, disk, AllBlocks(tables))
    BY <1>8, <1>11 DEF Agree
  <2> QED BY <1>1, <1>3, <1>8, <1>11, <2>1, SavedFrame
<1>13. /\ dsk[mb].kind = "meta" /\ dsk[mb].tables = Existing /\ dsk[mb].tabledata = td
       /\ Existing # {} => dsk[td].kind = "tabledata" /\ dsk[td].pointers = [t \in Existing |-> PointersOf(tables[t])]
  BY <1>12 DEF MetaRecord, DataRecord
<1> DEFINE p == [t \in Existing |-> PointersOf(tables[t])]
<1>14. ASSUME NEW t \in Existing
       PROVE  /\ tables[t] \in Rows /\ t \in Tables /\ DOMAIN tables[t] = 1 .. Len(tables[t]) /\ Len(tables[t]) >= 1
              /\ Len(tables[t]) \in Nat /\ tables[t] # Absent
              /\ \A i \in DOMAIN tables[t] :
                   /\ tables[t][i] \in Segment /\ tables[t][i].block \in AllBlocks(tables)
                   /\ dsk[tables[t][i].block] = [kind |-> "data", rows |-> tables[t][i].saved]
                   /\ tables[t][i].saved = tables[t][i].rows
                   /\ PersistentSegment(tables[t][i].block, dsk[tables[t][i].block].rows) = tables[t][i]
  <2>1. tables[t] \in Rows /\ t \in Tables
    BY <1>1, <1>14 DEF Existing, TablesType, Rows
  <2>2. /\ DOMAIN tables[t] = 1 .. Len(tables[t]) /\ Len(tables[t]) >= 1 /\ Len(tables[t]) \in Nat /\ tables[t] # Absent
        /\ \A i \in DOMAIN tables[t] : tables[t][i] \in Segment
    BY <2>1, RowsFacts
  <2>3. ASSUME NEW i \in DOMAIN tables[t]
        PROVE  /\ tables[t][i].block \in AllBlocks(tables)
               /\ dsk[tables[t][i].block] = [kind |-> "data", rows |-> tables[t][i].saved]
               /\ tables[t][i].saved = tables[t][i].rows
               /\ PersistentSegment(tables[t][i].block, dsk[tables[t][i].block].rows) = tables[t][i]
    <3>1. Unchanged(tables[t][i])
      BY <1>3, <1>14
    <3>2. IsPersistent(tables[t][i]) /\ tables[t][i].rows = tables[t][i].saved
      BY <3>1 DEF Unchanged, HasUpdates
    <3>3. dsk[tables[t][i].block] = [kind |-> "data", rows |-> tables[t][i].saved]
      BY <1>12, <2>1, <2>2, <3>2 DEF Saved
    <3>4. Uses(tables, t, i, tables[t][i].block)
      BY <2>2, <3>2 DEF Uses, IsPersistent
    <3>5. tables[t][i].block \in AllBlocks(tables)
      BY <2>1, <3>4, BlockOf
    <3>6. PersistentSegment(tables[t][i].block, dsk[tables[t][i].block].rows) = tables[t][i]
      BY <2>2, <3>2, <3>3 DEF PersistentSegment, Segment
    <3> QED BY <3>2, <3>3, <3>5, <3>6
  <2> QED BY <2>1, <2>2, <2>3
<1>15. ASSUME NEW t \in Existing
       PROVE  /\ p[t] \in Seq(InFile(h)) \ {<<>>} /\ DOMAIN p[t] = DOMAIN tables[t]
              /\ \A i \in DOMAIN p[t] : p[t][i] = tables[t][i].block
  <2>1. p[t] = [i \in 1 .. Len(tables[t]) |-> tables[t][i].block]
    BY <1>14, <1>15 DEF PointersOf
  <2>2. \A i \in 1 .. Len(tables[t]) : tables[t][i].block \in InFile(h)
    <3> TAKE i \in 1 .. Len(tables[t])
    <3>1. tables[t][i].block \in AllBlocks(tables)
      BY <1>14, <1>15
    <3> QED BY <1>1, <1>7, <3>1
  <2>3. Len(tables[t]) \in Nat /\ Len(tables[t]) >= 1 /\ DOMAIN tables[t] = 1 .. Len(tables[t])
    BY <1>14, <1>15
  <2> HIDE DEF p
  <2>4. p[t] \in Seq(InFile(h)) /\ DOMAIN p[t] = 1 .. Len(tables[t])
    BY <2>1, <2>2, <2>3, IsASeq
  <2>5. p[t] # <<>>
    BY <2>3, <2>4
  <2> QED BY <2>1, <2>3, <2>4, <2>5
<1>16. DOMAIN p = Existing /\ p = [t \in Existing |-> p[t]]
  OBVIOUS
<1>17. Existing # {} => dsk[td].pointers = p
  BY <1>13
<1> HIDE DEF p
<1>18. MetaOK(dsk, h)
  <2>1. Existing \subseteq Tables
    BY DEF Existing
  <2>2. p \in [Existing -> Seq(InFile(h)) \ {<<>>}]
    BY <1>15, <1>16
  <2>3. \A t \in Existing : \A i \in DOMAIN p[t] : dsk[p[t][i]] \in [kind : {"data"}, rows : Bag]
    <3> TAKE t \in Existing
    <3> TAKE i \in DOMAIN p[t]
    <3>1. i \in DOMAIN tables[t] /\ p[t][i] = tables[t][i].block
      BY <1>15
    <3>2. dsk[p[t][i]] = [kind |-> "data", rows |-> tables[t][i].saved] /\ tables[t][i] \in Segment
      BY <1>14, <3>1
    <3> QED BY <3>2 DEF Segment
  <2>4. PointersOK(dsk, h, Existing, p)
    BY <2>2, <2>3 DEF PointersOK
  <2> QED BY <1>2, <1>6, <1>7, <1>13, <1>17, <2>1, <2>4 DEF MetaOK
<1>19. LoadTables(dsk, h) = tables
  <2>1. CASE Existing = {}
    <3>1. LoadTables(dsk, h) = Absents
      BY <1>6, <1>13, <1>18, <2>1, EmptyFile
    <3>2. \A t \in Tables : tables[t] = Absent
      BY <2>1 DEF Existing
    <3>3. tables = Absents
      BY <1>1, <3>2 DEF TablesType, Absents
    <3> QED BY <3>1, <3>3
  <2>2. CASE Existing # {}
    <3> DEFINE m2 == dsk[h.meta_block]
               p2 == dsk[m2.tabledata].pointers
    <3>1. \A t \in Tables :
                LoadTables(dsk, h)[t] =
                  IF t \notin m2.tables THEN Absent
                  ELSE [i \in DOMAIN p2[t] |-> PersistentSegment(p2[t][i], dsk[p2[t][i]].rows)]
      <4>1. m2.tables # {} /\ h.meta_block # INVALID_BLOCK
        BY <1>6, <1>11, <1>13, <2>2
      <4> QED BY <1>6, <1>18, <4>1, FullFile
    <3>2. m2.tables = Existing /\ p2 = p
      BY <1>6, <1>13, <1>17, <2>2
    <3> HIDE DEF m2, p2
    <3>3. ASSUME NEW t \in Tables PROVE LoadTables(dsk, h)[t] = tables[t]
      <4>1. CASE t \notin Existing
        BY <3>1, <3>2, <4>1 DEF Existing
      <4>2. CASE t \in Existing
        <5>1. LoadTables(dsk, h)[t] = [i \in DOMAIN p[t] |-> PersistentSegment(p[t][i], dsk[p[t][i]].rows)]
          BY <3>1, <3>2, <4>2
        <5>2. \A i \in DOMAIN p[t] : PersistentSegment(p[t][i], dsk[p[t][i]].rows) = tables[t][i]
          <6> TAKE i \in DOMAIN p[t]
          <6>1. i \in DOMAIN tables[t] /\ p[t][i] = tables[t][i].block
            BY <1>15, <4>2
          <6>2. PersistentSegment(tables[t][i].block, dsk[tables[t][i].block].rows) = tables[t][i]
            BY <1>14, <4>2, <6>1
          <6> QED BY <6>1, <6>2
        <5>3. LoadTables(dsk, h)[t] = [i \in DOMAIN tables[t] |-> tables[t][i]]
          BY <1>15, <4>2, <5>1, <5>2
        <5>4. tables[t] = [i \in DOMAIN tables[t] |-> tables[t][i]]
          <6>1. tables[t] \in Seq(Segment)
            BY <1>14, <4>2 DEF Rows
          <6> QED BY <6>1
        <5> QED BY <5>3, <5>4
      <4> QED BY <4>1, <4>2
    <3>4. LoadTables(dsk, h) = [t \in Tables |-> LoadTables(dsk, h)[t]]
      BY DEF LoadTables
    <3>5. tables = [t \in Tables |-> tables[t]]
      BY <1>1 DEF TablesType
    <3> HIDE DEF LoadTables
    <3> QED BY <3>3, <3>4, <3>5
  <2> QED BY <2>1, <2>2
<1>20. FileBlocks(dsk, h) = MetaBlocks(dsk, h) \cup AllBlocks(tables) /\ FileBlocks(dsk, h) \subseteq InFile(h)
  BY <1>6, <1>9, <1>18, <1>19, LoadedFile
<1>21. MetaBlocks(dsk, h) = ({block, mb} \ {INVALID_BLOCK}) \cup (IF Existing = {} THEN {} ELSE {td})
  <2>1. MetaOf(dsk, h) = dsk[mb]
    BY <1>6, <1>11 DEF MetaOf
  <2>2. dsk[mb] # Empty
    BY <1>13 DEF Empty
  <2> QED BY <1>6, <1>13, <2>1, <2>2 DEF MetaBlocks
<1>22. ApartOK(dsk, h)
  <2>1. AllBlocks(tables) \cap MetaBlocks(dsk, h) = {}
    BY <1>2, <1>11, <1>21
  <2>2. (AllBlocks(tables) \cup MetaBlocks(dsk, h)) \cap (free \ {block}) = {}
    BY <1>1, <1>2, <1>21
  <2> QED BY <1>1, <1>10, <1>19, <2>1, <2>2 DEF ApartOK
<1>23. GoodFile(dsk, h)
  BY <1>6, <1>9, <1>18, <1>22 DEF GoodFile
<1>24. ~leaked => Whole(dsk, h)
  <2>1. ~leaked => InUse(max_block) = free \cup AllBlocks(tables) \cup {mb, td}
    BY DEF BlockInv, AccountedInv, Running, Allocated, mb, td
  <2>2. ~leaked => FileBlocks(dsk, h) = ({block, mb, td} \ {INVALID_BLOCK}) \cup AllBlocks(tables)
    BY <1>3, <1>4, <1>11, <1>20, <1>21
  <2>3. ~leaked => InUse(max_block) = FileBlocks(dsk, h) \cup (free \ {block})
    BY <1>4, <1>11, <2>1, <2>2
  <2> QED BY <1>7, <1>10, <2>3 DEF Whole
<1>25. FileBlocks(dsk, h) \cap (free \ {block}) = {}
  BY <1>10, <1>19, <1>20, <1>22 DEF ApartOK
<1>26. Loadable(dsk, h, leaked)
  BY <1>23, <1>24 DEF Loadable
<1> QED BY <1>7, <1>19, <1>20, <1>25, <1>26

LEMMA WriteFreeListBlocks ==
    ASSUME BlockInv, WriteFreeList
    PROVE  /\ BlockInv'
           /\ LoadTables(disk', checkpoint'.header) = tables
           /\ checkpoint'.header.meta_block = checkpoint.meta_block
           /\ ~checkpoint'.overwrites => Agree(disk', disk, FileBlocks(disk, Top(header)))
<1> DEFINE free == free_list \cup modified_blocks
           block == IF free = {} THEN INVALID_BLOCK ELSE GetFreeBlockId(free, max_block).block
           h == [iteration |-> iteration_count + 1, meta_block |-> checkpoint.meta_block,
                 free_list |-> block, block_count |-> max_block]
           over == block \in FileBlocks(disk, header[active_header])
<1>1. /\ pc = "header" /\ pc' = "write_header"
      /\ iteration_count' = iteration_count + 1
      /\ free_list' = free \ {block}
      /\ modified_blocks' = {block} \ {INVALID_BLOCK}
      /\ disk' = [b \in Blocks |-> IF b = block THEN [kind |-> "free", blocks |-> free \ {block}] ELSE disk[b]]
      /\ checkpoint' = [checkpoint EXCEPT !.header = h, !.overwrites = over]
      /\ UNCHANGED <<header, log, stable, stable_header, log_images, tables, max_block, active_header, commit,
                     numbers, leaked>>
  BY DEF WriteFreeList, history
<1>2. /\ max_block \in Nat /\ max_block <= MaxBlocks /\ iteration_count \in Nat /\ checkpoint \in CheckpointType
      /\ free \subseteq InUse(max_block) /\ tables \in TablesType
      /\ AllBlocks(tables) \subseteq InUse(max_block) /\ Distinct(tables) /\ Saved(tables, disk)
  BY DurabilityAssumption DEF BlockInv, TypeInv, MemoryInv
<1>3. AllBlocks(tables) \cap free = {} /\ \A t \in Tables : TableBlocks(tables[t]) \subseteq AllBlocks(tables)
  <2>1. \A t \in Tables : TableBlocks(tables[t]) \cap modified_blocks = {}
    BY <1>1 DEF BlockInv, MemoryInv, Dropping
  <2>2. AllBlocks(tables) \cap modified_blocks = {}
    BY <2>1 DEF AllBlocks
  <2>3. AllBlocks(tables) \cap free_list = {}
    BY DEF BlockInv, MemoryInv
  <2> QED BY <1>2, <2>2, <2>3, BlocksOfType
<1>4. block \in free \cup {INVALID_BLOCK} /\ (free # {} => block \in free)
  <2> HIDE DEF free
  <2>1. CASE free = {}
    BY <2>1
  <2>2. CASE free # {}
    BY <1>2, <2>2, AllocateOne
  <2> QED BY <2>1, <2>2
<1>5. InUse(max_block) \subseteq Blocks /\ max_block \in 0 .. MaxBlocks /\ INVALID_BLOCK \notin InUse(max_block)
      /\ INVALID_BLOCK \notin Blocks
  BY <1>2, InUseBlocks, DurabilityAssumption DEF Blocks, INVALID_BLOCK
<1> DEFINE P == {checkpoint.meta_block, checkpoint.tabledata}
<1>6. /\ checkpoint.meta_block # checkpoint.tabledata /\ P \subseteq InUse(max_block)
      /\ P \cap (free \cup AllBlocks(tables)) = {}
  BY <1>1 DEF BlockInv, OwnInv, Allocated
<1>7. /\ h \in Header /\ h.meta_block = checkpoint.meta_block /\ h.free_list = block /\ h.block_count = max_block
      /\ h.iteration = iteration_count + 1
  <2> HIDE DEF block
  <2> QED BY <1>2, <1>4, <1>5, <1>6 DEF Header
<1>8. /\ \A b \in Blocks : b # block => disk'[b] = disk[b]
      /\ block # INVALID_BLOCK => disk'[block] = [kind |-> "free", blocks |-> free \ {block}]
  <2> HIDE DEF block, free
  <2> QED BY <1>1, <1>2, <1>4, <1>5
<1> HIDE DEF block, h, free
<1>9. /\ LoadTables(disk', h) = tables
      /\ FileBlocks(disk', h) \subseteq InUse(max_block)
      /\ FileBlocks(disk', h) \cap (free \ {block}) = {}
      /\ Loadable(disk', h, leaked)
  <2>1. free = free_list \cup modified_blocks
    BY DEF free
  <2> DEFINE dsk == disk'
  <2>2. /\ \A b \in Blocks : b # block => dsk[b] = disk[b]
        /\ block # INVALID_BLOCK => dsk[block] = [kind |-> "free", blocks |-> free \ {block}]
    BY <1>8
  <2>3. pc = "header"
    BY <1>1
  <2> HIDE DEF dsk
  <2>4. /\ LoadTables(dsk, h) = tables
        /\ FileBlocks(dsk, h) \subseteq InUse(max_block)
        /\ FileBlocks(dsk, h) \cap (free \ {block}) = {}
        /\ Loadable(dsk, h, leaked)
    BY ONLY BlockInv, <1>4, <1>7, <2>1, <2>2, <2>3, NewFile
  <2> QED BY <2>4 DEF dsk
<1>10. over \in BOOLEAN
  OBVIOUS
<1>11. /\ checkpoint' \in CheckpointType /\ checkpoint'.meta_block = checkpoint.meta_block
       /\ checkpoint'.tabledata = checkpoint.tabledata /\ checkpoint'.written = checkpoint.written
       /\ checkpoint'.header = h /\ checkpoint'.overwrites = over
  <2> HIDE DEF over
  <2> QED BY <1>1, <1>2, <1>7, <1>10 DEF CheckpointType
<1>12. /\ stable_header = header /\ active_header = Newest(header)
       /\ iteration_count = Top(header).iteration
       /\ Loadable(stable, Top(header), leaked)
       /\ Agree(disk, stable, FileBlocks(stable, Top(header)))
       /\ FileBlocks(disk, Top(header)) \subseteq InUse(max_block)
  BY <1>1 DEF BlockInv, FileInv, Running, Switching
<1>13. FileBlocks(disk, Top(header)) = FileBlocks(stable, Top(header))
  BY <1>12, LoadableFrame
<1>14. ~over => Agree(disk', disk, FileBlocks(disk, Top(header)))
  <2>1. ~over => block \notin FileBlocks(disk, Top(header))
    BY <1>12 DEF Top
  <2> HIDE DEF over
  <2> QED BY <1>5, <1>8, <1>12, <2>1 DEF Agree
<1>15. ~over => Agree(disk', stable, FileBlocks(stable, Top(header)))
  BY <1>12, <1>13, <1>14 DEF Agree
<1> HIDE DEF over
<1>15a. Agree(disk', stable, FileBlocks(stable, Top(header)) \ {h.free_list})
  <2>1. \A b \in FileBlocks(stable, Top(header)) : b \in Blocks /\ disk[b] = stable[b]
    BY <1>5, <1>12, <1>13 DEF Agree
  <2> QED BY <1>7, <1>8, <2>1 DEF Agree
<1>16. TypeInv'
  <2>1. IsDisk(disk')
    BY <1>1 DEF IsDisk
  <2>2. free_list' \subseteq Blocks /\ modified_blocks' \subseteq Blocks
    BY <1>1, <1>2, <1>4, <1>5
  <2>3. pc' \in Allocated /\ pc' \in Places
    BY <1>1 DEF Allocated, Places
  <2>4. iteration_count' \in Nat
    BY <1>1, <1>2
  <2> QED BY <1>1, <1>11, <2>1, <2>2, <2>3, <2>4 DEF BlockInv, TypeInv
<1>17. FlushInv' /\ DoneInv'
  BY <1>1 DEF FlushInv, DoneInv
<1>18. modified_blocks' \subseteq free /\ free_list' \subseteq free /\ free_list' \cap modified_blocks' = {}
       /\ free = free_list' \cup modified_blocks'
  BY <1>1, <1>2, <1>4, <1>5
<1>19. MemoryInv'
  <2>1. \A t \in Tables : TableBlocks(tables[t]) \cap modified_blocks' = {}
    BY <1>3, <1>18
  <2>2. AllBlocks(tables) \cap free_list' = {} /\ free_list' \cup modified_blocks' \cup AllBlocks(tables) \subseteq InUse(max_block)
    BY <1>2, <1>3, <1>18
  <2> QED BY <1>1, <1>2, <1>18, <2>1, <2>2 DEF MemoryInv
<1>20. block \notin AllBlocks(tables) /\ block \notin P /\ AllBlocks(tables) \subseteq Blocks /\ P \subseteq Blocks
  BY <1>2, <1>3, <1>4, <1>5, <1>6
<1>21. Saved(tables, disk)'
  <2>1. Agree(disk', disk, AllBlocks(tables))
    BY <1>8, <1>20 DEF Agree
  <2> QED BY <1>1, <1>2, <2>1, SavedFrame
<1>22. OwnInv'
  <2>1. P \cap (free_list' \cup modified_blocks' \cup AllBlocks(tables')) = {}
    BY <1>1, <1>6, <1>18
  <2> QED BY <1>1, <1>6, <1>11, <2>1 DEF OwnInv
<1>23. WrittenInv'
  <2>1. disk'[checkpoint.meta_block] = disk[checkpoint.meta_block] /\ disk'[checkpoint.tabledata] = disk[checkpoint.tabledata]
    BY <1>8, <1>20
  <2>2. Existing' = Existing
    BY <1>1 DEF Existing
  <2>3. pc \in MetaWritten
    BY <1>1 DEF MetaWritten, Allocated
  <2> QED BY <1>1, <1>11, <2>1, <2>2, <2>3 DEF BlockInv, WrittenInv
<1>24. FileInv'
  BY <1>1, <1>12 DEF FileInv, Running, Switching
<1>25. SwitchInv'
  <2>1. iteration_count' > Top(header).iteration
    BY <1>1, <1>2, <1>12
  <2> QED BY <1>1, <1>7, <1>9, <1>11, <1>15, <1>15a, <2>1 DEF SwitchInv
<1>26. AccountedInv'
  <2>1. pc \in Allocated /\ pc' \in Allocated
    BY <1>1 DEF Allocated
  <2>2. ~leaked => InUse(max_block) = free \cup AllBlocks(tables) \cup P
    BY <1>1, <2>1 DEF BlockInv, AccountedInv, Running, free
  <2> QED BY <1>1, <1>11, <1>18, <2>1, <2>2 DEF AccountedInv
<1>27. BlockInv'
  BY <1>16, <1>17, <1>19, <1>21, <1>22, <1>23, <1>24, <1>25, <1>26 DEF BlockInv
<1> QED BY <1>7, <1>9, <1>11, <1>14, <1>27

LEMMA OtherHeader ==
    ASSUME NEW hs \in [{0, 1} -> Header], NEW h \in Header, h.iteration > Top(hs).iteration,
           NEW new, new = [hs EXCEPT ![1 - Newest(hs)] = h]
    PROVE  /\ new \in [{0, 1} -> Header] /\ Newest(new) = 1 - Newest(hs) /\ Top(new) = h
           /\ Newest(hs) \in {0, 1} /\ Newest(hs) = 1 - Newest(new)
<1>1. Newest(hs) \in {0, 1}
  BY DEF Newest
<1>2. CASE Newest(hs) = 0
  <2>1. new[1] = h /\ new[0] = hs[0] /\ new \in [{0, 1} -> Header] /\ Top(hs) = hs[0]
    BY <1>2 DEF Top
  <2>2. Newest(new) = 1
    BY <2>1 DEF Newest, Header
  <2> QED BY <1>2, <2>1, <2>2 DEF Top
<1>3. CASE Newest(hs) = 1
  <2>1. new[0] = h /\ new[1] = hs[1] /\ new \in [{0, 1} -> Header] /\ Top(hs) = hs[1]
    BY <1>3 DEF Top
  <2>2. Newest(new) = 0
    BY <2>1 DEF Newest, Header
  <2> QED BY <1>3, <2>1, <2>2 DEF Top
<1> QED BY <1>1, <1>2, <1>3

LEMMA WriteHeaderBlocks ==
    ASSUME BlockInv, WriteHeader
    PROVE  BlockInv' /\ Top(header') = checkpoint.header
<1>1. /\ pc = "write_header" /\ pc' = "sync_header"
      /\ stable' = disk
      /\ header' = [header EXCEPT ![1 - active_header] = checkpoint.header]
      /\ active_header' = 1 - active_header
      /\ UNCHANGED <<disk, log, stable_header, log_images, tables, free_list, modified_blocks, max_block,
                     iteration_count, checkpoint, commit, numbers, leaked>>
  BY DEF WriteHeader, history
<1>2. /\ header \in [{0, 1} -> Header] /\ active_header \in {0, 1} /\ checkpoint.header \in Header
      /\ IsDisk(disk)
  BY DEF BlockInv, TypeInv, CheckpointType
<1>3. /\ stable_header = header /\ active_header = Newest(header)
      /\ Loadable(stable, Top(header), leaked)
  BY <1>1 DEF BlockInv, FileInv, Running
<1>4. /\ Loadable(disk, checkpoint.header, leaked)
      /\ checkpoint.header.iteration = iteration_count
      /\ iteration_count > Top(header).iteration
      /\ FileBlocks(disk, checkpoint.header) \cap free_list = {}
      /\ FileBlocks(disk, checkpoint.header) \subseteq InUse(max_block)
      /\ ~checkpoint.overwrites => Agree(disk, stable, FileBlocks(stable, Top(header)))
  BY <1>1 DEF BlockInv, SwitchInv
<1>5. /\ header' \in [{0, 1} -> Header] /\ Newest(header') = 1 - Newest(header) /\ Top(header') = checkpoint.header
      /\ Newest(header) \in {0, 1} /\ Newest(header) = 1 - Newest(header')
  <2> DEFINE hs == header'
             h == checkpoint.header
  <2>1. hs = [header EXCEPT ![1 - Newest(header)] = h] /\ h \in Header /\ h.iteration > Top(header).iteration
    BY <1>1, <1>2, <1>3, <1>4
  <2> HIDE DEF hs, h
  <2>2. /\ hs \in [{0, 1} -> Header] /\ Newest(hs) = 1 - Newest(header) /\ Top(hs) = h
        /\ Newest(header) \in {0, 1} /\ Newest(header) = 1 - Newest(hs)
    BY <1>2, <2>1, OtherHeader
  <2> QED BY <2>2 DEF hs, h
<1>6. pc \in Allocated /\ pc' \in Allocated /\ pc \in MetaWritten /\ pc' \in MetaWritten /\ pc' \in Places
  BY <1>1 DEF Allocated, MetaWritten, Places
<1>7. TypeInv'
  <2>1. active_header' \in {0, 1}
    BY <1>1, <1>2
  <2> QED BY <1>1, <1>2, <1>5, <1>6, <2>1 DEF BlockInv, TypeInv
<1>8. FlushInv' /\ DoneInv'
  BY <1>1 DEF FlushInv, DoneInv
<1>9. MemoryInv' /\ Saved(tables, disk)'
  BY <1>1 DEF BlockInv, MemoryInv, Dropping
<1>10. OwnInv'
  BY <1>1, <1>6 DEF BlockInv, OwnInv
<1>11. WrittenInv'
  BY <1>1, <1>6 DEF BlockInv, WrittenInv, Existing
<1>12. FileInv'
  BY <1>1, <1>3, <1>4, <1>5 DEF FileInv, Switching, Running
<1>13. SwitchInv'
  <2>1. ~checkpoint.overwrites => Loadable(disk, Top(header), leaked)
    BY <1>3, <1>4, LoadableFrame
  <2>2. Newest(stable_header') = 1 - active_header' /\ Top(stable_header') = stable_header'[1 - active_header']
    BY <1>1, <1>2, <1>3, <1>5 DEF Top
  <2> QED BY <1>1, <1>3, <1>4, <1>5, <2>1, <2>2 DEF SwitchInv
<1>14. AccountedInv'
  BY <1>1, <1>6 DEF BlockInv, AccountedInv, Running
<1>15. BlockInv'
  BY <1>7, <1>8, <1>9, <1>10, <1>11, <1>12, <1>13, <1>14 DEF BlockInv
<1> QED BY <1>5, <1>15

LEMMA SyncHeaderBlocks ==
    ASSUME BlockInv, SyncHeader
    PROVE  BlockInv'
<1>1. /\ pc = "sync_header" /\ pc' = "truncate"
      /\ stable_header' = header
      /\ UNCHANGED <<disk, header, log, stable, log_images, tables, free_list, modified_blocks, max_block,
                     active_header, iteration_count, checkpoint, commit, numbers, leaked>>
  BY DEF SyncHeader, history, memory
<1>2. pc \in Allocated /\ pc' \in Allocated /\ pc \in MetaWritten /\ pc' \in MetaWritten /\ pc' \in Places
  BY <1>1 DEF Allocated, MetaWritten, Places
<1>3. TypeInv'
  BY <1>1, <1>2 DEF BlockInv, TypeInv
<1>4. FlushInv' /\ DoneInv' /\ SwitchInv'
  BY <1>1 DEF FlushInv, DoneInv, SwitchInv
<1>5. MemoryInv' /\ Saved(tables, disk)'
  BY <1>1 DEF BlockInv, MemoryInv, Dropping
<1>6. OwnInv'
  BY <1>1, <1>2 DEF BlockInv, OwnInv
<1>7. WrittenInv'
  BY <1>1, <1>2 DEF BlockInv, WrittenInv, Existing
<1>8. FileInv'
  <2>1. stable = disk /\ Loadable(disk, Top(header), leaked)
    BY <1>1 DEF BlockInv, SwitchInv
  <2>2. Agree(disk, stable, FileBlocks(stable, Top(header)))
    BY <2>1 DEF Agree
  <2> QED BY <1>1, <2>1, <2>2 DEF BlockInv, FileInv, Running, Switching
<1>9. AccountedInv'
  BY <1>1, <1>2 DEF BlockInv, AccountedInv, Running
<1> QED BY <1>3, <1>4, <1>5, <1>6, <1>7, <1>8, <1>9 DEF BlockInv

(***************************************************************************)
(* Crash and restart.                                                      *)
(***************************************************************************)
\* What a crash leaves can be loaded: the file of one of the headers, none of whose blocks
\* was written since.
LEMMA CrashFile ==
    ASSUME BlockInv, HeaderIsAtomic, Crash
    PROVE  /\ Loadable(disk', Top(header'), leaked)
           /\ pc # "sync_header" => header' = header /\ Agree(disk', stable, FileBlocks(stable, Top(header)))
           /\ pc = "sync_header" => disk' = disk
           /\ InHeaderWrite = FALSE /\ IsDisk(disk')
<1>1. /\ ~InHeaderWrite
      /\ header' \in {header, stable_header}
  BY DEF Crash, HeaderIsAtomic, TornHeaders
<1>2. PICK kept \in SUBSET {b \in ReachableBlocks : disk[b] # stable[b]} :
         disk' = [b \in Blocks |-> IF b \in kept THEN disk[b] ELSE stable[b]]
  BY DEF Crash
<1>3. IsDisk(disk) /\ IsDisk(stable) /\ pc \in Places
  BY DEF BlockInv, TypeInv
<1>4. IsDisk(disk')
  BY <1>2 DEF IsDisk
<1>5. pc = "sync_header" => disk' = disk
  <2> HAVE pc = "sync_header"
  <2>1. stable = disk
    BY DEF BlockInv, SwitchInv
  <2> QED BY <1>2, <1>3, <2>1 DEF IsDisk
<1>6. pc # "sync_header" => header' = header /\ Agree(disk', stable, FileBlocks(stable, Top(header)))
                            /\ Loadable(stable, Top(header), leaked)
  <2> HAVE pc # "sync_header"
  <2>1. stable_header = header /\ Loadable(stable, Top(header), leaked)
    BY DEF BlockInv, FileInv
  <2>2. Agree(disk, stable, FileBlocks(stable, Top(header)))
    <3>1. CASE pc = "write_header"
      BY <1>1, <3>1 DEF InHeaderWrite, BlockInv, SwitchInv
    <3>2. CASE pc # "write_header"
      BY <3>2 DEF BlockInv, FileInv, Switching
    <3> QED BY <3>1, <3>2
  <2>3. FileBlocks(stable, Top(header)) \subseteq Blocks
    <3>1. Top(header) \in Header /\ FileBlocks(stable, Top(header)) \subseteq InFile(Top(header))
      BY <2>1, LoadableFacts
    <3> QED BY <3>1, SizesAreNat
  <2>4. Agree(disk', stable, FileBlocks(stable, Top(header)))
    BY <1>2, <2>2, <2>3 DEF Agree
  <2> QED BY <1>1, <2>1, <2>4
<1>7. Loadable(disk', Top(header'), leaked)
  <2>1. CASE pc # "sync_header"
    BY <1>6, <2>1, LoadableFrame
  <2>2. CASE pc = "sync_header"
    <3>1. Loadable(disk, Top(header), leaked) /\ (~checkpoint.overwrites => Loadable(disk, Top(stable_header), leaked))
      BY <2>2 DEF BlockInv, SwitchInv
    <3>2. ~checkpoint.overwrites
      BY <1>1, <2>2 DEF InHeaderWrite
    <3> QED BY <1>1, <1>5, <2>2, <3>1, <3>2
  <2> QED BY <2>1, <2>2
<1> QED BY <1>1, <1>4, <1>5, <1>6, <1>7

LEMMA CrashBlocks ==
    ASSUME BlockInv, HeaderIsAtomic, Crash
    PROVE  BlockInv'
<1>1. /\ pc' = "down" /\ stable' = disk' /\ stable_header' = header' /\ header' \in {header, stable_header}
      /\ log' \in log_images /\ log_images' = {log'}
      /\ tables' = Absents /\ free_list' = {} /\ modified_blocks' = {} /\ max_block' = 0
      /\ active_header' = 0 /\ iteration_count' = 0
      /\ checkpoint' = NoCheckpoint
      /\ UNCHANGED <<numbers, leaked>>
  BY DEF Crash, HeaderIsAtomic, TornHeaders
<1>2. Loadable(disk', Top(header'), leaked) /\ IsDisk(disk')
  BY CrashFile
<1>3. NoCheckpoint \in CheckpointType /\ NoCheckpoint.done = [t \in Tables |-> 0]
  BY DurabilityAssumption DEF NoCheckpoint, CheckpointType, NoHeader, Header
<1>4. Absents \in TablesType /\ \A t \in Tables : Absents[t] = Absent
  BY DEF Absents, TablesType
<1>5. AllBlocks(Absents) = {} /\ (\A t \in Tables : TableBlocks(Absents[t]) = {}) /\ Distinct(Absents) /\ Saved(Absents, disk')
  BY <1>4 DEF AllBlocks, TableBlocks, Distinct, Saved
<1>6. TypeInv'
  <2>1. header' \in [{0, 1} -> Header]
    BY <1>1 DEF BlockInv, TypeInv
  <2>2. log' \in log_images' /\ log_images' \subseteq Seq(Record \cup {Torn})
    BY <1>1 DEF BlockInv, TypeInv
  <2>3. 0 \in 0 .. MaxBlocks
    BY DurabilityAssumption
  <2> QED BY <1>1, <1>2, <1>3, <1>4, <2>1, <2>2, <2>3 DEF BlockInv, TypeInv, Places
<1>7. FlushInv' /\ OwnInv' /\ DoneInv' /\ WrittenInv' /\ SwitchInv' /\ AccountedInv'
  BY <1>1 DEF FlushInv, OwnInv, DoneInv, WrittenInv, Allocated, MetaWritten, SwitchInv, AccountedInv, Running
<1>8. MemoryInv' /\ Saved(tables, disk)'
  BY <1>1, <1>5 DEF MemoryInv
<1>9. FileInv'
  <2>1. Agree(disk', stable', FileBlocks(stable', Top(header')))
    BY <1>1 DEF Agree
  <2> QED BY <1>1, <1>2, <2>1 DEF FileInv, Running
<1> QED BY <1>6, <1>7, <1>8, <1>9 DEF BlockInv

LEMMA HeadersAreReadable ==
    ASSUME NEW hs \in [{0, 1} -> Header]
    PROVE  HeadersReadable(hs)
<1>1. TornHeader.iteration = -1
  BY DEF TornHeader, NoHeader
<1>2. \A i \in {0, 1} : hs[i].iteration \in Nat
  BY DEF Header
<1> QED BY <1>1, <1>2 DEF HeadersReadable

\* The file that a restart finds.
LEMMA RestartFile ==
    ASSUME BlockInv, pc \in {"down", "closed"}
    PROVE  Loadable(disk, Top(header), leaked) /\ FileBlocks(disk, Top(header)) = FileBlocks(stable, Top(header))
<1>1. Loadable(stable, Top(header), leaked) /\ Agree(disk, stable, FileBlocks(stable, Top(header)))
  BY DEF BlockInv, FileInv, Switching
<1> QED BY <1>1, LoadableFrame

LEMMA RestartBlocks ==
    ASSUME BlockInv, Restart
    PROVE  BlockInv'
<1> DEFINE h == Top(header)
           loaded == LoadTables(disk, h)
           replayed == Replay(loaded, h, log)
<1>1. pc \in {"down", "closed"}
      /\ UNCHANGED <<disk, header, stable, stable_header, checkpoint, commit, numbers>>
  BY DEF Restart
<1>2. /\ h \in Header /\ loaded \in TablesType /\ Distinct(loaded)
      /\ FileBlocks(disk, h) = MetaBlocks(disk, h) \cup AllBlocks(loaded)
      /\ MetaBlocks(disk, h) \cap AllBlocks(loaded) = {}
      /\ FileBlocks(disk, h) \cap LoadFreeList(disk, h) = {}
      /\ FileBlocks(disk, h) \subseteq InFile(h) /\ LoadFreeList(disk, h) \subseteq InFile(h)
      /\ Saved(loaded, disk)
      /\ Readable(disk, h)
      /\ ~leaked => InFile(h) = FileBlocks(disk, h) \cup LoadFreeList(disk, h)
      /\ Loadable(disk, h, leaked)
  BY <1>1, RestartFile, LoadableFacts
<1>2a. HeadersReadable(header)
  BY HeadersAreReadable DEF BlockInv, TypeInv
<1>3. /\ active_header' = Newest(header)
      /\ iteration_count' = h.iteration
      /\ max_block' = h.block_count
      /\ free_list' = LoadFreeList(disk, h)
      /\ modified_blocks' = MetaBlocks(disk, h) \cup replayed.modified
      /\ tables' = replayed.tables
      /\ log' \in {<<>>, log}
      /\ log_images' = log_images \cup {log'}
      /\ leaked' = (leaked \/ AllBlocks(loaded) # AllBlocks(replayed.tables) \cup replayed.modified)
      /\ pc' = "idle"
  BY <1>2, <1>2a DEF Restart, Top
<1>4. log \in Seq(Record \cup {Torn}) /\ log_images \subseteq Seq(Record \cup {Torn})
  BY DEF BlockInv, TypeInv
<1>5. ReplayKeeps(replayed, loaded)
  BY <1>2, <1>4, ReplayResult
<1>6. /\ replayed.tables \in TablesType /\ replayed.modified \subseteq AllBlocks(loaded)
      /\ Thins(replayed.tables, loaded)
      /\ replayed.modified \cap AllBlocks(replayed.tables) = {}
  BY <1>5 DEF ReplayKeeps
<1>7. /\ AllBlocks(replayed.tables) \subseteq AllBlocks(loaded) /\ Distinct(replayed.tables)
      /\ Saved(replayed.tables, disk)
      /\ \A t \in Tables : TableBlocks(replayed.tables[t]) \subseteq AllBlocks(replayed.tables)
  BY <1>2, <1>6, ThinsKeeps, BlocksOfType
<1>8. /\ h.block_count \in 0 .. MaxBlocks /\ h.iteration \in Nat /\ InFile(h) \subseteq Blocks
      /\ InUse(h.block_count) = InFile(h)
  BY <1>2, SizesAreNat DEF Header, InUse, InFile
<1>9. leaked' \in BOOLEAN /\ (leaked => leaked')
      /\ (~leaked' => AllBlocks(loaded) = AllBlocks(replayed.tables) \cup replayed.modified)
  BY <1>3 DEF BlockInv, TypeInv
<1> HIDE DEF h, loaded, replayed
<1>10. TypeInv'
  <2>1. free_list' \subseteq Blocks /\ modified_blocks' \subseteq Blocks
    BY <1>2, <1>3, <1>6, <1>8
  <2>2. log' \in log_images' /\ log_images' \subseteq Seq(Record \cup {Torn})
    <3>1. <<>> \in Seq(Record \cup {Torn})
      OBVIOUS
    <3> QED BY <1>3, <1>4, <3>1
  <2>3. active_header' \in {0, 1}
    BY <1>3 DEF Newest
  <2>4. pc' \in Places /\ pc \notin Allocated
    BY <1>1, <1>3 DEF Places, Allocated
  <2> QED BY <1>1, <1>3, <1>6, <1>8, <1>9, <2>1, <2>2, <2>3, <2>4 DEF BlockInv, TypeInv
<1>11. FlushInv' /\ OwnInv' /\ DoneInv' /\ WrittenInv' /\ SwitchInv'
  BY <1>3 DEF FlushInv, OwnInv, DoneInv, WrittenInv, Allocated, MetaWritten, SwitchInv
<1>12. MemoryInv'
  <2>1. AllBlocks(tables') \cap free_list' = {}
    BY <1>2, <1>3, <1>7
  <2>2. free_list' \cap modified_blocks' = {}
    BY <1>2, <1>3, <1>6
  <2>3. free_list' \cup modified_blocks' \cup AllBlocks(tables') \subseteq InUse(max_block')
    BY <1>2, <1>3, <1>6, <1>7, <1>8
  <2>4. AllBlocks(tables') \cap modified_blocks' = {}
    BY <1>2, <1>3, <1>6, <1>7
  <2>5. \A t \in Tables : TableBlocks(tables'[t]) \cap modified_blocks' = {}
    BY <1>3, <1>7, <2>4
  <2> QED BY <1>3, <1>7, <2>1, <2>2, <2>3, <2>5 DEF MemoryInv
<1>13. Saved(tables, disk)'
  BY <1>1, <1>3, <1>7
<1>14. FileInv'
  <2>1. stable_header = header /\ Loadable(stable, Top(header), leaked) /\ Agree(disk, stable, FileBlocks(stable, Top(header)))
    BY <1>1 DEF BlockInv, FileInv, Switching
  <2>2. Loadable(stable, Top(header), leaked')
    BY <1>9, <2>1, LoadableWeaker
  <2>3. h = Top(header)
    BY DEF h
  <2>4. FileBlocks(disk, Top(header)) \cap free_list' = {} /\ FileBlocks(disk, Top(header)) \subseteq InUse(max_block')
    BY <1>2, <1>3, <1>8, <2>3
  <2> QED BY <1>1, <1>3, <2>1, <2>2, <2>3, <2>4 DEF FileInv, Running, Switching
<1>15. AccountedInv'
  <2>1. ~leaked' => InFile(h) = MetaBlocks(disk, h) \cup AllBlocks(replayed.tables) \cup replayed.modified \cup LoadFreeList(disk, h)
    BY <1>2, <1>9
  <2> QED BY <1>3, <1>8, <2>1 DEF AccountedInv, Allocated
<1> QED BY <1>10, <1>11, <1>12, <1>13, <1>14, <1>15 DEF BlockInv

(***************************************************************************)
(* The theorems.                                                           *)
(***************************************************************************)
LEMMA StepBlocks ==
    ASSUME BlockInv, HeaderIsAtomic, DropsSucceed, [Next]_vars
    PROVE  BlockInv'
<1>1. ASSUME NEW op \in Operations, NEW t \in Tables, WriteToLog(op, t) PROVE BlockInv'
  BY <1>1, WriteToLogBlocks
<1>2. ASSUME NEW op \in Operations, NEW t \in Tables, CommitAndCheckpoint(op, t) PROVE BlockInv'
  BY <1>2, CommitAndCheckpointBlocks
<1>3. CASE FlushCommit
  BY <1>3, FlushCommitBlocks
<1>4. CASE FailCommit
  BY <1>4, FailCommitBlocks
<1>5. ASSUME NEW reason \in {"statement", "close"}, StartCheckpoint(reason) PROVE BlockInv'
  BY <1>5, StartCheckpointBlocks
<1>6. CASE CloseWithoutCheckpoint
  BY <1>6, CloseBlocks
<1>7. CASE AllocateMetadata
  BY <1>7, AllocateMetadataBlocks
<1>8. ASSUME NEW t \in Tables, WriteSegment(t) PROVE BlockInv'
  BY <1>8, WriteSegmentBlocks
<1>9. CASE WriteMetadata
  BY <1>9, WriteMetadataBlocks
<1>10. CASE WriteCheckpointRecord
  BY <1>10, WriteCheckpointRecordBlocks
<1>11. CASE FlushCheckpointRecord
  BY <1>11, FlushCheckpointRecordBlocks
<1>12. CASE AbortBeforeHeader
  BY <1>12, AbortBeforeHeaderBlocks
<1>13. CASE WriteFreeList
  BY <1>13, WriteFreeListBlocks
<1>14. CASE WriteHeader
  BY <1>14, WriteHeaderBlocks
<1>15. CASE SyncHeader
  BY <1>15, SyncHeaderBlocks
<1>16. CASE AbortBeforeTruncate
  BY <1>16, AbortBeforeTruncateBlocks
<1>17. CASE TruncateLog
  BY <1>17, TruncateLogBlocks
<1>18. CASE Crash
  BY <1>18, CrashBlocks
<1>19. CASE Restart
  BY <1>19, RestartBlocks
<1>20. CASE UNCHANGED vars
  <2>1. UNCHANGED <<disk, header, log, stable, stable_header, log_images, tables, free_list, modified_blocks, max_block,
                    active_header, iteration_count, pc, checkpoint, commit, numbers, leaked>>
    BY <1>20 DEF vars, files, memory, history
  <2> QED BY <2>1 DEF BlockInv, TypeInv, FlushInv, MemoryInv, Dropping, OwnInv, DoneInv, WrittenInv, FileInv,
                      SwitchInv, AccountedInv, Running, Switching, Existing
<1> QED BY <1>1, <1>2, <1>3, <1>4, <1>5, <1>6, <1>7, <1>8, <1>9, <1>10, <1>11, <1>12, <1>13, <1>14, <1>15, <1>16,
           <1>17, <1>18, <1>19, <1>20 DEF Next

\* What the invariant says of the properties.
LEMMA BlockInvImplies ==
    ASSUME BlockInv
    PROVE  FreeBlocksUnused /\ BlocksAccounted /\ CheckpointIntact
<1>1. pc = "idle" => AllBlocks(tables) \cap modified_blocks = {}
  <2> HAVE pc = "idle"
  <2>1. \A t \in Tables : TableBlocks(tables[t]) \cap modified_blocks = {}
    BY DEF BlockInv, MemoryInv, Dropping
  <2> QED BY <2>1 DEF AllBlocks
<1>2. FreeBlocksUnused
  BY <1>1 DEF BlockInv, MemoryInv, FreeBlocksUnused
<1>3. BlocksAccounted
  BY DEF BlockInv, AccountedInv, BlocksAccounted, InUse, Running, Allocated
<1>4. CheckpointIntact
  <2> DEFINE top == Top(stable_header)
  <2>1. CASE pc = "sync_header"
    <3>1. stable = disk /\ (~checkpoint.overwrites => Loadable(stable, top, leaked))
      BY <2>1 DEF BlockInv, SwitchInv
    <3>2. ~checkpoint.overwrites => Readable(stable, top)
      BY <3>1, LoadableFacts
    <3> QED BY <2>1, <3>1, <3>2 DEF CheckpointIntact, Top
  <2>2. CASE pc # "sync_header"
    <3>1. stable_header = header /\ Loadable(stable, top, leaked)
      BY <2>2 DEF BlockInv, FileInv
    <3>2. Readable(stable, top)
      BY <3>1, LoadableFacts
    <3>3. CASE pc = "write_header"
      <4>1. Agree(disk, stable, FileBlocks(stable, top) \ {checkpoint.header.free_list})
        BY <3>1, <3>3 DEF BlockInv, SwitchInv
      <4> QED BY <3>2, <3>3, <4>1 DEF CheckpointIntact, Agree, Top
    <3>4. CASE pc # "write_header"
      <4>1. Agree(disk, stable, FileBlocks(stable, top))
        BY <2>2, <3>1, <3>4 DEF BlockInv, FileInv, Switching
      <4> QED BY <3>2, <4>1 DEF CheckpointIntact, Agree, Top
    <3> QED BY <3>3, <3>4
  <2> QED BY <2>1, <2>2
<1> QED BY <1>2, <1>3, <1>4

\* The blocks of the file are what the memory and the headers say of them, through every
\* commit, checkpoint, crash and restart.
THEOREM BlocksInvariant ==
    ASSUME HeaderIsAtomic, DropsSucceed
    PROVE  Spec => []BlockInv
<1>1. BlockInv /\ [Next]_vars => BlockInv'
  BY StepBlocks
<1> QED BY <1>1, InitBlocks, PTL DEF Spec

\* GetFreeBlockId never hands out a block that a segment still uses, and no
\* two segments share one: for any number of tables, commits, checkpoints and crashes.
THEOREM FreeBlocksAreUnused ==
    ASSUME HeaderIsAtomic, DropsSucceed
    PROVE  Spec => []FreeBlocksUnused
<1>1. BlockInv => FreeBlocksUnused
  BY BlockInvImplies
<1> QED BY <1>1, BlocksInvariant, PTL

\* Between statements, every block of the file is used, free or about to become free, unless
\* one of the known leaks happened.
THEOREM BlocksAreAccounted ==
    ASSUME HeaderIsAtomic, DropsSucceed
    PROVE  Spec => []BlocksAccounted
<1>1. BlockInv => BlocksAccounted
  BY BlockInvImplies
<1> QED BY <1>1, BlocksInvariant, PTL

\* The one write that a checkpoint in use is exposed to is that of the next free list: of
\* the blocks that the synced header leads to no other is written before the next header is
\* on disk, and the file can be loaded at every moment but between the sync of such a list
\* and that of the header -- after any crashes that did not come in between.
THEOREM CheckpointsStayIntact ==
    ASSUME HeaderIsAtomic, DropsSucceed
    PROVE  Spec => []CheckpointIntact
<1>1. BlockInv => CheckpointIntact
  BY BlockInvImplies
<1> QED BY <1>1, BlocksInvariant, PTL

=============================================================================
