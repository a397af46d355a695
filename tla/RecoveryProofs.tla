--------------------------- MODULE RecoveryProofs ---------------------------
(***************************************************************************)
(* The proof that module Durability implements DurableStore: the files     *)
(* bring back every commit that returned, once, and none that failed, when *)
(* a crash interrupts a commit or a checkpoint.  The crashes and errors    *)
(* that the code does not survive are the hypothesis FaultsAreHandled.     *)
(***************************************************************************)
EXTENDS DurabilityProofs

\* The faults that the code copes with: an error of CHECKPOINT or of the end of the
\* database before the new header is written, and a failed write of the log.  The others
\* lose data or make the file unreadable: a crash that leaves a log record or a header in
\* part, or comes while the free list overwrites the checkpoint in use, or before the log
\* is cut back for a failed commit; an error of the checkpoint of a commit, or between the
\* header and the truncation; a DROP TABLE whose commit fails.
FaultsAreHandled == Faults \subseteq {"abort_header", "log_fails"}

(***************************************************************************)
(* The inductive invariant.                                                *)
(***************************************************************************)
\* The tables of the checkpoint that a crash falls back to.
Loaded == LoadTables(stable, Top(header))

\* A log that a restart from the tables ts, under header h, replays to the contents x.
Live(ts, h, lg, x) ==
    /\ lg \in Seq(Record)
    /\ LastCheckpoint(lg) = INVALID_BLOCK \/ LastCheckpoint(lg) # h.meta_block
    /\ ~ReplayEntries(ts, lg).stopped
    /\ Contents(ReplayEntries(ts, lg).tables) = x
\* Such a log, or one that the checkpoint of h made obsolete.
Obsolete(ts, h, lg, x) ==
    /\ lg \in Seq(Record)
    /\ LastCheckpoint(lg) # INVALID_BLOCK /\ LastCheckpoint(lg) = h.meta_block
    /\ Contents(ts) = x
Fine(ts, h, lg, x) == Live(ts, h, lg, x) \/ Obsolete(ts, h, lg, x)

\* The memory against the contents that the clients know.
Checkpointing == Allocated \cup {"checkpoint"}
StateInv ==
    /\ pc \in {"idle", "flush"} => Contents(tables) = content
    /\ pc \in {"idle", "down", "closed"} => commit = NoCommit
    /\ pc \in Checkpointing =>
         /\ checkpoint.reason \in {"statement", "close", "commit"}
         /\ IF checkpoint.reason = "commit"
              THEN commit \in Commit /\ Contents(tables) = Store!After(content, commit)
              ELSE commit = NoCommit /\ Contents(tables) = content

\* The log, as written and as a crash may leave it.
Switched == {"sync_header", "truncate"}
LogInv ==
    /\ pc \in {"idle"} \cup (Checkpointing \ Switched) => Live(Loaded, Top(header), log, content)
    /\ pc = "flush" =>
         /\ log = Append(Front(log), CommitRecord(commit))
         /\ Live(Loaded, Top(header), Front(log), content)
    /\ pc \in {"down", "closed"} => Fine(Loaded, Top(header), log, content)
    /\ pc \notin Switched =>
         \A image \in log_images :
           HoldsFailed(image) \/ Fine(Loaded, Top(header), image, content) \/ (pc = "flush" /\ image = log)

\* The new checkpoint, from its record in the log to its header.
RecordInv ==
    /\ pc \in {"record", "sync_record", "header", "write_header"} =>
         checkpoint.meta_block # Top(header).meta_block
    /\ pc \in {"sync_record", "header", "write_header"} \cup Switched =>
         LastCheckpoint(log) = checkpoint.meta_block /\ log \in Seq(Record)
    /\ pc \in {"header", "write_header"} \cup Switched => log_images = {log}
    /\ pc = "write_header" =>
         /\ checkpoint.header.meta_block = checkpoint.meta_block
         /\ LoadTables(disk, checkpoint.header) = tables
    /\ pc \in Switched => Top(header).meta_block = checkpoint.meta_block /\ Loaded = tables
    /\ pc = "sync_header" /\ ~checkpoint.overwrites =>
         Live(LoadTables(disk, Top(stable_header)), Top(stable_header), log, content)

RecoveryInv == BlockInv /\ StateInv /\ LogInv /\ RecordInv

(***************************************************************************)
(* The contents of tables.                                                 *)
(***************************************************************************)
\* f is the recursive function of RowsOf up to n.
Sums(f, table, n) ==
    f = [i \in 0 .. n |-> IF i = 0 THEN NoRows ELSE Plus(f[i - 1], table[i].rows)]

LEMMA SumsExists ==
    ASSUME NEW table, NEW n \in Nat
    PROVE  \E f : Sums(f, table, n)
<1> DEFINE T == {m \in Nat : ~\E f : Sums(f, table, m)}
<1> SUFFICES ASSUME T # {} PROVE FALSE
  OBVIOUS
<1>1. PICK m \in T : \A k \in T : m <= k
  BY NatMin
<1>2. Sums([k \in 0..0 |-> NoRows], table, 0)
  BY DEF Sums
<1>3. m # 0
  BY <1>2
<1>4. m - 1 \in Nat /\ m - 1 \notin T
  BY <1>1, <1>3
<1>5. PICK f : Sums(f, table, m - 1)
  BY <1>4
<1> DEFINE g == [k \in 0..m |-> IF k = m THEN Plus(f[m - 1], table[m].rows) ELSE f[k]]
<1>6. \A k \in 0..(m - 1) : f[k] = IF k = 0 THEN NoRows ELSE Plus(f[k - 1], table[k].rows)
  BY <1>5 DEF Sums
<1>7. g[m] = Plus(g[m - 1], table[m].rows)
  BY <1>3, <1>4
<1>8. \A k \in 0..(m - 1) : g[k] = IF k = 0 THEN NoRows ELSE Plus(g[k - 1], table[k].rows)
  BY <1>3, <1>4, <1>6
<1>9. \A k \in 0..m : g[k] = IF k = 0 THEN NoRows ELSE Plus(g[k - 1], table[k].rows)
  <2> TAKE k \in 0..m
  <2>1. CASE k = m
    BY <2>1, <1>7, <1>3
  <2>2. CASE k # m
    <3>1. k \in 0..(m - 1)
      BY <2>2, <1>4
    <3> QED BY <3>1, <1>8
  <2> QED BY <2>1, <2>2
<1>10. Sums(g, table, m)
  <2>1. g = [k \in 0..m |-> g[k]]
    OBVIOUS
  <2> HIDE DEF g
  <2> QED BY <2>1, <1>9 DEF Sums
<1> QED BY <1>10

LEMMA RowsOfIs ==
    ASSUME NEW table, Len(table) \in Nat
    PROVE  \E f : /\ \A k \in 0 .. Len(table) : f[k] = IF k = 0 THEN NoRows ELSE Plus(f[k - 1], table[k].rows)
                  /\ RowsOf(table) = f[Len(table)]
<1> DEFINE k == CHOOSE f : Sums(f, table, Len(table))
<1>2. Sums(k, table, Len(table))
  BY SumsExists
<1>3. RowsOf(table) = k[Len(table)]
  BY DEF RowsOf, Sums
<1> HIDE DEF k
<1>4. \A j \in 0 .. Len(table) : k[j] = IF j = 0 THEN NoRows ELSE Plus(k[j - 1], table[j].rows)
  BY <1>2 DEF Sums
<1> QED BY <1>3, <1>4

\* Induction over the positions 0 .. n.
LEMMA Positions ==
    ASSUME NEW n \in Nat, NEW T, T \subseteq 0 .. n, 0 \notin T, \A k \in 1 .. n : k - 1 \notin T => k \notin T
    PROVE  T = {}
<1> SUFFICES ASSUME T # {} PROVE FALSE
  OBVIOUS
<1>1. T \subseteq Nat
  OBVIOUS
<1>2. PICK m \in T : \A k \in T : m <= k
  BY <1>1, NatMin
<1> QED BY <1>2

LEMMA PlusType ==
    /\ \A a, b \in Bag : Plus(a, b) \in Bag
    /\ \A a, b \in Bag : \A n \in Commits : Plus(With(a, n), b) = With(Plus(a, b), n) /\ Plus(a, With(b, n)) = With(Plus(a, b), n)
    /\ \A a \in Bag : Plus(NoRows, a) = a /\ Plus(a, NoRows) = a
<1>1. \A a, b \in Bag : Plus(a, b) \in Bag
  BY DEF Plus, Bag
<1>2. \A a \in Bag : Plus(NoRows, a) = a /\ Plus(a, NoRows) = a
  BY DEF Plus, Bag, NoRows
<1>3. ASSUME NEW a \in Bag, NEW b \in Bag, NEW n \in Commits
      PROVE  Plus(With(a, n), b) = With(Plus(a, b), n) /\ Plus(a, With(b, n)) = With(Plus(a, b), n)
  <2>1. \A m \in Commits : a[m] \in Nat /\ b[m] \in Nat
    BY DEF Bag
  <2>2. With(a, n) = [m \in Commits |-> IF m = n THEN a[m] + 1 ELSE a[m]]
        /\ With(b, n) = [m \in Commits |-> IF m = n THEN b[m] + 1 ELSE b[m]]
    BY DEF With, Bag
  <2>3. With(Plus(a, b), n) = [m \in Commits |-> IF m = n THEN a[m] + b[m] + 1 ELSE a[m] + b[m]]
    BY DEF With, Plus
  <2>4. Plus(With(a, n), b) = [m \in Commits |-> IF m = n THEN a[m] + b[m] + 1 ELSE a[m] + b[m]]
    BY <2>1, <2>2 DEF Plus
  <2>5. Plus(a, With(b, n)) = [m \in Commits |-> IF m = n THEN a[m] + b[m] + 1 ELSE a[m] + b[m]]
    BY <2>1, <2>2 DEF Plus
  <2> QED BY <2>3, <2>4, <2>5
<1> QED BY <1>1, <1>2, <1>3

LEMMA RowsOfType ==
    ASSUME NEW table \in Rows
    PROVE  RowsOf(table) \in Bag
<1>1. /\ Len(table) \in Nat /\ DOMAIN table = 1 .. Len(table)
      /\ \A i \in DOMAIN table : table[i] \in Segment
  BY RowsFacts
<1>2. PICK f : /\ \A k \in 0 .. Len(table) : f[k] = IF k = 0 THEN NoRows ELSE Plus(f[k - 1], table[k].rows)
               /\ RowsOf(table) = f[Len(table)]
  BY <1>1, RowsOfIs
<1> DEFINE T == {k \in 0 .. Len(table) : f[k] \notin Bag}
<1>3. 0 \notin T
  BY <1>2, BagTypes
<1>4. ASSUME NEW k \in 1 .. Len(table), k - 1 \notin T PROVE k \notin T
  <2>1. f[k - 1] \in Bag
    BY <1>1, <1>4
  <2>2. table[k].rows \in Bag
    BY <1>1 DEF Segment
  <2>3. f[k] = Plus(f[k - 1], table[k].rows)
    BY <1>1, <1>2
  <2> QED BY <2>1, <2>2, <2>3, PlusType
<1>5. T \subseteq 0 .. Len(table)
  OBVIOUS
<1>6. T = {}
  <2> HIDE DEF T
  <2>1. \A k \in 1 .. Len(table) : k - 1 \notin T => k \notin T
    BY <1>4
  <2> QED BY ONLY <1>1, <1>3, <2>1, <1>5, Positions
<1>7. Len(table) \in 0 .. Len(table)
  BY <1>1
<1> QED BY <1>2, <1>6, <1>7

\* Tables that hold the same rows segment by segment, up to n.
LEMMA SameRows ==
    ASSUME NEW a \in Rows, NEW b \in Rows, NEW n \in Nat, n <= Len(a), n <= Len(b),
           \A i \in 1 .. n : a[i].rows = b[i].rows,
           NEW f, \A k \in 0 .. Len(a) : f[k] = IF k = 0 THEN NoRows ELSE Plus(f[k - 1], a[k].rows),
           NEW g, \A k \in 0 .. Len(b) : g[k] = IF k = 0 THEN NoRows ELSE Plus(g[k - 1], b[k].rows)
    PROVE  f[n] = g[n]
<1>1. Len(a) \in Nat /\ Len(b) \in Nat
  BY RowsFacts
<1> DEFINE T == {k \in 0 .. n : f[k] # g[k]}
<1>2. 0 \notin T
  BY <1>1
<1>3. ASSUME NEW k \in 1 .. n, k - 1 \notin T PROVE k \notin T
  <2>1. f[k - 1] = g[k - 1]
    BY <1>3
  <2>2. f[k] = Plus(f[k - 1], a[k].rows)
    BY <1>1
  <2>3. g[k] = Plus(g[k - 1], b[k].rows)
    BY <1>1
  <2>4. a[k].rows = b[k].rows
    OBVIOUS
  <2> QED BY <2>1, <2>2, <2>3, <2>4
<1>4. T \subseteq 0 .. n
  OBVIOUS
<1>5. T = {}
  <2> HIDE DEF T
  <2>1. \A k \in 1 .. n : k - 1 \notin T => k \notin T
    BY <1>3
  <2>2. n \in Nat
    OBVIOUS
  <2> QED BY ONLY <1>2, <2>1, <2>2, <1>4, Positions
<1>6. n \in 0 .. n
  OBVIOUS
<1> QED BY <1>5, <1>6

\* A segment at the end adds its rows.
LEMMA RowsOfAppend ==
    ASSUME NEW a \in Rows, NEW b \in Rows, Len(b) = Len(a) + 1, \A i \in 1 .. Len(a) : b[i].rows = a[i].rows
    PROVE  RowsOf(b) = Plus(RowsOf(a), b[Len(b)].rows)
<1>1. Len(a) \in Nat /\ Len(b) \in Nat
  BY RowsFacts
<1>2. PICK f : /\ \A k \in 0 .. Len(a) : f[k] = IF k = 0 THEN NoRows ELSE Plus(f[k - 1], a[k].rows)
               /\ RowsOf(a) = f[Len(a)]
  BY <1>1, RowsOfIs
<1>3. PICK g : /\ \A k \in 0 .. Len(b) : g[k] = IF k = 0 THEN NoRows ELSE Plus(g[k - 1], b[k].rows)
               /\ RowsOf(b) = g[Len(b)]
  BY <1>1, RowsOfIs
<1>4. f[Len(a)] = g[Len(a)]
  <2> DEFINE n == Len(a)
  <2>1. n \in Nat /\ n <= Len(a) /\ n <= Len(b) /\ \A i \in 1 .. n : a[i].rows = b[i].rows
    BY <1>1
  <2> HIDE DEF n
  <2>2. f[n] = g[n]
    BY ONLY <1>2, <1>3, <2>1, SameRows, a \in Rows, b \in Rows
  <2> QED BY <2>2 DEF n
<1>5. g[Len(b)] = Plus(g[Len(a)], b[Len(b)].rows)
  BY <1>1, <1>3
<1> QED BY <1>2, <1>3, <1>4, <1>5

LEMMA RowsOfOne ==
    ASSUME NEW s \in Segment
    PROVE  RowsOf(<<s>>) = s.rows
<1> DEFINE a == <<s>>
<1>1. Len(a) = 1 /\ a[1] = s
  OBVIOUS
<1> HIDE DEF a
<1>2. PICK f : /\ \A k \in 0 .. Len(a) : f[k] = IF k = 0 THEN NoRows ELSE Plus(f[k - 1], a[k].rows)
               /\ RowsOf(a) = f[Len(a)]
  BY <1>1, RowsOfIs
<1>3. f[0] = NoRows /\ f[1] = Plus(f[0], s.rows)
  BY <1>1, <1>2
<1>4. s.rows \in Bag
  BY DEF Segment
<1>5. RowsOf(a) = s.rows
  BY <1>1, <1>2, <1>3, <1>4, PlusType
<1> QED BY <1>5 DEF a

\* A change of the first segment is a change of the table.
LEMMA RowsOfUpdate ==
    ASSUME NEW a \in Rows, NEW b \in Rows, NEW n \in Commits, Len(b) = Len(a),
           \A i \in 1 .. Len(a) : b[i].rows = IF i = 1 THEN With(a[1].rows, n) ELSE a[i].rows
    PROVE  RowsOf(b) = With(RowsOf(a), n)
<1>1. Len(a) \in Nat /\ Len(a) >= 1 /\ DOMAIN a = 1 .. Len(a) /\ \A i \in DOMAIN a : a[i] \in Segment
  BY RowsFacts
<1>2. PICK f : /\ \A k \in 0 .. Len(a) : f[k] = IF k = 0 THEN NoRows ELSE Plus(f[k - 1], a[k].rows)
               /\ RowsOf(a) = f[Len(a)]
  BY <1>1, RowsOfIs
<1>3. PICK g : /\ \A k \in 0 .. Len(b) : g[k] = IF k = 0 THEN NoRows ELSE Plus(g[k - 1], b[k].rows)
               /\ RowsOf(b) = g[Len(b)]
  BY <1>1, RowsOfIs
<1>4. \A i \in 1 .. Len(a) : a[i].rows \in Bag
  BY <1>1 DEF Segment
<1> DEFINE T == {k \in 0 .. Len(a) : k > 0 /\ ~(f[k] \in Bag /\ g[k] = With(f[k], n))}
<1>5. 0 \notin T
  OBVIOUS
<1>6. ASSUME NEW k \in 1 .. Len(a), k - 1 \notin T PROVE k \notin T
  <2>1. f[k] = Plus(f[k - 1], a[k].rows) /\ g[k] = Plus(g[k - 1], b[k].rows)
    BY <1>1, <1>2, <1>3
  <2>2. CASE k = 1
    <3>1. f[0] = NoRows /\ g[0] = NoRows
      BY <1>1, <1>2, <1>3
    <3>2. a[1].rows \in Bag /\ b[1].rows = With(a[1].rows, n) /\ With(a[1].rows, n) \in Bag
      BY <1>1, <1>4, BagTypes
    <3>3. f[1] = a[1].rows /\ g[1] = With(a[1].rows, n)
      <4>1. f[1] = Plus(NoRows, a[1].rows) /\ g[1] = Plus(NoRows, With(a[1].rows, n))
        BY <2>1, <2>2, <3>1, <3>2
      <4>2. Plus(NoRows, a[1].rows) = a[1].rows
        BY <3>2, PlusType
      <4>3. Plus(NoRows, With(a[1].rows, n)) = With(a[1].rows, n)
        BY <3>2, PlusType
      <4> QED BY <4>1, <4>2, <4>3
    <3> QED BY <2>2, <3>2, <3>3
  <2>3. CASE k # 1
    <3>1. f[k - 1] \in Bag /\ g[k - 1] = With(f[k - 1], n)
      BY <1>1, <1>6, <2>3
    <3>2. b[k].rows = a[k].rows /\ a[k].rows \in Bag
      BY <1>4, <2>3
    <3>3. f[k] \in Bag /\ g[k] = With(f[k], n)
      <4> DEFINE x == f[k - 1]
                 y == a[k].rows
      <4>1. x \in Bag /\ y \in Bag /\ n \in Commits /\ f[k] = Plus(x, y) /\ g[k] = Plus(With(x, n), y)
        BY <2>1, <3>1, <3>2
      <4> HIDE DEF x, y
      <4>2. Plus(x, y) \in Bag /\ Plus(With(x, n), y) = With(Plus(x, y), n)
        BY ONLY <4>1, PlusType
      <4> QED BY <4>1, <4>2
    <3> QED BY <3>3
  <2> QED BY <2>2, <2>3
<1>7. T \subseteq 0 .. Len(a)
  OBVIOUS
<1>8. T = {}
  <2> HIDE DEF T
  <2>1. \A k \in 1 .. Len(a) : k - 1 \notin T => k \notin T
    BY <1>6
  <2> QED BY ONLY <1>1, <1>5, <2>1, <1>7, Positions
<1>9. Len(a) \in 0 .. Len(a) /\ Len(a) > 0
  BY <1>1
<1>10. g[Len(a)] = With(f[Len(a)], n)
  BY <1>8, <1>9
<1> QED BY <1>2, <1>3, <1>10

LEMMA RowsOfSame ==
    ASSUME NEW a \in Rows, NEW b \in Rows, Len(b) = Len(a), \A i \in 1 .. Len(a) : b[i].rows = a[i].rows
    PROVE  RowsOf(b) = RowsOf(a)
<1>1. Len(a) \in Nat /\ Len(b) \in Nat
  BY RowsFacts
<1>2. PICK f : /\ \A k \in 0 .. Len(a) : f[k] = IF k = 0 THEN NoRows ELSE Plus(f[k - 1], a[k].rows)
               /\ RowsOf(a) = f[Len(a)]
  BY <1>1, RowsOfIs
<1>3. PICK g : /\ \A k \in 0 .. Len(b) : g[k] = IF k = 0 THEN NoRows ELSE Plus(g[k - 1], b[k].rows)
               /\ RowsOf(b) = g[Len(b)]
  BY <1>1, RowsOfIs
<1> DEFINE n == Len(a)
<1>4. n \in Nat /\ n <= Len(a) /\ n <= Len(b) /\ \A i \in 1 .. n : a[i].rows = b[i].rows
  BY <1>1
<1> HIDE DEF n
<1>5. f[n] = g[n]
  BY ONLY <1>2, <1>3, <1>4, SameRows, a \in Rows, b \in Rows
<1> QED BY <1>2, <1>3, <1>5 DEF n


LEMMA ContentsFacts ==
    ASSUME NEW ts \in TablesType
    PROVE  /\ Contents(ts) = [t \in Tables |-> Contents(ts)[t]]
           /\ \A t \in Tables :
                /\ ts[t] = Absent => Contents(ts)[t] = Absent
                /\ ts[t] # Absent => /\ ts[t] \in Rows
                                     /\ Contents(ts)[t] = RowsOf(ts[t])
                                     /\ Contents(ts)[t] \in Bag
                                     /\ Contents(ts)[t] # Absent
<1>1. Contents(ts) = [t \in Tables |-> Contents(ts)[t]]
  BY DEF Contents
<1>2. ASSUME NEW t \in Tables, ts[t] # Absent
      PROVE  ts[t] \in Rows /\ Contents(ts)[t] = RowsOf(ts[t]) /\ Contents(ts)[t] \in Bag /\ Contents(ts)[t] # Absent
  <2>1. ts[t] \in Rows
    BY <1>2 DEF TablesType, Rows
  <2>2. Contents(ts)[t] = RowsOf(ts[t])
    BY <1>2 DEF Contents
  <2>3. RowsOf(ts[t]) \in Bag
    BY <2>1, RowsOfType
  <2> QED BY <2>1, <2>2, <2>3, DurabilityAssumption
<1>3. \A t \in Tables : ts[t] = Absent => Contents(ts)[t] = Absent
  BY DEF Contents
<1> QED BY <1>1, <1>2, <1>3

\* Tables with the same segments have the same contents.
LEMMA ContentsSame ==
    ASSUME NEW ts \in TablesType, NEW us \in TablesType,
           \A t \in Tables : /\ ts[t] = Absent <=> us[t] = Absent
                             /\ ts[t] # Absent => /\ Len(us[t]) = Len(ts[t])
                                                  /\ \A i \in 1 .. Len(ts[t]) : us[t][i].rows = ts[t][i].rows
    PROVE  Contents(us) = Contents(ts)
<1>1. ASSUME NEW t \in Tables PROVE Contents(us)[t] = Contents(ts)[t]
  <2>1. CASE ts[t] = Absent
    BY <2>1, ContentsFacts
  <2>2. CASE ts[t] # Absent
    <3> DEFINE a == ts[t]
               b == us[t]
    <3>1. /\ a \in Rows /\ b \in Rows /\ Len(b) = Len(a) /\ \A i \in 1 .. Len(a) : b[i].rows = a[i].rows
          /\ Contents(us)[t] = RowsOf(b) /\ Contents(ts)[t] = RowsOf(a)
      BY <2>2, ContentsFacts
    <3> HIDE DEF a, b
    <3>2. RowsOf(b) = RowsOf(a)
      BY ONLY <3>1, RowsOfSame
    <3> QED BY <3>1, <3>2
  <2> QED BY <2>1, <2>2
<1> QED BY <1>1 DEF Contents

\* Whether a commit can be applied depends on the contents.
LEMMA CanApplySame ==
    ASSUME NEW ts \in TablesType, NEW us \in TablesType, Contents(ts) = Contents(us), NEW c \in Commit,
           CanApply(ts, c)
    PROVE  CanApply(us, c)
<1>1. c.table \in Tables
  BY DEF Commit
<1>2. ts[c.table] = Absent <=> us[c.table] = Absent
  BY <1>1, ContentsFacts
<1>3. us[c.table] # <<>>
  <2>0. <<>> \in Seq(Segment)
    OBVIOUS
  <2>1. us[c.table] = Absent => us[c.table] # <<>>
    BY <2>0, DurabilityAssumption
  <2> QED BY <1>1, <2>1 DEF TablesType
<1> QED BY <1>2, <1>3 DEF CanApply

\* What commits do to segments is what they do to contents.
LEMMA ConvertedRows ==
    ASSUME NEW table \in Rows
    PROVE  RowsOf(Converted(table)) = RowsOf(table)
<1> DEFINE b == Converted(table)
<1>1. b \in Rows /\ Len(b) = Len(table)
  BY ConvertedFacts
<1>2. \A i \in 1 .. Len(table) : b[i].rows = table[i].rows
  <2> TAKE i \in 1 .. Len(table)
  <2>1. i \in DOMAIN table /\ table[i].rows \in Bag
    BY RowsFacts DEF Segment
  <2>2. b[i] = IF i = Len(table) /\ EndsPersistent(table) THEN TransientSegment(table[i].rows) ELSE table[i]
    BY <2>1, ConvertedFacts
  <2>3. TransientSegment(table[i].rows).rows = table[i].rows
    BY <2>1, BagTypes
  <2> QED BY <2>2, <2>3
<1> HIDE DEF b
<1>3. RowsOf(b) = RowsOf(table)
  BY ONLY <1>1, <1>2, RowsOfSame, table \in Rows
<1> QED BY <1>3 DEF b

LEMMA AppendedRows ==
    ASSUME NEW table \in Rows \cup {Absent}, NEW n \in Commits
    PROVE  RowsOf(Appended(table, n)) = With(IF table = Absent THEN NoRows ELSE RowsOf(table), n)
<1> DEFINE s == TransientSegment(With(NoRows, n))
<1>1. With(NoRows, n) \in Bag /\ s \in Segment /\ s.rows = With(NoRows, n) /\ NoRows \in Bag
  BY BagTypes
<1>2. CASE table = Absent
  <2>1. Appended(table, n) = <<s>>
    BY <1>2, AppendedFacts
  <2> HIDE DEF s
  <2>2. RowsOf(<<s>>) = s.rows
    BY <1>1, RowsOfOne
  <2> QED BY <1>1, <1>2, <2>1, <2>2
<1>3. CASE table # Absent
  <2> DEFINE a == Converted(table)
             b == Appended(table, n)
  <2>1. table \in Rows
    BY <1>3
  <2>2. a \in Rows /\ b \in Rows /\ Len(a) = Len(table) /\ Len(b) = Len(a) + 1
    BY <2>1, <1>3, ConvertedFacts, AppendedFacts
  <2>3. b[Len(b)] = s /\ \A i \in 1 .. Len(a) : b[i] = a[i]
    <3>1. b[Len(table) + 1] = s /\ \A i \in DOMAIN table : b[i] = a[i]
      BY <1>3, AppendedFacts
    <3>2. DOMAIN table = 1 .. Len(table)
      BY <2>1, RowsFacts
    <3> QED BY <2>2, <3>1, <3>2
  <2>4. RowsOf(a) = RowsOf(table) /\ RowsOf(table) \in Bag
    BY <2>1, ConvertedRows, RowsOfType
  <2> HIDE DEF a, b, s
  <2>5. \A i \in 1 .. Len(a) : b[i].rows = a[i].rows
    BY <2>3
  <2>6. RowsOf(b) = Plus(RowsOf(a), b[Len(b)].rows)
    BY ONLY <2>2, <2>5, RowsOfAppend
  <2>7. RowsOf(b) = Plus(RowsOf(table), With(NoRows, n))
    BY <1>1, <2>3, <2>4, <2>6
  <2>8. Plus(RowsOf(table), With(NoRows, n)) = With(Plus(RowsOf(table), NoRows), n)
    BY <1>1, <2>4, PlusType
  <2>9. Plus(RowsOf(table), NoRows) = RowsOf(table)
    BY <2>4, PlusType
  <2> QED BY <1>3, <2>7, <2>8, <2>9 DEF b
<1> QED BY <1>2, <1>3

LEMMA UpdatedRows ==
    ASSUME NEW table \in Rows, NEW n \in Commits
    PROVE  RowsOf(Updated(table, n)) = With(RowsOf(table), n)
<1> DEFINE b == Updated(table, n)
<1>1. b \in Rows /\ Len(b) = Len(table)
  BY UpdatedFacts
<1>2. \A i \in 1 .. Len(table) : b[i].rows = IF i = 1 THEN With(table[1].rows, n) ELSE table[i].rows
  <2>1. DOMAIN table = 1 .. Len(table)
    BY RowsFacts
  <2> QED BY <2>1, UpdatedFacts
<1> HIDE DEF b
<1>3. RowsOf(b) = With(RowsOf(table), n)
  BY ONLY <1>1, <1>2, RowsOfUpdate, table \in Rows, n \in Commits
<1> QED BY <1>3 DEF b

LEMMA ContentsApplied ==
    ASSUME NEW ts \in TablesType, NEW c \in Commit, CanApply(ts, c)
    PROVE  Contents(Applied(ts, c)) = Store!After(Contents(ts), c)
<1> DEFINE t == c.table
           n == c.number
           old == ts[t]
           new == Applied(ts, c)[t]
<1>1. t \in Tables /\ n \in Commits /\ c.op \in {"append", "update", "drop"} /\ old \in Rows \cup {Absent}
  <2>1. t \in Tables /\ n \in Commits /\ c.op \in {"append", "update", "drop"}
    BY DEF Commit
  <2> QED BY <2>1 DEF TablesType, Rows
<1>2. \A u \in Tables \ {t} : Applied(ts, c)[u] = ts[u]
  BY <1>1 DEF Applied, TablesType
<1>3. /\ c.op = "append" => new = Appended(old, n)
      /\ c.op = "update" => new = Updated(old, n)
      /\ c.op = "drop" => new = Absent
  BY <1>1 DEF Applied, TablesType
<1>4. Applied(ts, c) \in TablesType
  BY AppliedFacts
<1> DEFINE old_rows == Contents(ts)[t]
           new_rows == Contents(Applied(ts, c))[t]
<1>5. new_rows = Store!Changed(c.op, old_rows, n)
  <2>1. CASE c.op = "drop"
    <3>1. new_rows = Absent
      BY <1>1, <1>3, <1>4, <2>1, ContentsFacts
    <3> HIDE DEF new_rows, old_rows
    <3> QED BY <2>1, <3>1 DEF Store!Changed
  <2>2. CASE c.op = "append"
    <3>1. Appended(old, n) \in Rows /\ Appended(old, n) # Absent
      BY <1>1, AppendedFacts, RowsFacts
    <3>2. new_rows = RowsOf(Appended(old, n))
      BY <1>1, <1>3, <1>4, <2>2, <3>1, ContentsFacts
    <3>3. new_rows = With(IF old = Absent THEN NoRows ELSE RowsOf(old), n)
      BY <1>1, <3>2, AppendedRows
    <3>4. CASE old = Absent
      <4>1. old_rows = Absent /\ new_rows = With(NoRows, n)
        BY <1>1, <3>3, <3>4, ContentsFacts
      <4>2. With(NoRows, n) = [m \in Commits |-> IF m = n THEN 1 ELSE 0]
        BY <1>1 DEF With, NoRows
      <4> HIDE DEF new_rows, old_rows
      <4> QED BY <2>2, <4>1, <4>2 DEF Store!Changed
    <3>5. CASE old # Absent
      <4>1. old_rows # Absent /\ new_rows = With(old_rows, n)
        BY <1>1, <3>3, <3>5, ContentsFacts
      <4> HIDE DEF new_rows, old_rows
      <4> QED BY <2>2, <4>1 DEF Store!Changed, With
    <3> QED BY <3>4, <3>5
  <2>3. CASE c.op = "update"
    <3>1. old # Absent /\ old \in Rows
      BY <1>1, <2>3 DEF CanApply
    <3>2. Updated(old, n) \in Rows /\ Updated(old, n) # Absent
      BY <1>1, <3>1, UpdatedFacts, RowsFacts
    <3>3. new_rows = RowsOf(Updated(old, n))
      BY <1>1, <1>3, <1>4, <2>3, <3>2, ContentsFacts
    <3>4. RowsOf(Updated(old, n)) = With(RowsOf(old), n)
      BY <1>1, <3>1, UpdatedRows
    <3>5. old_rows = RowsOf(old) /\ old_rows # Absent
      BY <1>1, <3>1, ContentsFacts
    <3> HIDE DEF new_rows, old_rows
    <3> QED BY <2>3, <3>3, <3>4, <3>5 DEF Store!Changed, With
  <2> QED BY <1>1, <2>1, <2>2, <2>3
<1>6. \A u \in Tables \ {t} : Contents(Applied(ts, c))[u] = Contents(ts)[u]
  BY <1>2 DEF Contents
<1>7. Store!After(Contents(ts), c) = [u \in Tables |-> IF u = t THEN Store!Changed(c.op, old_rows, n) ELSE Contents(ts)[u]]
  <2>1. DOMAIN Contents(ts) = Tables
    BY DEF Contents
  <2> QED BY <2>1, <1>1, ContentsFacts DEF Store!After
<1>8. Contents(Applied(ts, c)) = [u \in Tables |-> Contents(Applied(ts, c))[u]]
  BY <1>4, ContentsFacts
<1> HIDE DEF new_rows, old_rows, t, n
<1> QED BY <1>5, <1>6, <1>7, <1>8 DEF new_rows


(***************************************************************************)
(* Logs.                                                                   *)
(***************************************************************************)
LEMMA NatMax ==
    ASSUME NEW n \in Nat, NEW T, T \subseteq 0 .. n, n \in T
    PROVE  Max(T) = n
<1>1. \A m \in T : m <= n
  OBVIOUS
<1>2. \A x \in T : (\A y \in T : x >= y) => x = n
  BY <1>1
<1>3. n \in T /\ \A y \in T : n >= y
  BY <1>1
<1> QED BY <1>2, <1>3 DEF Max

LEMMA MaxIsIn ==
    ASSUME NEW n \in Nat, NEW T, T \subseteq 1 .. n, T # {}
    PROVE  Max(T) \in T
<1> DEFINE U == {k \in Nat : n - k \in T}
<1>1. PICK m \in T : TRUE
  OBVIOUS
<1>2. m \in 1 .. n
  OBVIOUS
<1>3. n - m \in Nat /\ n - (n - m) = m
  BY <1>2
<1>4. n - m \in U
  BY <1>3
<1>5. U \subseteq Nat /\ U # {}
  BY <1>4
<1>6. PICK k \in U : \A j \in U : k <= j
  <2> HIDE DEF U
  <2> QED BY <1>5, NatMin
<1>7. n - k \in T /\ k \in Nat
  BY <1>6
<1>8. ASSUME NEW y \in T PROVE n - k >= y
  <2>1. y \in 1 .. n
    OBVIOUS
  <2>2. n - y \in Nat /\ n - (n - y) = y
    BY <2>1
  <2>3. n - y \in U
    BY <2>2
  <2>4. k <= n - y
    BY <1>6, <2>3
  <2> QED BY <1>7, <2>1, <2>4
<1>9. \E x \in T : \A y \in T : x >= y
  BY <1>7, <1>8
<1> QED BY <1>9 DEF Max

LEMMA RecordTypes ==
    /\ \A c \in Commit : CommitRecord(c) \in Record /\ CommitRecord(c).type = "commit" /\ CommitRecord(c).commit = c
    /\ \A b \in Blocks : CheckpointRecord(b) \in Record /\ CheckpointRecord(b).type = "checkpoint"
                         /\ CheckpointRecord(b).block = b
  BY DEF CommitRecord, CheckpointRecord, Record

LEMMA AppendFacts ==
    ASSUME NEW S, NEW lg \in Seq(S), NEW r \in S, NEW new, new = Append(lg, r)
    PROVE  /\ new \in Seq(S)
           /\ Len(lg) \in Nat /\ Len(new) = Len(lg) + 1
           /\ DOMAIN lg = 1 .. Len(lg) /\ DOMAIN new = 1 .. (Len(lg) + 1)
           /\ new[Len(lg) + 1] = r /\ \A i \in 1 .. Len(lg) : new[i] = lg[i]
  OBVIOUS

LEMMA FrontOfAppend ==
    ASSUME NEW S, NEW lg \in Seq(S), NEW r \in S
    PROVE  Front(Append(lg, r)) = lg
<1> DEFINE new == Append(lg, r)
<1>1. /\ new \in Seq(S) /\ Len(lg) \in Nat /\ Len(new) = Len(lg) + 1
      /\ \A i \in 1 .. Len(lg) : new[i] = lg[i]
  BY AppendFacts
<1> HIDE DEF new
<1>2. Front(new) = [i \in 1 .. (Len(new) - 1) |-> new[i]]
  BY <1>1 DEF Front
<1>3. lg = [i \in 1 .. Len(lg) |-> lg[i]]
  OBVIOUS
<1>4. Front(new) = lg
  BY <1>1, <1>2, <1>3
<1> QED BY <1>4 DEF new

\* Replaying a log entry by entry.
LEMMA ReplayOfNothing == ASSUME NEW ts PROVE ReplayEntries(ts, <<>>) = ReplayStart(ts)
<1> DEFINE lg == <<>>
<1>1. lg \in Seq(Record) /\ Len(lg) = 0
  OBVIOUS
<1> HIDE DEF lg
<1>2. PICK f : Replays(f, ts, lg, Len(lg)) /\ ReplayEntries(ts, lg) = f[Len(lg)]
  BY <1>1, ReplayIs
<1>3. f[0] = ReplayStart(ts)
  BY <1>1, <1>2 DEF Replays
<1>4. ReplayEntries(ts, lg) = ReplayStart(ts)
  BY <1>1, <1>2, <1>3
<1> QED BY <1>4 DEF lg

LEMMA ReplayOfAppend ==
    ASSUME NEW ts, NEW lg \in Seq(Record), NEW r \in Record
    PROVE  ReplayEntries(ts, Append(lg, r)) = ReplayEntry(ReplayEntries(ts, lg), r)
<1> DEFINE new == Append(lg, r)
<1>1. /\ new \in Seq(Record) /\ Len(lg) \in Nat /\ Len(new) = Len(lg) + 1
      /\ new[Len(lg) + 1] = r /\ \A i \in 1 .. Len(lg) : new[i] = lg[i]
  BY AppendFacts
<1> HIDE DEF new
<1>2. PICK f : Replays(f, ts, lg, Len(lg)) /\ ReplayEntries(ts, lg) = f[Len(lg)]
  BY ReplayIs
<1>3. PICK g : Replays(g, ts, new, Len(new)) /\ ReplayEntries(ts, new) = g[Len(new)]
  BY <1>1, ReplayIs
<1>4. \A i \in 0 .. Len(lg) : f[i] = IF i = 0 THEN ReplayStart(ts) ELSE ReplayEntry(f[i - 1], lg[i])
  BY <1>2 DEF Replays
<1>5. \A i \in 0 .. Len(new) : g[i] = IF i = 0 THEN ReplayStart(ts) ELSE ReplayEntry(g[i - 1], new[i])
  BY <1>3 DEF Replays
<1> DEFINE T == {k \in 0 .. Len(lg) : f[k] # g[k]}
<1>6. 0 \notin T
  BY <1>1, <1>4, <1>5
<1>7. ASSUME NEW k \in 1 .. Len(lg), k - 1 \notin T PROVE k \notin T
  <2>1. f[k - 1] = g[k - 1]
    BY <1>1, <1>7
  <2>2. f[k] = ReplayEntry(f[k - 1], lg[k])
    BY <1>1, <1>4
  <2>3. g[k] = ReplayEntry(g[k - 1], new[k])
    BY <1>1, <1>5
  <2>4. new[k] = lg[k]
    BY <1>1
  <2> QED BY <2>1, <2>2, <2>3, <2>4
<1>8. T \subseteq 0 .. Len(lg)
  OBVIOUS
<1>9. T = {}
  <2> HIDE DEF T
  <2>1. \A k \in 1 .. Len(lg) : k - 1 \notin T => k \notin T
    BY <1>7
  <2> QED BY ONLY <1>1, <1>6, <2>1, <1>8, Positions
<1>10. Len(lg) \in 0 .. Len(lg)
  BY <1>1
<1>11. f[Len(lg)] = g[Len(lg)]
  BY <1>9, <1>10
<1>12. g[Len(new)] = ReplayEntry(g[Len(lg)], r)
  BY <1>1, <1>5
<1>13. ReplayEntries(ts, new) = ReplayEntry(ReplayEntries(ts, lg), r)
  BY <1>2, <1>3, <1>11, <1>12
<1> QED BY <1>13 DEF new

\* The last checkpoint that a log names.
LEMMA LastOfNothing == LastCheckpoint(<<>>) = INVALID_BLOCK
  BY DEF LastCheckpoint

LEMMA LastOfCommit ==
    ASSUME NEW lg \in Seq(Record), NEW r \in Record, r.type = "commit"
    PROVE  LastCheckpoint(Append(lg, r)) = LastCheckpoint(lg)
<1> DEFINE new == Append(lg, r)
           at == {i \in DOMAIN lg : lg[i].type = "checkpoint"}
           after == {i \in DOMAIN new : new[i].type = "checkpoint"}
<1>1. /\ Len(lg) \in Nat /\ DOMAIN lg = 1 .. Len(lg) /\ DOMAIN new = 1 .. (Len(lg) + 1)
      /\ new[Len(lg) + 1] = r /\ \A i \in 1 .. Len(lg) : new[i] = lg[i]
  BY AppendFacts
<1> HIDE DEF new
<1>2. after = at
  <2>1. Len(lg) + 1 \notin after
    BY <1>1
  <2>2. \A i \in 1 .. Len(lg) : i \in after <=> i \in at
    BY <1>1
  <2>3. after \subseteq 1 .. (Len(lg) + 1) /\ at \subseteq 1 .. Len(lg)
    BY <1>1
  <2>4. after \subseteq 1 .. Len(lg)
    BY <1>1, <2>1, <2>3
  <2> HIDE DEF at, after
  <2> QED BY <2>2, <2>3, <2>4
<1>3. LastCheckpoint(lg) = IF at = {} THEN INVALID_BLOCK ELSE lg[Max(at)].block
  BY DEF LastCheckpoint
<1>4. LastCheckpoint(new) = IF after = {} THEN INVALID_BLOCK ELSE new[Max(after)].block
  BY DEF LastCheckpoint
<1>5. CASE at = {}
  BY <1>2, <1>3, <1>4, <1>5 DEF new
<1>6. CASE at # {}
  <2>1. Max(at) \in at
    <3>1. at \subseteq 1 .. Len(lg)
      BY <1>1
    <3> HIDE DEF at
    <3> QED BY ONLY <3>1, <1>1, <1>6, MaxIsIn
  <2>2. new[Max(at)] = lg[Max(at)]
    BY <1>1, <2>1
  <2> QED BY <1>2, <1>3, <1>4, <1>6, <2>2 DEF new
<1> QED BY <1>5, <1>6

LEMMA LastOfCheckpoint ==
    ASSUME NEW lg \in Seq(Record), NEW r \in Record, r.type = "checkpoint"
    PROVE  LastCheckpoint(Append(lg, r)) = r.block
<1> DEFINE new == Append(lg, r)
           n == Len(lg) + 1
           after == {i \in DOMAIN new : new[i].type = "checkpoint"}
<1>1. Len(lg) \in Nat /\ DOMAIN new = 1 .. n /\ new[n] = r
  BY AppendFacts
<1> HIDE DEF new
<1>2. n \in Nat /\ n \in after /\ after \subseteq 0 .. n
  BY <1>1
<1>3. LastCheckpoint(new) = IF after = {} THEN INVALID_BLOCK ELSE new[Max(after)].block
  BY DEF LastCheckpoint
<1> HIDE DEF after, n
<1>4. Max(after) = n
  BY ONLY <1>2, NatMax
<1>5. after # {}
  BY <1>2
<1>6. LastCheckpoint(new) = r.block
  BY <1>1, <1>3, <1>4, <1>5
<1> QED BY <1>6 DEF new


(***************************************************************************)
(* What a restart makes of a log.                                          *)
(***************************************************************************)
LEMMA NotCorrupt == ASSUME NEW lg \in Seq(Record) PROVE ~Corrupt(lg)
<1>1. \A i \in DOMAIN lg : lg[i] \in Record
  BY ElementOfSeq
<1>2. \A i \in DOMAIN lg : lg[i] # Torn
  BY <1>1, DurabilityAssumption
<1> QED BY <1>2 DEF Corrupt, Range

LEMMA FineReplays ==
    ASSUME NEW ts, NEW h, NEW lg, NEW x, Fine(ts, h, lg, x)
    PROVE  /\ Contents(Replay(ts, h, lg).tables) = x
           /\ lg \in Seq(Record)
           /\ AlreadyCheckpointed(h, lg) => Contents(ts) = x
           /\ ~AlreadyCheckpointed(h, lg) => Live(ts, h, lg, x)
<1>1. lg \in Seq(Record) /\ ~Corrupt(lg)
  BY NotCorrupt DEF Fine, Live, Obsolete
<1>2. CASE Live(ts, h, lg, x)
  <2>1. ~AlreadyCheckpointed(h, lg)
    BY <1>2 DEF Live, AlreadyCheckpointed, IsRootBlock
  <2>2. Replay(ts, h, lg) = ReplayEntries(ts, lg)
    BY <1>1, <2>1 DEF Replay
  <2>3. Contents(ReplayEntries(ts, lg).tables) = x
    BY <1>2 DEF Live
  <2> QED BY <1>1, <1>2, <2>1, <2>2, <2>3
<1>3. CASE Obsolete(ts, h, lg, x)
  <2>1. AlreadyCheckpointed(h, lg)
    BY <1>1, <1>3 DEF Obsolete, AlreadyCheckpointed, IsRootBlock
  <2>2. Replay(ts, h, lg) = ReplayStart(ts)
    BY <2>1 DEF Replay
  <2>3. ReplayStart(ts).tables = ts
    BY DEF ReplayStart
  <2>4. Contents(ts) = x
    BY <1>3 DEF Obsolete
  <2> QED BY <1>1, <2>1, <2>2, <2>3, <2>4
<1> QED BY <1>2, <1>3 DEF Fine

LEMMA LiveNothing ==
    ASSUME NEW ts, NEW h, NEW x, Contents(ts) = x
    PROVE  Live(ts, h, <<>>, x)
<1>1. <<>> \in Seq(Record)
  OBVIOUS
<1>2. ReplayStart(ts).tables = ts /\ ~ReplayStart(ts).stopped
  BY DEF ReplayStart
<1> QED BY <1>1, <1>2, LastOfNothing, ReplayOfNothing DEF Live

\* The contents of a database whose log is fine.
LEMMA LiveTables ==
    ASSUME NEW ts \in TablesType, Distinct(ts), NEW h, NEW lg, NEW x, Live(ts, h, lg, x)
    PROVE  ReplayEntries(ts, lg).tables \in TablesType
<1>1. lg \in Seq(Record)
  BY DEF Live
<1> QED BY <1>1, EntriesKeep DEF ReplayKeeps

LEMMA LiveCommit ==
    ASSUME NEW ts \in TablesType, Distinct(ts), NEW h, NEW lg, NEW x, Live(ts, h, lg, x),
           NEW us \in TablesType, Contents(us) = x, NEW c \in Commit, CanApply(us, c)
    PROVE  Live(ts, h, Append(lg, CommitRecord(c)), Store!After(x, c))
<1> DEFINE r == CommitRecord(c)
           st == ReplayEntries(ts, lg)
<1>1. r \in Record /\ r.type = "commit" /\ r.commit = c
  BY RecordTypes
<1>2. lg \in Seq(Record) /\ ~st.stopped /\ Contents(st.tables) = x
  BY DEF Live
<1>3. st \in [tables : TablesType, modified : SUBSET AllBlocks(ts), stopped : BOOLEAN]
  BY <1>2, EntriesKeep DEF ReplayKeeps
<1>4. CanApply(st.tables, c)
  BY <1>2, <1>3, CanApplySame
<1>5. Contents(Applied(st.tables, c)) = Store!After(x, c)
  BY <1>2, <1>3, <1>4, ContentsApplied
<1>6. ReplayEntry(st, r).tables = Applied(st.tables, c) /\ ReplayEntry(st, r).stopped = st.stopped
  <2> HIDE DEF r, st
  <2> QED BY <1>1, <1>2, <1>3, <1>4 DEF ReplayEntry
<1>7. ReplayEntries(ts, Append(lg, r)) = ReplayEntry(st, r)
  BY <1>1, <1>2, ReplayOfAppend
<1>8. LastCheckpoint(Append(lg, r)) = LastCheckpoint(lg)
  BY <1>1, <1>2, LastOfCommit
<1>9. LastCheckpoint(lg) = INVALID_BLOCK \/ LastCheckpoint(lg) # h.meta_block
  BY DEF Live
<1>10. Append(lg, r) \in Seq(Record)
  BY <1>1, <1>2, AppendFacts
<1> HIDE DEF r, st
<1>11. Live(ts, h, Append(lg, r), Store!After(x, c))
  BY <1>2, <1>5, <1>6, <1>7, <1>8, <1>9, <1>10 DEF Live
<1> QED BY <1>11 DEF r

LEMMA LiveCheckpoint ==
    ASSUME NEW ts \in TablesType, NEW h, NEW lg, NEW x, Live(ts, h, lg, x), NEW b \in Blocks, b # h.meta_block
    PROVE  /\ Live(ts, h, Append(lg, CheckpointRecord(b)), x)
           /\ LastCheckpoint(Append(lg, CheckpointRecord(b))) = b
           /\ Append(lg, CheckpointRecord(b)) \in Seq(Record)
<1> DEFINE r == CheckpointRecord(b)
           st == ReplayEntries(ts, lg)
<1>1. r \in Record /\ r.type = "checkpoint" /\ r.block = b
  BY RecordTypes
<1>2. lg \in Seq(Record) /\ ~st.stopped /\ Contents(st.tables) = x
  BY DEF Live
<1>3. ReplayEntry(st, r) = st
  BY <1>1 DEF ReplayEntry
<1>4. ReplayEntries(ts, Append(lg, r)) = ReplayEntry(st, r)
  BY <1>1, <1>2, ReplayOfAppend
<1>5. LastCheckpoint(Append(lg, r)) = b
  BY <1>1, <1>2, LastOfCheckpoint
<1>6. Append(lg, r) \in Seq(Record)
  BY <1>1, <1>2, AppendFacts
<1> HIDE DEF r, st
<1>7. Live(ts, h, Append(lg, r), x)
  BY <1>2, <1>3, <1>4, <1>5, <1>6 DEF Live, st
<1> QED BY <1>5, <1>6, <1>7 DEF r

\* The checkpoint that the log names last is the one that is loaded.
LEMMA ObsoleteNow ==
    ASSUME NEW ts, NEW h, NEW lg \in Seq(Record), NEW x, NEW b \in Blocks, LastCheckpoint(lg) = b,
           h.meta_block = b, Contents(ts) = x
    PROVE  Obsolete(ts, h, lg, x)
<1>1. b # INVALID_BLOCK
  BY DEF Blocks, INVALID_BLOCK
<1> QED BY <1>1 DEF Obsolete

\* What a crash that finds a good file and a fine log brings back.
LEMMA FineRecovers ==
    ASSUME NEW dsk, NEW hs \in [{0, 1} -> Header], NEW lk, Loadable(dsk, Top(hs), lk), NEW lg, NEW x,
           Fine(LoadTables(dsk, Top(hs)), Top(hs), lg, x)
    PROVE  Recovered(dsk, hs, lg) = x
<1>1. Readable(dsk, Top(hs)) /\ HeadersReadable(hs)
  BY LoadableFacts, HeadersAreReadable
<1> QED BY <1>1, FineReplays DEF Recovered, Top


(***************************************************************************)
(* The steps: each keeps the invariant, and is a step of DurableStore or   *)
(* leaves its variables alone.                                             *)
(***************************************************************************)
Implements == [Store!Next]_(Store!vars)

LEMMA StoreStep ==
    /\ UNCHANGED <<content, commit>> => Implements
    /\ commit = NoCommit /\ commit' # NoCommit /\ content' = content => Implements
    /\ commit # NoCommit /\ commit' = NoCommit /\ content' = content => Implements
    /\ commit # NoCommit /\ commit' = NoCommit /\ content' = Store!After(content, commit) => Implements
<1>1. UNCHANGED <<content, commit>> => Implements
  BY DEF Implements, Store!vars
<1>2. commit = NoCommit /\ commit' # NoCommit /\ content' = content => Implements
  BY DEF Implements, Store!Next, Store!Begin
<1>3. commit # NoCommit /\ commit' = NoCommit /\ content' = content => Implements
  BY DEF Implements, Store!Next, Store!Fail
<1>4. commit # NoCommit /\ commit' = NoCommit /\ content' = Store!After(content, commit) => Implements
  BY DEF Implements, Store!Next, Store!Apply
<1> QED BY <1>1, <1>2, <1>3, <1>4

LEMMA HandledFaults ==
    ASSUME FaultsAreHandled
    PROVE  /\ HeaderIsAtomic /\ DropsSucceed
           /\ "torn_log" \notin Faults /\ "abort_auto" \notin Faults /\ "abort_truncate" \notin Faults
           /\ "crash_after_failure" \notin Faults
  BY DEF FaultsAreHandled, HeaderIsAtomic, DropsSucceed

LEMMA WrittenHere ==
    ASSUME FaultsAreHandled, NEW r
    PROVE  Written(r) = log_images \cup {Append(log, r)}
  BY HandledFaults DEF Written

\* The file that a crash falls back to, and the file as the process sees it.
LEMMA LoadedFacts ==
    ASSUME BlockInv
    PROVE  /\ pc # "sync_header" => /\ Loadable(stable, Top(header), leaked)
                                    /\ Loaded \in TablesType /\ Distinct(Loaded)
           /\ ~Switching => /\ Loadable(disk, Top(header), leaked)
                            /\ LoadTables(disk, Top(header)) = Loaded
<1>1. pc # "sync_header" => Loadable(stable, Top(header), leaked)
  BY DEF BlockInv, FileInv
<1>2. pc # "sync_header" => Loaded \in TablesType /\ Distinct(Loaded) /\ GoodFile(stable, Top(header))
  BY <1>1, LoadableFacts DEF Loaded
<1>3. ASSUME ~Switching PROVE Loadable(disk, Top(header), leaked) /\ LoadTables(disk, Top(header)) = Loaded
  <2>1. pc # "sync_header" /\ Agree(disk, stable, FileBlocks(stable, Top(header)))
    BY <1>3 DEF BlockInv, FileInv, Switching
  <2>2. LoadTables(disk, Top(header)) = LoadTables(stable, Top(header))
    BY <1>2, <2>1, FileFrame
  <2>3. Loadable(disk, Top(header), leaked)
    BY <1>1, <2>1, LoadableFrame
  <2> QED BY <2>2, <2>3 DEF Loaded
<1> QED BY <1>1, <1>2, <1>3

\* Closing or crashing where the log is fine brings back the contents.
LEMMA RecoveredNow ==
    ASSUME BlockInv, ~Switching, NEW lg, NEW x, Fine(Loaded, Top(header), lg, x)
    PROVE  Recovered(disk, header, lg) = x
<1>1. header \in [{0, 1} -> Header]
  BY DEF BlockInv, TypeInv
<1> QED BY <1>1, LoadedFacts, FineRecovers

\* A step of a checkpoint that touches neither the log nor the contents.
LEMMA QuietStep ==
    ASSUME StateInv, LogInv, UNCHANGED <<stable, header, log, log_images, content, commit, failed>>,
           checkpoint'.reason = checkpoint.reason, pc \in Checkpointing \ Switched, pc' \in Checkpointing \ Switched,
           Contents(tables') = Contents(tables)
    PROVE  StateInv' /\ LogInv' /\ Implements
<1>1. /\ pc' \notin {"idle", "flush", "down", "closed"} /\ pc \notin {"idle", "flush", "down", "closed"}
      /\ pc' \in Checkpointing /\ pc \in Checkpointing /\ pc' \notin Switched /\ pc \notin Switched
  BY DEF Checkpointing, Allocated, Switched
<1>2. StateInv'
  BY <1>1 DEF StateInv
<1>3. \A image : HoldsFailed(image)' <=> HoldsFailed(image)
  BY DEF HoldsFailed
<1>4. Loaded' = Loaded /\ Top(header)' = Top(header)
  BY DEF Loaded
<1>5. LogInv'
  BY <1>1, <1>3, <1>4 DEF LogInv
<1> QED BY <1>2, <1>5, StoreStep

LEMMA WriteToLogStep ==
    ASSUME RecoveryInv, FaultsAreHandled, BlockInv', NEW op \in Operations, NEW t \in Tables, WriteToLog(op, t)
    PROVE  RecoveryInv' /\ Implements
<1> DEFINE c == [op |-> op, table |-> t, number |-> numbers + 1]
<1>1. /\ pc = "idle" /\ pc' = "flush" /\ commit' = c /\ numbers < MaxCommits /\ CanApply(tables, c)
      /\ tables' = IF op = "append" THEN [tables EXCEPT ![t] = Converted(@)] ELSE tables
      /\ log' = Append(log, CommitRecord(c))
      /\ log_images' = Written(CommitRecord(c))
      /\ UNCHANGED <<stable, header, content, failed>>
  BY DEF WriteToLog
<1>2. c \in Commit
  BY <1>1, NewCommit DEF RecoveryInv
<1>3. tables \in TablesType /\ tables' \in TablesType
  BY DEF RecoveryInv, BlockInv, TypeInv
<1>4. Contents(tables') = Contents(tables)
  <2>1. CASE op # "append"
    BY <1>1, <2>1
  <2>2. CASE op = "append"
    <3>1. DOMAIN tables = Tables
      BY <1>3 DEF TablesType
    <3>2. tables' = [tables EXCEPT ![t] = Converted(@)]
      BY <1>1, <2>2
    <3>3. tables'[t] = Converted(tables[t]) /\ \A u \in Tables \ {t} : tables'[u] = tables[u]
      BY <3>1, <3>2
    <3>4. tables[t] = Absent => tables'[t] = Absent
      BY <3>3 DEF Converted, EndsPersistent
    <3>5. tables[t] # Absent => tables'[t] # Absent /\ RowsOf(tables'[t]) = RowsOf(tables[t])
      BY <1>3, <3>3, ContentsFacts, ConvertedFacts, RowsFacts, ConvertedRows
    <3> QED BY <3>3, <3>4, <3>5 DEF Contents
  <2> QED BY <2>1, <2>2
<1> HIDE DEF c
<1>5. CommitRecord(c) \in Record /\ c # NoCommit
  BY <1>2, RecordTypes, DurabilityAssumption
<1>6. Contents(tables) = content /\ commit = NoCommit /\ Live(Loaded, Top(header), log, content)
  BY <1>1 DEF RecoveryInv, StateInv, LogInv
<1>7. Front(log') = log
  <2>1. log \in Seq(Record)
    BY <1>6 DEF Live
  <2> QED BY <1>1, <1>5, <2>1, FrontOfAppend
<1>8. Loaded' = Loaded /\ Top(header)' = Top(header)
  BY <1>1 DEF Loaded
<1>9. \A image : HoldsFailed(image)' <=> HoldsFailed(image)
  BY <1>1 DEF HoldsFailed
<1>10. log_images' = log_images \cup {log'}
  BY <1>1, WrittenHere
<1>11. \A image \in log_images : HoldsFailed(image) \/ Fine(Loaded, Top(header), image, content)
  BY <1>1 DEF RecoveryInv, LogInv, Switched
<1>12. StateInv'
  BY <1>1, <1>4, <1>6 DEF StateInv, Checkpointing, Allocated
<1>13. LogInv'
  BY <1>1, <1>6, <1>7, <1>8, <1>9, <1>10, <1>11 DEF LogInv, Checkpointing, Allocated, Switched
<1>14. RecordInv'
  BY <1>1 DEF RecordInv, Switched
<1>15. Implements
  BY <1>1, <1>5, <1>6, StoreStep
<1> QED BY <1>12, <1>13, <1>14, <1>15 DEF RecoveryInv

LEMMA CommitAndCheckpointStep ==
    ASSUME RecoveryInv, BlockInv', NEW op \in Operations, NEW t \in Tables, CommitAndCheckpoint(op, t)
    PROVE  RecoveryInv' /\ Implements
<1> DEFINE c == [op |-> op, table |-> t, number |-> numbers + 1]
<1>1. /\ pc = "idle" /\ pc' = "checkpoint" /\ commit' = c /\ numbers < MaxCommits /\ CanApply(tables, c)
      /\ tables' = Applied(tables, c)
      /\ checkpoint' = [checkpoint EXCEPT !.reason = "commit"]
      /\ UNCHANGED <<stable, header, log, log_images, content, failed>>
  BY DEF CommitAndCheckpoint, files
<1>2. c \in Commit
  BY <1>1, NewCommit DEF RecoveryInv
<1>3. tables \in TablesType /\ checkpoint \in CheckpointType
  BY DEF RecoveryInv, BlockInv, TypeInv
<1> HIDE DEF c
<1>4. checkpoint'.reason = "commit"
  BY <1>1, <1>3 DEF CheckpointType
<1>5. Contents(tables) = content /\ commit = NoCommit /\ Live(Loaded, Top(header), log, content)
  BY <1>1 DEF RecoveryInv, StateInv, LogInv
<1>6. Contents(tables') = Store!After(content, c)
  BY <1>1, <1>2, <1>3, <1>5, ContentsApplied
<1>7. Loaded' = Loaded /\ Top(header)' = Top(header)
  BY <1>1 DEF Loaded
<1>8. \A image : HoldsFailed(image)' <=> HoldsFailed(image)
  BY <1>1 DEF HoldsFailed
<1>9. \A image \in log_images : HoldsFailed(image) \/ Fine(Loaded, Top(header), image, content)
  BY <1>1 DEF RecoveryInv, LogInv, Switched
<1>10. StateInv'
  BY <1>1, <1>2, <1>4, <1>6 DEF StateInv
<1>11. LogInv'
  BY <1>1, <1>5, <1>7, <1>8, <1>9 DEF LogInv
<1>12. RecordInv'
  BY <1>1 DEF RecordInv, Switched
<1>13. Implements
  BY <1>1, <1>2, <1>5, StoreStep, DurabilityAssumption
<1> QED BY <1>10, <1>11, <1>12, <1>13 DEF RecoveryInv

LEMMA FlushCommitStep ==
    ASSUME RecoveryInv, BlockInv', FlushCommit
    PROVE  RecoveryInv' /\ Implements
<1>1. /\ pc = "flush" /\ pc' = "idle" /\ log_images' = {log} /\ tables' = Applied(tables, commit)
      /\ content' = Contents(tables') /\ commit' = NoCommit
      /\ UNCHANGED <<stable, header, log, failed>>
  BY DEF FlushCommit
<1>2. commit \in Commit /\ CanApply(tables, commit) /\ tables \in TablesType
  BY <1>1 DEF RecoveryInv, BlockInv, FlushInv, TypeInv
<1>3. Contents(tables) = content
  BY <1>1 DEF RecoveryInv, StateInv
<1>4. content' = Store!After(content, commit)
  BY <1>1, <1>2, <1>3, ContentsApplied
<1>5. log = Append(Front(log), CommitRecord(commit)) /\ Live(Loaded, Top(header), Front(log), content)
  BY <1>1 DEF RecoveryInv, LogInv
<1>6. Loaded \in TablesType /\ Distinct(Loaded)
  BY <1>1, LoadedFacts DEF RecoveryInv
<1>7. Live(Loaded, Top(header), log, content')
  <2> DEFINE ts == Loaded
             h == Top(header)
             lg == Front(log)
             x == content
             us == tables
             c == commit
  <2>1. /\ ts \in TablesType /\ Distinct(ts) /\ Live(ts, h, lg, x) /\ us \in TablesType /\ Contents(us) = x
        /\ c \in Commit /\ CanApply(us, c)
    BY <1>2, <1>3, <1>5, <1>6
  <2> HIDE DEF ts, h, lg, x, us, c
  <2>2. Live(ts, h, Append(lg, CommitRecord(c)), Store!After(x, c))
    BY ONLY <2>1, LiveCommit
  <2> QED BY <1>4, <1>5, <2>2 DEF ts, h, lg, x, us, c
<1>8. Loaded' = Loaded /\ Top(header)' = Top(header)
  BY <1>1 DEF Loaded
<1>9. StateInv'
  BY <1>1 DEF StateInv, Checkpointing, Allocated
<1>10. LogInv'
  BY <1>1, <1>7, <1>8 DEF LogInv, Fine
<1>11. RecordInv'
  BY <1>1 DEF RecordInv, Switched
<1>12. Implements
  BY <1>1, <1>2, <1>4, StoreStep, DurabilityAssumption
<1> QED BY <1>9, <1>10, <1>11, <1>12 DEF RecoveryInv

LEMMA FailCommitStep ==
    ASSUME RecoveryInv, BlockInv', FailCommit
    PROVE  RecoveryInv' /\ Implements
<1>1. /\ pc = "flush" /\ pc' = "idle" /\ log' = Front(log) /\ log_images' = log_images \cup {log'}
      /\ failed' = failed \cup {commit.number} /\ commit' = NoCommit
      /\ UNCHANGED <<stable, header, tables, content>>
  BY DEF FailCommit, memory
<1>2. commit \in Commit
  BY <1>1 DEF RecoveryInv, BlockInv, FlushInv
<1>3. Contents(tables) = content
  BY <1>1 DEF RecoveryInv, StateInv
<1>4. log = Append(Front(log), CommitRecord(commit)) /\ Live(Loaded, Top(header), Front(log), content)
  BY <1>1 DEF RecoveryInv, LogInv
<1>5. Loaded' = Loaded /\ Top(header)' = Top(header)
  BY <1>1 DEF Loaded
<1>6. \A image : HoldsFailed(image) => HoldsFailed(image)'
  BY <1>1 DEF HoldsFailed
<1>8. \A image : image = log => \E i \in DOMAIN image : image[i] # Torn /\ image[i].type = "commit"
                                                        /\ image[i].commit.number \in failed'
  <2> DEFINE lg == Front(log)
             r == CommitRecord(commit)
  <2>1. lg \in Seq(Record) /\ r \in Record /\ r.type = "commit" /\ r.commit = commit
    BY <1>2, <1>4, RecordTypes DEF Live
  <2>2. r # Torn
    BY <2>1, DurabilityAssumption
  <2> HIDE DEF lg, r
  <2>3. PICK new : new = Append(lg, r)
    OBVIOUS
  <2>4. Len(lg) + 1 \in DOMAIN new /\ new[Len(lg) + 1] = r
    BY <2>1, <2>3, AppendFacts
  <2>5. log = new
    BY <1>4, <2>3 DEF lg, r
  <2> QED BY <1>1, <2>1, <2>2, <2>4, <2>5
<1>9. \A image \in log_images : HoldsFailed(image)' \/ Fine(Loaded, Top(header), image, content)
  <2> TAKE image \in log_images
  <2>1. HoldsFailed(image) \/ Fine(Loaded, Top(header), image, content) \/ image = log
    BY <1>1 DEF RecoveryInv, LogInv, Switched
  <2>2. CASE image = log
    BY <1>8, <2>2 DEF HoldsFailed
  <2> QED BY <1>6, <2>1, <2>2
<1>10. StateInv'
  BY <1>1, <1>3 DEF StateInv, Checkpointing, Allocated
<1>11. LogInv'
  BY <1>1, <1>4, <1>5, <1>9 DEF LogInv, Fine
<1>12. RecordInv'
  BY <1>1 DEF RecordInv, Switched
<1>13. Implements
  BY <1>1, <1>2, StoreStep, DurabilityAssumption
<1> QED BY <1>10, <1>11, <1>12, <1>13 DEF RecoveryInv


LEMMA StartCheckpointStep ==
    ASSUME RecoveryInv, BlockInv', NEW reason \in {"statement", "close"}, StartCheckpoint(reason)
    PROVE  RecoveryInv' /\ Implements
<1>1. /\ pc = "idle" /\ pc' = "checkpoint"
      /\ checkpoint' = [checkpoint EXCEPT !.reason = reason]
      /\ UNCHANGED <<stable, header, log, log_images, tables, commit, content, failed>>
  BY DEF StartCheckpoint, files, memory
<1>2. checkpoint'.reason = reason
  BY <1>1 DEF RecoveryInv, BlockInv, TypeInv, CheckpointType
<1>3. Contents(tables) = content /\ commit = NoCommit /\ Live(Loaded, Top(header), log, content)
  BY <1>1 DEF RecoveryInv, StateInv, LogInv
<1>4. Loaded' = Loaded /\ Top(header)' = Top(header)
  BY <1>1 DEF Loaded
<1>5. \A image : HoldsFailed(image)' <=> HoldsFailed(image)
  BY <1>1 DEF HoldsFailed
<1>6. \A image \in log_images : HoldsFailed(image) \/ Fine(Loaded, Top(header), image, content)
  BY <1>1 DEF RecoveryInv, LogInv, Switched
<1>7. StateInv'
  BY <1>1, <1>2, <1>3 DEF StateInv
<1>8. LogInv'
  BY <1>1, <1>3, <1>4, <1>5, <1>6 DEF LogInv
<1>9. RecordInv'
  BY <1>1 DEF RecordInv, Switched
<1> QED BY <1>1, <1>7, <1>8, <1>9, StoreStep DEF RecoveryInv

LEMMA CloseStep ==
    ASSUME RecoveryInv, BlockInv', CloseWithoutCheckpoint
    PROVE  RecoveryInv' /\ Implements
<1>1. /\ pc = "idle" /\ pc' = "closed" /\ content' = Recovered(disk, header, log)
      /\ UNCHANGED <<stable, header, log, log_images, tables, commit, failed>>
  BY DEF CloseWithoutCheckpoint, files, memory
<1>2. Contents(tables) = content /\ commit = NoCommit /\ Live(Loaded, Top(header), log, content)
  BY <1>1 DEF RecoveryInv, StateInv, LogInv
<1>3. content' = content
  <2>1. BlockInv /\ ~Switching /\ Fine(Loaded, Top(header), log, content)
    BY <1>1, <1>2 DEF RecoveryInv, Switching, Fine
  <2> QED BY <1>1, <2>1, RecoveredNow
<1>4. Loaded' = Loaded /\ Top(header)' = Top(header)
  BY <1>1 DEF Loaded
<1>5. \A image : HoldsFailed(image)' <=> HoldsFailed(image)
  BY <1>1 DEF HoldsFailed
<1>6. \A image \in log_images : HoldsFailed(image) \/ Fine(Loaded, Top(header), image, content)
  BY <1>1 DEF RecoveryInv, LogInv, Switched
<1>7. StateInv'
  BY <1>1, <1>2 DEF StateInv, Checkpointing, Allocated
<1>8. LogInv'
  BY <1>1, <1>2, <1>3, <1>4, <1>5, <1>6 DEF LogInv, Fine, Checkpointing, Allocated, Switched
<1>9. RecordInv'
  BY <1>1 DEF RecordInv, Switched
<1> QED BY <1>1, <1>3, <1>7, <1>8, <1>9, StoreStep DEF RecoveryInv

LEMMA AllocateMetadataStep ==
    ASSUME RecoveryInv, BlockInv', AllocateMetadata
    PROVE  RecoveryInv' /\ Implements
<1> DEFINE meta == GetFreeBlockId(free_list, max_block)
           tabledata == GetFreeBlockId(meta.free, meta.max)
<1>1. /\ pc = "checkpoint" /\ pc' = "write"
      /\ checkpoint' = [checkpoint EXCEPT !.meta_block = meta.block, !.tabledata = tabledata.block]
      /\ UNCHANGED <<stable, header, log, log_images, tables, commit, content, failed>>
  BY DEF AllocateMetadata, files, history
<1>2. checkpoint'.reason = checkpoint.reason
  <2> HIDE DEF meta, tabledata
  <2> QED BY <1>1 DEF RecoveryInv, BlockInv, TypeInv, CheckpointType
<1>3. pc \in Checkpointing \ Switched /\ pc' \in Checkpointing \ Switched
  BY <1>1 DEF Checkpointing, Allocated, Switched
<1>4. StateInv' /\ LogInv' /\ Implements
  BY <1>1, <1>2, <1>3, QuietStep DEF RecoveryInv
<1>5. RecordInv'
  BY <1>1 DEF RecordInv, Switched
<1> QED BY <1>4, <1>5 DEF RecoveryInv

LEMMA WriteSegmentStep ==
    ASSUME RecoveryInv, BlockInv', NEW t \in Tables, WriteSegment(t)
    PROVE  RecoveryInv' /\ Implements
<1> DEFINE i == checkpoint.done[t] + 1
           segment == tables[t][i]
           a == GetFreeBlockId(free_list, max_block)
<1>1. /\ pc = "write" /\ pc' = "write" /\ t \in Existing /\ i <= Len(tables[t])
      /\ checkpoint' = [checkpoint EXCEPT !.done[t] = i]
      /\ UNCHANGED <<stable, header, log, log_images, commit, content, failed>>
  BY DEF WriteSegment, history
<1>2. tables \in TablesType /\ tables' \in TablesType /\ checkpoint \in CheckpointType
  BY DEF RecoveryInv, BlockInv, TypeInv
<1>3. checkpoint'.reason = checkpoint.reason
  <2> HIDE DEF i
  <2> QED BY <1>1, <1>2 DEF CheckpointType
<1>4. Contents(tables') = Contents(tables)
  <2>1. CASE UNCHANGED tables
    BY <2>1
  <2>2. CASE /\ a.max <= MaxBlocks
             /\ tables' = [tables EXCEPT ![t][i] = PersistentSegment(a.block, segment.rows)]
    <3>0. a.block \in Blocks
      <4>1. max_block \in Nat /\ free_list \subseteq InUse(max_block)
        BY DurabilityAssumption DEF RecoveryInv, BlockInv, TypeInv, MemoryInv
      <4>2. a.max \in Nat /\ a.block \in InUse(a.max)
        BY <4>1, AllocateOne
      <4> QED BY <2>2, <4>2, InUseBlocks
    <3>1. tables[t] # Absent /\ tables[t] \in Rows /\ DOMAIN tables = Tables
      BY <1>1, <1>2, ContentsFacts DEF Existing, TablesType
    <3> HIDE DEF i, a, segment
    <3>2. tables'[t] = [tables[t] EXCEPT ![i] = PersistentSegment(a.block, segment.rows)]
          /\ \A u \in Tables \ {t} : tables'[u] = tables[u]
      BY <2>2, <3>1
    <3>3. Len(tables'[t]) = Len(tables[t]) /\ \A k \in DOMAIN tables[t] : tables'[t][k].rows = tables[t][k].rows
      <4>1. tables[t] \in Seq(Segment)
        BY <3>1 DEF Rows
      <4>2. Len(tables'[t]) = Len(tables[t])
        BY <3>2, <4>1
      <4>3. PersistentSegment(a.block, segment.rows).rows = segment.rows
        BY DEF PersistentSegment
      <4>4. segment = tables[t][i]
        BY DEF segment, i
      <4> QED BY <3>2, <4>2, <4>3, <4>4
    <3>4. DOMAIN tables[t] = 1 .. Len(tables[t]) /\ tables'[t] # Absent
      <4>1. tables[t] \in Seq(Segment) /\ DOMAIN tables[t] = 1 .. Len(tables[t]) /\ i \in 1 .. Len(tables[t])
        <5>1. checkpoint.done[t] \in Nat /\ Len(tables[t]) \in Nat /\ DOMAIN tables[t] = 1 .. Len(tables[t])
          BY <1>2, <3>1, RowsFacts DEF CheckpointType
        <5> QED BY <1>1, <3>1, <5>1 DEF i, Rows
      <4>2. segment.rows \in Bag
        <5>1. segment \in Segment
          BY <3>1, <4>1, RowsFacts DEF segment, i
        <5> QED BY <5>1 DEF Segment
      <4>3. PersistentSegment(a.block, segment.rows) \in Segment
        BY <3>0, <4>2 DEF PersistentSegment, Segment
      <4> DEFINE s == PersistentSegment(a.block, segment.rows)
                 old == tables[t]
      <4>4. tables'[t] = [old EXCEPT ![i] = s] /\ s \in Segment /\ old \in Seq(Segment)
        BY <3>2, <4>1, <4>3
      <4> HIDE DEF s, old
      <4>5. tables'[t] \in Seq(Segment)
        <5>1. [old EXCEPT ![i] = s] \in Seq(Segment)
          BY <4>1, <4>4, ExceptSeq DEF old
        <5> QED BY <4>4, <5>1
      <4>6. tables'[t] # Absent
        BY <4>5, DurabilityAssumption
      <4> QED BY <4>1, <4>6
    <3> DEFINE ts == tables
               us == tables'
    <3>5. \A u \in Tables : /\ ts[u] = Absent <=> us[u] = Absent
                            /\ ts[u] # Absent => /\ Len(us[u]) = Len(ts[u])
                                                 /\ \A k \in 1 .. Len(ts[u]) : us[u][k].rows = ts[u][k].rows
      <4> TAKE u \in Tables
      <4>1. CASE u = t
        BY <3>1, <3>3, <3>4, <4>1
      <4>2. CASE u # t
        BY <3>2, <4>2
      <4> QED BY <4>1, <4>2
    <3>6. ts \in TablesType /\ us \in TablesType
      BY <1>2
    <3> HIDE DEF ts, us
    <3>7. Contents(us) = Contents(ts)
      BY ONLY <3>5, <3>6, ContentsSame
    <3> QED BY <3>7 DEF ts, us
  <2> QED BY <2>1, <2>2 DEF WriteSegment
<1>5. pc \in Checkpointing \ Switched /\ pc' \in Checkpointing \ Switched
  BY <1>1 DEF Checkpointing, Allocated, Switched
<1>6. StateInv' /\ LogInv' /\ Implements
  BY <1>1, <1>3, <1>4, <1>5, QuietStep DEF RecoveryInv
<1>7. RecordInv'
  BY <1>1 DEF RecordInv, Switched
<1> QED BY <1>6, <1>7 DEF RecoveryInv

LEMMA WriteMetadataStep ==
    ASSUME RecoveryInv, BlockInv', WriteMetadata
    PROVE  RecoveryInv' /\ Implements
<1> DEFINE W == {checkpoint.meta_block} \cup (IF Existing = {} THEN {} ELSE {checkpoint.tabledata})
<1>1. /\ pc = "write" /\ pc' = "record"
      /\ checkpoint' = [checkpoint EXCEPT !.written = W]
      /\ UNCHANGED <<stable, header, log, log_images, tables, commit, content, failed>>
  BY DEF WriteMetadata, memory
<1> HIDE DEF W
<1>2. checkpoint'.reason = checkpoint.reason /\ checkpoint'.meta_block = checkpoint.meta_block
  BY <1>1 DEF RecoveryInv, BlockInv, TypeInv, CheckpointType
<1>3. pc \in Checkpointing \ Switched /\ pc' \in Checkpointing \ Switched
  BY <1>1 DEF Checkpointing, Allocated, Switched
<1>4. StateInv' /\ LogInv' /\ Implements
  BY <1>1, <1>2, <1>3, QuietStep DEF RecoveryInv
<1>5. checkpoint.meta_block # Top(header).meta_block
  <2>1. checkpoint.meta_block \in InUse(max_block) /\ checkpoint.meta_block \notin FileBlocks(disk, Top(header))
    BY <1>1 DEF RecoveryInv, BlockInv, OwnInv, Allocated
  <2>2. checkpoint.meta_block # INVALID_BLOCK
    BY <2>1 DEF InUse, INVALID_BLOCK
  <2>3. Top(header).meta_block = INVALID_BLOCK \/ Top(header).meta_block \in FileBlocks(disk, Top(header))
    BY DEF FileBlocks
  <2> QED BY <2>1, <2>2, <2>3
<1>6. RecordInv'
  BY <1>1, <1>2, <1>5 DEF RecordInv, Switched
<1> QED BY <1>4, <1>6 DEF RecoveryInv

\* The blocks of the checkpoint under way.
LEMMA MetaBlockType ==
    ASSUME BlockInv, pc \in Allocated
    PROVE  checkpoint.meta_block \in Blocks
<1>1. checkpoint.meta_block \in InUse(max_block) /\ max_block \in 0 .. MaxBlocks
  BY DEF BlockInv, TypeInv, OwnInv
<1> QED BY <1>1, DurabilityAssumption DEF InUse, Blocks

LEMMA WriteCheckpointRecordStep ==
    ASSUME RecoveryInv, FaultsAreHandled, BlockInv', WriteCheckpointRecord
    PROVE  RecoveryInv' /\ Implements
<1> DEFINE b == checkpoint.meta_block
<1>1. /\ pc = "record" /\ pc' = "sync_record" /\ log' = Append(log, CheckpointRecord(b))
      /\ log_images' = Written(CheckpointRecord(b))
      /\ UNCHANGED <<stable, header, tables, checkpoint, commit, content, failed>>
  BY DEF WriteCheckpointRecord, memory, history
<1>2. Live(Loaded, Top(header), log, content) /\ b # Top(header).meta_block /\ b \in Blocks
  <2>1. pc \in Allocated /\ pc \in Checkpointing \ Switched
    BY <1>1 DEF Allocated, Checkpointing, Switched
  <2>2. b \in Blocks
    BY <2>1, MetaBlockType DEF RecoveryInv
  <2> QED BY <1>1, <2>1, <2>2 DEF RecoveryInv, LogInv, RecordInv
<1>3. Loaded \in TablesType
  BY <1>1, LoadedFacts DEF RecoveryInv
<1>4. /\ Live(Loaded, Top(header), log', content)
      /\ LastCheckpoint(log') = b /\ log' \in Seq(Record)
  <2> HIDE DEF b
  <2> DEFINE ts == Loaded
             h == Top(header)
             lg == log
             x == content
  <2>1. ts \in TablesType /\ Live(ts, h, lg, x) /\ b \in Blocks /\ b # h.meta_block
    BY <1>2, <1>3
  <2> HIDE DEF ts, h, lg, x
  <2>2. /\ Live(ts, h, Append(lg, CheckpointRecord(b)), x)
        /\ LastCheckpoint(Append(lg, CheckpointRecord(b))) = b
        /\ Append(lg, CheckpointRecord(b)) \in Seq(Record)
    BY ONLY <2>1, LiveCheckpoint
  <2> QED BY <1>1, <2>2 DEF ts, h, lg, x
<1>5. Loaded' = Loaded /\ Top(header)' = Top(header)
  BY <1>1 DEF Loaded
<1>6. \A image : HoldsFailed(image)' <=> HoldsFailed(image)
  BY <1>1 DEF HoldsFailed
<1>7. log_images' = log_images \cup {log'}
  BY <1>1, WrittenHere
<1>8. \A image \in log_images : HoldsFailed(image) \/ Fine(Loaded, Top(header), image, content)
  BY <1>1 DEF RecoveryInv, LogInv, Switched
<1>9. StateInv'
  BY <1>1 DEF RecoveryInv, StateInv, Checkpointing, Allocated
<1>10. LogInv'
  BY <1>1, <1>4, <1>5, <1>6, <1>7, <1>8 DEF LogInv, Fine
<1>11. RecordInv'
  BY <1>1, <1>2, <1>4, <1>5 DEF RecordInv, Switched
<1> QED BY <1>1, <1>9, <1>10, <1>11, StoreStep DEF RecoveryInv

LEMMA FlushCheckpointRecordStep ==
    ASSUME RecoveryInv, BlockInv', FlushCheckpointRecord
    PROVE  RecoveryInv' /\ Implements
<1>1. /\ pc = "sync_record" /\ pc' = "header" /\ log_images' = {log}
      /\ UNCHANGED <<stable, header, log, tables, checkpoint, commit, content, failed>>
  BY DEF FlushCheckpointRecord, memory, history
<1>2. Loaded' = Loaded /\ Top(header)' = Top(header)
  BY <1>1 DEF Loaded
<1>3. pc \in Checkpointing \ Switched /\ pc' \in Checkpointing \ Switched
  BY <1>1 DEF Checkpointing, Allocated, Switched
<1>4. Live(Loaded, Top(header), log, content)
  BY <1>3 DEF RecoveryInv, LogInv
<1>5. StateInv'
  BY <1>1, <1>3 DEF RecoveryInv, StateInv
<1>6. LogInv'
  BY <1>1, <1>2, <1>4 DEF LogInv, Fine
<1>7. RecordInv'
  BY <1>1, <1>2 DEF RecoveryInv, RecordInv, Switched
<1> QED BY <1>1, <1>5, <1>6, <1>7, StoreStep DEF RecoveryInv

LEMMA WriteFreeListStep ==
    ASSUME RecoveryInv, BlockInv', WriteFreeList
    PROVE  RecoveryInv' /\ Implements
<1> DEFINE free == free_list \cup modified_blocks
           block == IF free = {} THEN INVALID_BLOCK ELSE GetFreeBlockId(free, max_block).block
           h == [iteration |-> iteration_count + 1, meta_block |-> checkpoint.meta_block,
                 free_list |-> block, block_count |-> max_block]
           over == block \in FileBlocks(disk, header[active_header])
<1>1. /\ pc = "header" /\ pc' = "write_header"
      /\ checkpoint' = [checkpoint EXCEPT !.header = h, !.overwrites = over]
      /\ UNCHANGED <<stable, header, log, log_images, tables, commit, content, failed>>
  BY DEF WriteFreeList, history
<1> HIDE DEF h, over
<1>2. checkpoint'.reason = checkpoint.reason /\ checkpoint'.meta_block = checkpoint.meta_block
  BY <1>1 DEF RecoveryInv, BlockInv, TypeInv, CheckpointType
<1>3. pc \in Checkpointing \ Switched /\ pc' \in Checkpointing \ Switched
  BY <1>1 DEF Checkpointing, Allocated, Switched
<1>4. StateInv' /\ LogInv' /\ Implements
  BY <1>1, <1>2, <1>3, QuietStep DEF RecoveryInv
<1>5. /\ LoadTables(disk', checkpoint'.header) = tables
      /\ checkpoint'.header.meta_block = checkpoint.meta_block
  BY WriteFreeListBlocks DEF RecoveryInv
<1>6. RecordInv'
  BY <1>1, <1>2, <1>5 DEF RecoveryInv, RecordInv, Switched
<1> QED BY <1>4, <1>6 DEF RecoveryInv


LEMMA WriteHeaderStep ==
    ASSUME RecoveryInv, BlockInv', WriteHeader
    PROVE  RecoveryInv' /\ Implements
<1>1. /\ pc = "write_header" /\ pc' = "sync_header" /\ stable' = disk
      /\ UNCHANGED <<disk, stable_header, log, log_images, tables, checkpoint, commit, content, failed>>
  BY DEF WriteHeader, history
<1>2. Top(header') = checkpoint.header
  BY WriteHeaderBlocks DEF RecoveryInv
<1>3. /\ checkpoint.header.meta_block = checkpoint.meta_block
      /\ LoadTables(disk, checkpoint.header) = tables
      /\ LastCheckpoint(log) = checkpoint.meta_block /\ log \in Seq(Record) /\ log_images = {log}
  BY <1>1 DEF RecoveryInv, RecordInv, Switched
<1>4. Loaded' = tables
  BY <1>1, <1>2, <1>3 DEF Loaded
<1>5. pc \in Checkpointing \ Switched /\ pc' \in Checkpointing /\ pc' \in Switched
      /\ pc' \notin {"idle", "flush", "down", "closed"}
  BY <1>1 DEF Checkpointing, Allocated, Switched
<1>6. Live(Loaded, Top(header), log, content) /\ stable_header = header
  BY <1>1, <1>5 DEF RecoveryInv, LogInv, BlockInv, FileInv
<1>7. ~checkpoint.overwrites => LoadTables(disk, Top(header)) = Loaded
  <2> HAVE ~checkpoint.overwrites
  <2>1. Loadable(stable, Top(header), leaked) /\ Agree(disk, stable, FileBlocks(stable, Top(header)))
    BY <1>1 DEF RecoveryInv, BlockInv, FileInv, SwitchInv
  <2> QED BY <2>1, FileFrame, LoadableFacts DEF Loaded
<1>8. StateInv'
  BY <1>1, <1>5 DEF RecoveryInv, StateInv
<1>9. LogInv'
  BY <1>5 DEF LogInv
<1>10. RecordInv'
  BY <1>1, <1>2, <1>3, <1>4, <1>6, <1>7 DEF RecordInv, Switched
<1> QED BY <1>1, <1>8, <1>9, <1>10, StoreStep DEF RecoveryInv

LEMMA SyncHeaderStep ==
    ASSUME RecoveryInv, BlockInv', SyncHeader
    PROVE  RecoveryInv' /\ Implements
<1>1. /\ pc = "sync_header" /\ pc' = "truncate"
      /\ UNCHANGED <<stable, header, log, log_images, tables, checkpoint, commit, content, failed>>
  BY DEF SyncHeader, memory, history
<1>2. Loaded' = Loaded /\ Top(header)' = Top(header)
  BY <1>1 DEF Loaded
<1>3. pc \in Checkpointing /\ pc' \in Checkpointing /\ pc' \in Switched
      /\ pc' \notin {"idle", "flush", "down", "closed"} /\ pc \in Switched
  BY <1>1 DEF Checkpointing, Allocated, Switched
<1>4. StateInv'
  BY <1>1, <1>3 DEF RecoveryInv, StateInv
<1>5. LogInv'
  BY <1>3 DEF LogInv
<1>6. RecordInv'
  BY <1>1, <1>2, <1>3 DEF RecoveryInv, RecordInv
<1> QED BY <1>1, <1>4, <1>5, <1>6, StoreStep DEF RecoveryInv

\* The contents by the memory of a checkpoint.
LEMMA CheckpointContents ==
    ASSUME StateInv, pc \in Checkpointing
    PROVE  \/ commit = NoCommit /\ checkpoint.reason # "commit" /\ Contents(tables) = content
           \/ commit \in Commit /\ checkpoint.reason = "commit" /\ Contents(tables) = Store!After(content, commit)
  BY DEF StateInv

LEMMA AbortBeforeHeaderStep ==
    ASSUME RecoveryInv, FaultsAreHandled, BlockInv', AbortBeforeHeader
    PROVE  RecoveryInv' /\ Implements
<1>1. /\ pc = "header" /\ checkpoint.reason # "commit"
      /\ content' = IF checkpoint.reason = "close" THEN Recovered(disk, header, log) ELSE Contents(tables)
      /\ commit' = NoCommit
      /\ pc' \in {"closed", "idle"}
      /\ UNCHANGED <<disk, stable, header, log, log_images, tables, failed>>
  BY HandledFaults DEF AbortBeforeHeader, EndCheckpoint, files, memory
<1>2. pc \in Checkpointing \ Switched
  BY <1>1 DEF Checkpointing, Allocated, Switched
<1>3. Contents(tables) = content /\ commit = NoCommit
  BY <1>1, <1>2, CheckpointContents DEF RecoveryInv
<1>4. Live(Loaded, Top(header), log, content) /\ log_images = {log}
  BY <1>1, <1>2 DEF RecoveryInv, LogInv, RecordInv
<1>5. Fine(Loaded, Top(header), log, content)
  BY <1>4 DEF Fine
<1>6. content' = content
  <2>1. BlockInv /\ ~Switching
    BY <1>1 DEF RecoveryInv, Switching
  <2>2. Recovered(disk, header, log) = content
    BY <1>5, <2>1, RecoveredNow
  <2> QED BY <1>1, <1>3, <2>2
<1>7. Loaded' = Loaded /\ Top(header)' = Top(header)
  BY <1>1 DEF Loaded
<1>8. StateInv'
  BY <1>1, <1>3, <1>6 DEF StateInv, Checkpointing, Allocated
<1>9. LogInv'
  BY <1>1, <1>4, <1>5, <1>6, <1>7 DEF LogInv, Checkpointing, Allocated
<1>10. RecordInv'
  BY <1>1 DEF RecordInv, Switched
<1> QED BY <1>1, <1>3, <1>6, <1>8, <1>9, <1>10, StoreStep DEF RecoveryInv

\* Once the new header is on disk, the log is obsolete.
LEMMA SwitchedLog ==
    ASSUME RecoveryInv, pc = "truncate"
    PROVE  /\ Obsolete(Loaded, Top(header), log, Contents(tables))
           /\ Live(Loaded, Top(header), <<>>, Contents(tables))
           /\ log_images = {log} /\ Loaded = tables
<1>1. pc \in Allocated
  BY DEF Allocated
<1>2. checkpoint.meta_block \in Blocks
  BY <1>1, MetaBlockType DEF RecoveryInv
<1>3. /\ LastCheckpoint(log) = checkpoint.meta_block /\ log \in Seq(Record) /\ log_images = {log}
      /\ Top(header).meta_block = checkpoint.meta_block /\ Loaded = tables
  BY DEF RecoveryInv, RecordInv, Switched
<1>4. Obsolete(Loaded, Top(header), log, Contents(tables))
  BY <1>2, <1>3, ObsoleteNow
<1>5. Live(Loaded, Top(header), <<>>, Contents(tables))
  BY <1>3, LiveNothing
<1> QED BY <1>3, <1>4, <1>5

LEMMA AbortBeforeTruncateStep ==
    ASSUME RecoveryInv, FaultsAreHandled, BlockInv', AbortBeforeTruncate
    PROVE  RecoveryInv' /\ Implements
<1>1. /\ pc = "truncate" /\ checkpoint.reason = "close"
      /\ content' = Recovered(disk, header, log)
      /\ commit' = NoCommit
      /\ pc' = "closed"
      /\ UNCHANGED <<disk, stable, header, log, log_images, tables, failed>>
  BY HandledFaults DEF AbortBeforeTruncate, EndCheckpoint, files, memory
<1>2. pc \in Checkpointing
  BY <1>1 DEF Checkpointing, Allocated
<1>3. Contents(tables) = content /\ commit = NoCommit
  BY <1>1, <1>2, CheckpointContents DEF RecoveryInv
<1>4. Fine(Loaded, Top(header), log, content) /\ log_images = {log}
  BY <1>1, <1>3, SwitchedLog DEF Fine
<1>5. content' = content
  <2>1. BlockInv /\ ~Switching
    BY <1>1 DEF RecoveryInv, Switching
  <2> QED BY <1>1, <1>4, <2>1, RecoveredNow
<1>6. Loaded' = Loaded /\ Top(header)' = Top(header)
  BY <1>1 DEF Loaded
<1>7. StateInv'
  BY <1>1 DEF StateInv, Checkpointing, Allocated
<1>8. LogInv'
  BY <1>1, <1>4, <1>5, <1>6 DEF LogInv, Checkpointing, Allocated
<1>9. RecordInv'
  BY <1>1 DEF RecordInv, Switched
<1> QED BY <1>1, <1>3, <1>5, <1>7, <1>8, <1>9, StoreStep DEF RecoveryInv

LEMMA TruncateLogStep ==
    ASSUME RecoveryInv, BlockInv', TruncateLog
    PROVE  RecoveryInv' /\ Implements
<1>1. /\ pc = "truncate" /\ log' = <<>> /\ log_images' = log_images \cup {<<>>}
      /\ content' = IF checkpoint.reason = "close" THEN Recovered(disk, header, log') ELSE Contents(tables)
      /\ commit' = NoCommit
      /\ pc' \in {"closed", "idle"}
      /\ UNCHANGED <<disk, stable, header, tables, failed>>
  BY DEF TruncateLog, EndCheckpoint
<1>2. pc \in Checkpointing
  BY <1>1 DEF Checkpointing, Allocated
<1>3. /\ Live(Loaded, Top(header), <<>>, Contents(tables)) /\ Fine(Loaded, Top(header), <<>>, Contents(tables))
      /\ Fine(Loaded, Top(header), log, Contents(tables)) /\ log_images = {log}
  BY <1>1, SwitchedLog DEF Fine
<1>4. content' = Contents(tables)
  <2>1. BlockInv /\ ~Switching
    BY <1>1 DEF RecoveryInv, Switching
  <2>2. Recovered(disk, header, <<>>) = Contents(tables)
    BY <1>3, <2>1, RecoveredNow
  <2> QED BY <1>1, <2>2
<1>5. Loaded' = Loaded /\ Top(header)' = Top(header)
  BY <1>1 DEF Loaded
<1>6. StateInv'
  BY <1>1, <1>4 DEF StateInv, Checkpointing, Allocated
<1>7. LogInv'
  BY <1>1, <1>3, <1>4, <1>5 DEF LogInv, Checkpointing, Allocated
<1>8. RecordInv'
  BY <1>1 DEF RecordInv, Switched
<1>9. Implements
  <2>1. CASE commit = NoCommit /\ Contents(tables) = content
    BY <1>1, <1>4, <2>1, StoreStep
  <2>2. CASE commit \in Commit /\ Contents(tables) = Store!After(content, commit)
    BY <1>1, <1>4, <2>2, StoreStep, DurabilityAssumption
  <2> QED BY <1>2, <2>1, <2>2, CheckpointContents DEF RecoveryInv
<1> QED BY <1>6, <1>7, <1>8, <1>9 DEF RecoveryInv


\* What a crash finds: the contents, or those after the commit under way.
LEMMA CrashFinds ==
    ASSUME RecoveryInv, FaultsAreHandled, Crash
    PROVE  LET found == LoadTables(disk', Top(header')) IN
           \/ Fine(found, Top(header'), log', content)
           \/ commit \in Commit /\ Fine(found, Top(header'), log', Store!After(content, commit))
<1> DEFINE found == LoadTables(disk', Top(header'))
           Goal == \/ Fine(found, Top(header'), log', content)
                   \/ commit \in Commit /\ Fine(found, Top(header'), log', Store!After(content, commit))
<1>1. /\ log' \in log_images /\ header' \in {header, stable_header} /\ ~HoldsFailed(log')
      /\ pc # "down" /\ pc \in Places
  BY HandledFaults DEF Crash, TornHeaders, HeaderIsAtomic, RecoveryInv, BlockInv, TypeInv
<1>2. /\ pc # "sync_header" => header' = header /\ Agree(disk', stable, FileBlocks(stable, Top(header)))
      /\ pc = "sync_header" => disk' = disk
      /\ ~InHeaderWrite
  BY HandledFaults, CrashFile DEF RecoveryInv
<1>3. pc # "sync_header" => found = Loaded /\ Top(header') = Top(header)
  <2> HAVE pc # "sync_header"
  <2>1. GoodFile(stable, Top(header))
    BY LoadedFacts, LoadableFacts DEF RecoveryInv
  <2>2. LoadTables(disk', Top(header)) = LoadTables(stable, Top(header))
    BY <1>2, <2>1, FileFrame
  <2> QED BY <1>2, <2>2 DEF Loaded
<1>4. CASE pc \notin Switched /\ ~(pc = "flush" /\ log' = log)
  <2>1. pc # "sync_header"
    BY <1>4 DEF Switched
  <2>2. Fine(Loaded, Top(header), log', content)
    BY <1>1, <1>4 DEF RecoveryInv, LogInv
  <2> QED BY <1>3, <2>1, <2>2
<1>5. CASE pc = "flush" /\ log' = log
  <2>1. commit \in Commit /\ CanApply(tables, commit) /\ tables \in TablesType /\ Contents(tables) = content
    BY <1>5 DEF RecoveryInv, BlockInv, FlushInv, TypeInv, StateInv
  <2>2. log = Append(Front(log), CommitRecord(commit)) /\ Live(Loaded, Top(header), Front(log), content)
    BY <1>5 DEF RecoveryInv, LogInv
  <2>3. Loaded \in TablesType /\ Distinct(Loaded)
    BY <1>5, LoadedFacts DEF RecoveryInv
  <2> DEFINE ts == Loaded
             h == Top(header)
             lg == Front(log)
             x == content
             us == tables
             c == commit
  <2>4. /\ ts \in TablesType /\ Distinct(ts) /\ Live(ts, h, lg, x) /\ us \in TablesType /\ Contents(us) = x
        /\ c \in Commit /\ CanApply(us, c)
    BY <2>1, <2>2, <2>3
  <2> HIDE DEF ts, h, lg, x, us, c
  <2>5. Live(ts, h, Append(lg, CommitRecord(c)), Store!After(x, c))
    BY ONLY <2>4, LiveCommit
  <2>6. Live(Loaded, Top(header), log, Store!After(content, commit))
    BY <2>2, <2>5 DEF ts, h, lg, x, us, c
  <2>7. Fine(found, Top(header'), log', Store!After(content, commit))
    BY <1>3, <1>5, <2>6 DEF Fine
  <2> QED BY <2>1, <2>7
<1>6. CASE pc \in Switched /\ Top(header') = Top(header)
  <2>1. pc \in Allocated /\ pc \in Checkpointing
    BY <1>6 DEF Switched, Allocated, Checkpointing
  <2>2. checkpoint.meta_block \in Blocks
    BY <2>1, MetaBlockType DEF RecoveryInv
  <2>3. /\ LastCheckpoint(log) = checkpoint.meta_block /\ log \in Seq(Record) /\ log_images = {log}
        /\ Top(header).meta_block = checkpoint.meta_block /\ Loaded = tables
    BY <1>6 DEF RecoveryInv, RecordInv
  <2>4. found = tables
    <3>1. CASE pc = "sync_header"
      <4>1. stable = disk
        BY <3>1 DEF RecoveryInv, BlockInv, SwitchInv
      <4> QED BY <1>2, <1>6, <2>3, <3>1, <4>1 DEF Loaded
    <3>2. CASE pc # "sync_header"
      BY <1>3, <2>3, <3>2
    <3> QED BY <3>1, <3>2
  <2> HIDE DEF found
  <2>5. Obsolete(found, Top(header'), log', Contents(tables))
    BY <1>1, <1>6, <2>2, <2>3, <2>4, ObsoleteNow
  <2>6. Contents(tables) = content \/ (commit \in Commit /\ Contents(tables) = Store!After(content, commit))
    BY <2>1, CheckpointContents DEF RecoveryInv
  <2>7. Goal
    BY <2>5, <2>6 DEF Fine
  <2> QED BY <2>7 DEF found
<1>7. CASE pc \in Switched /\ Top(header') # Top(header)
  <2>1. pc = "sync_header" /\ header' = stable_header
    BY <1>1, <1>2, <1>7 DEF Switched
  <2>2. ~checkpoint.overwrites
    BY <1>2, <2>1 DEF InHeaderWrite
  <2>3. Live(LoadTables(disk, Top(stable_header)), Top(stable_header), log, content) /\ log_images = {log}
    BY <2>1, <2>2 DEF RecoveryInv, RecordInv, Switched
  <2>4. Live(found, Top(header'), log', content)
    BY <1>1, <1>2, <2>1, <2>3
  <2> QED BY <2>4 DEF Fine
<1> QED BY <1>4, <1>5, <1>6, <1>7

LEMMA CrashStep ==
    ASSUME RecoveryInv, FaultsAreHandled, BlockInv', Crash
    PROVE  RecoveryInv' /\ Implements
<1>1. /\ pc' = "down" /\ stable' = disk' /\ log_images' = {log'} /\ commit' = NoCommit
      /\ content' = Recovered(disk', header', log')
  BY DEF Crash
<1>2. Loadable(disk', Top(header'), leaked) /\ header' \in [{0, 1} -> Header]
  BY HandledFaults, CrashFile DEF RecoveryInv, BlockInv, TypeInv
<1> DEFINE found == LoadTables(disk', Top(header'))
<1>3. \A x : Fine(found, Top(header'), log', x) => content' = x
  <2> SUFFICES ASSUME NEW x, Fine(found, Top(header'), log', x) PROVE content' = x
    OBVIOUS
  <2> DEFINE d == disk'
             hs == header'
             lg == log'
             lk == leaked
  <2>1. Loadable(d, Top(hs), lk) /\ Fine(LoadTables(d, Top(hs)), Top(hs), lg, x)
          /\ hs \in [{0, 1} -> Header]
    BY <1>2
  <2> HIDE DEF d, hs, lg, lk
  <2>2. Recovered(d, hs, lg) = x
    BY ONLY <2>1, FineRecovers
  <2> QED BY <1>1, <2>2 DEF d, hs, lg
<1>4. /\ Fine(found, Top(header'), log', content')
      /\ content' = content \/ (commit \in Commit /\ content' = Store!After(content, commit))
  BY <1>3, CrashFinds
<1>5. commit = NoCommit \/ commit \in Commit
  <2>1. pc \in {"idle", "closed", "flush"} \cup Checkpointing
    BY DEF Crash, RecoveryInv, BlockInv, TypeInv, Places, Checkpointing, Allocated
  <2>2. pc = "flush" => commit \in Commit
    BY DEF RecoveryInv, BlockInv, FlushInv
  <2> QED BY <2>1, <2>2 DEF RecoveryInv, StateInv
<1>6. Loaded' = found /\ Top(header)' = Top(header')
  BY <1>1 DEF Loaded
<1>7. StateInv'
  BY <1>1 DEF StateInv, Checkpointing, Allocated
<1>8. LogInv'
  BY <1>1, <1>4, <1>6 DEF LogInv, Checkpointing, Allocated
<1>9. RecordInv'
  BY <1>1 DEF RecordInv, Switched
<1>10. Implements
  BY <1>1, <1>4, <1>5, StoreStep, DurabilityAssumption
<1> QED BY <1>7, <1>8, <1>9, <1>10 DEF RecoveryInv

LEMMA RestartStep ==
    ASSUME RecoveryInv, BlockInv', Restart
    PROVE  RecoveryInv' /\ Implements
<1> DEFINE h == Top(header)
           found == LoadTables(disk, h)
<1>1. ~Switching /\ pc \in {"down", "closed"}
  BY DEF Restart, Switching
<1>2. Loadable(disk, h, leaked) /\ found = Loaded
  BY <1>1, LoadedFacts DEF RecoveryInv
<1>3. Readable(disk, h) /\ HeadersReadable(header)
  BY <1>2, LoadableFacts, HeadersAreReadable DEF RecoveryInv, BlockInv, TypeInv
<1>4. /\ pc' = "idle" /\ tables' = Replay(found, h, log).tables
      /\ log' = IF AlreadyCheckpointed(h, log) THEN <<>> ELSE log
      /\ log_images' = log_images \cup {log'}
      /\ content' = Contents(tables')
      /\ UNCHANGED <<stable, header, commit, failed>>
  BY <1>3 DEF Restart, Top
<1>5. Fine(Loaded, h, log, content) /\ commit = NoCommit
  BY <1>1 DEF RecoveryInv, LogInv, StateInv
<1>6. content' = content
  BY <1>2, <1>4, <1>5, FineReplays
<1>7. Live(Loaded, h, log', content)
  <2>1. CASE AlreadyCheckpointed(h, log)
    BY <1>4, <1>5, <2>1, FineReplays, LiveNothing
  <2>2. CASE ~AlreadyCheckpointed(h, log)
    BY <1>4, <1>5, <2>2, FineReplays
  <2> QED BY <2>1, <2>2
<1>8. Loaded' = Loaded /\ Top(header)' = h
  BY <1>4 DEF Loaded
<1>9. \A image : HoldsFailed(image)' <=> HoldsFailed(image)
  BY <1>4 DEF HoldsFailed
<1>10. \A image \in log_images : HoldsFailed(image) \/ Fine(Loaded, h, image, content)
  BY <1>1 DEF RecoveryInv, LogInv, Switched
<1> HIDE DEF h, found
<1>11. StateInv'
  BY <1>4, <1>5 DEF StateInv, Checkpointing, Allocated
<1>12. LogInv'
  BY <1>4, <1>6, <1>7, <1>8, <1>9, <1>10 DEF LogInv, Fine
<1>13. RecordInv'
  BY <1>4 DEF RecordInv, Switched
<1> QED BY <1>4, <1>6, <1>11, <1>12, <1>13, StoreStep DEF RecoveryInv

LEMMA RecoveryInit == Init => RecoveryInv /\ Store!Init
<1> SUFFICES ASSUME Init PROVE RecoveryInv /\ Store!Init
  OBVIOUS
<1>1. BlockInv
  BY InitBlocks
<1>2. pc = "idle" /\ commit = NoCommit /\ content = Absents /\ tables = Absents /\ log = <<>> /\ log_images = {<<>>}
      /\ stable = disk
  BY DEF Init
<1>3. Contents(Absents) = Absents
  BY DEF Contents, Absents
<1>4. Loaded = Absents
  <2>1. Top(header) = NoHeader
    BY DEF Init, Top, Newest
  <2>2. MetaOf(stable, NoHeader) = Empty
    BY DEF MetaOf, NoHeader
  <2> QED BY <2>1, <2>2 DEF Loaded, LoadTables, Absents
<1>5. Live(Loaded, Top(header), <<>>, Absents)
  BY <1>3, <1>4, LiveNothing
<1>6. StateInv
  BY <1>2, <1>3 DEF StateInv, Checkpointing, Allocated
<1>7. LogInv
  BY <1>2, <1>5 DEF LogInv, Fine
<1>8. RecordInv
  BY <1>2 DEF RecordInv, Switched
<1>9. Store!Init
  BY <1>2 DEF Store!Init, Absents
<1> QED BY <1>1, <1>6, <1>7, <1>8, <1>9 DEF RecoveryInv

LEMMA RecoveryStep ==
    ASSUME RecoveryInv, FaultsAreHandled, [Next]_vars
    PROVE  RecoveryInv' /\ Implements
<1>0. BlockInv'
  BY HandledFaults, StepBlocks DEF RecoveryInv
<1>1. ASSUME NEW op \in Operations, NEW t \in Tables, WriteToLog(op, t) PROVE RecoveryInv' /\ Implements
  BY <1>0, <1>1, WriteToLogStep
<1>2. ASSUME NEW op \in Operations, NEW t \in Tables, CommitAndCheckpoint(op, t) PROVE RecoveryInv' /\ Implements
  BY <1>0, <1>2, CommitAndCheckpointStep
<1>3. CASE FlushCommit
  BY <1>0, <1>3, FlushCommitStep
<1>4. CASE FailCommit
  BY <1>0, <1>4, FailCommitStep
<1>5. ASSUME NEW reason \in {"statement", "close"}, StartCheckpoint(reason) PROVE RecoveryInv' /\ Implements
  BY <1>0, <1>5, StartCheckpointStep
<1>6. CASE CloseWithoutCheckpoint
  BY <1>0, <1>6, CloseStep
<1>7. CASE AllocateMetadata
  BY <1>0, <1>7, AllocateMetadataStep
<1>8. ASSUME NEW t \in Tables, WriteSegment(t) PROVE RecoveryInv' /\ Implements
  BY <1>0, <1>8, WriteSegmentStep
<1>9. CASE WriteMetadata
  BY <1>0, <1>9, WriteMetadataStep
<1>10. CASE WriteCheckpointRecord
  BY <1>0, <1>10, WriteCheckpointRecordStep
<1>11. CASE FlushCheckpointRecord
  BY <1>0, <1>11, FlushCheckpointRecordStep
<1>12. CASE AbortBeforeHeader
  BY <1>0, <1>12, AbortBeforeHeaderStep
<1>13. CASE WriteFreeList
  BY <1>0, <1>13, WriteFreeListStep
<1>14. CASE WriteHeader
  BY <1>0, <1>14, WriteHeaderStep
<1>15. CASE SyncHeader
  BY <1>0, <1>15, SyncHeaderStep
<1>16. CASE AbortBeforeTruncate
  BY <1>0, <1>16, AbortBeforeTruncateStep
<1>17. CASE TruncateLog
  BY <1>0, <1>17, TruncateLogStep
<1>18. CASE Crash
  BY <1>0, <1>18, CrashStep
<1>19. CASE Restart
  BY <1>0, <1>19, RestartStep
<1>20. CASE UNCHANGED vars
  <2>1. /\ UNCHANGED <<disk, header, log, stable, stable_header, log_images, tables, pc, checkpoint, commit, content, failed>>
    BY <1>20 DEF vars, files, memory, history
  <2>2. Loaded' = Loaded /\ Top(header)' = Top(header) /\ \A image : HoldsFailed(image)' <=> HoldsFailed(image)
    BY <2>1 DEF Loaded, HoldsFailed
  <2>3. StateInv' /\ RecordInv'
    BY <2>1, <2>2 DEF RecoveryInv, StateInv, RecordInv
  <2>4. LogInv'
    BY <2>1, <2>2 DEF RecoveryInv, LogInv
  <2> QED BY <1>0, <2>1, <2>3, <2>4, StoreStep DEF RecoveryInv
<1>21. CASE Next
  BY <1>1, <1>2, <1>3, <1>4, <1>5, <1>6, <1>7, <1>8, <1>9, <1>10, <1>11, <1>12, <1>13, <1>14, <1>15, <1>16,
     <1>17, <1>18, <1>19, <1>21 DEF Next
<1> QED BY <1>20, <1>21

(***************************************************************************)
(* The theorems.                                                           *)
(***************************************************************************)
\* The log and the file, at every point of a commit or a checkpoint, are what a restart needs
\* to bring back the contents, under the faults the code copes with: a log that replays to
\* them, or one that its last record declares obsolete.
THEOREM RecoveryInvariant ==
    ASSUME FaultsAreHandled
    PROVE  Spec => []RecoveryInv
<1>1. RecoveryInv /\ [Next]_vars => RecoveryInv'
  BY RecoveryStep
<1> QED BY <1>1, RecoveryInit, PTL DEF Spec

\* Under the faults that the code copes with the database implements DurableStore: when a
\* crash interrupts a commit or a checkpoint, and whichever of the unsynced blocks, records
\* and header survive it, every commit that returned is there once, the one under way once
\* or not at all, and none that failed.
THEOREM NothingIsLost ==
    ASSUME FaultsAreHandled
    PROVE  Spec => NothingLost
<1>1. RecoveryInv /\ [Next]_vars => [Store!Next]_(Store!vars)
  BY RecoveryStep DEF Implements
<1>2. Init => Store!Init
  BY RecoveryInit
<1> QED BY <1>1, <1>2, RecoveryInvariant, PTL DEF Spec, NothingLost, Store!Spec

=============================================================================
