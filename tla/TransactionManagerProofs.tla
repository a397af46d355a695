---------------------- MODULE TransactionManagerProofs ----------------------
(***************************************************************************)
(* Proofs about module TransactionManager: its type invariant, that the    *)
(* recently committed transactions are ordered by commit id, that          *)
(* RemoveTransaction never cleans up a version an active transaction can   *)
(* still need, that nothing is retained when no transaction is active, and *)
(* which queries can be running when a transaction is freed.  They hold    *)
(* for any number of connections, transactions and queries and for every   *)
(* set of statements.                                                      *)
(***************************************************************************)
EXTENDS TransactionManager, SequenceTheorems, TLAPS

(***************************************************************************)
(* The inductive invariant.                                                *)
(***************************************************************************)

\* Where a thread holds transaction_lock across a step.
Locked == {"remove", "force", "force_remove", "create_checkpoint", "destroying"}

\* A thread at one of those places is the owner of transaction_lock.
LockInv == \A c \in Clients : pc[c] \in Locked => transaction_lock = c

\* One transaction id is consumed per start timestamp, so Txns suffices.
CounterInv ==
    /\ TransactionIdStart <= current_transaction_id
    /\ current_transaction_id <= TransactionIdStart + current_start_timestamp

\* The ids not handed out yet are nowhere.
FreshInv ==
    \A t \in Txns : t >= current_transaction_id =>
        /\ commit_id[t] = 0
        /\ t \notin active_transactions
        /\ t \notin SeqToSet(recently_committed)
        /\ t \notin SeqToSet(old_transactions)

\* A transaction object is owned by one list.
DisjointInv ==
    /\ active_transactions \cap SeqToSet(recently_committed) = {}
    /\ active_transactions \cap SeqToSet(old_transactions) = {}
    /\ SeqToSet(recently_committed) \cap SeqToSet(old_transactions) = {}

\* Commit ids, and what was cleaned up, are timestamps of the past.
PastInv ==
    /\ \A t \in Txns : commit_id[t] # 0 => commit_id[t] < current_start_timestamp
    /\ \A i \in 1 .. Len(recently_committed) : commit_id[recently_committed[i]] # 0
    /\ cleaned_until < current_start_timestamp

\* An active transaction has a commit id only between its commit and its
\* removal, and transaction_lock is held in between.
CommittedInv ==
    \A a \in active_transactions :
        commit_id[a] # 0 =>
            /\ transaction_lock \in Clients
            /\ pc[transaction_lock] = "remove"
            /\ removing[transaction_lock] = a

\* What RemoveTransaction's first loop found is still true in the rest of it.
ScanInv ==
    \A c \in Clients : pc[c] \in {"remove", "force_remove"} =>
        /\ removing[c] \in active_transactions
        /\ \A a \in active_transactions \ {removing[c]} : scan.start_time <= start_time[a]
        /\ commit_id[removing[c]] # 0 =>
            \A i \in 1 .. Len(recently_committed) :
                commit_id[recently_committed[i]] < commit_id[removing[c]]

\* All but the types: what makes garbage collection right.
CollectInv ==
    /\ LockInv
    /\ CounterInv
    /\ FreshInv
    /\ DisjointInv
    /\ PastInv
    /\ CommittedInv
    /\ ScanInv
    /\ RecentOrdered
    /\ CleanupSafe

IInv == TypeOK /\ CollectInv

-----------------------------------------------------------------------------
(***************************************************************************)
(* Types.                                                                  *)
(***************************************************************************)

\* The part of TypeOK that EndTransaction, Continue and FinalizeQuery assign.
ContextTypeOK ==
    /\ current_transaction \in [Clients -> Txns \union {NoTxn}]
    /\ auto_commit \in [Clients -> BOOLEAN]
    /\ changes_made \in [Clients -> BOOLEAN]
    /\ context_lock \in [Clients -> Clients \union {NoClient}]
    /\ pc \in [Clients -> PcValues]
    /\ after \in [Clients -> {"idle", "ready", "closed"}]
    /\ removing \in [Clients -> Txns \union {NoTxn}]

\* PcAfter, with which threads continue and dropped contexts are destroyed,
\* only yields places of the code.
LEMMA PcAfterType ==
    ASSUME TypeOK, NEW c \in Clients, NEW target \in PcValues
    PROVE  PcAfter(c, target) \in [Clients -> PcValues]
BY DEF PcAfter, TypeOK, PcValues

\* LocksAfter, which releases contexts, assigns owners.
LEMMA LocksAfterType ==
    ASSUME TypeOK, NEW c \in Clients, NEW target
    PROVE  LocksAfter(c, target) \in [Clients -> Clients \union {NoClient}]
BY DEF LocksAfter, TypeOK

\* Continue keeps the types of the context.
LEMMA ContinueType ==
    ASSUME TypeOK, NEW c \in Clients, NEW target \in PcValues, Continue(c, target)
    PROVE  ContextTypeOK'
BY PcAfterType, LocksAfterType DEF Continue, ContextTypeOK, TypeOK

\* EndTransaction keeps the types of the context.
LEMMA EndTransactionType ==
    ASSUME TypeOK, NEW c \in Clients, NEW how \in {"commit", "rollback"},
           NEW next \in {"idle", "ready", "closed"}, EndTransaction(c, how, next)
    PROVE  ContextTypeOK'
<1>1. how \in PcValues
    BY DEF PcValues
<1>2. pc' \in [Clients -> PcValues] /\ context_lock' \in [Clients -> Clients \union {NoClient}]
    BY <1>1, PcAfterType, LocksAfterType DEF EndTransaction
<1> QED
    BY <1>2 DEF EndTransaction, ContextTypeOK, TypeOK, ClearTransaction, SetAutoCommit

\* FinalizeQuery keeps the types of the context and of active_query.
LEMMA FinalizeQueryType ==
    ASSUME TypeOK, NEW c \in Clients, NEW success \in BOOLEAN,
           NEW next \in {"idle", "ready"}, FinalizeQuery(c, success, next)
    PROVE  ContextTypeOK' /\ active_query' \in [Txns -> Nat]
<1>1. next \in PcValues /\ next \in {"idle", "ready", "closed"}
    BY DEF PcValues
<1>2. active_query' \in [Txns -> Nat]
    BY ConstantsAssumption DEF FinalizeQuery, TypeOK
<1>3. CASE current_transaction[c] # NoTxn /\ auto_commit[c]
    <2>1. EndTransaction(c, IF success THEN "commit" ELSE "rollback", next)
        BY <1>3 DEF FinalizeQuery
    <2> QED
        BY <1>1, <1>2, <2>1, EndTransactionType
<1>4. CASE ~(current_transaction[c] # NoTxn /\ auto_commit[c])
    <2>1. Continue(c, next)
        BY <1>4 DEF FinalizeQuery
    <2> QED
        BY <1>1, <1>2, <2>1, ContinueType
<1> QED
    BY <1>3, <1>4

\* The steps a user takes that begin no transaction.
KeepsTransaction(c) == TurnAutoCommitOff(c) /\ current_transaction[c] # NoTxn

CalmUserStep(c) ==
    \/ AddConnection(c)
    \/ StartQuery(c)
    \/ StartFunction(c)
    \/ StartStatement(c)
    \/ TurnAutoCommitOn(c)
    \/ KeepsTransaction(c)
    \/ \E success \in BOOLEAN : CloseResult(c, success)
    \/ Destroy(c)
    \/ DropConnection(c)

\* They keep every type.
LEMMA UserStepType ==
    ASSUME TypeOK, NEW c \in Clients, CalmUserStep(c)
    PROVE  TypeOK'
<1>1. ASSUME AddConnection(c) PROVE TypeOK'
    BY <1>1 DEF AddConnection, TypeOK, PcValues, manager, collected, timestamps, lists, objects,
        auxiliary, origins, queries, mutexes, contexts
<1>2. ASSUME StartQuery(c) PROVE TypeOK'
    <2>1. ContextTypeOK' /\ active_query' \in [Txns -> Nat]
        BY <1>2, FinalizeQueryType, ContinueType DEF StartQuery, TypeOK, PcValues
    <2> QED
        BY <1>2, <2>1 DEF StartQuery, CloseOpenResult, TypeOK, ContextTypeOK, manager, collected,
            timestamps, lists, objects, auxiliary, origins, mutexes
<1>3. ASSUME StartFunction(c) PROVE TypeOK'
    <2>1. ContextTypeOK'
        BY <1>3, ContinueType DEF StartFunction, PcValues
    <2> QED
        BY <1>3, <2>1 DEF StartFunction, TypeOK, ContextTypeOK, manager, collected, timestamps, lists,
            objects, auxiliary, origins, queries, mutexes
<1>4. ASSUME NEW success \in BOOLEAN, CloseResult(c, success) PROVE TypeOK'
    <2>1. ContextTypeOK' /\ active_query' \in [Txns -> Nat]
        BY <1>4, FinalizeQueryType DEF CloseResult
    <2> QED
        BY <1>4, <2>1 DEF CloseResult, CloseOpenResult, TypeOK, ContextTypeOK, manager, collected,
            timestamps, lists, objects, auxiliary, origins, mutexes
<1>5. ASSUME Destroy(c) PROVE TypeOK'
    <2>1. ContextTypeOK'
        BY <1>5, EndTransactionType, ContinueType DEF Destroy, PcValues
    <2>2. active_query' \in [Txns -> Nat]
        BY <1>5, ConstantsAssumption DEF Destroy, TypeOK
    <2> QED
        BY <1>5, <2>1, <2>2 DEF Destroy, TypeOK, ContextTypeOK, manager, collected, timestamps, lists,
            objects, auxiliary, origins, mutexes
<1>6. ASSUME DropConnection(c) PROVE TypeOK'
    BY <1>6 DEF DropConnection, TypeOK, PcValues, manager, collected, timestamps, lists, objects,
        auxiliary, origins, queries, mutexes, contexts
<1>7. ASSUME StartStatement(c) PROVE TypeOK'
    <2>1. ContextTypeOK'
        BY <1>7, ContinueType DEF StartStatement, PcValues
    <2> QED
        BY <1>7, <2>1 DEF StartStatement, TypeOK, ContextTypeOK, manager, collected, timestamps,
            lists, objects, auxiliary, origins, queries, mutexes
<1>8. ASSUME TurnAutoCommitOn(c) \/ KeepsTransaction(c) PROVE TypeOK'
    <2>1. /\ auto_commit' \in [Clients -> BOOLEAN]
          /\ UNCHANGED <<manager, queries, mutexes, current_transaction, changes_made,
                         open_result, context_lock, pc, after, removing>>
        BY <1>8 DEF TurnAutoCommitOn, KeepsTransaction, TurnAutoCommitOff, SetAutoCommit, TypeOK
    <2> QED
        BY <2>1 DEF TypeOK, manager, collected, timestamps, lists, objects, auxiliary, origins,
            queries, mutexes
<1> QED
    BY <1>1, <1>2, <1>3, <1>4, <1>5, <1>6, <1>7, <1>8 DEF CalmUserStep

\* The steps of a call that leave the manager's lists and timestamps alone.
CalmCallStep(c) ==
    \/ StartTransactionFails(c)
    \/ InTransaction(c)
    \/ GetQueryNumber(c)
    \/ SetActiveQuery(c)
    \/ Write(c)
    \/ \E success \in BOOLEAN : RunQuery(c, success)
    \/ RunStream(c)
    \/ \E success \in BOOLEAN : RunFunction(c, success)
    \/ RunBegin(c)
    \/ \E how \in {"commit", "rollback"} : RunCommitOrRollback(c, how)
    \/ CommitWantsCheckpoint(c)
    \/ \E s \in {"checkpoint", "force_checkpoint"} : BeginCheckpoint(c, s)
    \/ LockConnections(c)
    \/ \E d \in Clients : LockClient(c, d)
    \/ RefuseCheckpoint(c)
    \/ DestroyUnderLock(c)
    \/ AcceptCheckpoint(c)
    \/ \E success \in BOOLEAN : FinishCheckpoint(c, success)

\* Those steps keep every type.
LEMMA CalmCallStepType ==
    ASSUME TypeOK, NEW c \in Clients, CalmCallStep(c)
    PROVE  TypeOK'
<1>1. ASSUME StartTransactionFails(c) PROVE TypeOK'
    <2>1. ContextTypeOK'
        BY <1>1, ContinueType DEF StartTransactionFails, PcValues
    <2> QED
        BY <1>1, <2>1 DEF StartTransactionFails, TypeOK, ContextTypeOK, manager, collected, timestamps, lists,
            objects, auxiliary, origins, queries, mutexes
<1>2. ASSUME InTransaction(c) PROVE TypeOK'
    <2>1. ContextTypeOK'
        BY <1>2, ContinueType DEF InTransaction, AfterBegin, PcValues
    <2> QED
        BY <1>2, <2>1 DEF InTransaction, TypeOK, ContextTypeOK, manager, collected, timestamps, lists,
            objects, auxiliary, origins, queries, mutexes
<1>3. ASSUME GetQueryNumber(c) PROVE TypeOK'
    <2>1. ContextTypeOK'
        BY <1>3, ContinueType DEF GetQueryNumber, PcValues
    <2>2. number' \in [Clients -> Nat] /\ current_query_number' \in Nat
        BY <1>3 DEF GetQueryNumber, TypeOK
    <2> QED
        BY <1>3, <2>1, <2>2 DEF GetQueryNumber, TypeOK, ContextTypeOK, manager, collected, timestamps, lists,
            objects, auxiliary, origins, queries, mutexes
<1>4. ASSUME SetActiveQuery(c) PROVE TypeOK'
    <2>1. ContextTypeOK'
        BY <1>4, ContinueType DEF SetActiveQuery, PcValues
    <2>2. active_query' \in [Txns -> Nat] /\ number' \in [Clients -> Nat]
        BY <1>4 DEF SetActiveQuery, TypeOK
    <2> QED
        BY <1>4, <2>1, <2>2 DEF SetActiveQuery, TypeOK, ContextTypeOK, manager, collected, timestamps, lists,
            objects, auxiliary, origins, queries, mutexes
<1>5. ASSUME Write(c) PROVE TypeOK'
    BY <1>5 DEF Write, TypeOK, manager, collected, timestamps, lists, objects, auxiliary, origins, queries,
        mutexes
<1>6. ASSUME NEW success \in BOOLEAN, RunQuery(c, success) PROVE TypeOK'
    <2>1. ContextTypeOK' /\ active_query' \in [Txns -> Nat]
        BY <1>6, FinalizeQueryType DEF RunQuery
    <2> QED
        BY <1>6, <2>1 DEF RunQuery, TypeOK, ContextTypeOK, manager, collected, timestamps, lists,
            objects, auxiliary, origins, queries, mutexes
<1>7. ASSUME RunStream(c) PROVE TypeOK'
    <2>1. ContextTypeOK'
        BY <1>7, ContinueType DEF RunStream, PcValues
    <2> QED
        BY <1>7, <2>1 DEF RunStream, TypeOK, ContextTypeOK, manager, collected, timestamps, lists,
            objects, auxiliary, origins, queries, mutexes
<1>8. ASSUME NEW success \in BOOLEAN, RunFunction(c, success) PROVE TypeOK'
    <2>1. ContextTypeOK'
        BY <1>8, EndTransactionType, ContinueType DEF RunFunction, PcValues
    <2> QED
        BY <1>8, <2>1 DEF RunFunction, TypeOK, ContextTypeOK, manager, collected, timestamps, lists,
            objects, auxiliary, origins, queries, mutexes
<1>9. ASSUME RunBegin(c) PROVE TypeOK'
    <2>1. pc' \in [Clients -> PcValues] /\ context_lock' \in [Clients -> Clients \union {NoClient}]
        BY <1>9, PcAfterType, LocksAfterType DEF RunBegin, PcValues
    <2>2. active_query' \in [Txns -> Nat] /\ auto_commit' \in [Clients -> BOOLEAN]
        BY <1>9, ConstantsAssumption DEF RunBegin, SetAutoCommit, TypeOK
    <2> QED
        BY <1>9, <2>1, <2>2 DEF RunBegin, TypeOK, ContextTypeOK, manager, collected, timestamps, lists,
            objects, auxiliary, origins, queries, mutexes
<1>10. ASSUME NEW how \in {"commit", "rollback"}, RunCommitOrRollback(c, how) PROVE TypeOK'
    <2>1. ContextTypeOK' /\ active_query' \in [Txns -> Nat]
        BY <1>10, FinalizeQueryType, EndTransactionType DEF RunCommitOrRollback, TypeOK
    <2> QED
        BY <1>10, <2>1 DEF RunCommitOrRollback, TypeOK, ContextTypeOK, manager, collected, timestamps, lists,
            objects, auxiliary, origins, queries, mutexes
<1>11. ASSUME CommitWantsCheckpoint(c) PROVE TypeOK'
    <2>1. ContextTypeOK'
        BY <1>11, ContinueType DEF CommitWantsCheckpoint, PcValues
    <2> QED
        BY <1>11, <2>1 DEF CommitWantsCheckpoint, TypeOK, ContextTypeOK, manager, collected, timestamps, lists,
            objects, auxiliary, origins, queries, mutexes
<1>12. ASSUME NEW s \in {"checkpoint", "force_checkpoint"}, BeginCheckpoint(c, s) PROVE TypeOK'
    <2>1. ContextTypeOK' /\ active_query' \in [Txns -> Nat]
        BY <1>12, FinalizeQueryType, ContinueType DEF BeginCheckpoint, TypeOK, PcValues
    <2> QED
        BY <1>12, <2>1 DEF BeginCheckpoint, TypeOK, ContextTypeOK, manager, collected, timestamps, lists,
            objects, auxiliary, origins, queries, mutexes
<1>13. ASSUME LockConnections(c) PROVE TypeOK'
    <2>1. ContextTypeOK'
        BY <1>13, ContinueType DEF LockConnections, PcValues
    <2> QED
        BY <1>13, <2>1 DEF LockConnections, TypeOK, ContextTypeOK, manager, collected, timestamps, lists,
            objects, auxiliary, origins, queries, mutexes
<1>14. ASSUME NEW d \in Clients, LockClient(c, d) PROVE TypeOK'
    BY <1>14 DEF LockClient, TypeOK, manager, collected, timestamps, lists, objects, auxiliary, origins, queries,
        mutexes
<1>15. ASSUME RefuseCheckpoint(c) PROVE TypeOK'
    <2>1. ContextTypeOK' /\ active_query' \in [Txns -> Nat]
        BY <1>15, FinalizeQueryType DEF RefuseCheckpoint
    <2> QED
        BY <1>15, <2>1 DEF RefuseCheckpoint, ReleaseClients, TypeOK, ContextTypeOK, manager, collected, timestamps, lists,
            objects, auxiliary, origins, queries, mutexes
<1>16. ASSUME DestroyUnderLock(c) PROVE TypeOK'
    BY <1>16 DEF DestroyUnderLock, OnlyTakesLock, TypeOK, PcValues, manager, collected, timestamps, lists,
        objects, auxiliary, origins, queries, contexts
<1>17. ASSUME AcceptCheckpoint(c) PROVE TypeOK'
    BY <1>17 DEF AcceptCheckpoint, OnlyTakesLock, TypeOK, PcValues, manager, collected, timestamps, lists,
        objects, auxiliary, origins, queries, contexts
<1>18. ASSUME NEW success \in BOOLEAN, FinishCheckpoint(c, success) PROVE TypeOK'
    <2>1. CASE Committing(c)
        <3>1. after[c] \in PcValues
            BY DEF TypeOK, PcValues
        <3>2. pc' \in [Clients -> PcValues] /\ context_lock' \in [Clients -> Clients \union {NoClient}]
            BY <1>18, <2>1, <3>1, PcAfterType, LocksAfterType DEF FinishCheckpoint
        <3> QED
            BY <1>18, <2>1, <3>2 DEF FinishCheckpoint, ReleaseClients, TypeOK, manager, collected, timestamps, lists,
                objects, auxiliary, origins
    <2>2. CASE ~Committing(c)
        <3>1. ContextTypeOK' /\ active_query' \in [Txns -> Nat]
            BY <1>18, <2>2, FinalizeQueryType DEF FinishCheckpoint
        <3> QED
            BY <1>18, <2>2, <3>1 DEF FinishCheckpoint, ReleaseClients, TypeOK, ContextTypeOK, manager, collected,
                timestamps, lists, objects, auxiliary, origins
    <2> QED
        BY <2>1, <2>2
<1> QED
    BY <1>1, <1>2, <1>3, <1>4, <1>5, <1>6, <1>7, <1>8, <1>9,
       <1>10, <1>11, <1>12, <1>13, <1>14, <1>15, <1>16, <1>17, <1>18 DEF CalmCallStep

-----------------------------------------------------------------------------
(***************************************************************************)
(* RemoveTransaction.                                                      *)
(***************************************************************************)

\* Cutting a sequence in two, as erasing the front of a vector does.
LEMMA Cut ==
    ASSUME NEW S, NEW s \in Seq(S), NEW k \in 0 .. Len(s)
    PROVE  /\ SubSeq(s, 1, k) \in Seq(S)
           /\ Len(SubSeq(s, 1, k)) = k
           /\ \A i \in 1 .. k : SubSeq(s, 1, k)[i] = s[i]
           /\ SeqToSet(SubSeq(s, 1, k)) \subseteq SeqToSet(s)
           /\ SubSeq(s, k + 1, Len(s)) \in Seq(S)
           /\ Len(SubSeq(s, k + 1, Len(s))) = Len(s) - k
           /\ \A i \in 1 .. Len(s) - k : SubSeq(s, k + 1, Len(s))[i] = s[k + i]
           /\ SeqToSet(SubSeq(s, k + 1, Len(s))) \subseteq SeqToSet(s)
<1>1. Len(s) \in Nat /\ k \in Nat /\ \A i \in 1 .. Len(s) : s[i] \in S
    OBVIOUS
<1>2. /\ SubSeq(s, 1, k) \in Seq(S)
      /\ Len(SubSeq(s, 1, k)) = k
      /\ \A i \in 1 .. k : SubSeq(s, 1, k)[i] = s[i]
    <2>1. \A i \in 1 .. k : s[i] \in S
        BY <1>1
    <2>2. /\ SubSeq(s, 1, k) \in Seq(S)
          /\ Len(SubSeq(s, 1, k)) = IF 1 <= k THEN k - 1 + 1 ELSE 0
          /\ \A i \in 1 .. k - 1 + 1 : SubSeq(s, 1, k)[i] = s[1 + i - 1]
        BY <1>1, <2>1, SubSeqProperties, 1 \in Int, k \in Int
    <2> QED
        BY <1>1, <2>2
<1>3. /\ SubSeq(s, k + 1, Len(s)) \in Seq(S)
      /\ Len(SubSeq(s, k + 1, Len(s))) = Len(s) - k
      /\ \A i \in 1 .. Len(s) - k : SubSeq(s, k + 1, Len(s))[i] = s[k + i]
    <2>1. \A i \in k + 1 .. Len(s) : s[i] \in S
        BY <1>1
    <2>2. k + 1 \in Int /\ Len(s) \in Int
        BY <1>1
    <2>3. /\ SubSeq(s, k + 1, Len(s)) \in Seq(S)
          /\ Len(SubSeq(s, k + 1, Len(s))) = IF k + 1 <= Len(s) THEN Len(s) - (k + 1) + 1 ELSE 0
          /\ \A i \in 1 .. Len(s) - (k + 1) + 1 : SubSeq(s, k + 1, Len(s))[i] = s[k + 1 + i - 1]
        BY <2>1, <2>2, SubSeqProperties
    <2> QED
        BY <1>1, <2>3
<1>4. SeqToSet(SubSeq(s, 1, k)) \subseteq SeqToSet(s)
    BY <1>1, <1>2 DEF SeqToSet
<1>5. SeqToSet(SubSeq(s, k + 1, Len(s))) \subseteq SeqToSet(s)
    <2>1. \A i \in 1 .. Len(s) - k : k + i \in 1 .. Len(s)
        BY <1>1
    <2> QED
        BY <1>3, <2>1 DEF SeqToSet
<1> QED
    BY <1>2, <1>3, <1>4, <1>5

\* What pushing one list of transactions behind another gives.
LEMMA ConcatElements ==
    ASSUME NEW S, NEW r \in Seq(S), NEW s \in Seq(S)
    PROVE  /\ r \o s \in Seq(S)
           /\ SeqToSet(r \o s) \subseteq SeqToSet(r) \union SeqToSet(s)
<1>1. /\ r \o s \in Seq(S)
      /\ Len(r \o s) = Len(r) + Len(s)
      /\ \A i \in 1 .. Len(r) + Len(s) :
            (r \o s)[i] = IF i <= Len(r) THEN r[i] ELSE s[i - Len(r)]
    BY ConcatProperties
<1>2. ASSUME NEW i \in 1 .. Len(r) + Len(s)
      PROVE  (r \o s)[i] \in SeqToSet(r) \union SeqToSet(s)
    <2>1. CASE i <= Len(r)
        BY <1>1, <2>1 DEF SeqToSet
    <2>2. CASE ~(i <= Len(r))
        <3>1. i - Len(r) \in 1 .. Len(s)
            BY <2>2
        <3> QED
            BY <1>1, <2>2, <3>1 DEF SeqToSet
    <2> QED
        BY <2>1, <2>2
<1> QED
    BY <1>1, <1>2 DEF SeqToSet

\* What the recently committed list is once a committed t has been pushed to
\* its back: still owned by one list, committed and in commit order.
LEMMA AppendRecent ==
    ASSUME TypeOK, DisjointInv, PastInv, RecentOrdered, NEW t \in active_transactions,
           commit_id[t] # 0 => \A i \in 1 .. Len(recently_committed) :
                                    commit_id[recently_committed[i]] < commit_id[t]
    PROVE  /\ Recent(t) \in Seq(Txns)
           /\ \A i \in 1 .. Len(Recent(t)) :
                /\ Recent(t)[i] \in SeqToSet(recently_committed)
                   \/ (Recent(t)[i] = t /\ commit_id[t] # 0)
                /\ commit_id[Recent(t)[i]] # 0
                /\ commit_id[Recent(t)[i]] < current_start_timestamp
                /\ Recent(t)[i] \notin SeqToSet(old_transactions)
                /\ Recent(t)[i] \notin active_transactions \ {t}
           /\ \A i, j \in 1 .. Len(Recent(t)) :
                i < j => commit_id[Recent(t)[i]] < commit_id[Recent(t)[j]]
<1> DEFINE recent == Recent(t)
<1>1. t \in Txns /\ recently_committed \in Seq(Txns)
    BY DEF TypeOK
<1>2. CASE commit_id[t] = 0
    <2>1. recent = recently_committed
        BY <1>2 DEF Recent
    <2> HIDE DEF recent
    <2>2. \A i \in 1 .. Len(recent) :
            recent[i] \in Txns /\ recent[i] \in SeqToSet(recently_committed)
        BY <1>1, <2>1 DEF SeqToSet
    <2>3. /\ recent \in Seq(Txns)
          /\ \A i \in 1 .. Len(recent) :
                /\ recent[i] \in SeqToSet(recently_committed)
                /\ commit_id[recent[i]] # 0
                /\ commit_id[recent[i]] < current_start_timestamp
                /\ recent[i] \notin SeqToSet(old_transactions)
                /\ recent[i] \notin active_transactions
          /\ \A i, j \in 1 .. Len(recent) :
                i < j => commit_id[recent[i]] < commit_id[recent[j]]
        BY <1>1, <2>1, <2>2 DEF DisjointInv, PastInv, RecentOrdered
    <2> QED
        BY <2>3 DEF recent
<1>3. CASE commit_id[t] # 0
    <2>1. /\ recent \in Seq(Txns)
          /\ Len(recent) = Len(recently_committed) + 1
          /\ recent[Len(recently_committed) + 1] = t
          /\ \A i \in 1 .. Len(recently_committed) : recent[i] = recently_committed[i]
        BY <1>1, <1>3 DEF Recent
    <2> HIDE DEF recent
    <2>2. \A i \in 1 .. Len(recent) :
            \/ i \in 1 .. Len(recently_committed) /\ recent[i] = recently_committed[i]
            \/ i = Len(recently_committed) + 1 /\ recent[i] = t
        BY <1>1, <2>1
    <2>3. ASSUME NEW i \in 1 .. Len(recent)
          PROVE  /\ recent[i] \in SeqToSet(recently_committed)
                    \/ (recent[i] = t /\ commit_id[t] # 0)
                 /\ commit_id[recent[i]] # 0
                 /\ commit_id[recent[i]] < current_start_timestamp
                 /\ recent[i] \notin SeqToSet(old_transactions)
                 /\ recent[i] \notin active_transactions \ {t}
        <3>1. recent[i] \in Txns
            BY <2>1
        <3>2. recent[i] \in SeqToSet(recently_committed) \/ recent[i] = t
            BY <2>2 DEF SeqToSet
        <3>3. commit_id[recent[i]] # 0
            BY <1>3, <2>2 DEF PastInv
        <3> QED
            BY <1>3, <3>1, <3>2, <3>3 DEF DisjointInv, PastInv
    <2>4. \A i, j \in 1 .. Len(recent) :
            i < j => commit_id[recent[i]] < commit_id[recent[j]]
        BY <1>1, <1>3, <2>1, <2>2 DEF RecentOrdered
    <2> QED
        BY <2>1, <2>3, <2>4 DEF recent
<1> QED
    BY <1>2, <1>3

\* What RemoveTransaction promises when the minima found by its first loop are
\* right: types, lists that own each transaction once, untouched timestamps of
\* everything that stays listed, commit order, and that nothing an active
\* transaction can still need has been cleaned up.
LEMMA RemoveTransactionCorrect ==
    ASSUME TypeOK, DisjointInv, PastInv, RecentOrdered, CleanupSafe,
           NEW t \in active_transactions,
           \A a \in active_transactions \ {t} : scan.start_time <= start_time[a],
           commit_id[t] # 0 => \A i \in 1 .. Len(recently_committed) :
                                    commit_id[recently_committed[i]] < commit_id[t],
           RemoveTransaction(t)
    PROVE  /\ recently_committed' \in Seq(Txns)
           /\ old_transactions' \in Seq(Txns)
           /\ start_time' \in [Txns -> Nat]
           /\ commit_id' \in [Txns -> Nat]
           /\ active_query' \in [Txns -> Nat]
           /\ highest_active_query' \in [Txns -> Nat]
           /\ users' \in [Txns -> SUBSET Nat]
           /\ cleaned_until' \in Int
           /\ freed_in_use' \in SUBSET [query : Nat, late : BOOLEAN]
           /\ context' \in [Txns -> Clients \union {NoClient}]
           /\ scan' = NoScan
           /\ active_transactions' = active_transactions \ {t}
           /\ SeqToSet(recently_committed') \union SeqToSet(old_transactions')
                \subseteq SeqToSet(recently_committed) \union SeqToSet(old_transactions)
                          \union {t}
           /\ DisjointInv'
           /\ \A x \in Txns : commit_id'[x] \in {0, commit_id[x]}
           /\ \A i \in 1 .. Len(recently_committed') : commit_id'[recently_committed'[i]] # 0
           /\ cleaned_until' < current_start_timestamp
           /\ RecentOrdered'
           /\ CleanupSafe'
           /\ \A x \in active_transactions \ {t} : context'[x] = context[x]
<1> DEFINE recent == Recent(t)
           others == active_transactions \ {t}
<1>1. PICK n \in 0 .. Len(recent), m \in Nat :
        /\ m \in 0 .. Len(Old(t, n))
        /\ \A i \in 1 .. n : commit_id[recent[i]] < scan.start_time
        /\ Collect(t, n, m)
    BY DEF RemoveTransaction, IsPrefixLength, NotRelevant
<1> DEFINE aborted == Aborted(t)
           cleaned == Cleaned(t, n)
           old == Old(t, n)
           freed == SeqToSet(SubSeq(old, 1, m))
<1>2. /\ recent \in Seq(Txns)
      /\ \A i \in 1 .. Len(recent) :
            /\ recent[i] \in SeqToSet(recently_committed) \/ (recent[i] = t /\ commit_id[t] # 0)
            /\ commit_id[recent[i]] # 0
            /\ commit_id[recent[i]] < current_start_timestamp
            /\ recent[i] \notin SeqToSet(old_transactions)
            /\ recent[i] \notin others
      /\ \A i, j \in 1 .. Len(recent) :
            i < j => commit_id[recent[i]] < commit_id[recent[j]]
    BY AppendRecent
<1>3. /\ active_transactions' = others
      /\ recently_committed' = SubSeq(recent, n + 1, Len(recent))
      /\ old_transactions' = SubSeq(old, m + 1, Len(old))
      /\ start_time' = ResetFields(start_time, freed, 0)
      /\ commit_id' = ResetFields(commit_id, freed, 0)
      /\ active_query' = ResetFields(active_query, freed, MaximumQueryId)
      /\ highest_active_query' = ResetFields(HighestActiveQuery(t, n), freed, 0)
      /\ scan' = NoScan
      /\ cleaned_until' = IF n = 0 THEN cleaned_until ELSE commit_id[recent[n]]
      /\ users' = ResetFields(UsersAfter(t, n), freed, {})
      /\ freed_in_use' = freed_in_use \union StillRunning(t, n, freed)
      /\ context' = ResetFields(context, freed, NoClient)
    BY <1>1 DEF Collect
<1>4. cleaned = SubSeq(recent, 1, n)
    BY DEF Cleaned
<1>5. old = old_transactions \o aborted \o cleaned
    BY DEF Old
<1>6. aborted \in Seq(Txns) /\ SeqToSet(aborted) = IF commit_id[t] # 0 THEN {} ELSE {t}
    BY DEF TypeOK, SeqToSet, Aborted
<1> HIDE DEF recent, others, aborted, cleaned, old
<1>7. /\ cleaned \in Seq(Txns)
      /\ \A x \in SeqToSet(cleaned) : \E i \in 1 .. n : i \in 1 .. Len(recent) /\ x = recent[i]
    BY <1>2, <1>4, Cut DEF SeqToSet
<1>8. /\ recently_committed' \in Seq(Txns)
      /\ Len(recently_committed') = Len(recent) - n
      /\ \A i \in 1 .. Len(recent) - n : recently_committed'[i] = recent[n + i]
    BY <1>2, <1>3, Cut
<1>9. /\ old \in Seq(Txns)
      /\ SeqToSet(old) \subseteq
            SeqToSet(old_transactions) \union SeqToSet(aborted) \union SeqToSet(cleaned)
    <2>1. old_transactions \in Seq(Txns)
        BY DEF TypeOK
    <2>2. /\ old_transactions \o aborted \in Seq(Txns)
          /\ SeqToSet(old_transactions \o aborted) \subseteq
                SeqToSet(old_transactions) \union SeqToSet(aborted)
        BY <2>1, <1>6, ConcatElements
    <2>3. /\ (old_transactions \o aborted) \o cleaned \in Seq(Txns)
          /\ SeqToSet((old_transactions \o aborted) \o cleaned) \subseteq
                SeqToSet(old_transactions \o aborted) \union SeqToSet(cleaned)
        BY <2>2, <1>7, ConcatElements
    <2> QED
        BY <1>5, <2>2, <2>3
<1>10. m \in 0 .. Len(old)
    BY <1>1 DEF old
<1>11. freed \subseteq SeqToSet(old)
    BY <1>9, <1>10, Cut
<1>12. old_transactions' \in Seq(Txns) /\ SeqToSet(old_transactions') \subseteq SeqToSet(old)
    BY <1>3, <1>9, <1>10, Cut
<1> HIDE DEF freed
<1>13. \A i \in 1 .. Len(recently_committed') :
        /\ n + i \in 1 .. Len(recent)
        /\ recently_committed'[i] = recent[n + i]
        /\ recent[n + i] \in Txns
        /\ recent[n + i] \notin SeqToSet(old)
    <2> SUFFICES ASSUME NEW i \in 1 .. Len(recently_committed')
                 PROVE  /\ n + i \in 1 .. Len(recent)
                        /\ recently_committed'[i] = recent[n + i]
                        /\ recent[n + i] \in Txns
                        /\ recent[n + i] \notin SeqToSet(old)
        OBVIOUS
    <2>1. n + i \in 1 .. Len(recent) /\ recently_committed'[i] = recent[n + i]
        BY <1>2, <1>8
    <2>2. recent[n + i] \notin SeqToSet(aborted)
        BY <1>2, <1>6, <2>1 DEF DisjointInv
    <2>3. ASSUME NEW j \in 1 .. n, j \in 1 .. Len(recent)
          PROVE  recent[n + i] # recent[j]
        <3>1. j < n + i
            BY <2>1
        <3>2. commit_id[recent[j]] < commit_id[recent[n + i]]
            BY <1>2, <2>1, <2>3, <3>1
        <3>3. recent[j] \in Txns
            BY <1>2, <2>3
        <3>4. commit_id[recent[j]] \in Nat
            BY <3>3 DEF TypeOK
        <3> QED
            BY <3>2, <3>4
    <2>4. recent[n + i] \notin SeqToSet(cleaned)
        BY <1>7, <2>3
    <2>5. recent[n + i] \in Txns /\ recent[n + i] \notin SeqToSet(old_transactions)
        BY <1>2, <2>1
    <2> QED
        BY <1>9, <2>1, <2>2, <2>4, <2>5
<1>14. \A x \in others : /\ x \in Txns
                         /\ x \in active_transactions
                         /\ x \notin SeqToSet(old)
    <2>1. \A x \in others : /\ x \in Txns
                            /\ x \in active_transactions
                            /\ x # t
                            /\ x \notin SeqToSet(old_transactions)
        BY DEF DisjointInv, TypeOK, others
    <2>2. \A x \in others : x \notin SeqToSet(cleaned)
        BY <1>2, <1>7
    <2> QED
        BY <1>6, <1>9, <2>1, <2>2
<1>15. \A x \in Txns : /\ commit_id'[x] \in {0, commit_id[x]}
                       /\ x \notin freed => /\ commit_id'[x] = commit_id[x]
                                            /\ start_time'[x] = start_time[x]
    BY <1>3 DEF ResetFields
<1>16. \A i \in 1 .. Len(recently_committed') :
        commit_id'[recently_committed'[i]] = commit_id[recent[n + i]]
    BY <1>11, <1>13, <1>15
<1>17. /\ start_time' \in [Txns -> Nat]
       /\ commit_id' \in [Txns -> Nat]
       /\ active_query' \in [Txns -> Nat]
    BY <1>3, ConstantsAssumption DEF ResetFields, TypeOK
<1>18. highest_active_query' \in [Txns -> Nat] /\ users' \in [Txns -> SUBSET Nat]
    <2>1. HighestActiveQuery(t, n) \in [Txns -> Nat]
        BY DEF HighestActiveQuery, TypeOK
    <2>2. Running(t) \in SUBSET Nat
        BY DEF Running, TypeOK
    <2>3. UsersAfter(t, n) \in [Txns -> SUBSET Nat]
        BY <2>2 DEF UsersAfter, TypeOK
    <2> QED
        BY <1>3, <2>1, <2>3 DEF ResetFields
<1>19. /\ freed_in_use' \in SUBSET [query : Nat, late : BOOLEAN]
       /\ context' \in [Txns -> Clients \union {NoClient}]
    <2>1. Running(t) \in SUBSET Nat
        BY DEF Running, TypeOK
    <2>2. ASSUME NEW r \in StillRunning(t, n, freed)
          PROVE  r \in [query : Nat, late : BOOLEAN]
        <3>1. PICK p \in Running(t) \X freed :
                r = [query |-> p[1], late |-> Late(t, n, p[1], p[2])]
            BY DEF StillRunning
        <3>2. Late(t, n, p[1], p[2]) \in BOOLEAN
            BY DEF Late
        <3> QED
            BY <2>1, <3>1, <3>2
    <2>3. freed_in_use' \in SUBSET [query : Nat, late : BOOLEAN]
        BY <1>3, <2>2 DEF TypeOK
    <2>4. context' \in [Txns -> Clients \union {NoClient}]
        BY <1>3 DEF ResetFields, TypeOK
    <2> QED
        BY <2>3, <2>4
<1>20. cleaned_until' \in Int /\ cleaned_until' < current_start_timestamp
    <2>1. CASE n = 0
        BY <1>3, <2>1 DEF PastInv, TypeOK
    <2>2. CASE n # 0
        <3>1. n \in 1 .. Len(recent) /\ recent[n] \in Txns
            BY <1>2, <2>2 DEF recent
        <3>2. commit_id[recent[n]] \in Nat
            BY <3>1 DEF TypeOK
        <3> QED
            BY <1>2, <1>3, <2>2, <3>1, <3>2
    <2> QED
        BY <2>1, <2>2
<1>21. CleanupSafe'
    <2> SUFFICES ASSUME NEW a \in others PROVE cleaned_until' < start_time'[a]
        BY <1>3 DEF CleanupSafe
    <2>1. start_time'[a] = start_time[a]
        BY <1>11, <1>14, <1>15
    <2>2. scan.start_time <= start_time[a] /\ cleaned_until < start_time[a]
        BY DEF CleanupSafe, others
    <2>3. CASE n = 0
        BY <1>3, <2>1, <2>2, <2>3
    <2>4. CASE n # 0
        <3>1. n \in 1 .. Len(recent) /\ n \in 1 .. n /\ recent[n] \in Txns
            BY <1>2, <2>4 DEF recent
        <3>2. commit_id[recent[n]] < scan.start_time
            BY <1>1, <3>1 DEF recent
        <3>3. commit_id[recent[n]] \in Nat /\ scan.start_time \in Nat /\ start_time[a] \in Nat
            BY <1>14, <3>1 DEF TypeOK
        <3> QED
            BY <1>3, <2>1, <2>2, <2>4, <3>2, <3>3
    <2> QED
        BY <2>3, <2>4
<1>22. RecentOrdered'
    <2> SUFFICES ASSUME NEW i \in 1 .. Len(recently_committed'),
                        NEW j \in 1 .. Len(recently_committed'), i < j
                 PROVE  commit_id'[recently_committed'[i]] < commit_id'[recently_committed'[j]]
        BY DEF RecentOrdered
    <2>1. n + i < n + j
        OBVIOUS
    <2> QED
        BY <1>2, <1>13, <1>16, <2>1
<1>23. DisjointInv'
    <2>1. \A x \in SeqToSet(recently_committed') : x \notin others /\ x \notin SeqToSet(old)
        BY <1>2, <1>13 DEF SeqToSet
    <2> QED
        BY <1>3, <1>12, <1>14, <2>1 DEF DisjointInv
<1>24. SeqToSet(recently_committed') \union SeqToSet(old_transactions')
            \subseteq SeqToSet(recently_committed) \union SeqToSet(old_transactions)
                      \union {t}
    <2>1. \A x \in SeqToSet(recently_committed') : x \in SeqToSet(recently_committed) \/ x = t
        <3>1. ASSUME NEW i \in 1 .. Len(recently_committed')
              PROVE  recently_committed'[i] \in SeqToSet(recently_committed) \union {t}
            BY <1>2, <1>13
        <3> QED
            BY <3>1 DEF SeqToSet
    <2>2. \A x \in SeqToSet(cleaned) : x \in SeqToSet(recently_committed) \/ x = t
        BY <1>2, <1>7
    <2> QED
        BY <1>6, <1>9, <1>12, <2>1, <2>2
<1>25. \A i \in 1 .. Len(recently_committed') : commit_id'[recently_committed'[i]] # 0
    BY <1>2, <1>13, <1>16
<1>26. \A x \in others : context'[x] = context[x]
    BY <1>3, <1>11, <1>14 DEF ResetFields
<1> QED
    BY <1>3, <1>8, <1>12, <1>15, <1>17, <1>18, <1>19, <1>20, <1>21, <1>22, <1>23, <1>24,
       <1>25, <1>26 DEF others
-----------------------------------------------------------------------------
(***************************************************************************)
(* Steps that leave the manager's lists and timestamps alone.              *)
(***************************************************************************)

Removing == {"remove", "force_remove"}

\* What such a step of the thread of c does to the places of the threads and to
\* transaction_lock.
Calm(c) ==
    /\ UNCHANGED collected
    /\ \A d \in Clients \ {c} : /\ removing'[d] = removing[d]
                                /\ pc'[d] = pc[d] \/ (pc[d] = "dropped" /\ pc'[d] = "closed")
    /\ pc[c] \notin Removing /\ pc'[c] \notin Removing
    /\ \/ transaction_lock' = transaction_lock /\ pc[c] \notin Locked /\ pc'[c] \notin Locked
       \/ transaction_lock = NoClient /\ transaction_lock' = c
       \/ pc[c] \in Locked /\ pc'[c] \notin Locked /\ transaction_lock' = NoClient

\* A calm step keeps garbage collection right: the thread that holds
\* transaction_lock between the two parts of RemoveTransaction is not disturbed.
LEMMA CalmKeepsCollectInv ==
    ASSUME IInv, NEW c \in Clients, Calm(c)
    PROVE  CollectInv'
<1> USE DEF IInv, CollectInv
<1>1. /\ current_start_timestamp' = current_start_timestamp
      /\ current_transaction_id' = current_transaction_id
      /\ active_transactions' = active_transactions
      /\ recently_committed' = recently_committed
      /\ old_transactions' = old_transactions
      /\ start_time' = start_time
      /\ commit_id' = commit_id
      /\ scan' = scan
      /\ cleaned_until' = cleaned_until
    BY DEF Calm, manager, collected, timestamps, lists, objects, auxiliary, origins
<1>2. LockInv'
    <2> SUFFICES ASSUME NEW d \in Clients, pc'[d] \in Locked PROVE transaction_lock' = d
        BY DEF LockInv
    <2>1. CASE d = c
        BY <2>1 DEF Calm, Locked, Removing
    <2>2. CASE d # c
        <3>1. pc[d] = pc'[d]
            BY <2>2 DEF Calm, Locked
        <3>2. transaction_lock = d /\ transaction_lock # NoClient
            BY <3>1, ConstantsAssumption DEF LockInv
        <3>3. pc[c] \notin Locked
            BY <2>2, <3>2 DEF LockInv
        <3> QED
            BY <3>2, <3>3 DEF Calm
    <2> QED
        BY <2>1, <2>2
<1>3. CounterInv' /\ FreshInv' /\ DisjointInv' /\ PastInv' /\ RecentOrdered' /\ CleanupSafe'
    BY <1>1 DEF CounterInv, FreshInv, DisjointInv, PastInv, RecentOrdered, CleanupSafe
<1>4. CommittedInv'
    <2> SUFFICES ASSUME NEW a \in active_transactions, commit_id[a] # 0
                 PROVE  /\ transaction_lock' \in Clients
                        /\ pc'[transaction_lock'] = "remove"
                        /\ removing'[transaction_lock'] = a
        BY <1>1 DEF CommittedInv
    <2>1. /\ transaction_lock \in Clients
          /\ pc[transaction_lock] = "remove"
          /\ removing[transaction_lock] = a
        BY DEF CommittedInv
    <2>2. transaction_lock # c /\ transaction_lock # NoClient
        BY <2>1, ConstantsAssumption DEF Calm, Removing
    <2>3. pc[c] \notin Locked
        BY <2>2 DEF LockInv
    <2> QED
        BY <2>1, <2>2, <2>3 DEF Calm
<1>5. ScanInv'
    <2> SUFFICES ASSUME NEW d \in Clients, pc'[d] \in Removing
                 PROVE  /\ removing'[d] \in active_transactions
                        /\ \A a \in active_transactions \ {removing'[d]} :
                                scan.start_time <= start_time[a]
                        /\ commit_id[removing'[d]] # 0 =>
                            \A i \in 1 .. Len(recently_committed) :
                                commit_id[recently_committed[i]] < commit_id[removing'[d]]
        BY <1>1 DEF ScanInv, Removing
    <2>1. d # c /\ pc[d] \in Removing /\ removing'[d] = removing[d]
        BY DEF Calm, Removing
    <2> QED
        BY <2>1 DEF ScanInv, Removing
<1> QED
    BY <1>2, <1>3, <1>4, <1>5

\* The thread of c goes to a place where it holds no transaction_lock, and takes
\* no other thread with it.
Goes(c, target) ==
    /\ pc'[c] = target
    /\ target \notin Locked
    /\ \A d \in Clients \ {c} : /\ removing'[d] = removing[d]
                                /\ pc'[d] = pc[d] \/ (pc[d] = "dropped" /\ pc'[d] = "closed")

\* Continue, EndTransaction and FinalizeQuery move only the calling thread
\* (Continue: to its target).
LEMMA ContinueGoes ==
    ASSUME TypeOK, NEW c \in Clients, NEW target \in PcValues \ Locked, Continue(c, target)
    PROVE  Goes(c, target)
BY DEF Continue, Goes, PcAfter, TypeOK

\* (EndTransaction: to the commit or the rollback it starts.)
LEMMA EndTransactionGoes ==
    ASSUME TypeOK, NEW c \in Clients, NEW how \in {"commit", "rollback"}, NEW next,
           EndTransaction(c, how, next)
    PROVE  Goes(c, how)
BY DEF EndTransaction, Goes, PcAfter, TypeOK, Locked

\* (FinalizeQuery: to either, or to where the call continues.)
LEMMA FinalizeQueryGoes ==
    ASSUME TypeOK, NEW c \in Clients, NEW success \in BOOLEAN, NEW next \in {"idle", "ready"},
           FinalizeQuery(c, success, next)
    PROVE  \E target : Goes(c, target)
<1>1. next \in PcValues \ Locked
    BY DEF PcValues, Locked
<1>2. CASE current_transaction[c] # NoTxn /\ auto_commit[c]
    BY <1>2, EndTransactionGoes DEF FinalizeQuery
<1>3. CASE ~(current_transaction[c] # NoTxn /\ auto_commit[c])
    BY <1>1, <1>3, ContinueGoes DEF FinalizeQuery
<1> QED
    BY <1>2, <1>3

\* A user's step that begins no transaction is calm.
LEMMA UserStepCalm ==
    ASSUME TypeOK, NEW c \in Clients, CalmUserStep(c)
    PROVE  Calm(c)
<1> USE DEF Locked, Removing
<1>1. ASSUME AddConnection(c) PROVE Calm(c)
    BY <1>1 DEF AddConnection, Calm, manager, collected, TypeOK, mutexes, contexts
<1>2. ASSUME StartQuery(c) PROVE Calm(c)
    <2>1. \E target : Goes(c, target)
        BY <1>2, FinalizeQueryGoes, ContinueGoes DEF StartQuery, PcValues
    <2> QED
        BY <1>2, <2>1 DEF StartQuery, Goes, Calm, manager, collected, mutexes
<1>3. ASSUME StartFunction(c) PROVE Calm(c)
    <2>1. \E target : Goes(c, target)
        BY <1>3, ContinueGoes DEF StartFunction, PcValues
    <2> QED
        BY <1>3, <2>1 DEF StartFunction, Goes, Calm, manager, collected, mutexes
<1>4. ASSUME NEW success \in BOOLEAN, CloseResult(c, success) PROVE Calm(c)
    <2>1. \E target : Goes(c, target)
        BY <1>4, FinalizeQueryGoes DEF CloseResult
    <2> QED
        BY <1>4, <2>1 DEF CloseResult, Goes, Calm, manager, collected, mutexes
<1>5. ASSUME Destroy(c) PROVE Calm(c)
    <2>1. \E target : Goes(c, target)
        BY <1>5, EndTransactionGoes, ContinueGoes DEF Destroy, PcValues
    <2> QED
        BY <1>5, <2>1 DEF Destroy, Goes, Calm, manager, collected, mutexes
<1>6. ASSUME DropConnection(c) PROVE Calm(c)
    BY <1>6 DEF DropConnection, Calm, manager, collected, TypeOK, mutexes, contexts
<1>7. ASSUME StartStatement(c) PROVE Calm(c)
    <2>1. \E target : Goes(c, target)
        BY <1>7, ContinueGoes DEF StartStatement, PcValues
    <2> QED
        BY <1>7, <2>1 DEF StartStatement, Goes, Calm, manager, collected, mutexes
<1>8. ASSUME TurnAutoCommitOn(c) \/ KeepsTransaction(c) PROVE Calm(c)
    BY <1>8 DEF TurnAutoCommitOn, KeepsTransaction, TurnAutoCommitOff, Calm, manager, collected,
        mutexes
<1> QED
    BY <1>1, <1>2, <1>3, <1>4, <1>5, <1>6, <1>7, <1>8 DEF CalmUserStep

\* So is every step of a call that leaves the manager alone.
LEMMA CalmCallStepCalm ==
    ASSUME TypeOK, NEW c \in Clients, CalmCallStep(c)
    PROVE  Calm(c)
<1> USE DEF Locked, Removing
<1>1. ASSUME StartTransactionFails(c) PROVE Calm(c)
    <2>1. \E target : Goes(c, target)
        BY <1>1, ContinueGoes DEF StartTransactionFails, PcValues
    <2> QED
        BY <1>1, <2>1 DEF StartTransactionFails, Goes, Calm, manager, collected, mutexes
<1>2. ASSUME InTransaction(c) PROVE Calm(c)
    <2>1. \E target : Goes(c, target)
        BY <1>2, ContinueGoes DEF InTransaction, AfterBegin, PcValues
    <2> QED
        BY <1>2, <2>1 DEF InTransaction, Goes, Calm, manager, collected, mutexes
<1>3. ASSUME GetQueryNumber(c) PROVE Calm(c)
    <2>1. \E target : Goes(c, target)
        BY <1>3, ContinueGoes DEF GetQueryNumber, PcValues
    <2> QED
        BY <1>3, <2>1 DEF GetQueryNumber, Goes, Calm, manager, collected, mutexes
<1>4. ASSUME SetActiveQuery(c) PROVE Calm(c)
    <2>1. \E target : Goes(c, target)
        BY <1>4, ContinueGoes DEF SetActiveQuery, PcValues
    <2> QED
        BY <1>4, <2>1 DEF SetActiveQuery, Goes, Calm, manager, collected, mutexes
<1>5. ASSUME Write(c) PROVE Calm(c)
    BY <1>5 DEF Write, Calm, manager, collected, mutexes
<1>6. ASSUME NEW success \in BOOLEAN, RunQuery(c, success) PROVE Calm(c)
    <2>1. \E target : Goes(c, target)
        BY <1>6, FinalizeQueryGoes DEF RunQuery
    <2> QED
        BY <1>6, <2>1 DEF RunQuery, Goes, Calm, manager, collected, mutexes
<1>7. ASSUME RunStream(c) PROVE Calm(c)
    <2>1. \E target : Goes(c, target)
        BY <1>7, ContinueGoes DEF RunStream, PcValues
    <2> QED
        BY <1>7, <2>1 DEF RunStream, Goes, Calm, manager, collected, mutexes
<1>8. ASSUME NEW success \in BOOLEAN, RunFunction(c, success) PROVE Calm(c)
    <2>1. \E target : Goes(c, target)
        BY <1>8, EndTransactionGoes, ContinueGoes DEF RunFunction, PcValues
    <2> QED
        BY <1>8, <2>1 DEF RunFunction, Goes, Calm, manager, collected, mutexes
<1>9. ASSUME RunBegin(c) PROVE Calm(c)
    BY <1>9 DEF RunBegin, PcAfter, TypeOK, Calm, manager, collected, mutexes
<1>10. ASSUME NEW how \in {"commit", "rollback"}, RunCommitOrRollback(c, how) PROVE Calm(c)
    <2>1. \E target : Goes(c, target)
        BY <1>10, FinalizeQueryGoes, EndTransactionGoes DEF RunCommitOrRollback, PcValues
    <2> QED
        BY <1>10, <2>1 DEF RunCommitOrRollback, Goes, Calm, manager, collected, mutexes
<1>11. ASSUME CommitWantsCheckpoint(c) PROVE Calm(c)
    <2>1. \E target : Goes(c, target)
        BY <1>11, ContinueGoes DEF CommitWantsCheckpoint, PcValues
    <2> QED
        BY <1>11, <2>1 DEF CommitWantsCheckpoint, Goes, Calm, manager, collected
<1>12. ASSUME NEW s \in {"checkpoint", "force_checkpoint"}, BeginCheckpoint(c, s) PROVE Calm(c)
    <2>1. \E target : Goes(c, target)
        BY <1>12, FinalizeQueryGoes, ContinueGoes DEF BeginCheckpoint, PcValues
    <2> QED
        BY <1>12, <2>1 DEF BeginCheckpoint, Goes, Calm, manager, collected
<1>13. ASSUME LockConnections(c) PROVE Calm(c)
    <2>1. \E target : Goes(c, target)
        BY <1>13, ContinueGoes DEF LockConnections, PcValues
    <2> QED
        BY <1>13, <2>1 DEF LockConnections, Goes, Calm, manager, collected
<1>14. ASSUME NEW d \in Clients, LockClient(c, d) PROVE Calm(c)
    BY <1>14 DEF LockClient, Calm, manager, collected
<1>15. ASSUME RefuseCheckpoint(c) PROVE Calm(c)
    <2>1. \E target : Goes(c, target)
        BY <1>15, FinalizeQueryGoes DEF RefuseCheckpoint
    <2> QED
        BY <1>15, <2>1 DEF RefuseCheckpoint, AllClientsLocked, Goes, Calm, manager, collected
<1>16. ASSUME DestroyUnderLock(c) PROVE Calm(c)
    BY <1>16 DEF DestroyUnderLock, OnlyTakesLock, AllClientsLocked, TransactionLockFree, TypeOK, Calm, manager, collected, contexts
<1>17. ASSUME AcceptCheckpoint(c) PROVE Calm(c)
    BY <1>17 DEF AcceptCheckpoint, OnlyTakesLock, AllClientsLocked, TransactionLockFree, TypeOK, Calm, manager, collected, contexts
<1>18. ASSUME NEW success \in BOOLEAN, FinishCheckpoint(c, success) PROVE Calm(c)
    <2>1. \E target : Goes(c, target)
        <3>1. CASE Committing(c)
            <4>1. after[c] \in PcValues \ Locked
                BY DEF TypeOK, PcValues
            <4> QED
                BY <1>18, <3>1, <4>1 DEF FinishCheckpoint, Goes, PcAfter, TypeOK
        <3>2. CASE ~Committing(c)
            BY <1>18, <3>2, FinalizeQueryGoes DEF FinishCheckpoint
        <3> QED
            BY <3>1, <3>2
    <2> QED
        BY <1>18, <2>1 DEF FinishCheckpoint, Goes, Calm, manager, collected
<1> QED
    BY <1>1, <1>2, <1>3, <1>4, <1>5, <1>6, <1>7, <1>8, <1>9,
       <1>10, <1>11, <1>12, <1>13, <1>14, <1>15, <1>16, <1>17, <1>18 DEF CalmCallStep
-----------------------------------------------------------------------------
(***************************************************************************)
(* The two halves of RemoveTransaction, and what comes before it.          *)
(***************************************************************************)

\* The first loop of RemoveTransaction, for a transaction that has just been
\* committed or rolled back, establishes what the rest of it relies on.
LEMMA ScanStep ==
    ASSUME IInv, NEW c \in Clients, NEW t \in active_transactions,
           \A d \in Clients \ {c} : pc[d] \notin Locked /\ pc'[d] \notin Locked,
           \A a \in active_transactions : commit_id[a] = 0,
           pc'[c] \in Removing, removing'[c] = t, transaction_lock' = c,
           ScanActive(t),
           UNCHANGED <<lists, current_transaction_id, start_time, cleaned_until>>,
           \/ UNCHANGED <<current_start_timestamp, commit_id>>
           \/ /\ pc'[c] = "remove"
              /\ current_start_timestamp' = current_start_timestamp + 1
              /\ \E v \in {0, current_start_timestamp} :
                    commit_id' = [commit_id EXCEPT ![t] = v]
    PROVE  /\ scan' \in [start_time : Nat, active_query : Nat, seen : SUBSET Nat]
           /\ CollectInv'
<1> USE DEF IInv, CollectInv
<1>1. /\ active_transactions' = active_transactions
      /\ recently_committed' = recently_committed
      /\ old_transactions' = old_transactions
      /\ current_transaction_id' = current_transaction_id
      /\ start_time' = start_time
      /\ cleaned_until' = cleaned_until
    BY DEF lists
<1>2. /\ t \in Txns
      /\ current_start_timestamp \in Nat
      /\ \A x \in Txns : commit_id[x] \in Nat /\ start_time[x] \in Nat
      /\ active_transactions \subseteq Txns
      /\ recently_committed \in Seq(Txns)
    BY DEF TypeOK
<1>3. \A i \in 1 .. Len(recently_committed) :
        recently_committed[i] \in Txns /\ recently_committed[i] # t
    BY <1>2 DEF DisjointInv, SeqToSet
<1>4. /\ current_start_timestamp' >= current_start_timestamp
      /\ current_start_timestamp' \in Nat
      /\ \A x \in Txns \ {t} : commit_id'[x] = commit_id[x]
      /\ commit_id'[t] = 0 \/ (/\ pc'[c] = "remove"
                               /\ commit_id'[t] = current_start_timestamp
                               /\ current_start_timestamp' = current_start_timestamp + 1)
    <2>1. CASE UNCHANGED <<current_start_timestamp, commit_id>>
        BY <1>2, <2>1
    <2>2. CASE /\ pc'[c] = "remove"
               /\ current_start_timestamp' = current_start_timestamp + 1
               /\ \E v \in {0, current_start_timestamp} :
                    commit_id' = [commit_id EXCEPT ![t] = v]
        BY <1>2, <2>2 DEF TypeOK
    <2> QED
        BY <2>1, <2>2
<1>5. /\ scan' \in [start_time : Nat, active_query : Nat, seen : SUBSET Nat]
      /\ \A a \in active_transactions \ {t} : scan'.start_time <= start_time[a]
    <2> DEFINE starts == {start_time[a] : a \in Others(t)} \union {TransactionIdStart}
               running == {active_query[a] : a \in Others(t)} \union {MaximumQueryId}
    <2>1. starts \subseteq Nat /\ running \subseteq Nat
        BY ConstantsAssumption DEF Others, TypeOK
    <2>2. PICK s \in starts, q \in running :
            /\ IsLowest(s, starts)
            /\ scan' = [start_time |-> s, active_query |-> q,
                        seen |-> running \ {MaximumQueryId}]
        BY DEF ScanActive
    <2>3. \A a \in active_transactions \ {t} : s <= start_time[a]
        BY <2>2 DEF IsLowest, Others
    <2> HIDE DEF starts, running
    <2> QED
        BY <2>1, <2>2, <2>3
<1>6. LockInv'
    BY DEF LockInv
<1>7. CounterInv'
    <2>1. TransactionIdStart \in Nat
        BY ConstantsAssumption
    <2>2. current_transaction_id \in Nat
        BY DEF TypeOK
    <2>3. /\ TransactionIdStart <= current_transaction_id
          /\ current_transaction_id <= TransactionIdStart + current_start_timestamp
        BY DEF CounterInv
    <2>4. current_transaction_id <= TransactionIdStart + current_start_timestamp'
        <3>1. ASSUME NEW k \in Nat, NEW i \in Nat, NEW m \in Nat, NEW n \in Nat,
                     i <= k + m, n >= m
              PROVE  i <= k + n
            BY <3>1, SMT
        <3>2. current_start_timestamp \in Nat /\ current_start_timestamp' \in Nat
            BY <1>2, <1>4
        <3>3. current_start_timestamp' >= current_start_timestamp
            BY <1>4
        <3> QED
            BY ONLY <2>1, <2>2, <2>3, <3>1, <3>2, <3>3
    <2> QED
        BY <1>1, <2>3, <2>4 DEF CounterInv
<1>8. FreshInv'
    BY <1>1, <1>2, <1>4 DEF FreshInv
<1>9. DisjointInv'
    BY <1>1 DEF DisjointInv
<1>10. PastInv'
    <2>1. ASSUME NEW x \in Txns, commit_id'[x] # 0
          PROVE  commit_id'[x] < current_start_timestamp'
        <3>1. CASE x = t
            BY <1>2, <1>4, <2>1, <3>1
        <3>2. CASE x # t
            <4>1. commit_id'[x] = commit_id[x] /\ commit_id[x] < current_start_timestamp
                BY <1>4, <2>1, <3>2 DEF PastInv
            <4> QED
                BY <1>2, <1>4, <4>1
        <3> QED
            BY <3>1, <3>2
    <2>2. \A i \in 1 .. Len(recently_committed) : commit_id'[recently_committed[i]] # 0
        BY <1>3, <1>4 DEF PastInv
    <2>3. cleaned_until < current_start_timestamp'
        BY <1>2, <1>4 DEF PastInv, TypeOK
    <2> QED
        BY <1>1, <2>1, <2>2, <2>3 DEF PastInv
<1>11. CommittedInv'
    BY <1>1, <1>2, <1>4 DEF CommittedInv
<1>12. RecentOrdered'
    <2>1. \A i \in 1 .. Len(recently_committed) :
            commit_id'[recently_committed[i]] = commit_id[recently_committed[i]]
        BY <1>3, <1>4
    <2> QED
        BY <1>1, <2>1 DEF RecentOrdered
<1>13. CleanupSafe'
    BY <1>1 DEF CleanupSafe
<1>14. ScanInv'
    <2>1. \A d \in Clients : pc'[d] \in {"remove", "force_remove"} => d = c
        BY DEF Locked
    <2>2. commit_id'[t] # 0 => \A i \in 1 .. Len(recently_committed) :
            commit_id'[recently_committed[i]] < commit_id'[t]
        BY <1>2, <1>3, <1>4 DEF PastInv
    <2> QED
        BY <1>1, <1>5, <2>1, <2>2 DEF ScanInv
<1> QED
    BY <1>5, <1>6, <1>7, <1>8, <1>9, <1>10, <1>11, <1>12, <1>13, <1>14

\* The rest of RemoveTransaction keeps the invariant.
LEMMA RemoveStep ==
    ASSUME IInv, NEW c \in Clients, pc[c] \in Removing, RemoveTransaction(removing[c]),
           UNCHANGED timestamps,
           \A d \in Clients \ {c} : pc'[d] = pc[d],
           pc'[c] \notin Removing, pc'[c] \in Locked => transaction_lock' = c
    PROVE  /\ active_transactions' \in SUBSET Txns
           /\ recently_committed' \in Seq(Txns)
           /\ old_transactions' \in Seq(Txns)
           /\ start_time' \in [Txns -> Nat]
           /\ commit_id' \in [Txns -> Nat]
           /\ active_query' \in [Txns -> Nat]
           /\ highest_active_query' \in [Txns -> Nat]
           /\ scan' \in [start_time : Nat, active_query : Nat, seen : SUBSET Nat]
           /\ users' \in [Txns -> SUBSET Nat]
           /\ cleaned_until' \in Int
           /\ freed_in_use' \in SUBSET [query : Nat, late : BOOLEAN]
           /\ context' \in [Txns -> Clients \union {NoClient}]
           /\ CollectInv'
<1> USE DEF IInv, CollectInv
<1> DEFINE t == removing[c]
<1>1. /\ t \in active_transactions
      /\ \A a \in active_transactions \ {t} : scan.start_time <= start_time[a]
      /\ commit_id[t] # 0 => \A i \in 1 .. Len(recently_committed) :
                                    commit_id[recently_committed[i]] < commit_id[t]
    BY DEF ScanInv, Removing
<1>2. /\ recently_committed' \in Seq(Txns)
      /\ old_transactions' \in Seq(Txns)
      /\ start_time' \in [Txns -> Nat]
      /\ commit_id' \in [Txns -> Nat]
      /\ active_query' \in [Txns -> Nat]
      /\ highest_active_query' \in [Txns -> Nat]
      /\ users' \in [Txns -> SUBSET Nat]
      /\ cleaned_until' \in Int
      /\ freed_in_use' \in SUBSET [query : Nat, late : BOOLEAN]
      /\ context' \in [Txns -> Clients \union {NoClient}]
      /\ scan' = NoScan
      /\ active_transactions' = active_transactions \ {t}
      /\ SeqToSet(recently_committed') \union SeqToSet(old_transactions')
            \subseteq SeqToSet(recently_committed) \union SeqToSet(old_transactions)
                      \union {t}
      /\ DisjointInv'
      /\ \A x \in Txns : commit_id'[x] \in {0, commit_id[x]}
      /\ \A i \in 1 .. Len(recently_committed') : commit_id'[recently_committed'[i]] # 0
      /\ cleaned_until' < current_start_timestamp
      /\ RecentOrdered'
      /\ CleanupSafe'
    <2>1. TypeOK /\ DisjointInv /\ PastInv /\ RecentOrdered /\ CleanupSafe
        OBVIOUS
    <2> QED
        BY <1>1, <2>1, RemoveTransactionCorrect
<1>3. /\ current_start_timestamp' = current_start_timestamp
      /\ current_transaction_id' = current_transaction_id
    BY DEF timestamps
<1>4. transaction_lock = c /\ \A d \in Clients \ {c} : pc[d] \notin Locked
    BY DEF LockInv, Locked, Removing
<1>5. LockInv'
    BY <1>4 DEF LockInv
<1>6. CounterInv'
    BY <1>3 DEF CounterInv
<1>7. t \in Txns /\ active_transactions \subseteq Txns
    BY <1>1 DEF TypeOK
<1>8. FreshInv'
    <2> SUFFICES ASSUME NEW x \in Txns, x >= current_transaction_id
                 PROVE  /\ commit_id'[x] = 0
                        /\ x \notin active_transactions'
                        /\ x \notin SeqToSet(recently_committed')
                        /\ x \notin SeqToSet(old_transactions')
        BY <1>3 DEF FreshInv
    <2>1. /\ commit_id[x] = 0
          /\ x \notin active_transactions
          /\ x \notin SeqToSet(recently_committed)
          /\ x \notin SeqToSet(old_transactions)
        BY DEF FreshInv
    <2> HIDE DEF t
    <2> QED
        BY <1>1, <1>2, <2>1
<1>9. PastInv'
    BY <1>2, <1>3 DEF PastInv
<1>10. CommittedInv'
    <2>1. \A a \in active_transactions : commit_id[a] # 0 => a = t
        BY <1>4 DEF CommittedInv
    <2> QED
        BY <1>2, <1>7, <2>1 DEF CommittedInv
<1>11. ScanInv'
    BY <1>4 DEF ScanInv, Locked, Removing
<1>12. scan' \in [start_time : Nat, active_query : Nat, seen : SUBSET Nat]
    BY <1>2 DEF NoScan
<1> QED
    BY <1>2, <1>5, <1>6, <1>7, <1>8, <1>9, <1>10, <1>11, <1>12
-----------------------------------------------------------------------------
(***************************************************************************)
(* The steps of a call that change the manager, and the theorems.          *)
(***************************************************************************)

\* A call, or SetAutoCommit, begins a transaction.
Begins(c) ==
    /\ BeginTransaction(c)
    /\ \E target \in PcValues \ (Locked \union {"numbered"}) : pc' = [pc EXCEPT ![c] = target]
    /\ auto_commit' \in [Clients -> BOOLEAN]

LEMMA BeginsTransaction ==
    ASSUME TypeOK, NEW c \in Clients,
           StartTransaction(c) \/ (TurnAutoCommitOff(c) /\ current_transaction[c] = NoTxn)
    PROVE  Begins(c)
<1>1. CASE StartTransaction(c)
    <2>1. AfterBegin(c) \in PcValues \ (Locked \union {"numbered"})
        BY DEF AfterBegin, PcValues, Locked
    <2> QED
        BY <1>1, <2>1 DEF StartTransaction, Begins, TypeOK
<1>2. CASE TurnAutoCommitOff(c) /\ current_transaction[c] = NoTxn
    <2>1. pc[c] = "idle" /\ "idle" \in PcValues \ (Locked \union {"numbered"})
        BY <1>2 DEF TurnAutoCommitOff, PcValues, Locked
    <2>2. pc' = [pc EXCEPT ![c] = "idle"]
        BY <1>2, <2>1 DEF TurnAutoCommitOff, TypeOK
    <2>3. auto_commit' \in [Clients -> BOOLEAN]
        BY <1>2 DEF TurnAutoCommitOff, SetAutoCommit, TypeOK
    <2> QED
        BY <1>2, <2>1, <2>2, <2>3 DEF TurnAutoCommitOff, Begins
<1> QED
    BY <1>1, <1>2

\* BeginTransaction keeps the invariant: the new transaction is fresh, and its
\* snapshot is later than everything cleaned up.
LEMMA StartTransactionStep ==
    ASSUME IInv, NEW c \in Clients, Begins(c)
    PROVE  IInv'
<1> USE DEF IInv, CollectInv
<1> DEFINE t == current_transaction_id
<1>1. TransactionIdStart \in Nat /\ NoTxn \notin Nat
    BY ConstantsAssumption
<1>2. current_start_timestamp \in Nat /\ t \in Nat
    BY DEF TypeOK
<1>3. t \in Txns
    BY <1>1, <1>2 DEF Begins, BeginTransaction, IdentifiersLeft, CounterInv, Txns
<1>4. /\ current_start_timestamp' = current_start_timestamp + 1
      /\ current_transaction_id' = t + 1
      /\ start_time' = [start_time EXCEPT ![t] = current_start_timestamp]
      /\ active_transactions' = active_transactions \union {t}
      /\ current_transaction' = [current_transaction EXCEPT ![c] = t]
      /\ UNCHANGED <<recently_committed, old_transactions, commit_id, cleaned_until, scan,
                     transaction_lock, removing>>
    BY DEF Begins, BeginTransaction, NextTimestamp, auxiliary, mutexes
<1>5. PICK target \in PcValues \ Locked : pc' = [pc EXCEPT ![c] = target]
    BY DEF Begins
<1>6. TypeOK'
    <2>1. /\ start_time' \in [Txns -> Nat]
          /\ active_transactions' \in SUBSET Txns
          /\ current_transaction' \in [Clients -> Txns \union {NoTxn}]
          /\ pc' \in [Clients -> PcValues]
          /\ current_start_timestamp' \in Nat
          /\ current_transaction_id' \in Nat
        BY <1>2, <1>3, <1>4, <1>5 DEF TypeOK
    <2>2. context' \in [Txns -> Clients \union {NoClient}] /\ leaked' \in SUBSET Txns
        <3>1. /\ context' = [context EXCEPT ![t] = c]
              /\ leaked' = leaked \union ({current_transaction[c]} \ {NoTxn})
            BY DEF Begins, BeginTransaction
        <3>2. /\ context \in [Txns -> Clients \union {NoClient}]
              /\ leaked \in SUBSET Txns /\ current_transaction[c] \in Txns \union {NoTxn}
            BY DEF TypeOK
        <3> QED
            BY <1>3, <3>1, <3>2
    <2> QED
        BY <2>1, <2>2 DEF TypeOK, Begins, BeginTransaction, auxiliary, queries, mutexes
<1>7. transaction_lock = NoClient /\ \A d \in Clients : pc[d] \notin Locked /\ pc'[d] \notin Locked
    <2>1. transaction_lock = NoClient /\ NoClient \notin Clients
        BY ConstantsAssumption DEF Begins, BeginTransaction, TransactionLockFree
    <2>2. \A d \in Clients : pc[d] \notin Locked
        BY <2>1 DEF LockInv
    <2> QED
        BY <1>4, <1>5, <2>1, <2>2 DEF TypeOK
<1>8. LockInv' /\ ScanInv'
    BY <1>7 DEF LockInv, ScanInv, Locked
<1>9. CounterInv'
    BY <1>1, <1>2, <1>4 DEF CounterInv
<1>10. FreshInv'
    BY <1>2, <1>4 DEF FreshInv, Txns
<1>11. /\ commit_id[t] = 0
       /\ t \notin SeqToSet(recently_committed) /\ t \notin SeqToSet(old_transactions)
    BY <1>2, <1>3 DEF FreshInv
<1>12. DisjointInv'
    BY <1>4, <1>11 DEF DisjointInv
<1>13. PastInv'
    BY <1>2, <1>4 DEF PastInv, TypeOK
<1>14. CommittedInv'
    <2>1. \A a \in active_transactions : commit_id[a] = 0
        BY <1>7, ConstantsAssumption DEF CommittedInv
    <2> QED
        BY <1>4, <1>11, <2>1 DEF CommittedInv
<1>15. RecentOrdered'
    BY <1>4 DEF RecentOrdered
<1>16. CleanupSafe'
    <2>1. \A a \in active_transactions : a \in Txns
        BY DEF TypeOK
    <2> QED
        BY <1>3, <1>4, <2>1 DEF CleanupSafe, PastInv, TypeOK
<1> QED
    BY <1>6, <1>8, <1>9, <1>10, <1>12, <1>13, <1>14, <1>15, <1>16

\* With transaction_lock free nobody is inside the manager and no active
\* transaction has a commit id.
LEMMA LockFree ==
    ASSUME IInv, TransactionLockFree
    PROVE  /\ \A d \in Clients : pc[d] \notin Locked
           /\ \A a \in active_transactions : commit_id[a] = 0
BY ConstantsAssumption DEF IInv, CollectInv, LockInv, CommittedInv, TransactionLockFree

\* CommitTransaction, with and without the clients locked, keeps the invariant.
LEMMA CommitBodyStep ==
    ASSUME IInv, NEW c \in Clients, NEW success \in BOOLEAN, TransactionLockFree,
           CommitBody(c, success), pc'[c] = "remove", removing' = removing,
           \A d \in Clients \ {c} : pc'[d] = pc[d] \/ pc'[d] \notin Locked,
           UNCHANGED <<lists, current_transaction_id, start_time, cleaned_until>>
    PROVE  /\ current_start_timestamp' \in Nat
           /\ commit_id' \in [Txns -> Nat]
           /\ transaction_lock' \in Clients
           /\ scan' \in [start_time : Nat, active_query : Nat, seen : SUBSET Nat]
           /\ CollectInv'
<1>1. removing[c] \in active_transactions /\ ScanActive(removing[c])
    BY DEF CommitBody, ScanActive
<1>2. /\ current_start_timestamp \in Nat
      /\ commit_id \in [Txns -> Nat]
    BY DEF IInv, TypeOK
<1>3. /\ commit_id' = [commit_id EXCEPT ![removing[c]] = IF success THEN current_start_timestamp ELSE 0]
      /\ current_start_timestamp' = current_start_timestamp + 1
      /\ transaction_lock' = c
    BY DEF CommitBody, NextTimestamp
<1>4. \E v \in {0, current_start_timestamp} : commit_id' = [commit_id EXCEPT ![removing[c]] = v]
    BY <1>3
<1>5. \A d \in Clients \ {c} : pc[d] \notin Locked /\ pc'[d] \notin Locked
    BY LockFree
<1>6. \A a \in active_transactions : commit_id[a] = 0
    BY LockFree
<1>7. pc'[c] \in Removing
    BY DEF Removing
<1>8. /\ scan' \in [start_time : Nat, active_query : Nat, seen : SUBSET Nat]
      /\ CollectInv'
    <2>1. removing'[c] = removing[c]
        OBVIOUS
    <2>2. /\ pc'[c] = "remove"
          /\ current_start_timestamp' = current_start_timestamp + 1
          /\ \E v \in {0, current_start_timestamp} :
                commit_id' = [commit_id EXCEPT ![removing[c]] = v]
        BY <1>3, <1>4
    <2> QED
        BY <1>1, <1>3, <1>5, <1>6, <1>7, <2>1, <2>2, ScanStep
<1>9. commit_id' \in [Txns -> Nat]
    <2>1. PICK v \in Nat : commit_id' = [commit_id EXCEPT ![removing[c]] = v]
        BY <1>2, <1>4
    <2> QED
        BY <1>2, <2>1
<1>10. current_start_timestamp' \in Nat /\ transaction_lock' \in Clients
    BY <1>2, <1>3
<1> QED
    BY <1>8, <1>9, <1>10

\* Every other step of a call that changes the manager keeps the invariant.
LEMMA ManagerSteps ==
    ASSUME IInv, NEW c \in Clients
    PROVE  /\ \A success \in BOOLEAN : CommitTransaction(c, success) => IInv'
           /\ RollbackTransaction(c) => IInv'
           /\ FinishRemove(c) => IInv'
           /\ \A success \in BOOLEAN : CommitWithClientsLocked(c, success) => IInv'
           /\ \A t \in Txns : ForceRollback(c, t) => IInv'
           /\ ForceRemove(c) => IInv'
<1>0. TypeOK
    BY DEF IInv
<1>1. ASSUME NEW success \in BOOLEAN, CommitTransaction(c, success) PROVE IInv'
    <2>1. ContextTypeOK' /\ removing' = removing
        BY <1>0, <1>1, ContinueType DEF CommitTransaction, PcValues, Continue
    <2>2. pc'[c] = "remove" /\ \A d \in Clients \ {c} : pc'[d] = pc[d] \/ pc'[d] \notin Locked
        BY <1>0, <1>1 DEF CommitTransaction, Continue, PcAfter, TypeOK, Locked
    <2>3. TransactionLockFree /\ CommitBody(c, success)
        BY <1>1 DEF CommitTransaction
    <2>4. UNCHANGED <<lists, current_transaction_id, start_time, cleaned_until>>
        BY <1>1 DEF CommitTransaction, auxiliary, origins
    <2>5. /\ current_start_timestamp' \in Nat
          /\ commit_id' \in [Txns -> Nat]
          /\ transaction_lock' \in Clients
          /\ scan' \in [start_time : Nat, active_query : Nat, seen : SUBSET Nat]
          /\ CollectInv'
        BY <2>1, <2>2, <2>3, <2>4, CommitBodyStep
    <2>6. TypeOK'
        BY <1>0, <1>1, <2>1, <2>5 DEF CommitTransaction, TypeOK, ContextTypeOK, lists,
            auxiliary, origins, queries
    <2> QED
        BY <2>5, <2>6 DEF IInv
<1>2. ASSUME RollbackTransaction(c) PROVE IInv'
    <2>1. ContextTypeOK' /\ removing' = removing
        BY <1>0, <1>2, ContinueType DEF RollbackTransaction, PcValues, Continue
    <2>2. pc'[c] = "remove" /\ \A d \in Clients \ {c} : pc'[d] = pc[d] \/ pc'[d] \notin Locked
        BY <1>0, <1>2 DEF RollbackTransaction, Continue, PcAfter, TypeOK, Locked
    <2>3. /\ TransactionLockFree /\ ScanActive(removing[c])
          /\ removing[c] \in active_transactions /\ transaction_lock' = c
        BY <1>2 DEF RollbackTransaction, ScanActive
    <2>4. UNCHANGED <<lists, current_transaction_id, start_time, cleaned_until,
                      current_start_timestamp, commit_id>>
        BY <1>2 DEF RollbackTransaction, timestamps, objects, auxiliary, origins
    <2>5. \A d \in Clients \ {c} : pc[d] \notin Locked /\ pc'[d] \notin Locked
        BY <2>2, <2>3, LockFree
    <2>6. /\ scan' \in [start_time : Nat, active_query : Nat, seen : SUBSET Nat]
          /\ CollectInv'
        BY <2>1, <2>2, <2>3, <2>4, <2>5, LockFree, ScanStep DEF Removing
    <2>7. TypeOK'
        BY <1>0, <1>2, <2>1, <2>3, <2>6 DEF RollbackTransaction, TypeOK, ContextTypeOK,
            timestamps, lists, objects, auxiliary, origins, queries
    <2> QED
        BY <2>6, <2>7 DEF IInv
<1>3. ASSUME FinishRemove(c) PROVE IInv'
    <2>1. RemoveTransaction(removing[c]) /\ UNCHANGED timestamps /\ pc[c] \in Removing
        BY <1>3 DEF FinishRemove, Removing
    <2>2. after[c] \in PcValues \ (Locked \union Removing)
        BY <1>0 DEF TypeOK, PcValues, Locked, Removing
    <2>3. transaction_lock = c
        BY <1>3 DEF FinishRemove, IInv, CollectInv, LockInv, Locked
    <2>4. /\ \A d \in Clients \ {c} : pc'[d] = pc[d]
          /\ pc'[c] \notin Removing
          /\ pc'[c] \in Locked => transaction_lock' = c
          /\ transaction_lock' \in {c, NoClient}
          /\ pc' \in [Clients -> PcValues]
        <3>1. pc \in [Clients -> PcValues]
            BY <1>0 DEF TypeOK
        <3> QED
            BY <1>3, <2>2, <2>3, <3>1 DEF FinishRemove, PcValues, Removing
    <2>5. /\ active_transactions' \in SUBSET Txns
          /\ recently_committed' \in Seq(Txns)
          /\ old_transactions' \in Seq(Txns)
          /\ start_time' \in [Txns -> Nat]
          /\ commit_id' \in [Txns -> Nat]
          /\ active_query' \in [Txns -> Nat]
          /\ highest_active_query' \in [Txns -> Nat]
          /\ scan' \in [start_time : Nat, active_query : Nat, seen : SUBSET Nat]
          /\ users' \in [Txns -> SUBSET Nat]
          /\ cleaned_until' \in Int
          /\ freed_in_use' \in SUBSET [query : Nat, late : BOOLEAN]
          /\ context' \in [Txns -> Clients \union {NoClient}]
          /\ CollectInv'
        BY <2>1, <2>4, RemoveStep
    <2>6. context_lock' \in [Clients -> Clients \union {NoClient}]
        <3>1. context_lock \in [Clients -> Clients \union {NoClient}]
            BY <1>0 DEF TypeOK
        <3> QED
            BY <1>0, <1>3, <3>1, LocksAfterType DEF FinishRemove
    <2>7. /\ after' \in [Clients -> {"idle", "ready", "closed"}]
          /\ removing' \in [Clients -> Txns \union {NoTxn}]
        BY <1>0, <1>3 DEF FinishRemove, TypeOK
    <2>8. TypeOK'
        BY <1>0, <1>3, <2>4, <2>5, <2>6, <2>7 DEF FinishRemove, TypeOK, timestamps
    <2> QED
        BY <2>5, <2>8 DEF IInv
<1>4. ASSUME NEW success \in BOOLEAN, CommitWithClientsLocked(c, success) PROVE IInv'
    <2>1. ContextTypeOK' /\ removing' = removing
        <3>1. CASE CanCheckpoint(removing[c]) /\ success
            BY <1>0, <1>4, <3>1 DEF CommitWithClientsLocked, ContextTypeOK, TypeOK, PcValues
        <3>2. CASE ~(CanCheckpoint(removing[c]) /\ success)
            BY <1>0, <1>4, <3>2, ContinueType DEF CommitWithClientsLocked, PcValues, Continue
        <3> QED
            BY <3>1, <3>2
    <2>2. pc'[c] = "remove" /\ \A d \in Clients \ {c} : pc'[d] = pc[d] \/ pc'[d] \notin Locked
        BY <1>0, <1>4 DEF CommitWithClientsLocked, Continue, PcAfter, TypeOK, Locked
    <2>3. TransactionLockFree /\ CommitBody(c, success)
        BY <1>4 DEF CommitWithClientsLocked, AllClientsLocked
    <2>4. UNCHANGED <<lists, current_transaction_id, start_time, cleaned_until>>
        BY <1>4 DEF CommitWithClientsLocked, auxiliary, origins
    <2>5. /\ current_start_timestamp' \in Nat
          /\ commit_id' \in [Txns -> Nat]
          /\ transaction_lock' \in Clients
          /\ scan' \in [start_time : Nat, active_query : Nat, seen : SUBSET Nat]
          /\ CollectInv'
        BY <2>1, <2>2, <2>3, <2>4, CommitBodyStep
    <2>6. /\ thread_is_checkpointing' \in BOOLEAN /\ force' \in BOOLEAN
          /\ connections_lock' \in Clients \union {NoClient}
        BY <1>0, <1>4 DEF CommitWithClientsLocked, ReleaseClients, TypeOK
    <2>7. TypeOK'
        BY <1>0, <1>4, <2>1, <2>5, <2>6 DEF CommitWithClientsLocked, TypeOK, ContextTypeOK,
            lists, auxiliary, origins, queries
    <2> QED
        BY <2>5, <2>7 DEF IInv
<1>5. ASSUME NEW t \in Txns, ForceRollback(c, t) PROVE IInv'
    <2>1. /\ pc[c] = "force" /\ t \in active_transactions /\ ScanActive(t)
          /\ removing' = [removing EXCEPT ![c] = t]
          /\ pc' = [pc EXCEPT ![c] = "force_remove"]
          /\ transaction_lock' = transaction_lock
        BY <1>5 DEF ForceRollback, ScanActive, mutexes
    <2>2. transaction_lock = c
        BY <2>1 DEF IInv, CollectInv, LockInv, Locked
    <2>3. \A d \in Clients \ {c} : pc[d] \notin Locked /\ pc'[d] \notin Locked
        BY <2>1, <2>2 DEF IInv, CollectInv, LockInv
    <2>4. \A a \in active_transactions : commit_id[a] = 0
        BY <2>1, <2>2 DEF IInv, CollectInv, CommittedInv
    <2>5. UNCHANGED <<lists, current_transaction_id, start_time, cleaned_until,
                      current_start_timestamp, commit_id>>
        BY <1>5 DEF ForceRollback, timestamps, objects, auxiliary, origins
    <2>6. pc'[c] \in Removing /\ removing'[c] = t
        BY <1>0, <2>1 DEF TypeOK, Removing
    <2>7. /\ scan' \in [start_time : Nat, active_query : Nat, seen : SUBSET Nat]
          /\ CollectInv'
        BY <2>1, <2>2, <2>3, <2>4, <2>5, <2>6, ScanStep
    <2>8. TypeOK'
        BY <1>0, <1>5, <2>1, <2>7 DEF ForceRollback, TypeOK, PcValues, timestamps, lists,
            objects, auxiliary, origins, queries, mutexes
    <2> QED
        BY <2>7, <2>8 DEF IInv
<1>6. ASSUME ForceRemove(c) PROVE IInv'
    <2>1. /\ RemoveTransaction(removing[c]) /\ UNCHANGED timestamps /\ pc[c] \in Removing
          /\ UNCHANGED transaction_lock
        BY <1>6 DEF ForceRemove, Removing, mutexes
    <2>2. transaction_lock = c
        BY <1>6 DEF ForceRemove, IInv, CollectInv, LockInv, Locked
    <2>3. /\ \A d \in Clients \ {c} : pc'[d] = pc[d]
          /\ pc'[c] \notin Removing
          /\ pc'[c] \in Locked => transaction_lock' = c
          /\ pc' \in [Clients -> PcValues]
        BY <1>0, <1>6, <2>1, <2>2 DEF ForceRemove, Owns, TypeOK, PcValues, Removing
    <2>4. /\ active_transactions' \in SUBSET Txns
          /\ recently_committed' \in Seq(Txns)
          /\ old_transactions' \in Seq(Txns)
          /\ start_time' \in [Txns -> Nat]
          /\ commit_id' \in [Txns -> Nat]
          /\ active_query' \in [Txns -> Nat]
          /\ highest_active_query' \in [Txns -> Nat]
          /\ scan' \in [start_time : Nat, active_query : Nat, seen : SUBSET Nat]
          /\ users' \in [Txns -> SUBSET Nat]
          /\ cleaned_until' \in Int
          /\ freed_in_use' \in SUBSET [query : Nat, late : BOOLEAN]
          /\ context' \in [Txns -> Clients \union {NoClient}]
          /\ CollectInv'
        BY <2>1, <2>3, RemoveStep
    <2>5. /\ current_transaction' \in [Clients -> Txns \union {NoTxn}]
          /\ auto_commit' \in [Clients -> BOOLEAN]
          /\ changes_made' \in [Clients -> BOOLEAN]
          /\ removing' \in [Clients -> Txns \union {NoTxn}]
          /\ leaked' \in SUBSET Txns
        BY <1>0, <1>6 DEF ForceRemove, Owns, TypeOK
    <2>6. TypeOK'
        BY <1>0, <1>6, <2>3, <2>4, <2>5 DEF ForceRemove, Owns, TypeOK, timestamps, mutexes
    <2> QED
        BY <2>4, <2>6 DEF IInv
<1> QED
    BY <1>1, <1>2, <1>3, <1>4, <1>5, <1>6

\* The initial state satisfies the invariant.
LEMMA InitIInv == Init => IInv
<1> SUFFICES ASSUME Init PROVE IInv
    OBVIOUS
<1>1. TypeOK
    <2>1. TransactionIdStart \in Nat /\ MaximumQueryId \in Nat
        BY ConstantsAssumption
    <2>2. ContextTypeOK
        BY DEF Init, ContextTypeOK, PcValues
    <2>3. scan \in [start_time : Nat, active_query : Nat, seen : SUBSET Nat]
        BY DEF Init, NoScan
    <2>4. recently_committed \in Seq(Txns) /\ old_transactions \in Seq(Txns)
        BY DEF Init
    <2>5. /\ users \in [Txns -> SUBSET Nat]
          /\ freed_in_use \in SUBSET [query : Nat, late : BOOLEAN]
          /\ context \in [Txns -> Clients \union {NoClient}]
          /\ leaked \in SUBSET Txns
        BY DEF Init
    <2>6. /\ current_start_timestamp \in Nat
          /\ current_transaction_id \in Nat
          /\ current_query_number \in Nat
          /\ cleaned_until \in Int
        BY <2>1 DEF Init
    <2>7. /\ start_time \in [Txns -> Nat]
          /\ commit_id \in [Txns -> Nat]
          /\ active_query \in [Txns -> Nat]
          /\ highest_active_query \in [Txns -> Nat]
          /\ number \in [Clients -> Nat]
          /\ open_result \in [Clients -> BOOLEAN]
        BY <2>1 DEF Init
    <2>8. /\ active_transactions \in SUBSET Txns
          /\ thread_is_checkpointing \in BOOLEAN
          /\ transaction_lock \in Clients \union {NoClient}
          /\ connections_lock \in Clients \union {NoClient}
          /\ to_lock \in SUBSET Clients
          /\ force \in BOOLEAN
        BY DEF Init
    <2> QED
        BY <2>2, <2>3, <2>4, <2>5, <2>6, <2>7, <2>8 DEF TypeOK, ContextTypeOK
<1>2. LockInv /\ ScanInv
    BY DEF Init, LockInv, ScanInv, Locked
<1>3. CounterInv
    BY ConstantsAssumption DEF Init, CounterInv
<1>4. SeqToSet(recently_committed) = {} /\ SeqToSet(old_transactions) = {}
    BY DEF Init, SeqToSet
<1>5. FreshInv /\ DisjointInv /\ CommittedInv /\ CleanupSafe
    BY <1>4 DEF Init, FreshInv, DisjointInv, CommittedInv, CleanupSafe
<1>6. PastInv /\ RecentOrdered
    BY DEF Init, PastInv, RecentOrdered
<1> QED
    BY <1>1, <1>2, <1>3, <1>5, <1>6 DEF IInv, CollectInv

\* Every step keeps the invariant.
LEMMA NextIInv == IInv /\ [Next]_vars => IInv'
<1> SUFFICES ASSUME IInv, [Next]_vars PROVE IInv'
    OBVIOUS
<1>0. TypeOK
    BY DEF IInv
<1>1. CASE UNCHANGED vars
    BY <1>1 DEF vars, manager, collected, timestamps, lists, objects, auxiliary, origins, queries, mutexes,
        contexts, IInv, TypeOK, CollectInv, LockInv, CounterInv, FreshInv, DisjointInv, PastInv,
        CommittedInv, ScanInv, RecentOrdered, CleanupSafe
<1>2. ASSUME NEW c \in Clients, CalmUserStep(c) PROVE IInv'
    BY <1>0, <1>2, UserStepType, UserStepCalm, CalmKeepsCollectInv DEF IInv
<1>3. ASSUME NEW c \in Clients, CalmCallStep(c) PROVE IInv'
    BY <1>0, <1>3, CalmCallStepType, CalmCallStepCalm, CalmKeepsCollectInv DEF IInv
<1>4. ASSUME NEW c \in Clients, CallStep(c), ~CalmCallStep(c) PROVE IInv'
    BY <1>0, <1>4, BeginsTransaction, StartTransactionStep, ManagerSteps DEF CallStep, CalmCallStep
<1>5. ASSUME NEW c \in Clients, UserStep(c), ~CalmUserStep(c) PROVE IInv'
    BY <1>0, <1>5, BeginsTransaction, StartTransactionStep DEF UserStep, CalmUserStep, KeepsTransaction
<1> QED
    BY <1>1, <1>2, <1>3, <1>4, <1>5 DEF Next

\* The inductive invariant holds.
THEOREM Invariance == Spec => []IInv
BY InitIInv, NextIInv, PTL DEF Spec

\* Type correctness: no timestamp, list, lock or context ever leaves its type,
\* whatever the connections do.
THEOREM TypeCorrect == Spec => []TypeOK
BY Invariance, PTL DEF IInv

\* RemoveTransaction's garbage collection is safe: what it cleans up was
\* committed before every transaction that is active, then or later, began.
THEOREM CleanupIsSafe == Spec => []CleanupSafe
BY Invariance, PTL DEF IInv, CollectInv

\* recently_committed_transactions is ordered on commit_id, which is why
\* RemoveTransaction may stop at the first transaction that is still relevant.
THEOREM RecentIsOrdered == Spec => []RecentOrdered
BY Invariance, PTL DEF IInv, CollectInv

-----------------------------------------------------------------------------
(***************************************************************************)
(* What the manager retains: when no transaction is active everything      *)
(* committed or rolled back is gone, and the queries that took a number    *)
(* before a transaction was retired have ended when it is freed, but for   *)
(* those that stored it late.                                              *)
(***************************************************************************)

(***************************************************************************)
(* The inductive invariant, besides IInv.                                  *)
(***************************************************************************)
NoQuery == MaximumQueryId

\* Query numbers that are stored somewhere were handed out.
NumberInv ==
    /\ \A x \in Txns : active_query[x] = NoQuery \/ active_query[x] < current_query_number
    /\ \A x \in Txns : highest_active_query[x] <= current_query_number
    /\ \A x \in Txns : \A q \in users[x] : q < highest_active_query[x] /\ q # NoQuery
    /\ \A q \in scan.seen : q < current_query_number /\ q # NoQuery

\* A number that was handed out and is not yet stored in the transaction was seen by
\* nobody, and is nobody else's.
PendingInv ==
    \A c \in Clients : pc[c] = "numbered" =>
      /\ number[c] < current_query_number
      /\ number[c] \notin scan.seen
      /\ \A x \in Txns : /\ number[c] \notin users[x]
                         /\ active_query[x] = NoQuery \/ active_query[x] # number[c]
      /\ \A d \in Clients \ {c} : pc[d] = "numbered" => number[d] # number[c]

\* Between the two parts of RemoveTransaction: the queries that were seen running, then
\* or before, are not below the lowest query number that was found, also when others
\* have stored theirs in the meantime.
SeenInv ==
    \A c \in Clients : pc[c] \in Removing =>
      /\ \A q \in scan.seen : scan.active_query <= q
      /\ \A a \in active_transactions \ {removing[c]} :
           (active_query[a] \in scan.seen \/ \E x \in Txns : active_query[a] \in users[x])
             => scan.active_query <= active_query[a]

\* The last active transaction finds no start time to keep anything for.
LastInv ==
    \A c \in Clients : (pc[c] \in Removing /\ active_transactions \subseteq {removing[c]})
                         => scan.start_time = TransactionIdStart

RInv ==
    /\ NumberInv
    /\ PendingInv
    /\ SeenInv
    /\ LastInv
    /\ NothingRetainedWhenIdle
    /\ FreedTransactionsUnused

-----------------------------------------------------------------------------
(***************************************************************************)
(* The steps, as far as queries and lists are concerned.                   *)
(***************************************************************************)
\* What no step does but the ones that say so.
NobodyNumbered == \A d \in Clients : pc'[d] = "numbered" => pc[d] = "numbered"
NobodyRemoves == \A d \in Clients : pc'[d] \notin Removing

\* Queries end, or nothing happens to them.
Quiet(c) ==
    /\ Calm(c)
    /\ current_query_number' = current_query_number /\ number' = number
    /\ \A x \in Txns : active_query'[x] \in {active_query[x], NoQuery}
    /\ NobodyNumbered

\* GetQueryNumber and SetActiveQuery.
TakesNumber(c) ==
    /\ Calm(c)
    /\ number'[c] = current_query_number /\ \A d \in Clients \ {c} : number'[d] = number[d]
    /\ current_query_number' = current_query_number + 1
    /\ active_query' = active_query
    /\ \A d \in Clients \ {c} : pc'[d] = "numbered" => pc[d] = "numbered"
StoresNumber(c) ==
    /\ Calm(c)
    /\ pc[c] = "numbered" /\ pc'[c] # "numbered"
    /\ \A d \in Clients \ {c} : number'[d] = number[d]
    /\ current_query_number' = current_query_number
    /\ \A x \in Txns : active_query'[x] \in {active_query[x], number[c]}
    /\ NobodyNumbered

\* StartTransaction.
Starts(c) ==
    /\ transaction_lock = NoClient
    /\ active_transactions' # {}
    /\ current_query_number' = current_query_number /\ number' = number
    /\ active_query' = active_query
    /\ UNCHANGED <<highest_active_query, users, scan, freed_in_use>>
    /\ NobodyNumbered /\ NobodyRemoves

\* The first loop of RemoveTransaction.
Scans(c) ==
    /\ ScanActive(removing'[c])
    /\ current_query_number' = current_query_number /\ number' = number
    /\ active_query' = active_query
    /\ UNCHANGED <<lists, highest_active_query, users, freed_in_use>>
    /\ \A d \in Clients \ {c} : pc'[d] \notin Removing
    /\ NobodyNumbered

\* The rest of it.
Removes(c) ==
    /\ pc[c] \in Removing
    /\ RemoveTransaction(removing[c])
    /\ current_query_number' = current_query_number /\ number' = number
    /\ current_start_timestamp' = current_start_timestamp
    /\ NobodyNumbered /\ NobodyRemoves

\* Continue, EndTransaction and FinalizeQuery give no thread a number, and end queries.
LEMMA NumberedByContinue ==
    ASSUME TypeOK, NEW c \in Clients, NEW target, target # "numbered", Continue(c, target)
    PROVE  NobodyNumbered
BY DEF Continue, PcAfter, TypeOK, NobodyNumbered

LEMMA NumberedByEnd ==
    ASSUME TypeOK, NEW c \in Clients, NEW how \in {"commit", "rollback"}, NEW next,
           EndTransaction(c, how, next)
    PROVE  NobodyNumbered
BY DEF EndTransaction, PcAfter, TypeOK, NobodyNumbered

LEMMA FinalizeEndsQuery ==
    ASSUME TypeOK, NEW c \in Clients, NEW success \in BOOLEAN, NEW next \in {"idle", "ready"},
           FinalizeQuery(c, success, next)
    PROVE  /\ NobodyNumbered
           /\ \A x \in Txns : active_query'[x] \in {active_query[x], NoQuery}
<1>1. NobodyNumbered
    BY NumberedByContinue, NumberedByEnd DEF FinalizeQuery
<1>2. \A x \in Txns : active_query'[x] \in {active_query[x], NoQuery}
    BY DEF FinalizeQuery, TypeOK, NoQuery
<1> QED
    BY <1>1, <1>2

LEMMA UserStepQuiet ==
    ASSUME TypeOK, NEW c \in Clients, CalmUserStep(c)
    PROVE  Quiet(c)
<1>0. Calm(c)
    BY UserStepCalm
<1>1. ASSUME AddConnection(c) \/ DropConnection(c) PROVE Quiet(c)
    BY <1>0, <1>1 DEF AddConnection, DropConnection, queries, TypeOK, Quiet, NobodyNumbered
<1>2. ASSUME StartQuery(c) PROVE Quiet(c)
    BY <1>0, <1>2, FinalizeEndsQuery, NumberedByContinue DEF StartQuery, Quiet
<1>3. ASSUME StartFunction(c) PROVE Quiet(c)
    BY <1>0, <1>3, NumberedByContinue DEF StartFunction, queries, Quiet
<1>4. ASSUME NEW success \in BOOLEAN, CloseResult(c, success) PROVE Quiet(c)
    BY <1>0, <1>4, FinalizeEndsQuery DEF CloseResult, Quiet
<1>5. ASSUME Destroy(c) PROVE Quiet(c)
    <2>1. NobodyNumbered
        BY <1>5, NumberedByContinue, NumberedByEnd DEF Destroy
    <2>2. \A x \in Txns : active_query'[x] \in {active_query[x], NoQuery}
        BY <1>5 DEF Destroy, TypeOK, NoQuery
    <2> QED
        BY <1>0, <1>5, <2>1, <2>2 DEF Destroy, Quiet
<1>6. ASSUME StartStatement(c) PROVE Quiet(c)
    BY <1>0, <1>6, NumberedByContinue DEF StartStatement, queries, Quiet
<1>7. ASSUME TurnAutoCommitOn(c) \/ KeepsTransaction(c) PROVE Quiet(c)
    BY <1>0, <1>7 DEF TurnAutoCommitOn, KeepsTransaction, TurnAutoCommitOff, queries, Quiet,
        NobodyNumbered
<1> QED
    BY <1>1, <1>2, <1>3, <1>4, <1>5, <1>6, <1>7 DEF CalmUserStep

LEMMA CalmStepQuiet ==
    ASSUME TypeOK, NEW c \in Clients, CalmCallStep(c)
    PROVE  Quiet(c) \/ TakesNumber(c) \/ StoresNumber(c)
<1>0. Calm(c)
    BY CalmCallStepCalm
<1>1. ASSUME StartTransactionFails(c) \/ InTransaction(c) \/ RunStream(c) PROVE Quiet(c)
    BY <1>0, <1>1, NumberedByContinue
        DEF StartTransactionFails, InTransaction, AfterBegin, RunStream, queries, Quiet
<1>2. ASSUME GetQueryNumber(c) PROVE TakesNumber(c)
    BY <1>0, <1>2 DEF GetQueryNumber, Continue, PcAfter, TypeOK, TakesNumber
<1>3. ASSUME SetActiveQuery(c) PROVE StoresNumber(c)
    <2>1. NobodyNumbered /\ pc'[c] = "running"
        BY <1>3, NumberedByContinue DEF SetActiveQuery, Continue, PcAfter
    <2> QED
        BY <1>0, <1>3, <2>1 DEF SetActiveQuery, TypeOK, StoresNumber
<1>4. ASSUME Write(c) PROVE Quiet(c)
    BY <1>0, <1>4 DEF Write, queries, Quiet, NobodyNumbered
<1>5. ASSUME NEW success \in BOOLEAN, RunQuery(c, success) PROVE Quiet(c)
    BY <1>0, <1>5, FinalizeEndsQuery DEF RunQuery, Quiet
<1>6. ASSUME NEW success \in BOOLEAN, RunFunction(c, success) PROVE Quiet(c)
    BY <1>0, <1>6, NumberedByContinue, NumberedByEnd DEF RunFunction, queries, Quiet
<1>7. ASSUME RunBegin(c) PROVE Quiet(c)
    BY <1>0, <1>7 DEF RunBegin, PcAfter, TypeOK, Quiet, NobodyNumbered, NoQuery
<1>8. ASSUME NEW how \in {"commit", "rollback"}, RunCommitOrRollback(c, how) PROVE Quiet(c)
    BY <1>0, <1>8, FinalizeEndsQuery, NumberedByEnd DEF RunCommitOrRollback, Quiet
<1>9. ASSUME CommitWantsCheckpoint(c) \/ LockConnections(c) PROVE Quiet(c)
    BY <1>0, <1>9, NumberedByContinue DEF CommitWantsCheckpoint, LockConnections, queries, Quiet
<1>10. ASSUME NEW s \in {"checkpoint", "force_checkpoint"}, BeginCheckpoint(c, s) PROVE Quiet(c)
    BY <1>0, <1>10, FinalizeEndsQuery, NumberedByContinue DEF BeginCheckpoint, Quiet
<1>11. ASSUME NEW d \in Clients, LockClient(c, d) PROVE Quiet(c)
    BY <1>0, <1>11 DEF LockClient, queries, Quiet, NobodyNumbered
<1>12. ASSUME RefuseCheckpoint(c) PROVE Quiet(c)
    BY <1>0, <1>12, FinalizeEndsQuery DEF RefuseCheckpoint, Quiet
<1>13. ASSUME DestroyUnderLock(c) \/ AcceptCheckpoint(c) PROVE Quiet(c)
    BY <1>0, <1>13 DEF DestroyUnderLock, AcceptCheckpoint, OnlyTakesLock, queries, TypeOK, Quiet,
        NobodyNumbered
<1>14. ASSUME NEW success \in BOOLEAN, FinishCheckpoint(c, success) PROVE Quiet(c)
    <2>1. CASE Committing(c)
        <3>0. after[c] # "numbered" /\ pc' = PcAfter(c, after[c])
            BY <1>14, <2>1 DEF FinishCheckpoint, TypeOK
        <3>1. NobodyNumbered
            BY <3>0 DEF PcAfter, NobodyNumbered
        <3> QED
            BY <1>0, <1>14, <2>1, <3>1 DEF FinishCheckpoint, Quiet
    <2>2. CASE ~Committing(c)
        BY <1>0, <1>14, <2>2, FinalizeEndsQuery DEF FinishCheckpoint, Quiet
    <2> QED
        BY <2>1, <2>2
<1> QED
    BY <1>1, <1>2, <1>3, <1>4, <1>5, <1>6, <1>7, <1>8, <1>9, <1>10, <1>11, <1>12, <1>13, <1>14
        DEF CalmCallStep

\* Every step is one of these.
QueryStep(c) ==
    Quiet(c) \/ TakesNumber(c) \/ StoresNumber(c) \/ Starts(c) \/ Scans(c) \/ Removes(c)

LEMMA StepQueries ==
    ASSUME IInv, Next
    PROVE  \E c \in Clients : QueryStep(c)
<1>0. TypeOK /\ LockInv
    BY DEF IInv, CollectInv
<1>1. ASSUME NEW c \in Clients, CalmUserStep(c) PROVE QueryStep(c)
    BY <1>0, <1>1, UserStepQuiet DEF QueryStep
<1>2. ASSUME NEW c \in Clients, CalmCallStep(c) PROVE QueryStep(c)
    BY <1>0, <1>2, CalmStepQuiet DEF QueryStep
<1>3. ASSUME NEW c \in Clients, Begins(c) PROVE QueryStep(c)
    <2>1. \A d \in Clients : pc[d] \notin Locked
        BY <1>3, LockFree DEF Begins, BeginTransaction
    <2>2. NobodyNumbered /\ NobodyRemoves
        BY <1>0, <1>3, <2>1 DEF Begins, TypeOK, NobodyNumbered, NobodyRemoves, Removing, Locked
    <2>3. active_transactions' # {}
        BY <1>3 DEF Begins, BeginTransaction
    <2> QED
        BY <1>3, <2>2, <2>3 DEF Begins, BeginTransaction, TransactionLockFree, auxiliary,
            queries, Starts, QueryStep
<1>4. ASSUME NEW c \in Clients, NEW success \in BOOLEAN, CommitTransaction(c, success)
      PROVE  QueryStep(c)
    <2>1. \A d \in Clients : pc[d] \notin Locked
        BY <1>4, LockFree DEF CommitTransaction
    <2>2. NobodyNumbered /\ removing' = removing
          /\ \A d \in Clients \ {c} : pc'[d] \notin Removing
        BY <1>0, <1>4, <2>1 DEF CommitTransaction, Continue, PcAfter, NobodyNumbered, Removing,
            Locked
    <2> QED
        BY <1>4, <2>2 DEF CommitTransaction, CommitBody, auxiliary, origins, queries, Scans, QueryStep
<1>5. ASSUME NEW c \in Clients, RollbackTransaction(c) PROVE QueryStep(c)
    <2>1. \A d \in Clients : pc[d] \notin Locked
        BY <1>5, LockFree DEF RollbackTransaction
    <2>2. NobodyNumbered /\ removing' = removing
          /\ \A d \in Clients \ {c} : pc'[d] \notin Removing
        BY <1>0, <1>5, <2>1 DEF RollbackTransaction, Continue, PcAfter, NobodyNumbered, Removing,
            Locked
    <2> QED
        BY <1>5, <2>2 DEF RollbackTransaction, auxiliary, origins, objects, queries, Scans, QueryStep
<1>6. ASSUME NEW c \in Clients, NEW success \in BOOLEAN, CommitWithClientsLocked(c, success)
      PROVE  QueryStep(c)
    <2>1. \A d \in Clients : pc[d] \notin Locked
        BY <1>6, LockFree DEF CommitWithClientsLocked, AllClientsLocked
    <2>2. NobodyNumbered /\ removing' = removing
          /\ \A d \in Clients \ {c} : pc'[d] \notin Removing
        <3>1. pc \in [Clients -> PcValues]
            BY <1>0 DEF TypeOK
        <3>2. pc' = PcAfter(c, "remove") \/ pc' = [pc EXCEPT ![c] = "remove"]
            BY <1>6 DEF CommitWithClientsLocked, Continue
        <3>3. removing' = removing
            BY <1>6 DEF CommitWithClientsLocked, Continue
        <3> QED
            BY <2>1, <3>1, <3>2, <3>3 DEF PcAfter, NobodyNumbered, Removing, Locked
    <2> QED
        BY <1>6, <2>2 DEF CommitWithClientsLocked, CommitBody, auxiliary, origins, queries, Scans, QueryStep
<1>7. ASSUME NEW c \in Clients, NEW t \in Txns, ForceRollback(c, t) PROVE QueryStep(c)
    <2>1. \A d \in Clients \ {c} : pc[d] \notin Locked
        BY <1>0, <1>7 DEF ForceRollback, LockInv, Locked
    <2>2. NobodyNumbered /\ removing'[c] = t
          /\ \A d \in Clients \ {c} : pc'[d] \notin Removing
        BY <1>0, <1>7, <2>1 DEF ForceRollback, TypeOK, NobodyNumbered, Removing, Locked
    <2> QED
        BY <1>7, <2>2 DEF ForceRollback, auxiliary, origins, objects, queries, Scans, QueryStep
<1>8. ASSUME NEW c \in Clients, FinishRemove(c) PROVE QueryStep(c)
    <2>1. pc[c] \in Removing /\ \A d \in Clients \ {c} : pc[d] \notin Locked
        BY <1>0, <1>8 DEF FinishRemove, LockInv, Locked, Removing
    <2>2. NobodyNumbered /\ NobodyRemoves
        <3>1. after[c] \notin {"numbered", "remove", "force_remove"}
            BY <1>0 DEF TypeOK
        <3>2. \E target : /\ pc' = [pc EXCEPT ![c] = target]
                          /\ target \notin {"numbered", "remove", "force_remove"}
            BY <1>8, <3>1 DEF FinishRemove
        <3> QED
            BY <1>0, <2>1, <3>2 DEF TypeOK, NobodyNumbered, NobodyRemoves, Removing, Locked
    <2> QED
        BY <1>8, <2>1, <2>2 DEF FinishRemove, timestamps, Removes, QueryStep
<1>9. ASSUME NEW c \in Clients, ForceRemove(c) PROVE QueryStep(c)
    <2>1. pc[c] \in Removing /\ \A d \in Clients \ {c} : pc[d] \notin Locked
        BY <1>0, <1>9 DEF ForceRemove, LockInv, Locked, Removing
    <2>2. NobodyNumbered /\ NobodyRemoves
        BY <1>0, <1>9, <2>1 DEF ForceRemove, TypeOK, NobodyNumbered, NobodyRemoves, Removing,
            Locked
    <2> QED
        BY <1>9, <2>1, <2>2 DEF ForceRemove, timestamps, Removes, QueryStep
<1> QED
    BY <1>0, <1>1, <1>2, <1>3, <1>4, <1>5, <1>6, <1>7, <1>8, <1>9, BeginsTransaction
        DEF Next, UserStep, CalmUserStep, KeepsTransaction, CallStep, CalmCallStep

-----------------------------------------------------------------------------
(***************************************************************************)
(* The parts of the invariant, step by step.                               *)
(***************************************************************************)
LEMMA QueryTypes ==
    ASSUME TypeOK
    PROVE  /\ current_query_number \in Nat /\ NoQuery \in Nat
           /\ \A x \in Txns : /\ active_query[x] \in Nat /\ highest_active_query[x] \in Nat
                              /\ \A q \in users[x] : q \in Nat
           /\ \A c \in Clients : number[c] \in Nat
           /\ scan.active_query \in Nat /\ \A q \in scan.seen : q \in Nat
           /\ active_transactions \subseteq Txns
BY ConstantsAssumption DEF TypeOK, NoQuery

\* What a calm step leaves alone.
LEMMA CalmKeeps ==
    ASSUME NEW c \in Clients, Calm(c)
    PROVE  /\ UNCHANGED <<current_start_timestamp, active_transactions, recently_committed,
                          old_transactions, highest_active_query, users, scan, freed_in_use>>
           /\ \A d \in Clients : pc'[d] \in Removing => /\ pc[d] \in Removing
                                                         /\ removing'[d] = removing[d]
BY DEF Calm, manager, collected, timestamps, lists, objects, auxiliary, origins, Removing

LEMMA QuietStep ==
    ASSUME IInv, RInv, NEW c \in Clients, Quiet(c)
    PROVE  RInv'
<1>0. Calm(c) /\ TypeOK
    BY DEF Quiet, IInv
<1>1. NumberInv'
    BY <1>0, CalmKeeps, QueryTypes DEF Quiet, RInv, NumberInv
<1>2. PendingInv'
    BY <1>0, CalmKeeps, QueryTypes DEF Quiet, NobodyNumbered, RInv, PendingInv
<1>3. SeenInv'
    BY <1>0, CalmKeeps, QueryTypes DEF Quiet, RInv, NumberInv, SeenInv
<1>4. LastInv' /\ NothingRetainedWhenIdle' /\ FreedTransactionsUnused'
    BY <1>0, CalmKeeps DEF RInv, LastInv, NothingRetainedWhenIdle, FreedTransactionsUnused
<1> QED
    BY <1>1, <1>2, <1>3, <1>4 DEF RInv

LEMMA TakesNumberStep ==
    ASSUME IInv, RInv, NEW c \in Clients, TakesNumber(c)
    PROVE  RInv'
<1>0. Calm(c) /\ TypeOK
    BY DEF TakesNumber, IInv
<1>1. NumberInv'
    BY <1>0, CalmKeeps, QueryTypes DEF TakesNumber, RInv, NumberInv
<1>2. PendingInv'
    <2> SUFFICES ASSUME NEW d \in Clients, pc'[d] = "numbered"
                 PROVE  /\ number'[d] < current_query_number'
                        /\ number'[d] \notin scan.seen
                        /\ \A x \in Txns :
                             /\ number'[d] \notin users[x]
                             /\ active_query[x] = NoQuery \/ active_query[x] # number'[d]
                        /\ \A e \in Clients \ {d} : pc'[e] = "numbered" => number'[e] # number'[d]
        BY <1>0, CalmKeeps DEF TakesNumber, PendingInv
    <2>1. CASE d = c
        BY <1>0, <2>1, QueryTypes DEF TakesNumber, RInv, NumberInv, PendingInv
    <2>2. CASE d # c
        BY <1>0, <2>2, QueryTypes DEF TakesNumber, RInv, PendingInv
    <2> QED
        BY <2>1, <2>2
<1>3. SeenInv' /\ LastInv' /\ NothingRetainedWhenIdle' /\ FreedTransactionsUnused'
    BY <1>0, CalmKeeps DEF TakesNumber, RInv, SeenInv, LastInv, NothingRetainedWhenIdle,
        FreedTransactionsUnused
<1> QED
    BY <1>1, <1>2, <1>3 DEF RInv

LEMMA StoresNumberStep ==
    ASSUME IInv, RInv, NEW c \in Clients, StoresNumber(c)
    PROVE  RInv'
<1>0. Calm(c) /\ TypeOK
    BY DEF StoresNumber, IInv
<1>1. NumberInv'
    BY <1>0, CalmKeeps, QueryTypes DEF StoresNumber, RInv, NumberInv, PendingInv
<1>2. PendingInv'
    <2> SUFFICES ASSUME NEW d \in Clients \ {c}, pc'[d] = "numbered"
                 PROVE  /\ number'[d] < current_query_number
                        /\ number'[d] \notin scan.seen
                        /\ \A x \in Txns :
                             /\ number'[d] \notin users[x]
                             /\ active_query'[x] = NoQuery \/ active_query'[x] # number'[d]
                        /\ \A e \in Clients \ {d} : pc'[e] = "numbered" => number'[e] # number'[d]
        BY <1>0, CalmKeeps DEF StoresNumber, PendingInv
    <2>1. pc[d] = "numbered" /\ pc[c] = "numbered" /\ number'[d] = number[d]
        BY DEF StoresNumber, NobodyNumbered
    <2>2. number[c] # number[d]
        BY <2>1 DEF RInv, PendingInv
    <2> QED
        BY <1>0, <2>1, <2>2 DEF StoresNumber, NobodyNumbered, RInv, PendingInv
<1>3. SeenInv'
    <2>1. number[c] \notin scan.seen /\ \A x \in Txns : number[c] \notin users[x]
        BY DEF StoresNumber, RInv, PendingInv
    <2> QED
        BY <1>0, <2>1, CalmKeeps, QueryTypes DEF StoresNumber, RInv, SeenInv
<1>4. LastInv' /\ NothingRetainedWhenIdle' /\ FreedTransactionsUnused'
    BY <1>0, CalmKeeps DEF RInv, LastInv, NothingRetainedWhenIdle, FreedTransactionsUnused
<1> QED
    BY <1>1, <1>2, <1>3, <1>4 DEF RInv

LEMMA StartsStep ==
    ASSUME IInv, RInv, NEW c \in Clients, Starts(c)
    PROVE  RInv'
<1>1. NumberInv' /\ PendingInv' /\ FreedTransactionsUnused'
    BY DEF Starts, NobodyNumbered, RInv, NumberInv, PendingInv, FreedTransactionsUnused
<1>2. SeenInv' /\ LastInv' /\ NothingRetainedWhenIdle'
    BY DEF Starts, NobodyRemoves, SeenInv, LastInv, NothingRetainedWhenIdle
<1> QED
    BY <1>1, <1>2 DEF RInv

LEMMA ScansStep ==
    ASSUME IInv, RInv, NEW c \in Clients, Scans(c)
    PROVE  RInv'
<1> DEFINE t == removing'[c]
           starts == {start_time[a] : a \in Others(t)} \union {TransactionIdStart}
           running == {active_query[a] : a \in Others(t)} \union {MaximumQueryId}
<1>0. TypeOK
    BY DEF IInv
<1>1. PICK st \in starts, q \in running :
        /\ IsLowest(st, starts) /\ IsLowest(q, running)
        /\ scan' = [start_time |-> st, active_query |-> q, seen |-> running \ {MaximumQueryId}]
    BY DEF Scans, ScanActive
<1>2. t \in active_transactions /\ Others(t) = active_transactions \ {t}
    BY DEF Scans, ScanActive, Others
<1>3. /\ scan'.start_time = st /\ scan'.active_query = q
      /\ scan'.seen = running \ {MaximumQueryId}
    BY <1>1
<1>4. \A r \in running : q <= r
    BY <1>1 DEF IsLowest
<1>5. /\ UNCHANGED <<active_transactions, recently_committed, old_transactions, active_query,
                     number, current_query_number, highest_active_query, users, freed_in_use>>
      /\ \A d \in Clients \ {c} : pc'[d] \notin Removing
      /\ NobodyNumbered
    BY DEF Scans, lists
<1>6. \A r \in scan'.seen : /\ r # NoQuery
                            /\ \E a \in active_transactions : r = active_query[a]
    BY <1>2, <1>3 DEF NoQuery
<1>7. NumberInv'
    BY <1>0, <1>5, <1>6, QueryTypes DEF RInv, NumberInv
<1>8. PendingInv'
    <2>1. \A d \in Clients : pc[d] = "numbered" => number[d] \notin scan'.seen
        BY <1>0, <1>6, QueryTypes DEF RInv, PendingInv
    <2> QED
        BY <1>5, <2>1 DEF NobodyNumbered, RInv, PendingInv
<1>9. SeenInv'
    <2>1. \A r \in scan'.seen : scan'.active_query <= r
        BY <1>3, <1>4
    <2>2. \A a \in active_transactions \ {t} : scan'.active_query <= active_query[a]
        BY <1>2, <1>3, <1>4
    <2> QED
        BY <1>5, <2>1, <2>2 DEF SeenInv
<1>10. LastInv'
    <2>1. active_transactions \subseteq {t} => starts = {TransactionIdStart}
        BY <1>2
    <2>2. active_transactions \subseteq {t} => st = TransactionIdStart
        BY <2>1
    <2> QED
        BY <1>3, <1>5, <2>2 DEF LastInv
<1>11. NothingRetainedWhenIdle' /\ FreedTransactionsUnused'
    BY <1>2, <1>5 DEF RInv, NothingRetainedWhenIdle, FreedTransactionsUnused
<1> QED
    BY <1>7, <1>8, <1>9, <1>10, <1>11 DEF RInv

\* What RemoveTransaction frees: transactions whose highest_active_query is below every
\* query its first loop found, or all of them when no other transaction is active.
LEMMA RemovedParts ==
    ASSUME IInv, NEW c \in Clients, Removes(c)
    PROVE  LET t == removing[c]
           IN  /\ t \in active_transactions
               /\ \E n \in 0 .. Len(Recent(t)) : \E m \in 0 .. Len(Old(t, n)) :
                    LET freed == SeqToSet(SubSeq(Old(t, n), 1, m))
                    IN  /\ IsPrefixLength(n, Recent(t), NotRelevant)
                        /\ active_transactions = {t} => m = Len(Old(t, n))
                        /\ active_transactions # {t} =>
                             \A i \in 1 .. m : HighestActiveQuery(t, n)[Old(t, n)[i]] < scan.active_query
                        /\ Collect(t, n, m)
<1> DEFINE t == removing[c]
<1>1. t \in active_transactions
    BY DEF Removes, IInv, CollectInv, ScanInv, Removing
<1>2. RemoveTransaction(t)
    BY DEF Removes
<1>3. PICK n \in 0 .. Len(Recent(t)) :
        /\ IsPrefixLength(n, Recent(t), NotRelevant)
        /\ \E m \in 0 .. Len(Old(t, n)) :
            LET Free(x) == Unused(HighestActiveQuery(t, n)[x])
            IN  /\ IF active_transactions = {t} THEN m = Len(Old(t, n))
                   ELSE IsPrefixLength(m, Old(t, n), Free)
                /\ Collect(t, n, m)
    BY <1>2 DEF RemoveTransaction
<1>4. PICK m \in 0 .. Len(Old(t, n)) :
        /\ active_transactions = {t} => m = Len(Old(t, n))
        /\ active_transactions # {t} =>
             \A i \in 1 .. m : HighestActiveQuery(t, n)[Old(t, n)[i]] < scan.active_query
        /\ Collect(t, n, m)
    BY <1>3 DEF IsPrefixLength, Unused
<1> QED
    BY <1>1, <1>3, <1>4

\* The lists that RemoveTransaction works on.
LEMMA RemovedLists ==
    ASSUME IInv, NEW t \in active_transactions, NEW n \in 0 .. Len(Recent(t)),
           commit_id[t] # 0 => \A i \in 1 .. Len(recently_committed) :
                                    commit_id[recently_committed[i]] < commit_id[t]
    PROVE  /\ Recent(t) \in Seq(Txns) /\ Old(t, n) \in Seq(Txns)
           /\ \A i \in 1 .. Len(Recent(t)) : commit_id[Recent(t)[i]] < current_start_timestamp
           /\ Retired(t, n) \subseteq Txns
<1>0. TypeOK /\ t \in Txns /\ DisjointInv /\ PastInv /\ RecentOrdered
    BY DEF IInv, CollectInv, TypeOK
<1>1. /\ Recent(t) \in Seq(Txns)
      /\ \A i \in 1 .. Len(Recent(t)) : commit_id[Recent(t)[i]] < current_start_timestamp
    BY <1>0, AppendRecent
<1>2. Cleaned(t, n) \in Seq(Txns)
    BY <1>1, Cut DEF Cleaned
<1>3. Aborted(t) \in Seq(Txns)
    BY <1>0 DEF Aborted
<1>4. old_transactions \in Seq(Txns)
    BY <1>0 DEF TypeOK
<1>5. Old(t, n) \in Seq(Txns)
    BY <1>2, <1>3, <1>4, ConcatElements DEF Old
<1>6. Retired(t, n) \subseteq Txns
    BY <1>2, <1>3 DEF Retired, SeqToSet
<1> QED
    BY <1>1, <1>5, <1>6

LEMMA RemovesStep ==
    ASSUME IInv, RInv, NEW c \in Clients, Removes(c)
    PROVE  RInv'
<1> DEFINE t == removing[c]
<1>0. TypeOK /\ t \in active_transactions
    BY RemovedParts DEF IInv
<1>1. PICK n \in 0 .. Len(Recent(t)) : \E m \in 0 .. Len(Old(t, n)) :
        /\ IsPrefixLength(n, Recent(t), NotRelevant)
        /\ active_transactions = {t} => m = Len(Old(t, n))
        /\ active_transactions # {t} =>
             \A i \in 1 .. m : HighestActiveQuery(t, n)[Old(t, n)[i]] < scan.active_query
        /\ Collect(t, n, m)
    BY RemovedParts
<1>2. PICK m \in 0 .. Len(Old(t, n)) :
        /\ IsPrefixLength(n, Recent(t), NotRelevant)
        /\ active_transactions = {t} => m = Len(Old(t, n))
        /\ active_transactions # {t} =>
             \A i \in 1 .. m : HighestActiveQuery(t, n)[Old(t, n)[i]] < scan.active_query
        /\ Collect(t, n, m)
    BY <1>1
<1> DEFINE freed == SeqToSet(SubSeq(Old(t, n), 1, m))
<1>3. /\ Recent(t) \in Seq(Txns) /\ Old(t, n) \in Seq(Txns)
      /\ \A i \in 1 .. Len(Recent(t)) : commit_id[Recent(t)[i]] < current_start_timestamp
      /\ Retired(t, n) \subseteq Txns
    <2>1. commit_id[t] # 0 => \A i \in 1 .. Len(recently_committed) :
                                commit_id[recently_committed[i]] < commit_id[t]
        BY DEF Removes, IInv, CollectInv, ScanInv, Removing
    <2> QED
        BY <1>0, <2>1, RemovedLists
<1>4. \A x \in freed : x \in Txns /\ \E i \in 1 .. m : x = Old(t, n)[i]
    BY <1>3, Cut DEF SeqToSet
<1>5. /\ active_transactions' = active_transactions \ {t}
      /\ recently_committed' = SubSeq(Recent(t), n + 1, Len(Recent(t)))
      /\ old_transactions' = SubSeq(Old(t, n), m + 1, Len(Old(t, n)))
      /\ scan' = NoScan
      /\ freed_in_use' = freed_in_use \union StillRunning(t, n, freed)
    BY <1>2 DEF Collect
<1>6. \A x \in Txns :
        /\ active_query'[x] \in {active_query[x], NoQuery}
        /\ \/ highest_active_query'[x] = 0 /\ users'[x] = {}
           \/ highest_active_query'[x] = current_query_number /\ users'[x] = Running(t)
           \/ highest_active_query'[x] = highest_active_query[x] /\ users'[x] = users[x]
    BY <1>2 DEF Collect, ResetFields, HighestActiveQuery, UsersAfter, NoQuery
<1>7. /\ scan'.seen = {}
      /\ \A q \in Running(t) : q # NoQuery /\ \E a \in active_transactions \ {t} : q = active_query[a]
    BY <1>5 DEF NoScan, Running, NoQuery
<1>8. NumberInv'
    BY <1>0, <1>6, <1>7, QueryTypes DEF Removes, RInv, NumberInv
<1>9. PendingInv'
    BY <1>0, <1>6, <1>7, QueryTypes DEF Removes, NobodyNumbered, RInv, PendingInv
<1>10. SeenInv' /\ LastInv'
    BY DEF Removes, NobodyRemoves, SeenInv, LastInv
<1>11. NothingRetainedWhenIdle'
    <2> SUFFICES ASSUME active_transactions' = {}, current_start_timestamp' <= TransactionIdStart
                 PROVE  recently_committed' = << >> /\ old_transactions' = << >>
        BY DEF NothingRetainedWhenIdle
    <2>1. active_transactions = {t}
        BY <1>0, <1>5
    <2>2. scan.start_time = TransactionIdStart
        BY <2>1 DEF Removes, RInv, LastInv
    <2>3. current_start_timestamp <= TransactionIdStart
        BY DEF Removes
    <2>4. \A i \in 1 .. Len(Recent(t)) : NotRelevant(Recent(t)[i])
        <3> SUFFICES ASSUME NEW i \in 1 .. Len(Recent(t)) PROVE NotRelevant(Recent(t)[i])
            OBVIOUS
        <3>1. Recent(t)[i] \in Txns
            BY <1>3
        <3>2. commit_id[Recent(t)[i]] \in Nat /\ current_start_timestamp \in Nat
            BY <1>0, <3>1 DEF TypeOK
        <3> QED
            BY <1>3, <2>2, <2>3, <3>2, ConstantsAssumption DEF NotRelevant
    <2>5. n = Len(Recent(t))
        <3>1. n < Len(Recent(t)) => ~NotRelevant(Recent(t)[n + 1])
            BY <1>2 DEF IsPrefixLength
        <3>2. Len(Recent(t)) \in Nat
            BY <1>3
        <3>3. n < Len(Recent(t)) => n + 1 \in 1 .. Len(Recent(t))
            BY <3>2
        <3> QED
            BY <2>4, <3>1, <3>2, <3>3
    <2>6. m = Len(Old(t, n))
        BY <1>2, <2>1
    <2> QED
        BY <1>3, <1>5, <2>5, <2>6, Cut, EmptySeq
<1>12. FreedTransactionsUnused'
    <2> SUFFICES ASSUME NEW f \in StillRunning(t, n, freed) PROVE f.late
        BY <1>5 DEF RInv, FreedTransactionsUnused
    <2>1. PICK q \in Running(t), x \in freed :
            /\ q < HighestActiveQuery(t, n)[x]
            /\ f = [query |-> q, late |-> Late(t, n, q, x)]
        <3>1. PICK p \in Running(t) \X freed :
                /\ p[1] < HighestActiveQuery(t, n)[p[2]]
                /\ f = [query |-> p[1], late |-> Late(t, n, p[1], p[2])]
            BY DEF StillRunning
        <3>2. p[1] \in Running(t) /\ p[2] \in freed
            OBVIOUS
        <3> QED
            BY <3>1, <3>2
    <2>2. PICK a \in active_transactions \ {t} : q = active_query[a]
        BY <1>7, <2>1
    <2>3. active_transactions # {t} /\ x \in Txns /\ a \in Txns
        BY <1>0, <1>4, <2>1, <2>2 DEF TypeOK
    <2>4. HighestActiveQuery(t, n)[x] < scan.active_query
        BY <1>2, <1>4, <2>1, <2>3
    <2>5. HighestActiveQuery(t, n)[x] \in Nat /\ q \in Nat /\ scan.active_query \in Nat
        BY <1>0, <2>2, <2>3, QueryTypes DEF HighestActiveQuery
    <2>6. ~(scan.active_query <= q)
        BY <2>1, <2>4, <2>5
    <2>7. q \notin scan.seen /\ q \notin users[x]
        BY <2>2, <2>3, <2>6 DEF Removes, RInv, SeenInv
    <2>8. Late(t, n, q, x)
        BY <2>7 DEF Late
    <2> QED
        BY <2>1, <2>8
<1> QED
    BY <1>8, <1>9, <1>10, <1>11, <1>12 DEF RInv

-----------------------------------------------------------------------------
LEMMA InitRInv == Init => RInv
<1> SUFFICES ASSUME Init PROVE RInv
    OBVIOUS
<1>1. NumberInv
    BY DEF Init, NumberInv, NoQuery, NoScan
<1>2. PendingInv /\ SeenInv /\ LastInv
    BY DEF Init, PendingInv, SeenInv, LastInv, Removing
<1>3. NothingRetainedWhenIdle /\ FreedTransactionsUnused
    BY DEF Init, NothingRetainedWhenIdle, FreedTransactionsUnused
<1> QED
    BY <1>1, <1>2, <1>3 DEF RInv

LEMMA NextRInv == IInv /\ RInv /\ [Next]_vars => RInv'
<1> SUFFICES ASSUME IInv, RInv, [Next]_vars PROVE RInv'
    OBVIOUS
<1>1. CASE UNCHANGED vars
    BY <1>1 DEF vars, manager, collected, timestamps, lists, objects, auxiliary, origins, queries, mutexes,
        contexts, RInv, NumberInv, PendingInv, SeenInv, LastInv, NothingRetainedWhenIdle,
        FreedTransactionsUnused
<1>2. CASE Next
    <2>1. PICK c \in Clients : QueryStep(c)
        BY <1>2, StepQueries
    <2> QED
        BY <2>1, QuietStep, TakesNumberStep, StoresNumberStep, StartsStep, ScansStep, RemovesStep
            DEF QueryStep
<1> QED
    BY <1>1, <1>2

\* The inductive invariant holds: numbers of queries are handed out once, and what the
\* first loop of RemoveTransaction found holds until the rest of it runs, although
\* queries begin and end in between without transaction_lock.
THEOREM Retention == Spec => []RInv
BY Invariance, InitRInv, NextRInv, PTL DEF Spec

\* When no transaction is active RemoveTransaction has cleaned up and freed everything:
\* no memory and no obstacle to a checkpoint is left behind.
THEOREM NothingIsRetained == Spec => []NothingRetainedWhenIdle
BY Retention, PTL DEF RInv

\* When a transaction is freed, every query that took its number before the transaction
\* was retired has ended, unless it stored that number after the freeing call had looked at
\* the active transactions: numbers are taken and stored without transaction_lock.
THEOREM FreedIsUnused == Spec => []FreedTransactionsUnused
BY Retention, PTL DEF RInv

=============================================================================
