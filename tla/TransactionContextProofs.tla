---------------------- MODULE TransactionContextProofs ----------------------
(***************************************************************************)
(* Proofs about the client contexts of module TransactionManager: who      *)
(* holds which mutex, which context owns which transaction, and what a     *)
(* thread finds when it writes a checkpoint.  They hold for any number of  *)
(* connections, transactions and queries.                                  *)
(***************************************************************************)
EXTENDS TransactionManagerProofs

(***************************************************************************)
(* What users do.  Neither hypothesis can be dropped: TLC finds            *)
(* counterexamples of two connections.                                     *)
(***************************************************************************)
\* RunFunctionInTransaction and the calls that run a parsed statement or a relation do not
\* close an open stream result, and begin a transaction in the place of the one the result
\* still uses.  SetAutoCommit(true) leaves a transaction that the next call replaces.
ClosesResults ==
    /\ "autocommit" \notin Statements
    /\ "stream" \notin Statements \/ {"function", "statement"} \intersect Statements = {}

\* The context of a dropped connection is no longer in the list of connections while its
\* transaction is rolled back, so that FORCE CHECKPOINT does not wait for it.
DropsOrForce == "free" \notin Drops \/ "force_checkpoint" \notin Statements

(***************************************************************************)
(* The inductive invariant, besides IInv and RInv.  First, what is true of *)
(* each thread and its context alone.                                      *)
(***************************************************************************)
Begun == {"begun", "numbered", "running", "running_function"}

\* A checkpointing thread after LockClients took connections_lock.
Holding == {"lock_clients", "destroying", "force", "force_remove", "create_checkpoint"}

\* Between the end of a transaction in its context and the return of Commit- or
\* RollbackTransaction.
Waiting == {"commit", "rollback", "lock_connections", "lock_clients"}
Ending == Waiting \union {"remove", "destroying", "create_checkpoint"}

InCall == Begun \union Holding \union Ending \union {"ready", "ready_function"}

\* A call holds the lock of its own context.
CallInv(c) == pc[c] \in InCall <=> context_lock[c] = c

\* The argument of Commit- and RollbackTransaction is no longer the context's.
PlaceInv(c) ==
    /\ removing[c] # NoTxn => \/ pc[c] = "force_remove"
                              \/ pc[c] \in Ending /\ current_transaction[c] = NoTxn
    /\ pc[c] \in {"commit", "rollback"} => removing[c] # NoTxn

AfterInv(c) ==
    /\ after[c] # "idle" => removing[c] # NoTxn /\ pc[c] # "force_remove"
    /\ after[c] = "closed" => pc[c] \in {"rollback", "remove"} /\ "free" \in Drops

\* What runs runs in a transaction, and so does every call while auto-commit is off.
\* A destroyed context has none.
RunsInv(c) ==
    /\ pc[c] \in Begun \/ ~auto_commit[c] => current_transaction[c] # NoTxn
    /\ pc[c] = "closed" => current_transaction[c] = NoTxn

\* A call in auto-commit mode ends its transaction, unless it leaves an open result.
AutoInv(c) ==
    ClosesResults /\ auto_commit[c] /\ current_transaction[c] # NoTxn =>
      pc[c] \in Begun \union Holding \union {"lock_connections"} \/ open_result[c]

OpenInv(c) ==
    open_result[c] =>
      /\ "stream" \in Statements
      /\ ClosesResults => pc[c] \notin {"ready", "ready_function"} /\ after[c] # "ready"

ForceInv(c) == pc[c] \in {"force", "force_remove"} => "force_checkpoint" \in Statements

LocalInv(c) ==
    /\ CallInv(c)
    /\ PlaceInv(c)
    /\ AfterInv(c)
    /\ RunsInv(c)
    /\ AutoInv(c)
    /\ OpenInv(c)
    /\ ForceInv(c)

(***************************************************************************)
(* The mutexes of LockClients.                                             *)
(***************************************************************************)
\* Only the owner of connections_lock locks the contexts of others.
ForeignInv ==
    \A c, d \in Clients : (context_lock[d] = c /\ c # d) => connections_lock = c

HolderInv ==
    \A c \in Clients :
      /\ pc[c] \in Holding => connections_lock = c
      /\ connections_lock = c => pc[c] \in Holding \union {"remove"} /\ after[c] # "closed"
      /\ (connections_lock = c /\ pc[c] # "lock_clients") => to_lock = {}

\* Every other context is locked, will be, or is being or has been destroyed.
CoveredInv ==
    \A c, d \in Clients : (connections_lock = c /\ c # d) =>
      d \in to_lock \/ context_lock[d] = c \/ pc[d] = "closed" \/ after[d] = "closed"

MutexInv ==
    /\ force => "force_checkpoint" \in Statements
    /\ ForeignInv
    /\ HolderInv
    /\ CoveredInv

(***************************************************************************)
(* Who owns the transactions.                                              *)
(***************************************************************************)
\* The transaction c ends.
Ends(c, t) == removing[c] = t /\ pc[c] # "force_remove"

\* A transaction is current in one context, or ended by one thread.
OwnInv ==
    /\ \A c \in Clients : current_transaction[c] # NoTxn =>
         /\ current_transaction[c] \in active_transactions
         /\ \A d \in Clients \ {c} : current_transaction[d] # current_transaction[c]
    /\ \A c \in Clients : (removing[c] # NoTxn /\ pc[c] # "force_remove") =>
         /\ removing[c] < current_transaction_id
         /\ \A d \in Clients : current_transaction[d] # removing[c]
         /\ \A d \in Clients \ {c} : ~Ends(d, removing[c])

\* No active transaction is without an owner, but for the ones a context lost.
OwnedInv ==
    \A t \in active_transactions \ leaked :
      \E c \in Clients : current_transaction[c] = t \/ Ends(c, t)

\* The weak_ptr of a transaction leads to its owner.
OriginInv ==
    \A c \in Clients, t \in active_transactions :
      current_transaction[c] = t \/ Ends(c, t) => context[t] = c

LeakInv == ClosesResults => leaked = {}

\* What a thread is about to commit or roll back is still active.
WaitingInv ==
    DropsOrForce =>
      \A c \in Clients : (pc[c] \in Waiting /\ removing[c] # NoTxn)
                           => removing[c] \in active_transactions

(***************************************************************************)
(* Checkpoints.                                                            *)
(***************************************************************************)
CheckpointInv ==
    \A c \in Clients :
      /\ (pc[c] = "remove" /\ connections_lock = c) => active_transactions \subseteq {removing[c]}
      /\ pc[c] = "create_checkpoint" =>
           /\ active_transactions \subseteq {current_transaction[c]}
           /\ current_start_timestamp <= TransactionIdStart =>
                recently_committed = << >> /\ old_transactions = << >>

CInv ==
    /\ \A c \in Clients : LocalInv(c)
    /\ MutexInv
    /\ OwnInv
    /\ OwnedInv
    /\ WaitingInv
    /\ OriginInv
    /\ LeakInv
    /\ CheckpointInv

-----------------------------------------------------------------------------
(***************************************************************************)
(* The steps, as far as threads and contexts are concerned.                *)
(***************************************************************************)
\* A step of c leaves the threads and contexts of the others alone, but for releasing the
\* ones c had locked.
Apart(c) ==
    \A d \in Clients \ {c} :
      /\ \/ pc'[d] = pc[d]
         \/ pc[d] = "dropped" /\ pc'[d] = "closed" /\ current_transaction[d] = NoTxn
      /\ context_lock'[d] = context_lock[d] \/ (context_lock[d] = c /\ context_lock'[d] = NoClient)
      /\ after'[d] = after[d] /\ removing'[d] = removing[d]
      /\ current_transaction'[d] = current_transaction[d]
      /\ auto_commit'[d] = auto_commit[d] /\ open_result'[d] = open_result[d]

\* The mutexes of LockClients: c keeps what it has, takes them, or releases them.
Keeps(c) ==
    /\ \A d \in Clients \ {c} : /\ pc'[d] = pc[d] /\ after'[d] = after[d]
                                /\ context_lock'[d] = context_lock[d]
    /\ connections_lock' = connections_lock /\ to_lock' = to_lock
    /\ context_lock'[c] \in {c, NoClient, context_lock[c]}
    /\ context_lock[c] \notin {c, NoClient} => context_lock'[c] = context_lock[c]
    /\ pc[c] = "closed" => pc'[c] = "closed" \/ connections_lock = NoClient
    /\ after[c] = "closed" => after'[c] = "closed" \/ pc'[c] = "closed"
    /\ pc'[c] \in Holding => connections_lock = c
    /\ connections_lock = c => /\ pc'[c] \in Holding \union {"remove"} /\ after'[c] # "closed"
                               /\ pc'[c] # "lock_clients" => to_lock = {}
TakesConnections(c) ==
    /\ \A d \in Clients \ {c} : /\ pc'[d] = pc[d] /\ after'[d] = after[d]
                                /\ context_lock'[d] = context_lock[d]
    /\ connections_lock = NoClient /\ connections_lock' = c
    /\ to_lock' = {d \in Clients \ {c} : Alive(d)}
    /\ context_lock'[c] = c /\ pc'[c] = "lock_clients" /\ after'[c] # "closed"
Releases(c) ==
    /\ Apart(c)
    /\ \A d \in Clients \ {c} : context_lock'[d] # c
    /\ connections_lock = c /\ connections_lock' = NoClient
    /\ context_lock'[c] \in {c, NoClient} /\ pc'[c] \notin Holding

\* The transactions: c keeps its own, or moves it to the argument of Commit- or
\* RollbackTransaction.
OwnKept ==
    /\ UNCHANGED <<current_transaction, removing, active_transactions, current_transaction_id>>
    /\ \A d \in Clients : pc'[d] = "force_remove" <=> pc[d] = "force_remove"
    /\ \A d \in Clients : (pc'[d] \in Waiting /\ removing[d] # NoTxn) => pc[d] \in Waiting
EndsOwn(c) ==
    /\ UNCHANGED <<active_transactions, current_transaction_id>>
    /\ Apart(c)
    /\ removing[c] = NoTxn /\ current_transaction[c] # NoTxn
    /\ removing'[c] = current_transaction[c] /\ current_transaction'[c] = NoTxn
    /\ pc'[c] \in {"commit", "rollback"}

\* CommitTransaction returns after a checkpoint.
DropsOwn(c) ==
    /\ UNCHANGED <<current_transaction, active_transactions, current_transaction_id>>
    /\ Apart(c)
    /\ removing[c] \notin active_transactions /\ removing'[c] = NoTxn
    /\ "force_remove" \notin {pc[c], pc'[c]}

\* The contexts of the transactions: only AddConnection changes them.
OriginsKept(c) ==
    /\ leaked' = leaked
    /\ \/ context' = context
       \/ /\ pc[c] = "closed"
          /\ \A t \in Txns : context[t] # c => context'[t] = context[t]

\* A step of c that changes no list and no timestamp, and begins no checkpoint.
CalmContext(c) ==
    /\ Apart(c)
    /\ LocalInv(c)'
    /\ force' => "force_checkpoint" \in Statements
    /\ Keeps(c) \/ TakesConnections(c) \/ Releases(c)
    /\ OwnKept \/ EndsOwn(c) \/ DropsOwn(c)
    /\ pc'[c] # "create_checkpoint"

\* Continue and EndTransaction, field by field.
LEMMA ContinueFields ==
    ASSUME TypeOK, NEW c \in Clients, NEW target, Continue(c, target)
    PROVE  /\ pc'[c] = target
           /\ context_lock'[c] = IF CallOver(target) THEN NoClient ELSE c
           /\ UNCHANGED <<after, removing, current_transaction, auto_commit>>
BY DEF Continue, PcAfter, LocksAfter

EndedHere(c, how, next) ==
    /\ pc'[c] = how /\ context_lock'[c] = c
    /\ after'[c] = next /\ removing'[c] = current_transaction[c]
    /\ current_transaction'[c] = NoTxn /\ auto_commit'[c]
    /\ \A d \in Clients \ {c} :
         /\ after'[d] = after[d] /\ removing'[d] = removing[d]
         /\ current_transaction'[d] = current_transaction[d]
         /\ auto_commit'[d] = auto_commit[d]

LEMMA EndFields ==
    ASSUME TypeOK, NEW c \in Clients, NEW how \in {"commit", "rollback"}, NEW next,
           EndTransaction(c, how, next)
    PROVE  EndedHere(c, how, next)
BY DEF EndTransaction, PcAfter, LocksAfter, CallOver, ClearTransaction, SetAutoCommit, TypeOK,
    EndedHere

\* A thread without connections_lock has locked no other context.
LEMMA NothingToRelease ==
    ASSUME TypeOK, MutexInv, NEW c \in Clients, NEW target, connections_lock # c
    PROVE  \A d \in Clients \ {c} : /\ PcAfter(c, target)[d] = pc[d]
                                    /\ LocksAfter(c, target)[d] = context_lock[d]
BY DEF PcAfter, LocksAfter, MutexInv, ForeignInv, TypeOK

\* Where no checkpoint is under way, neither is connections_lock held.
Free(c) == /\ pc[c] \notin Holding \union {"remove", "closed"}
           /\ context_lock[c] \in {c, NoClient}
           /\ connections_lock' = connections_lock /\ to_lock' = to_lock
           /\ \A d \in Clients \ {c} : open_result'[d] = open_result[d]

LEMMA WalkOn ==
    ASSUME TypeOK, MutexInv, NEW c \in Clients, Free(c),
           NEW target, target \notin Holding, Continue(c, target)
    PROVE  Apart(c) /\ Keeps(c)
<1>1. connections_lock # c
    BY DEF Free, MutexInv, HolderInv
<1>2. \A d \in Clients \ {c} : pc'[d] = pc[d] /\ context_lock'[d] = context_lock[d]
    BY <1>1, NothingToRelease DEF Continue
<1>3. Apart(c)
    BY <1>2, ContinueFields DEF Apart, Free
<1>4. Keeps(c)
    BY <1>1, <1>2, ContinueFields DEF Keeps, Free
<1> QED
    BY <1>3, <1>4

LEMMA WalkEnd ==
    ASSUME TypeOK, MutexInv, NEW c \in Clients, Free(c), after[c] # "closed",
           NEW how \in {"commit", "rollback"}, NEW next, EndTransaction(c, how, next)
    PROVE  Apart(c) /\ Keeps(c)
<1>1. connections_lock # c
    BY DEF Free, MutexInv, HolderInv
<1>2. \A d \in Clients \ {c} : pc'[d] = pc[d] /\ context_lock'[d] = context_lock[d]
    BY <1>1, NothingToRelease DEF EndTransaction
<1>3. EndedHere(c, how, next)
    BY EndFields
<1>4. Apart(c)
    BY <1>2, <1>3 DEF EndedHere, Apart, Free
<1>5. Keeps(c)
    BY <1>1, <1>2, <1>3 DEF EndedHere, Keeps, Free, Holding
<1> QED
    BY <1>4, <1>5

\* The contexts c had locked are free, and the dropped ones among them destroyed.
LEMMA ReleaseFields ==
    ASSUME TypeOK, NEW c \in Clients, NEW target, connections_lock = c,
           pc' = PcAfter(c, target), context_lock' = LocksAfter(c, target),
           DroppedWithTransaction = {}
    PROVE  /\ pc'[c] = target /\ context_lock'[c] = IF CallOver(target) THEN NoClient ELSE c
           /\ \A d \in Clients \ {c} :
                /\ \/ pc'[d] = pc[d]
                   \/ pc[d] = "dropped" /\ pc'[d] = "closed" /\ current_transaction[d] = NoTxn
                /\ context_lock'[d] = context_lock[d]
                     \/ (context_lock[d] = c /\ context_lock'[d] = NoClient)
                /\ context_lock'[d] # c
BY ConstantsAssumption DEF PcAfter, LocksAfter, TypeOK, DroppedWithTransaction

LEMMA Walked ==
    ASSUME TypeOK, MutexInv, NEW c \in Clients, LocalInv(c), Free(c), removing[c] = NoTxn,
           UNCHANGED <<active_transactions, current_transaction_id>>,
           force' => "force_checkpoint" \in Statements,
           NEW target \in Begun \union {"idle", "closed", "ready", "ready_function",
                                        "lock_connections"},
           Continue(c, target),
           target \in Begun => current_transaction[c] # NoTxn,
           target = "closed" => current_transaction[c] = NoTxn,
           (ClosesResults /\ auto_commit[c] /\ current_transaction[c] # NoTxn) =>
             target \in Begun \union {"lock_connections"} \/ open_result'[c],
           open_result'[c] =>
             /\ "stream" \in Statements
             /\ ClosesResults => target \notin {"ready", "ready_function"}
    PROVE  CalmContext(c)
<1>1. target \notin Holding /\ target # "create_checkpoint" /\ target # "force_remove"
    BY DEF Begun, Holding
<1>2. Apart(c) /\ Keeps(c)
    BY <1>1, WalkOn
<1>3. /\ pc'[c] = target /\ context_lock'[c] = IF CallOver(target) THEN NoClient ELSE c
      /\ UNCHANGED <<after, removing, current_transaction, auto_commit>>
    BY ContinueFields
<1>4. after[c] = "idle"
    BY DEF LocalInv, AfterInv
<1>5. CallInv(c)'
    BY <1>3, ConstantsAssumption DEF CallInv, CallOver, InCall, Begun, Holding, Ending, Waiting
<1>6. PlaceInv(c)' /\ AfterInv(c)' /\ ForceInv(c)'
    BY <1>3, <1>4 DEF PlaceInv, AfterInv, ForceInv, Begun
<1>7. RunsInv(c)' /\ AutoInv(c)' /\ OpenInv(c)'
    BY <1>3, <1>4 DEF LocalInv, RunsInv, AutoInv, OpenInv
<1>8. OwnKept
    BY <1>1, <1>2, <1>3 DEF Keeps, OwnKept, Free, Holding
<1> QED
    BY <1>1, <1>2, <1>3, <1>5, <1>6, <1>7, <1>8 DEF CalmContext, LocalInv

LEMMA EndedLocal ==
    ASSUME NEW c \in Clients, NEW how \in {"commit", "rollback"},
           NEW next \in {"idle", "ready", "closed"}, EndedHere(c, how, next),
           current_transaction[c] # NoTxn, LocalInv(c),
           next = "closed" => how = "rollback" /\ "free" \in Drops,
           open_result'[c] => open_result[c] /\ next # "ready"
    PROVE  LocalInv(c)'
<1>1. CallInv(c)' /\ PlaceInv(c)' /\ AfterInv(c)' /\ ForceInv(c)'
    BY DEF EndedHere, CallInv, PlaceInv, AfterInv, ForceInv, InCall, Ending, Waiting
<1>2. RunsInv(c)' /\ AutoInv(c)' /\ OpenInv(c)'
    BY DEF EndedHere, LocalInv, RunsInv, AutoInv, OpenInv, Begun
<1> QED
    BY <1>1, <1>2 DEF LocalInv

LEMMA Ended ==
    ASSUME TypeOK, MutexInv, NEW c \in Clients, LocalInv(c), Free(c), removing[c] = NoTxn,
           UNCHANGED <<active_transactions, current_transaction_id>>,
           force' => "force_checkpoint" \in Statements,
           NEW how \in {"commit", "rollback"}, NEW next \in {"idle", "ready", "closed"},
           EndTransaction(c, how, next), current_transaction[c] # NoTxn,
           next = "closed" => how = "rollback" /\ "free" \in Drops,
           open_result'[c] => open_result[c] /\ next # "ready"
    PROVE  CalmContext(c)
<1>1. EndedHere(c, how, next)
    BY EndFields
<1>2. LocalInv(c)'
    BY <1>1, EndedLocal
<1>3. Apart(c) /\ Keeps(c)
    <2>1. after[c] # "closed"
        BY DEF LocalInv, AfterInv
    <2> QED
        BY <2>1, WalkEnd
<1>4. EndsOwn(c) /\ pc'[c] # "create_checkpoint"
    BY <1>1, <1>3 DEF EndsOwn, EndedHere
<1> QED
    BY <1>2, <1>3, <1>4 DEF CalmContext

LEMMA Finalized ==
    ASSUME TypeOK, MutexInv, NEW c \in Clients, LocalInv(c), Free(c), removing[c] = NoTxn,
           UNCHANGED <<active_transactions, current_transaction_id>>,
           force' => "force_checkpoint" \in Statements,
           NEW success \in BOOLEAN, NEW next \in {"idle", "ready"},
           FinalizeQuery(c, success, next),
           open_result'[c] => open_result[c] /\ next # "ready"
    PROVE  CalmContext(c)
<1>1. CASE current_transaction[c] # NoTxn /\ auto_commit[c]
    <2>1. PICK how \in {"commit", "rollback"} : EndTransaction(c, how, next)
        BY <1>1 DEF FinalizeQuery
    <2> QED
        BY <1>1, <2>1, Ended
<1>2. CASE ~(current_transaction[c] # NoTxn /\ auto_commit[c])
    <2>1. Continue(c, next)
        BY <1>2 DEF FinalizeQuery
    <2>2. next \notin Begun /\ (open_result'[c] => "stream" \in Statements)
        BY DEF Begun, LocalInv, OpenInv
    <2> QED
        BY <1>2, <2>1, <2>2, Walked DEF Begun
<1> QED
    BY <1>1, <1>2

-----------------------------------------------------------------------------
\* The state in which c takes a step.
LEMMA StepFacts ==
    ASSUME IInv, CInv, NEW c \in Clients
    PROVE  /\ TypeOK /\ MutexInv /\ LocalInv(c)
           /\ force => "force_checkpoint" \in Statements
           /\ after[c] = "closed" => pc[c] \in {"rollback", "remove"}
           /\ pc[c] \notin Ending \union {"force_remove"} => removing[c] = NoTxn
           /\ pc[c] \in InCall => context_lock[c] = c
           /\ open_result[c] => "stream" \in Statements
BY DEF IInv, CInv, MutexInv, LocalInv, AfterInv, PlaceInv, CallInv, OpenInv

LEMMA CalmFacts ==
    ASSUME NEW c \in Clients, Calm(c)
    PROVE  UNCHANGED <<active_transactions, current_transaction_id>>
BY DEF Calm, collected, lists, timestamps

LEMMA UserStepContext ==
    ASSUME IInv, CInv, NEW c \in Clients, CalmUserStep(c)
    PROVE  CalmContext(c)
<1>0. /\ TypeOK /\ MutexInv /\ LocalInv(c)
      /\ force => "force_checkpoint" \in Statements
      /\ pc[c] = "idle" => removing[c] = NoTxn
      /\ open_result[c] => "stream" \in Statements
    BY StepFacts DEF Ending, Waiting
<1>a. UNCHANGED <<active_transactions, current_transaction_id>>
    BY <1>0, UserStepCalm, CalmFacts
<1>1. ASSUME AddConnection(c) \/ DropConnection(c) PROVE CalmContext(c)
    <2>1. /\ UNCHANGED <<after, removing, current_transaction, auto_commit, context_lock,
                         open_result, connections_lock, to_lock, force>>
          /\ \A d \in Clients \ {c} : pc'[d] = pc[d]
        BY <1>0, <1>1 DEF AddConnection, DropConnection, contexts, mutexes, TypeOK
    <2>2. \/ pc[c] = "closed" /\ pc'[c] = "idle" /\ connections_lock = NoClient
          \/ pc[c] = "idle" /\ pc'[c] = "dropped" /\ connections_lock # c
        BY <1>0, <1>1 DEF AddConnection, DropConnection, TypeOK, MutexInv, HolderInv, Holding
    <2>3. LocalInv(c)'
        BY <1>0, <2>1, <2>2 DEF LocalInv, CallInv, PlaceInv, AfterInv, RunsInv, AutoInv, OpenInv,
            ForceInv, InCall, Begun, Holding, Ending, Waiting
    <2>4. Apart(c) /\ OwnKept
        BY <2>1, <2>2, <1>a DEF Apart, OwnKept, Waiting
    <2>5. Keeps(c)
        BY <1>0, <2>1, <2>2, ConstantsAssumption DEF Keeps, Holding, LocalInv, AfterInv
    <2> QED
        BY <1>0, <2>1, <2>2, <2>3, <2>4, <2>5 DEF CalmContext
<1>2. ASSUME StartQuery(c) PROVE CalmContext(c)
    <2>1. Free(c) /\ pc[c] = "idle" /\ force' = force /\ ~open_result'[c]
        BY <1>0, <1>2 DEF StartQuery, CloseOpenResult, mutexes, Free, Holding, TypeOK
    <2>2. CASE NeedsCleanup(c)
        <3>1. FinalizeQuery(c, TRUE, "ready")
            BY <1>2, <2>2 DEF StartQuery
        <3> QED
            BY <1>0, <1>a, <2>1, <3>1, Finalized
    <2>3. CASE ~NeedsCleanup(c)
        <3>1. Continue(c, "ready")
            BY <1>2, <2>3 DEF StartQuery
        <3>2. ~(ClosesResults /\ auto_commit[c] /\ current_transaction[c] # NoTxn)
            BY <1>0, <2>1, <2>3 DEF NeedsCleanup, LocalInv, AutoInv, Begun, Holding
        <3> QED
            BY <1>0, <1>a, <2>1, <3>1, <3>2, Walked DEF Begun
    <2> QED
        BY <2>2, <2>3
<1>3. ASSUME StartFunction(c) \/ StartStatement(c) PROVE CalmContext(c)
    <2>1. /\ Free(c) /\ pc[c] = "idle" /\ force' = force /\ open_result' = open_result
          /\ {"function", "statement"} \intersect Statements # {}
        BY <1>0, <1>3 DEF StartFunction, StartStatement, mutexes, Free, Holding
    <2>2. PICK target \in {"ready", "ready_function"} : Continue(c, target)
        BY <1>3 DEF StartFunction, StartStatement
    <2>3. (ClosesResults /\ auto_commit[c] /\ current_transaction[c] # NoTxn) => open_result'[c]
        BY <1>0, <2>1 DEF LocalInv, AutoInv, Begun, Holding
    <2>4. open_result'[c] => "stream" \in Statements /\ ~ClosesResults
        BY <1>0, <2>1 DEF ClosesResults
    <2> QED
        BY <1>0, <1>a, <2>1, <2>2, <2>3, <2>4, Walked DEF Begun
<1>4. ASSUME NEW success \in BOOLEAN, CloseResult(c, success) PROVE CalmContext(c)
    <2>1. /\ Free(c) /\ pc[c] = "idle" /\ force' = force /\ ~open_result'[c]
          /\ FinalizeQuery(c, success, "idle")
        BY <1>0, <1>4 DEF CloseResult, CloseOpenResult, mutexes, Free, Holding, TypeOK
    <2> QED
        BY <1>0, <1>a, <2>1, Finalized
<1>5. ASSUME Destroy(c) PROVE CalmContext(c)
    <2>1. /\ Free(c) /\ pc[c] = "idle" /\ force' = force /\ open_result' = open_result
          /\ ~open_result[c] /\ "free" \in Drops
        BY <1>0, <1>5 DEF Destroy, HeldByCheckpoint, mutexes, Free, Holding, TypeOK
    <2>2. CASE current_transaction[c] # NoTxn
        <3>1. EndTransaction(c, "rollback", "closed")
            BY <1>5, <2>2 DEF Destroy
        <3> QED
            BY <1>0, <1>a, <2>1, <2>2, <3>1, Ended
    <2>3. CASE current_transaction[c] = NoTxn
        <3>1. Continue(c, "closed")
            BY <1>5, <2>3 DEF Destroy
        <3> QED
            BY <1>0, <1>a, <2>1, <2>3, <3>1, Walked DEF Begun
    <2> QED
        BY <2>2, <2>3
<1>6. ASSUME TurnAutoCommitOn(c) \/ KeepsTransaction(c) PROVE CalmContext(c)
    <2>1. /\ UNCHANGED <<pc, after, removing, current_transaction, context_lock,
                         open_result, connections_lock, to_lock, force>>
          /\ pc[c] = "idle" /\ "autocommit" \in Statements
        BY <1>6 DEF TurnAutoCommitOn, KeepsTransaction, TurnAutoCommitOff, mutexes
    <2>2. /\ \A d \in Clients \ {c} : auto_commit'[d] = auto_commit[d]
          /\ auto_commit'[c] \/ current_transaction[c] # NoTxn
        BY <1>0, <1>6 DEF TurnAutoCommitOn, KeepsTransaction, TurnAutoCommitOff, SetAutoCommit,
            TypeOK
    <2>3. connections_lock # c /\ after[c] # "closed"
        BY <1>0, <2>1 DEF MutexInv, HolderInv, Holding, LocalInv, AfterInv
    <2>4. LocalInv(c)'
        BY <1>0, <2>1, <2>2 DEF LocalInv, CallInv, PlaceInv, AfterInv, RunsInv, AutoInv, OpenInv,
            ForceInv, ClosesResults, Begun
    <2>5. Apart(c) /\ OwnKept
        BY <1>a, <2>1, <2>2 DEF Apart, OwnKept
    <2>6. Keeps(c)
        BY <2>1, <2>3 DEF Keeps, Holding
    <2> QED
        BY <1>0, <2>1, <2>4, <2>5, <2>6 DEF CalmContext
<1> QED
    BY <1>1, <1>2, <1>3, <1>4, <1>5, <1>6 DEF CalmUserStep

\* CHECKPOINT ends: its query is finalized and the contexts are released.
LEMMA Refused ==
    ASSUME TypeOK, MutexInv, NEW c \in Clients, LocalInv(c), connections_lock = c,
           removing[c] = NoTxn, after[c] = "idle",
           UNCHANGED <<active_transactions, current_transaction_id, open_result>>,
           connections_lock' = NoClient, ~force', pc[c] # "force_remove",
           DroppedWithTransaction = {},
           NEW success \in BOOLEAN, FinalizeQuery(c, success, "idle")
    PROVE  CalmContext(c)
<1>1. CASE current_transaction[c] # NoTxn /\ auto_commit[c]
    <2>1. PICK how \in {"commit", "rollback"} : EndTransaction(c, how, "idle")
        BY <1>1 DEF FinalizeQuery
    <2>2. EndedHere(c, how, "idle")
        BY <2>1, EndFields
    <2>3. LocalInv(c)'
        BY <1>1, <2>2, EndedLocal
    <2>4. \A d \in Clients \ {c} :
            /\ \/ pc'[d] = pc[d]
               \/ pc[d] = "dropped" /\ pc'[d] = "closed" /\ current_transaction[d] = NoTxn
            /\ context_lock'[d] = context_lock[d]
                 \/ (context_lock[d] = c /\ context_lock'[d] = NoClient)
            /\ context_lock'[d] # c
        BY <2>1, ReleaseFields DEF EndTransaction
    <2>5. Apart(c)
        BY <2>2, <2>4 DEF Apart, EndedHere
    <2>6. Releases(c) /\ EndsOwn(c) /\ pc'[c] # "create_checkpoint"
        BY <1>1, <2>2, <2>4, <2>5 DEF Releases, EndsOwn, EndedHere, Holding
    <2> QED
        BY <2>3, <2>5, <2>6 DEF CalmContext
<1>2. CASE ~(current_transaction[c] # NoTxn /\ auto_commit[c])
    <2>1. Continue(c, "idle")
        BY <1>2 DEF FinalizeQuery
    <2>2. /\ pc'[c] = "idle" /\ context_lock'[c] = NoClient
          /\ UNCHANGED <<after, removing, current_transaction, auto_commit>>
        BY <2>1, ContinueFields DEF CallOver
    <2>3. LocalInv(c)'
        BY <1>2, <2>2, ConstantsAssumption DEF LocalInv, CallInv, PlaceInv, AfterInv, RunsInv,
            AutoInv, OpenInv, ForceInv, InCall, Begun, Holding, Ending, Waiting
    <2>4. \A d \in Clients \ {c} :
            /\ \/ pc'[d] = pc[d]
               \/ pc[d] = "dropped" /\ pc'[d] = "closed" /\ current_transaction[d] = NoTxn
            /\ context_lock'[d] = context_lock[d]
                 \/ (context_lock[d] = c /\ context_lock'[d] = NoClient)
            /\ context_lock'[d] # c
        BY <2>1, ReleaseFields DEF Continue
    <2>5. Apart(c)
        BY <2>2, <2>4 DEF Apart
    <2>6. Releases(c) /\ OwnKept
        BY <2>2, <2>4, <2>5 DEF Releases, OwnKept, Holding, Waiting
    <2> QED
        BY <2>2, <2>3, <2>5, <2>6 DEF CalmContext
<1> QED
    BY <1>1, <1>2

\* The steps of a call that change no list, but for LockClient and AcceptCheckpoint.
PlainCallStep(c) ==
    \/ StartTransactionFails(c)
    \/ InTransaction(c)
    \/ GetQueryNumber(c)
    \/ SetActiveQuery(c)
    \/ Write(c)
    \/ \E success \in BOOLEAN : RunQuery(c, success)
    \/ RunStream(c)
    \/ \E success \in BOOLEAN : RunFunction(c, success)
    \/ RunBegin(c)
    \/ \E how \in {"commit", "rollback"} : RunCommitOrRollback(c, how)
    \/ CommitWantsCheckpoint(c)
    \/ \E s \in {"checkpoint", "force_checkpoint"} : BeginCheckpoint(c, s)
    \/ LockConnections(c)
    \/ RefuseCheckpoint(c)
    \/ DestroyUnderLock(c)
    \/ \E success \in BOOLEAN : FinishCheckpoint(c, success)

LEMMA PlainCallStepContext ==
    ASSUME IInv, CInv, NEW c \in Clients, PlainCallStep(c)
    PROVE  CalmContext(c)
<1>0. /\ TypeOK /\ MutexInv /\ LocalInv(c)
      /\ force => "force_checkpoint" \in Statements
      /\ pc[c] \in Begun \union {"ready", "ready_function"} => removing[c] = NoTxn
      /\ open_result[c] => "stream" \in Statements
      /\ pc[c] \in InCall => context_lock[c] = c
      /\ after[c] = "closed" => pc[c] \in {"rollback", "remove"}
    BY StepFacts DEF Begun, Ending, Waiting
<1>a. UNCHANGED <<active_transactions, current_transaction_id>>
    <2>1. CalmCallStep(c)
        BY DEF PlainCallStep, CalmCallStep
    <2> QED
        BY <1>0, <2>1, CalmCallStepCalm, CalmFacts
<1>b. pc[c] \in Begun => current_transaction[c] # NoTxn /\ context_lock[c] = c /\ removing[c] = NoTxn
    BY <1>0 DEF LocalInv, RunsInv, InCall
<1>1. ASSUME StartTransactionFails(c) PROVE CalmContext(c)
    <2>1. /\ Free(c) /\ force' = force /\ open_result' = open_result /\ Continue(c, "idle")
          /\ pc[c] \in {"ready", "ready_function"}
        BY <1>0, <1>1 DEF StartTransactionFails, mutexes, Free, Holding, InCall
    <2>2. (ClosesResults /\ auto_commit[c] /\ current_transaction[c] # NoTxn) => open_result'[c]
        BY <1>0, <2>1 DEF LocalInv, AutoInv, Begun, Holding
    <2> QED
        BY <1>0, <1>a, <2>1, <2>2, Walked DEF Begun
<1>2. ASSUME InTransaction(c) PROVE CalmContext(c)
    <2>1. /\ Free(c) /\ force' = force /\ open_result' = open_result
          /\ Continue(c, AfterBegin(c)) /\ ~auto_commit[c]
          /\ pc[c] \in {"ready", "ready_function"}
        BY <1>0, <1>2 DEF InTransaction, mutexes, Free, Holding, InCall
    <2>2. current_transaction[c] # NoTxn /\ AfterBegin(c) \in {"begun", "running_function"}
        BY <1>0, <2>1 DEF LocalInv, RunsInv, AfterBegin
    <2> QED
        BY <1>0, <1>a, <2>1, <2>2, Walked DEF Begun
<1>3. ASSUME GetQueryNumber(c) PROVE CalmContext(c)
    <2>1. /\ Free(c) /\ force' = force /\ open_result' = open_result /\ Continue(c, "numbered")
          /\ pc[c] = "begun"
        BY <1>0, <1>3 DEF GetQueryNumber, mutexes, Free, Holding, InCall, Begun
    <2> QED
        BY <1>0, <1>a, <1>b, <2>1, Walked DEF Begun
<1>4. ASSUME SetActiveQuery(c) PROVE CalmContext(c)
    <2>1. /\ Free(c) /\ force' = force /\ open_result' = open_result /\ Continue(c, "running")
          /\ pc[c] = "numbered"
        BY <1>0, <1>4 DEF SetActiveQuery, mutexes, Free, Holding, InCall, Begun
    <2> QED
        BY <1>0, <1>a, <1>b, <2>1, Walked DEF Begun
<1>5. ASSUME Write(c) PROVE CalmContext(c)
    <2>1. /\ UNCHANGED <<pc, after, removing, current_transaction, auto_commit, context_lock,
                         open_result, connections_lock, to_lock, force>>
          /\ pc[c] = "running" /\ connections_lock # c
        BY <1>0, <1>5 DEF Write, mutexes, MutexInv, HolderInv, Holding
    <2>2. LocalInv(c)'
        BY <1>0, <2>1 DEF LocalInv, CallInv, PlaceInv, AfterInv, RunsInv, AutoInv, OpenInv,
            ForceInv
    <2>3. Apart(c) /\ OwnKept /\ Keeps(c)
        BY <1>a, <2>1 DEF Apart, OwnKept, Keeps, Holding
    <2> QED
        BY <1>0, <2>1, <2>2, <2>3 DEF CalmContext
<1>6. ASSUME NEW success \in BOOLEAN, RunQuery(c, success) PROVE CalmContext(c)
    <2>1. /\ Free(c) /\ force' = force /\ open_result' = open_result /\ pc[c] = "running"
          /\ FinalizeQuery(c, success, "idle")
        BY <1>0, <1>6 DEF RunQuery, mutexes, Free, Holding, InCall, Begun
    <2> QED
        BY <1>0, <1>a, <1>b, <2>1, Finalized DEF Begun
<1>7. ASSUME RunStream(c) PROVE CalmContext(c)
    <2>1. /\ Free(c) /\ force' = force /\ open_result'[c] /\ pc[c] = "running"
          /\ Continue(c, "idle") /\ "stream" \in Statements
        BY <1>0, <1>7 DEF RunStream, mutexes, Free, Holding, InCall, Begun, TypeOK
    <2> QED
        BY <1>0, <1>a, <1>b, <2>1, Walked DEF Begun
<1>8. ASSUME NEW success \in BOOLEAN, RunFunction(c, success) PROVE CalmContext(c)
    <2>1. Free(c) /\ force' = force /\ open_result' = open_result /\ pc[c] = "running_function"
        BY <1>0, <1>8 DEF RunFunction, mutexes, Free, Holding, InCall, Begun
    <2>2. CASE auto_commit[c]
        <3>1. PICK how \in {"commit", "rollback"} : EndTransaction(c, how, "idle")
            BY <1>8, <2>2 DEF RunFunction
        <3> QED
            BY <1>0, <1>a, <1>b, <2>1, <3>1, Ended DEF Begun
    <2>3. CASE ~auto_commit[c]
        <3>1. Continue(c, "idle")
            BY <1>8, <2>3 DEF RunFunction
        <3> QED
            BY <1>0, <1>a, <1>b, <2>1, <2>3, <3>1, Walked DEF Begun
    <2> QED
        BY <2>2, <2>3
<1>9. ASSUME RunBegin(c) PROVE CalmContext(c)
    <2>1. /\ UNCHANGED <<after, removing, current_transaction, open_result, connections_lock,
                         to_lock, force>>
          /\ pc[c] = "running" /\ connections_lock # c
        BY <1>0, <1>9 DEF RunBegin, mutexes, MutexInv, HolderInv, Holding
    <2>2. /\ pc'[c] = "idle" /\ context_lock'[c] = NoClient
          /\ \A d \in Clients \ {c} : pc'[d] = pc[d] /\ context_lock'[d] = context_lock[d]
        BY <1>0, <1>9, <2>1, NothingToRelease DEF RunBegin, PcAfter, LocksAfter, CallOver
    <2>3. ~auto_commit'[c] /\ \A d \in Clients \ {c} : auto_commit'[d] = auto_commit[d]
        BY <1>0, <1>9 DEF RunBegin, SetAutoCommit, TypeOK
    <2>4. removing[c] = NoTxn /\ after[c] = "idle" /\ current_transaction[c] # NoTxn
          /\ context_lock[c] = c
        BY <1>0, <1>b, <2>1 DEF LocalInv, AfterInv, Begun
    <2>5. LocalInv(c)'
        BY <1>0, <2>1, <2>2, <2>3, <2>4, ConstantsAssumption DEF LocalInv, CallInv, PlaceInv,
            AfterInv, RunsInv, AutoInv, OpenInv, ForceInv, InCall, Begun, Holding, Ending, Waiting
    <2>6. Apart(c) /\ OwnKept
        BY <1>a, <2>1, <2>2, <2>3 DEF Apart, OwnKept, Waiting
    <2>7. Keeps(c)
        BY <2>1, <2>2, <2>4 DEF Keeps, Holding
    <2> QED
        BY <1>0, <2>1, <2>2, <2>5, <2>6, <2>7 DEF CalmContext
<1>10. ASSUME NEW how \in {"commit", "rollback"}, RunCommitOrRollback(c, how) PROVE CalmContext(c)
    <2>1. Free(c) /\ force' = force /\ open_result' = open_result /\ pc[c] = "running"
        BY <1>0, <1>10 DEF RunCommitOrRollback, mutexes, Free, Holding, InCall, Begun
    <2>2. CASE auto_commit[c]
        <3>1. FinalizeQuery(c, FALSE, "idle")
            BY <1>10, <2>2 DEF RunCommitOrRollback
        <3> QED
            BY <1>0, <1>a, <1>b, <2>1, <3>1, Finalized DEF Begun
    <2>3. CASE ~auto_commit[c]
        <3>1. EndTransaction(c, how, "idle")
            BY <1>10, <2>3 DEF RunCommitOrRollback
        <3> QED
            BY <1>0, <1>a, <1>b, <2>1, <3>1, Ended DEF Begun
    <2> QED
        BY <2>2, <2>3
<1>11. ASSUME CommitWantsCheckpoint(c) PROVE CalmContext(c)
    <2>1. /\ Free(c) /\ force' = force /\ open_result' = open_result /\ pc[c] = "commit"
          /\ Continue(c, "lock_connections")
        BY <1>0, <1>11 DEF CommitWantsCheckpoint, Free, Holding, InCall, Ending, Waiting
    <2>2. Apart(c) /\ Keeps(c)
        BY <1>0, <2>1, WalkOn DEF Holding
    <2>3. /\ pc'[c] = "lock_connections" /\ context_lock'[c] = c
          /\ UNCHANGED <<after, removing, current_transaction, auto_commit>>
        BY <1>0, <2>1, ContinueFields DEF CallOver
    <2>4. LocalInv(c)'
        BY <1>0, <2>1, <2>3 DEF LocalInv, CallInv, PlaceInv, AfterInv, RunsInv, AutoInv, OpenInv,
            ForceInv, InCall, Begun, Holding, Ending, Waiting
    <2>5. OwnKept
        BY <1>a, <2>1, <2>2, <2>3 DEF Keeps, OwnKept, Waiting
    <2> QED
        BY <1>0, <2>1, <2>2, <2>3, <2>4, <2>5 DEF CalmContext
<1>12. ASSUME NEW s \in {"checkpoint", "force_checkpoint"}, BeginCheckpoint(c, s)
       PROVE  CalmContext(c)
    <2>1. /\ Free(c) /\ open_result' = open_result /\ pc[c] = "running"
        BY <1>0, <1>12 DEF BeginCheckpoint, Free, Holding, InCall, Begun
    <2>2. CASE thread_is_checkpointing
        <3>1. FinalizeQuery(c, FALSE, "idle") /\ force' = force
            BY <1>12, <2>2 DEF BeginCheckpoint
        <3> QED
            BY <1>0, <1>a, <1>b, <2>1, <3>1, Finalized DEF Begun
    <2>3. CASE ~thread_is_checkpointing
        <3>1. Continue(c, "lock_connections") /\ (force' => "force_checkpoint" \in Statements)
            BY <1>12, <2>3 DEF BeginCheckpoint
        <3> QED
            BY <1>0, <1>a, <1>b, <2>1, <3>1, Walked DEF Begun
    <2> QED
        BY <2>2, <2>3
<1>13. ASSUME LockConnections(c) PROVE CalmContext(c)
    <2>1. /\ connections_lock = NoClient /\ connections_lock' = c /\ pc[c] = "lock_connections"
          /\ to_lock' = {d \in Clients \ {c} : Alive(d)} /\ Continue(c, "lock_clients")
          /\ force' = force /\ open_result' = open_result
        BY <1>13 DEF LockConnections
    <2>2. /\ pc'[c] = "lock_clients" /\ context_lock'[c] = c
          /\ UNCHANGED <<after, removing, current_transaction, auto_commit>>
        BY <1>0, <2>1, ContinueFields DEF CallOver
    <2>3. \A d \in Clients \ {c} : pc'[d] = pc[d] /\ context_lock'[d] = context_lock[d]
        <3>1. connections_lock # c
            BY <2>1, ConstantsAssumption
        <3> QED
            BY <1>0, <2>1, <3>1, NothingToRelease DEF Continue
    <2>4. LocalInv(c)'
        BY <1>0, <2>1, <2>2 DEF LocalInv, CallInv, PlaceInv, AfterInv, RunsInv, AutoInv, OpenInv,
            ForceInv, InCall, Begun, Holding, Ending, Waiting
    <2>5. Apart(c) /\ OwnKept
        BY <1>a, <2>1, <2>2, <2>3 DEF Apart, OwnKept, Waiting
    <2>6. TakesConnections(c)
        BY <1>0, <2>1, <2>2, <2>3 DEF TakesConnections
    <2> QED
        BY <1>0, <2>1, <2>2, <2>4, <2>5, <2>6 DEF CalmContext
<1>14. ASSUME RefuseCheckpoint(c) PROVE CalmContext(c)
    <2>1. /\ pc[c] = "lock_clients" /\ removing[c] = NoTxn /\ FinalizeQuery(c, FALSE, "idle")
          /\ connections_lock' = NoClient /\ ~force' /\ open_result' = open_result
          /\ DroppedWithTransaction = {}
        BY <1>14 DEF RefuseCheckpoint, AllClientsLocked, Committing, ReleaseClients
    <2>2. connections_lock = c /\ after[c] = "idle"
        BY <1>0, <2>1 DEF MutexInv, HolderInv, Holding, LocalInv, AfterInv
    <2> QED
        BY <1>0, <1>a, <2>1, <2>2, Refused
<1>15. ASSUME DestroyUnderLock(c) PROVE CalmContext(c)
    <2>1. /\ UNCHANGED <<after, removing, current_transaction, auto_commit, context_lock,
                         open_result, connections_lock, to_lock, force>>
          /\ pc[c] = "lock_clients" /\ pc'[c] = "destroying" /\ to_lock = {}
          /\ \A d \in Clients \ {c} : pc'[d] = pc[d]
        BY <1>0, <1>15 DEF DestroyUnderLock, AllClientsLocked, OnlyTakesLock, contexts, TypeOK
    <2>2. connections_lock = c /\ after[c] # "closed"
        BY <1>0, <2>1 DEF MutexInv, HolderInv, Holding
    <2>3. LocalInv(c)'
        BY <1>0, <2>1 DEF LocalInv, CallInv, PlaceInv, AfterInv, RunsInv, AutoInv, OpenInv,
            ForceInv, InCall, Begun, Holding, Ending, Waiting
    <2>4. Apart(c) /\ OwnKept
        BY <1>a, <2>1 DEF Apart, OwnKept, Waiting
    <2>5. Keeps(c)
        BY <2>1, <2>2 DEF Keeps, Holding
    <2> QED
        BY <1>0, <2>1, <2>3, <2>4, <2>5 DEF CalmContext
<1>16. ASSUME NEW success \in BOOLEAN, FinishCheckpoint(c, success) PROVE CalmContext(c)
    <2>1. /\ pc[c] = "create_checkpoint" /\ connections_lock' = NoClient /\ ~force'
          /\ open_result' = open_result
        BY <1>16 DEF FinishCheckpoint, ReleaseClients
    <2>2. connections_lock = c
        BY <1>0, <2>1 DEF MutexInv, HolderInv, Holding
    <2>a. DroppedWithTransaction = {}
        <3>1. active_transactions \subseteq {current_transaction[c]}
            BY <2>1 DEF CInv, CheckpointInv
        <3>2. ASSUME NEW d \in Clients, pc[d] = "dropped" PROVE current_transaction[d] = NoTxn
            BY <2>1, <3>1, <3>2 DEF CInv, OwnInv
        <3> QED
            BY <3>2 DEF DroppedWithTransaction
    <2>3. CASE removing[c] = NoTxn
        <3>1. FinalizeQuery(c, success, "idle") /\ after[c] = "idle"
            BY <1>0, <1>16, <2>3 DEF FinishCheckpoint, Committing, LocalInv, AfterInv
        <3> QED
            BY <1>0, <1>a, <2>1, <2>2, <2>a, <2>3, <3>1, Refused
    <2>4. CASE removing[c] # NoTxn
        <3>1. /\ pc' = PcAfter(c, after[c]) /\ context_lock' = LocksAfter(c, after[c])
              /\ after' = [after EXCEPT ![c] = "idle"]
              /\ removing' = [removing EXCEPT ![c] = NoTxn]
              /\ UNCHANGED <<current_transaction, auto_commit>>
            BY <1>16, <2>4 DEF FinishCheckpoint, Committing
        <3>2. after[c] \in {"idle", "ready"}
            BY <1>0, <2>1 DEF TypeOK
        <3>3. /\ pc'[c] = after[c]
              /\ context_lock'[c] = IF CallOver(after[c]) THEN NoClient ELSE c
              /\ \A d \in Clients \ {c} :
                   /\ \/ pc'[d] = pc[d]
                      \/ pc[d] = "dropped" /\ pc'[d] = "closed" /\ current_transaction[d] = NoTxn
                   /\ context_lock'[d] = context_lock[d]
                        \/ (context_lock[d] = c /\ context_lock'[d] = NoClient)
                   /\ context_lock'[d] # c
            BY <1>0, <2>2, <2>a, <3>1, ReleaseFields
        <3>4. /\ after'[c] = "idle" /\ removing'[c] = NoTxn
              /\ \A d \in Clients \ {c} : after'[d] = after[d] /\ removing'[d] = removing[d]
            BY <1>0, <3>1 DEF TypeOK
        <3>5. current_transaction[c] = NoTxn /\ auto_commit[c]
            BY <1>0, <2>1, <2>4 DEF LocalInv, PlaceInv, RunsInv, TypeOK
        <3>6. LocalInv(c)'
            BY <1>0, <2>1, <3>1, <3>2, <3>3, <3>4, <3>5, ConstantsAssumption DEF LocalInv, CallInv,
                CallOver, PlaceInv, AfterInv, RunsInv, AutoInv, OpenInv, ForceInv, InCall, Begun,
                Holding, Ending, Waiting
        <3>7. Apart(c)
            BY <2>1, <3>1, <3>3, <3>4 DEF Apart
        <3>8. Releases(c)
            BY <2>1, <2>2, <3>2, <3>3, <3>7 DEF Releases, Holding, CallOver
        <3>9. DropsOwn(c)
            <4>1. active_transactions \subseteq {current_transaction[c]}
                BY <2>1 DEF CInv, CheckpointInv
            <4> QED
                BY <1>a, <2>1, <2>4, <3>1, <3>2, <3>3, <3>4, <3>5, <3>7, <4>1 DEF DropsOwn
        <3> QED
            BY <2>1, <3>2, <3>3, <3>6, <3>7, <3>8, <3>9 DEF CalmContext
    <2> QED
        BY <2>3, <2>4
<1> QED
    BY <1>1, <1>2, <1>3, <1>4, <1>5, <1>6, <1>7, <1>8, <1>9, <1>10, <1>11, <1>12, <1>13, <1>14,
       <1>15, <1>16 DEF PlainCallStep

-----------------------------------------------------------------------------
(***************************************************************************)
(* The parts of the invariant, kind by kind.                               *)
(***************************************************************************)
LEMMA LocalKept ==
    ASSUME NEW c \in Clients, \A d \in Clients : LocalInv(d), Apart(c), LocalInv(c)'
    PROVE  \A d \in Clients : LocalInv(d)'
<1> SUFFICES ASSUME NEW d \in Clients \ {c} PROVE LocalInv(d)'
    OBVIOUS
<1>0. LocalInv(d)
    OBVIOUS
<1>1. /\ \/ pc'[d] = pc[d]
         \/ pc[d] = "dropped" /\ pc'[d] = "closed" /\ current_transaction[d] = NoTxn
      /\ context_lock'[d] = context_lock[d] \/ (context_lock[d] = c /\ context_lock'[d] = NoClient)
      /\ after'[d] = after[d] /\ removing'[d] = removing[d]
      /\ current_transaction'[d] = current_transaction[d]
      /\ auto_commit'[d] = auto_commit[d] /\ open_result'[d] = open_result[d]
    BY DEF Apart
<1>2. CallInv(d)'
    BY <1>0, <1>1, ConstantsAssumption
        DEF LocalInv, CallInv, InCall, Begun, Holding, Ending, Waiting
<1>3. PlaceInv(d)' /\ AfterInv(d)' /\ ForceInv(d)'
    BY <1>0, <1>1 DEF LocalInv, PlaceInv, AfterInv, ForceInv, Ending, Waiting
<1>4. RunsInv(d)' /\ AutoInv(d)' /\ OpenInv(d)'
    BY <1>0, <1>1 DEF LocalInv, RunsInv, AutoInv, OpenInv, Begun, Holding
<1> QED
    BY <1>2, <1>3, <1>4 DEF LocalInv

LEMMA KeepsMutexes ==
    ASSUME TypeOK, MutexInv, NEW c \in Clients, Keeps(c),
           force' => "force_checkpoint" \in Statements
    PROVE  MutexInv'
<1>1. ForeignInv'
    BY ConstantsAssumption DEF MutexInv, ForeignInv, Keeps
<1>2. HolderInv'
    BY DEF MutexInv, HolderInv, Keeps
<1>3. CoveredInv'
    BY ConstantsAssumption DEF MutexInv, CoveredInv, Keeps
<1> QED
    BY <1>1, <1>2, <1>3 DEF MutexInv

LEMMA TakesMutexes ==
    ASSUME TypeOK, MutexInv, NEW c \in Clients, TakesConnections(c),
           force' => "force_checkpoint" \in Statements
    PROVE  MutexInv'
<1>0. \A d \in Clients : connections_lock # d
    BY ConstantsAssumption DEF TakesConnections
<1>1. ForeignInv'
    BY <1>0 DEF MutexInv, ForeignInv, TakesConnections
<1>2. HolderInv'
    BY <1>0 DEF MutexInv, HolderInv, TakesConnections, Holding
<1>3. CoveredInv'
    BY <1>0 DEF CoveredInv, TakesConnections, Alive
<1> QED
    BY <1>1, <1>2, <1>3 DEF MutexInv

LEMMA ReleasesMutexes ==
    ASSUME TypeOK, MutexInv, NEW c \in Clients, Releases(c),
           force' => "force_checkpoint" \in Statements
    PROVE  MutexInv'
<1>0. \A d \in Clients : connections_lock' # d
    BY ConstantsAssumption DEF Releases
<1>1. ForeignInv'
    BY ConstantsAssumption DEF MutexInv, ForeignInv, Releases, Apart
<1>2. HolderInv'
    <2> SUFFICES ASSUME NEW d \in Clients PROVE pc'[d] \notin Holding
        BY <1>0 DEF HolderInv
    <2>1. CASE d = c
        BY <2>1 DEF Releases
    <2>2. CASE d # c
        <3>1. pc[d] \notin Holding
            BY <2>2 DEF MutexInv, HolderInv, Releases
        <3> QED
            BY <2>2, <3>1 DEF Releases, Apart, Holding
    <2> QED
        BY <2>1, <2>2
<1>3. CoveredInv'
    BY <1>0 DEF CoveredInv
<1> QED
    BY <1>1, <1>2, <1>3 DEF MutexInv

OwnersInv == OwnInv /\ OwnedInv /\ WaitingInv /\ OriginInv /\ LeakInv

\* What is current or waits to be ended was handed out.
LEMMA OwnTypes ==
    ASSUME IInv, OwnInv
    PROVE  /\ current_transaction_id \in Nat /\ NoTxn \notin Txns /\ Txns \subseteq Nat
           /\ active_transactions \subseteq Txns
           /\ \A t \in active_transactions : t < current_transaction_id
           /\ \A d \in Clients : /\ current_transaction[d] \in Txns \union {NoTxn}
                                 /\ removing[d] \in Txns \union {NoTxn}
           /\ \A d \in Clients : current_transaction[d] # NoTxn =>
                                   current_transaction[d] < current_transaction_id
<1>1. /\ current_transaction_id \in Nat /\ NoTxn \notin Txns /\ Txns \subseteq Nat
      /\ active_transactions \subseteq Txns
      /\ \A d \in Clients : /\ current_transaction[d] \in Txns \union {NoTxn}
                            /\ removing[d] \in Txns \union {NoTxn}
    <2>1. NoTxn \notin Txns /\ Txns \subseteq Nat
        BY ConstantsAssumption DEF Txns
    <2>2. /\ current_transaction_id \in Nat /\ active_transactions \in SUBSET Txns
          /\ current_transaction \in [Clients -> Txns \union {NoTxn}]
          /\ removing \in [Clients -> Txns \union {NoTxn}]
        BY DEF IInv, TypeOK
    <2> QED
        BY <2>1, <2>2
<1>2. \A t \in active_transactions : t < current_transaction_id
    <2> SUFFICES ASSUME NEW t \in active_transactions PROVE t < current_transaction_id
        OBVIOUS
    <2>1. t \in Txns /\ t \in Nat /\ ~(t >= current_transaction_id)
        BY <1>1 DEF IInv, CollectInv, FreshInv
    <2> QED
        BY <1>1, <2>1
<1> QED
    BY <1>1, <1>2 DEF OwnInv

\* Calm steps leave the weak_ptrs alone, but for those to a destroyed context.
LEMMA UserOrigins ==
    ASSUME NEW c \in Clients, CalmUserStep(c)
    PROVE  OriginsKept(c)
<1>1. CASE AddConnection(c)
    BY <1>1 DEF AddConnection, OriginsKept
<1>2. CASE ~AddConnection(c)
    <2>1. UNCHANGED manager
        BY <1>2 DEF CalmUserStep, StartQuery, StartFunction, StartStatement, TurnAutoCommitOn,
            KeepsTransaction, TurnAutoCommitOff, CloseResult, Destroy, DropConnection
    <2> QED
        BY <2>1 DEF manager, origins, OriginsKept
<1> QED
    BY <1>1, <1>2

LEMMA CallOrigins ==
    ASSUME NEW c \in Clients, PlainCallStep(c)
    PROVE  OriginsKept(c)
<1>1. UNCHANGED manager
    BY DEF PlainCallStep, StartTransactionFails, InTransaction, GetQueryNumber, SetActiveQuery,
        Write, RunQuery, RunStream, RunFunction, RunBegin, RunCommitOrRollback,
        CommitWantsCheckpoint, BeginCheckpoint, LockConnections, RefuseCheckpoint,
        DestroyUnderLock, OnlyTakesLock, FinishCheckpoint
<1> QED
    BY <1>1 DEF manager, origins, OriginsKept

\* A transaction that keeps its owner keeps the weak_ptr to it.
LEMMA OriginsStay ==
    ASSUME IInv, OwnInv, OriginInv, LeakInv, NEW c \in Clients, LocalInv(c), OriginsKept(c),
           active_transactions' = active_transactions,
           \A d \in Clients, t \in active_transactions :
             current_transaction'[d] = t \/ (removing'[d] = t /\ pc'[d] # "force_remove") =>
               current_transaction[d] = t \/ Ends(d, t)
    PROVE  OriginInv' /\ LeakInv'
<1>1. LeakInv'
    BY DEF LeakInv, OriginsKept
<1>2. OriginInv'
    <2> SUFFICES ASSUME NEW d \in Clients, NEW t \in active_transactions,
                        current_transaction[d] = t \/ Ends(d, t)
                 PROVE  context'[t] = d
        BY DEF OriginInv, Ends
    <2>1. context[t] = d /\ t \in Txns /\ t # NoTxn
        BY OwnTypes DEF OriginInv
    <2>2. pc[c] = "closed" => d # c
        BY <2>1 DEF LocalInv, RunsInv, PlaceInv, Ends, Ending, Waiting
    <2> QED
        BY <2>1, <2>2 DEF OriginsKept
<1> QED
    BY <1>1, <1>2

LEMMA OwnKeptOwners ==
    ASSUME IInv, OwnersInv, OwnKept, NEW c \in Clients, LocalInv(c), OriginsKept(c)
    PROVE  OwnersInv'
<1>1. OwnInv'
    BY DEF OwnersInv, OwnInv, OwnKept, Ends
<1>2. OwnedInv'
    BY DEF OwnersInv, OwnedInv, OwnKept, Ends, OriginsKept
<1>3. WaitingInv'
    BY DEF OwnersInv, WaitingInv, OwnKept
<1>4. OriginInv' /\ LeakInv'
    BY OriginsStay DEF OwnersInv, OwnKept, Ends
<1> QED
    BY <1>1, <1>2, <1>3, <1>4 DEF OwnersInv

LEMMA EndsOwnOwners ==
    ASSUME IInv, OwnersInv, NEW c \in Clients, EndsOwn(c), pc[c] # "force_remove", LocalInv(c),
           OriginsKept(c)
    PROVE  OwnersInv'
<1>0. OwnInv
    BY DEF OwnersInv
<1>a. /\ \A d \in Clients \ {c} :
           /\ removing'[d] = removing[d] /\ current_transaction'[d] = current_transaction[d]
           /\ pc'[d] = "force_remove" <=> pc[d] = "force_remove"
           /\ pc'[d] \in Waiting <=> pc[d] \in Waiting
      /\ UNCHANGED <<active_transactions, current_transaction_id>>
      /\ removing[c] = NoTxn /\ current_transaction[c] # NoTxn
      /\ removing'[c] = current_transaction[c] /\ current_transaction'[c] = NoTxn
      /\ pc'[c] # "force_remove"
    BY DEF EndsOwn, Apart, Waiting
<1>1. OwnInv'
    BY <1>0, <1>a, OwnTypes DEF OwnInv, Ends
<1>2. OwnedInv'
    BY <1>a, OwnTypes, <1>0 DEF OwnersInv, OwnedInv, Ends, OriginsKept
<1>3. WaitingInv'
    BY <1>0, <1>a DEF OwnersInv, OwnInv, WaitingInv
<1>4. OriginInv' /\ LeakInv'
    BY <1>0, <1>a, OriginsStay, OwnTypes DEF OwnersInv, Ends
<1> QED
    BY <1>1, <1>2, <1>3, <1>4 DEF OwnersInv

LEMMA DropsOwnOwners ==
    ASSUME IInv, OwnersInv, NEW c \in Clients, DropsOwn(c), LocalInv(c), OriginsKept(c)
    PROVE  OwnersInv'
<1>0. OwnInv
    BY DEF OwnersInv
<1>a. /\ \A d \in Clients \ {c} :
           /\ removing'[d] = removing[d]
           /\ pc'[d] = "force_remove" <=> pc[d] = "force_remove"
           /\ pc'[d] \in Waiting <=> pc[d] \in Waiting
      /\ UNCHANGED <<current_transaction, active_transactions, current_transaction_id>>
      /\ removing[c] \notin active_transactions /\ removing'[c] = NoTxn
      /\ pc'[c] # "force_remove"
    BY DEF DropsOwn, Apart, Waiting
<1>1. OwnInv'
    BY <1>0, <1>a DEF OwnInv, Ends
<1>2. OwnedInv'
    BY <1>a DEF OwnersInv, OwnedInv, Ends, OriginsKept
<1>3. WaitingInv'
    BY <1>a DEF OwnersInv, WaitingInv
<1>4. OriginInv' /\ LeakInv'
    BY <1>0, <1>a, OriginsStay, OwnTypes DEF OwnersInv, Ends
<1> QED
    BY <1>1, <1>2, <1>3, <1>4 DEF OwnersInv

\* Calm steps begin no checkpoint and remove nothing.
LEMMA CalmCheckpoint ==
    ASSUME TypeOK, NEW c \in Clients, Calm(c), CalmContext(c), CheckpointInv
    PROVE  CheckpointInv'
<1> SUFFICES ASSUME NEW d \in Clients
             PROVE  /\ (pc'[d] = "remove" /\ connections_lock' = d) =>
                         active_transactions' \subseteq {removing'[d]}
                    /\ pc'[d] = "create_checkpoint" =>
                         /\ active_transactions' \subseteq {current_transaction'[d]}
                         /\ current_start_timestamp' <= TransactionIdStart =>
                              recently_committed' = << >> /\ old_transactions' = << >>
    BY DEF CheckpointInv
<1>1. UNCHANGED <<active_transactions, recently_committed, old_transactions,
                  current_start_timestamp>>
    BY CalmKeeps
<1>2. CASE d = c
    BY <1>2 DEF Calm, CalmContext, Removing
<1>3. CASE d # c
    <2>1. /\ pc'[d] \in {"remove", "create_checkpoint"} => pc'[d] = pc[d]
          /\ removing'[d] = removing[d] /\ current_transaction'[d] = current_transaction[d]
        BY <1>3 DEF CalmContext, Apart
    <2>2. connections_lock' = d => connections_lock = d
        BY <1>3, ConstantsAssumption DEF CalmContext, Keeps, TakesConnections, Releases
    <2> QED
        BY <1>1, <2>1, <2>2 DEF CheckpointInv
<1> QED
    BY <1>2, <1>3

LEMMA CalmStepInv ==
    ASSUME IInv, CInv, NEW c \in Clients, Calm(c), CalmContext(c), OriginsKept(c)
    PROVE  CInv'
<1>0. TypeOK /\ MutexInv /\ OwnersInv /\ CheckpointInv /\ \A d \in Clients : LocalInv(d)
    BY DEF IInv, CInv, OwnersInv
<1>1. \A d \in Clients : LocalInv(d)'
    BY <1>0, LocalKept DEF CalmContext
<1>2. MutexInv'
    BY <1>0, KeepsMutexes, TakesMutexes, ReleasesMutexes DEF CalmContext
<1>3. OwnersInv'
    <2>1. pc[c] # "force_remove"
        BY DEF Calm, Removing
    <2> QED
        BY <1>0, <2>1, OwnKeptOwners, EndsOwnOwners, DropsOwnOwners DEF CalmContext
<1>4. CheckpointInv'
    BY <1>0, CalmCheckpoint
<1> QED
    BY <1>1, <1>2, <1>3, <1>4 DEF CInv, OwnersInv

-----------------------------------------------------------------------------
(***************************************************************************)
(* The other steps.                                                        *)
(***************************************************************************)
\* When c holds every mutex the other threads are out of their calls, but for those that
\* roll back the transaction of a dropped connection.
LEMMA OthersOut ==
    ASSUME LockInv, \A d \in Clients : LocalInv(d), MutexInv, NEW c \in Clients,
           connections_lock = c, to_lock = {}, pc[c] \in Locked \/ transaction_lock = NoClient,
           NEW d \in Clients \ {c}
    PROVE  \/ pc[d] \notin InCall
           \/ pc[d] = "rollback" /\ "free" \in Drops
<1>1. context_lock[d] = c \/ pc[d] = "closed" \/ after[d] = "closed"
    BY DEF MutexInv, CoveredInv
<1>2. context_lock[d] = c => pc[d] \notin InCall
    BY DEF LocalInv, CallInv
<1>3. pc[d] = "closed" => pc[d] \notin InCall
    BY DEF InCall, Begun, Holding, Ending, Waiting
<1>4. pc[d] # "remove"
    BY ConstantsAssumption DEF LockInv, Locked
<1>5. after[d] = "closed" => pc[d] = "rollback" /\ "free" \in Drops
    BY <1>4 DEF LocalInv, AfterInv
<1> QED
    BY <1>1, <1>2, <1>3, <1>5

LEMMA LockClientInv ==
    ASSUME IInv, CInv, NEW c \in Clients, NEW e \in Clients, LockClient(c, e)
    PROVE  CInv'
<1>0. TypeOK /\ MutexInv /\ OwnersInv /\ CheckpointInv /\ \A d \in Clients : LocalInv(d)
    BY DEF IInv, CInv, OwnersInv
<1>1. /\ pc[c] = "lock_clients" /\ context_lock[e] = NoClient /\ to_lock' = to_lock \ {e}
      /\ UNCHANGED <<connections_lock, current_transaction, auto_commit, open_result, pc, after,
                     removing, force>>
      /\ UNCHANGED <<active_transactions, current_transaction_id, recently_committed,
                     old_transactions, current_start_timestamp>>
      /\ OriginsKept(c)
    BY DEF LockClient, manager, collected, timestamps, lists, origins, OriginsKept
<1>2. context_lock'[e] = c /\ \A d \in Clients \ {e} : context_lock'[d] = context_lock[d]
    BY <1>0 DEF LockClient, TypeOK
<1>3. connections_lock = c /\ e # c /\ pc[e] \notin InCall
    <2>1. connections_lock = c
        BY <1>0, <1>1 DEF MutexInv, HolderInv, Holding
    <2>2. context_lock[c] = c
        BY <1>0, <1>1 DEF LocalInv, CallInv, InCall, Holding
    <2>3. e # c
        BY <1>1, <2>2, ConstantsAssumption
    <2> QED
        BY <1>0, <1>1, <2>1, <2>3, ConstantsAssumption DEF LocalInv, CallInv
<1>4. \A d \in Clients : LocalInv(d)'
    <2> SUFFICES ASSUME NEW d \in Clients PROVE LocalInv(d)'
        OBVIOUS
    <2>1. CallInv(d)'
        BY <1>0, <1>1, <1>2, <1>3 DEF LocalInv, CallInv
    <2> QED
        BY <1>0, <1>1, <2>1 DEF LocalInv, PlaceInv, AfterInv, RunsInv, AutoInv, OpenInv, ForceInv
<1>5. MutexInv'
    <2>1. ForeignInv'
        BY <1>0, <1>1, <1>2, <1>3 DEF MutexInv, ForeignInv
    <2>2. HolderInv'
        BY <1>0, <1>1, <1>3 DEF MutexInv, HolderInv
    <2>3. CoveredInv'
        BY <1>0, <1>1, <1>2, <1>3 DEF MutexInv, CoveredInv
    <2> QED
        BY <1>0, <1>1, <2>1, <2>2, <2>3 DEF MutexInv
<1>6. OwnersInv'
    BY <1>0, <1>1, OwnKeptOwners DEF OwnKept
<1>7. CheckpointInv'
    BY <1>0, <1>1 DEF CheckpointInv
<1> QED
    BY <1>4, <1>5, <1>6, <1>7 DEF CInv, OwnersInv

\* The locked clients are not touched when c begins to write or to roll back.
LEMMA AcceptCheckpointInv ==
    ASSUME IInv, CInv, NEW c \in Clients, AcceptCheckpoint(c)
    PROVE  CInv'
<1>0. /\ TypeOK /\ LockInv /\ MutexInv /\ OwnersInv /\ CheckpointInv
      /\ \A d \in Clients : LocalInv(d)
    BY DEF IInv, CollectInv, CInv, OwnersInv
<1>1. /\ pc[c] = "lock_clients" /\ to_lock = {} /\ transaction_lock = NoClient
      /\ removing[c] = NoTxn
      /\ UNCHANGED <<connections_lock, current_transaction, auto_commit, open_result, after,
                     context_lock, removing, to_lock, force>>
      /\ UNCHANGED <<active_transactions, current_transaction_id, recently_committed,
                     old_transactions, current_start_timestamp>>
      /\ OriginsKept(c)
    BY DEF AcceptCheckpoint, AllClientsLocked, TransactionLockFree, Committing, OnlyTakesLock,
        manager, collected, timestamps, lists, contexts, origins, OriginsKept
<1>2. /\ \A d \in Clients \ {c} : pc'[d] = pc[d]
      /\ \/ pc'[c] = "create_checkpoint" /\ CanCheckpoint(current_transaction[c])
         \/ pc'[c] = "force" /\ force
    BY <1>0 DEF AcceptCheckpoint, CheckpointRefused, OnlyTakesLock, TypeOK
<1>3. connections_lock = c /\ after[c] # "closed"
    BY <1>0, <1>1 DEF MutexInv, HolderInv, Holding
<1>4. LocalInv(c)'
    BY <1>0, <1>1, <1>2 DEF MutexInv, LocalInv, CallInv, PlaceInv, AfterInv, RunsInv, AutoInv,
        OpenInv, ForceInv, InCall, Begun, Holding, Ending, Waiting
<1>5. Apart(c) /\ OwnKept
    BY <1>1, <1>2 DEF Apart, OwnKept, Waiting
<1>6. Keeps(c)
    BY <1>1, <1>2, <1>3 DEF Keeps, Holding
<1>7. \A d \in Clients : LocalInv(d)'
    BY <1>0, <1>4, <1>5, LocalKept
<1>8. MutexInv'
    BY <1>0, <1>1, <1>6, KeepsMutexes DEF MutexInv
<1>9. OwnersInv'
    BY <1>0, <1>1, <1>5, OwnKeptOwners
<1>10. CheckpointInv'
    <2>1. \A d \in Clients \ {c} : pc'[d] \notin {"remove", "create_checkpoint"}
        BY <1>0, <1>1, <1>2, ConstantsAssumption DEF LockInv, Locked
    <2>2. pc'[c] # "remove"
        BY <1>2
    <2>3. pc'[c] = "create_checkpoint" =>
            /\ active_transactions \subseteq {current_transaction[c]}
            /\ recently_committed = << >> /\ old_transactions = << >>
        BY <1>2 DEF CanCheckpoint
    <2> QED
        BY <1>1, <2>1, <2>2, <2>3 DEF CheckpointInv
<1> QED
    BY <1>7, <1>8, <1>9, <1>10 DEF CInv, OwnersInv

\* A new transaction belongs to the context that began it.
LEMMA StartTransactionInv ==
    ASSUME IInv, CInv, NEW c \in Clients,
           StartTransaction(c) \/ (TurnAutoCommitOff(c) /\ current_transaction[c] = NoTxn)
    PROVE  CInv'
<1>0. /\ TypeOK /\ LockInv /\ MutexInv /\ OwnersInv /\ CheckpointInv /\ OwnInv
      /\ \A d \in Clients : LocalInv(d)
    BY DEF IInv, CollectInv, CInv, OwnersInv
<1> DEFINE t == current_transaction_id
<1>a. BeginTransaction(c)
    BY DEF StartTransaction, TurnAutoCommitOff
<1>1. /\ pc[c] \in {"idle", "ready", "ready_function"} /\ transaction_lock = NoClient
      /\ auto_commit[c]
      /\ UNCHANGED <<connections_lock, open_result, after, context_lock, removing, to_lock, force>>
      /\ active_transactions' = active_transactions \union {t}
      /\ current_transaction_id' = t + 1
      /\ leaked' = leaked \union ({current_transaction[c]} \ {NoTxn})
    BY <1>a DEF BeginTransaction, StartTransaction, TurnAutoCommitOff, TransactionLockFree, mutexes
<1>2. /\ \A d \in Clients \ {c} : /\ pc'[d] = pc[d] /\ auto_commit'[d] = auto_commit[d]
                                  /\ current_transaction'[d] = current_transaction[d]
      /\ current_transaction'[c] = t
      /\ \/ /\ pc[c] \in {"ready", "ready_function"} /\ pc'[c] \in {"begun", "running_function"}
            /\ auto_commit'[c]
         \/ /\ pc[c] = "idle" /\ pc'[c] = "idle" /\ ~auto_commit'[c]
            /\ current_transaction[c] = NoTxn
    BY <1>0, <1>a DEF BeginTransaction, StartTransaction, TurnAutoCommitOff, AfterBegin,
        SetAutoCommit, TypeOK
<1>3. /\ t \in Nat /\ t # NoTxn /\ t \notin active_transactions
      /\ \A d \in Clients : current_transaction[d] # t
      /\ \A d \in Clients : (removing[d] # NoTxn /\ pc[d] # "force_remove") => removing[d] # t
    <2>1. t \in Nat /\ t # NoTxn
        BY <1>0, ConstantsAssumption DEF TypeOK
    <2>2. \A d \in Clients : current_transaction[d] \in Txns \union {NoTxn}
                             /\ removing[d] \in Txns \union {NoTxn}
        BY <1>0, OwnTypes
    <2> QED
        BY <1>0, <2>1, <2>2, OwnTypes DEF OwnInv
<1>4. /\ connections_lock # c /\ removing[c] = NoTxn /\ after[c] = "idle"
      /\ pc[c] # "idle" => context_lock[c] = c
    BY <1>0, <1>1 DEF MutexInv, HolderInv, LocalInv, PlaceInv, AfterInv, CallInv, InCall, Begun,
        Holding, Ending, Waiting
<1>5. LocalInv(c)'
    BY <1>0, <1>1, <1>2, <1>3, <1>4 DEF LocalInv, CallInv, PlaceInv, AfterInv, RunsInv, AutoInv,
        OpenInv, ForceInv, InCall, Begun
<1>6. Apart(c)
    BY <1>1, <1>2 DEF Apart
<1>7. Keeps(c)
    BY <1>1, <1>2, <1>4 DEF Keeps, Holding
<1>8. \A d \in Clients : LocalInv(d)'
    BY <1>0, <1>5, <1>6, LocalKept
<1>9. MutexInv'
    BY <1>0, <1>1, <1>7, KeepsMutexes DEF MutexInv
<1>10. OwnInv'
    <2>1. \A d \in Clients : pc'[d] = "force_remove" <=> pc[d] = "force_remove"
        BY <1>1, <1>2
    <2>2. ASSUME NEW d \in Clients, current_transaction'[d] # NoTxn
          PROVE  /\ current_transaction'[d] \in active_transactions'
                 /\ \A e \in Clients \ {d} : current_transaction'[e] # current_transaction'[d]
        BY <1>0, <1>1, <1>2, <1>3, <2>2 DEF OwnInv
    <2>3. ASSUME NEW d \in Clients, removing'[d] # NoTxn, pc'[d] # "force_remove"
          PROVE  /\ removing'[d] < current_transaction_id'
                 /\ \A e \in Clients : current_transaction'[e] # removing'[d]
                 /\ \A e \in Clients \ {d} : ~(removing'[e] = removing'[d] /\ pc'[e] # "force_remove")
        <3>1. removing[d] # NoTxn /\ pc[d] # "force_remove" /\ removing'[d] = removing[d]
            BY <1>1, <2>1, <2>3
        <3>2. removing[d] < t /\ removing[d] \in Nat
            BY <1>0, <3>1, OwnTypes DEF OwnInv
        <3>3. removing'[d] < current_transaction_id'
            BY <1>1, <1>3, <3>1, <3>2
        <3>4. \A e \in Clients : current_transaction'[e] # removing'[d]
            BY <1>0, <1>2, <1>3, <3>1 DEF OwnInv
        <3>5. \A e \in Clients \ {d} : ~(removing'[e] = removing'[d] /\ pc'[e] # "force_remove")
            BY <1>0, <1>1, <2>1, <3>1 DEF OwnInv, Ends
        <3> QED
            BY <3>3, <3>4, <3>5
    <2> QED
        BY <2>2, <2>3 DEF OwnInv, Ends
<1>11. OwnedInv'
    <2> SUFFICES ASSUME NEW x \in active_transactions' \ leaked'
                 PROVE  \E d \in Clients : current_transaction'[d] = x
                                             \/ (removing'[d] = x /\ pc'[d] # "force_remove")
        BY DEF OwnedInv, Ends
    <2>2. CASE x = t
        BY <1>2, <2>2
    <2>3. CASE x \in active_transactions
        <3>1. PICK d \in Clients : current_transaction[d] = x \/ Ends(d, x)
            BY <1>0, <1>1, <2>3 DEF OwnersInv, OwnedInv
        <3>2. x # NoTxn
            BY <1>0, <2>3, OwnTypes
        <3>3. current_transaction[c] # x
            BY <1>1, <3>2
        <3> QED
            BY <1>1, <1>2, <1>4, <3>1, <3>2, <3>3 DEF Ends
    <2> QED
        BY <1>1, <2>2, <2>3
<1>12. WaitingInv'
    BY <1>0, <1>1, <1>2 DEF OwnersInv, WaitingInv, Waiting
<1>13. CheckpointInv'
    BY <1>0, <1>1, <1>2, ConstantsAssumption DEF LockInv, Locked, CheckpointInv
<1>14. OriginInv'
    <2>1. t \in Txns
        BY <1>a, ConstantsAssumption
            DEF BeginTransaction, IdentifiersLeft, IInv, CollectInv, CounterInv, TypeOK, Txns
    <2>2. context'[t] = c /\ \A x \in Txns \ {t} : context'[x] = context[x]
        BY <1>0, <1>a, <2>1 DEF BeginTransaction, TypeOK
    <2>3. \A x \in active_transactions : x \in Txns /\ x # t /\ x # NoTxn
        BY <1>0, <1>3, OwnTypes
    <2>4. ASSUME NEW d \in Clients, NEW x \in active_transactions,
                 current_transaction'[d] = x \/ (removing'[d] = x /\ pc'[d] # "force_remove")
          PROVE  context'[x] = d
        BY <1>0, <1>1, <1>2, <1>4, <2>2, <2>3, <2>4 DEF OwnersInv, OriginInv, Ends
    <2>5. ASSUME NEW d \in Clients,
                 current_transaction'[d] = t \/ (removing'[d] = t /\ pc'[d] # "force_remove")
          PROVE  context'[t] = d
        BY <1>1, <1>2, <1>3, <1>4, <2>2, <2>5
    <2> QED
        BY <1>1, <2>4, <2>5 DEF OriginInv, Ends
<1>15. LeakInv'
    <2> SUFFICES ASSUME ClosesResults PROVE current_transaction[c] = NoTxn
        BY <1>0, <1>1 DEF OwnersInv, LeakInv
    <2>1. pc[c] \in {"ready", "ready_function"} => ~open_result[c]
        BY <1>0 DEF LocalInv, OpenInv
    <2> QED
        BY <1>0, <1>1, <1>2, <2>1 DEF LocalInv, AutoInv, Begun, Holding
<1> QED
    BY <1>8, <1>9, <1>10, <1>11, <1>12, <1>13, <1>14, <1>15 DEF CInv

\* Commit- and RollbackTransaction begin to remove the transaction.
ScansOwn(c) ==
    /\ pc[c] \in Waiting \ {"lock_connections"} /\ pc'[c] = "remove" /\ context_lock'[c] = c
    /\ transaction_lock = NoClient
    /\ Apart(c)
    /\ Keeps(c) \/ Releases(c)
    /\ force' => "force_checkpoint" \in Statements
    /\ UNCHANGED <<after, removing, current_transaction, auto_commit, open_result,
                   active_transactions, current_transaction_id>>
    /\ connections_lock' = c => active_transactions \subseteq {removing[c]}
    /\ OriginsKept(c)

LEMMA ScansOwnInv ==
    ASSUME IInv, CInv, NEW c \in Clients, ScansOwn(c), removing[c] # NoTxn
    PROVE  CInv'
<1>0. /\ TypeOK /\ LockInv /\ MutexInv /\ OwnersInv /\ CheckpointInv
      /\ \A d \in Clients : LocalInv(d)
    BY DEF IInv, CollectInv, CInv, OwnersInv
<1>1. LocalInv(c)'
    BY <1>0 DEF ScansOwn, LocalInv, CallInv, PlaceInv, AfterInv, RunsInv, AutoInv, OpenInv,
        ForceInv, InCall, Begun, Holding, Ending, Waiting
<1>2. \A d \in Clients : LocalInv(d)'
    BY <1>0, <1>1, LocalKept DEF ScansOwn
<1>3. MutexInv'
    BY <1>0, KeepsMutexes, ReleasesMutexes DEF ScansOwn
<1>4. OwnersInv'
    <2>1. OwnKept
        BY DEF ScansOwn, Apart, OwnKept, Waiting
    <2> QED
        BY <1>0, <2>1, OwnKeptOwners DEF ScansOwn
<1>5. CheckpointInv'
    <2>1. \A d \in Clients \ {c} : pc'[d] \notin {"remove", "create_checkpoint"}
        BY <1>0, ConstantsAssumption DEF ScansOwn, Apart, LockInv, Locked
    <2> QED
        BY <2>1 DEF ScansOwn, CheckpointInv
<1> QED
    BY <1>2, <1>3, <1>4, <1>5 DEF CInv, OwnersInv

LEMMA CommitInv ==
    ASSUME IInv, CInv, NEW c \in Clients,
           \/ \E success \in BOOLEAN : CommitTransaction(c, success)
           \/ RollbackTransaction(c)
    PROVE  CInv'
<1>0. TypeOK /\ MutexInv /\ LocalInv(c)
    BY DEF IInv, CInv
<1>1. /\ pc[c] \in {"commit", "rollback"} /\ transaction_lock = NoClient
      /\ removing[c] \in active_transactions /\ Continue(c, "remove")
      /\ UNCHANGED <<open_result, connections_lock, to_lock, force, active_transactions,
                     current_transaction_id>>
      /\ OriginsKept(c)
    BY DEF CommitTransaction, CommitBody, RollbackTransaction, ScanActive, TransactionLockFree,
        lists, timestamps, origins, OriginsKept
<1>2. Free(c)
    BY <1>0, <1>1 DEF Free, LocalInv, CallInv, InCall, Holding, Ending, Waiting
<1>3. Apart(c) /\ Keeps(c)
    BY <1>0, <1>1, <1>2, WalkOn DEF Holding
<1>4. /\ pc'[c] = "remove" /\ context_lock'[c] = c
      /\ UNCHANGED <<after, removing, current_transaction, auto_commit>>
    BY <1>0, <1>1, ContinueFields DEF CallOver
<1>5. connections_lock # c /\ removing[c] # NoTxn
    <2>1. NoTxn \notin Txns /\ active_transactions \subseteq Txns
        BY <1>0, ConstantsAssumption DEF TypeOK, Txns
    <2> QED
        BY <1>0, <1>1, <2>1 DEF MutexInv, HolderInv, Holding
<1>6. ScansOwn(c)
    BY <1>0, <1>1, <1>3, <1>4, <1>5 DEF ScansOwn, Waiting, MutexInv
<1> QED
    BY <1>5, <1>6, ScansOwnInv

LEMMA CommitWithClientsLockedInv ==
    ASSUME IInv, CInv, NEW c \in Clients, NEW success \in BOOLEAN,
           CommitWithClientsLocked(c, success)
    PROVE  CInv'
<1>0. TypeOK /\ MutexInv /\ LocalInv(c)
    BY DEF IInv, CInv
<1>1. /\ pc[c] = "lock_clients" /\ to_lock = {} /\ transaction_lock = NoClient
      /\ removing[c] # NoTxn
      /\ UNCHANGED <<open_result, to_lock, active_transactions, current_transaction_id>>
      /\ OriginsKept(c)
    BY DEF CommitWithClientsLocked, AllClientsLocked, Committing, TransactionLockFree, lists,
        origins, OriginsKept
<1>2. connections_lock = c /\ after[c] # "closed" /\ context_lock[c] = c
    BY <1>0, <1>1 DEF MutexInv, HolderInv, Holding, LocalInv, CallInv, InCall
<1>3. CASE CanCheckpoint(removing[c]) /\ success
    <2>1. /\ UNCHANGED <<context_lock, connections_lock, force, after, removing,
                         current_transaction, auto_commit>>
          /\ pc'[c] = "remove" /\ \A d \in Clients \ {c} : pc'[d] = pc[d]
        BY <1>0, <1>3 DEF CommitWithClientsLocked, TypeOK
    <2>2. Apart(c)
        BY <1>1, <2>1 DEF Apart
    <2>3. Keeps(c)
        BY <1>1, <1>2, <2>1 DEF Keeps, Holding
    <2>4. ScansOwn(c)
        BY <1>0, <1>1, <1>2, <1>3, <2>1, <2>2, <2>3 DEF ScansOwn, Waiting, MutexInv, CanCheckpoint
    <2> QED
        BY <1>1, <2>4, ScansOwnInv
<1>4. CASE ~(CanCheckpoint(removing[c]) /\ success)
    <2>1. /\ Continue(c, "remove") /\ connections_lock' = NoClient /\ ~force'
          /\ DroppedWithTransaction = {}
        BY <1>4 DEF CommitWithClientsLocked, ReleaseClients
    <2>2. /\ pc'[c] = "remove" /\ context_lock'[c] = c
          /\ UNCHANGED <<after, removing, current_transaction, auto_commit>>
        BY <1>0, <2>1, ContinueFields DEF CallOver
    <2>3. \A d \in Clients \ {c} :
            /\ \/ pc'[d] = pc[d]
               \/ pc[d] = "dropped" /\ pc'[d] = "closed" /\ current_transaction[d] = NoTxn
            /\ context_lock'[d] = context_lock[d]
                 \/ (context_lock[d] = c /\ context_lock'[d] = NoClient)
            /\ context_lock'[d] # c
        BY <1>0, <1>2, <2>1, ReleaseFields DEF Continue
    <2>4. Apart(c)
        BY <1>1, <2>2, <2>3 DEF Apart
    <2>5. Releases(c)
        BY <1>2, <2>1, <2>2, <2>3, <2>4 DEF Releases, Holding
    <2>6. ScansOwn(c)
        BY <1>1, <2>1, <2>2, <2>4, <2>5, ConstantsAssumption DEF ScansOwn, Waiting
    <2> QED
        BY <1>1, <2>6, ScansOwnInv
<1> QED
    BY <1>3, <1>4

\* FORCE CHECKPOINT rolls back a transaction in the place of its owner.
LEMMA ForceRollbackInv ==
    ASSUME IInv, CInv, NEW c \in Clients, NEW t \in Txns, ForceRollback(c, t)
    PROVE  CInv'
<1>0. /\ TypeOK /\ LockInv /\ MutexInv /\ OwnersInv /\ OwnInv /\ CheckpointInv
      /\ \A d \in Clients : LocalInv(d)
    BY DEF IInv, CollectInv, CInv, OwnersInv
<1>1. /\ pc[c] = "force" /\ t \in active_transactions
      /\ UNCHANGED <<connections_lock, current_transaction, auto_commit, open_result, after,
                     context_lock, to_lock, force>>
      /\ UNCHANGED <<active_transactions, current_transaction_id, context, leaked>>
    BY DEF ForceRollback, ScanActive, mutexes, lists, timestamps, origins
<1>2. /\ \A d \in Clients \ {c} : pc'[d] = pc[d] /\ removing'[d] = removing[d]
      /\ pc'[c] = "force_remove" /\ removing'[c] = t
    BY <1>0 DEF ForceRollback, TypeOK
<1>3. connections_lock = c /\ removing[c] = NoTxn /\ after[c] = "idle" /\ to_lock = {}
    BY <1>0, <1>1 DEF MutexInv, HolderInv, LocalInv, PlaceInv, AfterInv, Holding, Ending, Waiting
<1>4. LocalInv(c)'
    BY <1>0, <1>1, <1>2, <1>3 DEF LocalInv, CallInv, PlaceInv, AfterInv, RunsInv, AutoInv,
        OpenInv, ForceInv, InCall, Begun, Holding
<1>5. Apart(c)
    BY <1>1, <1>2 DEF Apart
<1>6. Keeps(c)
    BY <1>1, <1>2, <1>3 DEF Keeps, Holding
<1>7. \A d \in Clients : LocalInv(d)'
    BY <1>0, <1>4, <1>5, LocalKept
<1>8. MutexInv'
    BY <1>0, <1>1, <1>6, KeepsMutexes DEF MutexInv
<1>9. OwnInv'
    BY <1>0, <1>1, <1>2, <1>3 DEF OwnInv, Ends
<1>10. OwnedInv'
    <2>1. \A x \in active_transactions : x # NoTxn
        BY <1>0, OwnTypes
    <2> QED
        BY <1>0, <1>1, <1>2, <1>3, <2>1 DEF OwnersInv, OwnedInv, Ends
<1>11. WaitingInv'
    BY <1>0, <1>1, <1>2 DEF OwnersInv, WaitingInv, Waiting
<1>12. CheckpointInv'
    BY <1>0, <1>1, <1>2 DEF LockInv, Locked, CheckpointInv
<1>13. OriginInv' /\ LeakInv'
    BY <1>0, <1>1, <1>2 DEF OwnersInv, OriginInv, LeakInv, Ends
<1> QED
    BY <1>7, <1>8, <1>9, <1>10, <1>11, <1>12, <1>13 DEF CInv

LEMMA RemovedActive ==
    ASSUME NEW t, RemoveTransaction(t)
    PROVE  active_transactions' = active_transactions \ {t}
BY DEF RemoveTransaction, Collect

\* It frees retired transactions only: an active one keeps its weak_ptr.
LEMMA RemovedOrigins ==
    ASSUME IInv, NEW c \in Clients, pc[c] \in {"remove", "force_remove"},
           RemoveTransaction(removing[c])
    PROVE  \A x \in active_transactions \ {removing[c]} : context'[x] = context[x]
<1>1. /\ removing[c] \in active_transactions
      /\ \A a \in active_transactions \ {removing[c]} : scan.start_time <= start_time[a]
      /\ commit_id[removing[c]] # 0 =>
           \A i \in 1 .. Len(recently_committed) :
             commit_id[recently_committed[i]] < commit_id[removing[c]]
    BY DEF IInv, CollectInv, ScanInv
<1>2. TypeOK /\ DisjointInv /\ PastInv /\ RecentOrdered /\ CleanupSafe
    BY DEF IInv, CollectInv
<1> QED
    BY <1>1, <1>2, RemoveTransactionCorrect

\* The end of RemoveTransaction takes the transaction from the thread that ended it.
LEMMA FinishRemoveInv ==
    ASSUME IInv, CInv, RInv', NEW c \in Clients, FinishRemove(c)
    PROVE  CInv'
<1>0. /\ TypeOK /\ LockInv /\ ScanInv /\ MutexInv /\ OwnersInv /\ OwnInv /\ CheckpointInv
      /\ \A d \in Clients : LocalInv(d)
    BY DEF IInv, CollectInv, CInv, OwnersInv
<1> DEFINE t == removing[c]
<1>1. /\ pc[c] = "remove" /\ active_transactions' = active_transactions \ {t}
      /\ UNCHANGED <<connections_lock, current_transaction, auto_commit, open_result, to_lock,
                     force, current_transaction_id, current_start_timestamp, leaked>>
    BY RemovedActive DEF FinishRemove, timestamps
<1>2. /\ t # NoTxn /\ t \in active_transactions /\ current_transaction[c] = NoTxn /\ auto_commit[c]
      /\ context_lock[c] = c
    <2>1. t \in active_transactions
        BY <1>0, <1>1 DEF ScanInv
    <2>2. t # NoTxn
        BY <1>0, <2>1, OwnTypes
    <2> QED
        BY <1>0, <1>1, <2>1, <2>2
            DEF LocalInv, PlaceInv, RunsInv, CallInv, InCall, Ending, Waiting
<1>3. \/ /\ connections_lock = c /\ pc'[c] = "create_checkpoint" /\ removing'[c] = t
         /\ UNCHANGED <<context_lock, after>>
      \/ /\ connections_lock # c /\ pc'[c] = after[c] /\ after'[c] = "idle"
         /\ removing'[c] = NoTxn
         /\ context_lock'[c] = IF CallOver(after[c]) THEN NoClient ELSE c
    BY <1>0 DEF FinishRemove, LocksAfter, TypeOK
<1>4. \A d \in Clients \ {c} : /\ pc'[d] = pc[d] /\ after'[d] = after[d]
                               /\ removing'[d] = removing[d] /\ context_lock'[d] = context_lock[d]
    <2>1. CASE connections_lock = c
        BY <1>0, <2>1 DEF FinishRemove, TypeOK
    <2>2. CASE connections_lock # c
        <3>1. \A d \in Clients \ {c} : LocksAfter(c, after[c])[d] = context_lock[d]
            BY <1>0, <2>2, NothingToRelease
        <3> QED
            BY <1>0, <2>2, <3>1 DEF FinishRemove, TypeOK
    <2> QED
        BY <2>1, <2>2
<1>5. /\ pc'[c] \in {"create_checkpoint", "idle", "ready", "closed"}
      /\ after[c] = "closed" => connections_lock # c
    BY <1>0, <1>3 DEF TypeOK, MutexInv, HolderInv
<1>6. LocalInv(c)'
    <2>1. CallInv(c)'
        BY <1>2, <1>3, <1>5, ConstantsAssumption
            DEF CallInv, CallOver, InCall, Begun, Holding, Ending, Waiting
    <2>2. PlaceInv(c)' /\ AfterInv(c)' /\ ForceInv(c)'
        BY <1>0, <1>1, <1>2, <1>3, <1>5 DEF LocalInv, PlaceInv, AfterInv, ForceInv, Ending
    <2>3. RunsInv(c)' /\ AutoInv(c)'
        BY <1>1, <1>2, <1>5 DEF RunsInv, AutoInv, Begun
    <2>4. OpenInv(c)'
        BY <1>0, <1>1, <1>3, <1>5 DEF LocalInv, OpenInv
    <2> QED
        BY <2>1, <2>2, <2>3, <2>4 DEF LocalInv
<1>7. Apart(c)
    BY <1>1, <1>4 DEF Apart
<1>8. Keeps(c)
    <2>1. connections_lock = c => to_lock = {} /\ after[c] # "closed"
        BY <1>0, <1>1 DEF MutexInv, HolderInv
    <2>2. CASE connections_lock = c
        BY <1>1, <1>2, <1>3, <1>4, <2>1, <2>2 DEF Keeps, Holding
    <2>3. CASE connections_lock # c
        <3>1. pc'[c] \notin Holding /\ (after[c] = "closed" => pc'[c] = "closed")
            BY <1>0, <1>3, <2>3 DEF Holding, TypeOK
        <3>2. context_lock'[c] \in {c, NoClient}
            BY <1>3, <2>3
        <3> QED
            BY <1>1, <1>2, <1>4, <2>3, <3>1, <3>2 DEF Keeps
    <2> QED
        BY <2>2, <2>3
<1>9. \A d \in Clients : LocalInv(d)'
    BY <1>0, <1>6, <1>7, LocalKept
<1>10. MutexInv'
    BY <1>0, <1>1, <1>8, KeepsMutexes DEF MutexInv
<1>11. \A d \in Clients : current_transaction[d] # t /\ (d # c => ~Ends(d, t))
    BY <1>0, <1>1, <1>2 DEF OwnInv
<1>12. OwnInv'
    BY <1>0, <1>1, <1>2, <1>3, <1>4, <1>5, <1>11 DEF OwnInv, Ends
<1>13. OwnedInv'
    BY <1>0, <1>1, <1>3, <1>4, <1>5 DEF OwnersInv, OwnedInv, Ends
<1>14. WaitingInv'
    BY <1>0, <1>1, <1>4, <1>5, <1>11 DEF OwnersInv, WaitingInv, Waiting, Ends
<1>15. CheckpointInv'
    <2>1. \A d \in Clients \ {c} : pc'[d] \notin {"remove", "create_checkpoint"}
        BY <1>0, <1>1, <1>4 DEF LockInv, Locked
    <2>2. pc'[c] = "create_checkpoint" => active_transactions' = {}
        BY <1>0, <1>1, <1>3 DEF CheckpointInv, TypeOK
    <2>3. (active_transactions' = {} /\ current_start_timestamp' <= TransactionIdStart)
            => recently_committed' = << >> /\ old_transactions' = << >>
        BY DEF RInv, NothingRetainedWhenIdle
    <2> QED
        BY <1>5, <2>1, <2>2, <2>3 DEF CheckpointInv
<1>16. OriginInv' /\ LeakInv'
    <2>1. \A x \in active_transactions' : x # NoTxn /\ context'[x] = context[x]
        BY <1>0, <1>1, <1>2, RemovedOrigins, OwnTypes DEF FinishRemove
    <2> QED
        BY <1>0, <1>1, <1>3, <1>4, <2>1 DEF OwnersInv, OriginInv, LeakInv, Ends
<1> QED
    BY <1>9, <1>10, <1>12, <1>13, <1>14, <1>15, <1>16 DEF CInv

\* FORCE CHECKPOINT takes the transaction from the context it belongs to; nobody else is
\* about to end it.
LEMMA ForceRemoveInv ==
    ASSUME IInv, CInv, RInv', NEW c \in Clients, ForceRemove(c)
    PROVE  CInv'
<1>0. /\ TypeOK /\ LockInv /\ ScanInv /\ MutexInv /\ OwnersInv /\ OwnInv /\ CheckpointInv
      /\ \A d \in Clients : LocalInv(d)
    BY DEF IInv, CollectInv, CInv, OwnersInv
<1> DEFINE t == removing[c]
<1>1. /\ pc[c] = "force_remove" /\ active_transactions' = active_transactions \ {t}
      /\ UNCHANGED <<connections_lock, open_result, to_lock, force, context_lock, after,
                     current_transaction_id, current_start_timestamp>>
    BY RemovedActive DEF ForceRemove, timestamps, mutexes
<1>2. /\ connections_lock = c /\ to_lock = {} /\ after[c] = "idle" /\ t \in active_transactions
      /\ "force_checkpoint" \in Statements /\ t # NoTxn
    <2>1. t \in active_transactions
        BY <1>0, <1>1 DEF ScanInv
    <2> QED
        BY <1>0, <1>1, <2>1, OwnTypes DEF MutexInv, HolderInv, Holding, LocalInv, AfterInv, ForceInv
<1>3. /\ \A d \in Clients \ {c} : pc'[d] = pc[d] /\ removing'[d] = removing[d]
      /\ removing'[c] = NoTxn
      /\ \A d \in Clients : current_transaction'[d] = IF context[t] = d THEN NoTxn
                                                      ELSE current_transaction[d]
      /\ \A d \in Clients : auto_commit'[d] = (context[t] = d \/ auto_commit[d])
    BY <1>0 DEF ForceRemove, Owns, TypeOK
<1>a. /\ leaked \subseteq leaked'
      /\ \A d \in Clients : (context[t] = d /\ current_transaction[d] \notin {t, NoTxn})
                               => current_transaction[d] \in leaked'
      /\ \A x \in leaked' : x \in leaked \/ \E d \in Clients :
           context[t] = d /\ current_transaction[d] = x /\ x \notin {t, NoTxn}
    BY <1>0 DEF ForceRemove, Owns
<1>b. \A x \in active_transactions' : x \in active_transactions /\ x # NoTxn /\ context'[x] = context[x]
    BY <1>0, <1>1, <1>2, RemovedOrigins, OwnTypes DEF ForceRemove
<1>c. \A d \in Clients : current_transaction[d] = t => context[t] = d
    BY <1>0, <1>2 DEF OwnersInv, OriginInv
<1>4. \/ pc'[c] = "create_checkpoint" /\ active_transactions' = {}
      \/ pc'[c] = "force"
    BY <1>0 DEF ForceRemove, TypeOK
<1>5. \A d \in Clients \ {c} : pc[d] \notin InCall \/ (pc[d] = "rollback" /\ "free" \in Drops)
    BY <1>0, <1>1, <1>2, OthersOut DEF Locked
<1>6. \A d \in Clients : pc'[d] \notin Begun
    <2>1. \A d \in Clients \ {c} : pc'[d] \notin Begun
        BY <1>3, <1>5 DEF InCall, Begun
    <2> QED
        BY <1>4, <2>1 DEF Begun
<1>7. \A d \in Clients : LocalInv(d)'
    <2> SUFFICES ASSUME NEW d \in Clients PROVE LocalInv(d)'
        OBVIOUS
    <2>0. LocalInv(d) /\ auto_commit[d] \in BOOLEAN
        BY <1>0 DEF TypeOK
    <2>1. CallInv(d)'
        BY <1>1, <1>3, <1>4, <2>0 DEF LocalInv, CallInv, InCall, Holding
    <2>2. PlaceInv(d)' /\ AfterInv(d)' /\ ForceInv(d)'
        BY <1>1, <1>2, <1>3, <1>4, <2>0 DEF LocalInv, PlaceInv, AfterInv, ForceInv, Ending, Waiting
    <2>3. RunsInv(d)'
        BY <1>3, <1>4, <1>6, <2>0 DEF LocalInv, RunsInv
    <2>4. AutoInv(d)'
        BY <1>1, <1>3, <1>4, <2>0 DEF LocalInv, AutoInv, Holding
    <2>5. OpenInv(d)'
        BY <1>1, <1>3, <1>4, <2>0 DEF LocalInv, OpenInv
    <2> QED
        BY <2>1, <2>2, <2>3, <2>4, <2>5 DEF LocalInv
<1>8. MutexInv'
    <2>1. Keeps(c)
        BY <1>1, <1>2, <1>3, <1>4 DEF Keeps, Holding
    <2> QED
        BY <1>0, <1>1, <2>1, KeepsMutexes DEF MutexInv
<1>9. OwnInv'
    BY <1>0, <1>1, <1>3, <1>4, <1>c DEF OwnInv, Ends
<1>10. OwnedInv'
    <2> SUFFICES ASSUME NEW x \in active_transactions' \ leaked'
                 PROVE  \E d \in Clients : current_transaction'[d] = x
                                             \/ (removing'[d] = x /\ pc'[d] # "force_remove")
        BY DEF OwnedInv, Ends
    <2>1. PICK d \in Clients : current_transaction[d] = x \/ Ends(d, x)
        BY <1>0, <1>1, <1>a DEF OwnersInv, OwnedInv
    <2>2. x \notin {t, NoTxn}
        BY <1>1, <1>b
    <2> QED
        BY <1>1, <1>3, <1>a, <2>1, <2>2 DEF Ends
<1>11. WaitingInv'
    <2> SUFFICES ASSUME DropsOrForce, NEW d \in Clients, pc'[d] \in Waiting PROVE FALSE
        BY DEF WaitingInv
    <2> QED
        BY <1>2, <1>3, <1>4, <1>5 DEF DropsOrForce, Waiting, InCall, Ending
<1>12. CheckpointInv'
    <2>1. \A d \in Clients \ {c} : pc'[d] \notin {"remove", "create_checkpoint"}
        BY <1>0, <1>1, <1>3 DEF LockInv, Locked
    <2>2. (active_transactions' = {} /\ current_start_timestamp' <= TransactionIdStart)
            => recently_committed' = << >> /\ old_transactions' = << >>
        BY DEF RInv, NothingRetainedWhenIdle
    <2> QED
        BY <1>4, <2>1, <2>2 DEF CheckpointInv
<1>13. OriginInv'
    BY <1>0, <1>3, <1>4, <1>b DEF OwnersInv, OriginInv, Ends
<1>14. LeakInv'
    <2> SUFFICES ASSUME ClosesResults, NEW x \in leaked' PROVE FALSE
        BY DEF LeakInv
    <2>1. leaked = {}
        BY <1>0 DEF OwnersInv, LeakInv
    <2>2. PICK d \in Clients : context[t] = d /\ current_transaction[d] \notin {t, NoTxn}
        BY <1>a, <2>1
    <2>3. PICK e \in Clients : current_transaction[e] = t \/ Ends(e, t)
        BY <1>0, <1>2, <2>1 DEF OwnersInv, OwnedInv
    <2>4. e = d
        BY <1>0, <1>2, <2>2, <2>3 DEF OwnersInv, OriginInv
    <2>5. Ends(e, t) => current_transaction[e] = NoTxn
        BY <1>0, <1>2 DEF LocalInv, PlaceInv, Ends
    <2> QED
        BY <2>2, <2>3, <2>4, <2>5
<1> QED
    BY <1>7, <1>8, <1>9, <1>10, <1>11, <1>12, <1>13, <1>14 DEF CInv

-----------------------------------------------------------------------------
LEMMA InitCInv == Init => CInv
<1> SUFFICES ASSUME Init PROVE CInv
    OBVIOUS
<1>1. \A c \in Clients : LocalInv(c)
    BY ConstantsAssumption DEF Init, LocalInv, CallInv, PlaceInv, AfterInv, RunsInv, AutoInv,
        OpenInv, ForceInv, InCall, Begun, Holding, Ending, Waiting
<1>2. MutexInv
    BY ConstantsAssumption DEF Init, MutexInv, ForeignInv, HolderInv, CoveredInv, Holding
<1>3. OwnInv /\ OwnedInv /\ WaitingInv /\ OriginInv /\ LeakInv /\ CheckpointInv
    BY DEF Init, OwnInv, OwnedInv, WaitingInv, OriginInv, LeakInv, CheckpointInv
<1> QED
    BY <1>1, <1>2, <1>3 DEF CInv

LEMMA NextCInv == IInv /\ CInv /\ RInv' /\ [Next]_vars => CInv'
<1> SUFFICES ASSUME IInv, CInv, RInv', [Next]_vars PROVE CInv'
    OBVIOUS
<1>0. TypeOK
    BY DEF IInv
<1>1. CASE UNCHANGED vars
    <2>1. /\ UNCHANGED <<pc, after, removing, current_transaction, auto_commit, context_lock,
                         open_result, connections_lock, to_lock, force>>
          /\ UNCHANGED <<active_transactions, current_transaction_id, recently_committed,
                         old_transactions, current_start_timestamp, context, leaked>>
        BY <1>1 DEF vars, manager, collected, timestamps, lists, origins, mutexes, contexts
    <2>2. \A c \in Clients : LocalInv(c)'
        BY <2>1 DEF CInv, LocalInv, CallInv, PlaceInv, AfterInv, RunsInv, AutoInv, OpenInv, ForceInv
    <2>3. MutexInv'
        BY <2>1 DEF CInv, MutexInv, ForeignInv, HolderInv, CoveredInv
    <2>4. OwnInv' /\ OwnedInv' /\ WaitingInv' /\ OriginInv' /\ LeakInv' /\ CheckpointInv'
        BY <2>1 DEF CInv, OwnInv, OwnedInv, WaitingInv, OriginInv, LeakInv, CheckpointInv, Ends
    <2> QED
        BY <2>2, <2>3, <2>4 DEF CInv
<1>2. ASSUME NEW c \in Clients, UserStep(c) PROVE CInv'
    <2>1. CalmUserStep(c) \/ (TurnAutoCommitOff(c) /\ current_transaction[c] = NoTxn)
        BY <1>2 DEF UserStep, CalmUserStep, KeepsTransaction
    <2> QED
        BY <1>0, <2>1, UserStepCalm, UserStepContext, UserOrigins, CalmStepInv,
           StartTransactionInv
<1>3. ASSUME NEW c \in Clients, PlainCallStep(c) PROVE CInv'
    <2>1. CalmCallStep(c)
        BY <1>3 DEF PlainCallStep, CalmCallStep
    <2> QED
        BY <1>0, <1>3, <2>1, CalmCallStepCalm, PlainCallStepContext, CallOrigins, CalmStepInv
<1> QED
    BY <1>1, <1>2, <1>3, LockClientInv, AcceptCheckpointInv, StartTransactionInv, CommitInv,
       CommitWithClientsLockedInv, ForceRollbackInv, FinishRemoveInv, ForceRemoveInv
       DEF Next, CallStep, PlainCallStep

\* The inductive invariant holds: LockClients keeps every other context out of its calls,
\* and a transaction is current in one context or ended by one thread.
THEOREM Ownership == Spec => []CInv
<1>1. Init /\ [][Next]_vars => []CInv
    BY InitCInv, NextCInv, Invariance, Retention, PTL DEF Spec
<1> QED
    BY <1>1, PTL DEF Spec

\* Each active transaction belongs to exactly one context, or to the one thread that ends
\* it, whatever calls, drops and checkpoints interleave, but for the ones that a context
\* lost: BeginTransaction overwrote it, or FORCE CHECKPOINT cleared the context for another.
THEOREM ActiveIsOwned == Spec => []ActiveTransactionOwned
<1>1. IInv /\ CInv => ActiveTransactionOwned
    <2> SUFFICES ASSUME IInv, CInv PROVE ActiveTransactionOwned
        OBVIOUS
    <2> SUFFICES ASSUME NEW t \in active_transactions \ leaked
                 PROVE  \E c \in Clients :
                          /\ t \in {current_transaction[c], removing[c]}
                          /\ \A d \in Clients \ {c} :
                                /\ t # current_transaction[d]
                                /\ t = removing[d] => "force_remove" \in {pc[c], pc[d]}
        BY DEF ActiveTransactionOwned
    <2>1. PICK c \in Clients : current_transaction[c] = t \/ Ends(c, t)
        BY DEF CInv, OwnedInv
    <2>2. t # NoTxn
        BY OwnTypes DEF CInv
    <2> QED
        BY <2>1, <2>2 DEF CInv, OwnInv, Ends
<1> QED
    BY <1>1, Ownership, Invariance, PTL

\* No context loses a transaction it has not ended, when users leave auto-commit alone and
\* run functions, parsed statements and relations only where no stream result is open.
THEOREM NothingIsLeaked ==
    ASSUME ClosesResults
    PROVE  Spec => []NothingLeaked
<1>1. CInv => NothingLeaked
    BY DEF CInv, LeakInv, NothingLeaked
<1> QED
    BY <1>1, Ownership, PTL

\* What a thread is about to commit or roll back is still in the list of active
\* transactions (D_ASSERT in RemoveTransaction), unless FORCE CHECKPOINT comes in between
\* the drop of a connection and the rollback of its transaction.
THEOREM RemovedIsActive ==
    ASSUME DropsOrForce
    PROVE  Spec => []RemovedTransactionActive
<1>1. IInv /\ CInv => RemovedTransactionActive
    <2> SUFFICES ASSUME IInv, CInv PROVE RemovedTransactionActive
        OBVIOUS
    <2> QED
        BY DEF CInv, LocalInv, PlaceInv, WaitingInv, Waiting, RemovedTransactionActive
<1> QED
    BY <1>1, Ownership, Invariance, PTL

\* While a checkpoint is written no other transaction is active or retained and no other
\* thread is inside a call.
THEOREM CheckpointIsQuiescent ==
    ASSUME DropsOrForce
    PROVE  Spec => []CheckpointQuiescent
<1>1. IInv /\ CInv => CheckpointQuiescent
    <2> SUFFICES ASSUME IInv, CInv PROVE CheckpointQuiescent
        OBVIOUS
    <2> SUFFICES ASSUME NEW c \in Clients, pc[c] = "create_checkpoint"
                 PROVE  /\ active_transactions \subseteq {current_transaction[c]}
                        /\ current_start_timestamp <= TransactionIdStart =>
                             recently_committed = << >> /\ old_transactions = << >>
                        /\ \A d \in Clients \ {c} : pc[d] \in {"idle", "dropped", "closed"}
        BY DEF CheckpointQuiescent
    <2>1. /\ active_transactions \subseteq {current_transaction[c]}
          /\ current_start_timestamp <= TransactionIdStart =>
               recently_committed = << >> /\ old_transactions = << >>
        BY DEF CInv, CheckpointInv
    <2>2. ASSUME NEW d \in Clients \ {c} PROVE pc[d] \in {"idle", "dropped", "closed"}
        <3>1. connections_lock = c /\ to_lock = {}
            BY DEF CInv, MutexInv, HolderInv, Holding
        <3>2. pc[d] \notin InCall \/ pc[d] = "rollback"
            BY <3>1, OthersOut DEF IInv, CollectInv, CInv, Locked
        <3>3. pc[d] # "rollback"
            <4> SUFFICES ASSUME pc[d] = "rollback" PROVE FALSE
                OBVIOUS
            <4>1. removing[d] # NoTxn
                BY DEF CInv, LocalInv, PlaceInv
            <4>2. removing[d] \in active_transactions
                BY <4>1 DEF CInv, WaitingInv, Waiting
            <4>3. current_transaction[c] # removing[d]
                BY <4>1 DEF CInv, OwnInv
            <4> QED
                BY <2>1, <4>2, <4>3
        <3> QED
            BY <3>2, <3>3 DEF IInv, TypeOK, PcValues, InCall, Begun, Holding, Ending, Waiting
    <2> QED
        BY <2>1, <2>2
<1> QED
    BY <1>1, Ownership, Invariance, PTL

=============================================================================
