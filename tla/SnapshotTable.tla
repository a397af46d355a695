---------------------------- MODULE SnapshotTable ----------------------------
(***************************************************************************)
(* What a table promises its transactions, abstractly: a set of values     *)
(* under snapshot isolation, where two transactions never delete the same  *)
(* value.  DataTable implements it (src/src/storage/data_table.cpp and     *)
(* src/src/storage/table/chunk_info.cpp: UseVersion).                      *)
(***************************************************************************)
CONSTANTS Txns, Values

VARIABLES
    committed,  \* the committed contents
    phase,      \* "none", "active", "committed" or "aborted"
    snapshot,   \* the contents when the transaction began
    inserted,   \* the values it inserted and has not deleted again
    deleted     \* the values of its snapshot it deleted

vars == <<committed, phase, snapshot, inserted, deleted>>

Init ==
    /\ committed = {}
    /\ phase = [t \in Txns |-> "none"]
    /\ snapshot = [t \in Txns |-> {}]
    /\ inserted = [t \in Txns |-> {}]
    /\ deleted = [t \in Txns |-> {}]

Begin(t) ==
    /\ phase[t] = "none"
    /\ phase' = [phase EXCEPT ![t] = "active"]
    /\ snapshot' = [snapshot EXCEPT ![t] = committed]
    /\ UNCHANGED <<committed, inserted, deleted>>

Insert(t) ==
    /\ phase[t] = "active"
    /\ \E v \in Values : inserted' = [inserted EXCEPT ![t] = @ \union {v}]
    /\ UNCHANGED <<committed, phase, snapshot, deleted>>

\* Only what is still committed and nobody else is deleting can be deleted.
Delete(t) ==
    /\ phase[t] = "active"
    /\ \E S \in SUBSET ((snapshot[t] \intersect committed) \ UNION {deleted[u] : u \in Txns}) :
            deleted' = [deleted EXCEPT ![t] = @ \union S]
    /\ UNCHANGED <<committed, phase, snapshot, inserted>>

TakeBack(t) ==
    /\ phase[t] = "active"
    /\ \E v \in inserted[t] : inserted' = [inserted EXCEPT ![t] = @ \ {v}]
    /\ UNCHANGED <<committed, phase, snapshot, deleted>>

\* An ended transaction has no snapshot and no changes any more.
Forget(t) ==
    /\ snapshot' = [snapshot EXCEPT ![t] = {}]
    /\ inserted' = [inserted EXCEPT ![t] = {}]
    /\ deleted' = [deleted EXCEPT ![t] = {}]

\* All changes take effect at once.
Commit(t) ==
    /\ phase[t] = "active"
    /\ phase' = [phase EXCEPT ![t] = "committed"]
    /\ committed' = (committed \ deleted[t]) \union inserted[t]
    /\ Forget(t)

Abort(t) ==
    /\ phase[t] = "active"
    /\ phase' = [phase EXCEPT ![t] = "aborted"]
    /\ Forget(t)
    /\ UNCHANGED committed

Next == \E t \in Txns : Begin(t) \/ Insert(t) \/ Delete(t) \/ TakeBack(t) \/ Commit(t) \/ Abort(t)

Spec == Init /\ [][Next]_vars

=============================================================================
