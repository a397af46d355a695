----------------------------- MODULE SnapshotMap -----------------------------
(***************************************************************************)
(* What the catalog promises its transactions, abstractly: a map from      *)
(* names to entries under snapshot isolation, where of two concurrent      *)
(* transactions only one may write a name and only a name nobody wrote     *)
(* since it began.  Catalog implements it                                  *)
(* (src/src/catalog/catalog_set.cpp).                                      *)
(***************************************************************************)
CONSTANTS Txns, Names, Entries, None

VARIABLES
    committed,  \* name -> the committed entry, or None
    phase,      \* "none", "active", "committed" or "aborted"
    view,       \* the map as an active transaction sees it
    written     \* the names an active transaction wrote

vars == <<committed, phase, view, written>>

Nothing == [n \in Names |-> None]

Init ==
    /\ committed \in [Names -> Entries \union {None}]
    /\ phase = [t \in Txns |-> "none"]
    /\ view = [t \in Txns |-> Nothing]
    /\ written = [t \in Txns |-> {}]

Begin(t) ==
    /\ phase[t] = "none"
    /\ phase' = [phase EXCEPT ![t] = "active"]
    /\ view' = [view EXCEPT ![t] = committed]
    /\ UNCHANGED <<committed, written>>

\* A statement writes a set of names, all of them or, when it fails, some.
Write(t) ==
    LET before == view[t]
        after == view'[t]
        mine == written[t]
        writes == {n \in Names : after[n] # before[n]} \union (written'[t] \ mine)
        others == UNION {written[u] : u \in Txns \ {t}}
        latest == committed
    IN
    /\ phase[t] = "active"
    /\ UNCHANGED phase
    /\ writes # {}
    /\ after \in [Names -> Entries \union {None}]
    /\ \A n \in writes : n \notin others /\ (n \in mine \/ before[n] = latest[n])
    /\ view' = [view EXCEPT ![t] = after]
    /\ written' = [written EXCEPT ![t] = mine \union writes]
    /\ UNCHANGED committed

\* An ended transaction sees nothing and has written nothing any more.
Forget(t) ==
    /\ view' = [view EXCEPT ![t] = Nothing]
    /\ written' = [written EXCEPT ![t] = {}]

Commit(t) ==
    /\ phase[t] = "active"
    /\ phase' = [phase EXCEPT ![t] = "committed"]
    /\ committed' = [n \in Names |-> IF n \in written[t] THEN view[t][n] ELSE committed[n]]
    /\ Forget(t)

Abort(t) ==
    /\ phase[t] = "active"
    /\ phase' = [phase EXCEPT ![t] = "aborted"]
    /\ Forget(t)
    /\ UNCHANGED committed

Next == \E t \in Txns : Begin(t) \/ Write(t) \/ Commit(t) \/ Abort(t)

Spec == Init /\ [][Next]_vars

=============================================================================
