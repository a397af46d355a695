---------------------------- MODULE DurableStore ----------------------------
(***************************************************************************)
(* What the storage of a database promises its clients: a commit takes     *)
(* effect once and entirely or not at all, and nothing else ever changes   *)
(* the contents -- in particular no crash, restart or checkpoint.          *)
(***************************************************************************)
EXTENDS Naturals

CONSTANTS
    Tables,        \* the tables of the database
    Commits,       \* the numbers of the commits
    Absent,        \* the contents of a table that does not exist
    NoCommit       \* no commit is under way

VARIABLES
    content,       \* for each table how often it holds each change, or Absent
    pending        \* the commit under way: [op, table, number], or NoCommit

vars == <<content, pending>>

\* A table's contents after change number n: an append creates the table, a
\* drop removes it.
Changed(op, old, n) ==
    CASE op = "drop"                    -> Absent
      [] op # "drop" /\ old = Absent    -> [m \in Commits |-> IF m = n THEN 1 ELSE 0]
      [] op # "drop" /\ old # Absent    -> [old EXCEPT ![n] = @ + 1]

After(contents, commit) ==
    [contents EXCEPT ![commit.table] = Changed(commit.op, @, commit.number)]

Init == content = [t \in Tables |-> Absent] /\ pending = NoCommit

Begin ==
    /\ pending = NoCommit
    /\ pending' # NoCommit
    /\ UNCHANGED content

Apply ==
    /\ pending # NoCommit
    /\ content' = After(content, pending)
    /\ pending' = NoCommit

Fail ==
    /\ pending # NoCommit
    /\ pending' = NoCommit
    /\ UNCHANGED content

Next == Begin \/ Apply \/ Fail

Spec == Init /\ [][Next]_vars
=============================================================================
