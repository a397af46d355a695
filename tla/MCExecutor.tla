----------------------------- MODULE MCExecutor -----------------------------
(***************************************************************************)
(* Plans for Executor.                                                     *)
(***************************************************************************)
EXTENDS Executor

CONSTANTS p1, p2, p3, w1

NoDeps == [p \in {p1, p2, p3} |-> {}]
NoReruns == [p \in {p1, p2, p3} |-> <<>>]

\* An aggregate over a join: p3 probes the hash tables that p1 and p2 build.
Join == [deps |-> [NoDeps EXCEPT ![p3] = {p1, p2}], reruns |-> NoReruns, rounds |-> 0,
         workers |-> {w1}]
\* Two pipelines that both wait for one.
Shared == [deps |-> [NoDeps EXCEPT ![p2] = {p1}, ![p3] = {p1}], reruns |-> NoReruns,
           rounds |-> 0, workers |-> {w1}]
\* p1 runs a recursive CTE whose pipeline p3 reads p2, without other threads.
RecursiveAlone ==
    [deps |-> [NoDeps EXCEPT ![p3] = {p2}], reruns |-> [NoReruns EXCEPT ![p1] = <<p2, p3>>],
     rounds |-> 2, workers |-> {}]
\* The same with a worker.
RecursiveParallel == [RecursiveAlone EXCEPT !.workers = {w1}]

PlansThatHold == {Join, Shared, RecursiveAlone}
PlansThatFail == {RecursiveParallel}
=============================================================================
