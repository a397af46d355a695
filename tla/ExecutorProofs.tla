--------------------------- MODULE ExecutorProofs ---------------------------
(***************************************************************************)
(* Proofs about module Executor, for any number of threads and pipelines   *)
(* and any dependencies among them: that tasks are accounted for, that     *)
(* every pipeline has one task that finishes it, that pipelines run after  *)
(* what they depend on, and that the executor leaves when all is done.     *)
(***************************************************************************)
EXTENDS Executor, FiniteSetTheorems, TLAPS

(***************************************************************************)
(* What the theorems assume of the constants.                              *)
(***************************************************************************)
\* No plan has a recursive CTE: one that is run by several threads resets the counters
\* of pipelines whose tasks are still out.
NoRecursiveCTEs == \A pl \in Plans : \A p \in Pipelines : pl.reruns[p] = <<>>
\* Finalize does not throw after it raised total_tasks.
FinalizeIsWhole == "half_finalized" \notin Faults

(***************************************************************************)
(* The inductive invariant.                                                *)
(***************************************************************************)
TaskPlaces == {"push", "execute", "count", "compare", "finalize", "recheck", "finish", "complete",
               "thrown", "undefined"}
BasePlaces == {"idle", "stopped", "init", "head", "drain", "left"}
FrameType == [at : TaskPlaces \cup BasePlaces, pipeline : Pipelines \cup {NoPipeline},
              kind : {"none", "task", "finalize"}, n : Nat, left : SUBSET Pipelines]
TaskType == [pipeline : Pipelines, kind : {"task", "finalize"}]

TypeInv ==
    /\ plan \in Plans
    /\ queue \in Seq(TaskType)
    /\ stack \in [Threads -> Seq(FrameType)]
    /\ finished_tasks \in [Pipelines -> Nat]
    /\ total_tasks \in [Pipelines -> Nat]
    /\ finished_dependencies \in [Pipelines -> Nat]
    /\ finished \subseteq Pipelines
    /\ completed_pipelines \in Nat
    /\ interrupted \in BOOLEAN /\ exceptions \in BOOLEAN
    /\ rounds = [p \in Pipelines |-> 0]

\* The lowest frame of a thread is its loop, the others are of tasks.
Shaped(st) ==
    \A t \in Threads :
      /\ Len(st[t]) >= 1
      /\ st[t][1].at \in IF t = Main THEN {"init", "head", "drain", "left"} ELSE {"idle", "stopped"}
      /\ st[t][1].at \in {"head", "left", "stopped"} => Len(st[t]) = 1
      /\ \A i \in 2 .. Len(st[t]) : st[t][i].at \in TaskPlaces

\* A frame that carries the count its task raised finished_tasks to.
Numbered == {"compare", "finalize", "recheck"}
\* A frame that finishes its pipeline, or will unless Finalize adds tasks.
Claims(f, total) ==
    \/ f.at \in {"finish", "complete"}
    \/ f.at \in Numbered /\ f.n = total[f.pipeline]

\* A pipeline with a frame is scheduled; one of its frames claims it only when all of its
\* tasks are counted, and only until it is finished and its parents are told.
FrameOK(f, done, total, fin) ==
    /\ f.at \in TaskPlaces => f.pipeline \in Pipelines /\ total[f.pipeline] > 0
    /\ f.at = "push" => f.n >= 1 /\ f.kind \in {"task", "finalize"}
    /\ f.at \in Numbered => f.n \in 1 .. done[f.pipeline]
    /\ f.at = "finalize" => f.n = total[f.pipeline]
    /\ Claims(f, total) => /\ done[f.pipeline] = total[f.pipeline]
                           /\ f.pipeline \in fin <=> f.at = "complete"
Framed(st, done, total, fin) ==
    \A t \in Threads : \A i \in DOMAIN st[t] : FrameOK(st[t][i], done, total, fin)

\* No two frames have the same count, and no two claim the same pipeline.
PairOK(f, g, total) ==
    f.pipeline = g.pipeline => /\ ~(Claims(f, total) /\ Claims(g, total))
                               /\ f.at \in Numbered /\ g.at \in Numbered => f.n # g.n
Paired(st, total) ==
    \A t, u \in Threads : \A i \in DOMAIN st[t], j \in DOMAIN st[u] :
      (t # u \/ i # j) => PairOK(st[t][i], st[u][j], total)

\* Tasks that are counted or outstanding were announced, and the other way around.
Counted(tasks, st, done, total) ==
    \A p \in Pipelines :
      /\ IsFiniteSet(Queued(tasks, p)) /\ IsFiniteSet(Held(st, p))
      /\ done[p] + Cardinality(Queued(tasks, p)) + Cardinality(Held(st, p)) <= total[p]
      /\ FinalizeIsWhole =>
           total[p] = done[p] + (Cardinality(Queued(tasks, p)) + Cardinality(Held(st, p)))

\* Some thread completes d; it is yet to tell q.
Completing(st, d) ==
    \E t \in Threads : \E i \in DOMAIN st[t] : st[t][i].at = "complete" /\ st[t][i].pipeline = d
Telling(st, d, q) ==
    \E t \in Threads : \E i \in DOMAIN st[t] :
      st[t][i].at = "complete" /\ st[t][i].pipeline = d /\ q \in st[t][i].left
\* What a frame tells a pipeline is one of its dependencies.
Parented(st, deps) ==
    \A t \in Threads : \A i \in DOMAIN st[t] :
      st[t][i].at = "complete" => \A q \in st[t][i].left : st[t][i].pipeline \in deps[q]
Told(st, deps, fin, q) == {d \in deps[q] : d \in fin /\ ~Telling(st, d, q)}
Completed(st, fin) == {p \in fin : ~Completing(st, p)}

\* finished_dependencies counts the dependencies that are told, and a pipeline is
\* scheduled only when that is all of them.
ToldInv ==
    \A q \in Pipelines :
      /\ finished_dependencies[q] = Cardinality(Told(stack, plan.deps, finished, q))
      /\ total_tasks[q] > 0 => Told(stack, plan.deps, finished, q) = plan.deps[q]
InitialInv ==
    stack[Main][1].at = "init" =>
      \A q \in stack[Main][1].left : plan.deps[q] = {} => total_tasks[q] = 0
FinishedInv ==
    \A p \in finished : total_tasks[p] > 0 /\ finished_tasks[p] = total_tasks[p]
CompletedInv == completed_pipelines = Cardinality(Completed(stack, finished))
LeftInv == stack[Main][1].at = "left" => completed_pipelines >= Cardinality(Regular)

\* The invariant but for what holds once the executor has left.
Core ==
    /\ TypeInv
    /\ Shaped(stack)
    /\ Framed(stack, finished_tasks, total_tasks, finished)
    /\ Paired(stack, total_tasks)
    /\ Parented(stack, plan.deps)
    /\ Counted(queue, stack, finished_tasks, total_tasks)
    /\ ToldInv
    /\ InitialInv
    /\ FinishedInv
    /\ CompletedInv
Inv == Core /\ LeftInv

(***************************************************************************)
(* Stacks.                                                                 *)
(***************************************************************************)
\* The top frame of thread t is replaced by the frames of new.
Moved(st, st2, t, new) ==
    /\ st2 \in [Threads -> Seq(FrameType)]
    /\ \A u \in Threads \ {t} : st2[u] = st[u]
    /\ Len(st2[t]) = Len(st[t]) - 1 + Len(new)
    /\ \A i \in 1 .. (Len(st[t]) - 1) : st2[t][i] = st[t][i]
    /\ \A k \in 1 .. Len(new) : st2[t][Len(st[t]) - 1 + k] = new[k]

\* The threads' stacks before a step of thread t, and what it leaves on t's.
Stacks(st, t) ==
    /\ st \in [Threads -> Seq(FrameType)]
    /\ t \in Threads
    /\ Len(st[t]) >= 1
    /\ Len(st[t]) \in Nat

LEMMA SeqFacts ==
    ASSUME NEW S, NEW s \in Seq(S), Len(s) >= 1
    PROVE  /\ Front(s) \in Seq(S)
           /\ Len(Front(s)) = Len(s) - 1
           /\ \A i \in 1 .. (Len(s) - 1) : Front(s)[i] = s[i]
           /\ Last(s) = s[Len(s)]
           /\ Last(s) \in S
           /\ Len(s) \in Nat
  BY DEF Front, Last

\* A thread returns from its top frame.
LEMMA ReturnMoves ==
    ASSUME NEW st, NEW t, Stacks(st, t)
    PROVE  Moved(st, [st EXCEPT ![t] = Front(@)], t, <<>>)
  <1> DEFINE s == st[t]
             st2 == [st EXCEPT ![t] = Front(@)]
  <1>1. s \in Seq(FrameType) /\ Len(s) >= 1
    BY DEF Stacks
  <1>2. /\ Front(s) \in Seq(FrameType)
        /\ Len(Front(s)) = Len(s) - 1
        /\ \A i \in 1 .. (Len(s) - 1) : Front(s)[i] = s[i]
        /\ Len(s) \in Nat
    BY <1>1, SeqFacts
  <1>3. st2[t] = Front(s) /\ \A u \in Threads \ {t} : st2[u] = st[u]
    BY DEF Stacks
  <1>4. st2 \in [Threads -> Seq(FrameType)]
    BY <1>2 DEF Stacks
  <1> HIDE DEF st2, s
  <1>5. Len(<<>>) = 0
    OBVIOUS
  <1>6. Moved(st, st2, t, <<>>)
    BY <1>2, <1>3, <1>4, <1>5 DEF Moved, s
  <1> QED
    BY <1>6 DEF st2

\* A thread goes on at frame f.
LEMMA BecomeMoves ==
    ASSUME NEW st, NEW t, Stacks(st, t), NEW f \in FrameType
    PROVE  Moved(st, [st EXCEPT ![t] = Append(Front(@), f) \o <<>>], t, <<f>>)
  <1> DEFINE s == st[t]
             r == Append(Front(s), f) \o <<>>
             st2 == [st EXCEPT ![t] = Append(Front(@), f) \o <<>>]
  <1>1. s \in Seq(FrameType) /\ Len(s) >= 1
    BY DEF Stacks
  <1>2. /\ Front(s) \in Seq(FrameType)
        /\ Len(Front(s)) = Len(s) - 1
        /\ \A i \in 1 .. (Len(s) - 1) : Front(s)[i] = s[i]
        /\ Len(s) \in Nat
    BY <1>1, SeqFacts
  <1>3. /\ r \in Seq(FrameType)
        /\ Len(r) = Len(s)
        /\ \A i \in 1 .. (Len(s) - 1) : r[i] = s[i]
        /\ r[Len(s)] = f
    <2> DEFINE a == Append(Front(s), f)
    <2>1. a \in Seq(FrameType) /\ Len(a) = Len(s) /\ a[Len(s)] = f
          /\ \A i \in 1 .. (Len(s) - 1) : a[i] = s[i]
      BY <1>2
    <2> HIDE DEF a
    <2>2. a \o <<>> = a
      BY <2>1
    <2> QED
      BY <2>1, <2>2 DEF a
  <1>4. st2[t] = r /\ \A u \in Threads \ {t} : st2[u] = st[u]
    BY DEF Stacks
  <1>5. st2 \in [Threads -> Seq(FrameType)]
    BY <1>3 DEF Stacks
  <1> HIDE DEF st2, s, r
  <1>6. Len(<<f>>) = 1 /\ <<f>>[1] = f
    OBVIOUS
  <1>7. Moved(st, st2, t, <<f>>)
    <2>1. Len(st2[t]) = Len(st[t]) - 1 + Len(<<f>>)
      BY <1>2, <1>3, <1>4, <1>6 DEF s
    <2>2. \A k \in 1 .. Len(<<f>>) : st2[t][Len(st[t]) - 1 + k] = <<f>>[k]
      BY <1>2, <1>3, <1>4, <1>6 DEF s
    <2> QED
      BY <1>3, <1>4, <1>5, <2>1, <2>2 DEF Moved, s
  <1> QED
    BY <1>7 DEF st2

\* The same, as Goto writes it.
LEMMA GotoMoves ==
    ASSUME NEW st, NEW t, Stacks(st, t), NEW f \in FrameType
    PROVE  Moved(st, [st EXCEPT ![t] = Append(Front(@), f)], t, <<f>>)
  <1> DEFINE s == st[t]
             r == Append(Front(s), f)
             st2 == [st EXCEPT ![t] = Append(Front(@), f)]
  <1>1. s \in Seq(FrameType) /\ Len(s) >= 1
    BY DEF Stacks
  <1>2. /\ Front(s) \in Seq(FrameType)
        /\ Len(Front(s)) = Len(s) - 1
        /\ \A i \in 1 .. (Len(s) - 1) : Front(s)[i] = s[i]
        /\ Len(s) \in Nat
    BY <1>1, SeqFacts
  <1>3. /\ r \in Seq(FrameType)
        /\ Len(r) = Len(s)
        /\ \A i \in 1 .. (Len(s) - 1) : r[i] = s[i]
        /\ r[Len(s)] = f
    BY <1>2
  <1>4. st2[t] = r /\ \A u \in Threads \ {t} : st2[u] = st[u]
    BY DEF Stacks
  <1>5. st2 \in [Threads -> Seq(FrameType)]
    BY <1>3 DEF Stacks
  <1> HIDE DEF st2, s, r
  <1>6. Len(<<f>>) = 1 /\ <<f>>[1] = f
    OBVIOUS
  <1>7. Moved(st, st2, t, <<f>>)
    <2>1. Len(st2[t]) = Len(st[t]) - 1 + Len(<<f>>)
      BY <1>2, <1>3, <1>4, <1>6 DEF s
    <2>2. \A k \in 1 .. Len(<<f>>) : st2[t][Len(st[t]) - 1 + k] = <<f>>[k]
      BY <1>2, <1>3, <1>4, <1>6 DEF s
    <2> QED
      BY <1>3, <1>4, <1>5, <2>1, <2>2 DEF Moved, s
  <1> QED
    BY <1>7 DEF st2

\* A thread goes on at frame f when it has returned from a new frame g.
LEMMA CallMoves ==
    ASSUME NEW st, NEW t, Stacks(st, t), NEW f \in FrameType, NEW g \in FrameType
    PROVE  Moved(st, [st EXCEPT ![t] = Append(Front(@), f) \o <<g>>], t, <<f, g>>)
  <1> DEFINE s == st[t]
             r == Append(Front(s), f) \o <<g>>
             st2 == [st EXCEPT ![t] = Append(Front(@), f) \o <<g>>]
  <1>1. s \in Seq(FrameType) /\ Len(s) >= 1
    BY DEF Stacks
  <1>2. /\ Front(s) \in Seq(FrameType)
        /\ Len(Front(s)) = Len(s) - 1
        /\ \A i \in 1 .. (Len(s) - 1) : Front(s)[i] = s[i]
        /\ Len(s) \in Nat
    BY <1>1, SeqFacts
  <1>3. /\ r \in Seq(FrameType)
        /\ Len(r) = Len(s) + 1
        /\ \A i \in 1 .. (Len(s) - 1) : r[i] = s[i]
        /\ r[Len(s)] = f
        /\ r[Len(s) + 1] = g
    <2> DEFINE a == Append(Front(s), f)
    <2>1. a \in Seq(FrameType) /\ Len(a) = Len(s) /\ a[Len(s)] = f
          /\ \A i \in 1 .. (Len(s) - 1) : a[i] = s[i]
      BY <1>2
    <2> HIDE DEF a
    <2>2. /\ a \o <<g>> \in Seq(FrameType)
          /\ Len(a \o <<g>>) = Len(s) + 1
          /\ \A i \in 1 .. Len(s) : (a \o <<g>>)[i] = a[i]
          /\ (a \o <<g>>)[Len(s) + 1] = g
      <3>1. <<g>> \in Seq(FrameType) /\ Len(<<g>>) = 1 /\ <<g>>[1] = g
        OBVIOUS
      <3> QED
        BY <2>1, <1>2, <3>1
    <2> HIDE DEF s
    <2>3. r = a \o <<g>>
      BY DEF a
    <2> HIDE DEF r
    <2>4. r[Len(s)] = f
      BY <2>1, <2>2, <2>3, <1>1, <1>2
    <2>5. \A i \in 1 .. (Len(s) - 1) : r[i] = s[i]
      BY <2>1, <2>2, <2>3, <1>1, <1>2
    <2> QED
      BY <2>2, <2>3, <2>4, <2>5
  <1>4. st2[t] = r /\ \A u \in Threads \ {t} : st2[u] = st[u]
    BY DEF Stacks
  <1>5. st2 \in [Threads -> Seq(FrameType)]
    BY <1>3 DEF Stacks
  <1> HIDE DEF st2, s, r
  <1>6. Len(<<f, g>>) = 2 /\ <<f, g>>[1] = f /\ <<f, g>>[2] = g
    OBVIOUS
  <1>7. Moved(st, st2, t, <<f, g>>)
    <2>1. Len(st2[t]) = Len(st[t]) - 1 + Len(<<f, g>>)
      BY <1>2, <1>3, <1>4, <1>6 DEF s
    <2>2. \A k \in 1 .. Len(<<f, g>>) : st2[t][Len(st[t]) - 1 + k] = <<f, g>>[k]
      BY <1>2, <1>3, <1>4, <1>6 DEF s
    <2> QED
      BY <1>3, <1>4, <1>5, <2>1, <2>2 DEF Moved, s
  <1> QED
    BY <1>7 DEF st2

\* A frame that is not the one on top of thread t.
Other(st, t, u, j) == u \in Threads /\ j \in DOMAIN st[u] /\ (u # t \/ j # Len(st[t]))

LEMMA Offset ==
    ASSUME NEW a \in Nat, NEW n \in Nat, NEW j \in 1 .. (a - 1 + n), j >= a
    PROVE  j - a + 1 \in 1 .. n /\ j = a - 1 + (j - a + 1)
  OBVIOUS

\* The frames after a step are the others and the new ones.
LEMMA Positions ==
    ASSUME NEW st, NEW st2, NEW t, Stacks(st, t), NEW new \in Seq(FrameType), Moved(st, st2, t, new),
           NEW u \in Threads, NEW j \in DOMAIN st2[u]
    PROVE  \/ Other(st, t, u, j) /\ st2[u][j] = st[u][j]
           \/ u = t /\ \E k \in 1 .. Len(new) : j = Len(st[t]) - 1 + k /\ st2[u][j] = new[k]
  <1>1. CASE u # t
    BY <1>1 DEF Moved, Other, Stacks
  <1>2. CASE u = t
    <2>0. st2[t] \in Seq(FrameType) /\ Len(new) \in Nat /\ Len(st[t]) \in Nat /\ st[t] \in Seq(FrameType)
      BY DEF Moved, Stacks
    <2>1. j \in 1 .. (Len(st[t]) - 1 + Len(new))
      BY <1>2, <2>0 DEF Moved
    <2>2. CASE j < Len(st[t])
      <3>1. j \in DOMAIN st[t] /\ j \in 1 .. (Len(st[t]) - 1)
        BY <2>0, <2>1, <2>2
      <3>2. st2[t][j] = st[t][j]
        BY <3>1 DEF Moved
      <3> QED
        BY <1>2, <2>0, <2>2, <3>1, <3>2 DEF Other, Stacks
    <2>3. CASE j >= Len(st[t])
      <3> DEFINE k == j - Len(st[t]) + 1
      <3>1. k \in 1 .. Len(new) /\ j = Len(st[t]) - 1 + k
        BY <2>0, <2>1, <2>3, Offset
      <3>2. st2[t][Len(st[t]) - 1 + k] = new[k]
        BY <3>1 DEF Moved
      <3> HIDE DEF k
      <3> QED
        BY <1>2, <3>1, <3>2
    <2> QED
      BY <2>0, <2>1, <2>2, <2>3
  <1> QED
    BY <1>1, <1>2

LEMMA OthersStay ==
    ASSUME NEW st, NEW st2, NEW t, Stacks(st, t), NEW new \in Seq(FrameType), Moved(st, st2, t, new),
           NEW u, NEW j, Other(st, t, u, j)
    PROVE  u \in Threads /\ j \in DOMAIN st2[u] /\ st2[u][j] = st[u][j]
           /\ (u = t => j < Len(st[t]))
  <1>1. CASE u # t
    BY <1>1 DEF Moved, Other, Stacks
  <1>2. CASE u = t
    <2>0. st2[t] \in Seq(FrameType) /\ Len(new) \in Nat /\ Len(st[t]) \in Nat /\ st[t] \in Seq(FrameType)
      BY DEF Moved, Stacks
    <2>1. j \in 1 .. (Len(st[t]) - 1)
      BY <1>2, <2>0 DEF Other
    <2>2. st2[t][j] = st[t][j]
      BY <2>1 DEF Moved
    <2>3. j \in 1 .. Len(st2[t])
      BY <2>0, <2>1 DEF Moved
    <2> QED
      BY <1>2, <2>0, <2>1, <2>2, <2>3 DEF Other
  <1> QED
    BY <1>1, <1>2

NewThere(st, st2, t, new) ==
    \A k \in 1 .. Len(new) :
      Len(st[t]) - 1 + k \in DOMAIN st2[t] /\ st2[t][Len(st[t]) - 1 + k] = new[k]

LEMMA NewStay ==
    ASSUME NEW st, NEW st2, NEW t, Stacks(st, t), NEW new \in Seq(FrameType), Moved(st, st2, t, new)
    PROVE  NewThere(st, st2, t, new)
  <1>0. st2[t] \in Seq(FrameType) /\ Len(new) \in Nat /\ Len(st[t]) \in Nat /\ Len(st[t]) >= 1
    BY DEF Moved, Stacks
  <1>1. \A k \in 1 .. Len(new) : Len(st[t]) - 1 + k \in 1 .. Len(st2[t])
    BY <1>0 DEF Moved
  <1> QED
    BY <1>0, <1>1 DEF Moved, NewThere

(***************************************************************************)
(* Counting tasks.                                                         *)
(***************************************************************************)
Tokens(t, i, w) == {<<t, i, k>> : k \in 1 .. w}

LEMMA TokenCount ==
    ASSUME NEW t, NEW i, NEW w \in Nat
    PROVE  IsFiniteSet(Tokens(t, i, w)) /\ Cardinality(Tokens(t, i, w)) = w
  <1> DEFINE f == [k \in 1 .. w |-> <<t, i, k>>]
  <1>1. IsFiniteSet(1 .. w) /\ Cardinality(1 .. w) = w
    <2>1. IsFiniteSet(1 .. w) /\ Cardinality(1 .. w) = IF 1 > w THEN 0 ELSE w - 1 + 1
      BY FS_Interval
    <2> QED
      BY <2>1
  <1>2. f \in Bijection(1 .. w, Tokens(t, i, w))
    <2>1. f \in [1 .. w -> Tokens(t, i, w)]
      BY DEF Tokens
    <2>2. \A a, b \in 1 .. w : f[a] = f[b] => a = b
      OBVIOUS
    <2>3. \A x \in Tokens(t, i, w) : \E k \in 1 .. w : f[k] = x
      BY DEF Tokens
    <2> QED
      BY <2>1, <2>2, <2>3 DEF Bijection, Injection, Surjection, IsInjective
  <1>3. ExistsBijection(1 .. w, Tokens(t, i, w))
    BY <1>2 DEF ExistsBijection
  <1> QED
    BY <1>1, <1>3, FS_Bijection

LEMMA DisjointCount ==
    ASSUME NEW S, NEW T, IsFiniteSet(S), IsFiniteSet(T), S \cap T = {}
    PROVE  IsFiniteSet(S \cup T) /\ Cardinality(S \cup T) = Cardinality(S) + Cardinality(T)
  <1>1. /\ IsFiniteSet(S \cup T)
        /\ Cardinality(S \cup T) = Cardinality(S) + Cardinality(T) - Cardinality(S \cap T)
    BY FS_Union
  <1>2. Cardinality(S \cap T) = 0
    BY FS_EmptySet
  <1>3. Cardinality(S) \in Nat /\ Cardinality(T) \in Nat
    BY FS_CardinalityType
  <1> QED
    BY <1>1, <1>2, <1>3

LEMMA TasksInType ==
    ASSUME NEW f \in FrameType, NEW p
    PROVE  TasksIn(f, p) \in Nat
  BY DEF TasksIn, FrameType

\* How many tasks of p new frames stand for.
Weight(new, p) ==
    IF Len(new) = 0 THEN 0
    ELSE IF Len(new) = 1 THEN TasksIn(new[1], p)
    ELSE TasksIn(new[1], p) + TasksIn(new[2], p)

LEMMA HeldElements ==
    ASSUME NEW st, NEW p, NEW x
    PROVE  x \in Held(st, p) <=>
             \E u \in Threads : \E j \in DOMAIN st[u] : x \in Tokens(u, j, TasksIn(st[u][j], p))
  BY DEF Held, Tokens

\* A step changes the tasks held by as much as its new frames differ from the old one.
LEMMA HeldMoves ==
    ASSUME NEW st, NEW st2, NEW t, Stacks(st, t), NEW new \in Seq(FrameType), Moved(st, st2, t, new),
           NEW p, IsFiniteSet(Held(st, p)), Len(new) \in 0 .. 2
    PROVE  /\ IsFiniteSet(Held(st2, p))
           /\ Cardinality(Held(st, p)) \in Nat
           /\ Cardinality(Held(st2, p)) \in Nat
           /\ Cardinality(Held(st2, p)) =
                Cardinality(Held(st, p)) - TasksIn(st[t][Len(st[t])], p) + Weight(new, p)
  <1> DEFINE n == Len(st[t])
             top == TasksIn(st[t][n], p)
             rest == {x \in Held(st, p) : \E u, j : Other(st, t, u, j) /\ x \in Tokens(u, j, TasksIn(st[u][j], p))}
             Add(k) == TasksIn(new[k], p)
  <1>1. n \in Nat /\ n >= 1 /\ st[t] \in Seq(FrameType) /\ st[t][n] \in FrameType /\ n \in DOMAIN st[t] /\ t \in Threads
    BY DEF Stacks
  <1>2. top \in Nat
    BY <1>1, TasksInType
  <1>3. \A k \in 1 .. Len(new) : Add(k) \in Nat
    BY TasksInType
  <1>3a. \A k \in 1 .. Len(new) : n - 1 + k \in DOMAIN st2[t] /\ st2[t][n - 1 + k] = new[k]
    <2>1. NewThere(st, st2, t, new)
      BY NewStay
    <2> QED
      BY <2>1 DEF NewThere
  <1> HIDE DEF n, top, rest, Add
  <1>4. Held(st, p) = rest \cup Tokens(t, n, top)
    <2>1. ASSUME NEW x \in Held(st, p) PROVE x \in rest \cup Tokens(t, n, top)
      <3>0. PICK u \in Threads : \E j \in DOMAIN st[u] : x \in Tokens(u, j, TasksIn(st[u][j], p))
        BY HeldElements
      <3>1. PICK j \in DOMAIN st[u] : x \in Tokens(u, j, TasksIn(st[u][j], p))
        BY <3>0
      <3>2. CASE u = t /\ j = n
        BY <3>1, <3>2 DEF top
      <3>3. CASE ~(u = t /\ j = n)
        BY <3>1, <3>3 DEF rest, Other, n
      <3> QED
        BY <3>2, <3>3
    <2>2. ASSUME NEW x \in Tokens(t, n, top) PROVE x \in Held(st, p)
      BY <2>2, <1>1, HeldElements DEF top
    <2>3. rest \subseteq Held(st, p)
      BY DEF rest
    <2> QED
      BY <2>1, <2>2, <2>3
  <1>5. \A x \in rest : ~(x[1] = t /\ x[2] = n)
    BY DEF rest, Other, Tokens, n
  <1>6. rest \cap Tokens(t, n, top) = {}
    BY <1>5 DEF Tokens
  <1>7. /\ IsFiniteSet(rest)
        /\ Cardinality(Held(st, p)) = Cardinality(rest) + top
        /\ Cardinality(rest) \in Nat
    <2>1. IsFiniteSet(rest)
      BY FS_Subset DEF rest
    <2> QED
      BY <1>2, <1>4, <1>6, <2>1, TokenCount, DisjointCount, FS_CardinalityType
  <1>8. \A x : x \in Held(st2, p) <=> x \in rest \/ \E k \in 1 .. Len(new) : x \in Tokens(t, n - 1 + k, Add(k))
    <2> TAKE x
    <2>1. ASSUME x \in Held(st2, p)
          PROVE  x \in rest \/ \E k \in 1 .. Len(new) : x \in Tokens(t, n - 1 + k, Add(k))
      <3>0. PICK u \in Threads : \E j \in DOMAIN st2[u] : x \in Tokens(u, j, TasksIn(st2[u][j], p))
        BY <2>1, HeldElements
      <3>1. PICK j \in DOMAIN st2[u] : x \in Tokens(u, j, TasksIn(st2[u][j], p))
        BY <3>0
      <3>2. CASE Other(st, t, u, j) /\ st2[u][j] = st[u][j]
        <4>1. x \in Held(st, p)
          BY <3>1, <3>2, HeldElements DEF Other
        <4> QED
          BY <3>1, <3>2, <4>1 DEF rest
      <3>3. CASE u = t /\ \E k \in 1 .. Len(new) : j = Len(st[t]) - 1 + k /\ st2[u][j] = new[k]
        BY <3>1, <3>3 DEF n, Add
      <3> QED
        BY <3>2, <3>3, Positions
    <2>2. ASSUME x \in rest PROVE x \in Held(st2, p)
      <3>1. PICK u, j : Other(st, t, u, j) /\ x \in Tokens(u, j, TasksIn(st[u][j], p))
        BY <2>2 DEF rest
      <3>2. u \in Threads /\ j \in DOMAIN st2[u] /\ st2[u][j] = st[u][j]
        BY <3>1, OthersStay
      <3> QED
        BY <3>1, <3>2, HeldElements
    <2>3. ASSUME NEW k \in 1 .. Len(new), x \in Tokens(t, n - 1 + k, Add(k)) PROVE x \in Held(st2, p)
      <3> QED
        BY <1>1, <2>3, <1>3a, HeldElements DEF Add
    <2> QED
      BY <2>1, <2>2, <2>3
  <1>9. CASE Len(new) = 0
    <2>1. Held(st2, p) = rest
      BY <1>8, <1>9
    <2> QED
      BY <1>2, <1>7, <1>9, <2>1 DEF Weight, top, n
  <1>10. CASE Len(new) = 1
    <2>1. Held(st2, p) = rest \cup Tokens(t, n, Add(1))
      BY <1>1, <1>8, <1>10
    <2>2. rest \cap Tokens(t, n, Add(1)) = {}
      BY <1>5 DEF Tokens
    <2>3. Add(1) \in Nat
      BY <1>3, <1>10
    <2>4. IsFiniteSet(Held(st2, p)) /\ Cardinality(Held(st2, p)) = Cardinality(rest) + Add(1)
      <3> DEFINE a == Tokens(t, n, Add(1))
      <3>1. IsFiniteSet(a) /\ Cardinality(a) = Add(1)
        BY <2>3, TokenCount
      <3>2. rest \cap a = {} /\ Held(st2, p) = rest \cup a
        BY <2>1, <2>2
      <3> HIDE DEF a
      <3> QED
        BY <1>7, <3>1, <3>2, DisjointCount
    <2>5. Weight(new, p) = Add(1)
      BY <1>10 DEF Weight, Add
    <2> QED
      BY <1>2, <1>7, <2>3, <2>4, <2>5 DEF top, n
  <1>11. CASE Len(new) = 2
    <2> DEFINE a == Tokens(t, n, Add(1))
               b == Tokens(t, n + 1, Add(2))
    <2>1. Held(st2, p) = (rest \cup a) \cup b
      BY <1>1, <1>8, <1>11
    <2>2. rest \cap a = {}
      BY <1>5 DEF Tokens
    <2>3. \A x \in rest : ~(x[1] = t /\ x[2] = n + 1)
      <3>1. \A u, j : Other(st, t, u, j) => ~(u = t /\ j = n + 1)
        BY <1>1 DEF Other, n
      <3> QED
        BY <3>1 DEF rest, Tokens
    <2>4. (rest \cup a) \cap b = {}
      BY <1>1, <2>3 DEF Tokens
    <2>5. Add(1) \in Nat /\ Add(2) \in Nat
      BY <1>3, <1>11
    <2>6. IsFiniteSet(a) /\ Cardinality(a) = Add(1) /\ IsFiniteSet(b) /\ Cardinality(b) = Add(2)
      BY <2>5, TokenCount
    <2> HIDE DEF a, b
    <2>7. IsFiniteSet(rest \cup a) /\ Cardinality(rest \cup a) = Cardinality(rest) + Add(1)
      BY <1>7, <2>2, <2>6, DisjointCount
    <2>8. IsFiniteSet(Held(st2, p)) /\ Cardinality(Held(st2, p)) = Cardinality(rest) + Add(1) + Add(2)
      BY <2>1, <2>4, <2>6, <2>7, DisjointCount
    <2>9. Weight(new, p) = Add(1) + Add(2)
      BY <1>11 DEF Weight, Add
    <2> QED
      BY <1>2, <1>7, <2>5, <2>8, <2>9 DEF top, n
  <1> QED
    BY <1>9, <1>10, <1>11

\* A task more, or the first one less, in the queue.
LEMMA QueuedAppend ==
    ASSUME NEW q \in Seq(TaskType), NEW x \in TaskType, NEW p, IsFiniteSet(Queued(q, p))
    PROVE  /\ IsFiniteSet(Queued(Append(q, x), p))
           /\ Cardinality(Queued(q, p)) \in Nat
           /\ Cardinality(Queued(Append(q, x), p)) =
                Cardinality(Queued(q, p)) + (IF x.pipeline = p THEN 1 ELSE 0)
  <1> DEFINE r == Append(q, x)
             m == Len(q) + 1
  <1>1. DOMAIN r = 1 .. m /\ r[m] = x /\ (\A i \in DOMAIN q : r[i] = q[i]) /\ DOMAIN q = 1 .. (m - 1)
        /\ m \in Nat /\ m >= 1
    OBVIOUS
  <1> HIDE DEF r, m
  <1>2. CASE x.pipeline = p
    <2>1. Queued(r, p) = Queued(q, p) \cup {m}
      <3>1. DOMAIN r = DOMAIN q \cup {m}
        BY ONLY <1>1
      <3> QED
        <4>1. \A i \in DOMAIN q : i \in DOMAIN r /\ r[i] = q[i] /\ i # m
          BY ONLY <1>1
        <4>2. m \in DOMAIN r /\ r[m].pipeline = p
          BY ONLY <1>1, <1>2
        <4> QED
          BY <3>1, <4>1, <4>2, Zenon DEF Queued
    <2>2. m \notin Queued(q, p)
      BY <1>1 DEF Queued
    <2> QED
      BY <1>2, <2>1, <2>2, FS_AddElement, FS_CardinalityType DEF r
  <1>3. CASE x.pipeline # p
    <2>1. Queued(r, p) = Queued(q, p)
      BY <1>1, <1>3 DEF Queued
    <2> QED
      BY <1>3, <2>1, FS_CardinalityType DEF r
  <1> QED
    BY <1>2, <1>3

LEMMA QueuedTail ==
    ASSUME NEW q \in Seq(TaskType), q # <<>>, NEW p, IsFiniteSet(Queued(q, p))
    PROVE  /\ IsFiniteSet(Queued(Tail(q), p))
           /\ Cardinality(Queued(q, p)) \in Nat
           /\ Cardinality(Queued(Tail(q), p)) =
                Cardinality(Queued(q, p)) - (IF Head(q).pipeline = p THEN 1 ELSE 0)
  <1> DEFINE r == Tail(q)
             S == Queued(q, p) \ {1}
             f == [i \in S |-> i - 1]
  <1>1. /\ Len(q) \in Nat /\ Len(q) >= 1
        /\ DOMAIN r = 1 .. (Len(q) - 1) /\ DOMAIN q = 1 .. Len(q)
        /\ \A i \in 1 .. (Len(q) - 1) : r[i] = q[i + 1]
        /\ Head(q) = q[1]
    OBVIOUS
  <1> HIDE DEF r
  <1>2. IsFiniteSet(S) /\ Cardinality(S) = Cardinality(Queued(q, p)) - (IF 1 \in Queued(q, p) THEN 1 ELSE 0)
        /\ Cardinality(Queued(q, p)) \in Nat
    BY FS_RemoveElement, FS_CardinalityType
  <1>3. 1 \in Queued(q, p) <=> Head(q).pipeline = p
    BY <1>1 DEF Queued
  <1>4. f \in Bijection(S, Queued(r, p))
    <2>1. \A i \in S : i \in Int /\ i - 1 \in Queued(r, p)
      BY <1>1 DEF Queued
    <2>2. f \in [S -> Queued(r, p)]
      BY <2>1
    <2>3. \A i, j \in S : f[i] = f[j] => i = j
      BY <2>1
    <2>4. \A k \in Queued(r, p) : \E i \in S : f[i] = k
      <3> TAKE k \in Queued(r, p)
      <3>1. k \in Int /\ k + 1 \in S
        BY <1>1 DEF Queued
      <3>2. f[k + 1] = k
        BY <3>1
      <3> QED
        BY <3>1, <3>2
    <2> HIDE DEF f
    <2>5. DOMAIN f = S
      BY <2>2
    <2> QED
      BY <2>2, <2>3, <2>4, <2>5 DEF Bijection, Injection, Surjection, IsInjective
  <1>5. ExistsBijection(S, Queued(r, p))
    BY <1>4 DEF ExistsBijection
  <1>6. IsFiniteSet(Queued(r, p)) /\ Cardinality(Queued(r, p)) = Cardinality(S)
    BY <1>2, <1>5, FS_Bijection
  <1> QED
    BY <1>2, <1>3, <1>6 DEF r

(***************************************************************************)
(* What a step of one thread does to the parts of the invariant.           *)
(***************************************************************************)
LEMMA FramedMoves ==
    ASSUME NEW st, NEW st2, NEW t, Stacks(st, t), NEW new \in Seq(FrameType), Moved(st, st2, t, new),
           NEW done, NEW total, NEW fin,
           \A u, j : Other(st, t, u, j) => FrameOK(st[u][j], done, total, fin),
           \A k \in 1 .. Len(new) : FrameOK(new[k], done, total, fin)
    PROVE  Framed(st2, done, total, fin)
  <1> SUFFICES ASSUME NEW u \in Threads, NEW j \in DOMAIN st2[u]
               PROVE  FrameOK(st2[u][j], done, total, fin)
    BY DEF Framed
  <1>1. \/ Other(st, t, u, j) /\ st2[u][j] = st[u][j]
        \/ u = t /\ \E k \in 1 .. Len(new) : j = Len(st[t]) - 1 + k /\ st2[u][j] = new[k]
    BY Positions
  <1>2. CASE Other(st, t, u, j) /\ st2[u][j] = st[u][j]
    BY <1>2, Zenon
  <1>3. CASE \E k \in 1 .. Len(new) : st2[u][j] = new[k]
    BY <1>3, Zenon
  <1> QED
    BY <1>1, <1>2, <1>3

LEMMA PairSymmetric ==
    ASSUME NEW f, NEW g, NEW total, PairOK(f, g, total)
    PROVE  PairOK(g, f, total)
  BY DEF PairOK

LEMMA PairedMoves ==
    ASSUME NEW st, NEW st2, NEW t, Stacks(st, t), NEW new \in Seq(FrameType), Moved(st, st2, t, new),
           NEW total,
           \A u, v, i, j : Other(st, t, u, i) /\ Other(st, t, v, j) /\ (u # v \/ i # j)
                             => PairOK(st[u][i], st[v][j], total),
           \A u, i : Other(st, t, u, i) => \A k \in 1 .. Len(new) : PairOK(st[u][i], new[k], total),
           \A k, l \in 1 .. Len(new) : k # l => PairOK(new[k], new[l], total)
    PROVE  Paired(st2, total)
  <1> SUFFICES ASSUME NEW u \in Threads, NEW v \in Threads, NEW i \in DOMAIN st2[u], NEW j \in DOMAIN st2[v],
                      u # v \/ i # j
               PROVE  PairOK(st2[u][i], st2[v][j], total)
    BY DEF Paired
  <1> DEFINE NewAt(w, h) == w = t /\ \E k \in 1 .. Len(new) : h = Len(st[t]) - 1 + k /\ st2[w][h] = new[k]
             OldAt(w, h) == Other(st, t, w, h) /\ st2[w][h] = st[w][h]
  <1>1. OldAt(u, i) \/ NewAt(u, i)
    BY Positions
  <1>2. OldAt(v, j) \/ NewAt(v, j)
    BY Positions
  <1>3. CASE OldAt(u, i) /\ OldAt(v, j)
    BY <1>3, Zenon
  <1>4. CASE OldAt(u, i) /\ NewAt(v, j)
    BY <1>4, Zenon
  <1>5. CASE NewAt(u, i) /\ OldAt(v, j)
    <2>1. PairOK(st2[v][j], st2[u][i], total)
      BY <1>5, Zenon
    <2> QED
      BY <2>1, PairSymmetric
  <1>6. CASE NewAt(u, i) /\ NewAt(v, j)
    <2>1. PICK k \in 1 .. Len(new) : i = Len(st[t]) - 1 + k /\ st2[u][i] = new[k]
      BY <1>6
    <2>2. PICK l \in 1 .. Len(new) : j = Len(st[t]) - 1 + l /\ st2[v][j] = new[l]
      BY <1>6
    <2>3. u = v
      BY <1>6
    <2>4. k # l
      BY <2>1, <2>2, <2>3
    <2> QED
      BY <2>1, <2>2, <2>4, Zenon
  <1> QED
    BY <1>1, <1>2, <1>3, <1>4, <1>5, <1>6

\* A frame that neither has a count nor claims its pipeline, and one that goes on where
\* another frame with the same count or claim was.
Neutral(g) == g.at \notin Numbered /\ g.at \notin {"finish", "complete"}
Continues(g, f, total) ==
    /\ g.pipeline = f.pipeline
    /\ Claims(g, total) => Claims(f, total)
    /\ g.at \in Numbered => f.at \in Numbered /\ g.n = f.n
Succeeds(st, t, new, total) ==
    /\ Len(new) \in 0 .. 2
    /\ Len(new) >= 1 => Neutral(new[1]) \/ Continues(new[1], st[t][Len(st[t])], total)
    /\ Len(new) = 2 => Neutral(new[2])

LEMMA NeutralPairs ==
    ASSUME NEW f, NEW g, NEW total, Neutral(g)
    PROVE  PairOK(f, g, total) /\ PairOK(g, f, total)
  BY DEF PairOK, Neutral, Claims

LEMMA ContinuesPairs ==
    ASSUME NEW f, NEW g, NEW h, NEW total, Continues(g, f, total), PairOK(h, f, total)
    PROVE  PairOK(h, g, total)
  BY DEF PairOK, Continues

LEMMA PairedSucceeds ==
    ASSUME NEW st, NEW st2, NEW t, Stacks(st, t), NEW new \in Seq(FrameType), Moved(st, st2, t, new),
           NEW total, Paired(st, total), Succeeds(st, t, new, total)
    PROVE  Paired(st2, total)
  <1> DEFINE n == Len(st[t])
  <1>0. t \in Threads /\ n \in DOMAIN st[t]
    BY DEF Stacks
  <1>1. \A u, v, i, j : Other(st, t, u, i) /\ Other(st, t, v, j) /\ (u # v \/ i # j)
                             => PairOK(st[u][i], st[v][j], total)
    BY Zenon DEF Paired, Other
  <1>2. \A u, i : Other(st, t, u, i) => PairOK(st[u][i], st[t][n], total)
    BY <1>0, Zenon DEF Paired, Other
  <1>3. \A k \in 1 .. Len(new) : k = 1 \/ (k = 2 /\ Len(new) = 2)
    <2>1. Len(new) \in 0 .. 2
      BY DEF Succeeds
    <2>2. \A m \in 0 .. 2 : \A k \in 1 .. m : k = 1 \/ (k = 2 /\ m = 2)
      OBVIOUS
    <2> QED
      BY <2>1, <2>2, Zenon
  <1>4. ASSUME NEW u, NEW i, Other(st, t, u, i), NEW k \in 1 .. Len(new)
        PROVE  PairOK(st[u][i], new[k], total)
    <2>1. PairOK(st[u][i], st[t][n], total)
      BY <1>2, <1>4, Zenon
    <2>2. CASE k = 1
      <3>1. Neutral(new[1]) \/ Continues(new[1], st[t][n], total)
        BY <2>2 DEF Succeeds
      <3> QED
        BY <2>1, <2>2, <3>1, NeutralPairs, ContinuesPairs
    <2>3. CASE k = 2 /\ Len(new) = 2
      BY <2>3, NeutralPairs DEF Succeeds
    <2> QED
      BY <1>3, <2>2, <2>3
  <1>5. ASSUME NEW k \in 1 .. Len(new), NEW l \in 1 .. Len(new), k # l
        PROVE  PairOK(new[k], new[l], total)
    <2>1. Len(new) = 2 /\ (k = 2 \/ l = 2)
      BY <1>3, <1>5
    <2>2. Neutral(new[2])
      BY <2>1 DEF Succeeds
    <2> QED
      BY <2>1, <2>2, NeutralPairs
  <1> HIDE DEF n
  <1> QED
    BY <1>1, <1>4, <1>5, PairedMoves

\* The lowest frame of a thread stays a loop, and what is above it are tasks.
ShapeStep(st, t, new) ==
    IF Len(st[t]) = 1
      THEN /\ Len(new) >= 1
           /\ new[1].at \in IF t = Main THEN {"init", "head", "drain", "left"} ELSE {"idle", "stopped"}
           /\ new[1].at \in {"head", "left", "stopped"} => Len(new) = 1
           /\ \A k \in 2 .. Len(new) : new[k].at \in TaskPlaces
      ELSE \A k \in 1 .. Len(new) : new[k].at \in TaskPlaces

LEMMA ShapedMoves ==
    ASSUME NEW st, NEW st2, NEW t, Stacks(st, t), NEW new \in Seq(FrameType), Moved(st, st2, t, new),
           Shaped(st), ShapeStep(st, t, new)
    PROVE  Shaped(st2)
  <1> DEFINE Good(s, u) ==
               /\ Len(s[u]) >= 1
               /\ s[u][1].at \in IF u = Main THEN {"init", "head", "drain", "left"} ELSE {"idle", "stopped"}
               /\ s[u][1].at \in {"head", "left", "stopped"} => Len(s[u]) = 1
               /\ \A i \in 2 .. Len(s[u]) : s[u][i].at \in TaskPlaces
  <1>0. /\ Len(st[t]) \in Nat /\ Len(st[t]) >= 1 /\ Len(new) \in Nat /\ t \in Threads
        /\ Len(st2[t]) = Len(st[t]) - 1 + Len(new)
        /\ \A i \in 1 .. (Len(st[t]) - 1) : st2[t][i] = st[t][i]
        /\ \A k \in 1 .. Len(new) : st2[t][Len(st[t]) - 1 + k] = new[k]
    BY DEF Stacks, Moved
  <1>1. ASSUME NEW u \in Threads, u # t PROVE Good(st2, u)
    BY <1>1 DEF Shaped, Moved
  <1>2. CASE Len(st[t]) = 1
    <2>1. Len(st2[t]) = Len(new) /\ \A k \in 1 .. Len(new) : st2[t][k] = new[k]
      BY <1>0, <1>2
    <2>2. /\ Len(new) >= 1
          /\ new[1].at \in IF t = Main THEN {"init", "head", "drain", "left"} ELSE {"idle", "stopped"}
          /\ new[1].at \in {"head", "left", "stopped"} => Len(new) = 1
          /\ \A k \in 2 .. Len(new) : new[k].at \in TaskPlaces
      BY <1>2 DEF ShapeStep
    <2>3. Good(st2, t)
      BY <1>0, <2>1, <2>2
    <2> QED
      BY <1>1, <2>3 DEF Shaped
  <1>3. CASE Len(st[t]) # 1
    <2>1. \A k \in 1 .. Len(new) : new[k].at \in TaskPlaces
      BY <1>3 DEF ShapeStep
    <2>2. st2[t][1] = st[t][1] /\ Len(st2[t]) >= 1
      <3>0. \A m \in Nat : m >= 1 /\ m # 1 => m >= 2
        OBVIOUS
      <3>1. Len(st[t]) >= 2
        BY <1>0, <1>3, <3>0, Zenon
      <3>2. 1 \in 1 .. (Len(st[t]) - 1)
        BY <1>0, <3>1
      <3>3. Len(st2[t]) >= 1
        BY <1>0, <3>1
      <3>4. st2[t][1] = st[t][1]
        BY <1>0, <3>2, Zenon
      <3> QED
        BY <3>3, <3>4
    <2>3. Good(st, t)
      BY <1>0 DEF Shaped
    <2>4. ASSUME NEW i \in 2 .. Len(st2[t]) PROVE st2[t][i].at \in TaskPlaces
      <3>1. CASE i < Len(st[t])
        BY <1>0, <2>3, <3>1
      <3>2. CASE i >= Len(st[t])
        <4>1. i - Len(st[t]) + 1 \in 1 .. Len(new) /\ i = Len(st[t]) - 1 + (i - Len(st[t]) + 1)
          <5>1. i \in 1 .. (Len(st[t]) - 1 + Len(new))
            BY <1>0
          <5> QED
            BY <1>0, <3>2, <5>1, Offset
        <4> QED
          BY <1>0, <2>1, <4>1
      <3> QED
        BY <1>0, <3>1, <3>2
    <2>5. Good(st2, t)
      BY <1>0, <1>3, <2>2, <2>3, <2>4
    <2> QED
      BY <1>1, <2>5 DEF Shaped
  <1> QED
    BY <1>2, <1>3

\* A step without frames that complete a pipeline leaves alone who is told and completed.
LEMMA TellingStays ==
    ASSUME NEW st, NEW st2, NEW t, Stacks(st, t), NEW new \in Seq(FrameType), Moved(st, st2, t, new),
           st[t][Len(st[t])].at # "complete",
           \A k \in 1 .. Len(new) : new[k].at # "complete"
    PROVE  /\ \A d, q : Telling(st2, d, q) <=> Telling(st, d, q)
           /\ \A d : Completing(st2, d) <=> Completing(st, d)
  <1>1. ASSUME NEW u \in Threads, NEW j \in DOMAIN st2[u], st2[u][j].at = "complete"
        PROVE  j \in DOMAIN st[u] /\ st[u][j] = st2[u][j]
    <2>1. \/ Other(st, t, u, j) /\ st2[u][j] = st[u][j]
          \/ u = t /\ \E k \in 1 .. Len(new) : j = Len(st[t]) - 1 + k /\ st2[u][j] = new[k]
      BY Positions
    <2>2. ~\E k \in 1 .. Len(new) : st2[u][j] = new[k]
      BY <1>1, Zenon
    <2> QED
      BY <2>1, <2>2, Zenon DEF Other
  <1>2. ASSUME NEW u \in Threads, NEW j \in DOMAIN st[u], st[u][j].at = "complete"
        PROVE  j \in DOMAIN st2[u] /\ st2[u][j] = st[u][j]
    <2>1. Other(st, t, u, j)
      BY <1>2 DEF Other
    <2> QED
      BY <2>1, OthersStay
  <1>3. \A u \in Threads : \A j : (j \in DOMAIN st2[u] /\ st2[u][j].at = "complete") =>
                                 j \in DOMAIN st[u] /\ st[u][j] = st2[u][j]
    BY <1>1
  <1>4. \A u \in Threads : \A j : (j \in DOMAIN st[u] /\ st[u][j].at = "complete") =>
                                 j \in DOMAIN st2[u] /\ st2[u][j] = st[u][j]
    BY <1>2
  <1>5. \A d, q : Telling(st2, d, q) => Telling(st, d, q)
    BY <1>3, Zenon DEF Telling
  <1>6. \A d, q : Telling(st, d, q) => Telling(st2, d, q)
    BY <1>4, Zenon DEF Telling
  <1>7. \A d : Completing(st2, d) => Completing(st, d)
    BY <1>3, Zenon DEF Completing
  <1>8. \A d : Completing(st, d) => Completing(st2, d)
    BY <1>4, Zenon DEF Completing
  <1> QED
    BY <1>5, <1>6, <1>7, <1>8, Zenon

LEMMA ParentedStays ==
    ASSUME NEW st, NEW st2, NEW t, Stacks(st, t), NEW new \in Seq(FrameType), Moved(st, st2, t, new),
           NEW deps, Parented(st, deps),
           \A k \in 1 .. Len(new) :
             new[k].at = "complete" => \A q \in new[k].left : new[k].pipeline \in deps[q]
    PROVE  Parented(st2, deps)
  <1> SUFFICES ASSUME NEW u \in Threads, NEW j \in DOMAIN st2[u], st2[u][j].at = "complete",
                      NEW q \in st2[u][j].left
               PROVE  st2[u][j].pipeline \in deps[q]
    BY DEF Parented
  <1>1. \/ Other(st, t, u, j) /\ st2[u][j] = st[u][j]
        \/ u = t /\ \E k \in 1 .. Len(new) : j = Len(st[t]) - 1 + k /\ st2[u][j] = new[k]
    BY Positions
  <1>2. CASE Other(st, t, u, j) /\ st2[u][j] = st[u][j]
    BY <1>2, Zenon DEF Other, Parented
  <1>3. CASE \E k \in 1 .. Len(new) : st2[u][j] = new[k]
    BY <1>3, Zenon
  <1> QED
    BY <1>1, <1>2, <1>3

LEMMA TopFacts ==
    ASSUME Core, NEW t \in Threads
    PROVE  /\ Stacks(stack, t)
           /\ Top(t) = stack[t][Len(stack[t])]
           /\ Top(t) \in FrameType
           /\ Len(stack[t]) = 1 => Top(t).at \in IF t = Main THEN {"init", "head", "drain", "left"}
                                                              ELSE {"idle", "stopped"}
           /\ Len(stack[t]) # 1 => Top(t).at \in TaskPlaces
           /\ FrameOK(Top(t), finished_tasks, total_tasks, finished)
           /\ Len(stack[t]) \in DOMAIN stack[t]
  <1>1. stack[t] \in Seq(FrameType) /\ Len(stack[t]) >= 1
    BY DEF Core, TypeInv, Shaped
  <1>2. Stacks(stack, t)
    BY <1>1 DEF Stacks, Core, TypeInv
  <1>3. Top(t) = stack[t][Len(stack[t])] /\ Top(t) \in FrameType
    BY <1>1, SeqFacts DEF Top
  <1>4. Len(stack[t]) \in DOMAIN stack[t]
    BY <1>1
  <1>5. FrameOK(Top(t), finished_tasks, total_tasks, finished)
    BY <1>3, <1>4 DEF Core, Framed
  <1>6. Len(stack[t]) = 1 => Top(t).at \in IF t = Main THEN {"init", "head", "drain", "left"}
                                                        ELSE {"idle", "stopped"}
    BY <1>3 DEF Core, Shaped
  <1>7. Len(stack[t]) # 1 => Top(t).at \in TaskPlaces
    <2>1. \A m \in Nat : m >= 1 /\ m # 1 => m \in 2 .. m
      OBVIOUS
    <2>2. Len(stack[t]) # 1 => Len(stack[t]) \in 2 .. Len(stack[t])
      <3>1. Len(stack[t]) \in Nat
        BY <1>1
      <3> QED
        BY <1>1, <2>1, <3>1, Zenon
    <2> QED
      BY <1>3, <2>2, Zenon DEF Core, Shaped
  <1> QED
    BY <1>2, <1>3, <1>4, <1>5, <1>6, <1>7

\* What a step takes from the tasks that are out it counts or announces.
Balanced(tasks, tasks2, done, done2, total, total2, old, new) ==
    \A p \in Pipelines :
      LET before == done[p] + Cardinality(Queued(tasks, p)) + TasksIn(old, p)
          after == done2[p] + Cardinality(Queued(tasks2, p)) + Weight(new, p)
      IN  /\ IsFiniteSet(Queued(tasks2, p))
          /\ after - before <= total2[p] - total[p]
          /\ FinalizeIsWhole => after - before = total2[p] - total[p]

SumsExact(d, d2, q, q2, h, h2, w, w2, m, m2) ==
    h2 = h - w + w2 /\ m = d + (q + h) /\ (d2 + q2 + w2) - (d + q + w) = m2 - m => m2 = d2 + (q2 + h2)

LEMMA SumsAreExact ==
    ASSUME NEW d \in Nat, NEW d2 \in Nat, NEW q \in Nat, NEW q2 \in Nat, NEW h \in Nat, NEW h2 \in Nat,
           NEW w \in Nat, NEW w2 \in Nat, NEW m \in Nat, NEW m2 \in Nat
    PROVE  SumsExact(d, d2, q, q2, h, h2, w, w2, m, m2)
  BY DEF SumsExact

LEMMA CountedMoves ==
    ASSUME NEW st, NEW st2, NEW t, Stacks(st, t), NEW new \in Seq(FrameType), Moved(st, st2, t, new),
           Len(new) \in 0 .. 2,
           NEW tasks, NEW tasks2, NEW done \in [Pipelines -> Nat], NEW done2 \in [Pipelines -> Nat],
           NEW total \in [Pipelines -> Nat], NEW total2 \in [Pipelines -> Nat],
           Counted(tasks, st, done, total),
           Balanced(tasks, tasks2, done, done2, total, total2, st[t][Len(st[t])], new)
    PROVE  Counted(tasks2, st2, done2, total2)
  <1> SUFFICES ASSUME NEW p \in Pipelines
               PROVE  /\ IsFiniteSet(Queued(tasks2, p)) /\ IsFiniteSet(Held(st2, p))
                      /\ done2[p] + Cardinality(Queued(tasks2, p)) + Cardinality(Held(st2, p)) <= total2[p]
                      /\ FinalizeIsWhole => total2[p] = done2[p] + (Cardinality(Queued(tasks2, p)) + Cardinality(Held(st2, p)))
    BY DEF Counted
  <1> DEFINE q == Cardinality(Queued(tasks, p))
             q2 == Cardinality(Queued(tasks2, p))
             h == Cardinality(Held(st, p))
             h2 == Cardinality(Held(st2, p))
             old == st[t][Len(st[t])]
             w == TasksIn(old, p)
             w2 == Weight(new, p)
  <1>1. /\ IsFiniteSet(Queued(tasks, p)) /\ IsFiniteSet(Held(st, p))
        /\ done[p] + q + h <= total[p]
        /\ FinalizeIsWhole => total[p] = done[p] + (q + h)
    BY DEF Counted
  <1>2. /\ IsFiniteSet(Queued(tasks2, p))
        /\ (done2[p] + q2 + w2) - (done[p] + q + w) <= total2[p] - total[p]
        /\ FinalizeIsWhole => (done2[p] + q2 + w2) - (done[p] + q + w) = total2[p] - total[p]
    BY DEF Balanced
  <1>3. IsFiniteSet(Held(st2, p)) /\ h \in Nat /\ h2 \in Nat /\ h2 = h - w + w2
    BY <1>1, HeldMoves
  <1>4. q \in Nat /\ q2 \in Nat
    BY <1>1, <1>2, FS_CardinalityType
  <1>5. w \in Nat /\ w2 \in Nat
    <2>1. old \in FrameType
      BY DEF Stacks
    <2>2. \A k \in 1 .. Len(new) : TasksIn(new[k], p) \in Nat
      BY TasksInType
    <2>3. \A m \in 0 .. 2 : m = 0 \/ (m = 1 /\ 1 \in 1 .. m) \/ (m = 2 /\ 1 \in 1 .. m /\ 2 \in 1 .. m)
      OBVIOUS
    <2>4. w2 \in Nat
      BY <2>2, <2>3 DEF Weight
    <2> QED
      BY <2>1, <2>4, TasksInType
  <1>6. done[p] \in Nat /\ done2[p] \in Nat /\ total[p] \in Nat /\ total2[p] \in Nat
    OBVIOUS
  <1> HIDE DEF q, q2, h, h2, w, w2, old
  <1>r. h \in Nat /\ h2 \in Nat /\ h2 = h - w + w2
    BY <1>3
  <1>s. /\ done[p] + q + h <= total[p]
        /\ (done2[p] + q2 + w2) - (done[p] + q + w) <= total2[p] - total[p]
        => done2[p] + q2 + h2 <= total2[p]
    BY ONLY <1>r, <1>4, <1>5, <1>6
  <1>7. done2[p] + q2 + h2 <= total2[p]
    BY <1>1, <1>2, <1>s, Zenon
  <1>8. FinalizeIsWhole => total2[p] = done2[p] + (q2 + h2)
    <2>1. SumsExact(done[p], done2[p], q, q2, h, h2, w, w2, total[p], total2[p])
      BY ONLY <1>r, <1>4, <1>5, <1>6, SumsAreExact
    <2> QED
      BY <1>1, <1>2, <1>r, <2>1, Zenon DEF SumsExact
  <1> QED
    BY <1>2, <1>3, <1>7, <1>8 DEF q2, h2

\* Initialize has scheduled no more of what is left for it.
InitialStep(t, new) ==
    t = Main /\ Len(stack[Main]) = 1 /\ new[1].at = "init" =>
      Top(Main).at = "init" /\ new[1].left \subseteq Top(Main).left

LEMMA LowestFrame ==
    ASSUME Core, NEW t \in Threads, NEW new \in Seq(FrameType), Moved(stack, stack', t, new),
           ShapeStep(stack, t, new)
    PROVE  stack'[Main][1] = IF t = Main /\ Len(stack[Main]) = 1 THEN new[1] ELSE stack[Main][1]
  <1>0. Main \in Threads
    BY DEF Threads
  <1>1. CASE t # Main
    BY <1>0, <1>1 DEF Moved
  <1>2. CASE t = Main /\ Len(stack[Main]) # 1
    <2>1. Len(stack[Main]) \in Nat /\ Len(stack[Main]) >= 1
      BY <1>0, TopFacts DEF Stacks
    <2>2. \A m \in Nat : m >= 1 /\ m # 1 => 1 \in 1 .. (m - 1)
      OBVIOUS
    <2>3. 1 \in 1 .. (Len(stack[Main]) - 1)
      BY <1>2, <2>1, <2>2, Zenon
    <2> QED
      BY <1>2, <2>3, Zenon DEF Moved
  <1>3. CASE t = Main /\ Len(stack[Main]) = 1
    <2>1. Len(new) >= 1 /\ Len(new) \in Nat
      BY <1>3 DEF ShapeStep
    <2>2. 1 \in 1 .. Len(new)
      BY <2>1
    <2>3. stack'[t][Len(stack[t]) - 1 + 1] = new[1]
      BY <2>2 DEF Moved
    <2>4. Len(stack[t]) - 1 + 1 = 1
      BY <1>3
    <2> QED
      BY <1>3, <2>3, <2>4
  <1> QED
    BY <1>1, <1>2, <1>3

\* A step that leaves the counters alone, and pipelines that are being completed.
Plain(t, new) ==
    /\ t \in Threads
    /\ new \in Seq(FrameType)
    /\ Moved(stack, stack', t, new)
    /\ UNCHANGED <<plan, finished_tasks, total_tasks, finished_dependencies, finished,
                   completed_pipelines, rounds>>
    /\ queue' \in Seq(TaskType) /\ interrupted' \in BOOLEAN /\ exceptions' \in BOOLEAN
    /\ ShapeStep(stack, t, new)
    /\ Succeeds(stack, t, new, total_tasks)
    /\ \A k \in 1 .. Len(new) : /\ FrameOK(new[k], finished_tasks, total_tasks, finished)
                                /\ new[k].at # "complete"
    /\ Top(t).at # "complete"
    /\ Balanced(queue, queue', finished_tasks, finished_tasks, total_tasks, total_tasks, Top(t), new)
    /\ InitialStep(t, new)

LEMMA PlainStep ==
    ASSUME Core, NEW t, NEW new, Plain(t, new)
    PROVE  Core'
  <1>0. /\ t \in Threads /\ new \in Seq(FrameType) /\ Moved(stack, stack', t, new)
        /\ ShapeStep(stack, t, new) /\ Succeeds(stack, t, new, total_tasks)
        /\ InitialStep(t, new)
    BY DEF Plain
  <1>1. /\ plan' = plan /\ finished_tasks' = finished_tasks /\ total_tasks' = total_tasks
        /\ finished_dependencies' = finished_dependencies /\ finished' = finished
        /\ completed_pipelines' = completed_pipelines /\ rounds' = rounds
    BY DEF Plain
  <1>2. Stacks(stack, t) /\ Top(t) = stack[t][Len(stack[t])]
    BY <1>0, TopFacts
  <1>3. TypeInv'
    <2>1. stack' \in [Threads -> Seq(FrameType)]
      BY <1>0 DEF Moved
    <2>2. TypeInv
      BY DEF Core
    <2> QED
      BY <1>1, <2>1, <2>2 DEF TypeInv, Plain
  <1>4. Shaped(stack)'
    BY <1>0, <1>2, ShapedMoves DEF Core
  <1>5. Framed(stack', finished_tasks, total_tasks, finished)
    <2>1. \A u, j : Other(stack, t, u, j) => FrameOK(stack[u][j], finished_tasks, total_tasks, finished)
      BY Zenon DEF Core, Framed, Other
    <2>2. \A k \in 1 .. Len(new) : FrameOK(new[k], finished_tasks, total_tasks, finished)
      BY DEF Plain
    <2> QED
      BY <1>0, <1>2, <2>1, <2>2, FramedMoves
  <1>6. Paired(stack', total_tasks)
    BY <1>0, <1>2, PairedSucceeds DEF Core
  <1>7. Counted(queue', stack', finished_tasks, total_tasks)
    <2>1. Balanced(queue, queue', finished_tasks, finished_tasks, total_tasks, total_tasks,
                   stack[t][Len(stack[t])], new)
      BY <1>2 DEF Plain
    <2>2. Len(new) \in 0 .. 2
      BY <1>0 DEF Succeeds
    <2>3. finished_tasks \in [Pipelines -> Nat] /\ total_tasks \in [Pipelines -> Nat]
          /\ Counted(queue, stack, finished_tasks, total_tasks)
      BY DEF Core, TypeInv
    <2> QED
      BY <1>0, <1>2, <2>1, <2>2, <2>3, CountedMoves
  <1>8. /\ \A d, q : Telling(stack', d, q) <=> Telling(stack, d, q)
        /\ \A d : Completing(stack', d) <=> Completing(stack, d)
    <2>1. stack[t][Len(stack[t])].at # "complete"
      BY <1>2 DEF Plain
    <2>2. \A k \in 1 .. Len(new) : new[k].at # "complete"
      BY DEF Plain
    <2> QED
      BY <1>0, <1>2, <2>1, <2>2, TellingStays
  <1>9. ToldInv'
    <2>1. \A q : Told(stack', plan.deps, finished, q) = Told(stack, plan.deps, finished, q)
      BY <1>8 DEF Told
    <2> QED
      BY <1>1, <2>1 DEF ToldInv, Core
  <1>10. InitialInv'
    <2>1. stack'[Main][1] = IF t = Main /\ Len(stack[Main]) = 1 THEN new[1] ELSE stack[Main][1]
      BY <1>0, LowestFrame
    <2>2. InitialInv
      BY DEF Core
    <2>3. CASE ~(t = Main /\ Len(stack[Main]) = 1)
      BY <1>1, <2>1, <2>2, <2>3 DEF InitialInv
    <2>4. CASE t = Main /\ Len(stack[Main]) = 1
      <3>1. Top(Main) = stack[Main][1]
        BY <1>2, <2>4
      <3> QED
        BY <1>0, <1>1, <2>1, <2>2, <2>4, <3>1 DEF InitialInv, InitialStep
    <2> QED
      BY <2>3, <2>4
  <1>11. FinishedInv'
    BY <1>1 DEF FinishedInv, Core
  <1>13. Parented(stack', plan.deps)
    <2>1. \A k \in 1 .. Len(new) : new[k].at # "complete"
      BY DEF Plain
    <2> QED
      BY <1>0, <1>2, <2>1, ParentedStays DEF Core
  <1>12. CompletedInv'
    <2>1. Completed(stack', finished) = Completed(stack, finished)
      BY <1>8 DEF Completed
    <2> QED
      BY <1>1, <2>1 DEF CompletedInv, Core
  <1> QED
    BY <1>1, <1>3, <1>4, <1>5, <1>6, <1>7, <1>9, <1>10, <1>11, <1>12, <1>13 DEF Core

LEMMA OneFrame ==
    ASSUME NEW f \in FrameType
    PROVE  /\ <<f>> \in Seq(FrameType) /\ Len(<<f>>) = 1 /\ <<f>>[1] = f
           /\ \A k \in 1 .. Len(<<f>>) : k = 1
           /\ ~\E k \in 2 .. Len(<<f>>) : TRUE
           /\ \A p : Weight(<<f>>, p) = TasksIn(f, p)
  BY DEF Weight

LEMMA TwoFrames ==
    ASSUME NEW f \in FrameType, NEW g \in FrameType
    PROVE  /\ <<f, g>> \in Seq(FrameType) /\ Len(<<f, g>>) = 2 /\ <<f, g>>[1] = f /\ <<f, g>>[2] = g
           /\ \A k \in 1 .. Len(<<f, g>>) : k = 1 \/ k = 2
           /\ \A k \in 2 .. Len(<<f, g>>) : k = 2
           /\ \A p : Weight(<<f, g>>, p) = TasksIn(f, p) + TasksIn(g, p)
  BY DEF Weight

\* The counters that a plain step leaves alone.
Uncounted ==
    UNCHANGED <<plan, finished_tasks, total_tasks, finished_dependencies, finished,
                completed_pipelines, rounds>>

SumsEqual(d, q, q2, w, w2, m) ==
    q2 + w2 = q + w => (d + q2 + w2) - (d + q + w) = 0 /\ m - m = 0

LEMMA SumsAreEqual ==
    ASSUME NEW d \in Nat, NEW q \in Nat, NEW q2 \in Nat, NEW w \in Nat, NEW w2 \in Nat, NEW m \in Nat
    PROVE  SumsEqual(d, q, q2, w, w2, m)
  BY DEF SumsEqual

LEMMA BalancedQueue ==
    ASSUME Core, NEW f, NEW new,
           \A p \in Pipelines :
             /\ IsFiniteSet(Queued(queue', p))
             /\ TasksIn(f, p) \in Nat /\ Weight(new, p) \in Nat
             /\ Cardinality(Queued(queue', p)) + Weight(new, p) =
                  Cardinality(Queued(queue, p)) + TasksIn(f, p)
    PROVE  Balanced(queue, queue', finished_tasks, finished_tasks, total_tasks, total_tasks, f, new)
  <1> SUFFICES ASSUME NEW p \in Pipelines
               PROVE  LET before == finished_tasks[p] + Cardinality(Queued(queue, p)) + TasksIn(f, p)
                          after == finished_tasks[p] + Cardinality(Queued(queue', p)) + Weight(new, p)
                      IN  /\ IsFiniteSet(Queued(queue', p))
                          /\ after - before <= total_tasks[p] - total_tasks[p]
                          /\ FinalizeIsWhole => after - before = total_tasks[p] - total_tasks[p]
    BY DEF Balanced
  <1>1. finished_tasks[p] \in Nat /\ total_tasks[p] \in Nat
    BY DEF Core, TypeInv
  <1>2. Cardinality(Queued(queue, p)) \in Nat
    BY FS_CardinalityType DEF Core, Counted
  <1>3. Cardinality(Queued(queue', p)) \in Nat
    BY FS_CardinalityType
  <1>4. SumsEqual(finished_tasks[p], Cardinality(Queued(queue, p)), Cardinality(Queued(queue', p)),
                  TasksIn(f, p), Weight(new, p), total_tasks[p])
    BY <1>1, <1>2, <1>3, SumsAreEqual
  <1>5. /\ (finished_tasks[p] + Cardinality(Queued(queue', p)) + Weight(new, p))
           - (finished_tasks[p] + Cardinality(Queued(queue, p)) + TasksIn(f, p)) = 0
        /\ total_tasks[p] - total_tasks[p] = 0
    BY <1>4, Zenon DEF SumsEqual
  <1> QED
    BY <1>5

LEMMA ReplaceStep ==
    ASSUME Core, NEW t \in Threads, NEW f \in FrameType, Moved(stack, stack', t, <<f>>),
           Uncounted, queue' = queue, interrupted' \in BOOLEAN, exceptions' \in BOOLEAN,
           FrameOK(f, finished_tasks, total_tasks, finished),
           f.at # "complete", Top(t).at # "complete",
           Neutral(f) \/ Continues(f, Top(t), total_tasks),
           \A p \in Pipelines : TasksIn(f, p) = TasksIn(Top(t), p),
           Top(t).at \in BasePlaces =>
             f.at \in IF t = Main THEN {"init", "head", "drain", "left"} ELSE {"idle", "stopped"},
           Top(t).at \in TaskPlaces => f.at \in TaskPlaces,
           f.at = "init" => Top(t).at = "init" /\ f.left \subseteq Top(t).left
    PROVE  Core'
  <1> DEFINE new == <<f>>
  <1>1. /\ new \in Seq(FrameType) /\ Len(new) = 1 /\ new[1] = f
        /\ \A k \in 1 .. Len(new) : k = 1
        /\ ~\E k \in 2 .. Len(new) : TRUE
        /\ \A p : Weight(new, p) = TasksIn(f, p)
    BY OneFrame
  <1>2. Moved(stack, stack', t, new)
    OBVIOUS
  <1> HIDE DEF new
  <1>3. /\ Stacks(stack, t) /\ Top(t) = stack[t][Len(stack[t])] /\ Top(t) \in FrameType
        /\ Len(stack[t]) = 1 => Top(t).at \in BasePlaces
        /\ Len(stack[t]) # 1 => Top(t).at \in TaskPlaces
    BY TopFacts DEF BasePlaces
  <1>4. ShapeStep(stack, t, new)
    <2>1. CASE Len(stack[t]) = 1
      <3>1. Len(new) >= 1 /\ \A k \in 2 .. Len(new) : new[k].at \in TaskPlaces
        BY <1>1
      <3> QED
        BY <1>1, <1>3, <2>1, <3>1 DEF ShapeStep
    <2>2. CASE Len(stack[t]) # 1
      <3>1. \A k \in 1 .. Len(new) : new[k].at \in TaskPlaces
        BY <1>1, <1>3, <2>2, Zenon
      <3> QED
        BY <2>2, <3>1 DEF ShapeStep
    <2> QED
      BY <2>1, <2>2
  <1>5. Succeeds(stack, t, new, total_tasks)
    <2>1. Len(new) \in 0 .. 2 /\ ~(Len(new) = 2)
      BY <1>1
    <2> QED
      BY <1>1, <1>3, <2>1, Zenon DEF Succeeds
  <1>6. Balanced(queue, queue', finished_tasks, finished_tasks, total_tasks, total_tasks, Top(t), new)
    <2>1. \A p \in Pipelines :
             /\ IsFiniteSet(Queued(queue', p))
             /\ TasksIn(Top(t), p) \in Nat /\ Weight(new, p) \in Nat
             /\ Cardinality(Queued(queue', p)) + Weight(new, p) =
                  Cardinality(Queued(queue, p)) + TasksIn(Top(t), p)
      BY <1>1, <1>3, TasksInType DEF Core, Counted
    <2> QED
      BY <2>1, BalancedQueue
  <1>7. InitialStep(t, new)
    BY <1>1, Zenon DEF InitialStep
  <1>8. queue' \in Seq(TaskType)
    BY DEF Core, TypeInv
  <1>9. \A k \in 1 .. Len(new) : FrameOK(new[k], finished_tasks, total_tasks, finished) /\ new[k].at # "complete"
    BY <1>1, Zenon
  <1>10. Plain(t, new)
    BY <1>1, <1>2, <1>4, <1>5, <1>6, <1>7, <1>8, <1>9, Zenon DEF Plain, Uncounted
  <1> QED
    BY <1>10, PlainStep

LEMMA ReturnStep ==
    ASSUME Core, NEW t \in Threads, Moved(stack, stack', t, <<>>),
           Uncounted, interrupted' \in BOOLEAN, exceptions' \in BOOLEAN,
           queue' \in Seq(TaskType),
           \A p \in Pipelines : /\ IsFiniteSet(Queued(queue', p))
                                /\ Cardinality(Queued(queue', p)) =
                                     Cardinality(Queued(queue, p)) + TasksIn(Top(t), p),
           Top(t).at # "complete", Top(t).at \in TaskPlaces
    PROVE  Core'
  <1> DEFINE new == <<>>
  <1>1. new \in Seq(FrameType) /\ Len(new) = 0 /\ \A p : Weight(new, p) = 0
    BY DEF Weight
  <1>2. Moved(stack, stack', t, new)
    OBVIOUS
  <1> HIDE DEF new
  <1>3. /\ Stacks(stack, t) /\ Top(t) = stack[t][Len(stack[t])] /\ Top(t) \in FrameType
        /\ Len(stack[t]) # 1
    BY TopFacts DEF TaskPlaces
  <1>4. ~\E k \in 1 .. Len(new) : TRUE
    BY <1>1
  <1>5. ShapeStep(stack, t, new)
    BY <1>3, <1>4, Zenon DEF ShapeStep
  <1>6. Succeeds(stack, t, new, total_tasks)
    BY <1>1 DEF Succeeds
  <1>7. Balanced(queue, queue', finished_tasks, finished_tasks, total_tasks, total_tasks, Top(t), new)
    <2>1. ASSUME NEW p \in Pipelines
          PROVE  /\ IsFiniteSet(Queued(queue', p))
                 /\ TasksIn(Top(t), p) \in Nat /\ Weight(new, p) \in Nat
                 /\ Cardinality(Queued(queue', p)) + Weight(new, p) =
                      Cardinality(Queued(queue, p)) + TasksIn(Top(t), p)
      <3>1. TasksIn(Top(t), p) \in Nat /\ Weight(new, p) = 0
        BY <1>1, <1>3, TasksInType
      <3>2. IsFiniteSet(Queued(queue', p)) /\ Cardinality(Queued(queue', p)) \in Nat
        BY FS_CardinalityType
      <3> QED
        BY <3>1, <3>2
    <2> QED
      BY <2>1, BalancedQueue
  <1>8. InitialStep(t, new)
    BY <1>3, Zenon DEF InitialStep
  <1>9. Plain(t, new)
    BY <1>1, <1>2, <1>4, <1>5, <1>6, <1>7, <1>8, Zenon DEF Plain, Uncounted
  <1> QED
    BY <1>9, PlainStep

(***************************************************************************)
(* The actions that leave the counters alone.                              *)
(***************************************************************************)
LEMMA AtFrame ==
    ASSUME NEW g \in FrameType, NEW x \in TaskPlaces \cup BasePlaces
    PROVE  LET f == [g EXCEPT !.at = x]
           IN  /\ f \in FrameType
               /\ f.at = x /\ f.pipeline = g.pipeline /\ f.n = g.n /\ f.kind = g.kind /\ f.left = g.left
  BY DEF FrameType

LEMMA GotoStep ==
    ASSUME Core, NEW t \in Threads, NEW x \in TaskPlaces \cup BasePlaces, Goto(t, x)
    PROVE  Moved(stack, stack', t, <<[Top(t) EXCEPT !.at = x]>>)
  <1>1. Stacks(stack, t) /\ Top(t) \in FrameType
    BY TopFacts
  <1>2. [Top(t) EXCEPT !.at = x] \in FrameType
    BY <1>1, AtFrame
  <1>3. stack' = [stack EXCEPT ![t] = Append(Front(@), [Top(t) EXCEPT !.at = x])]
    BY DEF Goto, Top
  <1> QED
    BY <1>1, <1>2, <1>3, GotoMoves

LEMMA BecomeStep ==
    ASSUME Core, NEW t \in Threads, NEW f \in FrameType, Become(t, f, <<>>)
    PROVE  Moved(stack, stack', t, <<f>>)
  <1>1. Stacks(stack, t)
    BY TopFacts
  <1> QED
    BY <1>1, BecomeMoves DEF Become

LEMMA CallStep ==
    ASSUME Core, NEW t \in Threads, NEW f \in FrameType, NEW g \in FrameType, Become(t, f, <<g>>)
    PROVE  Moved(stack, stack', t, <<f, g>>)
  <1>1. Stacks(stack, t)
    BY TopFacts
  <1> QED
    BY <1>1, CallMoves DEF Become

LEMMA ReturnedStep ==
    ASSUME Core, NEW t \in Threads, Return(t)
    PROVE  Moved(stack, stack', t, <<>>)
  <1>1. Stacks(stack, t)
    BY TopFacts
  <1> QED
    BY <1>1, ReturnMoves DEF Return

\* Frames of a loop stand for no tasks and say nothing of pipelines.
LEMMA BaseFrame ==
    ASSUME NEW f, f.at \in BasePlaces, NEW done, NEW total, NEW fin
    PROVE  /\ FrameOK(f, done, total, fin)
           /\ Neutral(f)
           /\ f.at \notin TaskPlaces
           /\ f.at # "complete"
           /\ \A p : TasksIn(f, p) = 0
  BY DEF FrameOK, Neutral, Claims, Numbered, TaskPlaces, BasePlaces, TasksIn

LEMMA LoopStep ==
    ASSUME Core, NEW t \in Threads, Top(t).at \in BasePlaces,
           NEW x \in (IF t = Main THEN {"head", "drain", "left"} ELSE {"idle", "stopped"}),
           Goto(t, x), Uncounted, queue' = queue, interrupted' \in BOOLEAN, exceptions' \in BOOLEAN
    PROVE  Core'
  <1> DEFINE f == [Top(t) EXCEPT !.at = x]
  <1>1. Top(t) \in FrameType
    BY TopFacts
  <1>2. x \in BasePlaces /\ x # "init"
    BY DEF BasePlaces
  <1>3. f \in FrameType /\ f.at = x
    BY <1>1, <1>2, AtFrame
  <1>4. Moved(stack, stack', t, <<f>>)
    BY <1>2, GotoStep
  <1> HIDE DEF f
  <1>5. /\ FrameOK(f, finished_tasks, total_tasks, finished) /\ Neutral(f) /\ f.at # "complete"
        /\ \A p : TasksIn(f, p) = 0
    BY <1>2, <1>3, BaseFrame
  <1>6. Top(t).at \notin TaskPlaces /\ Top(t).at # "complete" /\ \A p : TasksIn(Top(t), p) = 0
    BY BaseFrame
  <1>7. f.at \in IF t = Main THEN {"init", "head", "drain", "left"} ELSE {"idle", "stopped"}
    BY <1>3
  <1>8. f.at # "init"
    BY <1>2, <1>3
  <1> QED
    BY <1>3, <1>4, <1>5, <1>6, <1>7, <1>8, ReplaceStep

LEMMA CheckCompletedKeeps ==
    ASSUME Core, CheckCompleted
    PROVE  Core'
  <1>1. Main \in Threads /\ Top(Main).at \in BasePlaces /\ Goto(Main, "drain")
    BY DEF CheckCompleted, At, Threads, BasePlaces
  <1>2. Uncounted /\ queue' = queue /\ interrupted' \in BOOLEAN /\ exceptions' \in BOOLEAN
    BY DEF CheckCompleted, Uncounted, counters, Core, TypeInv
  <1> QED
    BY <1>1, <1>2, LoopStep

LEMMA LeaveKeeps ==
    ASSUME Core, Leave
    PROVE  Core'
  <1>1. Main \in Threads /\ Top(Main).at \in BasePlaces /\ Goto(Main, "left")
    BY DEF Leave, At, Threads, BasePlaces
  <1>2. Uncounted /\ queue' = queue /\ interrupted' \in BOOLEAN /\ exceptions' \in BOOLEAN
    BY DEF Leave, Uncounted, counters, Core, TypeInv
  <1> QED
    BY <1>1, <1>2, LoopStep

LEMMA StopWorkerKeeps ==
    ASSUME Core, NEW t \in Threads, StopWorker(t)
    PROVE  Core'
  <1>1. Top(t).at \in BasePlaces /\ Goto(t, "stopped") /\ Top(t).at = "idle"
    BY DEF StopWorker, At, BasePlaces
  <1>2. Uncounted /\ queue' = queue /\ interrupted' \in BOOLEAN /\ exceptions' \in BOOLEAN
    BY DEF StopWorker, Uncounted, counters, Core, TypeInv
  <1>3. t # Main
    BY <1>1, TopFacts DEF TaskPlaces
  <1> QED
    BY <1>1, <1>2, <1>3, LoopStep

\* Where a thread's loop may be: a task runs in the loop of a worker, or of Initialize.
LEMMA LoopPlace ==
    ASSUME Core, NEW t \in Threads
    PROVE  /\ Top(t).at # "rerun"
           /\ Top(t).at \in {"init", "head", "drain", "left"} => t = Main
           /\ Top(t).at \in {"idle", "stopped"} => t # Main
           /\ Top(t).at \in BasePlaces => Len(stack[t]) = 1
           /\ Top(t).at \in TaskPlaces => Len(stack[t]) # 1
           /\ Top(t).at \in TaskPlaces \/ Top(t).at \in BasePlaces
  BY TopFacts DEF TaskPlaces, BasePlaces

LEMMA QueueEmptyKeeps ==
    ASSUME Core, NEW t \in Threads, QueueEmpty(t)
    PROVE  Core'
  <1>1. Top(t).at = "drain" /\ t = Main
    BY LoopPlace DEF QueueEmpty
  <1>2. Top(t).at \in BasePlaces /\ Goto(t, "head")
    BY <1>1 DEF QueueEmpty, At, BasePlaces
  <1>3. Uncounted /\ queue' = queue /\ interrupted' \in BOOLEAN /\ exceptions' \in BOOLEAN
    BY DEF QueueEmpty, Uncounted, counters, Core, TypeInv
  <1> QED
    BY <1>1, <1>2, <1>3, LoopStep

LEMMA InterruptKeeps ==
    ASSUME Core, Interrupt
    PROVE  Core'
  <1>1. /\ plan' = plan /\ queue' = queue /\ stack' = stack /\ finished_tasks' = finished_tasks
        /\ total_tasks' = total_tasks /\ finished_dependencies' = finished_dependencies
        /\ finished' = finished /\ completed_pipelines' = completed_pipelines
        /\ exceptions' = exceptions /\ rounds' = rounds /\ interrupted' \in BOOLEAN
    BY DEF Interrupt, counters
  <1>2. TypeInv'
    BY <1>1 DEF Core, TypeInv
  <1>3. ToldInv' /\ InitialInv' /\ FinishedInv' /\ CompletedInv'
    BY <1>1 DEF Core, ToldInv, InitialInv, FinishedInv, CompletedInv
  <1> QED
    BY <1>1, <1>2, <1>3 DEF Core

\* A task goes from one place to another without a change of the tasks that are out.
LEMMA TaskStep ==
    ASSUME Core, NEW t \in Threads, Top(t).at \in TaskPlaces, Top(t).at # "complete",
           NEW x \in TaskPlaces, x # "complete",
           Moved(stack, stack', t, <<[Top(t) EXCEPT !.at = x]>>),
           Uncounted, queue' = queue, interrupted' \in BOOLEAN, exceptions' \in BOOLEAN,
           FrameOK([Top(t) EXCEPT !.at = x], finished_tasks, total_tasks, finished),
           Neutral([Top(t) EXCEPT !.at = x]) \/ Continues([Top(t) EXCEPT !.at = x], Top(t), total_tasks),
           \A p \in Pipelines : TasksIn([Top(t) EXCEPT !.at = x], p) = TasksIn(Top(t), p)
    PROVE  Core'
  <1> DEFINE f == [Top(t) EXCEPT !.at = x]
  <1>1. Top(t) \in FrameType
    BY TopFacts
  <1>2. f \in FrameType /\ f.at = x
    BY <1>1, AtFrame
  <1>3. /\ Moved(stack, stack', t, <<f>>) /\ FrameOK(f, finished_tasks, total_tasks, finished)
        /\ Neutral(f) \/ Continues(f, Top(t), total_tasks)
        /\ \A p \in Pipelines : TasksIn(f, p) = TasksIn(Top(t), p)
    OBVIOUS
  <1> HIDE DEF f
  <1>4. f.at # "complete" /\ f.at # "init" /\ f.at \in TaskPlaces
    BY <1>2 DEF TaskPlaces
  <1>5. Top(t).at \notin BasePlaces
    BY DEF TaskPlaces, BasePlaces
  <1> QED
    BY <1>2, <1>3, <1>4, <1>5, ReplaceStep

LEMMA ExecuteKeeps ==
    ASSUME Core, NEW t \in Threads, Execute(t)
    PROVE  Core'
  <1> DEFINE top == Top(t)
             f == [top EXCEPT !.at = "count"]
  <1>1. top \in FrameType /\ FrameOK(top, finished_tasks, total_tasks, finished)
    BY TopFacts
  <1>2. top.at = "execute"
    BY DEF Execute, At
  <1>3. top.pipeline \in Pipelines /\ rounds = [p \in Pipelines |-> 0]
    BY <1>1, <1>2 DEF FrameOK, TaskPlaces, Core, TypeInv
  <1>4. Goto(t, "count") /\ rounds' = rounds
    BY <1>3 DEF Execute, AfterError
  <1>5. Uncounted /\ queue' = queue /\ interrupted' \in BOOLEAN /\ exceptions' \in BOOLEAN
    BY <1>3, <1>4 DEF Execute, Uncounted, counters, Core, TypeInv, PushError
  <1>6. "count" \in TaskPlaces
    BY DEF TaskPlaces
  <1>7. Moved(stack, stack', t, <<f>>)
    BY <1>4, <1>6, GotoStep
  <1>8. f \in FrameType /\ f.at = "count" /\ f.pipeline = top.pipeline /\ f.n = top.n
    BY <1>1, <1>6, AtFrame
  <1> HIDE DEF f
  <1>9. FrameOK(f, finished_tasks, total_tasks, finished) /\ Neutral(f)
    BY <1>1, <1>2, <1>8 DEF FrameOK, Neutral, Claims, TaskPlaces, Numbered
  <1>10. \A p \in Pipelines : TasksIn(f, p) = TasksIn(top, p)
    BY <1>2, <1>8 DEF TasksIn
  <1>11. top.at \in TaskPlaces /\ top.at # "complete"
    BY <1>2 DEF TaskPlaces
  <1> QED
    BY <1>5, <1>6, <1>7, <1>9, <1>10, <1>11, TaskStep DEF f

\* No thread is in a recursive CTE.
LEMMA NoReruns ==
    ASSUME Core, NEW t \in Threads
    PROVE  {i \in DOMAIN stack[t] : stack[t][i].at = "rerun"} = {}
  <1>1. stack[t] \in Seq(FrameType)
    BY DEF Core, TypeInv
  <1>2. \A i \in DOMAIN stack[t] : stack[t][i] \in FrameType
    BY <1>1
  <1>3. \A i \in DOMAIN stack[t] : stack[t][i].at \in TaskPlaces \cup BasePlaces
    BY <1>2 DEF FrameType
  <1> QED
    BY <1>3 DEF TaskPlaces, BasePlaces

LEMMA FinalizeThrowsKeeps ==
    ASSUME Core, NEW t \in Threads, FinalizeThrows(t)
    PROVE  Core'
  <1> DEFINE top == Top(t)
             f == [top EXCEPT !.at = "thrown"]
  <1>1. top \in FrameType /\ FrameOK(top, finished_tasks, total_tasks, finished)
    BY TopFacts
  <1>2. top.at = "execute" /\ Goto(t, "thrown") /\ UNCHANGED <<interrupted, exceptions>>
    BY NoReruns DEF FinalizeThrows, At
  <1>3. Uncounted /\ queue' = queue /\ interrupted' \in BOOLEAN /\ exceptions' \in BOOLEAN
    BY <1>2 DEF FinalizeThrows, Uncounted, counters, Core, TypeInv
  <1>4. "thrown" \in TaskPlaces
    BY DEF TaskPlaces
  <1>5. Moved(stack, stack', t, <<f>>)
    BY <1>2, <1>4, GotoStep
  <1>6. f \in FrameType /\ f.at = "thrown" /\ f.pipeline = top.pipeline /\ f.n = top.n
    BY <1>1, <1>4, AtFrame
  <1> HIDE DEF f
  <1>7. FrameOK(f, finished_tasks, total_tasks, finished) /\ Neutral(f)
    BY <1>1, <1>2, <1>6 DEF FrameOK, Neutral, Claims, TaskPlaces, Numbered
  <1>8. \A p \in Pipelines : TasksIn(f, p) = TasksIn(top, p)
    BY <1>2, <1>6 DEF TasksIn
  <1>9. top.at \in TaskPlaces /\ top.at # "complete"
    BY <1>2 DEF TaskPlaces
  <1> QED
    BY <1>3, <1>4, <1>5, <1>7, <1>8, <1>9, TaskStep DEF f

LEMMA ReadDestroyedKeeps ==
    ASSUME Core, NEW t \in Threads, ReadDestroyed(t)
    PROVE  Core'
  <1> DEFINE top == Top(t)
             f == [top EXCEPT !.at = "undefined"]
  <1>1. top \in FrameType /\ FrameOK(top, finished_tasks, total_tasks, finished)
    BY TopFacts
  <1>2. top.at \in {"compare", "recheck"} /\ Goto(t, "undefined")
    BY DEF ReadDestroyed
  <1>3. Uncounted /\ queue' = queue /\ interrupted' \in BOOLEAN /\ exceptions' \in BOOLEAN
    BY DEF ReadDestroyed, Uncounted, counters, Core, TypeInv
  <1>4. "undefined" \in TaskPlaces
    BY DEF TaskPlaces
  <1>5. Moved(stack, stack', t, <<f>>)
    BY <1>2, <1>4, GotoStep
  <1>6. f \in FrameType /\ f.at = "undefined" /\ f.pipeline = top.pipeline /\ f.n = top.n
    BY <1>1, <1>4, AtFrame
  <1> HIDE DEF f
  <1>7. FrameOK(f, finished_tasks, total_tasks, finished) /\ Neutral(f)
    BY <1>1, <1>2, <1>6 DEF FrameOK, Neutral, Claims, TaskPlaces, Numbered
  <1>8. \A p \in Pipelines : TasksIn(f, p) = TasksIn(top, p)
    BY <1>2, <1>6 DEF TasksIn
  <1>9. top.at \in TaskPlaces /\ top.at # "complete"
    BY <1>2 DEF TaskPlaces
  <1> QED
    BY <1>3, <1>4, <1>5, <1>7, <1>8, <1>9, TaskStep DEF f

\* Returns from a frame that stands for no task.
LEMMA EmptyReturn ==
    ASSUME Core, NEW t \in Threads, Return(t), Uncounted, queue' = queue,
           interrupted' \in BOOLEAN, exceptions' \in BOOLEAN, Top(t).at \in Numbered
    PROVE  Core'
  <1>1. Moved(stack, stack', t, <<>>)
    BY ReturnedStep
  <1>2. Top(t).at # "complete" /\ Top(t).at \in TaskPlaces /\ \A p : TasksIn(Top(t), p) = 0
    BY DEF Numbered, TaskPlaces, TasksIn
  <1>3. \A p \in Pipelines : /\ IsFiniteSet(Queued(queue', p))
                             /\ Cardinality(Queued(queue', p)) =
                                  Cardinality(Queued(queue, p)) + TasksIn(Top(t), p)
    <2> TAKE p \in Pipelines
    <2>1. IsFiniteSet(Queued(queue, p))
      BY DEF Core, Counted
    <2>2. Cardinality(Queued(queue, p)) \in Nat
      BY <2>1, FS_CardinalityType
    <2> QED
      BY <1>2, <2>1, <2>2
  <1>4. queue' \in Seq(TaskType)
    BY DEF Core, TypeInv
  <1> QED
    BY <1>1, <1>2, <1>3, <1>4, ReturnStep

\* A frame with a count goes on to claim its pipeline when all tasks are counted.
LEMMA CountStep ==
    ASSUME Core, NEW t \in Threads, Top(t).at \in Numbered,
           Top(t).n = total_tasks[Top(t).pipeline],
           NEW x \in {"finalize", "recheck", "finish"},
           Moved(stack, stack', t, <<[Top(t) EXCEPT !.at = x]>>),
           Uncounted, queue' = queue, interrupted' \in BOOLEAN, exceptions' \in BOOLEAN
    PROVE  Core'
  <1> DEFINE top == Top(t)
             f == [top EXCEPT !.at = x]
  <1>1. top \in FrameType /\ FrameOK(top, finished_tasks, total_tasks, finished)
    BY TopFacts
  <1>2. x \in TaskPlaces /\ x # "complete"
    BY DEF TaskPlaces
  <1>3. f \in FrameType /\ f.at = x /\ f.pipeline = top.pipeline /\ f.n = top.n
    BY <1>1, <1>2, AtFrame
  <1>4. Moved(stack, stack', t, <<f>>)
    OBVIOUS
  <1> HIDE DEF f
  <1>5. Claims(top, total_tasks)
    BY DEF Claims
  <1>6. top.at \in TaskPlaces /\ top.at # "complete"
    BY DEF Numbered, TaskPlaces
  <1>7. FrameOK(f, finished_tasks, total_tasks, finished)
    BY <1>1, <1>2, <1>3, <1>5, <1>6 DEF FrameOK, Numbered
  <1>8. Continues(f, top, total_tasks)
    BY <1>3, <1>5 DEF Continues
  <1>9. \A p \in Pipelines : TasksIn(f, p) = TasksIn(top, p)
    BY <1>3 DEF TasksIn, Numbered
  <1> QED
    BY <1>2, <1>4, <1>6, <1>7, <1>8, <1>9, TaskStep DEF f

LEMMA CompareTotalKeeps ==
    ASSUME Core, NEW t \in Threads, CompareTotal(t)
    PROVE  Core'
  <1>1. Uncounted /\ queue' = queue /\ interrupted' \in BOOLEAN /\ exceptions' \in BOOLEAN
    BY DEF CompareTotal, Uncounted, counters, Core, TypeInv
  <1>2. Top(t).at \in Numbered
    BY DEF CompareTotal, At, Numbered
  <1>3. CASE Top(t).n = total_tasks[Top(t).pipeline]
    <2>1. Goto(t, "finalize") /\ "finalize" \in TaskPlaces \cup BasePlaces
      BY <1>3 DEF CompareTotal, TaskPlaces
    <2> QED
      BY <1>1, <1>2, <1>3, <2>1, GotoStep, CountStep
  <1>4. CASE Top(t).n # total_tasks[Top(t).pipeline]
    <2>1. Return(t)
      BY <1>4 DEF CompareTotal
    <2> QED
      BY <1>1, <1>2, <2>1, EmptyReturn
  <1> QED
    BY <1>3, <1>4

LEMMA RecheckTotalKeeps ==
    ASSUME Core, NEW t \in Threads, RecheckTotal(t)
    PROVE  Core'
  <1>1. Uncounted /\ queue' = queue /\ interrupted' \in BOOLEAN /\ exceptions' \in BOOLEAN
    BY DEF RecheckTotal, Uncounted, counters, Core, TypeInv
  <1>2. Top(t).at \in Numbered
    BY DEF RecheckTotal, At, Numbered
  <1>3. CASE Top(t).n = total_tasks[Top(t).pipeline]
    <2>1. Goto(t, "finish") /\ "finish" \in TaskPlaces \cup BasePlaces
      BY <1>3 DEF RecheckTotal, IsDone, TaskPlaces
    <2> QED
      BY <1>1, <1>2, <1>3, <2>1, GotoStep, CountStep
  <1>4. CASE Top(t).n # total_tasks[Top(t).pipeline]
    <2>1. Return(t)
      BY <1>4 DEF RecheckTotal, IsDone
    <2> QED
      BY <1>1, <1>2, <2>1, EmptyReturn
  <1> QED
    BY <1>3, <1>4

LEMMA PushTaskKeeps ==
    ASSUME Core, NEW t \in Threads, PushTask(t)
    PROVE  Core'
  <1> DEFINE top == Top(t)
             task == Task(top.pipeline, top.kind)
  <1>1. top \in FrameType /\ FrameOK(top, finished_tasks, total_tasks, finished)
    BY TopFacts
  <1>2. top.at = "push" /\ queue' = Append(queue, task)
    BY DEF PushTask, At
  <1>3. top.pipeline \in Pipelines /\ top.n \in Nat /\ top.n >= 1 /\ top.kind \in {"task", "finalize"}
        /\ total_tasks[top.pipeline] > 0
    BY <1>1, <1>2 DEF FrameOK, TaskPlaces, FrameType
  <1>4. task \in TaskType /\ task.pipeline = top.pipeline
    BY <1>3 DEF Task, TaskType
  <1>5. Uncounted /\ interrupted' \in BOOLEAN /\ exceptions' \in BOOLEAN /\ queue \in Seq(TaskType)
    BY DEF PushTask, Uncounted, counters, Core, TypeInv
  <1> HIDE DEF task
  <1>6. queue' \in Seq(TaskType)
    BY <1>2, <1>4, <1>5
  <1>7. \A p \in Pipelines :
          /\ IsFiniteSet(Queued(queue', p))
          /\ Cardinality(Queued(queue, p)) \in Nat
          /\ Cardinality(Queued(queue', p)) =
               Cardinality(Queued(queue, p)) + (IF top.pipeline = p THEN 1 ELSE 0)
    <2> TAKE p \in Pipelines
    <2>1. IsFiniteSet(Queued(queue, p))
      BY DEF Core, Counted
    <2> QED
      BY <1>2, <1>4, <1>5, <2>1, QueuedAppend
  <1>8. top.at \in TaskPlaces /\ top.at # "complete"
    BY <1>2 DEF TaskPlaces
  <1>9. \A p : TasksIn(top, p) = IF top.pipeline = p THEN top.n ELSE 0
    BY <1>2 DEF TasksIn
  <1>10. CASE top.n = 1
    <2>1. Return(t)
      BY <1>10 DEF PushTask
    <2>2. Moved(stack, stack', t, <<>>)
      BY <2>1, ReturnedStep
    <2>3. \A p \in Pipelines : /\ IsFiniteSet(Queued(queue', p))
                               /\ Cardinality(Queued(queue', p)) =
                                    Cardinality(Queued(queue, p)) + TasksIn(top, p)
      BY <1>7, <1>9, <1>10
    <2> QED
      BY <1>5, <1>6, <1>8, <2>2, <2>3, ReturnStep
  <1>11. CASE top.n # 1
    <2> DEFINE f == [top EXCEPT !.n = @ - 1]
               new == <<f>>
    <2>1. Become(t, f, <<>>)
      BY <1>11 DEF PushTask
    <2>2. f \in FrameType /\ f.at = "push" /\ f.pipeline = top.pipeline /\ f.n = top.n - 1 /\ f.kind = top.kind
      BY <1>1, <1>2, <1>3 DEF FrameType
    <2>3. f.n >= 1 /\ f.n \in Nat
      BY <1>3, <1>11, <2>2
    <2> HIDE DEF f
    <2>4. Moved(stack, stack', t, new)
      BY <2>1, <2>2, BecomeStep
    <2>5. /\ new \in Seq(FrameType) /\ Len(new) = 1 /\ new[1] = f
          /\ \A k \in 1 .. Len(new) : k = 1
          /\ \A p : Weight(new, p) = TasksIn(f, p)
      BY <2>2, OneFrame
    <2> HIDE DEF new
    <2>6. FrameOK(f, finished_tasks, total_tasks, finished) /\ Neutral(f)
      BY <1>3, <2>2, <2>3 DEF FrameOK, Neutral, Claims, Numbered
    <2>7. Len(stack[t]) # 1
      BY <1>8, LoopPlace
    <2>8. ShapeStep(stack, t, new)
      BY <2>2, <2>5, <2>7, <1>8, <1>2 DEF ShapeStep
    <2>9. Succeeds(stack, t, new, total_tasks)
      BY <2>5, <2>6 DEF Succeeds
    <2>10. Balanced(queue, queue', finished_tasks, finished_tasks, total_tasks, total_tasks, top, new)
      <3>1. \A p : Weight(new, p) = IF top.pipeline = p THEN top.n - 1 ELSE 0
        BY <2>2, <2>5 DEF TasksIn
      <3>2. \A p \in Pipelines :
              /\ IsFiniteSet(Queued(queue', p))
              /\ TasksIn(top, p) \in Nat /\ Weight(new, p) \in Nat
              /\ Cardinality(Queued(queue', p)) + Weight(new, p) =
                   Cardinality(Queued(queue, p)) + TasksIn(top, p)
        BY <1>3, <1>7, <1>9, <2>2, <2>3, <3>1
      <3> QED
        BY <3>2, BalancedQueue
    <2>11. InitialStep(t, new)
      BY <2>7, Zenon DEF InitialStep
    <2>12. \A k \in 1 .. Len(new) : FrameOK(new[k], finished_tasks, total_tasks, finished) /\ new[k].at # "complete"
      BY <2>2, <2>5, <2>6
    <2>13. Plain(t, new)
      BY <1>5, <1>6, <1>8, <2>4, <2>5, <2>8, <2>9, <2>10, <2>11, <2>12, Zenon DEF Plain, Uncounted
    <2> QED
      BY <2>13, PlainStep
  <1> QED
    BY <1>10, <1>11

\* A task in the queue was announced.
LEMMA QueuedAnnounced ==
    ASSUME Core, NEW i \in DOMAIN queue
    PROVE  queue[i].pipeline \in Pipelines /\ total_tasks[queue[i].pipeline] > 0
  <1> DEFINE p == queue[i].pipeline
             q == Cardinality(Queued(queue, p))
             h == Cardinality(Held(stack, p))
  <1>1. p \in Pipelines
    <2>1. queue \in Seq(TaskType)
      BY DEF Core, TypeInv
    <2>2. queue[i] \in TaskType
      BY <2>1
    <2> QED
      BY <2>2 DEF TaskType
  <1>2. IsFiniteSet(Queued(queue, p)) /\ IsFiniteSet(Held(stack, p)) /\ finished_tasks[p] + q + h <= total_tasks[p]
    BY <1>1 DEF Core, Counted
  <1>3. q \in Nat /\ h \in Nat
    BY <1>2, FS_CardinalityType
  <1>4. Queued(queue, p) # {}
    BY DEF Queued
  <1>5. q # 0
    BY <1>2, <1>4, FS_EmptySet
  <1>6. finished_tasks[p] \in Nat /\ total_tasks[p] \in Nat
    BY <1>1 DEF Core, TypeInv
  <1> HIDE DEF p, q, h
  <1>7. total_tasks[p] > 0
    BY <1>2, <1>3, <1>5, <1>6
  <1> QED
    BY <1>1, <1>7 DEF p

LEMMA TakeTaskKeeps ==
    ASSUME Core, NEW t \in Threads, TakeTask(t)
    PROVE  Core'
  <1> DEFINE top == Top(t)
             task == Head(queue)
             g == Frame("execute", task.pipeline, task.kind, 0, {})
             new == <<top, g>>
  <1>1. top \in FrameType
    BY TopFacts
  <1>2. top.at \in {"idle", "drain"} /\ queue # <<>> /\ queue' = Tail(queue)
    BY LoopPlace DEF TakeTask
  <1>3. Uncounted /\ interrupted' \in BOOLEAN /\ exceptions' \in BOOLEAN /\ queue \in Seq(TaskType)
    BY DEF TakeTask, Uncounted, counters, Core, TypeInv
  <1>4. task \in TaskType /\ task = queue[1] /\ 1 \in DOMAIN queue
    BY <1>2, <1>3
  <1>5. task.pipeline \in Pipelines /\ total_tasks[task.pipeline] > 0
    BY <1>4, QueuedAnnounced
  <1>6. g \in FrameType /\ g.at = "execute" /\ g.pipeline = task.pipeline
    BY <1>4 DEF Frame, FrameType, TaskType, TaskPlaces
  <1>7. Moved(stack, stack', t, new)
    BY <1>1, <1>6, CallStep DEF TakeTask
  <1>8. /\ new \in Seq(FrameType) /\ Len(new) = 2 /\ new[1] = top /\ new[2] = g
        /\ \A k \in 1 .. Len(new) : k = 1 \/ k = 2
        /\ \A k \in 2 .. Len(new) : k = 2
        /\ \A p : Weight(new, p) = TasksIn(top, p) + TasksIn(g, p)
    BY <1>1, <1>6, TwoFrames
  <1> HIDE DEF new, g, task
  <1>9. top.at \in BasePlaces /\ Len(stack[t]) = 1
    BY <1>2, LoopPlace DEF BasePlaces
  <1>10. /\ FrameOK(top, finished_tasks, total_tasks, finished) /\ Neutral(top) /\ top.at # "complete"
         /\ \A p : TasksIn(top, p) = 0
    BY <1>9, BaseFrame
  <1>11. FrameOK(g, finished_tasks, total_tasks, finished) /\ Neutral(g) /\ g.at # "complete" /\ g.at \in TaskPlaces
    BY <1>5, <1>6 DEF FrameOK, Neutral, Claims, Numbered, TaskPlaces
  <1>12. ShapeStep(stack, t, new)
    <2>1. top.at \in IF t = Main THEN {"init", "head", "drain", "left"} ELSE {"idle", "stopped"}
      BY <1>9, TopFacts
    <2>2. top.at \notin {"head", "left", "stopped"}
      BY <1>2
    <2>3. Len(new) >= 1
      BY <1>8
    <2>4. \A k \in 2 .. Len(new) : new[k].at \in TaskPlaces
      BY <1>8, <1>11
    <2> QED
      BY <1>8, <1>9, <2>1, <2>2, <2>3, <2>4 DEF ShapeStep
  <1>13. Succeeds(stack, t, new, total_tasks)
    BY <1>8, <1>10, <1>11 DEF Succeeds
  <1>14. \A p : TasksIn(g, p) = IF task.pipeline = p THEN 1 ELSE 0
    BY <1>6 DEF TasksIn
  <1>15. Balanced(queue, queue', finished_tasks, finished_tasks, total_tasks, total_tasks, top, new)
    <2>1. \A p \in Pipelines :
            /\ IsFiniteSet(Queued(queue', p))
            /\ Cardinality(Queued(queue, p)) \in Nat
            /\ Cardinality(Queued(queue', p)) =
                 Cardinality(Queued(queue, p)) - (IF task.pipeline = p THEN 1 ELSE 0)
      <3> TAKE p \in Pipelines
      <3>1. IsFiniteSet(Queued(queue, p))
        BY DEF Core, Counted
      <3> QED
        BY <1>2, <1>3, <3>1, QueuedTail DEF task
    <2>2. \A p \in Pipelines :
            /\ IsFiniteSet(Queued(queue', p))
            /\ TasksIn(top, p) \in Nat /\ Weight(new, p) \in Nat
            /\ Cardinality(Queued(queue', p)) + Weight(new, p) =
                 Cardinality(Queued(queue, p)) + TasksIn(top, p)
      BY <1>8, <1>10, <1>14, <2>1
    <2> QED
      BY <2>2, BalancedQueue
  <1>16. InitialStep(t, new)
    BY <1>8 DEF InitialStep
  <1>17. \A k \in 1 .. Len(new) : FrameOK(new[k], finished_tasks, total_tasks, finished) /\ new[k].at # "complete"
    BY <1>8, <1>10, <1>11
  <1>18. queue' \in Seq(TaskType)
    BY <1>2, <1>3
  <1>19. Plain(t, new)
    BY <1>3, <1>7, <1>8, <1>10, <1>12, <1>13, <1>15, <1>16, <1>17, <1>18, Zenon DEF Plain, Uncounted
  <1> QED
    BY <1>19, PlainStep

(***************************************************************************)
(* Counting and finalizing.                                                *)
(***************************************************************************)
\* A task that is out is not counted yet.
LEMMA HeldAnnounced ==
    ASSUME Core, NEW t \in Threads, Top(t).pipeline \in Pipelines, TasksIn(Top(t), Top(t).pipeline) >= 1
    PROVE  finished_tasks[Top(t).pipeline] < total_tasks[Top(t).pipeline]
  <1> DEFINE p == Top(t).pipeline
             q == Cardinality(Queued(queue, p))
             h == Cardinality(Held(stack, p))
             n == Len(stack[t])
  <1>1. /\ IsFiniteSet(Queued(queue, p)) /\ IsFiniteSet(Held(stack, p))
        /\ finished_tasks[p] + q + h <= total_tasks[p]
    BY DEF Core, Counted
  <1>2. q \in Nat /\ h \in Nat
    BY <1>1, FS_CardinalityType
  <1>3. n \in DOMAIN stack[t] /\ Top(t) = stack[t][n] /\ TasksIn(Top(t), p) \in Nat
    BY TopFacts, TasksInType
  <1>4. <<t, n, 1>> \in Tokens(t, n, TasksIn(stack[t][n], p))
    BY <1>3 DEF Tokens
  <1>5. <<t, n, 1>> \in Held(stack, p)
    BY <1>3, <1>4, HeldElements
  <1>6. h # 0
    BY <1>1, <1>5, FS_EmptySet
  <1>7. finished_tasks[p] \in Nat /\ total_tasks[p] \in Nat
    BY DEF Core, TypeInv
  <1> HIDE DEF p, q, h
  <1>8. finished_tasks[p] < total_tasks[p]
    BY <1>1, <1>2, <1>6, <1>7
  <1> QED
    BY <1>8 DEF p

\* What the frames below the top one, and of other threads, are known for.
LEMMA OthersFacts ==
    ASSUME Core, NEW t \in Threads
    PROVE  /\ \A u, j : Other(stack, t, u, j) =>
                /\ stack[u][j] \in FrameType
                /\ FrameOK(stack[u][j], finished_tasks, total_tasks, finished)
                /\ PairOK(stack[u][j], Top(t), total_tasks)
           /\ \A u, v, i, j : Other(stack, t, u, i) /\ Other(stack, t, v, j) /\ (u # v \/ i # j)
                => PairOK(stack[u][i], stack[v][j], total_tasks)
  <1>1. Top(t) = stack[t][Len(stack[t])] /\ Len(stack[t]) \in DOMAIN stack[t]
    BY TopFacts
  <1>2. ASSUME NEW u, NEW j, Other(stack, t, u, j)
        PROVE  /\ stack[u][j] \in FrameType
               /\ FrameOK(stack[u][j], finished_tasks, total_tasks, finished)
               /\ PairOK(stack[u][j], Top(t), total_tasks)
    <2>1. u \in Threads /\ j \in DOMAIN stack[u] /\ (u # t \/ j # Len(stack[t]))
      BY <1>2 DEF Other
    <2>2. stack[u][j] \in FrameType
      <3>1. stack[u] \in Seq(FrameType)
        BY <2>1 DEF Core, TypeInv
      <3> QED
        BY <2>1, <3>1
    <2>3. FrameOK(stack[u][j], finished_tasks, total_tasks, finished)
      BY <2>1 DEF Core, Framed
    <2>4. PairOK(stack[u][j], Top(t), total_tasks)
      BY <1>1, <2>1, Zenon DEF Core, Paired
    <2> QED
      BY <2>2, <2>3, <2>4
  <1>3. \A u, v, i, j : Other(stack, t, u, i) /\ Other(stack, t, v, j) /\ (u # v \/ i # j)
                => PairOK(stack[u][i], stack[v][j], total_tasks)
    BY Zenon DEF Core, Paired, Other
  <1> QED
    BY <1>2, <1>3

\* The parts of the invariant that do not depend on the tasks of pipelines, after a step
\* without frames that complete a pipeline.
LEMMA SilentStep ==
    ASSUME Core, NEW t \in Threads, NEW new \in Seq(FrameType), Moved(stack, stack', t, new),
           Top(t).at # "complete",
           \A k \in 1 .. Len(new) : new[k].at # "complete",
           plan' = plan, finished' = finished, finished_dependencies' = finished_dependencies,
           completed_pipelines' = completed_pipelines
    PROVE  /\ CompletedInv'
           /\ Parented(stack', plan.deps)
           /\ \A q : Told(stack', plan.deps, finished, q) = Told(stack, plan.deps, finished, q)
  <1>1. Stacks(stack, t) /\ Top(t) = stack[t][Len(stack[t])]
    BY TopFacts
  <1>2. /\ \A d, q : Telling(stack', d, q) <=> Telling(stack, d, q)
        /\ \A d : Completing(stack', d) <=> Completing(stack, d)
    BY <1>1, TellingStays
  <1>3. Completed(stack', finished) = Completed(stack, finished)
    BY <1>2 DEF Completed
  <1>4. CompletedInv'
    BY <1>3 DEF CompletedInv, Core
  <1>5. Parented(stack', plan.deps)
    BY <1>1, ParentedStays DEF Core
  <1>6. \A q : Told(stack', plan.deps, finished, q) = Told(stack, plan.deps, finished, q)
    BY <1>2 DEF Told
  <1> QED
    BY <1>4, <1>5, <1>6

LEMMA CountTaskKeeps ==
    ASSUME Core, NEW t \in Threads, CountTask(t)
    PROVE  Core'
  <1> DEFINE top == Top(t)
             p == top.pipeline
             c == finished_tasks[p] + 1
             done == [finished_tasks EXCEPT ![p] = c]
  <1>1. top \in FrameType /\ FrameOK(top, finished_tasks, total_tasks, finished) /\ Stacks(stack, t)
        /\ top = stack[t][Len(stack[t])]
    BY TopFacts
  <1>2. top.at = "count" /\ finished_tasks' = done
    BY DEF CountTask, At
  <1>3. p \in Pipelines /\ total_tasks[p] > 0
    BY <1>1, <1>2 DEF FrameOK, TaskPlaces
  <1>4. /\ plan' = plan /\ queue' = queue /\ total_tasks' = total_tasks
        /\ finished_dependencies' = finished_dependencies /\ finished' = finished
        /\ completed_pipelines' = completed_pipelines /\ rounds' = rounds
        /\ interrupted' = interrupted /\ exceptions' = exceptions
    BY DEF CountTask
  <1>5. finished_tasks[p] < total_tasks[p]
    <2>1. TasksIn(top, p) >= 1
      BY <1>2 DEF TasksIn
    <2> QED
      BY <1>3, <2>1, HeldAnnounced
  <1>6. /\ finished_tasks \in [Pipelines -> Nat] /\ total_tasks \in [Pipelines -> Nat]
        /\ c \in Nat /\ finished_tasks[p] \in Nat /\ total_tasks[p] \in Nat
    BY <1>3 DEF Core, TypeInv
  <1>7. /\ done \in [Pipelines -> Nat] /\ done[p] = c
        /\ \A x \in Pipelines : x # p => done[x] = finished_tasks[x]
    BY <1>3, <1>6
  <1>8. p \notin finished
    BY <1>5, <1>6 DEF Core, FinishedInv
  <1>9. Len(stack[t]) # 1 /\ top.at # "complete"
    BY <1>2, LoopPlace DEF TaskPlaces
  \* The frame that the thread goes on with, if any.
  <1>10. \E new \in Seq(FrameType) :
           /\ Moved(stack, stack', t, new)
           /\ \/ Len(new) = 0
              \/ /\ Len(new) = 1 /\ new[1] \in FrameType /\ new[1].pipeline = p
                 /\ \/ new[1].at = "compare" /\ new[1].n = c
                    \/ new[1].at = "finish" /\ c = total_tasks[p]
    <2>1. CASE Become(t, [top EXCEPT !.at = "compare", !.n = c], <<>>)
      <3> DEFINE f == [top EXCEPT !.at = "compare", !.n = c]
      <3>1. f \in FrameType /\ f.at = "compare" /\ f.n = c /\ f.pipeline = p
        BY <1>1, <1>6 DEF FrameType, TaskPlaces
      <3> HIDE DEF f
      <3>2. Moved(stack, stack', t, <<f>>)
        BY <2>1, <3>1, BecomeStep DEF f
      <3>3. <<f>> \in Seq(FrameType) /\ Len(<<f>>) = 1 /\ <<f>>[1] = f
        BY <3>1, OneFrame
      <3> QED
        BY <3>1, <3>2, <3>3
    <2>2. CASE c = total_tasks[p] /\ Goto(t, "finish")
      <3> DEFINE f == [top EXCEPT !.at = "finish"]
      <3>0. "finish" \in TaskPlaces \cup BasePlaces
        BY DEF TaskPlaces
      <3>1. f \in FrameType /\ f.at = "finish" /\ f.pipeline = p
        BY <1>1, <3>0, AtFrame
      <3>2. Moved(stack, stack', t, <<f>>)
        BY <2>2, <3>0, GotoStep
      <3> HIDE DEF f
      <3>3. <<f>> \in Seq(FrameType) /\ Len(<<f>>) = 1 /\ <<f>>[1] = f
        BY <3>1, OneFrame
      <3> QED
        BY <2>2, <3>1, <3>2, <3>3
    <2>3. CASE Return(t)
      <3>1. Moved(stack, stack', t, <<>>)
        BY <2>3, ReturnedStep
      <3>2. <<>> \in Seq(FrameType) /\ Len(<<>>) = 0
        OBVIOUS
      <3> QED
        BY <3>1, <3>2
    <2> QED
      BY <2>1, <2>2, <2>3 DEF CountTask
  <1>11. PICK new \in Seq(FrameType) :
           /\ Moved(stack, stack', t, new)
           /\ \/ Len(new) = 0
              \/ /\ Len(new) = 1 /\ new[1] \in FrameType /\ new[1].pipeline = p
                 /\ \/ new[1].at = "compare" /\ new[1].n = c
                    \/ new[1].at = "finish" /\ c = total_tasks[p]
    BY <1>10
  <1>12. Len(new) \in 0 .. 2 /\ \A k \in 1 .. Len(new) : k = 1 /\ Len(new) = 1
    BY <1>11
  <1> HIDE DEF top, p, c, done
  <1>13. TypeInv'
    <2>1. stack' \in [Threads -> Seq(FrameType)]
      BY <1>11 DEF Moved
    <2> QED
      BY <1>2, <1>4, <1>7, <2>1 DEF Core, TypeInv
  <1>14. Shaped(stack')
    <2>1. \A k \in 1 .. Len(new) : new[k].at \in TaskPlaces
      BY <1>11, <1>12 DEF TaskPlaces
    <2>2. ShapeStep(stack, t, new)
      BY <1>9, <2>1 DEF ShapeStep
    <2> QED
      BY <1>1, <1>11, <2>2, ShapedMoves DEF Core
  \* No other frame claims the pipeline: not all of its tasks are counted.
  <1>15. ASSUME NEW u, NEW j, Other(stack, t, u, j)
         PROVE  /\ FrameOK(stack[u][j], done, total_tasks, finished)
                /\ stack[u][j].pipeline = p =>
                     /\ ~Claims(stack[u][j], total_tasks)
                     /\ stack[u][j].at \in Numbered => stack[u][j].n \in Nat /\ stack[u][j].n # c
    <2> DEFINE f == stack[u][j]
    <2>1. f \in FrameType /\ FrameOK(f, finished_tasks, total_tasks, finished)
      BY <1>15, OthersFacts
    <2> HIDE DEF f
    <2>2. f.n \in Nat
      BY <2>1 DEF FrameType
    <2>3. CASE f.pipeline = p
      <3>1. ~Claims(f, total_tasks)
        BY <1>5, <1>6, <2>1, <2>3 DEF FrameOK
      <3>2. f.at \in Numbered => f.n \in 1 .. finished_tasks[p]
        BY <2>1, <2>3 DEF FrameOK
      <3>3. f.at \in Numbered => f.n \in 1 .. done[p] /\ f.n # c
        BY <1>6, <1>7, <2>2, <3>2 DEF c
      <3>4. FrameOK(f, done, total_tasks, finished)
        BY <2>1, <2>3, <3>1, <3>3 DEF FrameOK
      <3> QED
        BY <2>2, <3>1, <3>3, <3>4 DEF f
    <2>4. CASE f.pipeline # p
      <3>1. CASE f.at \in TaskPlaces
        <4>1. f.pipeline \in Pipelines
          BY <2>1, <3>1 DEF FrameOK
        <4>2. done[f.pipeline] = finished_tasks[f.pipeline]
          BY <1>7, <2>4, <4>1
        <4> QED
          BY <2>1, <2>4, <4>2 DEF FrameOK, f
      <3>2. CASE f.at \notin TaskPlaces
        <4>1. f.at \in BasePlaces
          BY <2>1, <3>2 DEF FrameType
        <4> QED
          BY <2>4, <4>1, BaseFrame DEF f
      <3> QED
        BY <3>1, <3>2
    <2> QED
      BY <2>3, <2>4
  <1>16. ASSUME NEW k \in 1 .. Len(new)
         PROVE  FrameOK(new[k], done, total_tasks, finished) /\ new[k].at # "complete"
    <2> DEFINE f == new[1]
    <2>1. /\ k = 1 /\ f.pipeline = p /\ f.at # "complete" /\ f.at # "push" /\ f.at # "finalize"
          /\ (f.at = "compare" /\ f.n = c) \/ (f.at = "finish" /\ c = total_tasks[p])
      BY <1>11, <1>12
    <2> HIDE DEF f
    <2>2. f.at \in Numbered => f.n \in 1 .. done[p]
      BY <1>6, <1>7, <2>1 DEF Numbered, c
    <2>3. Claims(f, total_tasks) => done[p] = total_tasks[p]
      BY <1>7, <2>1 DEF Claims
    <2>4. FrameOK(f, done, total_tasks, finished)
      BY <1>3, <1>8, <2>1, <2>2, <2>3 DEF FrameOK
    <2> QED
      BY <2>1, <2>4 DEF f
  <1>17. Framed(stack', done, total_tasks, finished)
    BY <1>1, <1>11, <1>15, <1>16, FramedMoves
  <1>18. Paired(stack', total_tasks)
    <2>1. \A u, v, i, j : Other(stack, t, u, i) /\ Other(stack, t, v, j) /\ (u # v \/ i # j)
                => PairOK(stack[u][i], stack[v][j], total_tasks)
      BY OthersFacts
    <2>2. ASSUME NEW u, NEW i, Other(stack, t, u, i), NEW k \in 1 .. Len(new)
          PROVE  PairOK(stack[u][i], new[k], total_tasks)
      <3>1. stack[u][i].pipeline = p =>
              /\ ~Claims(stack[u][i], total_tasks)
              /\ stack[u][i].at \in Numbered => stack[u][i].n # c
        BY <1>15, <2>2
      <3>2. k = 1 /\ new[1].pipeline = p /\ (new[1].at \in Numbered => new[1].n = c)
        BY <1>11, <1>12 DEF Numbered
      <3> QED
        BY <3>1, <3>2, Zenon DEF PairOK
    <2>3. \A k, l \in 1 .. Len(new) : k # l => PairOK(new[k], new[l], total_tasks)
      BY <1>12
    <2> QED
      BY <1>1, <1>11, <2>1, <2>2, <2>3, PairedMoves
  <1>19. Counted(queue, stack', done, total_tasks)
    <2>1. \A x : TasksIn(top, x) = IF x = p THEN 1 ELSE 0
      BY <1>2 DEF TasksIn, top, p
    <2>2. \A x : Weight(new, x) = 0
      BY <1>11 DEF Weight, TasksIn
    <2>3. ASSUME NEW x \in Pipelines
          PROVE  LET before == finished_tasks[x] + Cardinality(Queued(queue, x)) + TasksIn(top, x)
                     after == done[x] + Cardinality(Queued(queue, x)) + Weight(new, x)
                 IN  /\ IsFiniteSet(Queued(queue, x))
                     /\ after - before <= total_tasks[x] - total_tasks[x]
                     /\ FinalizeIsWhole => after - before = total_tasks[x] - total_tasks[x]
      <3>1. IsFiniteSet(Queued(queue, x))
        BY DEF Core, Counted
      <3>2. Cardinality(Queued(queue, x)) \in Nat /\ finished_tasks[x] \in Nat /\ total_tasks[x] \in Nat
        BY <1>6, <3>1, FS_CardinalityType
      <3>3. done[x] = finished_tasks[x] + TasksIn(top, x) /\ TasksIn(top, x) \in Nat
        BY <1>6, <1>7, <2>1, <3>2 DEF c
      <3>4. (done[x] + Cardinality(Queued(queue, x)) + Weight(new, x))
              - (finished_tasks[x] + Cardinality(Queued(queue, x)) + TasksIn(top, x)) = 0
        BY <2>2, <3>2, <3>3
      <3>5. total_tasks[x] - total_tasks[x] = 0
        BY <3>2
      <3> QED
        BY <3>1, <3>4, <3>5
    <2>4. Balanced(queue, queue, finished_tasks, done, total_tasks, total_tasks, stack[t][Len(stack[t])], new)
      BY <1>1, <2>3 DEF Balanced, top
    <2> QED
      BY <1>1, <1>6, <1>7, <1>11, <1>12, <2>4, CountedMoves DEF Core
  <1>20. /\ CompletedInv' /\ Parented(stack', plan.deps)
         /\ \A q : Told(stack', plan.deps, finished, q) = Told(stack, plan.deps, finished, q)
    BY <1>4, <1>9, <1>11, <1>16, SilentStep DEF top
  <1>21. ToldInv'
    BY <1>4, <1>20 DEF Core, ToldInv
  <1>22. InitialInv'
    <2>1. \A k \in 1 .. Len(new) : new[k].at \in TaskPlaces
      BY <1>11, <1>12 DEF TaskPlaces
    <2>2. ShapeStep(stack, t, new)
      BY <1>9, <2>1 DEF ShapeStep
    <2>3. stack'[Main][1] = stack[Main][1]
      BY <1>9, <1>11, <2>2, LowestFrame
    <2> QED
      BY <1>4, <2>3 DEF Core, InitialInv
  <1>23. FinishedInv'
    BY <1>2, <1>4, <1>7, <1>8 DEF Core, TypeInv, FinishedInv
  <1> QED
    BY <1>2, <1>4, <1>13, <1>14, <1>17, <1>18, <1>19, <1>20, <1>21, <1>22, <1>23 DEF Core

(***************************************************************************)
(* Announcing tasks: Schedule, and the Finalize of a hash aggregate.       *)
(***************************************************************************)
Raised(p, m) == [total_tasks EXCEPT ![p] = @ + m]

\* More tasks of p than before: no frame that is not the claim of p has all of them.
LEMMA RaisedOthers ==
    ASSUME Core, NEW t \in Threads, NEW p \in Pipelines, NEW m \in Nat, m >= 1,
           NEW u, NEW j, Other(stack, t, u, j),
           stack[u][j].pipeline = p => ~Claims(stack[u][j], total_tasks)
    PROVE  /\ FrameOK(stack[u][j], finished_tasks, Raised(p, m), finished)
           /\ Claims(stack[u][j], Raised(p, m)) => Claims(stack[u][j], total_tasks)
  <1> DEFINE f == stack[u][j]
             total2 == Raised(p, m)
             q == Cardinality(Queued(queue, p))
             h == Cardinality(Held(stack, p))
  <1>1. f \in FrameType /\ FrameOK(f, finished_tasks, total_tasks, finished)
    BY OthersFacts
  <1>2. /\ finished_tasks \in [Pipelines -> Nat] /\ total_tasks \in [Pipelines -> Nat]
        /\ IsFiniteSet(Queued(queue, p)) /\ IsFiniteSet(Held(stack, p))
        /\ finished_tasks[p] + q + h <= total_tasks[p]
    BY DEF Core, TypeInv, Counted
  <1>3. q \in Nat /\ h \in Nat
    BY <1>2, FS_CardinalityType
  <1>4. finished_tasks[p] \in Nat /\ total_tasks[p] \in Nat
    BY <1>2
  <1>5. /\ total2[p] = total_tasks[p] + m
        /\ \A x \in Pipelines : x # p => total2[x] = total_tasks[x]
    BY <1>2 DEF Raised
  <1>6. f.pipeline = p => ~Claims(f, total_tasks)
    OBVIOUS
  <1> HIDE DEF f, total2, q, h
  <1>7. finished_tasks[p] < total2[p] /\ total2[p] > 0
    BY <1>2, <1>3, <1>4, <1>5
  <1>8. CASE f.pipeline = p
    <2>1. f.at \notin {"finish", "complete"} /\ f.at # "finalize"
      BY <1>1, <1>6, <1>8 DEF FrameOK, Claims, Numbered
    <2>2. f.at \in Numbered => f.n \in 1 .. finished_tasks[p]
      BY <1>1, <1>8 DEF FrameOK
    <2>3. \A n \in 1 .. finished_tasks[p] : n # total2[p]
      BY <1>4, <1>7
    <2>4. f.at \in Numbered => f.n # total2[p]
      BY <2>2, <2>3, Zenon
    <2>5. ~Claims(f, total2)
      BY <1>8, <2>1, <2>4, Zenon DEF Claims
    <2>6. FrameOK(f, finished_tasks, total2, finished)
      <3>1. f.at = "push" => f.n >= 1 /\ f.kind \in {"task", "finalize"}
        BY <1>1 DEF FrameOK
      <3> QED
        BY <1>7, <1>8, <2>1, <2>2, <2>5, <3>1, Zenon DEF FrameOK
    <2> QED
      BY <2>5, <2>6 DEF f, total2
  <1>9. CASE f.pipeline # p
    <2>1. CASE f.at \in TaskPlaces
      <3>1. f.pipeline \in Pipelines
        BY <1>1, <2>1 DEF FrameOK
      <3>2. total2[f.pipeline] = total_tasks[f.pipeline]
        BY <1>5, <1>9, <3>1
      <3>3. Claims(f, total2) <=> Claims(f, total_tasks)
        BY <3>2 DEF Claims
      <3>4. FrameOK(f, finished_tasks, total2, finished)
        BY <1>1, <3>2, <3>3, Zenon DEF FrameOK
      <3> QED
        BY <3>3, <3>4 DEF f, total2
    <2>2. CASE f.at \notin TaskPlaces
      <3>1. f.at \in BasePlaces
        BY <1>1, <2>2 DEF FrameType
      <3>2. ~Claims(f, total2)
        BY <3>1 DEF Claims, BasePlaces, Numbered
      <3> QED
        BY <3>1, <3>2, BaseFrame DEF f, total2
    <2> QED
      BY <2>1, <2>2
  <1> QED
    BY <1>8, <1>9

\* The pairs of frames after more tasks of p were announced.
LEMMA RaisedPairs ==
    ASSUME NEW f, NEW g, NEW f2, NEW g2, NEW total, NEW total2, PairOK(f, g, total),
           f2.pipeline = f.pipeline, Claims(f2, total2) => Claims(f, total),
           f2.at \in Numbered => f.at \in Numbered /\ f2.n = f.n,
           g2.pipeline = g.pipeline, Claims(g2, total2) => Claims(g, total),
           g2.at \in Numbered => g.at \in Numbered /\ g2.n = g.n
    PROVE  PairOK(f2, g2, total2)
  BY Zenon DEF PairOK

\* Thread t announces m tasks of p and goes on at new[1]; it is yet to enqueue them, unless
\* Finalize fails in between.
Announces(t, new, p, m) ==
    /\ t \in Threads /\ p \in Pipelines /\ m \in Nat /\ m >= 1
    /\ new \in Seq(FrameType) /\ Len(new) \in {1, 2}
    /\ Moved(stack, stack', t, new)
    /\ total_tasks' = Raised(p, m)
    /\ UNCHANGED <<plan, queue, finished_tasks, finished, rounds>>
    /\ interrupted' \in BOOLEAN /\ exceptions' \in BOOLEAN
    /\ finished_dependencies' \in [Pipelines -> Nat] /\ completed_pipelines' \in Nat
    /\ p \notin finished
    /\ ShapeStep(stack, t, new)
    /\ \A u, j : Other(stack, t, u, j) /\ stack[u][j].pipeline = p => ~Claims(stack[u][j], total_tasks)
    /\ FrameOK(new[1], finished_tasks, Raised(p, m), finished)
    /\ \/ Neutral(new[1])
       \/ /\ new[1].pipeline = Top(t).pipeline
          /\ Claims(new[1], Raised(p, m)) => Claims(Top(t), total_tasks)
          /\ new[1].at \in Numbered => Top(t).at \in Numbered /\ new[1].n = Top(t).n
    /\ \A x : TasksIn(Top(t), x) = 0 /\ TasksIn(new[1], x) = 0
    /\ Len(new) = 1 => ~FinalizeIsWhole
    /\ Len(new) = 2 => /\ new[2].at = "push" /\ new[2].pipeline = p /\ new[2].n = m
                       /\ new[2].kind \in {"task", "finalize"}

LEMMA AnnounceStep ==
    ASSUME Core, NEW t, NEW new, NEW p, NEW m, Announces(t, new, p, m)
    PROVE  /\ TypeInv'
           /\ Shaped(stack')
           /\ Framed(stack', finished_tasks, total_tasks', finished)
           /\ Paired(stack', total_tasks')
           /\ Counted(queue, stack', finished_tasks, total_tasks')
           /\ FinishedInv'
  <1> DEFINE total2 == Raised(p, m)
  <1>1. /\ t \in Threads /\ p \in Pipelines /\ m \in Nat /\ m >= 1
        /\ new \in Seq(FrameType) /\ Len(new) \in {1, 2} /\ Moved(stack, stack', t, new)
        /\ total_tasks' = total2 /\ p \notin finished /\ ShapeStep(stack, t, new)
    BY DEF Announces
  <1>2. /\ plan' = plan /\ queue' = queue /\ finished_tasks' = finished_tasks /\ finished' = finished
        /\ rounds' = rounds /\ interrupted' \in BOOLEAN /\ exceptions' \in BOOLEAN
        /\ finished_dependencies' \in [Pipelines -> Nat] /\ completed_pipelines' \in Nat
    BY DEF Announces
  <1>3. Stacks(stack, t) /\ Top(t) = stack[t][Len(stack[t])] /\ Top(t) \in FrameType
    BY <1>1, TopFacts
  <1>4. /\ finished_tasks \in [Pipelines -> Nat] /\ total_tasks \in [Pipelines -> Nat]
    BY DEF Core, TypeInv
  <1>5. /\ total2 \in [Pipelines -> Nat] /\ total2[p] = total_tasks[p] + m
        /\ \A x \in Pipelines : x # p => total2[x] = total_tasks[x]
    BY <1>1, <1>4 DEF Raised
  <1>6. \A k \in 1 .. Len(new) : k = 1 \/ (k = 2 /\ Len(new) = 2)
    <2>1. \A n \in {1, 2} : \A k \in 1 .. n : k = 1 \/ (k = 2 /\ n = 2)
      OBVIOUS
    <2> QED
      BY <1>1, <2>1, Zenon
  <1>7. ASSUME NEW u, NEW j, Other(stack, t, u, j)
        PROVE  /\ FrameOK(stack[u][j], finished_tasks, total2, finished)
               /\ Claims(stack[u][j], total2) => Claims(stack[u][j], total_tasks)
    <2>1. stack[u][j].pipeline = p => ~Claims(stack[u][j], total_tasks)
      BY <1>7 DEF Announces
    <2> QED
      BY <1>1, <1>7, <2>1, RaisedOthers
  <1>8. Len(new) = 2 => /\ FrameOK(new[2], finished_tasks, total2, finished) /\ Neutral(new[2])
    <2>1. total2[p] > 0
      BY <1>1, <1>4, <1>5
    <2> HIDE DEF total2
    <2>2. Len(new) = 2 => /\ new[2].at = "push" /\ new[2].pipeline = p /\ new[2].n = m
                          /\ new[2].kind \in {"task", "finalize"}
      BY DEF Announces
    <2> QED
      BY <1>1, <2>1, <2>2 DEF FrameOK, Neutral, Claims, Numbered
  <1>9. FrameOK(new[1], finished_tasks, total2, finished)
    BY DEF Announces
  <1>10. \/ Neutral(new[1])
         \/ /\ new[1].pipeline = Top(t).pipeline
            /\ Claims(new[1], total2) => Claims(Top(t), total_tasks)
            /\ new[1].at \in Numbered => Top(t).at \in Numbered /\ new[1].n = Top(t).n
    BY DEF Announces
  <1>11. /\ \A x : TasksIn(Top(t), x) = 0 /\ TasksIn(new[1], x) = 0
         /\ Len(new) = 1 => ~FinalizeIsWhole
         /\ Len(new) = 2 => /\ new[2].at = "push" /\ new[2].pipeline = p /\ new[2].n = m
    BY DEF Announces
  <1> HIDE DEF total2
  <1>12. TypeInv'
    <2>1. stack' \in [Threads -> Seq(FrameType)]
      BY <1>1 DEF Moved
    <2> QED
      BY <1>1, <1>2, <1>5, <2>1 DEF Core, TypeInv
  <1>13. Shaped(stack')
    BY <1>1, <1>3, ShapedMoves DEF Core
  <1>14. Framed(stack', finished_tasks, total2, finished)
    <2>1. \A k \in 1 .. Len(new) : FrameOK(new[k], finished_tasks, total2, finished)
      BY <1>6, <1>8, <1>9, Zenon
    <2>2. \A u, j : Other(stack, t, u, j) => FrameOK(stack[u][j], finished_tasks, total2, finished)
      BY <1>7
    <2> QED
      BY <1>1, <1>3, <2>1, <2>2, FramedMoves
  <1>15. Paired(stack', total2)
    <2>1. ASSUME NEW u, NEW v, NEW i, NEW j, Other(stack, t, u, i), Other(stack, t, v, j), u # v \/ i # j
          PROVE  PairOK(stack[u][i], stack[v][j], total2)
      <3>1. PairOK(stack[u][i], stack[v][j], total_tasks)
        BY <1>1, <2>1, OthersFacts, Zenon
      <3> QED
        BY <1>7, <2>1, <3>1, RaisedPairs
    <2>2. ASSUME NEW u, NEW i, Other(stack, t, u, i), NEW k \in 1 .. Len(new)
          PROVE  PairOK(stack[u][i], new[k], total2)
      <3>1. CASE Neutral(new[k])
        BY <3>1, NeutralPairs
      <3>2. CASE k = 1 /\ ~Neutral(new[1])
        <4>1. PairOK(stack[u][i], Top(t), total_tasks)
          BY <1>1, <2>2, OthersFacts, Zenon
        <4>2. PairOK(stack[u][i], new[1], total2)
          BY <1>7, <1>10, <2>2, <3>2, <4>1, RaisedPairs
        <4> QED
          BY <3>2, <4>2
      <3> QED
        BY <1>6, <1>8, <3>1, <3>2
    <2>3. ASSUME NEW k \in 1 .. Len(new), NEW l \in 1 .. Len(new), k # l
          PROVE  PairOK(new[k], new[l], total2)
      <3>1. Len(new) = 2 /\ (k = 2 \/ l = 2)
        BY <1>6, <2>3
      <3> QED
        BY <1>8, <3>1, NeutralPairs
    <2> QED
      BY <1>1, <1>3, <2>1, <2>2, <2>3, PairedMoves
  <1>16. Counted(queue, stack', finished_tasks, total2)
    <2>1. ASSUME NEW x \in Pipelines
          PROVE  LET before == finished_tasks[x] + Cardinality(Queued(queue, x)) + TasksIn(Top(t), x)
                     after == finished_tasks[x] + Cardinality(Queued(queue, x)) + Weight(new, x)
                 IN  /\ IsFiniteSet(Queued(queue, x))
                     /\ after - before <= total2[x] - total_tasks[x]
                     /\ FinalizeIsWhole => after - before = total2[x] - total_tasks[x]
      <3> DEFINE r == total2[x] - total_tasks[x]
                 w == Weight(new, x)
                 d == finished_tasks[x]
                 q == Cardinality(Queued(queue, x))
      <3>1. IsFiniteSet(Queued(queue, x))
        BY DEF Core, Counted
      <3>2. q \in Nat /\ d \in Nat /\ total_tasks[x] \in Nat
        BY <1>4, <3>1, FS_CardinalityType
      <3>3. r = IF x = p THEN m ELSE 0
        BY <1>1, <1>5, <3>2
      <3>4. TasksIn(Top(t), x) = 0
        BY <1>11
      <3>5. w = IF Len(new) = 2 /\ x = p THEN m ELSE 0
        <4>1. CASE Len(new) = 1
          BY <1>11, <4>1 DEF Weight
        <4>2. CASE Len(new) = 2
          <5>1. TasksIn(new[2], x) = IF x = p THEN m ELSE 0
            BY <1>11, <4>2 DEF TasksIn
          <5> QED
            BY <1>1, <1>11, <4>2, <5>1 DEF Weight
        <4> QED
          BY <1>1, <4>1, <4>2
      <3>6. w \in Nat /\ r \in Nat /\ w <= r /\ (FinalizeIsWhole => w = r)
        BY <1>1, <1>11, <3>3, <3>5
      <3> HIDE DEF r, w, d, q
      <3>7. (d + q + w) - (d + q + 0) = w
        BY <3>2, <3>6
      <3> QED
        BY <3>1, <3>4, <3>6, <3>7 DEF r, w, d, q
    <2>2. Balanced(queue, queue, finished_tasks, finished_tasks, total_tasks, total2, stack[t][Len(stack[t])], new)
      BY <1>3, <2>1 DEF Balanced
    <2>3. Len(new) \in 0 .. 2
      BY <1>1
    <2> QED
      BY <1>1, <1>3, <1>4, <1>5, <2>2, <2>3, CountedMoves DEF Core
  <1>17. FinishedInv'
    <2>1. \A x \in finished : total2[x] = total_tasks[x]
      BY <1>1, <1>5 DEF Core, TypeInv
    <2> QED
      BY <1>1, <1>2, <2>1 DEF Core, FinishedInv
  <1> QED
    BY <1>1, <1>12, <1>13, <1>14, <1>15, <1>16, <1>17

\* A thread that announces tasks, and neither it nor its new frames complete a pipeline.
LEMMA FinalizeAnnounces ==
    ASSUME Core, NEW t \in Threads, NEW m \in Nat, m >= 1, Top(t).at = "finalize",
           NEW new \in Seq(FrameType), Len(new) \in {1, 2}, Moved(stack, stack', t, new),
           new[1] = [Top(t) EXCEPT !.at = "recheck"],
           Len(new) = 2 => new[2] = Frame("push", Top(t).pipeline, "finalize", m, {}),
           Len(new) = 1 => ~FinalizeIsWhole,
           total_tasks' = Raised(Top(t).pipeline, m),
           UNCHANGED <<plan, queue, finished_tasks, finished, rounds, finished_dependencies, completed_pipelines>>,
           interrupted' \in BOOLEAN, exceptions' \in BOOLEAN
    PROVE  Core'
  <1> DEFINE top == Top(t)
             p == top.pipeline
             f == [top EXCEPT !.at = "recheck"]
             total2 == Raised(p, m)
  <1>1. top \in FrameType /\ FrameOK(top, finished_tasks, total_tasks, finished) /\ Stacks(stack, t)
        /\ top = stack[t][Len(stack[t])]
    BY TopFacts
  <1>2. f \in FrameType /\ f.at = "recheck" /\ f.pipeline = p /\ f.n = top.n
    <2>1. "recheck" \in TaskPlaces \cup BasePlaces
      BY DEF TaskPlaces
    <2> QED
      BY <1>1, <2>1, AtFrame
  <1>3. /\ new[1] = f
        /\ Len(new) = 2 => new[2] = Frame("push", p, "finalize", m, {})
        /\ total_tasks' = total2 /\ top.at = "finalize"
    OBVIOUS
  <1>4. Len(new) = 2 => /\ new[2].at = "push" /\ new[2].pipeline = p /\ new[2].n = m
                        /\ new[2].kind \in {"task", "finalize"}
    BY <1>3 DEF Frame
  <1> HIDE DEF f
  <1>5. p \in Pipelines /\ total_tasks[p] > 0 /\ top.n = total_tasks[p] /\ top.n \in 1 .. finished_tasks[p]
    BY <1>1, <1>3 DEF FrameOK, TaskPlaces, Numbered
  <1>6. Claims(top, total_tasks)
    BY <1>3, <1>5 DEF Claims, Numbered
  <1>7. p \notin finished /\ finished_tasks[p] = total_tasks[p]
    BY <1>1, <1>3, <1>6 DEF FrameOK
  <1>8. finished_tasks \in [Pipelines -> Nat] /\ total_tasks \in [Pipelines -> Nat]
        /\ finished_dependencies \in [Pipelines -> Nat] /\ completed_pipelines \in Nat
    BY DEF Core, TypeInv
  <1>9. /\ total2[p] = total_tasks[p] + m
        /\ \A x \in Pipelines : x # p => total2[x] = total_tasks[x]
    BY <1>5, <1>8 DEF Raised
  <1>10. total_tasks[p] \in Nat
    BY <1>5, <1>8
  <1> HIDE DEF top, p, total2
  <1>11. total2[p] > 0 /\ f.n # total2[p]
    BY <1>2, <1>5, <1>9, <1>10
  <1>12. ~Claims(f, total2)
    BY <1>2, <1>11 DEF Claims
  <1>13. FrameOK(f, finished_tasks, total2, finished)
    BY <1>2, <1>5, <1>11, <1>12 DEF FrameOK
  <1>14. Len(stack[t]) # 1
    BY <1>3, LoopPlace DEF top, TaskPlaces
  <1>15. \A k \in 1 .. Len(new) : k = 1 \/ (k = 2 /\ Len(new) = 2)
    <2>1. \A n \in {1, 2} : \A k \in 1 .. n : k = 1 \/ (k = 2 /\ n = 2)
      OBVIOUS
    <2> QED
      BY <2>1, Zenon
  <1>16. \A k \in 1 .. Len(new) : new[k].at \in TaskPlaces /\ new[k].at # "complete"
    BY <1>2, <1>3, <1>4, <1>15 DEF TaskPlaces
  <1>17. ShapeStep(stack, t, new)
    BY <1>14, <1>16 DEF ShapeStep
  <1>18. \A u, j : Other(stack, t, u, j) /\ stack[u][j].pipeline = p => ~Claims(stack[u][j], total_tasks)
    <2>1. \A u, j : Other(stack, t, u, j) => PairOK(stack[u][j], top, total_tasks)
      BY OthersFacts DEF top
    <2> QED
      BY <1>6, <2>1, Zenon DEF PairOK, p
  <1>19. \A x : TasksIn(top, x) = 0 /\ TasksIn(f, x) = 0
    BY <1>2, <1>3 DEF TasksIn
  <1>20. f.at \in Numbered => top.at \in Numbered /\ f.n = top.n
    BY <1>2, <1>3 DEF Numbered
  <1>21. Announces(t, new, p, m)
    <2>1. \/ Neutral(new[1])
          \/ /\ new[1].pipeline = Top(t).pipeline
             /\ Claims(new[1], Raised(p, m)) => Claims(Top(t), total_tasks)
             /\ new[1].at \in Numbered => Top(t).at \in Numbered /\ new[1].n = Top(t).n
      BY <1>2, <1>3, <1>6, <1>20 DEF top, p
    <2>2. \A x : TasksIn(Top(t), x) = 0 /\ TasksIn(new[1], x) = 0
      BY <1>3, <1>19 DEF top
    <2>3. FrameOK(new[1], finished_tasks, Raised(p, m), finished) /\ total_tasks' = Raised(p, m)
      BY <1>3, <1>13 DEF total2
    <2>4. finished_dependencies' \in [Pipelines -> Nat] /\ completed_pipelines' \in Nat
      BY <1>8
    <2> QED
      BY <1>4, <1>5, <1>7, <1>17, <1>18, <2>1, <2>2, <2>3, <2>4, Zenon DEF Announces
  <1>22. /\ TypeInv' /\ Shaped(stack') /\ Framed(stack', finished_tasks, total_tasks', finished)
         /\ Paired(stack', total_tasks') /\ Counted(queue, stack', finished_tasks, total_tasks')
         /\ FinishedInv'
    BY <1>21, AnnounceStep
  <1>23. /\ CompletedInv' /\ Parented(stack', plan.deps)
         /\ \A q : Told(stack', plan.deps, finished, q) = Told(stack, plan.deps, finished, q)
    <2>1. Top(t).at # "complete"
      BY <1>3 DEF top
    <2> QED
      BY <1>16, <2>1, SilentStep
  <1>24. ToldInv'
    <2>1. \A q \in Pipelines : total2[q] > 0 => total_tasks[q] > 0
      BY <1>5, <1>9
    <2>2. ToldInv
      BY DEF Core
    <2> QED
      BY <1>3, <1>23, <2>1, <2>2 DEF ToldInv
  <1>25. InitialInv'
    <2>1. stack'[Main][1] = stack[Main][1]
      BY <1>14, <1>17, LowestFrame
    <2>2. InitialInv
      BY DEF Core
    <2>3. Main \in Threads /\ stack[Main] \in Seq(FrameType) /\ Len(stack[Main]) >= 1
      BY DEF Core, TypeInv, Shaped, Threads
    <2>4. stack[Main][1] \in FrameType
      BY <2>3
    <2>5. stack[Main][1].left \subseteq Pipelines
      BY <2>4 DEF FrameType
    <2>6. \A q \in Pipelines : total_tasks[q] = 0 => total2[q] = 0
      BY <1>5, <1>9
    <2> QED
      BY <1>3, <2>1, <2>2, <2>5, <2>6 DEF InitialInv
  <1> QED
    BY <1>22, <1>23, <1>24, <1>25 DEF Core

LEMMA FinalizeKeeps ==
    ASSUME Core, NEW t \in Threads, Finalize(t)
    PROVE  Core'
  <1> DEFINE top == Top(t)
             p == top.pipeline
             f == [top EXCEPT !.at = "recheck"]
  <1>1. top \in FrameType /\ FrameOK(top, finished_tasks, total_tasks, finished)
    BY TopFacts
  <1>2. top.at = "finalize"
    BY DEF Finalize, At
  <1>3. f \in FrameType
    <2>1. "recheck" \in TaskPlaces \cup BasePlaces
      BY DEF TaskPlaces
    <2> QED
      BY <1>1, <2>1, AtFrame
  <1>4. p \in Pipelines /\ top.n = total_tasks[p] /\ top.at \in Numbered
    BY <1>1, <1>2 DEF FrameOK, TaskPlaces, Numbered
  <1>5. /\ plan' = plan /\ queue' = queue /\ finished_tasks' = finished_tasks
        /\ finished_dependencies' = finished_dependencies /\ finished' = finished
        /\ completed_pipelines' = completed_pipelines /\ rounds' = rounds
    BY DEF Finalize
  <1>6. interrupted' \in BOOLEAN /\ exceptions' \in BOOLEAN
    BY DEF Finalize, PushError, Core, TypeInv
  <1>7. CASE Become(t, f, <<>>) /\ total_tasks' = total_tasks
    <2>1. Moved(stack, stack', t, <<f>>)
      BY <1>3, <1>7, BecomeStep
    <2>2. Uncounted
      BY <1>5, <1>7 DEF Uncounted
    <2> QED
      BY <1>4, <1>5, <1>6, <2>1, <2>2, CountStep
  <1>8. CASE \E m \in Partitions, pushed \in {1} \cup (IF "half_finalized" \in Faults THEN {0} ELSE {}) :
               /\ total_tasks' = [total_tasks EXCEPT ![p] = @ + m]
               /\ IF pushed = 1 THEN Become(t, f, <<Frame("push", p, "finalize", m, {})>>)
                                ELSE Become(t, f, <<>>)
    <2>1. PICK m \in Partitions, pushed \in {1} \cup (IF "half_finalized" \in Faults THEN {0} ELSE {}) :
               /\ total_tasks' = [total_tasks EXCEPT ![p] = @ + m]
               /\ IF pushed = 1 THEN Become(t, f, <<Frame("push", p, "finalize", m, {})>>)
                                ELSE Become(t, f, <<>>)
      BY <1>8
    <2>2. m \in Nat /\ m >= 1
      BY DEF Partitions
    <2>3. total_tasks' = Raised(p, m)
      BY <2>1 DEF Raised
    <2>4. CASE pushed = 1
      <3> DEFINE g == Frame("push", p, "finalize", m, {})
                 new == <<f, g>>
      <3>1. g \in FrameType
        BY <1>4, <2>2 DEF Frame, FrameType, TaskPlaces
      <3>2. Moved(stack, stack', t, new)
        BY <1>3, <2>1, <2>4, <3>1, CallStep
      <3>3. new \in Seq(FrameType) /\ Len(new) = 2 /\ new[1] = f /\ new[2] = g
        BY <1>3, <3>1, TwoFrames
      <3> HIDE DEF new
      <3> QED
        BY <1>2, <1>5, <1>6, <2>2, <2>3, <3>2, <3>3, FinalizeAnnounces
    <2>5. CASE pushed # 1
      <3> DEFINE new == <<f>>
      <3>1. ~FinalizeIsWhole
        BY <2>5 DEF FinalizeIsWhole
      <3>2. Moved(stack, stack', t, new)
        BY <1>3, <2>1, <2>5, BecomeStep
      <3>3. new \in Seq(FrameType) /\ Len(new) = 1 /\ new[1] = f
        BY <1>3, OneFrame
      <3> HIDE DEF new
      <3> QED
        BY <1>2, <1>5, <1>6, <2>2, <2>3, <3>1, <3>2, <3>3, FinalizeAnnounces
    <2> QED
      BY <2>4, <2>5
  <1> QED
    BY <1>7, <1>8, Zenon DEF Finalize

(***************************************************************************)
(* Finishing and completing pipelines.                                     *)
(***************************************************************************)
LEMMA AllRegular ==
    ASSUME NoRecursiveCTEs, Core
    PROVE  Regular = Pipelines
  <1>1. \A p \in Pipelines : plan.reruns[p] = <<>>
    BY DEF NoRecursiveCTEs, Core, TypeInv
  <1>2. ToSet(<<>>) = {}
    BY DEF ToSet
  <1>3. \A p \in Pipelines : ToSet(plan.reruns[p]) = {}
    BY <1>1, <1>2
  <1>4. Recursive = {}
    BY <1>3 DEF Recursive
  <1> QED
    BY <1>4 DEF Regular

\* A frame that completes d, and is yet to tell q.
Tells(f, d, q) == f.at = "complete" /\ f.pipeline = d /\ q \in f.left
Completes(f, d) == f.at = "complete" /\ f.pipeline = d

LEMMA TellingBefore ==
    ASSUME NEW st, NEW t, Stacks(st, t)
    PROVE  /\ \A d, q : Telling(st, d, q) <=>
                \/ \E u, j : Other(st, t, u, j) /\ Tells(st[u][j], d, q)
                \/ Tells(st[t][Len(st[t])], d, q)
           /\ \A d : Completing(st, d) <=>
                \/ \E u, j : Other(st, t, u, j) /\ Completes(st[u][j], d)
                \/ Completes(st[t][Len(st[t])], d)
  <1>1. t \in Threads /\ Len(st[t]) \in DOMAIN st[t]
    BY DEF Stacks
  <1>2. ASSUME NEW d, NEW q
        PROVE  Telling(st, d, q) <=>
                \/ \E u, j : Other(st, t, u, j) /\ Tells(st[u][j], d, q)
                \/ Tells(st[t][Len(st[t])], d, q)
    BY <1>1, Zenon DEF Telling, Tells, Other
  <1>3. ASSUME NEW d
        PROVE  Completing(st, d) <=>
                \/ \E u, j : Other(st, t, u, j) /\ Completes(st[u][j], d)
                \/ Completes(st[t][Len(st[t])], d)
    BY <1>1, Zenon DEF Completing, Completes, Other
  <1> QED
    BY <1>2, <1>3

LEMMA TellingAfter ==
    ASSUME NEW st, NEW st2, NEW t, Stacks(st, t), NEW new \in Seq(FrameType), Moved(st, st2, t, new)
    PROVE  /\ \A d, q : Telling(st2, d, q) <=>
                \/ \E u, j : Other(st, t, u, j) /\ Tells(st[u][j], d, q)
                \/ \E k \in 1 .. Len(new) : Tells(new[k], d, q)
           /\ \A d : Completing(st2, d) <=>
                \/ \E u, j : Other(st, t, u, j) /\ Completes(st[u][j], d)
                \/ \E k \in 1 .. Len(new) : Completes(new[k], d)
  <1>1. \A u, j : Other(st, t, u, j) => u \in Threads /\ j \in DOMAIN st2[u] /\ st2[u][j] = st[u][j]
    BY OthersStay
  <1>2. NewThere(st, st2, t, new) /\ t \in Threads
    BY NewStay DEF Stacks
  <1>3. \A u \in Threads : \A j \in DOMAIN st2[u] :
           \/ Other(st, t, u, j) /\ st2[u][j] = st[u][j]
           \/ \E k \in 1 .. Len(new) : st2[u][j] = new[k]
    BY Positions
  <1>4. ASSUME NEW d, NEW q
        PROVE  Telling(st2, d, q) <=>
                \/ \E u, j : Other(st, t, u, j) /\ Tells(st[u][j], d, q)
                \/ \E k \in 1 .. Len(new) : Tells(new[k], d, q)
    <2>1. Telling(st2, d, q) <=> \E u \in Threads : \E j \in DOMAIN st2[u] : Tells(st2[u][j], d, q)
      BY Zenon DEF Telling, Tells
    <2>2. ASSUME NEW u \in Threads, NEW j \in DOMAIN st2[u], Tells(st2[u][j], d, q)
          PROVE  \/ \E v, i : Other(st, t, v, i) /\ Tells(st[v][i], d, q)
                 \/ \E k \in 1 .. Len(new) : Tells(new[k], d, q)
      BY <1>3, <2>2, Zenon
    <2>3. ASSUME NEW u, NEW j, Other(st, t, u, j), Tells(st[u][j], d, q)
          PROVE  Telling(st2, d, q)
      BY <1>1, <2>1, <2>3, Zenon
    <2>4. ASSUME NEW k \in 1 .. Len(new), Tells(new[k], d, q)
          PROVE  Telling(st2, d, q)
      BY <1>2, <2>1, <2>4, Zenon DEF NewThere
    <2> QED
      BY <2>1, <2>2, <2>3, <2>4, Zenon
  <1>5. ASSUME NEW d
        PROVE  Completing(st2, d) <=>
                \/ \E u, j : Other(st, t, u, j) /\ Completes(st[u][j], d)
                \/ \E k \in 1 .. Len(new) : Completes(new[k], d)
    <2>1. Completing(st2, d) <=> \E u \in Threads : \E j \in DOMAIN st2[u] : Completes(st2[u][j], d)
      BY Zenon DEF Completing, Completes
    <2>2. ASSUME NEW u \in Threads, NEW j \in DOMAIN st2[u], Completes(st2[u][j], d)
          PROVE  \/ \E v, i : Other(st, t, v, i) /\ Completes(st[v][i], d)
                 \/ \E k \in 1 .. Len(new) : Completes(new[k], d)
      BY <1>3, <2>2, Zenon
    <2>3. ASSUME NEW u, NEW j, Other(st, t, u, j), Completes(st[u][j], d)
          PROVE  Completing(st2, d)
      BY <1>1, <2>1, <2>3, Zenon
    <2>4. ASSUME NEW k \in 1 .. Len(new), Completes(new[k], d)
          PROVE  Completing(st2, d)
      BY <1>2, <2>1, <2>4, Zenon DEF NewThere
    <2> QED
      BY <2>1, <2>2, <2>3, <2>4, Zenon
  <1> QED
    BY <1>4, <1>5

\* Only the frame that claims a pipeline completes it, and its pipeline is counted.
LEMMA ClaimAlone ==
    ASSUME Core, NEW t \in Threads, Top(t).at \in {"finish", "complete"}
    PROVE  /\ Claims(Top(t), total_tasks)
           /\ Top(t).pipeline \in Pipelines
           /\ total_tasks[Top(t).pipeline] > 0
           /\ finished_tasks[Top(t).pipeline] = total_tasks[Top(t).pipeline]
           /\ Top(t).pipeline \in finished <=> Top(t).at = "complete"
           /\ \A u, j : Other(stack, t, u, j) /\ stack[u][j].pipeline = Top(t).pipeline
                          => ~Claims(stack[u][j], total_tasks)
           /\ \A u, j : Other(stack, t, u, j) => ~Completes(stack[u][j], Top(t).pipeline)
           /\ \A u, j, q : Other(stack, t, u, j) => ~Tells(stack[u][j], Top(t).pipeline, q)
           /\ Len(stack[t]) # 1
  <1>1. FrameOK(Top(t), finished_tasks, total_tasks, finished)
    BY TopFacts
  <1>2. Claims(Top(t), total_tasks)
    BY DEF Claims
  <1>3. Top(t).at \in TaskPlaces
    BY DEF TaskPlaces
  <1>4. /\ Top(t).pipeline \in Pipelines
        /\ total_tasks[Top(t).pipeline] > 0
        /\ finished_tasks[Top(t).pipeline] = total_tasks[Top(t).pipeline]
        /\ Top(t).pipeline \in finished <=> Top(t).at = "complete"
    BY <1>1, <1>2, <1>3, Zenon DEF FrameOK
  <1>5. \A u, j : Other(stack, t, u, j) /\ stack[u][j].pipeline = Top(t).pipeline
                          => ~Claims(stack[u][j], total_tasks)
    <2>1. \A u, j : Other(stack, t, u, j) => PairOK(stack[u][j], Top(t), total_tasks)
      BY OthersFacts
    <2> QED
      BY <1>2, <2>1, Zenon DEF PairOK
  <1>6. \A u, j : Other(stack, t, u, j) => ~Completes(stack[u][j], Top(t).pipeline)
    <2>1. \A f : f.at = "complete" => Claims(f, total_tasks)
      BY DEF Claims
    <2> QED
      BY <1>5, <2>1, Zenon DEF Completes
  <1>7. \A u, j, q : Other(stack, t, u, j) => ~Tells(stack[u][j], Top(t).pipeline, q)
    BY <1>6, Zenon DEF Tells, Completes
  <1>8. Len(stack[t]) # 1
    BY <1>3, LoopPlace
  <1> QED
    BY <1>2, <1>4, <1>5, <1>6, <1>7, <1>8

\* Who completes and tells before and after the thread that claims p goes on.
LEMMA ClaimMoves ==
    ASSUME Core, NEW t \in Threads, Top(t).at \in {"finish", "complete"},
           NEW new \in Seq(FrameType), Moved(stack, stack', t, new),
           \A k \in 1 .. Len(new) : new[k].at = "complete" => new[k].pipeline = Top(t).pipeline
    PROVE  LET p == Top(t).pipeline
           IN  /\ \A d, q : d # p => (Telling(stack', d, q) <=> Telling(stack, d, q))
               /\ \A d : d # p => (Completing(stack', d) <=> Completing(stack, d))
               /\ \A q : Telling(stack, p, q) <=> Top(t).at = "complete" /\ q \in Top(t).left
               /\ \A q : Telling(stack', p, q) <=>
                           \E k \in 1 .. Len(new) : new[k].at = "complete" /\ q \in new[k].left
               /\ Completing(stack, p) <=> Top(t).at = "complete"
               /\ Completing(stack', p) <=> \E k \in 1 .. Len(new) : new[k].at = "complete"
  <1> DEFINE p == Top(t).pipeline
  <1>1. Stacks(stack, t) /\ Top(t) = stack[t][Len(stack[t])]
    BY TopFacts
  <1>2. /\ \A u, j : Other(stack, t, u, j) => ~Completes(stack[u][j], p)
        /\ \A u, j, q : Other(stack, t, u, j) => ~Tells(stack[u][j], p, q)
    BY ClaimAlone
  <1>3. \A d, q : Telling(stack, d, q) <=>
                \/ \E u, j : Other(stack, t, u, j) /\ Tells(stack[u][j], d, q)
                \/ Tells(Top(t), d, q)
    BY <1>1, TellingBefore
  <1>4. \A d : Completing(stack, d) <=>
                \/ \E u, j : Other(stack, t, u, j) /\ Completes(stack[u][j], d)
                \/ Completes(Top(t), d)
    BY <1>1, TellingBefore
  <1>5. \A d, q : Telling(stack', d, q) <=>
                \/ \E u, j : Other(stack, t, u, j) /\ Tells(stack[u][j], d, q)
                \/ \E k \in 1 .. Len(new) : Tells(new[k], d, q)
    BY <1>1, TellingAfter
  <1>6. \A d : Completing(stack', d) <=>
                \/ \E u, j : Other(stack, t, u, j) /\ Completes(stack[u][j], d)
                \/ \E k \in 1 .. Len(new) : Completes(new[k], d)
    BY <1>1, TellingAfter
  <1>7. /\ \A d, q : d # p => ~Tells(Top(t), d, q) /\ \A k \in 1 .. Len(new) : ~Tells(new[k], d, q)
        /\ \A d : d # p => ~Completes(Top(t), d) /\ \A k \in 1 .. Len(new) : ~Completes(new[k], d)
    BY Zenon DEF Tells, Completes
  <1>8. /\ \A q : Tells(Top(t), p, q) <=> Top(t).at = "complete" /\ q \in Top(t).left
        /\ \A q : \A k \in 1 .. Len(new) : Tells(new[k], p, q) <=> new[k].at = "complete" /\ q \in new[k].left
        /\ Completes(Top(t), p) <=> Top(t).at = "complete"
        /\ \A k \in 1 .. Len(new) : Completes(new[k], p) <=> new[k].at = "complete"
    BY Zenon DEF Tells, Completes
  <1> HIDE DEF p
  <1>9. \A d, q : d # p => (Telling(stack', d, q) <=> Telling(stack, d, q))
    BY <1>3, <1>5, <1>7, Zenon
  <1>10. \A d : d # p => (Completing(stack', d) <=> Completing(stack, d))
    BY <1>4, <1>6, <1>7, Zenon
  <1>11. \A q : Telling(stack, p, q) <=> Top(t).at = "complete" /\ q \in Top(t).left
    BY <1>2, <1>3, <1>8, Zenon
  <1>12. \A q : Telling(stack', p, q) <=>
                           \E k \in 1 .. Len(new) : new[k].at = "complete" /\ q \in new[k].left
    BY <1>2, <1>5, <1>8, Zenon
  <1>13. Completing(stack, p) <=> Top(t).at = "complete"
    BY <1>2, <1>4, <1>8, Zenon
  <1>14. Completing(stack', p) <=> \E k \in 1 .. Len(new) : new[k].at = "complete"
    BY <1>2, <1>6, <1>8, Zenon
  <1> QED
    BY <1>9, <1>10, <1>11, <1>12, <1>13, <1>14, Zenon DEF p

\* The thread that claims a pipeline goes on to complete it, or has completed it.
LEMMA CompletionStep ==
    ASSUME Core, NEW t \in Threads, Top(t).at \in {"finish", "complete"},
           NEW new \in Seq(FrameType), Len(new) \in {0, 1}, Moved(stack, stack', t, new),
           \A k \in 1 .. Len(new) : new[k].at = "complete" /\ new[k].pipeline = Top(t).pipeline,
           UNCHANGED <<plan, queue, finished_tasks, total_tasks, rounds, interrupted, exceptions>>,
           finished' = finished \cup {Top(t).pipeline},
           finished_dependencies' \in [Pipelines -> Nat], completed_pipelines' \in Nat
    PROVE  /\ TypeInv'
           /\ Shaped(stack')
           /\ Framed(stack', finished_tasks, total_tasks, finished')
           /\ Paired(stack', total_tasks)
           /\ Counted(queue, stack', finished_tasks, total_tasks)
           /\ InitialInv'
           /\ FinishedInv'
  <1> DEFINE top == Top(t)
             p == top.pipeline
             fin == finished \cup {p}
  <1>1. Stacks(stack, t) /\ top = stack[t][Len(stack[t])] /\ top \in FrameType
    BY TopFacts
  <1>2. /\ Claims(top, total_tasks) /\ p \in Pipelines /\ total_tasks[p] > 0
        /\ finished_tasks[p] = total_tasks[p] /\ Len(stack[t]) # 1
        /\ \A u, j : Other(stack, t, u, j) /\ stack[u][j].pipeline = p => ~Claims(stack[u][j], total_tasks)
    BY ClaimAlone
  <1>3. finished' = fin /\ top.at \in {"finish", "complete"}
    OBVIOUS
  <1>4. \A k \in 1 .. Len(new) : k = 1 /\ Len(new) = 1
    <2>1. \A n \in {0, 1} : \A k \in 1 .. n : k = 1 /\ n = 1
      OBVIOUS
    <2> QED
      BY <2>1, Zenon
  <1>5. \A k \in 1 .. Len(new) : new[k].at = "complete" /\ new[k].pipeline = p
    OBVIOUS
  <1> HIDE DEF top, p, fin
  <1>6. TypeInv'
    <2>1. stack' \in [Threads -> Seq(FrameType)]
      BY DEF Moved
    <2>2. fin \subseteq Pipelines
      BY <1>2 DEF fin, Core, TypeInv
    <2> QED
      BY <1>3, <2>1, <2>2 DEF Core, TypeInv
  <1>7. ShapeStep(stack, t, new)
    BY <1>2, <1>5 DEF ShapeStep, TaskPlaces
  <1>8. Shaped(stack')
    BY <1>1, <1>7, ShapedMoves DEF Core
  <1>9. Framed(stack', finished_tasks, total_tasks, fin)
    <2>1. ASSUME NEW u, NEW j, Other(stack, t, u, j)
          PROVE  FrameOK(stack[u][j], finished_tasks, total_tasks, fin)
      <3> DEFINE f == stack[u][j]
      <3>1. FrameOK(f, finished_tasks, total_tasks, finished)
        BY <2>1, OthersFacts
      <3>2. Claims(f, total_tasks) => f.pipeline # p
        BY <1>2, <2>1
      <3>3. f.pipeline # p => (f.pipeline \in fin <=> f.pipeline \in finished)
        BY DEF fin
      <3> HIDE DEF f
      <3>4. FrameOK(f, finished_tasks, total_tasks, fin)
        BY <3>1, <3>2, <3>3, Zenon DEF FrameOK
      <3> QED
        BY <3>4 DEF f
    <2>2. ASSUME NEW k \in 1 .. Len(new)
          PROVE  FrameOK(new[k], finished_tasks, total_tasks, fin)
      <3>1. new[k].at = "complete" /\ new[k].pipeline = p
        BY <1>5
      <3>2. p \in fin
        BY DEF fin
      <3> QED
        BY <1>2, <3>1, <3>2 DEF FrameOK, Numbered
    <2> QED
      BY <1>1, <2>1, <2>2, FramedMoves
  <1>10. Paired(stack', total_tasks)
    <2>1. Len(new) >= 1 => Continues(new[1], stack[t][Len(stack[t])], total_tasks)
      <3>1. Len(new) >= 1 => new[1].at = "complete" /\ new[1].pipeline = p
        BY <1>5
      <3> QED
        BY <1>1, <1>2, <3>1 DEF Continues, Numbered, p
    <2>2. Succeeds(stack, t, new, total_tasks)
      <3>1. Len(new) \in 0 .. 2 /\ Len(new) # 2
        <4>1. \A n \in {0, 1} : n \in 0 .. 2 /\ n # 2
          OBVIOUS
        <4> QED
          BY <4>1, Zenon
      <3> QED
        BY <2>1, <3>1 DEF Succeeds
    <2> QED
      BY <1>1, <2>2, PairedSucceeds DEF Core
  <1>11. Counted(queue, stack', finished_tasks, total_tasks)
    <2>1. \A x : TasksIn(top, x) = 0
      BY <1>3 DEF TasksIn
    <2>2. \A x : Weight(new, x) = 0
      BY <1>5 DEF Weight, TasksIn
    <2>3. ASSUME NEW x \in Pipelines
          PROVE  /\ IsFiniteSet(Queued(queue', x))
                 /\ TasksIn(top, x) \in Nat /\ Weight(new, x) \in Nat
                 /\ Cardinality(Queued(queue', x)) + Weight(new, x) =
                      Cardinality(Queued(queue, x)) + TasksIn(top, x)
      BY <2>1, <2>2 DEF Core, Counted
    <2>4. Balanced(queue, queue, finished_tasks, finished_tasks, total_tasks, total_tasks, stack[t][Len(stack[t])], new)
      BY <1>1, <2>3, BalancedQueue
    <2>5. Len(new) \in 0 .. 2
      OBVIOUS
    <2>6. finished_tasks \in [Pipelines -> Nat] /\ total_tasks \in [Pipelines -> Nat]
      BY DEF Core, TypeInv
    <2> QED
      BY <1>1, <2>4, <2>5, <2>6, CountedMoves DEF Core
  <1>12. InitialInv'
    <2>1. stack'[Main][1] = stack[Main][1]
      BY <1>2, <1>7, LowestFrame
    <2> QED
      BY <2>1 DEF Core, InitialInv
  <1>13. FinishedInv'
    <2>1. \A x \in fin : total_tasks[x] > 0 /\ finished_tasks[x] = total_tasks[x]
      BY <1>2 DEF Core, FinishedInv, fin
    <2> QED
      BY <1>3, <2>1 DEF FinishedInv
  <1> QED
    BY <1>3, <1>6, <1>8, <1>9, <1>10, <1>11, <1>12, <1>13

LEMMA FinishKeeps ==
    ASSUME NoRecursiveCTEs, Core, NEW t \in Threads, Finish(t)
    PROVE  Core'
  <1> DEFINE top == Top(t)
             p == top.pipeline
             f == [top EXCEPT !.at = "complete", !.left = Parents(p)]
             new == <<f>>
             fin == finished \cup {p}
  <1>1. top \in FrameType /\ top.at = "finish" /\ Stacks(stack, t)
    BY TopFacts DEF Finish, At
  <1>2. p \in Pipelines /\ p \notin finished /\ total_tasks[p] > 0
    BY <1>1, ClaimAlone
  <1>3. Parents(p) = {q \in Pipelines : p \in plan.deps[q]}
    BY <1>2, AllRegular DEF Parents
  <1>4. f \in FrameType /\ f.at = "complete" /\ f.pipeline = p /\ f.left = Parents(p)
    BY <1>1, <1>3 DEF FrameType, TaskPlaces
  <1>5. /\ finished' = fin
        /\ UNCHANGED <<plan, queue, finished_tasks, total_tasks, finished_dependencies, completed_pipelines,
                       interrupted, exceptions, rounds>>
    BY DEF Finish, counters
  <1>6. Moved(stack, stack', t, new)
    BY <1>4, BecomeStep DEF Finish
  <1>7. new \in Seq(FrameType) /\ Len(new) = 1 /\ new[1] = f /\ \A k \in 1 .. Len(new) : k = 1
    BY <1>4, OneFrame
  <1> HIDE DEF new, f
  <1>8. \A k \in 1 .. Len(new) : new[k].at = "complete" /\ new[k].pipeline = p
    BY <1>4, <1>7, Zenon
  <1>9. /\ TypeInv' /\ Shaped(stack') /\ Framed(stack', finished_tasks, total_tasks, finished')
        /\ Paired(stack', total_tasks) /\ Counted(queue, stack', finished_tasks, total_tasks)
        /\ InitialInv' /\ FinishedInv'
    <2>1. finished_dependencies' \in [Pipelines -> Nat] /\ completed_pipelines' \in Nat
      BY <1>5 DEF Core, TypeInv
    <2> QED
      BY <1>1, <1>5, <1>6, <1>7, <1>8, <2>1, CompletionStep
  <1>10. /\ \A d, q : d # p => (Telling(stack', d, q) <=> Telling(stack, d, q))
         /\ \A d : d # p => (Completing(stack', d) <=> Completing(stack, d))
         /\ \A q : Telling(stack', p, q) <=>
                     \E k \in 1 .. Len(new) : new[k].at = "complete" /\ q \in new[k].left
         /\ Completing(stack', p) <=> \E k \in 1 .. Len(new) : new[k].at = "complete"
    BY <1>1, <1>6, <1>7, <1>8, ClaimMoves
  <1>11. 1 \in 1 .. Len(new)
    BY <1>7
  <1>12. Completing(stack', p) /\ \A q \in Pipelines : p \in plan.deps[q] => Telling(stack', p, q)
    BY <1>3, <1>4, <1>7, <1>10, <1>11
  <1> HIDE DEF fin, p, top
  <1>13. Parented(stack', plan.deps)
    <2>1. \A k \in 1 .. Len(new) : new[k].at = "complete" => \A q \in new[k].left : new[k].pipeline \in plan.deps[q]
      BY <1>3, <1>4, <1>7
    <2> QED
      BY <1>1, <1>6, <1>7, <2>1, ParentedStays DEF Core
  \* The parents of p are yet to be told.
  <1>14. \A q \in Pipelines : Told(stack', plan.deps, fin, q) = Told(stack, plan.deps, finished, q)
    <2> TAKE q \in Pipelines
    <2>1. ASSUME NEW d
          PROVE  d \in Told(stack', plan.deps, fin, q) <=> d \in Told(stack, plan.deps, finished, q)
      <3>1. CASE d = p
        BY <1>2, <1>12, <3>1 DEF Told
      <3>2. CASE d # p
        <4>1. d \in fin <=> d \in finished
          BY <3>2 DEF fin
        <4> QED
          BY <1>10, <3>2, <4>1 DEF Told
      <3> QED
        BY <3>1, <3>2
    <2> QED
      BY <2>1, Zenon
  <1>15. ToldInv'
    <2>1. ToldInv
      BY DEF Core
    <2> QED
      BY <1>5, <1>14, <2>1 DEF ToldInv
  <1>16. CompletedInv'
    <2>1. ASSUME NEW d
          PROVE  d \in Completed(stack', fin) <=> d \in Completed(stack, finished)
      <3>1. CASE d = p
        BY <1>2, <1>12, <3>1 DEF Completed
      <3>2. CASE d # p
        <4>1. d \in fin <=> d \in finished
          BY <3>2 DEF fin
        <4> QED
          BY <1>10, <3>2, <4>1 DEF Completed
      <3> QED
        BY <3>1, <3>2
    <2>2. Completed(stack', fin) = Completed(stack, finished)
      BY <2>1, Zenon
    <2> QED
      BY <1>5, <2>2 DEF Core, CompletedInv
  <1> QED
    BY <1>5, <1>9, <1>13, <1>15, <1>16 DEF Core

LEMMA CompletePipelineKeeps ==
    ASSUME Core, NEW t \in Threads, CompletePipeline(t)
    PROVE  Core'
  <1> DEFINE top == Top(t)
             p == top.pipeline
             new == <<>>
  <1>1. top \in FrameType /\ top.at = "complete" /\ top.left = {} /\ Stacks(stack, t)
    BY TopFacts DEF CompletePipeline, At
  <1>2. p \in Pipelines /\ p \in finished
    BY <1>1, ClaimAlone
  <1>3. /\ completed_pipelines' = completed_pipelines + 1
        /\ UNCHANGED <<plan, queue, finished_tasks, total_tasks, finished_dependencies, finished,
                       interrupted, exceptions, rounds>>
    BY DEF CompletePipeline, counters
  <1>4. Moved(stack, stack', t, new)
    BY ReturnedStep DEF CompletePipeline
  <1>5. new \in Seq(FrameType) /\ Len(new) = 0 /\ ~\E k \in 1 .. Len(new) : TRUE
    OBVIOUS
  <1> HIDE DEF new
  <1>6. /\ TypeInv' /\ Shaped(stack') /\ Framed(stack', finished_tasks, total_tasks, finished')
        /\ Paired(stack', total_tasks) /\ Counted(queue, stack', finished_tasks, total_tasks)
        /\ InitialInv' /\ FinishedInv'
    <2>1. finished_dependencies' \in [Pipelines -> Nat] /\ completed_pipelines' \in Nat
      BY <1>3 DEF Core, TypeInv
    <2>2. finished' = finished \cup {p}
      BY <1>2, <1>3
    <2> QED
      BY <1>1, <1>3, <1>4, <1>5, <2>1, <2>2, CompletionStep
  <1>7. /\ \A d, q : d # p => (Telling(stack', d, q) <=> Telling(stack, d, q))
        /\ \A d : d # p => (Completing(stack', d) <=> Completing(stack, d))
        /\ \A q : ~Telling(stack, p, q) /\ ~Telling(stack', p, q)
        /\ Completing(stack, p) /\ ~Completing(stack', p)
    BY <1>1, <1>4, <1>5, ClaimMoves
  <1> HIDE DEF p, top
  <1>8. Parented(stack', plan.deps)
    <2>1. \A k \in 1 .. Len(new) : new[k].at = "complete" => \A q \in new[k].left : new[k].pipeline \in plan.deps[q]
      BY <1>5
    <2> QED
      BY <1>1, <1>4, <1>5, <2>1, ParentedStays DEF Core
  <1>9. ToldInv'
    <2>1. \A d, q : Telling(stack', d, q) <=> Telling(stack, d, q)
      BY <1>7, Zenon
    <2>2. \A q : Told(stack', plan.deps, finished, q) = Told(stack, plan.deps, finished, q)
      BY <2>1 DEF Told
    <2>3. ToldInv
      BY DEF Core
    <2> QED
      BY <1>3, <2>2, <2>3 DEF ToldInv
  <1>10. CompletedInv'
    <2>1. ASSUME NEW d
          PROVE  d \in Completed(stack', finished) <=> d \in Completed(stack, finished) \cup {p}
      BY <1>2, <1>7 DEF Completed
    <2>2. Completed(stack', finished) = Completed(stack, finished) \cup {p}
      BY <2>1, Zenon
    <2>3. p \notin Completed(stack, finished)
      BY <1>7 DEF Completed
    <2>4. IsFiniteSet(Completed(stack, finished))
      <3>1. Completed(stack, finished) \in SUBSET Pipelines
        BY DEF Completed, Core, TypeInv
      <3> QED
        BY <3>1, ExecutorAssumption, FS_Subset
    <2>5. Cardinality(Completed(stack', finished)) = Cardinality(Completed(stack, finished)) + 1
      BY <2>2, <2>3, <2>4, FS_AddElement
    <2> QED
      BY <1>3, <2>5 DEF Core, CompletedInv
  <1> QED
    BY <1>3, <1>6, <1>8, <1>9, <1>10 DEF Core

\* Schedule announces at least one task, and of a pipeline that has none.
LEMMA ScheduleFacts ==
    ASSUME Core, NEW n \in TaskCounts, NEW q \in Pipelines, total_tasks[q] = 0
    PROVE  /\ n \in Nat /\ n >= 1
           /\ [total_tasks EXCEPT ![q] = n] = Raised(q, n)
           /\ Frame("push", q, "task", n, {}) \in FrameType
           /\ q \notin finished
           /\ \A t \in Threads : \A u, j :
                Other(stack, t, u, j) /\ stack[u][j].pipeline = q => ~Claims(stack[u][j], total_tasks)
  <1>1. NumberOfThreads \in Nat
    <2>1. plan.workers \in SUBSET Workers
      BY ExecutorAssumption DEF Core, TypeInv
    <2>2. IsFiniteSet(plan.workers)
      BY <2>1, ExecutorAssumption, FS_Subset
    <2>3. Cardinality(plan.workers) \in Nat
      BY <2>2, FS_CardinalityType
    <2> QED
      BY <2>3 DEF NumberOfThreads
  <1>2. n \in Nat /\ n >= 1
    BY <1>1 DEF TaskCounts
  <1>3. [total_tasks EXCEPT ![q] = n] = Raised(q, n)
    <2>1. total_tasks[q] + n = n
      BY <1>2
    <2> QED
      BY <2>1 DEF Raised
  <1>4. Frame("push", q, "task", n, {}) \in FrameType
    BY <1>2 DEF Frame, FrameType, TaskPlaces
  <1>5. q \notin finished
    BY DEF Core, FinishedInv
  <1>6. ASSUME NEW t \in Threads, NEW u, NEW j, Other(stack, t, u, j), stack[u][j].pipeline = q
        PROVE  ~Claims(stack[u][j], total_tasks)
    <2> DEFINE f == stack[u][j]
    <2>1. FrameOK(f, finished_tasks, total_tasks, finished) /\ f.pipeline = q
      BY <1>6, OthersFacts
    <2> HIDE DEF f
    <2>2. f.at \notin TaskPlaces
      BY <2>1 DEF FrameOK
    <2>3. ~Claims(f, total_tasks)
      BY <2>2 DEF Claims, Numbered, TaskPlaces
    <2> QED
      BY <2>3 DEF f
  <1> QED
    BY <1>2, <1>3, <1>4, <1>5, <1>6

\* A dependency p of q is told, and no other.
LEMMA DependencyTold ==
    ASSUME Core, NEW t \in Threads, Top(t).at = "complete", NEW q \in Top(t).left,
           NEW new \in Seq(FrameType), Len(new) \in {1, 2}, Moved(stack, stack', t, new),
           new[1] = [Top(t) EXCEPT !.left = @ \ {q}],
           Len(new) = 2 => new[2].at # "complete",
           finished' = finished, plan' = plan
    PROVE  /\ q \in Pipelines /\ Top(t).pipeline \in plan.deps[q] /\ total_tasks[q] = 0
           /\ Top(t).pipeline \notin Told(stack, plan.deps, finished, q)
           /\ Told(stack', plan.deps, finished, q) = Told(stack, plan.deps, finished, q) \cup {Top(t).pipeline}
           /\ \A x \in Pipelines : x # q => Told(stack', plan.deps, finished, x) = Told(stack, plan.deps, finished, x)
           /\ Completed(stack', finished) = Completed(stack, finished)
           /\ Parented(stack', plan.deps)
  <1> DEFINE top == Top(t)
             p == top.pipeline
             f == [top EXCEPT !.left = @ \ {q}]
  <1>1. top \in FrameType /\ top = stack[t][Len(stack[t])] /\ Stacks(stack, t)
        /\ Len(stack[t]) \in DOMAIN stack[t]
    BY TopFacts
  <1>2. q \in Pipelines
    BY <1>1 DEF FrameType
  <1>3. \A x \in top.left : p \in plan.deps[x]
    BY <1>1 DEF Core, Parented
  <1>4. p \in finished
    BY ClaimAlone
  <1>5. f.at = "complete" /\ f.pipeline = p /\ f.left = top.left \ {q}
    BY <1>1 DEF FrameType
  <1>6. new[1] = f /\ top.at = "complete" /\ q \in top.left
    OBVIOUS
  <1> HIDE DEF f
  <1>7. /\ 1 \in 1 .. Len(new)
        /\ \A k \in 1 .. Len(new) : k = 1 \/ (k = 2 /\ Len(new) = 2)
    <2>1. \A n \in {1, 2} : 1 \in 1 .. n /\ \A k \in 1 .. n : k = 1 \/ (k = 2 /\ n = 2)
      OBVIOUS
    <2> QED
      BY <2>1, Zenon
  <1>8. \A k \in 1 .. Len(new) : new[k].at = "complete" => k = 1 /\ new[k].pipeline = p
    BY <1>5, <1>6, <1>7, Zenon
  <1>9. /\ \A d, x : d # p => (Telling(stack', d, x) <=> Telling(stack, d, x))
        /\ \A d : d # p => (Completing(stack', d) <=> Completing(stack, d))
        /\ \A x : Telling(stack, p, x) <=> x \in top.left
        /\ \A x : Telling(stack', p, x) <=>
                     \E k \in 1 .. Len(new) : new[k].at = "complete" /\ x \in new[k].left
        /\ Completing(stack, p)
        /\ Completing(stack', p) <=> \E k \in 1 .. Len(new) : new[k].at = "complete"
    <2>1. top.at \in {"finish", "complete"}
      BY <1>6
    <2> QED
      BY <1>6, <1>8, <2>1, ClaimMoves
  <1> HIDE DEF p, top
  <1>10. /\ \A x : Telling(stack', p, x) <=> x \in top.left \ {q}
         /\ Completing(stack', p)
    BY <1>5, <1>6, <1>7, <1>8, <1>9, Zenon
  <1>11. p \notin Told(stack, plan.deps, finished, q)
    BY <1>6, <1>9 DEF Told
  <1>12. total_tasks[q] = 0
    <2>1. p \in plan.deps[q]
      BY <1>3, <1>6
    <2>2. ~(total_tasks[q] > 0)
      BY <1>2, <1>11, <2>1 DEF Core, ToldInv
    <2>3. total_tasks[q] \in Nat
      BY <1>2 DEF Core, TypeInv
    <2> QED
      BY <2>2, <2>3
  <1>13. Told(stack', plan.deps, finished, q) = Told(stack, plan.deps, finished, q) \cup {p}
    <2>1. ASSUME NEW d
          PROVE  d \in Told(stack', plan.deps, finished, q) <=> d \in Told(stack, plan.deps, finished, q) \cup {p}
      <3>1. CASE d = p
        BY <1>3, <1>4, <1>6, <1>10, <3>1 DEF Told
      <3>2. CASE d # p
        BY <1>9, <3>2 DEF Told
      <3> QED
        BY <3>1, <3>2
    <2> QED
      BY <2>1, Zenon
  <1>14. \A x \in Pipelines : x # q => Told(stack', plan.deps, finished, x) = Told(stack, plan.deps, finished, x)
    <2>1. \A d, x : x # q => (Telling(stack', d, x) <=> Telling(stack, d, x))
      BY <1>9, <1>10
    <2> QED
      BY <2>1 DEF Told
  <1>15. Completed(stack', finished) = Completed(stack, finished)
    <2>1. \A d : Completing(stack', d) <=> Completing(stack, d)
      BY <1>9, <1>10, Zenon
    <2> QED
      BY <2>1 DEF Completed
  <1>16. Parented(stack', plan.deps)
    <2>1. \A k \in 1 .. Len(new) : new[k].at = "complete" => \A x \in new[k].left : new[k].pipeline \in plan.deps[x]
      BY <1>3, <1>5, <1>6, <1>8
    <2> QED
      BY <1>1, <2>1, ParentedStays DEF Core
  <1> QED
    BY <1>2, <1>3, <1>6, <1>11, <1>12, <1>13, <1>14, <1>15, <1>16 DEF p, top

LEMMA CompleteDependencyKeeps ==
    ASSUME Core, NEW t \in Threads, CompleteDependency(t)
    PROVE  Core'
  <1> DEFINE top == Top(t)
             p == top.pipeline
  <1>1. top \in FrameType /\ top.at = "complete" /\ Stacks(stack, t)
    BY TopFacts DEF CompleteDependency, At
  <1>2. PICK q \in top.left :
          /\ finished_dependencies' = [finished_dependencies EXCEPT ![q] = finished_dependencies[q] + 1]
          /\ IF IsReady(q, finished_dependencies[q] + 1)
               THEN Schedule(t, [top EXCEPT !.left = @ \ {q}], q)
               ELSE Become(t, [top EXCEPT !.left = @ \ {q}], <<>>) /\ UNCHANGED total_tasks
    BY DEF CompleteDependency
  <1>3. UNCHANGED <<plan, queue, finished_tasks, finished, completed_pipelines, interrupted, exceptions, rounds>>
    BY DEF CompleteDependency
  <1>4. p \in Pipelines /\ total_tasks[p] > 0 /\ p \in finished /\ finished_tasks[p] = total_tasks[p]
        /\ Claims(top, total_tasks) /\ Len(stack[t]) # 1
    BY <1>1, ClaimAlone
  <1> DEFINE f == [top EXCEPT !.left = @ \ {q}]
  <1>5. f \in FrameType /\ f.at = "complete" /\ f.pipeline = p /\ f.left = top.left \ {q}
    BY <1>1 DEF FrameType
  <1>6. q \in Pipelines
    BY <1>1 DEF FrameType
  <1>7. finished_dependencies \in [Pipelines -> Nat] /\ completed_pipelines' \in Nat
        /\ interrupted' \in BOOLEAN /\ exceptions' \in BOOLEAN
    BY <1>3 DEF Core, TypeInv
  <1>8. finished_dependencies' \in [Pipelines -> Nat]
        /\ finished_dependencies'[q] = finished_dependencies[q] + 1
        /\ \A x \in Pipelines : x # q => finished_dependencies'[x] = finished_dependencies[x]
    BY <1>2, <1>6, <1>7
  \* What both branches have in common.
  <1>9. ASSUME NEW new \in Seq(FrameType), Len(new) \in {1, 2}, Moved(stack, stack', t, new),
               new[1] = f, Len(new) = 2 => new[2].at # "complete"
        PROVE  /\ p \in plan.deps[q] /\ total_tasks[q] = 0
               /\ \A x \in Pipelines : finished_dependencies'[x] = Cardinality(Told(stack', plan.deps, finished, x))
               /\ \A x \in Pipelines : x # q =>
                    (total_tasks[x] > 0 => Told(stack', plan.deps, finished, x) = plan.deps[x])
               /\ IsReady(q, finished_dependencies[q] + 1) => Told(stack', plan.deps, finished, q) = plan.deps[q]
               /\ CompletedInv'
               /\ Parented(stack', plan.deps)
    <2>1. /\ p \in plan.deps[q] /\ total_tasks[q] = 0
          /\ p \notin Told(stack, plan.deps, finished, q)
          /\ Told(stack', plan.deps, finished, q) = Told(stack, plan.deps, finished, q) \cup {p}
          /\ \A x \in Pipelines : x # q => Told(stack', plan.deps, finished, x) = Told(stack, plan.deps, finished, x)
          /\ Completed(stack', finished) = Completed(stack, finished)
          /\ Parented(stack', plan.deps)
      BY <1>1, <1>2, <1>3, <1>9, DependencyTold
    <2>2. plan.deps[q] \in SUBSET Pipelines /\ IsFiniteSet(plan.deps[q])
      <3>1. plan.deps[q] \in SUBSET Pipelines
        BY <1>6, ExecutorAssumption DEF Core, TypeInv
      <3> QED
        BY <3>1, ExecutorAssumption, FS_Subset
    <2>3. Told(stack, plan.deps, finished, q) \in SUBSET plan.deps[q]
          /\ Told(stack', plan.deps, finished, q) \in SUBSET plan.deps[q]
      BY DEF Told
    <2>4. IsFiniteSet(Told(stack, plan.deps, finished, q))
      BY <2>2, <2>3, FS_Subset
    <2>5. Cardinality(Told(stack', plan.deps, finished, q)) = Cardinality(Told(stack, plan.deps, finished, q)) + 1
      BY <2>1, <2>4, FS_AddElement
    <2>6. \A x \in Pipelines : /\ finished_dependencies[x] = Cardinality(Told(stack, plan.deps, finished, x))
                               /\ total_tasks[x] > 0 => Told(stack, plan.deps, finished, x) = plan.deps[x]
      BY DEF Core, ToldInv
    <2>7. \A x \in Pipelines : finished_dependencies'[x] = Cardinality(Told(stack', plan.deps, finished, x))
      <3> TAKE x \in Pipelines
      <3>1. CASE x = q
        BY <1>6, <1>8, <2>5, <2>6, <3>1
      <3>2. CASE x # q
        BY <1>8, <2>1, <2>6, <3>2
      <3> QED
        BY <3>1, <3>2
    <2>8. IsReady(q, finished_dependencies[q] + 1) => Told(stack', plan.deps, finished, q) = plan.deps[q]
      <3> SUFFICES ASSUME IsReady(q, finished_dependencies[q] + 1)
                   PROVE  Told(stack', plan.deps, finished, q) = plan.deps[q]
        OBVIOUS
      <3>1. Cardinality(plan.deps[q]) = Cardinality(Told(stack', plan.deps, finished, q))
        BY <1>6, <1>8, <2>7 DEF IsReady
      <3> QED
        BY <2>2, <2>3, <3>1, FS_Subset
    <2>9. CompletedInv'
      BY <1>3, <2>1 DEF Core, CompletedInv
    <2> QED
      BY <2>1, <2>6, <2>7, <2>8, <2>9
  <1> HIDE DEF f, p, top
  <1>10. CASE ~IsReady(q, finished_dependencies[q] + 1)
    <2> DEFINE new == <<f>>
    <2>1. Become(t, f, <<>>) /\ total_tasks' = total_tasks
      BY <1>2, <1>10 DEF f
    <2>2. Moved(stack, stack', t, new)
      BY <1>5, <2>1, BecomeStep
    <2>3. new \in Seq(FrameType) /\ Len(new) = 1 /\ new[1] = f /\ \A k \in 1 .. Len(new) : k = 1
      BY <1>5, OneFrame
    <2> HIDE DEF new
    <2>4. Len(new) \in {1, 2} /\ Len(new) # 2 /\ Len(new) \in {0, 1}
      BY <2>3
    <2>5. \A k \in 1 .. Len(new) : new[k].at = "complete" /\ new[k].pipeline = p
      BY <1>5, <2>3, Zenon
    <2>6. finished' = finished \cup {p}
      BY <1>3, <1>4
    <2>7. /\ TypeInv' /\ Shaped(stack') /\ Framed(stack', finished_tasks, total_tasks, finished')
          /\ Paired(stack', total_tasks) /\ Counted(queue, stack', finished_tasks, total_tasks)
          /\ InitialInv' /\ FinishedInv'
      <3>1. Top(t).at \in {"finish", "complete"}
        BY <1>1 DEF top
      <3>2. \A k \in 1 .. Len(new) : new[k].at = "complete" /\ new[k].pipeline = Top(t).pipeline
        BY <2>5 DEF p, top
      <3>3. finished' = finished \cup {Top(t).pipeline}
        BY <2>6 DEF p, top
      <3>4. UNCHANGED <<plan, queue, finished_tasks, total_tasks, rounds, interrupted, exceptions>>
        BY <1>3, <2>1
      <3>5. completed_pipelines' \in Nat /\ finished_dependencies' \in [Pipelines -> Nat]
        BY <1>7, <1>8
      <3> QED
        BY <2>2, <2>3, <2>4, <3>1, <3>2, <3>3, <3>4, <3>5, CompletionStep
    <2>8. /\ total_tasks[q] = 0
          /\ \A x \in Pipelines : finished_dependencies'[x] = Cardinality(Told(stack', plan.deps, finished, x))
          /\ \A x \in Pipelines : x # q =>
               (total_tasks[x] > 0 => Told(stack', plan.deps, finished, x) = plan.deps[x])
          /\ CompletedInv'
          /\ Parented(stack', plan.deps)
      BY <1>9, <2>2, <2>3, <2>4
    <2>9. ToldInv'
      <3>1. ~(total_tasks[q] > 0)
        BY <2>8
      <3> QED
        BY <1>3, <2>1, <2>8, <3>1, Zenon DEF ToldInv
    <2> QED
      BY <1>3, <2>1, <2>7, <2>8, <2>9 DEF Core
  <1>11. CASE IsReady(q, finished_dependencies[q] + 1)
    <2>1. PICK n \in TaskCounts :
            /\ total_tasks' = [total_tasks EXCEPT ![q] = n]
            /\ Become(t, f, <<Frame("push", q, "task", n, {})>>)
      BY <1>2, <1>11 DEF Schedule, f
    <2> DEFINE g == Frame("push", q, "task", n, {})
               new == <<f, g>>
    <2>2. total_tasks[q] = 0 /\ n \in Nat
      <3>1. q \in Pipelines /\ p \in plan.deps[q] /\ total_tasks[q] = 0
        <4>1. Telling(stack, p, q)
          <5>1. Stacks(stack, t) /\ Top(t) = stack[t][Len(stack[t])]
            BY TopFacts
          <5>2. Tells(Top(t), p, q)
            BY <1>1, <1>2 DEF Tells, p, top
          <5> QED
            BY <5>1, <5>2, TellingBefore
        <4>2. p \in plan.deps[q]
          <5>1. Top(t) = stack[t][Len(stack[t])] /\ Len(stack[t]) \in DOMAIN stack[t]
            BY TopFacts
          <5> QED
            BY <1>1, <1>2, <5>1 DEF Core, Parented, p, top
        <4>3. p \notin Told(stack, plan.deps, finished, q)
          BY <4>1 DEF Told
        <4>4. ~(total_tasks[q] > 0)
          BY <1>6, <4>2, <4>3 DEF Core, ToldInv
        <4>5. total_tasks[q] \in Nat
          BY <1>6 DEF Core, TypeInv
        <4> QED
          BY <1>6, <4>2, <4>4, <4>5
      <3> QED
        BY <3>1, ScheduleFacts
    <2>3. /\ n \in Nat /\ n >= 1 /\ total_tasks' = Raised(q, n) /\ g \in FrameType /\ q \notin finished
          /\ \A u, j : Other(stack, t, u, j) /\ stack[u][j].pipeline = q => ~Claims(stack[u][j], total_tasks)
      BY <1>6, <2>1, <2>2, ScheduleFacts
    <2>4. g.at = "push" /\ g.pipeline = q /\ g.n = n /\ g.kind = "task"
      BY DEF Frame
    <2>5. Moved(stack, stack', t, new)
      BY <1>5, <2>1, <2>3, CallStep
    <2>6. new \in Seq(FrameType) /\ Len(new) = 2 /\ new[1] = f /\ new[2] = g
          /\ \A k \in 1 .. Len(new) : k = 1 \/ k = 2
      BY <1>5, <2>3, TwoFrames
    <2> HIDE DEF new, g
    <2>7. Len(new) \in {1, 2} /\ Len(new) # 1 /\ new[2].at # "complete"
      BY <2>4, <2>6
    <2>8. /\ p \in plan.deps[q]
          /\ \A x \in Pipelines : finished_dependencies'[x] = Cardinality(Told(stack', plan.deps, finished, x))
          /\ \A x \in Pipelines : x # q =>
               (total_tasks[x] > 0 => Told(stack', plan.deps, finished, x) = plan.deps[x])
          /\ Told(stack', plan.deps, finished, q) = plan.deps[q]
          /\ CompletedInv'
          /\ Parented(stack', plan.deps)
      BY <1>9, <1>11, <2>5, <2>6, <2>7
    <2>9. p # q
      BY <1>4, <2>2
    <2>10. total_tasks \in [Pipelines -> Nat]
      BY DEF Core, TypeInv
    <2>11. \A x \in Pipelines : x # q => Raised(q, n)[x] = total_tasks[x]
      BY <1>6, <2>10 DEF Raised
    <2>12. Raised(q, n)[p] = total_tasks[p]
      BY <1>4, <2>9, <2>11
    <2>13. FrameOK(f, finished_tasks, Raised(q, n), finished)
      BY <1>4, <1>5, <2>12 DEF FrameOK, Numbered
    <2>14. ShapeStep(stack, t, new)
      <3>1. \A k \in 1 .. Len(new) : new[k].at \in TaskPlaces
        BY <1>5, <2>4, <2>6 DEF TaskPlaces
      <3> QED
        BY <1>4, <3>1 DEF ShapeStep
    <2>15. \A x : TasksIn(top, x) = 0 /\ TasksIn(f, x) = 0
      BY <1>1, <1>5 DEF TasksIn
    <2>16. Announces(t, new, q, n)
      <3>1. /\ new[1].pipeline = Top(t).pipeline
            /\ Claims(new[1], Raised(q, n)) => Claims(Top(t), total_tasks)
            /\ new[1].at \in Numbered => Top(t).at \in Numbered /\ new[1].n = Top(t).n
        BY <1>4, <1>5, <2>6 DEF top, p, Numbered
      <3>2. \A x : TasksIn(Top(t), x) = 0 /\ TasksIn(new[1], x) = 0
        BY <2>6, <2>15 DEF top
      <3>3. /\ new[2].at = "push" /\ new[2].pipeline = q /\ new[2].n = n /\ new[2].kind \in {"task", "finalize"}
        BY <2>4, <2>6
      <3>4. FrameOK(new[1], finished_tasks, Raised(q, n), finished)
        BY <2>6, <2>13
      <3>5. UNCHANGED <<plan, queue, finished_tasks, finished, rounds>>
        BY <1>3
      <3> QED
        BY <1>6, <1>7, <1>8, <2>3, <2>5, <2>6, <2>7, <2>14, <3>1, <3>2, <3>3, <3>4, <3>5, Zenon DEF Announces
    <2>17. /\ TypeInv' /\ Shaped(stack') /\ Framed(stack', finished_tasks, total_tasks', finished)
           /\ Paired(stack', total_tasks') /\ Counted(queue, stack', finished_tasks, total_tasks')
           /\ FinishedInv'
      BY <2>16, AnnounceStep
    <2>18. ToldInv'
      <3>1. \A x \in Pipelines : total_tasks'[x] > 0 => Told(stack', plan.deps, finished, x) = plan.deps[x]
        BY <2>3, <2>8, <2>11, Zenon
      <3> QED
        BY <1>3, <2>8, <3>1, Zenon DEF ToldInv
    <2>19. InitialInv'
      <3>1. stack'[Main][1] = stack[Main][1]
        BY <1>4, <2>5, <2>6, <2>14, LowestFrame
      <3>2. Main \in Threads /\ stack[Main] \in Seq(FrameType) /\ Len(stack[Main]) >= 1
        BY DEF Core, TypeInv, Shaped, Threads
      <3>3. stack[Main][1] \in FrameType
        BY <3>2
      <3>4. stack[Main][1].left \subseteq Pipelines
        BY <3>3 DEF FrameType
      <3>5. \A x \in Pipelines : plan.deps[x] = {} => total_tasks'[x] = total_tasks[x]
        BY <2>3, <2>8, <2>11
      <3>6. InitialInv
        BY DEF Core
      <3> QED
        BY <1>3, <3>1, <3>4, <3>5, <3>6 DEF InitialInv
    <2> QED
      BY <1>3, <2>8, <2>17, <2>18, <2>19 DEF Core
  <1> QED
    BY <1>10, <1>11

LEMMA ScheduleInitialKeeps ==
    ASSUME Core, ScheduleInitial
    PROVE  Core'
  <1> DEFINE top == Top(Main)
  <1>1. Main \in Threads /\ top \in FrameType /\ top.at = "init" /\ Stacks(stack, Main)
        /\ top = stack[Main][Len(stack[Main])]
    <2>1. Main \in Threads
      BY DEF Threads
    <2> QED
      BY <2>1, TopFacts DEF ScheduleInitial, At
  <1>2. UNCHANGED <<plan, queue, finished_tasks, finished_dependencies, finished, completed_pipelines,
                    interrupted, exceptions, rounds>>
    BY DEF ScheduleInitial
  <1>3. interrupted' \in BOOLEAN /\ exceptions' \in BOOLEAN /\ queue' = queue
    BY <1>2 DEF Core, TypeInv
  <1>4. top.at \in BasePlaces /\ Len(stack[Main]) = 1 /\ top = stack[Main][1]
    <2>1. top.at \in BasePlaces
      BY <1>1 DEF BasePlaces
    <2>2. Len(stack[Main]) = 1
      BY <1>1, <2>1, LoopPlace
    <2> QED
      BY <1>1, <2>1, <2>2
  <1>5. CASE Goto(Main, "head") /\ total_tasks' = total_tasks
    <2>1. Uncounted
      BY <1>2, <1>5 DEF Uncounted
    <2> QED
      BY <1>1, <1>3, <1>4, <1>5, <2>1, LoopStep
  <1>6. ASSUME NEW p \in top.left, HasDependencies(p),
               Become(Main, [top EXCEPT !.left = @ \ {p}], <<>>), total_tasks' = total_tasks
        PROVE  Core'
    <2> DEFINE f == [top EXCEPT !.left = @ \ {p}]
    <2>1. f \in FrameType /\ f.at = "init" /\ f.left = top.left \ {p}
      BY <1>1 DEF FrameType
    <2>2. Moved(stack, stack', Main, <<f>>)
      BY <1>1, <1>6, <2>1, BecomeStep
    <2> HIDE DEF f
    <2>3. f.at \in BasePlaces
      BY <2>1 DEF BasePlaces
    <2>4. /\ FrameOK(f, finished_tasks, total_tasks, finished) /\ Neutral(f) /\ f.at # "complete"
          /\ \A x : TasksIn(f, x) = 0
      BY <2>3, BaseFrame
    <2>5. top.at \notin TaskPlaces /\ top.at # "complete" /\ \A x : TasksIn(top, x) = 0
      BY <1>4, BaseFrame
    <2>6. Uncounted
      BY <1>2, <1>6 DEF Uncounted
    <2>7. \A x \in Pipelines : TasksIn(f, x) = TasksIn(Top(Main), x)
      BY <2>4, <2>5
    <2>8. f.at \in IF Main = Main THEN {"init", "head", "drain", "left"} ELSE {"idle", "stopped"}
      BY <2>1
    <2>9. f.at = "init" => Top(Main).at = "init" /\ f.left \subseteq Top(Main).left
      BY <1>1, <2>1
    <2> QED
      BY <1>1, <1>3, <2>1, <2>2, <2>4, <2>5, <2>6, <2>7, <2>8, <2>9, ReplaceStep
  <1>7. ASSUME NEW p \in top.left, ~HasDependencies(p), NEW n \in TaskCounts,
               total_tasks' = [total_tasks EXCEPT ![p] = n],
               Become(Main, [top EXCEPT !.left = @ \ {p}], <<Frame("push", p, "task", n, {})>>)
        PROVE  Core'
    <2> DEFINE f == [top EXCEPT !.left = @ \ {p}]
               g == Frame("push", p, "task", n, {})
               new == <<f, g>>
    <2>1. f \in FrameType /\ f.at = "init" /\ f.left = top.left \ {p} /\ p \in Pipelines
          /\ top.left \subseteq Pipelines
      BY <1>1 DEF FrameType
    <2>2. plan.deps[p] = {} /\ total_tasks[p] = 0
      <3>1. plan.deps[p] = {}
        BY <1>7 DEF HasDependencies
      <3> QED
        BY <1>1, <1>4, <3>1 DEF Core, InitialInv
    <2>3. /\ n \in Nat /\ n >= 1 /\ total_tasks' = Raised(p, n) /\ g \in FrameType /\ p \notin finished
          /\ \A u, j : Other(stack, Main, u, j) /\ stack[u][j].pipeline = p => ~Claims(stack[u][j], total_tasks)
      BY <1>1, <1>7, <2>1, <2>2, ScheduleFacts
    <2>4. g.at = "push" /\ g.pipeline = p /\ g.n = n /\ g.kind = "task"
      BY DEF Frame
    <2>5. Moved(stack, stack', Main, new)
      BY <1>1, <1>7, <2>1, <2>3, CallStep
    <2>6. new \in Seq(FrameType) /\ Len(new) = 2 /\ new[1] = f /\ new[2] = g
          /\ (\A k \in 1 .. Len(new) : k = 1 \/ k = 2) /\ (\A k \in 2 .. Len(new) : k = 2)
      BY <2>1, <2>3, TwoFrames
    <2> HIDE DEF new, f, g
    <2>7. Len(new) \in {1, 2} /\ Len(new) # 1 /\ Len(new) >= 1
      BY <2>6
    <2>8. f.at \in BasePlaces
      BY <2>1 DEF BasePlaces
    <2>9. /\ FrameOK(f, finished_tasks, Raised(p, n), finished) /\ Neutral(f) /\ f.at # "complete"
          /\ \A x : TasksIn(f, x) = 0
      BY <2>8, BaseFrame
    <2>10. top.at \notin TaskPlaces /\ top.at # "complete" /\ \A x : TasksIn(top, x) = 0
      BY <1>4, BaseFrame
    <2>11. ShapeStep(stack, Main, new)
      <3>1. new[1].at = "init"
        BY <2>1, <2>6
      <3>2. \A k \in 2 .. Len(new) : new[k].at \in TaskPlaces
        BY <2>4, <2>6 DEF TaskPlaces
      <3> QED
        BY <1>4, <2>7, <3>1, <3>2 DEF ShapeStep
    <2>12. Announces(Main, new, p, n)
      <3>1. Neutral(new[1]) /\ FrameOK(new[1], finished_tasks, Raised(p, n), finished)
        BY <2>6, <2>9
      <3>2. \A x : TasksIn(Top(Main), x) = 0 /\ TasksIn(new[1], x) = 0
        BY <2>6, <2>9, <2>10
      <3>3. /\ new[2].at = "push" /\ new[2].pipeline = p /\ new[2].n = n /\ new[2].kind \in {"task", "finalize"}
        BY <2>4, <2>6
      <3>4. UNCHANGED <<plan, queue, finished_tasks, finished, rounds>>
        BY <1>2
      <3>5. finished_dependencies' \in [Pipelines -> Nat] /\ completed_pipelines' \in Nat
        BY <1>2 DEF Core, TypeInv
      <3> QED
        BY <1>1, <1>3, <2>1, <2>3, <2>5, <2>6, <2>7, <2>11, <3>1, <3>2, <3>3, <3>4, <3>5, Zenon DEF Announces
    <2>13. /\ TypeInv' /\ Shaped(stack') /\ Framed(stack', finished_tasks, total_tasks', finished)
           /\ Paired(stack', total_tasks') /\ Counted(queue, stack', finished_tasks, total_tasks')
           /\ FinishedInv'
      BY <2>12, AnnounceStep
    <2>14. \A k \in 1 .. Len(new) : new[k].at # "complete"
      BY <2>4, <2>6, <2>9
    <2>15. /\ CompletedInv' /\ Parented(stack', plan.deps)
           /\ \A q : Told(stack', plan.deps, finished, q) = Told(stack, plan.deps, finished, q)
      BY <1>1, <1>2, <2>5, <2>6, <2>10, <2>14, SilentStep
    <2>16. \A x \in Pipelines : x # p => total_tasks'[x] = total_tasks[x]
      <3>1. total_tasks \in [Pipelines -> Nat]
        BY DEF Core, TypeInv
      <3> QED
        BY <1>7, <2>1, <3>1
    <2>17. ToldInv'
      <3>1. Told(stack, plan.deps, finished, p) = plan.deps[p]
        BY <2>2 DEF Told
      <3>2. \A x \in Pipelines : /\ finished_dependencies[x] = Cardinality(Told(stack, plan.deps, finished, x))
                                 /\ total_tasks[x] > 0 => Told(stack, plan.deps, finished, x) = plan.deps[x]
        BY DEF Core, ToldInv
      <3>3. \A x \in Pipelines : total_tasks'[x] > 0 => Told(stack, plan.deps, finished, x) = plan.deps[x]
        BY <2>16, <3>1, <3>2, Zenon
      <3> QED
        BY <1>2, <2>15, <3>2, <3>3 DEF ToldInv
    <2>18. InitialInv'
      <3>1. stack'[Main][1] = f
        BY <1>1, <1>4, <2>5, <2>6, <2>11, LowestFrame
      <3>2. \A q \in f.left : plan.deps[q] = {} => total_tasks'[q] = 0
        <4>1. \A q \in top.left : plan.deps[q] = {} => total_tasks[q] = 0
          BY <1>1, <1>4 DEF Core, InitialInv
        <4> QED
          BY <2>1, <2>16, <4>1
      <3> QED
        BY <1>2, <3>1, <3>2 DEF InitialInv
    <2> QED
      BY <1>2, <2>13, <2>15, <2>17, <2>18 DEF Core
  <1> QED
    BY <1>5, <1>6, <1>7 DEF ScheduleInitial, Schedule

(***************************************************************************)
(* What holds once the executor has left.                                  *)
(***************************************************************************)
\* A frame that has nothing to do with a pipeline any more: it reads total_tasks once more,
\* and does not find what it counted.
Spent(f) ==
    \/ f.at \in {"thrown", "undefined"}
    \/ f.at \in {"compare", "recheck"} /\ f.n # total_tasks[f.pipeline]

\* With every pipeline completed no task is queued or held, and nobody claims a pipeline.
LEMMA LeftIsDone ==
    ASSUME NoRecursiveCTEs, Core, LeftInv, stack[Main][1].at = "left"
    PROVE  /\ finished = Pipelines
           /\ queue = <<>>
           /\ \A t \in Threads : Top(t).at \in TaskPlaces => Spent(Top(t)) /\ Top(t).at # "thrown"
  <1>1. Completed(stack, finished) = Pipelines
    <2>1. Completed(stack, finished) \in SUBSET Pipelines /\ IsFiniteSet(Pipelines)
      BY ExecutorAssumption DEF Completed, Core, TypeInv
    <2>2. Cardinality(Completed(stack, finished)) >= Cardinality(Pipelines)
      BY AllRegular DEF LeftInv, Core, CompletedInv
    <2>3. /\ Cardinality(Completed(stack, finished)) <= Cardinality(Pipelines)
          /\ Cardinality(Pipelines) = Cardinality(Completed(stack, finished)) => Pipelines = Completed(stack, finished)
          /\ IsFiniteSet(Completed(stack, finished))
      BY <2>1, FS_Subset
    <2>4. Cardinality(Pipelines) \in Nat /\ Cardinality(Completed(stack, finished)) \in Nat
      BY <2>1, <2>3, FS_CardinalityType
    <2> QED
      BY <2>2, <2>3, <2>4
  <1>2. finished = Pipelines
    BY <1>1 DEF Completed, Core, TypeInv
  <1>3. \A p \in Pipelines : ~Completing(stack, p) /\ finished_tasks[p] = total_tasks[p]
    BY <1>1, <1>2 DEF Completed, Core, FinishedInv
  <1>4. queue = <<>>
    <2>1. ASSUME NEW i \in DOMAIN queue PROVE FALSE
      <3> DEFINE p == queue[i].pipeline
                 q == Cardinality(Queued(queue, p))
                 h == Cardinality(Held(stack, p))
      <3>1. p \in Pipelines
        BY QueuedAnnounced
      <3>2. IsFiniteSet(Queued(queue, p)) /\ IsFiniteSet(Held(stack, p)) /\ finished_tasks[p] + q + h <= total_tasks[p]
        BY <3>1 DEF Core, Counted
      <3>3. q \in Nat /\ h \in Nat
        BY <3>2, FS_CardinalityType
      <3>4. i \in Queued(queue, p)
        BY DEF Queued
      <3>5. q # 0
        BY <3>2, <3>4, FS_EmptySet
      <3>6. finished_tasks[p] \in Nat /\ total_tasks[p] \in Nat /\ finished_tasks[p] = total_tasks[p]
        BY <1>3, <3>1 DEF Core, TypeInv
      <3> HIDE DEF p, q, h
      <3> QED
        BY <3>2, <3>3, <3>5, <3>6
    <2>2. queue \in Seq(TaskType)
      BY DEF Core, TypeInv
    <2>3. Len(queue) = 0
      <3>1. Len(queue) \in Nat /\ DOMAIN queue = 1 .. Len(queue)
        BY <2>2
      <3>2. \A n \in Nat : n # 0 => 1 \in 1 .. n
        OBVIOUS
      <3> QED
        BY <2>1, <3>1, <3>2, Zenon
    <2> QED
      BY <2>2, <2>3
  <1>5. ASSUME NEW t \in Threads, Top(t).at \in TaskPlaces PROVE Spent(Top(t)) /\ Top(t).at # "thrown"
    <2> DEFINE top == Top(t)
               p == top.pipeline
    <2>1. top \in FrameType /\ FrameOK(top, finished_tasks, total_tasks, finished)
          /\ Top(t) = stack[t][Len(stack[t])] /\ Len(stack[t]) \in DOMAIN stack[t]
      BY TopFacts
    <2>2. p \in Pipelines
      BY <1>5, <2>1 DEF FrameOK
    <2>3. finished_tasks[p] = total_tasks[p] /\ finished_tasks[p] \in Nat /\ p \in finished /\ ~Completing(stack, p)
      BY <1>2, <1>3, <2>2 DEF Core, TypeInv
    <2>4. CASE top.at \in {"push", "execute", "count", "thrown"}
      <3>1. TasksIn(top, p) >= 1
        BY <2>1, <2>4 DEF TasksIn, FrameOK
      <3>2. finished_tasks[p] < total_tasks[p]
        BY <2>2, <3>1, HeldAnnounced
      <3> QED
        BY <2>3, <3>2
    <2>5. CASE top.at \in {"compare", "recheck"}
      <3>1. ~Claims(top, total_tasks)
        BY <2>1, <2>3, <2>5 DEF FrameOK
      <3> QED
        BY <2>5, <3>1 DEF Claims, Numbered, Spent
    <2>6. CASE top.at \in {"finalize", "finish"}
      <3>1. Claims(top, total_tasks)
        BY <2>1, <2>6 DEF Claims, FrameOK, Numbered
      <3> QED
        BY <2>1, <2>3, <2>6, <3>1 DEF FrameOK
    <2>7. CASE top.at = "complete"
      BY <2>1, <2>3, <2>7 DEF Completing
    <2>8. CASE top.at = "undefined"
      BY <2>8 DEF Spent
    <2> QED
      BY <1>5, <2>4, <2>5, <2>6, <2>7, <2>8 DEF TaskPlaces
  <1> QED
    BY <1>2, <1>4, <1>5

\* How a step changes the frames of its thread.
Goes(t) ==
    \/ Return(t)
    \/ \E x : Goto(t, x)
    \/ \E f : Become(t, f, <<>>)
    \/ \E f, g : Become(t, f, <<g>>)

LEMMA StepGoes ==
    ASSUME Core, NEW t \in Threads, Step(t)
    PROVE  Goes(t)
  <1>1. CASE PushTask(t)
    BY <1>1, Zenon DEF PushTask, Goes
  <1>2. CASE TakeTask(t)
    BY <1>2, Zenon DEF TakeTask, Goes
  <1>3. CASE QueueEmpty(t)
    BY <1>3, Zenon DEF QueueEmpty, Goes
  <1>4. CASE Execute(t)
    BY <1>4, Zenon DEF Execute, AfterError, Goes
  <1>5. CASE CountTask(t)
    BY <1>5, Zenon DEF CountTask, Goes
  <1>6. CASE CompareTotal(t)
    BY <1>6, Zenon DEF CompareTotal, Goes
  <1>7. CASE Finalize(t)
    BY <1>7, Zenon DEF Finalize, Goes
  <1>8. CASE RecheckTotal(t)
    BY <1>8, Zenon DEF RecheckTotal, Goes
  <1>9. CASE Finish(t)
    BY <1>9, Zenon DEF Finish, Goes
  <1>10. CASE CompleteDependency(t)
    BY <1>10, Zenon DEF CompleteDependency, Schedule, Goes
  <1>11. CASE CompletePipeline(t)
    BY <1>11, Zenon DEF CompletePipeline, Goes
  <1>12. CASE RerunPipeline(t)
    BY <1>12, Zenon DEF RerunPipeline, Schedule, Goes
  <1>13. CASE CheckFinished(t)
    BY <1>13, Zenon DEF CheckFinished, Goes
  <1>14. CASE FinalizeThrows(t)
    <2>1. Goto(t, "thrown")
      BY <1>14, NoReruns DEF FinalizeThrows
    <2> QED
      BY <2>1, Zenon DEF Goes
  <1>15. CASE ReadDestroyed(t)
    BY <1>15, Zenon DEF ReadDestroyed, Goes
  <1> QED
    BY <1>1, <1>2, <1>3, <1>4, <1>5, <1>6, <1>7, <1>8, <1>9, <1>10, <1>11, <1>12, <1>13, <1>14, <1>15
       DEF Step

\* The frames of a thread that goes on at f, after those of calls.
Gone(s, f) == Append(Front(s), f)
Called(s, f, calls) == Append(Front(s), f) \o calls

\* The lowest frame after a step.
LEMMA LowestSeq ==
    ASSUME NEW S, NEW s \in Seq(S), Len(s) >= 1, NEW f, NEW g
    PROVE  /\ Len(s) # 1 => Front(s)[1] = s[1]
           /\ Gone(s, f)[1] = IF Len(s) = 1 THEN f ELSE s[1]
           /\ Called(s, f, <<>>)[1] = IF Len(s) = 1 THEN f ELSE s[1]
           /\ Called(s, f, <<g>>)[1] = IF Len(s) = 1 THEN f ELSE s[1]
  <1> DEFINE S2 == S \cup {f, g}
             a == Append(Front(s), f)
  <1>1. /\ Front(s) \in Seq(S)
        /\ Len(Front(s)) = Len(s) - 1
        /\ \A i \in 1 .. (Len(s) - 1) : Front(s)[i] = s[i]
        /\ Len(s) \in Nat
    BY SeqFacts
  <1>2. Front(s) \in Seq(S2)
    BY <1>1
  <1>3. Len(s) # 1 => Front(s)[1] = s[1]
    <2>1. \A n \in Nat : n >= 1 /\ n # 1 => 1 \in 1 .. (n - 1)
      OBVIOUS
    <2> QED
      BY <1>1, <2>1, Zenon
  <1>4. a \in Seq(S2) /\ Len(a) = Len(s)
    <2>1. f \in S2
      OBVIOUS
    <2> HIDE DEF S2
    <2> QED
      BY <1>1, <1>2, <2>1
  <1>5. a[1] = IF Len(s) = 1 THEN f ELSE s[1]
    <2>1. CASE Len(s) = 1
      BY <1>1, <1>2, <2>1
    <2>2. CASE Len(s) # 1
      <3>1. 1 \in 1 .. Len(Front(s))
        BY <1>1, <2>2
      <3>2. a[1] = Front(s)[1]
        BY <1>2, <3>1
      <3> QED
        BY <1>3, <2>2, <3>2
    <2> QED
      BY <2>1, <2>2
  <1> HIDE DEF a
  <1>6. (a \o <<>>)[1] = a[1]
    BY <1>4
  <1>7. (a \o <<g>>)[1] = a[1]
    <2>1. <<g>> \in Seq(S2)
      OBVIOUS
    <2>2. 1 \in 1 .. Len(a)
      BY <1>1, <1>4
    <2> HIDE DEF S2
    <2> QED
      BY <1>4, <2>1, <2>2
  <1> QED
    BY <1>3, <1>5, <1>6, <1>7 DEF a, Gone, Called

LowestIs(s2, s, f) == s2[1] = IF Len(s) = 1 THEN f ELSE s[1]

LEMMA LowestGone ==
    ASSUME NEW s \in Seq(FrameType), Len(s) >= 1, NEW f
    PROVE  /\ LowestIs(Gone(s, f), s, f)
           /\ LowestIs(Called(s, f, <<>>), s, f)
           /\ \A g : LowestIs(Called(s, f, <<g>>), s, f)
  <1>1. ASSUME NEW g
        PROVE  /\ LowestIs(Gone(s, f), s, f)
               /\ LowestIs(Called(s, f, <<>>), s, f)
               /\ LowestIs(Called(s, f, <<g>>), s, f)
    BY LowestSeq DEF LowestIs
  <1> QED
    BY <1>1

LEMMA GoesLowest ==
    ASSUME Core, NEW t \in Threads, Goes(t), ~(t = Main /\ Len(stack[Main]) = 1)
    PROVE  stack'[Main][1] = stack[Main][1]
  <1>1. Main \in Threads /\ stack[Main] \in Seq(FrameType) /\ Len(stack[Main]) >= 1
        /\ stack \in [Threads -> Seq(FrameType)]
    BY DEF Core, TypeInv, Shaped, Threads
  <1>2. CASE t # Main
    BY <1>1, <1>2 DEF Goes, Return, Goto, Become
  <1>3. CASE t = Main
    <2>1. Len(stack[Main]) # 1
      BY <1>3
    <2>2. CASE Return(t)
      <3>1. stack'[Main] = Front(stack[Main])
        BY <1>1, <1>3, <2>2 DEF Return
      <3> QED
        BY <1>1, <2>1, <3>1, LowestSeq
    <2>3. ASSUME NEW x, Goto(t, x) PROVE stack'[Main][1] = stack[Main][1]
      <3>1. stack'[Main] = Gone(stack[Main], [Last(stack[Main]) EXCEPT !.at = x])
        BY <1>1, <1>3, <2>3 DEF Goto, Gone
      <3> QED
        BY <1>1, <2>1, <3>1, LowestGone DEF LowestIs
    <2>4. ASSUME NEW f, Become(t, f, <<>>) PROVE stack'[Main][1] = stack[Main][1]
      <3>1. stack'[Main] = Called(stack[Main], f, <<>>)
        BY <1>1, <1>3, <2>4 DEF Become, Called
      <3> QED
        BY <1>1, <2>1, <3>1, LowestGone DEF LowestIs
    <2>5. ASSUME NEW f, NEW g, Become(t, f, <<g>>) PROVE stack'[Main][1] = stack[Main][1]
      <3>1. stack'[Main] = Called(stack[Main], f, <<g>>)
        BY <1>1, <1>3, <2>5 DEF Become, Called
      <3>2. LowestIs(Called(stack[Main], f, <<g>>), stack[Main], f)
        BY <1>1, LowestGone, Zenon
      <3> QED
        BY <2>1, <3>1, <3>2, Zenon DEF LowestIs
    <2> QED
      BY <2>2, <2>3, <2>4, <2>5 DEF Goes
  <1> QED
    BY <1>2, <1>3

\* A thread in its loop takes a task, or the loop goes on.
LEMMA LoopSteps ==
    ASSUME Core, NEW t \in Threads, Step(t), Top(t).at \in BasePlaces
    PROVE  TakeTask(t) \/ QueueEmpty(t)
  BY DEF Step, PushTask, Execute, FinalizeThrows, ReadDestroyed, CountTask, CompareTotal, Finalize, RecheckTotal, Finish,
         CompleteDependency, CompletePipeline, RerunPipeline, CheckFinished, At, BasePlaces

\* Only Leave makes Initialize leave.
LEMMA StaysIn ==
    ASSUME Core, stack[Main][1].at # "left",
           ScheduleInitial \/ CheckCompleted \/ Interrupt \/ \E t \in Threads : Step(t) \/ StopWorker(t)
    PROVE  stack'[Main][1].at # "left"
  <1>1. Main \in Threads /\ stack[Main] \in Seq(FrameType) /\ Len(stack[Main]) >= 1
        /\ stack \in [Threads -> Seq(FrameType)]
    BY DEF Core, TypeInv, Shaped, Threads
  <1>2. Top(Main) \in FrameType /\ Top(Main) = Last(stack[Main])
    BY <1>1, TopFacts DEF Top
  <1>3. ASSUME Len(stack[Main]) = 1, NEW x, x # "left", Goto(Main, x) PROVE stack'[Main][1].at # "left"
    <2>1. stack'[Main] = Gone(stack[Main], [Top(Main) EXCEPT !.at = x])
      BY <1>1, <1>3 DEF Goto, Top, Gone
    <2>2. stack'[Main][1] = [Top(Main) EXCEPT !.at = x]
      BY <1>1, <1>3, <2>1, LowestGone DEF LowestIs
    <2> QED
      BY <1>2, <1>3, <2>2 DEF FrameType
  <1>4. ASSUME Len(stack[Main]) = 1, NEW f, f.at # "left", NEW g,
               Become(Main, f, <<>>) \/ Become(Main, f, <<g>>)
        PROVE  stack'[Main][1].at # "left"
    <2>1. \/ stack'[Main] = Called(stack[Main], f, <<>>)
          \/ stack'[Main] = Called(stack[Main], f, <<g>>)
      BY <1>1, <1>4 DEF Become, Called
    <2>2. stack'[Main][1] = f
      <3>1. /\ LowestIs(Called(stack[Main], f, <<>>), stack[Main], f)
            /\ LowestIs(Called(stack[Main], f, <<g>>), stack[Main], f)
        BY <1>1, LowestGone, Zenon
      <3> QED
        BY <1>4, <2>1, <3>1, Zenon DEF LowestIs
    <2> QED
      BY <1>4, <2>2
  <1>5. CASE ScheduleInitial
    <2>1. Top(Main).at = "init" /\ Len(stack[Main]) = 1
      BY <1>1, <1>5, LoopPlace DEF ScheduleInitial, At, BasePlaces
    <2>2. CASE Goto(Main, "head")
      BY <1>3, <2>1, <2>2
    <2>3. ASSUME NEW p, NEW g,
                 \/ Become(Main, [Top(Main) EXCEPT !.left = @ \ {p}], <<>>)
                 \/ Become(Main, [Top(Main) EXCEPT !.left = @ \ {p}], <<g>>)
          PROVE  stack'[Main][1].at # "left"
      <3>1. [Top(Main) EXCEPT !.left = @ \ {p}].at # "left"
        BY <1>2, <2>1 DEF FrameType
      <3> QED
        BY <1>4, <2>1, <2>3, <3>1
    <2> QED
      BY <1>5, <2>2, <2>3, Zenon DEF ScheduleInitial, Schedule
  <1>6. CASE CheckCompleted
    <2>1. Len(stack[Main]) = 1 /\ Goto(Main, "drain")
      BY <1>1, <1>6, LoopPlace DEF CheckCompleted, At, BasePlaces
    <2> QED
      BY <1>3, <2>1
  <1>7. CASE Interrupt
    BY <1>7 DEF Interrupt
  <1>8. ASSUME NEW t \in Threads, StopWorker(t) PROVE stack'[Main][1].at # "left"
    <2>1. t # Main
      BY <1>8, LoopPlace DEF StopWorker, At
    <2>2. Goes(t)
      BY <1>8, Zenon DEF StopWorker, Goes
    <2> QED
      BY <2>1, <2>2, GoesLowest
  <1>9. ASSUME NEW t \in Threads, Step(t) PROVE stack'[Main][1].at # "left"
    <2>1. CASE ~(t = Main /\ Len(stack[Main]) = 1)
      BY <1>9, <2>1, StepGoes, GoesLowest
    <2>2. CASE t = Main /\ Len(stack[Main]) = 1
      <3>1. Top(Main).at \in BasePlaces /\ Top(Main).at # "left"
        <4>1. Top(Main) = stack[Main][1]
          BY <1>1, <2>2, TopFacts
        <4>2. Top(Main).at \in BasePlaces
          BY <1>1, <2>2, LoopPlace
        <4> QED
          BY <4>1, <4>2
      <3>2. CASE TakeTask(Main)
        <4>1. PICK g : Become(Main, Top(Main), <<g>>)
          BY <3>2, Zenon DEF TakeTask
        <4> QED
          BY <1>4, <2>2, <3>1, <4>1
      <3>3. CASE QueueEmpty(Main)
        <4>1. Goto(Main, "head")
          BY <1>1, <3>3, LoopPlace DEF QueueEmpty, At
        <4> QED
          BY <1>3, <2>2, <4>1
      <3> QED
        BY <1>9, <2>2, <3>1, <3>2, <3>3, LoopSteps
    <2> QED
      BY <2>1, <2>2
  <1> QED
    BY <1>5, <1>6, <1>7, <1>8, <1>9

\* No step takes a pipeline from those that are completed.
LEMMA CompletedGrows ==
    ASSUME Core, Next
    PROVE  plan' = plan /\ completed_pipelines' \in {completed_pipelines, completed_pipelines + 1}
  <1>1. completed_pipelines \in Nat
    BY DEF Core, TypeInv
  <1>2. ASSUME NEW t \in Threads, Step(t)
        PROVE  plan' = plan /\ completed_pipelines' \in {completed_pipelines, completed_pipelines + 1}
    BY <1>2 DEF Step, PushTask, TakeTask, QueueEmpty, Execute, FinalizeThrows, ReadDestroyed, CountTask,
       CompareTotal, Finalize, RecheckTotal, Finish, CompleteDependency, CompletePipeline,
       RerunPipeline, CheckFinished
  <1>3. ASSUME NEW t \in Threads, StopWorker(t)
        PROVE  plan' = plan /\ completed_pipelines' = completed_pipelines
    BY <1>3 DEF StopWorker
  <1>4. CASE ScheduleInitial \/ CheckCompleted \/ Leave \/ Interrupt
    BY <1>1, <1>4 DEF ScheduleInitial, CheckCompleted, Leave, Interrupt
  <1> QED
    BY <1>1, <1>2, <1>3, <1>4 DEF Next

LEMMA LeftKeeps ==
    ASSUME Core, LeftInv, Next
    PROVE  LeftInv'
  <1>1. /\ plan' = plan /\ completed_pipelines \in Nat
        /\ completed_pipelines' \in {completed_pipelines, completed_pipelines + 1}
    BY CompletedGrows DEF Core, TypeInv
  <1>2. Regular' = Regular
    BY <1>1 DEF Regular, Recursive
  <1>3. CASE Leave
    BY <1>2, <1>3 DEF Leave, LeftInv
  <1>4. CASE ~Leave /\ stack[Main][1].at # "left"
    <2>1. stack'[Main][1].at # "left"
      BY <1>4, StaysIn DEF Next
    <2> QED
      BY <2>1 DEF LeftInv
  <1>5. CASE stack[Main][1].at = "left"
    <2>1. Regular \subseteq Pipelines /\ IsFiniteSet(Pipelines)
      BY ExecutorAssumption DEF Regular
    <2>2. Cardinality(Regular) \in Nat
      BY <2>1, FS_Subset, FS_CardinalityType
    <2>3. completed_pipelines >= Cardinality(Regular)
      BY <1>5 DEF LeftInv
    <2>4. completed_pipelines' >= Cardinality(Regular)
      BY <1>1, <2>2, <2>3
    <2> QED
      BY <1>2, <2>4 DEF LeftInv
  <1> QED
    BY <1>3, <1>4, <1>5

(***************************************************************************)
(* The invariant.                                                          *)
(***************************************************************************)
LEMMA InitInv ==
    ASSUME NoRecursiveCTEs, Init
    PROVE  Inv
  <1>1. \A p \in Pipelines : plan.reruns[p] = <<>>
    BY DEF NoRecursiveCTEs, Init
  <1>2. Regular \subseteq Pipelines
    BY DEF Regular
  <1> DEFINE First(t) == IF t = Main THEN Base("init", Regular)
                         ELSE IF t \in plan.workers THEN Base("idle", {}) ELSE Base("stopped", {})
  <1>3. \A t \in Threads : First(t) \in FrameType
    BY <1>2 DEF Base, Frame, FrameType, BasePlaces, NoPipeline
  <1>4. \A t \in Threads : First(t).at = IF t = Main THEN "init" ELSE IF t \in plan.workers THEN "idle" ELSE "stopped"
    BY DEF Base, Frame
  <1>5. \A t \in Threads : stack[t] = <<First(t)>>
    BY DEF Init
  <1>6. DOMAIN stack = Threads /\ stack = [t \in Threads |-> stack[t]]
    BY DEF Init
  <1> HIDE DEF First
  <1>7. \A t \in Threads : /\ stack[t] \in Seq(FrameType) /\ Len(stack[t]) = 1 /\ stack[t][1] = First(t)
                           /\ \A i \in DOMAIN stack[t] : i = 1
                           /\ ~\E i \in 2 .. Len(stack[t]) : TRUE
    <2> TAKE t \in Threads
    <2> DEFINE f == First(t)
    <2>1. f \in FrameType /\ stack[t] = <<f>>
      BY <1>3, <1>5
    <2> HIDE DEF f
    <2>2. <<f>> \in Seq(FrameType) /\ Len(<<f>>) = 1 /\ <<f>>[1] = f /\ DOMAIN <<f>> = {1}
      BY <2>1
    <2>3. ~\E i \in 2 .. Len(<<f>>) : TRUE
      BY <2>1, OneFrame
    <2> QED
      BY <2>1, <2>2, <2>3 DEF f
  <1>8. stack \in [Threads -> Seq(FrameType)]
    BY <1>6, <1>7
  <1>9. TypeInv
    <2>1. queue \in Seq(TaskType) /\ interrupted \in BOOLEAN /\ exceptions \in BOOLEAN
      <3>1. queue = <<>> /\ interrupted = FALSE /\ exceptions = FALSE
        BY DEF Init
      <3>2. <<>> \in Seq(TaskType)
        OBVIOUS
      <3> QED
        BY <3>1, <3>2
    <2>2. /\ finished_tasks \in [Pipelines -> Nat] /\ total_tasks \in [Pipelines -> Nat]
          /\ finished_dependencies \in [Pipelines -> Nat]
          /\ finished \subseteq Pipelines /\ completed_pipelines \in Nat /\ plan \in Plans
      BY DEF Init
    <2>3. rounds = [p \in Pipelines |-> 0]
      <3>1. rounds = [p \in Pipelines |-> IF plan.reruns[p] = <<>> THEN 0 ELSE plan.rounds]
        BY DEF Init
      <3> QED
        BY <1>1, <3>1
    <2> QED
      BY <1>8, <2>1, <2>2, <2>3 DEF TypeInv
  <1>10. Shaped(stack)
    <2>1. \A t \in Threads : stack[t][1].at \in IF t = Main THEN {"init"} ELSE {"idle", "stopped"}
      BY <1>4, <1>7
    <2>2. \A t \in Threads : Len(stack[t]) >= 1 /\ \A i \in 2 .. Len(stack[t]) : stack[t][i].at \in TaskPlaces
      BY <1>7
    <2> QED
      BY <1>7, <2>1, <2>2 DEF Shaped
  <1>11. \A t \in Threads : \A i \in DOMAIN stack[t] : stack[t][i].at \in {"init", "idle", "stopped"}
    BY <1>4, <1>7
  <1>12. \A t \in Threads : \A i \in DOMAIN stack[t] :
           /\ FrameOK(stack[t][i], finished_tasks, total_tasks, finished)
           /\ Neutral(stack[t][i])
           /\ stack[t][i].at # "complete"
           /\ \A p : TasksIn(stack[t][i], p) = 0
    <2>1. \A t \in Threads : \A i \in DOMAIN stack[t] : stack[t][i].at \in BasePlaces
      BY <1>11 DEF BasePlaces
    <2> QED
      BY <2>1, BaseFrame
  <1>13. Framed(stack, finished_tasks, total_tasks, finished)
    BY <1>12 DEF Framed
  <1>14. Paired(stack, total_tasks)
    BY <1>12, NeutralPairs DEF Paired
  <1>15. Parented(stack, plan.deps)
    BY <1>12 DEF Parented
  <1>16. Counted(queue, stack, finished_tasks, total_tasks)
    <2> SUFFICES ASSUME NEW p \in Pipelines
                 PROVE  /\ IsFiniteSet(Queued(queue, p)) /\ IsFiniteSet(Held(stack, p))
                        /\ finished_tasks[p] + Cardinality(Queued(queue, p)) + Cardinality(Held(stack, p)) <= total_tasks[p]
                        /\ FinalizeIsWhole =>
                             total_tasks[p] = finished_tasks[p] + (Cardinality(Queued(queue, p)) + Cardinality(Held(stack, p)))
      BY DEF Counted
    <2>1. Queued(queue, p) = {}
      BY DEF Queued, Init
    <2>2. Held(stack, p) = {}
      <3>1. ASSUME NEW x \in Held(stack, p) PROVE FALSE
        <4>1. PICK u \in Threads : \E j \in DOMAIN stack[u] : x \in Tokens(u, j, TasksIn(stack[u][j], p))
          BY <3>1, HeldElements
        <4>2. PICK j \in DOMAIN stack[u] : x \in Tokens(u, j, TasksIn(stack[u][j], p))
          BY <4>1
        <4>3. TasksIn(stack[u][j], p) = 0
          BY <1>12
        <4> QED
          BY <4>2, <4>3 DEF Tokens
      <3> QED
        BY <3>1
    <2>3. finished_tasks[p] = 0 /\ total_tasks[p] = 0
      BY DEF Init
    <2> QED
      BY <2>1, <2>2, <2>3, FS_EmptySet
  <1>17. finished = {} /\ completed_pipelines = 0
    BY DEF Init
  <1>18. ToldInv
    <2>1. \A q : Told(stack, plan.deps, finished, q) = {}
      BY <1>17 DEF Told
    <2>2. \A q \in Pipelines : finished_dependencies[q] = 0 /\ total_tasks[q] = 0
      BY DEF Init
    <2> QED
      BY <2>1, <2>2, FS_EmptySet DEF ToldInv
  <1>19. InitialInv
    <2>1. Main \in Threads
      BY DEF Threads
    <2>2. stack[Main][1].left \subseteq Pipelines
      BY <1>3, <1>7, <2>1 DEF FrameType
    <2>3. \A q \in Pipelines : total_tasks[q] = 0
      BY DEF Init
    <2> QED
      BY <2>2, <2>3 DEF InitialInv
  <1>20. FinishedInv
    BY <1>17 DEF FinishedInv
  <1>21. CompletedInv
    <2>1. Completed(stack, finished) = {}
      BY <1>17 DEF Completed
    <2> QED
      BY <1>17, <2>1, FS_EmptySet DEF CompletedInv
  <1>22. LeftInv
    <2>1. Main \in Threads
      BY DEF Threads
    <2>2. stack[Main][1].at # "left"
      BY <1>4, <1>7, <2>1
    <2> QED
      BY <2>2 DEF LeftInv
  <1> QED
    BY <1>9, <1>10, <1>13, <1>14, <1>15, <1>16, <1>18, <1>19, <1>20, <1>21, <1>22 DEF Inv, Core

\* Recursive CTEs are out of the question.
LEMMA NoRound ==
    ASSUME Core, NEW t \in Threads
    PROVE  ~RerunPipeline(t) /\ ~CheckFinished(t)
  BY LoopPlace DEF RerunPipeline, CheckFinished, At, TaskPlaces, BasePlaces

LEMMA NextCore ==
    ASSUME NoRecursiveCTEs, Core, Next
    PROVE  Core'
  <1>1. ASSUME NEW t \in Threads, Step(t) PROVE Core'
    BY <1>1, NoRound, PushTaskKeeps, TakeTaskKeeps, QueueEmptyKeeps, ExecuteKeeps,
       FinalizeThrowsKeeps, ReadDestroyedKeeps, CountTaskKeeps,
       CompareTotalKeeps, FinalizeKeeps, RecheckTotalKeeps, FinishKeeps, CompleteDependencyKeeps,
       CompletePipelineKeeps DEF Step
  <1>2. ASSUME NEW t \in Threads, StopWorker(t) PROVE Core'
    BY <1>2, StopWorkerKeeps
  <1>3. CASE ScheduleInitial
    BY <1>3, ScheduleInitialKeeps
  <1>4. CASE CheckCompleted
    BY <1>4, CheckCompletedKeeps
  <1>5. CASE Leave
    BY <1>5, LeaveKeeps
  <1>6. CASE Interrupt
    BY <1>6, InterruptKeeps
  <1> QED
    BY <1>1, <1>2, <1>3, <1>4, <1>5, <1>6 DEF Next

LEMMA StutterInv ==
    ASSUME Inv, UNCHANGED vars
    PROVE  Inv'
  <1>1. /\ plan' = plan /\ queue' = queue /\ stack' = stack /\ finished_tasks' = finished_tasks
        /\ total_tasks' = total_tasks /\ finished_dependencies' = finished_dependencies
        /\ finished' = finished /\ completed_pipelines' = completed_pipelines
        /\ interrupted' = interrupted /\ exceptions' = exceptions /\ rounds' = rounds
    BY DEF vars, counters
  <1>2. TypeInv'
    BY <1>1 DEF Inv, Core, TypeInv
  <1>3. ToldInv' /\ InitialInv' /\ FinishedInv' /\ CompletedInv'
    BY <1>1 DEF Inv, Core, ToldInv, InitialInv, FinishedInv, CompletedInv
  <1>4. LeftInv'
    BY <1>1 DEF Inv, LeftInv, Regular, Recursive
  <1> QED
    BY <1>1, <1>2, <1>3, <1>4 DEF Inv, Core

\* The inductive invariant of the executor, for plans without recursive CTEs: who counts
\* which task, who claims a pipeline, and who has been told of it (FinishTask, Finish and
\* CompleteDependency of pipeline.cpp, the loop of Executor::Initialize).
THEOREM ExecutorInvariance ==
    ASSUME NoRecursiveCTEs
    PROVE  Spec => []Inv
  <1>1. Init => Inv
    BY InitInv
  <1>2. Inv /\ [Next]_vars => Inv'
    <2>1. ASSUME Inv, Next PROVE Inv'
      <3>1. Core /\ LeftInv
        BY <2>1 DEF Inv
      <3>2. Core' /\ LeftInv'
        BY <2>1, <3>1, NextCore, LeftKeeps
      <3> QED
        BY <3>2 DEF Inv
    <2> QED
      BY <2>1, StutterInv
  <1> QED
    BY <1>1, <1>2, PTL DEF Spec

\* Types, and the bounds on the counters: no task is counted beyond total_tasks and no
\* dependency beyond those of a pipeline (FinishTask, CompleteDependency).
THEOREM ExecutorTypeCorrect ==
    ASSUME NoRecursiveCTEs
    PROVE  Spec => []TypeOK
  <1>1. Inv => TypeOK
    <2> SUFFICES ASSUME Inv PROVE TypeOK
      OBVIOUS
    <2>1. Core /\ TypeInv
      BY DEF Inv, Core
    <2>2. \A i \in DOMAIN queue : queue[i] \in TaskType
      <3>1. queue \in Seq(TaskType)
        BY <2>1 DEF TypeInv
      <3> QED
        BY <3>1
    <2>3. \A t \in Threads : stack[t] # <<>>
      <3> TAKE t \in Threads
      <3>1. Len(stack[t]) >= 1
        BY <2>1 DEF Core, Shaped
      <3> QED
        BY <3>1
    <2>4. \A p \in Pipelines : finished_tasks[p] <= total_tasks[p]
      <3> TAKE p \in Pipelines
      <3>1. /\ IsFiniteSet(Queued(queue, p)) /\ IsFiniteSet(Held(stack, p))
            /\ finished_tasks[p] + Cardinality(Queued(queue, p)) + Cardinality(Held(stack, p)) <= total_tasks[p]
        BY <2>1 DEF Core, Counted
      <3>2. Cardinality(Queued(queue, p)) \in Nat /\ Cardinality(Held(stack, p)) \in Nat
        BY <3>1, FS_CardinalityType
      <3>3. finished_tasks[p] \in Nat /\ total_tasks[p] \in Nat
        BY <2>1 DEF TypeInv
      <3> QED
        BY <3>1, <3>2, <3>3
    <2>5. \A p \in Pipelines : finished_dependencies[p] <= Cardinality(plan.deps[p])
      <3> TAKE p \in Pipelines
      <3>1. plan.deps[p] \in SUBSET Pipelines
        BY <2>1, ExecutorAssumption DEF TypeInv
      <3>2. IsFiniteSet(plan.deps[p])
        BY <3>1, ExecutorAssumption, FS_Subset
      <3>3. Told(stack, plan.deps, finished, p) \in SUBSET plan.deps[p]
        BY DEF Told
      <3>4. Cardinality(Told(stack, plan.deps, finished, p)) <= Cardinality(plan.deps[p])
        BY <3>2, <3>3, FS_Subset
      <3> QED
        BY <2>1, <3>4 DEF Core, ToldInv
    <2>6. rounds \in [Pipelines -> Nat]
      BY <2>1 DEF TypeInv
    <2>7. /\ plan \in Plans /\ finished_tasks \in [Pipelines -> Nat] /\ total_tasks \in [Pipelines -> Nat]
          /\ finished_dependencies \in [Pipelines -> Nat] /\ finished \subseteq Pipelines
          /\ completed_pipelines \in Nat /\ interrupted \in BOOLEAN /\ exceptions \in BOOLEAN
      BY <2>1 DEF TypeInv
    <2> QED
      BY <2>2, <2>3, <2>4, <2>5, <2>6, <2>7 DEF TypeOK, TaskType
  <1> QED
    BY <1>1, ExecutorInvariance, PTL

\* Pipeline::Schedule and FinishTask neither lose a task nor count one twice, however the
\* threads interleave, unless Finalize throws with total_tasks raised.
THEOREM TasksAreAccounted ==
    ASSUME NoRecursiveCTEs, FinalizeIsWhole
    PROVE  Spec => []TasksAccounted
  <1>1. Inv => TasksAccounted
    BY DEF Inv, Core, Counted, TasksAccounted, Outstanding
  <1> QED
    BY <1>1, ExecutorInvariance, PTL

\* A pipeline's tasks run only after the pipelines it depends on are finished: the counters
\* finished_tasks and finished_dependencies elect one finisher for each of them, also when
\* a hash aggregate's Finalize adds tasks, and also after errors.
THEOREM InputIsComplete ==
    ASSUME NoRecursiveCTEs
    PROVE  Spec => []InputComplete
  <1>1. Inv => InputComplete
    <2> SUFFICES ASSUME Inv, NEW t \in Threads, NEW f \in Frames(t), f.at = "execute"
                 PROVE  plan.deps[f.pipeline] \subseteq finished
      BY DEF InputComplete
    <2>1. PICK i \in DOMAIN stack[t] : f = stack[t][i]
      BY DEF Frames, ToSet
    <2>2. FrameOK(f, finished_tasks, total_tasks, finished)
      BY <2>1 DEF Inv, Core, Framed
    <2>3. f.pipeline \in Pipelines /\ total_tasks[f.pipeline] > 0
      BY <2>2 DEF FrameOK, TaskPlaces
    <2>4. Told(stack, plan.deps, finished, f.pipeline) = plan.deps[f.pipeline]
      BY <2>3 DEF Inv, Core, ToldInv
    <2> QED
      BY <2>4 DEF Told
  <1> QED
    BY <1>1, ExecutorInvariance, PTL

\* Executor::Initialize leaves only when every pipeline is finished and the queue is empty.
\* A worker may still be reading total_tasks of a pipeline that is destroyed under it, and
\* that is all: nobody is in Execute, Finalize or Finish, and what it reads was decided.
THEOREM LeavesAreDone ==
    ASSUME NoRecursiveCTEs
    PROVE  Spec => []LeavesWhenDone
  <1>1. Inv => LeavesWhenDone
    <2> SUFFICES ASSUME Inv, Top(Main).at = "left"
                 PROVE  LeavesWhenDone
      BY DEF LeavesWhenDone, At
    <2>1. Core /\ LeftInv
      BY DEF Inv
    <2>2. Main \in Threads /\ Top(Main).at \in BasePlaces
      BY DEF Threads, BasePlaces
    <2>3. stack[Main][1].at = "left"
      <3>1. Len(stack[Main]) = 1
        BY <2>1, <2>2, LoopPlace
      <3>2. Top(Main) = stack[Main][Len(stack[Main])]
        BY <2>1, <2>2, TopFacts
      <3> QED
        BY <3>1, <3>2
    <2>4. /\ finished = Pipelines /\ queue = <<>>
          /\ \A t \in Threads : Top(t).at \in TaskPlaces => Spent(Top(t)) /\ Top(t).at # "thrown"
      BY <2>1, <2>3, LeftIsDone
    <2>5. ASSUME NEW t \in Workers
          PROVE  /\ Top(t).at \in {"idle", "stopped", "compare", "recheck", "undefined"}
                 /\ Top(t).at \in {"compare", "recheck"} => Top(t).n # total_tasks[Top(t).pipeline]
      <3>1. t \in Threads /\ t # Main
        BY ExecutorAssumption DEF Threads
      <3>2. CASE Top(t).at \in TaskPlaces
        BY <2>4, <3>1, <3>2 DEF Spent
      <3>3. CASE Top(t).at \in BasePlaces
        <4>1. Top(t).at \in {"idle", "stopped"}
          BY <2>1, <3>1, <3>3, LoopPlace DEF BasePlaces
        <4> QED
          BY <4>1
      <3> QED
        BY <2>1, <3>1, <3>2, <3>3, LoopPlace
    <2> QED
      BY <2>4, <2>5 DEF Regular, LeavesWhenDone
  <1> QED
    BY <1>1, ExecutorInvariance, PTL
=============================================================================
