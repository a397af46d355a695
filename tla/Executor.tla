------------------------------ MODULE Executor ------------------------------
(***************************************************************************)
(* Parallel execution of a query: the executor schedules the pipelines of  *)
(* a plan as tasks, the threads of the task scheduler and the thread of    *)
(* the query itself run them, and the last task of a pipeline finishes it  *)
(* and schedules the pipelines that depend on it                           *)
(* (src/src/parallel/executor.cpp, pipeline.cpp, task_scheduler.cpp; the   *)
(* tasks that finalize a hash aggregate,                                   *)
(* src/src/execution/operator/aggregate/physical_hash_aggregate.cpp, and   *)
(* the pipelines a recursive CTE runs again,                               *)
(* src/src/execution/operator/set/physical_recursive_cte.cpp).             *)
(*                                                                         *)
(* A thread is a stack of frames, the last one running.  A step ends where *)
(* a counter that other threads use is read or written, or the queue.      *)
(***************************************************************************)
EXTENDS Integers, Sequences, FiniteSets, FiniteSetsExt, SequencesExt

CONSTANTS
    Main,         \* the thread that runs the query
    Workers,      \* the threads of the task scheduler
    Pipelines,    \* names for pipelines, those of recursive CTEs included
    Plans,        \* the plans that are run, see PlanType
    Faults        \* half_finalized: Finalize throws after it raised total_tasks

\* deps: the pipelines whose sinks a pipeline reads.  reruns: the pipelines that a
\* recursive CTE in a pipeline runs again, in the order of cte.pipelines.  rounds:
\* how often.  workers: the threads besides Main.
PlanType == [deps : [Pipelines -> SUBSET Pipelines], reruns : [Pipelines -> Seq(Pipelines)],
             rounds : Nat, workers : SUBSET Workers]

ASSUME ExecutorAssumption ==
    /\ Main \notin Workers
    /\ IsFiniteSet(Workers) /\ IsFiniteSet(Pipelines)
    /\ \A plan \in Plans :
         /\ plan.deps \in [Pipelines -> SUBSET Pipelines]
         /\ plan.rounds \in Nat
         /\ plan.workers \subseteq Workers
         /\ \A p \in Pipelines : \A i \in DOMAIN plan.reruns[p] : plan.reruns[p][i] \in Pipelines
    /\ Faults \subseteq {"half_finalized"}

Threads == {Main} \cup Workers

VARIABLES
    plan,
    queue,                  \* tasks of the executor's producer token
    stack,                  \* thread -> its frames
    finished_tasks,
    total_tasks,
    finished_dependencies,
    finished,               \* the pipelines that are finished
    completed_pipelines,
    interrupted,
    exceptions,             \* whether an error was pushed
    rounds                  \* rounds left of each pipeline's recursive CTE

counters == <<finished_tasks, total_tasks>>
vars == <<plan, queue, stack, counters, finished_dependencies, finished,
          completed_pipelines, interrupted, exceptions, rounds>>

\* Pipelines of a recursive CTE are kept by it, without dependencies or parents.
Recursive == UNION {ToSet(plan.reruns[p]) : p \in Pipelines}
Regular == Pipelines \ Recursive
NumberOfThreads == Cardinality(plan.workers) + 1

(***************************************************************************)
(* Frames.  at is where the code is:                                       *)
(*   idle      a worker waits for a task; stopped, it was told to leave    *)
(*   init      Initialize schedules the pipelines of left                  *)
(*   head, drain   its loop, and the inner loop that runs tasks            *)
(*   left      Initialize is through; the pipelines are destroyed          *)
(*   push      n tasks are yet to be enqueued                              *)
(*   execute, count, compare, finalize, recheck, finish, complete          *)
(*             a task of a pipeline; n is current_finished, left the       *)
(*             parents to be told                                          *)
(*   thrown    the task threw and nobody caught it: Initialize throws, or  *)
(*             the process ends if the thread is a worker                  *)
(*   undefined the thread read a pipeline that is destroyed                *)
(*   round, rerun, check  a recursive CTE begins a round, runs tasks, and  *)
(*             looks whether its pipelines are finished                    *)
(***************************************************************************)
Frame(at, p, kind, n, left) ==
    [at |-> at, pipeline |-> p, kind |-> kind, n |-> n, left |-> left]
NoPipeline == "none"
Base(at, left) == Frame(at, NoPipeline, "none", 0, left)

Top(t) == Last(stack[t])
At(t, at) == Top(t).at = at
Goto(t, at) == stack' = [stack EXCEPT ![t] = Append(Front(@), [Last(@) EXCEPT !.at = at])]
\* The thread goes on at frame, after the frames of calls.
Become(t, frame, calls) == stack' = [stack EXCEPT ![t] = Append(Front(@), frame) \o calls]
Return(t) == stack' = [stack EXCEPT ![t] = Front(@)]

Task(p, kind) == [pipeline |-> p, kind |-> kind]

Init ==
    /\ plan \in Plans
    /\ queue = <<>>
    /\ stack = [t \in Threads |->
                  IF t = Main THEN <<Base("init", Regular)>>
                  ELSE IF t \in plan.workers THEN <<Base("idle", {})>>
                  ELSE <<Base("stopped", {})>>]
    /\ finished_tasks = [p \in Pipelines |-> 0]
    /\ total_tasks = [p \in Pipelines |-> 0]
    /\ finished_dependencies = [p \in Pipelines |-> 0]
    /\ finished = {}
    /\ completed_pipelines = 0
    /\ interrupted = FALSE
    /\ exceptions = FALSE
    /\ rounds = [p \in Pipelines |-> IF plan.reruns[p] = <<>> THEN 0 ELSE plan.rounds]

(***************************************************************************)
(* Scheduling                                                              *)
(***************************************************************************)
\* A pipeline is run by one task, or by one for each of up to all the threads.
TaskCounts == 1 .. NumberOfThreads

\* Thread t goes on at frame after it scheduled p.
Schedule(t, frame, p) ==
    \E n \in TaskCounts :
      /\ total_tasks' = [total_tasks EXCEPT ![p] = n]
      /\ Become(t, frame, <<Frame("push", p, "task", n, {})>>)

\* Enqueue; one task after the other.
PushTask(t) ==
    /\ At(t, "push")
    /\ queue' = Append(queue, Task(Top(t).pipeline, Top(t).kind))
    /\ IF Top(t).n = 1 THEN Return(t) ELSE Become(t, [Top(t) EXCEPT !.n = @ - 1], <<>>)
    /\ UNCHANGED <<plan, counters, finished_dependencies, finished, completed_pipelines,
                   interrupted, exceptions, rounds>>

\* Mutant: a pipeline whose dependencies are complete by now has none.
HasDependencies_Open(p) == finished_dependencies[p] < Cardinality(plan.deps[p])

HasDependencies(p) == plan.deps[p] # {}

\* Initialize schedules the pipelines without dependencies, while workers run and
\* finish those it has scheduled.
ScheduleInitial ==
    /\ At(Main, "init")
    /\ \/ /\ Top(Main).left = {}
          /\ Goto(Main, "head")
          /\ UNCHANGED total_tasks
       \/ \E p \in Top(Main).left :
            LET rest == [Top(Main) EXCEPT !.left = @ \ {p}]
            IN  IF HasDependencies(p) THEN Become(Main, rest, <<>>) /\ UNCHANGED total_tasks
                                      ELSE Schedule(Main, rest, p)
    /\ UNCHANGED <<plan, queue, finished_tasks, finished_dependencies, finished,
                   completed_pipelines, interrupted, exceptions, rounds>>

(***************************************************************************)
(* Running tasks                                                           *)
(***************************************************************************)
\* The queue gives the tasks of one producer in order.
TakeTask(t) ==
    /\ Top(t).at \in {"idle", "drain", "rerun"}
    /\ queue # <<>>
    /\ queue' = Tail(queue)
    /\ Become(t, Top(t), <<Frame("execute", Head(queue).pipeline, Head(queue).kind, 0, {})>>)
    /\ UNCHANGED <<plan, counters, finished_dependencies, finished, completed_pipelines,
                   interrupted, exceptions, rounds>>

\* The head of the loop of Initialize.
CheckCompleted ==
    /\ At(Main, "head")
    /\ completed_pipelines < Cardinality(Regular)
    /\ Goto(Main, "drain")
    /\ UNCHANGED <<plan, queue, counters, finished_dependencies, finished,
                   completed_pipelines, interrupted, exceptions, rounds>>

\* No task is left for Main, or for a thread in a recursive CTE.
QueueEmpty(t) ==
    /\ Top(t).at \in {"drain", "rerun"}
    /\ queue = <<>>
    /\ Goto(t, IF At(t, "drain") THEN "head" ELSE "check")
    /\ UNCHANGED <<plan, queue, counters, finished_dependencies, finished,
                   completed_pipelines, interrupted, exceptions, rounds>>

\* Initialize destroys the pipelines and returns, or throws the first error.
Leave ==
    /\ At(Main, "head")
    /\ completed_pipelines >= Cardinality(Regular)
    /\ Goto(Main, "left")
    /\ UNCHANGED <<plan, queue, counters, finished_dependencies, finished,
                   completed_pipelines, interrupted, exceptions, rounds>>

PushError == interrupted' = TRUE /\ exceptions' = TRUE

\* Mutant: a task that failed is not counted.
AfterError_Return(t) == Return(t)

AfterError(t) == Goto(t, "count")

\* Pipeline::Execute: nothing if the query was interrupted, else the data of the
\* pipeline, or an error on the way.  A recursive CTE runs its pipelines again.
\* Finalizing a partition of a hash aggregate does not look at the interrupt.
Execute(t) ==
    /\ At(t, "execute")
    /\ \/ /\ ~interrupted /\ Top(t).kind = "task" /\ rounds[Top(t).pipeline] > 0
          /\ rounds' = [rounds EXCEPT ![Top(t).pipeline] = @ - 1]
          /\ Become(t, Top(t), <<Frame("round", Top(t).pipeline, "none", 1, {})>>)
          /\ UNCHANGED <<interrupted, exceptions>>
       \/ /\ interrupted \/ Top(t).kind = "finalize" \/ rounds[Top(t).pipeline] = 0
          /\ Goto(t, "count")
          /\ UNCHANGED <<interrupted, exceptions, rounds>>
       \/ /\ Top(t).kind = "task"
          /\ PushError
          /\ AfterError(t)
          /\ UNCHANGED rounds
    /\ UNCHANGED <<plan, queue, counters, finished_dependencies, finished,
                   completed_pipelines>>

\* FinalizeTask::Execute has no handler: what it throws reaches the Pipeline::Execute of
\* the task whose recursive CTE took it from the queue, or else leaves the loop of
\* Initialize or the function of the worker.
FinalizeThrows(t) ==
    LET reruns == {i \in DOMAIN stack[t] : stack[t][i].at = "rerun"}
    IN  /\ At(t, "execute")
        /\ Top(t).kind = "finalize"
        /\ IF reruns = {}
             THEN Goto(t, "thrown") /\ UNCHANGED <<interrupted, exceptions>>
             ELSE /\ stack' = [stack EXCEPT ![t] =
                                 Append(SubSeq(@, 1, Max(reruns) - 2),
                                        [@[Max(reruns) - 1] EXCEPT !.at = "count"])]
                  /\ PushError
        /\ UNCHANGED <<plan, queue, counters, finished_dependencies, finished,
                       completed_pipelines, rounds>>

\* The user interrupts the query.
Interrupt ==
    /\ ~At(Main, "left")
    /\ ~interrupted
    /\ interrupted' = TRUE
    /\ UNCHANGED <<plan, queue, stack, counters, finished_dependencies, finished,
                   completed_pipelines, exceptions, rounds>>

\* SET threads: a worker leaves between tasks.
StopWorker(t) ==
    /\ At(t, "idle")
    /\ Goto(t, "stopped")
    /\ UNCHANGED <<plan, queue, counters, finished_dependencies, finished,
                   completed_pipelines, interrupted, exceptions, rounds>>

(***************************************************************************)
(* Finishing                                                               *)
(***************************************************************************)
\* The last task of a pipeline is told by the counter it raised.  A task that
\* finalizes a partition finishes the pipeline itself, under the lock of the state.
CountTask(t) ==
    LET p == Top(t).pipeline
        current_finished == finished_tasks[p] + 1
    IN  /\ At(t, "count")
        /\ finished_tasks' = [finished_tasks EXCEPT ![p] = current_finished]
        /\ \/ /\ Top(t).kind = "task"
              /\ Become(t, [Top(t) EXCEPT !.at = "compare", !.n = current_finished], <<>>)
           \/ /\ Top(t).kind = "finalize" /\ current_finished = total_tasks[p]
              /\ Goto(t, "finish")
           \/ /\ Top(t).kind = "finalize" /\ current_finished # total_tasks[p]
              /\ Return(t)
        /\ UNCHANGED <<plan, queue, total_tasks, finished_dependencies, finished,
                       completed_pipelines, interrupted, exceptions, rounds>>

CompareTotal(t) ==
    /\ At(t, "compare")
    /\ IF Top(t).n = total_tasks[Top(t).pipeline] THEN Goto(t, "finalize") ELSE Return(t)
    /\ UNCHANGED <<plan, queue, counters, finished_dependencies, finished,
                   completed_pipelines, interrupted, exceptions, rounds>>

\* RadixPartitionInfo: the largest power of two up to the number of threads.
Partitions == {n \in {2, 4, 8, 16, 32, 64, 128, 256} :
                 n <= NumberOfThreads /\ (NumberOfThreads < 2 * n \/ n = 256)}

\* The sink's Finalize: nothing that others see; or a hash aggregate adds one task for
\* each of its partitions; or an error.  A thread that finds the sink's tables
\* cannot be allocated throws with total_tasks raised.
Finalize(t) ==
    LET p == Top(t).pipeline
        recheck == [Top(t) EXCEPT !.at = "recheck"]
    IN  /\ At(t, "finalize")
        /\ \/ /\ Become(t, recheck, <<>>)
              /\ UNCHANGED <<total_tasks, interrupted, exceptions>>
           \/ \E n \in Partitions, pushed \in {1} \cup (IF "half_finalized" \in Faults THEN {0} ELSE {}) :
                /\ total_tasks' = [total_tasks EXCEPT ![p] = @ + n]
                /\ IF pushed = 1
                     THEN /\ Become(t, recheck, <<Frame("push", p, "finalize", n, {})>>)
                          /\ UNCHANGED <<interrupted, exceptions>>
                     ELSE Become(t, recheck, <<>>) /\ PushError
           \/ /\ PushError
              /\ Become(t, recheck, <<>>)
              /\ UNCHANGED total_tasks
        /\ UNCHANGED <<plan, queue, finished_tasks, finished_dependencies, finished,
                       completed_pipelines, rounds>>

\* Mutant: total_tasks is not looked at again.
IsDone_Always(t) == TRUE

IsDone(t) == Top(t).n = total_tasks[Top(t).pipeline]

\* Without tasks added by Finalize the pipeline is finished.
RecheckTotal(t) ==
    /\ At(t, "recheck")
    /\ IF IsDone(t) THEN Goto(t, "finish") ELSE Return(t)
    /\ UNCHANGED <<plan, queue, counters, finished_dependencies, finished,
                   completed_pipelines, interrupted, exceptions, rounds>>

\* A thread that compares after Initialize destroyed the pipelines may find anything in
\* total_tasks: what was there (CompareTotal, RecheckTotal), or what it counted, and then
\* it goes on with an object that is gone.
ReadDestroyed(t) ==
    /\ Top(t).at \in {"compare", "recheck"}
    /\ At(Main, "left")
    /\ Goto(t, "undefined")
    /\ UNCHANGED <<plan, queue, counters, finished_dependencies, finished,
                   completed_pipelines, interrupted, exceptions, rounds>>

Parents(p) == {q \in Regular : p \in plan.deps[q] /\ p \in Regular}

Finish(t) ==
    LET p == Top(t).pipeline
    IN  /\ At(t, "finish")
        /\ finished' = finished \cup {p}
        /\ Become(t, [Top(t) EXCEPT !.at = "complete", !.left = Parents(p)], <<>>)
        /\ UNCHANGED <<plan, queue, counters, finished_dependencies, completed_pipelines,
                       interrupted, exceptions, rounds>>

\* Mutant: the first dependency is enough.
IsReady_First(q, n) == n = 1

IsReady(q, n) == n = Cardinality(plan.deps[q])

\* The last dependency of a pipeline schedules it.
CompleteDependency(t) ==
    /\ At(t, "complete")
    /\ \E q \in Top(t).left :
         LET rest == [Top(t) EXCEPT !.left = @ \ {q}]
             current_finished == finished_dependencies[q] + 1
         IN  /\ finished_dependencies' = [finished_dependencies EXCEPT ![q] = current_finished]
             /\ IF IsReady(q, current_finished)
                  THEN Schedule(t, rest, q)
                  ELSE Become(t, rest, <<>>) /\ UNCHANGED total_tasks
    /\ UNCHANGED <<plan, queue, finished_tasks, finished, completed_pipelines, interrupted,
                   exceptions, rounds>>

CompletePipeline(t) ==
    /\ At(t, "complete")
    /\ Top(t).left = {}
    /\ completed_pipelines' = completed_pipelines + 1
    /\ Return(t)
    /\ UNCHANGED <<plan, queue, counters, finished_dependencies, finished, interrupted,
                   exceptions, rounds>>

(***************************************************************************)
(* Recursive CTEs                                                          *)
(***************************************************************************)

ResetTasks(p) == finished_tasks' = [finished_tasks EXCEPT ![p] = 0]

\* A round resets and schedules the pipelines one after the other, without waiting
\* for one before it schedules the next.
RerunPipeline(t) ==
    LET reruns == plan.reruns[Top(t).pipeline]
    IN  /\ At(t, "round")
        /\ \/ /\ Top(t).n <= Len(reruns)
              /\ ResetTasks(reruns[Top(t).n])
              /\ finished' = finished \ {reruns[Top(t).n]}
              /\ Schedule(t, [Top(t) EXCEPT !.n = @ + 1], reruns[Top(t).n])
           \/ /\ Top(t).n > Len(reruns)
              /\ Goto(t, "rerun")
              /\ UNCHANGED <<counters, finished>>
        /\ UNCHANGED <<plan, queue, finished_dependencies, completed_pipelines, interrupted,
                       exceptions, rounds>>

\* The round is over when all of them are finished.
CheckFinished(t) ==
    /\ At(t, "check")
    /\ IF ToSet(plan.reruns[Top(t).pipeline]) \subseteq finished
         THEN Return(t)
         ELSE Goto(t, "rerun")
    /\ UNCHANGED <<plan, queue, counters, finished_dependencies, finished,
                   completed_pipelines, interrupted, exceptions, rounds>>

(***************************************************************************)
(* The specification                                                       *)
(***************************************************************************)
Step(t) ==
    \/ PushTask(t) \/ TakeTask(t) \/ QueueEmpty(t) \/ Execute(t) \/ FinalizeThrows(t)
    \/ CountTask(t) \/ CompareTotal(t) \/ Finalize(t) \/ RecheckTotal(t) \/ ReadDestroyed(t) \/ Finish(t)
    \/ CompleteDependency(t) \/ CompletePipeline(t) \/ RerunPipeline(t) \/ CheckFinished(t)

Next ==
    \/ ScheduleInitial \/ CheckCompleted \/ Leave \/ Interrupt
    \/ \E t \in Threads : Step(t) \/ StopWorker(t)

Spec == Init /\ [][Next]_vars

\* The operating system runs every thread; the user need not interrupt, and workers
\* need not be stopped.
Fairness ==
    /\ WF_vars(ScheduleInitial \/ CheckCompleted \/ Leave)
    /\ \A t \in Threads : WF_vars(Step(t))
FairSpec == Spec /\ Fairness

(***************************************************************************)
(* Properties                                                              *)
(***************************************************************************)
Frames(t) == ToSet(stack[t])

TypeOK ==
    /\ plan \in Plans
    /\ \A i \in DOMAIN queue : queue[i] \in [pipeline : Pipelines, kind : {"task", "finalize"}]
    /\ \A t \in Threads : stack[t] # <<>>
    /\ finished_tasks \in [Pipelines -> Nat]
    /\ total_tasks \in [Pipelines -> Nat]
    /\ \A p \in Pipelines : finished_tasks[p] <= total_tasks[p]
    /\ finished_dependencies \in [Pipelines -> Nat]
    /\ \A p \in Pipelines : finished_dependencies[p] <= Cardinality(plan.deps[p])
    /\ finished \subseteq Pipelines
    /\ completed_pipelines \in Nat
    /\ interrupted \in BOOLEAN /\ exceptions \in BOOLEAN
    /\ rounds \in [Pipelines -> Nat]

\* A task reads the sinks of the pipelines it depends on only once they are finished,
\* those finalized by tasks of their own included.
InputComplete ==
    \A t \in Threads : \A frame \in Frames(t) :
      (frame.at = "execute" /\ frame.kind = "task") => plan.deps[frame.pipeline] \subseteq finished

\* The tasks of p that a frame stands for: those it is yet to enqueue, or the one it runs.
TasksIn(frame, p) ==
    IF frame.pipeline # p THEN 0
    ELSE IF frame.at = "push" THEN frame.n
    ELSE IF frame.at \in {"execute", "count", "thrown"} THEN 1 ELSE 0

Queued(tasks, p) == {i \in DOMAIN tasks : tasks[i].pipeline = p}
\* One element for each of the tasks that the frames of the threads stand for.
Held(frames, p) ==
    UNION {UNION {{<<t, i, k>> : k \in 1 .. TasksIn(frames[t][i], p)} : i \in DOMAIN frames[t]} :
             t \in Threads}
Outstanding(p) == Cardinality(Queued(queue, p)) + Cardinality(Held(stack, p))

\* The tasks that were announced for a pipeline and are not counted yet are in the queue,
\* about to be enqueued, or running.  None is lost, run twice or counted twice
\* (Pipeline::Schedule, FinishTask, the tasks of a hash aggregate's Finalize).
TasksAccounted ==
    \A p \in Pipelines : total_tasks[p] = finished_tasks[p] + Outstanding(p)

\* When Initialize is through every pipeline is finished and no task is left in the queue.
\* The one thing that a worker may still be in the middle of is the comparison of what it
\* counted with total_tasks (pipeline.cpp:119, 127), and that was decided before the
\* pipelines were destroyed: the thread would not go on to Finalize or Finish.
LeavesWhenDone ==
    At(Main, "left") =>
      /\ Regular \subseteq finished
      /\ queue = <<>>
      /\ \A t \in Workers :
           /\ Top(t).at \in {"idle", "stopped", "compare", "recheck", "undefined"}
           /\ Top(t).at \in {"compare", "recheck"} => Top(t).n # total_tasks[Top(t).pipeline]

\* Initialize executes tasks "until all pipelines are completed" (executor.cpp:45), and
\* nobody is in a pipeline that it then destroys.
NoTaskAfterLeaving == At(Main, "left") => \A t \in Workers : Top(t).at \in {"idle", "stopped"}

\* The query ends, also after errors, an interrupt, or with its workers stopped: Initialize
\* returns, or a finalize task throws what nobody catches.
QueryEnds == <>(At(Main, "left") \/ \E t \in Threads : At(t, "thrown"))

=============================================================================
