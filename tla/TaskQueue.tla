------------------------------ MODULE TaskQueue ------------------------------
(***************************************************************************)
(* The queue of tasks of contracts/TasksRunner.sol: which of the tasks a   *)
(* signed message flags are executed by a run, and where the next run      *)
(* starts.                                                                 *)
(*                                                                         *)
(* A run looks at the tasks in a circle, from lastTaskIndex on, and stops  *)
(* after maxTasksPerBatch executions.  Governance adds and removes tasks   *)
(* between runs; EnumerableSet fills the hole of a removed task with the   *)
(* last one, so indexes move.                                              *)
(***************************************************************************)
EXTENDS Integers, SequencesExt, FiniteSetsExt

CONSTANTS
    Tasks,                  \* addresses of task contracts
    BatchSizes              \* the values governance gives maxTasksPerBatch

\* With a batch of 0 no task is ever executed.
ASSUME BatchSizesAssumption == BatchSizes \subseteq Nat \ {0}

VARIABLES
    tasks,                  \* the values of the EnumerableSet
    maxTasksPerBatch,
    lastTaskIndex,
    waiting                 \* history: for each task, the runs in a row that
                            \* flagged it and did not execute it

queueVars == <<tasks, maxTasksPerBatch, lastTaskIndex, waiting>>

-----------------------------------------------------------------------------
\* The index of the task that a run looks at after p others.
Index(p) == (lastTaskIndex + p) % Len(tasks)

\* The positions on the way of a run whose task is flagged.
Flagged(flags) == {p \in 0..(Len(tasks) - 1) : Index(p) \in flags}

\* Of the first v positions, the ones executed.
Executed(flags, v) == {p \in Flagged(flags) : p < v}

\* The run ends after v positions: the first time that the batch is full, or
\* when all were looked at.
Ends(flags, v) ==
    /\ v = Len(tasks) \/ Cardinality(Executed(flags, v)) = maxTasksPerBatch
    /\ \A u \in 0..(v - 1) : Cardinality(Executed(flags, u)) < maxTasksPerBatch

\* The tasks executed, in order.
Batch(flags, v) ==
    LET order == SetToSortSeq(Executed(flags, v), <)
    IN  [k \in DOMAIN order |-> tasks[Index(order[k]) + 1]]

\* The flagged tasks that the run leaves for later.
LeftOut(flags, v) == {tasks[Index(p) + 1] : p \in Flagged(flags) \ Executed(flags, v)}

\* Faulty variant of NextIndex: every run starts at the first task.
NextIndexFirst(v) == 0

\* lastTaskIndex after the run.
NextIndex(v) == (lastTaskIndex + v) % Len(tasks)

\* The loop of _runTasks, of v turns.  With no tasks it divides by zero.
RunBatch(flags, v) ==
    /\ tasks # <<>>
    /\ Ends(flags, v)
    /\ lastTaskIndex' = NextIndex(v)
    /\ waiting' = [t \in Tasks |-> IF t \in LeftOut(flags, v) THEN waiting[t] + 1 ELSE 0]
    /\ UNCHANGED <<tasks, maxTasksPerBatch>>

-----------------------------------------------------------------------------
(***************************************************************************)
(* Governance.  The runs that a task waited are counted anew, since the    *)
(* order may be another.                                                   *)
(***************************************************************************)
Recounted == waiting' = [t \in Tasks |-> 0]

AddTask(t) ==
    /\ tasks' = IF Contains(tasks, t) THEN tasks ELSE Append(tasks, t)
    /\ Recounted
    /\ UNCHANGED <<maxTasksPerBatch, lastTaskIndex>>

\* EnumerableSet.remove
RemoveTask(t) ==
    /\ tasks' = IF Contains(tasks, t)
                THEN Front([tasks EXCEPT ![CHOOSE i \in DOMAIN tasks : tasks[i] = t] = Last(tasks)])
                ELSE tasks
    /\ Recounted
    /\ UNCHANGED <<maxTasksPerBatch, lastTaskIndex>>

SetMaxTasksPerBatch(n) ==
    /\ maxTasksPerBatch' = n
    /\ Recounted
    /\ UNCHANGED <<tasks, lastTaskIndex>>

QueueChange ==
    \/ \E t \in Tasks : AddTask(t) \/ RemoveTask(t)
    \/ \E n \in BatchSizes : SetMaxTasksPerBatch(n)

\* initialize adds the tasks it is given as addTask does.
QueueInit ==
    /\ tasks = <<>>
    /\ maxTasksPerBatch \in BatchSizes
    /\ lastTaskIndex = 0
    /\ waiting = [t \in Tasks |-> 0]

\* The queue by itself, whatever is signed.
QueueNext ==
    \/ QueueChange
    \/ \E flags \in SUBSET Nat, v \in 0..Len(tasks) : RunBatch(flags, v)

QueueSpec == QueueInit /\ [][QueueNext]_queueVars

-----------------------------------------------------------------------------
\* A task that is flagged run after run is executed: with n tasks it waits less
\* than n / maxTasksPerBatch runs, whatever else is flagged, wherever the
\* first of these runs started and however the list was changed before.
NoStarvation ==
    \A t \in Tasks : waiting[t] > 0 => waiting[t] * maxTasksPerBatch < Len(tasks)
=============================================================================
