-------------------------- MODULE TasksRunner_proofs --------------------------
(***************************************************************************)
(* Theorems about TaskQueue and TasksRunner, for any number of tasks and   *)
(* any batch, any owners, fees and prices.                                 *)
(***************************************************************************)
EXTENDS TasksRunner, RoundManager_proofs, SequenceTheorems

-----------------------------------------------------------------------------
(***************************************************************************)
(* The queue: no flagged task starves.                                     *)
(*                                                                         *)
(* NoStarvation is not inductive: it says nothing of where the next run    *)
(* starts.  Turn does: a task that has waited w runs is so close to the    *)
(* start of the next run that its place and the w batches before it fit in *)
(* one turn of the circle.  A run that leaves it out executes a full batch *)
(* before its place, so it comes closer by a batch at least.               *)
(***************************************************************************)
QueueTypeOK ==
    /\ tasks \in Seq(Tasks)
    /\ maxTasksPerBatch \in Nat \ {0}
    /\ lastTaskIndex \in Nat
    /\ waiting \in [Tasks -> Nat]

NoTwice == \A i, j \in 1..Len(tasks) : tasks[i] = tasks[j] => i = j

\* The place of the task that the next run looks at after p others.
TaskAt(p) == tasks[Index(p) + 1]

Turn ==
    \A p \in 0..(Len(tasks) - 1) :
        waiting[TaskAt(p)] > 0 => waiting[TaskAt(p)] * maxTasksPerBatch + p < Len(tasks)

WaitsInQueue ==
    \A t \in Tasks : waiting[t] > 0 => \E p \in 0..(Len(tasks) - 1) : t = TaskAt(p)

QueueInv == QueueTypeOK /\ NoTwice /\ Turn /\ WaitsInQueue

-----------------------------------------------------------------------------
(***************************************************************************)
(* The circle.                                                             *)
(***************************************************************************)
LEMMA IndexType ==
  ASSUME QueueTypeOK, NEW p \in 0..(Len(tasks) - 1)
  PROVE  Index(p) \in 0..(Len(tasks) - 1)
<1>1. Len(tasks) \in Nat \ {0} /\ lastTaskIndex + p \in Nat
  BY LenProperties DEF QueueTypeOK
<1> QED
  BY <1>1, QuotientAndRest DEF Index

LEMMA TaskAtType ==
  ASSUME QueueTypeOK, NEW p \in 0..(Len(tasks) - 1)
  PROVE  TaskAt(p) \in Tasks
<1>1. Len(tasks) \in Nat
  BY LenProperties DEF QueueTypeOK
<1>2. Index(p) + 1 \in 1..Len(tasks)
  BY <1>1, IndexType
<1> QED
  BY <1>2, ElementOfSeq DEF QueueTypeOK, TaskAt

LEMMA OnePlace ==
  ASSUME QueueTypeOK, NoTwice, NEW p \in 0..(Len(tasks) - 1), NEW q \in 0..(Len(tasks) - 1),
         TaskAt(p) = TaskAt(q)
  PROVE  p = q
<1>1. Len(tasks) \in Nat \ {0}
  BY LenProperties DEF QueueTypeOK
<1>2. Index(p) \in 0..(Len(tasks) - 1) /\ Index(q) \in 0..(Len(tasks) - 1)
  BY IndexType
<1>3. Index(p) = Index(q)
  <2> DEFINE a == Index(p)
             b == Index(q)
  <2>1. a \in 0..(Len(tasks) - 1) /\ b \in 0..(Len(tasks) - 1) /\ tasks[a + 1] = tasks[b + 1]
    BY <1>2 DEF TaskAt
  <2> HIDE DEF a, b
  <2>2. a + 1 \in 1..Len(tasks) /\ b + 1 \in 1..Len(tasks)
    BY <1>1, <2>1
  <2>3. a + 1 = b + 1
    BY <2>1, <2>2 DEF NoTwice
  <2>4. a = b
    BY <1>1, <2>1, <2>3
  <2> QED
    BY <2>4 DEF a, b
<1> QED
  BY <1>1, <1>3, RemainderInjective DEF Index, QueueTypeOK

\* What the next run looks at after p others, when a run ended after v.
LEMMA NextPlace ==
  ASSUME QueueTypeOK, NEW v \in 0..Len(tasks), NEW p \in 0..(Len(tasks) - 1),
         tasks' = tasks, lastTaskIndex' = NextIndex(v)
  PROVE  /\ v + p < Len(tasks) => TaskAt(p)' = TaskAt(v + p)
         /\ v + p >= Len(tasks) => TaskAt(p)' = TaskAt(v + p - Len(tasks))
<1> DEFINE n == Len(tasks)
<1>1. n \in Nat \ {0} /\ lastTaskIndex \in Nat
  BY LenProperties DEF QueueTypeOK
<1>2. Index(p)' = (((lastTaskIndex + v) % n) + p) % n
  BY DEF Index, NextIndex
<1> HIDE DEF n
<1>3. lastTaskIndex + v \in Nat /\ p \in Nat /\ v \in Nat
  BY <1>1 DEF n
<1>4. Index(p)' = ((lastTaskIndex + v) + p) % n
  BY <1>1, <1>2, <1>3, RemainderShift
<1>5. ASSUME v + p < n
      PROVE  Index(p)' = Index(v + p)
  <2>1. (lastTaskIndex + v) + p = lastTaskIndex + (v + p)
    BY <1>1, <1>3
  <2> QED
    BY <1>4, <2>1 DEF Index, n
<1>6. ASSUME v + p >= n
      PROVE  Index(p)' = Index(v + p - n)
  <2> DEFINE a == lastTaskIndex + (v + p - n)
  <2>1. (lastTaskIndex + v) + p = a + n /\ a \in Nat
    BY <1>1, <1>3, <1>6
  <2>2. (a + n) % n = a % n
    BY <1>1, <2>1, RemainderTurn
  <2> QED
    BY <1>4, <2>1, <2>2 DEF Index, n
<1> QED
  BY <1>5, <1>6 DEF TaskAt, n

-----------------------------------------------------------------------------
(***************************************************************************)
(* Runs.                                                                   *)
(***************************************************************************)
\* A run that leaves something out has looked at a batch of tasks or more.
LEMMA FullBatch ==
  ASSUME QueueTypeOK, NEW flags, NEW v \in 0..Len(tasks), Ends(flags, v),
         NEW p \in Flagged(flags) \ Executed(flags, v)
  PROVE  p \in v..(Len(tasks) - 1) /\ maxTasksPerBatch <= v
<1>1. Len(tasks) \in Nat /\ v \in Nat
  BY LenProperties DEF QueueTypeOK
<1>2. p \in v..(Len(tasks) - 1)
  BY <1>1 DEF Flagged, Executed
<1>3. Cardinality(Executed(flags, v)) = maxTasksPerBatch
  BY <1>1, <1>2 DEF Ends
<1>4. Executed(flags, v) \subseteq 0..(v - 1)
  BY <1>1 DEF Executed, Flagged
<1>5. IsFiniteSet(0..(v - 1)) /\ Cardinality(0..(v - 1)) = v
  <2> DEFINE b == v - 1
  <2>1. b \in Int /\ (IF 0 > b THEN 0 ELSE b - 0 + 1) = v
    BY <1>1
  <2> HIDE DEF b
  <2>2. IsFiniteSet(0..b) /\ Cardinality(0..b) = v
    BY <2>1, FS_Interval
  <2> QED
    BY <2>2 DEF b
<1>6. Cardinality(Executed(flags, v)) <= v
  BY <1>4, <1>5, FS_Subset
<1> QED
  BY <1>2, <1>3, <1>6

\* The bound of a task that was left out once more.
LEMMA OneMoreRun ==
  ASSUME NEW w \in Nat, NEW m \in Nat, NEW v \in Nat, NEW p \in Nat, NEW n \in Nat,
         m <= v, v + p < n, w > 0 => w * m + (v + p) < n
  PROVE  (w + 1) * m + p < n
<1>1. (w + 1) * m = w * m + m /\ w * m \in Nat
  OBVIOUS
<1>2. CASE w = 0
  BY <1>1, <1>2
<1>3. CASE w > 0
  BY <1>1, <1>3
<1> QED
  BY <1>2, <1>3

LEMMA RunKeepsQueueInv ==
  ASSUME QueueInv, NEW flags, NEW v \in 0..Len(tasks), RunBatch(flags, v)
  PROVE  QueueInv'
<1> DEFINE n == Len(tasks)
<1> USE DEF QueueInv
<1>1. n \in Nat \ {0} /\ v \in Nat /\ lastTaskIndex + v \in Nat
  BY LenProperties DEF QueueTypeOK, RunBatch
<1>2. tasks' = tasks /\ maxTasksPerBatch' = maxTasksPerBatch /\ lastTaskIndex' = NextIndex(v)
  BY DEF RunBatch
<1>3. \A t \in Tasks : waiting'[t] = IF t \in LeftOut(flags, v) THEN waiting[t] + 1 ELSE 0
  BY DEF RunBatch
<1>4. QueueTypeOK'
  <2>1. (lastTaskIndex + v) % n \in 0..(n - 1)
    BY <1>1, QuotientAndRest
  <2>2. lastTaskIndex' \in Nat
    BY <1>1, <1>2, <2>1 DEF NextIndex
  <2> QED
    BY <2>2, <1>2 DEF RunBatch, QueueTypeOK
<1>5. NoTwice'
  BY <1>2 DEF NoTwice
<1>6. ASSUME NEW t \in Tasks, waiting'[t] > 0
      PROVE  /\ maxTasksPerBatch <= v
             /\ waiting'[t] = waiting[t] + 1
             /\ \E p \in v..(n - 1) : t = TaskAt(p)
  <2>1. t \in LeftOut(flags, v)
    BY <1>3, <1>6
  <2>2. PICK p \in Flagged(flags) \ Executed(flags, v) : t = TaskAt(p)
    BY <2>1 DEF LeftOut, TaskAt
  <2>3. p \in v..(n - 1) /\ maxTasksPerBatch <= v
    BY <2>2, FullBatch DEF RunBatch
  <2> QED
    BY <1>3, <2>1, <2>2, <2>3
<1>7. Turn'
  <2> SUFFICES ASSUME NEW p \in 0..(n - 1), waiting'[TaskAt(p)'] > 0
               PROVE  waiting'[TaskAt(p)'] * maxTasksPerBatch + p < n
    BY <1>2 DEF Turn
  <2> DEFINE t == TaskAt(p)'
  <2>1. t \in Tasks
    <3>1. CASE v + p < n
      BY <1>1, <1>2, <3>1, NextPlace, TaskAtType
    <3>2. CASE v + p >= n
      <4>1. v + p - n \in 0..(n - 1)
        BY <1>1, <3>2
      <4> QED
        BY <1>2, <3>2, <4>1, NextPlace, TaskAtType
    <3> QED
      BY <1>1, <3>1, <3>2
  <2>2. /\ maxTasksPerBatch <= v
        /\ waiting'[t] = waiting[t] + 1
        /\ \E q \in v..(n - 1) : t = TaskAt(q)
    BY <1>6, <2>1
  <2>3. PICK q \in v..(n - 1) : t = TaskAt(q)
    BY <2>2
  <2>4. v + p < n
    <3> SUFFICES ASSUME v + p >= n PROVE FALSE
      BY <1>1
    <3>1. t = TaskAt(v + p - n)
      BY <1>2, NextPlace
    <3>2. v + p - n \in 0..(n - 1) /\ q \in 0..(n - 1) /\ v + p - n < v
      BY <1>1
    <3>3. v + p - n = q
      BY <2>3, <3>1, <3>2, OnePlace
    <3> QED
      BY <1>1, <3>2, <3>3
  <2>5. t = TaskAt(v + p)
    BY <1>2, <2>4, NextPlace
  <2>6. waiting[t] > 0 => waiting[t] * maxTasksPerBatch + (v + p) < n
    BY <1>1, <2>4, <2>5 DEF Turn
  <2>7. waiting[t] \in Nat /\ maxTasksPerBatch \in Nat
    BY <2>1 DEF QueueTypeOK
  <2>8. waiting'[TaskAt(p)'] = waiting[t] + 1
    BY <2>2
  <2> HIDE DEF t
  <2>9. (waiting[t] + 1) * maxTasksPerBatch + p < n
    <3> DEFINE w == waiting[t]
    <3>1. w \in Nat /\ maxTasksPerBatch \in Nat /\ v \in Nat /\ p \in Nat /\ n \in Nat
      BY <1>1, <2>7
    <3>2. maxTasksPerBatch <= v /\ v + p < n /\ (w > 0 => w * maxTasksPerBatch + (v + p) < n)
      BY <2>2, <2>4, <2>6
    <3> HIDE DEF w, n
    <3>3. (w + 1) * maxTasksPerBatch + p < n
      BY <3>1, <3>2, OneMoreRun
    <3> QED
      BY <3>3 DEF w
  <2> QED
    BY <2>8, <2>9
<1>8. WaitsInQueue'
  <2> SUFFICES ASSUME NEW t \in Tasks, waiting'[t] > 0
               PROVE  \E p \in 0..(n - 1) : t = TaskAt(p)'
    BY <1>2 DEF WaitsInQueue
  <2>1. PICK q \in v..(n - 1) : t = TaskAt(q)
    BY <1>6
  <2>2. q - v \in 0..(n - 1) /\ v + (q - v) = q
    BY <1>1
  <2>3. TaskAt(q - v)' = TaskAt(q)
    BY <1>1, <1>2, <2>2, NextPlace
  <2> QED
    BY <2>1, <2>2, <2>3
<1> QED
  BY <1>4, <1>5, <1>7, <1>8

-----------------------------------------------------------------------------
(***************************************************************************)
(* Governance.                                                             *)
(***************************************************************************)
LEMMA RecountedInv ==
  ASSUME QueueTypeOK', NoTwice', Recounted
  PROVE  QueueInv'
<1>1. ASSUME NEW p \in 0..(Len(tasks') - 1)
      PROVE  TaskAt(p)' \in Tasks
  <2>1. tasks' \in Seq(Tasks) /\ lastTaskIndex' \in Nat
    BY DEF QueueTypeOK
  <2>2. Len(tasks') \in Nat \ {0} /\ p \in Nat
    <3>1. Len(tasks') \in Nat
      BY <2>1, LenProperties
    <3>2. p \in Nat /\ p < Len(tasks')
      BY <1>1, <3>1
    <3> QED
      BY <3>1, <3>2
  <2> DEFINE at == lastTaskIndex'
  <2>3. at \in Nat
    BY <2>1
  <2> HIDE DEF at
  <2>4. at + p \in Nat
    BY <2>2, <2>3
  <2> DEFINE i == Index(p)'
  <2>5. i \in 0..(Len(tasks') - 1)
    BY <2>2, <2>4, QuotientAndRest DEF Index, at
  <2> HIDE DEF i
  <2>6. i + 1 \in 1..Len(tasks')
    BY <2>2, <2>5
  <2>7. tasks'[i + 1] \in Tasks
    BY <2>6, ElementOfSeq DEF QueueTypeOK
  <2> QED
    BY <2>7 DEF TaskAt, i
<1>2. Turn'
  BY <1>1 DEF Turn, Recounted
<1>3. WaitsInQueue'
  BY DEF WaitsInQueue, Recounted
<1> QED
  BY <1>2, <1>3 DEF QueueInv

LEMMA AddKeepsQueueInv ==
  ASSUME QueueInv, NEW t \in Tasks, AddTask(t)
  PROVE  QueueInv'
<1> USE DEF QueueInv
<1>1. waiting' \in [Tasks -> Nat]
  BY DEF AddTask, Recounted
<1>2. CASE Contains(tasks, t)
  <2>1. QueueTypeOK' /\ NoTwice'
    BY <1>1, <1>2 DEF AddTask, QueueTypeOK, NoTwice
  <2> QED
    BY <2>1, RecountedInv DEF AddTask
<1>3. CASE ~Contains(tasks, t)
  <2>1. tasks' = Append(tasks, t)
    BY <1>3 DEF AddTask
  <2>2. \A i \in 1..Len(tasks) : tasks[i] # t
    BY <1>3 DEF Contains
  <2>3. /\ tasks' \in Seq(Tasks)
        /\ Len(tasks') = Len(tasks) + 1
        /\ tasks'[Len(tasks) + 1] = t
        /\ \A i \in 1..Len(tasks) : tasks'[i] = tasks[i]
    BY <2>1, AppendProperties DEF QueueTypeOK
  <2>4. Len(tasks) \in Nat
    BY LenProperties DEF QueueTypeOK
  <2>5. NoTwice'
    BY <2>2, <2>3, <2>4 DEF NoTwice
  <2>6. QueueTypeOK'
    BY <1>1, <2>3 DEF AddTask, QueueTypeOK
  <2> QED
    BY <2>5, <2>6, RecountedInv DEF AddTask
<1> QED
  BY <1>2, <1>3

LEMMA RemoveKeepsQueueInv ==
  ASSUME QueueInv, NEW t \in Tasks, RemoveTask(t)
  PROVE  QueueInv'
<1> USE DEF QueueInv
<1>1. waiting' \in [Tasks -> Nat]
  BY DEF RemoveTask, Recounted
<1>2. CASE ~Contains(tasks, t)
  <2>1. QueueTypeOK' /\ NoTwice'
    BY <1>1, <1>2 DEF RemoveTask, QueueTypeOK, NoTwice
  <2> QED
    BY <2>1, RecountedInv DEF RemoveTask
<1>3. CASE Contains(tasks, t)
  <2> DEFINE n    == Len(tasks)
             hole == CHOOSE i \in DOMAIN tasks : tasks[i] = t
             last == tasks[n]
             swap == [tasks EXCEPT ![hole] = last]
  <2>1. n \in Nat /\ DOMAIN tasks = 1..n
    BY LenProperties DEF QueueTypeOK
  <2>2. hole \in 1..n /\ n \in 1..n
    BY <1>3, <2>1 DEF Contains
  <2>3. last \in Tasks
    BY <2>2, ElementOfSeq DEF QueueTypeOK
  <2> HIDE DEF hole, last
  <2>4. /\ swap \in Seq(Tasks)
        /\ Len(swap) = n
        /\ \A i \in 1..n : swap[i] = IF i = hole THEN last ELSE tasks[i]
    BY <2>2, <2>3, ExceptSeq DEF QueueTypeOK
  <2>5. tasks' = SubSeq(swap, 1, n - 1)
    BY <1>3, <2>4 DEF RemoveTask, Front, Last, hole, last
  <2> HIDE DEF swap
  <2>6. /\ tasks' \in Seq(Tasks)
        /\ Len(tasks') = n - 1
        /\ \A i \in 1..(n - 1) : tasks'[i] = swap[i]
    <3>1. \A i \in 1..(n - 1) : swap[i] \in Tasks
      BY <2>1, <2>4, ElementOfSeq
    <3>2. n - 1 \in Int /\ 1 \in Int /\ (n - 1) - 1 + 1 = n - 1
      BY <2>1
    <3>3. /\ SubSeq(swap, 1, n - 1) \in Seq(Tasks)
          /\ Len(SubSeq(swap, 1, n - 1)) = IF 1 <= n - 1 THEN (n - 1) - 1 + 1 ELSE 0
          /\ \A i \in 1..((n - 1) - 1 + 1) : SubSeq(swap, 1, n - 1)[i] = swap[1 + i - 1]
      BY <3>1, <3>2, SubSeqProperties
    <3>4. tasks' \in Seq(Tasks) /\ Len(tasks') = n - 1
      <4>1. n - 1 >= 0 /\ (n - 1 = 0 \/ 1 <= n - 1)
        BY <2>1, <2>2
      <4> QED
        BY <2>1, <2>5, <3>2, <3>3, <4>1
    <3>5. ASSUME NEW i \in 1..(n - 1) PROVE tasks'[i] = swap[i]
      <4>1. i \in 1..((n - 1) - 1 + 1) /\ 1 + i - 1 = i
        BY <2>1
      <4> QED
        BY <2>5, <3>3, <4>1
    <3> QED
      BY <3>4, <3>5
  <2>7. NoTwice'
    <3> SUFFICES ASSUME NEW i \in 1..(n - 1), NEW k \in 1..(n - 1), tasks'[i] = tasks'[k]
                 PROVE  i = k
      BY <2>6 DEF NoTwice
    <3>1. \A j, m \in 1..n : tasks[j] = tasks[m] => j = m
      BY DEF NoTwice
    <3>2. swap[i] = swap[k]
      BY <2>6
    <3> HIDE DEF n
    <3>3. i \in 1..n /\ k \in 1..n /\ i # n /\ k # n
      BY <2>1
    <3>4. last = tasks[n]
      BY DEF last, n
    <3>5. CASE i = hole
      BY <2>2, <2>4, <3>1, <3>2, <3>3, <3>4, <3>5
    <3>6. CASE k = hole
      BY <2>2, <2>4, <3>1, <3>2, <3>3, <3>4, <3>6
    <3>7. CASE i # hole /\ k # hole
      BY <2>4, <3>1, <3>2, <3>3, <3>7
    <3> QED
      BY <3>5, <3>6, <3>7
  <2>8. QueueTypeOK'
    BY <1>1, <2>6 DEF RemoveTask, QueueTypeOK
  <2> QED
    BY <2>7, <2>8, RecountedInv DEF RemoveTask
<1> QED
  BY <1>2, <1>3

LEMMA SizeKeepsQueueInv ==
  ASSUME QueueInv, NEW n \in BatchSizes, SetMaxTasksPerBatch(n)
  PROVE  QueueInv'
<1>1. QueueTypeOK' /\ NoTwice'
  BY BatchSizesAssumption DEF SetMaxTasksPerBatch, Recounted, QueueInv, QueueTypeOK, NoTwice
<1> QED
  BY <1>1, RecountedInv DEF SetMaxTasksPerBatch

-----------------------------------------------------------------------------
(***************************************************************************)
(* The theorems.                                                           *)
(***************************************************************************)

\* The invariant holds of the queue, whatever is signed and changed.
THEOREM QueueInvariant == QueueSpec => []QueueInv
<1>1. QueueInit => QueueInv
  BY BatchSizesAssumption DEF QueueInit, QueueInv, QueueTypeOK, NoTwice, Turn, WaitsInQueue
<1>2. QueueInv /\ [QueueNext]_queueVars => QueueInv'
  <2> SUFFICES ASSUME QueueInv, [QueueNext]_queueVars PROVE QueueInv'
    OBVIOUS
  <2>1. CASE UNCHANGED queueVars
    BY <2>1 DEF queueVars, QueueInv, QueueTypeOK, NoTwice, Turn, WaitsInQueue, TaskAt, Index
  <2>2. CASE QueueChange
    BY <2>2, AddKeepsQueueInv, RemoveKeepsQueueInv, SizeKeepsQueueInv DEF QueueChange
  <2>3. ASSUME NEW flags \in SUBSET Nat, NEW v \in 0..Len(tasks), RunBatch(flags, v)
        PROVE  QueueInv'
    BY <2>3, RunKeepsQueueInv
  <2> QED
    BY <2>1, <2>2, <2>3 DEF QueueNext
<1> QED
  BY <1>1, <1>2, PTL DEF QueueSpec

\* No task that is flagged run after run is left out for ever: with any number
\* of tasks and any batch, it waits less than a turn of the circle.
THEOREM NoStarvationHolds == QueueSpec => []NoStarvation
<1>1. QueueInv => NoStarvation
  <2> SUFFICES ASSUME QueueInv, NEW t \in Tasks, waiting[t] > 0
               PROVE  waiting[t] * maxTasksPerBatch < Len(tasks)
    BY DEF NoStarvation
  <2>1. Len(tasks) \in Nat /\ waiting[t] \in Nat /\ maxTasksPerBatch \in Nat
    BY LenProperties DEF QueueInv, QueueTypeOK
  <2>2. PICK p \in 0..(Len(tasks) - 1) : t = TaskAt(p)
    BY DEF QueueInv, WaitsInQueue
  <2>3. waiting[t] * maxTasksPerBatch + p < Len(tasks)
    BY <2>2 DEF QueueInv, Turn
  <2>4. waiting[t] * maxTasksPerBatch \in Nat
    BY <2>1
  <2> QED
    BY <2>1, <2>2, <2>3, <2>4
<1> QED
  BY <1>1, QueueInvariant, PTL

-----------------------------------------------------------------------------
(***************************************************************************)
(* The composed TasksRunner implements the queue: whatever the rounds do,  *)
(* and whatever a task does in the middle of a run, its steps are steps of *)
(* the queue or leave it alone.                                            *)
(***************************************************************************)
LEMMA RunnerStepsTheQueue ==
  ASSUME [RunnerNext]_<<vars, queueVars, runnerVars>>
  PROVE  [QueueNext]_queueVars
<1>1. ASSUME NEW o \in Owners, NEW signers \in SUBSET selected,
             NEW flags \in SUBSET (0..Len(tasks)), RunTasks(o, signers, flags)
      PROVE  QueueNext
  <2>1. flags \in SUBSET Nat
    OBVIOUS
  <2> QED
    BY <1>1, <2>1 DEF RunTasks, QueueNext
<1>2. TaskSucceeds => UNCHANGED queueVars
  BY DEF TaskSucceeds
<1>3. TaskFails => UNCHANGED queueVars
  BY DEF TaskFails
<1>4. FinishRun => UNCHANGED queueVars
  BY DEF FinishRun
<1>5. RoundStep => UNCHANGED queueVars
  BY DEF RoundStep
<1>6. ClosingStep => UNCHANGED queueVars
  BY DEF ClosingStep
<1>7. GovernanceStep => QueueNext
  BY DEF GovernanceStep, QueueNext
<1>8. ReceiveFees => UNCHANGED queueVars
  BY DEF ReceiveFees
<1> QED
  BY <1>1, <1>2, <1>3, <1>4, <1>5, <1>6, <1>7, <1>8 DEF RunnerNext

\* Refinement: the contract with its rounds, its rewards and tasks that call
\* back behaves, as far as the queue is concerned, as the queue by itself.
THEOREM RunnerImplementsQueue == RunnerSpec => QueueSpec
<1>1. RunnerInit => QueueInit
  BY DEF RunnerInit
<1> QED
  BY <1>1, RunnerStepsTheQueue, PTL DEF RunnerSpec, QueueSpec

\* So no flagged task starves in the contract either, even when tasks close
\* rounds, fail or find the fees short.
THEOREM RunnerNoStarvation == RunnerSpec => []NoStarvation
BY RunnerImplementsQueue, NoStarvationHolds, PTL

-----------------------------------------------------------------------------
(***************************************************************************)
(* What a closing round pays for gas.  FoldLeft is a recursive function on *)
(* the sets of places in the order of the owners; that it exists is proved *)
(* by induction on these sets, as for the sums of Arithmetic_proofs.       *)
(***************************************************************************)

\* g gives what is left and who is repaid when only the owners at the places of a
\* subset of D have come.
PaidAt(g, order, price, D) ==
    g = [s \in SUBSET D |->
           IF s = {} THEN [left |-> rewardFees, repaid |-> {}]
                     ELSE PayForGas(g[s \ {Max(s)}], order[Max(s)], price)]

LEMMA GasPaymentsAre ==
    ASSUME NEW order, NEW price
    PROVE  GasPayments(order, price) =
             (CHOOSE g : PaidAt(g, order, price, DOMAIN order))[DOMAIN order]
BY DEF GasPayments, FoldLeft, MapThenFoldSet, PaidAt

LEMMA MaxIn ==
    ASSUME NEW E, IsFiniteSet(E), E \subseteq Int
    PROVE  \A s \in SUBSET E : s # {} => Max(s) \in s
<1> DEFINE Good == {s \in SUBSET E : s = {} \/ \E x \in s : \A y \in s : x >= y}
<1>1. {} \in Good
  OBVIOUS
<1>2. ASSUME NEW s \in SUBSET E, NEW x \in s, s \ {x} \in Good PROVE s \in Good
  <2>1. CASE s \ {x} = {}
    <3>1. \A y \in s : x >= y
      BY <2>1
    <3> QED
      BY <3>1
  <2>2. CASE \E z \in s \ {x} : \A y \in s \ {x} : z >= y
    <3>1. PICK z \in s \ {x} : \A y \in s \ {x} : z >= y
      BY <2>2
    <3>2. x \in Int /\ z \in Int /\ \A y \in s : y \in Int
      OBVIOUS
    <3>3. CASE z >= x
      BY <3>1, <3>3
    <3>4. CASE ~(z >= x)
      <4>1. \A y \in s : x >= y
        BY <3>1, <3>2, <3>4
      <4> QED
        BY <4>1
    <3> QED
      BY <3>3, <3>4
  <2> QED
    BY <1>2, <2>1, <2>2
<1> HIDE DEF Good
<1>3. \A s \in SUBSET E : s \in Good
  BY <1>1, <1>2, FiniteInduction
<1> QED
  BY <1>3 DEF Good, Max

LEMMA PaidExists ==
    ASSUME NEW E, IsFiniteSet(E), \A s \in SUBSET E : s # {} => Max(s) \in s,
           NEW order, NEW price
    PROVE  \A D \in SUBSET E : \E g : PaidAt(g, order, price, D)
<1>0. ASSUME NEW A \in SUBSET E, NEW B \in SUBSET E, NEW g, NEW h,
             PaidAt(g, order, price, A), PaidAt(h, order, price, B)
      PROVE  \A T \in SUBSET E : T \subseteq A /\ T \subseteq B => g[T] = h[T]
  <2> DEFINE Agreed == {T \in SUBSET E : T \subseteq A /\ T \subseteq B => g[T] = h[T]}
  <2>1. ASSUME NEW D \in SUBSET E, \A T \in SUBSET D : T # D => T \in Agreed
        PROVE  D \in Agreed
    <3> SUFFICES ASSUME D \subseteq A, D \subseteq B PROVE g[D] = h[D]
      OBVIOUS
    <3>1. CASE D = {}
      BY <1>0, <3>1 DEF PaidAt
    <3>2. CASE D # {}
      <4> DEFINE c == Max(D)
                 R == D \ {c}
      <4>1. c \in D
        BY <3>2
      <4>2. R \in SUBSET D /\ R # D
        BY <4>1
      <4>3. g[R] = h[R]
        BY <4>2, <2>1
      <4>4. g[D] = PayForGas(g[R], order[c], price)
        BY <1>0, <3>2 DEF PaidAt
      <4>5. h[D] = PayForGas(h[R], order[c], price)
        BY <1>0, <3>2 DEF PaidAt
      <4> QED
        BY <4>3, <4>4, <4>5
    <3> QED
      BY <3>1, <3>2
  <2> HIDE DEF Agreed
  <2>2. \A T \in SUBSET E : T \in Agreed
    BY <2>1, SubsetInduction
  <2> QED
    BY <2>2 DEF Agreed
<1> DEFINE Good == {D \in SUBSET E : \E g : PaidAt(g, order, price, D)}
<1>1. ASSUME NEW D \in SUBSET E, \A T \in SUBSET D : T # D => T \in Good
      PROVE  D \in Good
  <2> DEFINE F(T) == CHOOSE g : PaidAt(g, order, price, T)
             V(T) == F(T)[T]
             g == [s \in SUBSET D |->
                     IF s = {} THEN [left |-> rewardFees, repaid |-> {}]
                               ELSE PayForGas(V(s \ {Max(s)}), order[Max(s)], price)]
  <2>1. ASSUME NEW T \in SUBSET D, T # D
        PROVE  PaidAt(F(T), order, price, T)
    BY <1>1, <2>1
  <2>2. ASSUME NEW s \in SUBSET D, s # D
        PROVE  g[s] = V(s)
    <3>1. CASE s = {}
      <4>1. PaidAt(F(s), order, price, s)
        BY <2>1, <2>2
      <4>2. F(s)[s] = [left |-> rewardFees, repaid |-> {}]
        <5> HIDE DEF F
        <5> QED BY <4>1, <3>1 DEF PaidAt
      <4> QED
        BY <4>2, <3>1
    <3>2. CASE s # {}
      <4> DEFINE c == Max(s)
                 r == s \ {c}
      <4>1. c \in s
        BY <3>2
      <4>2. r \in SUBSET D /\ r # D /\ r \in SUBSET s /\ s \in SUBSET E /\ r \in SUBSET E
        BY <4>1, <2>2
      <4>3. PaidAt(F(s), order, price, s) /\ PaidAt(F(r), order, price, r)
        BY <2>1, <2>2, <4>2
      <4>4. F(s)[s] = PayForGas(F(s)[r], order[c], price)
        <5> HIDE DEF F
        <5> QED BY <4>3, <3>2 DEF PaidAt
      <4>5. F(s)[r] = F(r)[r]
        <5> DEFINE G == F(s)
                   H == F(r)
        <5>1. PaidAt(G, order, price, s) /\ PaidAt(H, order, price, r)
          BY <4>3
        <5> HIDE DEF F, V, g, Good, G, H, r
        <5>2. s \in SUBSET E /\ r \in SUBSET E
          BY <4>2
        <5>3. \A T \in SUBSET E : T \subseteq s /\ T \subseteq r => G[T] = H[T]
          BY <1>0, <5>1, <5>2
        <5>4. r \subseteq s
          BY <4>2
        <5>5. G[r] = H[r]
          BY <5>3, <5>4
        <5> QED
          BY <5>5 DEF G, H
      <4>6. g[s] = PayForGas(V(r), order[c], price)
        <5> HIDE DEF F
        <5> QED BY <3>2
      <4> QED
        BY <4>4, <4>5, <4>6
    <3> QED
      BY <3>1, <3>2
  <2>3. PaidAt(g, order, price, D)
    <3>1. ASSUME NEW s \in SUBSET D, s # {}
          PROVE  g[s \ {Max(s)}] = V(s \ {Max(s)})
      <4> HIDE DEF g, V
      <4>1. Max(s) \in s
        BY <3>1
      <4> DEFINE r == s \ {Max(s)}
      <4>2. r \in SUBSET D /\ r # D
        BY <4>1
      <4> HIDE DEF r
      <4>3. g[r] = V(r)
        BY <2>2, <4>2
      <4> QED
        BY <4>3 DEF r
    <3> HIDE DEF V
    <3>2. g = [s \in SUBSET D |->
                 IF s = {} THEN [left |-> rewardFees, repaid |-> {}]
                           ELSE PayForGas(g[s \ {Max(s)}], order[Max(s)], price)]
      BY <3>1
    <3> HIDE DEF g
    <3> QED
      BY <3>2 DEF PaidAt
  <2> HIDE DEF g
  <2> QED
    BY <2>3
<1> HIDE DEF Good
<1>2. \A D \in SUBSET E : D \in Good
  BY <1>1, SubsetInduction
<1> QED
  BY <1>2 DEF Good

\* The gas of every owner, at this price.
GasRewards(price) == [o \in Owners |-> GasReward(o, price)]

\* What the owners of S have been paid, and what is left of the fees.
PaidTo(acc, S, price) ==
    /\ acc \in [left : Nat, repaid : SUBSET S]
    /\ \A o \in acc.repaid : GasReward(o, price) > 0
    /\ rewardFees = acc.left + SumFunctionOnSet(GasRewards(price), acc.repaid)

LEMMA PayForGasPays ==
    ASSUME NEW S \in SUBSET Owners, NEW price, \A o \in S : GasReward(o, price) \in Nat,
           NEW acc, NEW T \in SUBSET S, PaidTo(acc, T, price), NEW o \in S \ T
    PROVE  PaidTo(PayForGas(acc, o, price), T \cup {o}, price)
<1> DEFINE r == GasReward(o, price)
           f == GasRewards(price)
           R == acc.repaid
<1>1. acc.left \in Nat /\ R \in SUBSET T /\ r \in Nat /\ f[o] = r
  BY DEF PaidTo, GasRewards
<1>2. \A x \in S : f[x] \in Int
  BY DEF GasRewards
<1>3. rewardFees = acc.left + SumFunctionOnSet(f, R)
  BY DEF PaidTo
<1>4. \A x \in R : GasReward(x, price) > 0
  BY DEF PaidTo
<1>5. IsFiniteSet(S)
  BY OwnersAssumption, FS_Subset
<1>6. CASE r = 0 \/ r > acc.left
  <2>1. PayForGas(acc, o, price) = acc
    BY <1>6 DEF PayForGas
  <2>2. PaidTo(acc, T \cup {o}, price)
    BY DEF PaidTo
  <2> QED
    BY <2>1, <2>2
<1>7. CASE ~(r = 0 \/ r > acc.left)
  <2> DEFINE new == [left |-> acc.left - r, repaid |-> R \cup {o}]
             Q == R \cup {o}
  <2>1. PayForGas(acc, o, price) = new
    BY <1>7 DEF PayForGas, AfterGas
  <2>2. acc.left - r \in Nat /\ r > 0
    BY <1>1, <1>7
  <2>3. SumFunctionOnSet(f, Q) = f[o] + SumFunctionOnSet(f, R)
    <3>1. Q \in SUBSET S /\ o \in Q /\ Q \ {o} = R
      BY <1>1
    <3> HIDE DEF Q, R, f
    <3>2. SumFunctionOnSet(f, Q) = f[o] + SumFunctionOnSet(f, Q \ {o})
      BY <1>2, <1>5, <3>1, SumRemove
    <3> QED
      BY <3>1, <3>2
  <2>4. SumFunctionOnSet(f, R) \in Int
    <3> HIDE DEF f, R
    <3> QED
      BY <1>1, <1>2, <1>5, SumInt
  <2>5. rewardFees = (acc.left - r) + SumFunctionOnSet(f, Q)
    <3> HIDE DEF f, R, Q, r
    <3> QED
      BY <1>1, <1>3, <2>3, <2>4
  <2>6. new \in [left : Nat, repaid : SUBSET (T \cup {o})]
    BY <1>1, <2>2
  <2>7. PaidTo(new, T \cup {o}, price)
    BY <1>4, <2>2, <2>5, <2>6 DEF PaidTo
  <2> QED
    BY <2>1, <2>7
<1> QED
  BY <1>6, <1>7

\* The fees are what is left and what was paid, whatever the order of the owners.
LEMMA GasIsPaid ==
    ASSUME NEW S \in SUBSET Owners, NEW order \in SetToSeqs(S), NEW price,
           \A o \in S : GasReward(o, price) \in Nat, rewardFees \in Nat
    PROVE  PaidTo(GasPayments(order, price), S, price)
<1> DEFINE E == DOMAIN order
           At(s) == {order[i] : i \in s}
<1>1. /\ IsFiniteSet(E) /\ E \subseteq Int /\ order \in [E -> S]
      /\ \A i, j \in E : i # j => order[i] # order[j]
  <2> DEFINE n == Cardinality(S)
  <2>1. n \in Nat
    BY OwnersAssumption, FS_Subset, FS_CardinalityType
  <2>2. order \in [1..n -> S] /\ \A i, j \in 1..n : i # j => order[i] # order[j]
    BY DEF SetToSeqs
  <2> HIDE DEF n
  <2>3. E = 1..n /\ IsFiniteSet(1..n)
    BY <2>1, <2>2, FS_Interval
  <2> QED
    BY <2>1, <2>2, <2>3
<1> DEFINE g == CHOOSE g : PaidAt(g, order, price, E)
<1>2. PaidAt(g, order, price, E)
  <2>1. \A s \in SUBSET E : s # {} => Max(s) \in s
    BY <1>1, MaxIn
  <2>2. \E f : PaidAt(f, order, price, E)
    <3> HIDE DEF E
    <3> QED
      BY ONLY <1>1, <2>1, PaidExists
  <2> QED
    BY <2>2
<1>3. GasPayments(order, price) = g[E]
  BY GasPaymentsAre
<1> HIDE DEF g, E
<1> DEFINE Good == {s \in SUBSET E : PaidTo(g[s], At(s), price)}
<1>4. ASSUME NEW s \in SUBSET E, \A u \in SUBSET s : u # s => u \in Good
      PROVE  s \in Good
  <2>1. CASE s = {}
    <3> DEFINE none == [left |-> rewardFees, repaid |-> {}]
    <3>1. g[s] = none
      BY <1>2, <2>1 DEF PaidAt
    <3>2. PaidTo(none, At(s), price)
      BY SumEmpty DEF PaidTo
    <3> QED
      BY <3>1, <3>2
  <2>2. CASE s # {}
    <3> DEFINE c == Max(s)
               u == s \ {c}
    <3>1. c \in s
      BY <1>1, <2>2, MaxIn
    <3>2. u \in SUBSET s /\ u # s /\ s = u \cup {c} /\ c \notin u
      BY <3>1
    <3>3. g[s] = PayForGas(g[u], order[c], price)
      BY <1>2, <2>2 DEF PaidAt
    <3> HIDE DEF c, u
    <3>4. PaidTo(g[u], At(u), price)
      BY <1>4, <3>2
    <3>5. order[c] \in S \ At(u) /\ At(u) \in SUBSET S
      BY <1>1, <3>1, <3>2
    <3>6. PaidTo(g[s], At(u) \cup {order[c]}, price)
      <4> DEFINE T == At(u)
                 o == order[c]
      <4>1. T \in SUBSET S /\ o \in S \ T /\ PaidTo(g[u], T, price)
        BY <3>4, <3>5
      <4> HIDE DEF T, o
      <4>2. PaidTo(PayForGas(g[u], o, price), T \cup {o}, price)
        BY <4>1, PayForGasPays
      <4> QED
        BY <3>3, <4>2 DEF T, o
    <3>7. At(u) \cup {order[c]} = At(s)
      BY <3>2
    <3> QED
      BY <3>6, <3>7
  <2> QED
    BY <2>1, <2>2
<1> HIDE DEF Good
<1>5. E \in Good
  BY <1>1, <1>4, SubsetInduction
<1>6. At(E) \subseteq S
  BY <1>1
<1>7. PaidTo(g[E], At(E), price)
  BY <1>5 DEF Good
<1> QED
  BY <1>3, <1>6, <1>7 DEF PaidTo

-----------------------------------------------------------------------------
(***************************************************************************)
(* What a closing round pays.  The gas is paid out of the fees, the shares *)
(* out of what is left: each is at most the part of the points that its    *)
(* owner holds, and the points of all owners are at most the total.        *)
(***************************************************************************)
RewardTypes == coinbaseUsed \in [Owners -> Nat] /\ rewardFees \in Nat

LEMMA CappedTyped ==
    ASSUME TypeOK, NEW left \in Nat, NEW o \in Owners
    PROVE  /\ CappedPointsReward(o, left) \in Nat
           /\ totalPoints = 0 => CappedPointsReward(o, left) = 0
           /\ totalPoints # 0
                => CappedPointsReward(o, left) <= (points[o] * left) \div totalPoints
<1> DEFINE share    == (left * points[o]) \div totalPoints
           maxShare == (stake[o] * sharesCapMultiplier) \div TotalStake
           most     == (left * maxShare) \div PRECISION
<1>1. points[o] \in Nat /\ stake[o] \in Nat /\ totalPoints \in Nat
  BY DEF TypeOK
<1>2. CASE points[o] = 0 \/ totalPoints = 0 \/ TotalStake = 0 \/ left = 0
  <2>1. CappedPointsReward(o, left) = 0
    BY <1>2 DEF CappedPointsReward
  <2>2. totalPoints # 0 => (points[o] * left) \div totalPoints \in Nat
    BY <1>1, ProductNat, Quotient
  <2> QED
    BY <2>1, <2>2
<1>3. CASE ~(points[o] = 0 \/ totalPoints = 0 \/ TotalStake = 0 \/ left = 0)
  <2>1. TotalStake \in Nat \ {0}
    <3> DEFINE f == stake
               D == selected
    <3>1. D \in SUBSET Owners /\ \A i \in D : f[i] \in Nat
      BY DEF TypeOK
    <3> HIDE DEF f, D
    <3>2. SumFunctionOnSet(f, D) \in Nat
      BY <3>1, OwnersAssumption, FS_Subset, SumNat
    <3> QED
      BY <1>3, <3>2 DEF TotalStake, f, D
  <2>2. share \in Nat
    BY <1>1, <1>3, ProductNat, Quotient
  <2>3. maxShare \in Nat
    <3>1. stake[o] * sharesCapMultiplier \in Nat
      BY <1>1, RunnerAssumption, ProductNat
    <3> QED
      BY <2>1, <3>1, Quotient
  <2>4. most \in Nat
    <3> HIDE DEF maxShare
    <3>1. left * maxShare \in Nat
      BY <2>3, ProductNat
    <3> QED
      BY <3>1, RunnerAssumption, Quotient
  <2>5. CappedPointsReward(o, left)
          = IF maxShare >= PRECISION \/ share <= most THEN share ELSE most
    BY <1>3 DEF CappedPointsReward
  <2>6. share = (points[o] * left) \div totalPoints
    BY <1>1, ProductCommutes
  <2> HIDE DEF share, maxShare, most
  <2>7. CappedPointsReward(o, left) \in Nat /\ CappedPointsReward(o, left) <= share
    BY <2>2, <2>4, <2>5
  <2> QED
    BY <1>3, <2>6, <2>7
<1> QED
  BY <1>2, <1>3

\* The shares of all selected owners, out of what the gas has left.
PointsRewards(left) == [o \in Owners |-> CappedPointsReward(o, left)]

LEMMA SharesOfRound ==
    ASSUME TypeOK, NEW left \in Nat
    PROVE  /\ SumFunctionOnSet(PointsRewards(left), selected) \in Nat
           /\ PointsWithinTotal => SumFunctionOnSet(PointsRewards(left), selected) <= left
<1> DEFINE f == points
           g == PointsRewards(left)
           D == selected
           t == totalPoints
<1>1. /\ D \in SUBSET Owners /\ IsFiniteSet(D) /\ t \in Nat
      /\ \A o \in Owners : f[o] \in Nat
  BY OwnersAssumption, FS_Subset DEF TypeOK
<1>2. /\ \A o \in Owners : g[o] \in Nat
      /\ t = 0 => \A o \in Owners : g[o] = 0
      /\ t # 0 => \A o \in Owners : g[o] <= (f[o] * left) \div t
  BY CappedTyped DEF PointsRewards
<1>3. PointsWithinTotal => SumFunctionOnSet(f, Owners) <= t
  BY PointsSummed DEF PointsWithinTotal
<1> HIDE DEF f, g, D, t
<1>4. SumFunctionOnSet(g, D) \in Nat
  BY <1>1, <1>2, SumNat
<1>5. CASE t = 0
  <2>1. SumFunctionOnSet(g, D) = 0
    BY <1>1, <1>2, <1>5, SumZero
  <2> QED
    BY <2>1 DEF g, D
<1>6. CASE t # 0
  <2>1. SumFunctionOnSet(f, Owners) <= t => SumFunctionOnSet(g, D) <= left
    BY <1>1, <1>2, <1>6, OwnersAssumption, SharesWithin
  <2> QED
    BY <1>3, <1>4, <2>1 DEF g, D
<1> QED
  BY <1>5, <1>6

\* With a price that serves, the gas of every selected owner is a number of tokens.
LEMMA GasTyped ==
    ASSUME TypeOK, RewardTypes, NEW price \in Nat, PriceServes(price), NEW o \in selected
    PROVE  /\ GasReward(o, price) \in Nat
           /\ GasReward(o, price) > 0
                => price # 0 /\ GasReward(o, price) = coinbaseUsed[o] \div price
<1>1. coinbaseUsed[o] \in Nat
  BY DEF TypeOK, RewardTypes
<1>2. CASE coinbaseUsed[o] = 0
  BY <1>2 DEF GasReward
<1>3. CASE coinbaseUsed[o] # 0
  <2>1. price \in Nat \ {0}
    BY <1>3 DEF PriceServes
  <2>2. coinbaseUsed[o] \div price \in Nat
    BY <1>1, <2>1, Quotient
  <2> QED
    BY <1>3, <2>1, <2>2 DEF GasReward
<1> QED
  BY <1>2, <1>3

\* A round pays whole tokens; at least the gas of every owner that it repays; and
\* no more than the fees, if the points add up.
LEMMA PayoutSound ==
    ASSUME TypeOK, RewardTypes, NEW order \in SetToSeqs(selected),
           NEW price \in Nat, PriceServes(price)
    PROVE  /\ Payout(order, price) \in Nat
           /\ PointsWithinTotal => Payout(order, price) <= rewardFees
           /\ \A o \in Repaid(order, price) :
                 o \in selected /\ GasReward(o, price) > 0
                 /\ GasReward(o, price) <= Payout(order, price)
<1> DEFINE gas  == GasPayments(order, price)
           left == gas.left
           R    == Repaid(order, price)
           f    == GasRewards(price)
           paid == SumFunctionOnSet(f, R)
           rest == SumFunctionOnSet(PointsRewards(left), selected)
<1>1. selected \in SUBSET Owners /\ rewardFees \in Nat
  BY DEF TypeOK, RewardTypes
<1>2. \A o \in selected : GasReward(o, price) \in Nat
  BY GasTyped
<1>3. PaidTo(gas, selected, price)
  <2> DEFINE S == selected
  <2>1. S \in SUBSET Owners /\ order \in SetToSeqs(S) /\ \A o \in S : GasReward(o, price) \in Nat
    BY <1>1, <1>2
  <2> HIDE DEF S
  <2>2. PaidTo(GasPayments(order, price), S, price)
    BY <1>1, <2>1, GasIsPaid
  <2> QED
    BY <2>2 DEF S
<1>4. /\ left \in Nat /\ R \in SUBSET selected
      /\ \A o \in R : GasReward(o, price) > 0
      /\ rewardFees = left + paid
  BY <1>3 DEF PaidTo, Repaid
<1>5. Payout(order, price) = paid + rest
  BY DEF Payout, Repaid, GasRewards, PointsRewards
<1>6. \A o \in R : f[o] \in Nat /\ f[o] = GasReward(o, price)
  BY <1>1, <1>2, <1>4 DEF GasRewards
<1>7. IsFiniteSet(R)
  BY <1>1, <1>4, OwnersAssumption, FS_Subset
<1>8. rest \in Nat /\ (PointsWithinTotal => rest <= left)
  <2> HIDE DEF left
  <2> QED
    BY <1>4, SharesOfRound
<1> HIDE DEF left, R, f, rest
<1>9. paid \in Nat /\ \A o \in R : f[o] <= paid
  BY <1>6, <1>7, SumNat, SummandsWithin
<1> HIDE DEF paid
<1>10. \A o \in R : o \in selected /\ GasReward(o, price) > 0 /\ GasReward(o, price) <= paid + rest
  BY <1>4, <1>6, <1>8, <1>9
<1>11. Payout(order, price) \in Nat
  BY <1>5, <1>8, <1>9
<1>12. PointsWithinTotal => Payout(order, price) <= rewardFees
  BY <1>4, <1>5, <1>8, <1>9
<1>13. \A o \in R : o \in selected /\ GasReward(o, price) > 0
                    /\ GasReward(o, price) <= Payout(order, price)
  BY <1>5, <1>10
<1> QED
  BY <1>11, <1>12, <1>13 DEF R

-----------------------------------------------------------------------------
(***************************************************************************)
(* The fees cover what is owed, in every state the contract reaches, unless*)
(* a run gave points to an owner without a seat.  Only such points break   *)
(* PointsInv, the invariant of the rounds: it is kept by every step of a   *)
(* RoundManager, by a run in progress, which only records its signatures,  *)
(* and by the end of a run whose owner still has its seat.                 *)
(***************************************************************************)
RunOf(c) ==
    DOMAIN c = {"owner", "batch", "earned", "flagged"} /\ c.owner \in Owners /\ c.earned \in Nat

CallOK == Idle \/ \E c : calls = <<c>> /\ RunOf(c)

RunnerInv ==
    /\ TypeOK /\ RewardTypes /\ CallOK /\ strayPoints \in BOOLEAN
    /\ strayPoints \/ PointsInv

\* A run stays one when it goes on to its next task.
LEMMA RunGoesOn ==
    \A c : RunOf(c) => /\ RunOf([c EXCEPT !.batch = Tail(@)])
                       /\ RunOf([c EXCEPT !.batch = Tail(@), !.earned = @ + 1])
<1> SUFFICES ASSUME NEW c, RunOf(c)
             PROVE  /\ RunOf([c EXCEPT !.batch = Tail(@)])
                    /\ RunOf([c EXCEPT !.batch = Tail(@), !.earned = @ + 1])
  OBVIOUS
<1> DEFINE t == Tail(c.batch)
<1> HIDE DEF t
<1>1. \A u : RunOf([c EXCEPT !.batch = u]) /\ RunOf([c EXCEPT !.batch = u, !.earned = @ + 1])
  BY DEF RunOf
<1> QED
  BY <1>1, Zenon

LEMMA RunnerInvInit == RunnerInit => RunnerInv
<1> SUFFICES ASSUME RunnerInit PROVE RunnerInv
  OBVIOUS
<1>1. TypeOK /\ PointsInv
  BY InitTypeOK, InitPointsBacked, InitPointsWithin DEF RunnerInit, PointsInv
<1>2. RewardTypes /\ CallOK /\ strayPoints \in BOOLEAN
  BY DEF RunnerInit, RewardTypes, CallOK, Idle
<1> QED
  BY <1>1, <1>2 DEF RunnerInv

LEMMA PointsInvNext == PointsInv /\ [Next]_vars => PointsInv'
BY NextTypeOK, NextPointsBacked, NextPointsWithin DEF PointsInv

\* Paying the rewards leaves natural numbers.
LEMMA DistributeTyped ==
    ASSUME TypeOK, RewardTypes, DistributeRewards
    PROVE  RewardTypes'
<1>1. CASE rewardFees = 0
  BY <1>1 DEF DistributeRewards, RewardTypes, rewardVars
<1>2. CASE rewardFees # 0
  <2>1. PICK order \in SetToSeqs(selected), price \in TokenPrices :
            /\ PriceServes(price)
            /\ Payout(order, price) <= rewardFees
            /\ rewardFees' = rewardFees - Payout(order, price)
            /\ coinbaseUsed' = [o \in Owners |->
                                  IF o \in Repaid(order, price) THEN 0 ELSE coinbaseUsed[o]]
    BY <1>2 DEF DistributeRewards
  <2>2. price \in Nat
    BY RunnerAssumption
  <2>3. Payout(order, price) \in Nat
    BY <2>1, <2>2, PayoutSound
  <2>4. coinbaseUsed' \in [Owners -> Nat]
    BY <2>1 DEF RewardTypes
  <2> QED
    BY <2>1, <2>3, <2>4 DEF RewardTypes
<1> QED
  BY <1>1, <1>2

\* The beginning of a run records signatures and gives no points.
LEMMA RunTasksPoints ==
    ASSUME TypeOK, NEW o \in Owners, NEW signers \in SUBSET selected, NEW flags,
           RunTasks(o, signers, flags)
    PROVE  TypeOK' /\ (PointsInv => PointsInv')
<1>1. /\ missed' \in [Owners -> Nat] /\ lastSigned' \in [Owners -> Nat]
  BY DEF RunTasks, ValidateExecution, RecordSignatures, TypeOK
<1>2. /\ UNCHANGED <<stake, subscribed, selected, number, lockPeriodTimestamp, totalPoints,
                     points, maxMissedSigRounds, timestamp>>
      /\ autoUnsubscribed' = {}
  BY DEF RunTasks, membership, round
<1>3. TypeOK'
  BY <1>1, <1>2 DEF TypeOK
<1>4. PointsBacked => PointsBacked'
  BY <1>2 DEF PointsBacked
<1>5. PointsWithinTotal => PointsWithinTotal'
  BY <1>2 DEF PointsWithinTotal
<1> QED
  BY <1>3, <1>4, <1>5 DEF PointsInv

\* The end of a run gives the points it earned to the round and to its owner.
LEMMA FinishRunPoints ==
    ASSUME TypeOK, RewardTypes, CallOK, FinishRun
    PROVE  /\ TypeOK' /\ RewardTypes'
           /\ (Call.earned > 0 => Call.owner \in selected) /\ PointsInv => PointsInv'
<1>1. Call.owner \in Owners /\ Call.earned \in Nat
  BY DEF FinishRun, CallOK, Call, RunOf
<1>2. PICK o \in Owners, n \in Nat : Call.owner = o /\ Call.earned = n
  BY <1>1
<1>3. /\ points' = [points EXCEPT ![o] = points[o] + n]
      /\ totalPoints' = totalPoints + n
      /\ UNCHANGED <<stake, subscribed, selected, number, lockPeriodTimestamp, missed,
                     lastSigned, maxMissedSigRounds, timestamp, rewardFees>>
      /\ autoUnsubscribed' = {}
  BY <1>2 DEF FinishRun, membership, tracking
<1>4. points[o] \in Nat /\ totalPoints \in Nat
  BY DEF TypeOK
<1>5. TypeOK'
  <2>1. points' \in [Owners -> Nat] /\ totalPoints' \in Nat
    BY <1>3, <1>4 DEF TypeOK
  <2> QED
    BY <1>3, <2>1 DEF TypeOK
<1>6. RewardTypes'
  <2>1. PICK gas \in GasCosts :
            coinbaseUsed' = IF Call.flagged THEN [coinbaseUsed EXCEPT ![o] = @ + gas]
                            ELSE coinbaseUsed
    BY <1>2 DEF FinishRun
  <2>2. gas \in Nat
    BY RunnerAssumption
  <2>3. coinbaseUsed' \in [Owners -> Nat]
    BY <2>1, <2>2 DEF RewardTypes
  <2> QED
    BY <1>3, <2>3 DEF RewardTypes
<1>7. ASSUME n > 0 => o \in selected, PointsInv PROVE PointsInv'
  <2>1. PointsBacked'
    BY <1>3, <1>4, <1>7 DEF PointsInv, PointsBacked, TypeOK
  <2>2. PointsWithinTotal'
    <3> DEFINE m == points[o] + n
    <3>1. m \in Nat /\ points' = [points EXCEPT ![o] = m]
      BY <1>3, <1>4
    <3> HIDE DEF m
    <3>2. SumFunction(points)' = SumFunction(points) - points[o] + m
      BY <1>5, <3>1, PointsOfOne
    <3>3. SumFunction(points) \in Nat
      BY PointsSummed
    <3> QED
      BY <1>3, <1>4, <1>7, <3>2, <3>3 DEF PointsInv, PointsWithinTotal, m
  <2> QED
    BY <1>5, <2>1, <2>2 DEF PointsInv
<1> QED
  BY <1>2, <1>5, <1>6, <1>7

LEMMA RunnerInvStep ==
    RunnerInv /\ [RunnerNext]_<<vars, queueVars, runnerVars>> => RunnerInv'
<1> SUFFICES ASSUME RunnerInv, [RunnerNext]_<<vars, queueVars, runnerVars>> PROVE RunnerInv'
  OBVIOUS
<1>0. /\ TypeOK /\ RewardTypes /\ CallOK /\ strayPoints \in BOOLEAN
      /\ strayPoints \/ PointsInv
  BY DEF RunnerInv
<1>1. ASSUME [Next]_vars, RewardTypes', CallOK', UNCHANGED strayPoints PROVE RunnerInv'
  BY <1>0, <1>1, NextTypeOK, PointsInvNext DEF RunnerInv
<1>2. ASSUME UNCHANGED calls PROVE CallOK'
  BY <1>0, <1>2 DEF CallOK, Idle
<1>3. ASSUME UNCHANGED rewardVars PROVE RewardTypes'
  BY <1>0, <1>3 DEF rewardVars, RewardTypes
<1>4. CASE UNCHANGED <<vars, queueVars, runnerVars>>
  BY <1>1, <1>2, <1>3, <1>4 DEF runnerVars
<1>5. ASSUME NEW o \in Owners, NEW signers \in SUBSET selected,
             NEW flags \in SUBSET (0..Len(tasks)), RunTasks(o, signers, flags)
      PROVE  RunnerInv'
  <2>1. TypeOK' /\ (PointsInv => PointsInv')
    BY <1>0, <1>5, RunTasksPoints
  <2>2. RewardTypes' /\ strayPoints' = strayPoints
    BY <1>3, <1>5 DEF RunTasks
  <2>3. CallOK'
    <3> DEFINE c(b, f) == [owner |-> o, batch |-> b, earned |-> 0, flagged |-> f]
    <3>1. \E b, f : calls' = <<c(b, f)>>
      BY <1>5 DEF RunTasks
    <3>2. \A b, f : RunOf(c(b, f))
      BY DEF RunOf
    <3> HIDE DEF c
    <3> QED
      BY <3>1, <3>2 DEF CallOK
  <2> QED
    BY <1>0, <2>1, <2>2, <2>3 DEF RunnerInv
<1>6. ASSUME ~Idle,
             \/ calls' = <<[Call EXCEPT !.batch = Tail(@)]>>
             \/ calls' = <<[Call EXCEPT !.batch = Tail(@), !.earned = @ + 1]>>
      PROVE  CallOK'
  <2>1. RunOf(Call)
    BY <1>0, <1>6 DEF CallOK, Call
  <2>2. /\ RunOf([Call EXCEPT !.batch = Tail(@)])
        /\ RunOf([Call EXCEPT !.batch = Tail(@), !.earned = @ + 1])
    BY <2>1, RunGoesOn
  <2>3. PICK c : calls' = <<c>> /\ RunOf(c)
    BY <1>6, <2>2, Zenon
  <2> QED
    BY <2>3 DEF CallOK
<1>8. CASE TaskSucceeds
  <2>1. CallOK'
    BY <1>6, <1>8, Zenon DEF TaskSucceeds
  <2>2. (SwitchRound /\ DistributeRewards) \/ UNCHANGED <<vars, rewardVars>>
    BY <1>8 DEF TaskSucceeds
  <2>3. [Next]_vars
    BY <2>2 DEF Next
  <2>4. RewardTypes'
    BY <1>0, <1>3, <2>2, DistributeTyped
  <2> QED
    BY <1>1, <1>8, <2>1, <2>3, <2>4 DEF TaskSucceeds
<1>9. CASE TaskFails
  <2>1. CallOK'
    BY <1>6, <1>9, Zenon DEF TaskFails
  <2> QED
    BY <1>1, <1>3, <1>9, <2>1 DEF TaskFails
<1>10. CASE FinishRun
  <2>1. /\ TypeOK' /\ RewardTypes'
        /\ (Call.earned > 0 => Call.owner \in selected) /\ PointsInv => PointsInv'
    BY <1>0, <1>10, FinishRunPoints
  <2>2. CallOK'
    BY <1>10 DEF FinishRun, CallOK, Idle
  <2>3. strayPoints' = (strayPoints \/ (Call.earned > 0 /\ Call.owner \notin selected))
    BY <1>10 DEF FinishRun
  <2>4. strayPoints' \in BOOLEAN /\ (strayPoints' \/ PointsInv')
    BY <1>0, <2>1, <2>3
  <2> QED
    BY <2>1, <2>2, <2>4 DEF RunnerInv
<1>11. CASE RoundStep
  <2>1. [Next]_vars
    BY <1>11 DEF RoundStep, Next, OwnerStep
  <2> QED
    BY <1>1, <1>2, <1>3, <1>11, <2>1 DEF RoundStep, runnerVars
<1>12. CASE ClosingStep
  <2>1. [Next]_vars
    BY <1>12 DEF ClosingStep, CloseRound, Next
  <2> QED
    BY <1>0, <1>1, <1>2, <1>12, <2>1, DistributeTyped DEF ClosingStep, CloseRound
<1>13. CASE GovernanceStep
  BY <1>1, <1>2, <1>3, <1>13 DEF GovernanceStep, runnerVars
<1>14. CASE ReceiveFees
  <2>1. RewardTypes'
    BY <1>0, <1>14, RunnerAssumption DEF ReceiveFees, RewardTypes
  <2> QED
    BY <1>1, <1>2, <1>14, <2>1 DEF ReceiveFees
<1> QED
  BY <1>4, <1>5, <1>8, <1>9, <1>10, <1>11, <1>12, <1>13, <1>14 DEF RunnerNext

LEMMA RunnerInvariant == RunnerSpec => []RunnerInv
BY RunnerInvInit, RunnerInvStep, PTL DEF RunnerSpec

\* What a closing round owes for gas and for points is in the contract, in any
\* order of the owners and at any price, unless a run gave points to an owner
\* without a seat: _distributeRewards does not fail for want of tokens.
THEOREM RewardsStayCovered == RunnerSpec => []RewardsCoveredUnlessStray
<1>1. RunnerInv => RewardsCoveredUnlessStray
  <2> SUFFICES ASSUME RunnerInv, ~strayPoints, NEW order \in SetToSeqs(selected),
                      NEW price \in TokenPrices \ {0}
               PROVE  Payout(order, price) <= rewardFees
    BY DEF RewardsCoveredUnlessStray, RewardsCovered
  <2>1. TypeOK /\ RewardTypes /\ PointsWithinTotal
    BY DEF RunnerInv, PointsInv
  <2>2. price \in Nat /\ PriceServes(price)
    BY RunnerAssumption DEF PriceServes
  <2> QED
    BY <2>1, <2>2, PayoutSound
<1> QED
  BY <1>1, RunnerInvariant, PTL

-----------------------------------------------------------------------------
(***************************************************************************)
(* The credit of an owner.                                                 *)
(***************************************************************************)
CreditKept(o) ==
    coinbaseUsed'[o] < coinbaseUsed[o] =>
        /\ coinbaseUsed'[o] = 0
        /\ \E price \in TokenPrices \ {0} :
              /\ coinbaseUsed[o] \div price > 0
              /\ coinbaseUsed[o] \div price <= rewardFees - rewardFees'

\* A closing round takes the credit of the owners whose gas it pays, no other.
LEMMA DistributeKeepsCredit ==
    ASSUME TypeOK, RewardTypes, DistributeRewards, NEW o \in Owners
    PROVE  CreditKept(o)
<1>1. coinbaseUsed[o] \in Nat /\ rewardFees \in Nat
  BY DEF RewardTypes
<1>2. CASE rewardFees = 0
  BY <1>1, <1>2 DEF DistributeRewards, rewardVars, CreditKept
<1>3. CASE rewardFees # 0
  <2>1. PICK order \in SetToSeqs(selected), price \in TokenPrices :
            /\ PriceServes(price)
            /\ rewardFees' = rewardFees - Payout(order, price)
            /\ coinbaseUsed' = [p \in Owners |->
                                  IF p \in Repaid(order, price) THEN 0 ELSE coinbaseUsed[p]]
    BY <1>3 DEF DistributeRewards
  <2>2. price \in Nat
    BY RunnerAssumption
  <2>3. /\ Payout(order, price) \in Nat
        /\ \A p \in Repaid(order, price) :
              p \in selected /\ GasReward(p, price) > 0
              /\ GasReward(p, price) <= Payout(order, price)
    BY <2>1, <2>2, PayoutSound
  <2>4. CASE o \notin Repaid(order, price)
    BY <1>1, <2>1, <2>4 DEF CreditKept
  <2>5. CASE o \in Repaid(order, price)
    <3>1. coinbaseUsed'[o] = 0
      BY <2>1, <2>5
    <3>2. price # 0 /\ GasReward(o, price) = coinbaseUsed[o] \div price
      BY <2>1, <2>2, <2>3, <2>5, GasTyped
    <3>3. rewardFees - rewardFees' = Payout(order, price)
      BY <1>1, <2>1, <2>3
    <3>4. coinbaseUsed[o] \div price > 0 /\ coinbaseUsed[o] \div price <= rewardFees - rewardFees'
      BY <2>3, <2>5, <3>2, <3>3
    <3> QED
      BY <3>1, <3>2, <3>4 DEF CreditKept
  <2> QED
    BY <2>4, <2>5
<1> QED
  BY <1>2, <1>3

LEMMA CreditStep ==
    ASSUME RunnerInv, [RunnerNext]_<<vars, queueVars, runnerVars>>, NEW o \in Owners
    PROVE  CreditKept(o)
<1>0. TypeOK /\ RewardTypes /\ CallOK /\ coinbaseUsed[o] \in Nat
  BY DEF RunnerInv, RewardTypes
<1>1. ASSUME UNCHANGED coinbaseUsed PROVE CreditKept(o)
  BY <1>0, <1>1 DEF CreditKept
<1>2. CASE UNCHANGED <<vars, queueVars, runnerVars>>
  BY <1>1, <1>2 DEF runnerVars, rewardVars
<1>3. ASSUME NEW p \in Owners, NEW signers \in SUBSET selected,
             NEW flags \in SUBSET (0..Len(tasks)), RunTasks(p, signers, flags)
      PROVE  CreditKept(o)
  BY <1>1, <1>3 DEF RunTasks, rewardVars
<1>4. CASE TaskSucceeds
  <2>1. DistributeRewards \/ UNCHANGED rewardVars
    BY <1>4 DEF TaskSucceeds
  <2> QED
    BY <1>0, <1>1, <2>1, DistributeKeepsCredit DEF rewardVars
<1>5. CASE TaskFails
  BY <1>1, <1>5 DEF TaskFails, rewardVars
<1>6. CASE FinishRun
  <2>1. PICK gas \in GasCosts :
            coinbaseUsed' = IF Call.flagged
                            THEN [coinbaseUsed EXCEPT ![Call.owner] = @ + gas]
                            ELSE coinbaseUsed
    BY <1>6 DEF FinishRun
  <2>2. gas \in Nat
    BY RunnerAssumption
  <2>3. coinbaseUsed'[o] >= coinbaseUsed[o]
    BY <1>0, <2>1, <2>2 DEF RewardTypes
  <2>4. coinbaseUsed'[o] \in Nat
    BY <1>0, <2>1, <2>2 DEF RewardTypes
  <2> QED
    BY <1>0, <2>3, <2>4 DEF CreditKept
<1>7. CASE RoundStep
  BY <1>1, <1>7 DEF RoundStep, runnerVars, rewardVars
<1>8. CASE ClosingStep
  BY <1>0, <1>8, DistributeKeepsCredit DEF ClosingStep, CloseRound
<1>9. CASE GovernanceStep
  BY <1>1, <1>9 DEF GovernanceStep, runnerVars, rewardVars
<1>10. CASE ReceiveFees
  BY <1>1, <1>10 DEF ReceiveFees
<1> QED
  BY <1>2, <1>3, <1>4, <1>5, <1>6, <1>7, <1>8, <1>9, <1>10 DEF RunnerNext

\* What an oracle spent on gas is owed until the contract pays the whole of it,
\* rounded down to tokens, out of its fees: rounds that close with too little,
\* or in which the owner has no seat, leave its credit.
THEOREM CreditStaysUntilPaid == RunnerSpec => CreditKeptUntilPaid
<1>1. RunnerInv /\ [RunnerNext]_<<vars, queueVars, runnerVars>>
        => [\A o \in Owners : coinbaseUsed'[o] < coinbaseUsed[o] =>
              /\ coinbaseUsed'[o] = 0
              /\ \E price \in TokenPrices \ {0} :
                    /\ coinbaseUsed[o] \div price > 0
                    /\ coinbaseUsed[o] \div price <= rewardFees - rewardFees'
           ]_<<vars, queueVars, runnerVars>>
  BY CreditStep DEF CreditKept
<1> QED
  BY <1>1, RunnerInvariant, PTL DEF RunnerSpec, CreditKeptUntilPaid
=============================================================================
