-------------------------- MODULE ThreadPoolProofs ---------------------------
(***************************************************************************)
(* The safety properties of ThreadPool, and that it implements TaskQueue,  *)
(* for every number of workers and of tasks.                               *)
(***************************************************************************)
EXTENDS ThreadPool, TLAPS

\* What the steps of the proof use of an invariant state.
USE OwnerAssumption, WorkerAssumption, TaskAssumption

\* A new pool is in the invariant.
LEMMA InitIInv == Init => IInv
<1> SUFFICES ASSUME Init PROVE IInv
  OBVIOUS
<1>1. /\ tasks \in Seq(Tasks)
      /\ Len(tasks) = 0
  BY DEF Init
<1>2. /\ pc[Owner] = "use"
      /\ \A w \in Workers : pc[w] = "lock"
  BY DEF Init
<1>3. TypeOK
  BY <1>1 DEF Init, TypeOK
<1>4. PcInv /\ MutexInv /\ NoPopFromEmpty /\ RunOnce /\ DrainInv
  BY <1>2 DEF Init, PcInv, MutexInv, NoPopFromEmpty, RunOnce, DrainInv, Holds, Executes
<1>5. TasksInv /\ QueueInv
  BY <1>1, <1>2 DEF Init, TasksInv, QueueInv, Executes
<1>6. QED BY <1>3, <1>4, <1>5 DEF IInv

\* Appending k to the queue: the old tasks stay where they are, k is last.
LEMMA AppendFacts ==
    ASSUME NEW s \in Seq(Tasks), NEW k \in Tasks
    PROVE  /\ Append(s, k) \in Seq(Tasks)
           /\ Append(s, k) # <<>>
           /\ Len(Append(s, k)) = Len(s) + 1
           /\ \A i \in 1 .. Len(s) : Append(s, k)[i] = s[i]
           /\ Append(s, k)[Len(s) + 1] = k
OBVIOUS

\* Taking the first task off: what was at i + 1 is at i.
LEMMA TailFacts ==
    ASSUME NEW s \in Seq(Tasks), s # <<>>
    PROVE  /\ Tail(s) \in Seq(Tasks)
           /\ Len(s) \in Nat \ {0}
           /\ s[1] \in Tasks
           /\ Head(s) = s[1]
           /\ Len(Tail(s)) = Len(s) - 1
           /\ \A i \in 1 .. Len(Tail(s)) : Tail(s)[i] = s[i + 1]
OBVIOUS

\* submit() keeps the invariant, by whomever it is called.
LEMMA PushIInv ==
    ASSUME IInv, NEW k \in Tasks,
           \/ Push(Owner, "use", k)
           \/ \E w \in Workers : Push(w, "run", k)
    PROVE  IInv'
<1> PICK t \in Workers \cup {Owner} :
        Push(t, IF t = Owner THEN "use" ELSE "run", k)
  OBVIOUS
<1>1. /\ tasks' \in Seq(Tasks)
      /\ tasks' # <<>>
      /\ Len(tasks) \in Nat
      /\ Len(tasks') = Len(tasks) + 1
      /\ \A i \in 1 .. Len(tasks) : tasks'[i] = tasks[i]
      /\ tasks'[Len(tasks) + 1] = k
  BY AppendFacts DEF Push, IInv, TypeOK
<1>2. /\ submitted' = submitted \cup {k}
      /\ k \notin submitted
      /\ pc' = [pc EXCEPT ![t] = "notify"]
      /\ pc[t] = IF t = Owner THEN "use" ELSE "run"
      /\ UNCHANGED <<stopping, task, done>>
      /\ \A w \in Workers : ~Holds(w)
  BY DEF Push, MutexFree
<1> HIDE DEF Push
<1>3. TypeOK'
  BY <1>1, <1>2 DEF IInv, TypeOK
<1>4. PcInv'
  BY <1>2 DEF IInv, TypeOK, PcInv
<1>5. MutexInv' /\ NoPopFromEmpty'
  BY <1>2 DEF IInv, TypeOK, PcInv, MutexInv, NoPopFromEmpty, Holds
<1>6. \A w \in Workers : Executes(w)' <=> Executes(w)
  BY <1>2 DEF IInv, TypeOK, PcInv, Executes
<1>7. TasksInv'
  BY <1>1, <1>2, <1>6 DEF IInv, TypeOK, TasksInv
<1>8. QueueInv'
  BY <1>1, <1>2 DEF IInv, TypeOK, TasksInv, QueueInv
<1>9. RunOnce'
  BY <1>1, <1>2, <1>6 DEF IInv, TypeOK, TasksInv, RunOnce
<1>10. DrainInv'
  BY <1>1, <1>2 DEF IInv, TypeOK, PcInv, DrainInv
<1>11. QED BY <1>3, <1>4, <1>5, <1>7, <1>8, <1>9, <1>10 DEF IInv

\* Neither does pop() lose or duplicate a task.
LEMMA PopIInv ==
    ASSUME IInv, NEW w \in Workers, Pop(w)
    PROVE  IInv'
<1>1. /\ tasks' \in Seq(Tasks)
      /\ Len(tasks) \in Nat \ {0}
      /\ Len(tasks') = Len(tasks) - 1
      /\ \A i \in 1 .. Len(tasks') : tasks'[i] = tasks[i + 1]
  BY TailFacts DEF Pop, IInv, TypeOK
<1>2. /\ pc[w] = "pop"
      /\ pc' = [pc EXCEPT ![w] = "run"]
      /\ task[w] = tasks[1]
      /\ UNCHANGED <<stopping, task, submitted, done>>
  BY DEF Pop, IInv, MutexInv
<1>3. /\ task[w] \in submitted \ done
      /\ \A v \in Workers : Executes(v) => task[v] # task[w]
      /\ \A i \in 1 .. Len(tasks') : tasks'[i] # task[w]
  BY <1>1, <1>2 DEF IInv, TasksInv, RunOnce, QueueInv
<1>4. TypeOK' /\ PcInv'
  BY <1>1, <1>2 DEF IInv, TypeOK, PcInv
<1>5. MutexInv' /\ NoPopFromEmpty'
  BY <1>2 DEF IInv, TypeOK, PcInv, MutexInv, NoPopFromEmpty, Holds
<1>6. \A v \in Workers : Executes(v)' <=> (Executes(v) \/ v = w)
  BY <1>2 DEF IInv, TypeOK, Executes
<1>7. TasksInv'
  <2>1. ASSUME NEW k \in submitted
        PROVE  \/ k \in done
               \/ \E i \in 1 .. Len(tasks') : tasks'[i] = k
               \/ \E v \in Workers : Executes(v)' /\ task[v] = k
    <3>1. CASE k \in done \/ \E v \in Workers : Executes(v) /\ task[v] = k
      BY <3>1, <1>6
    <3>2. ASSUME NEW i \in 1 .. Len(tasks), tasks[i] = k
          PROVE  \/ \E j \in 1 .. Len(tasks') : tasks'[j] = k
                 \/ \E v \in Workers : Executes(v)' /\ task[v] = k
      <4>1. CASE i = 1
        BY <4>1, <3>2, <1>2, <1>6
      <4>2. CASE i # 1
        <5>1. i - 1 \in 1 .. Len(tasks') /\ tasks'[i - 1] = tasks[i]
          BY <4>2, <1>1
        <5>2. QED BY <5>1, <3>2
      <4>3. QED BY <4>1, <4>2
    <3>3. QED BY <3>1, <3>2 DEF IInv, TasksInv
  <2>2. \A i \in 1 .. Len(tasks') : tasks'[i] \in submitted \ done
    BY <1>1 DEF IInv, TasksInv
  <2>3. \A v \in Workers : Executes(v)' => task[v] \in submitted
    BY <1>3, <1>6 DEF IInv, TasksInv
  <2>4. QED BY <2>1, <2>2, <2>3, <1>2 DEF IInv, TasksInv
<1>8. QueueInv'
  BY <1>1 DEF IInv, QueueInv
<1>9. RunOnce'
  BY <1>1, <1>2, <1>3, <1>6 DEF IInv, RunOnce
<1>10. DrainInv'
  BY <1>2 DEF IInv, TypeOK, PcInv, DrainInv
<1>11. QED BY <1>4, <1>5, <1>7, <1>8, <1>9, <1>10 DEF IInv

\* The steps that leave the queue and the tasks alone.
LEMMA ControlIInv ==
    ASSUME IInv, NEW w \in Workers,
           \/ Lock(w) \/ Test(w) \/ Block(w) \/ Decide(w)
           \/ WakeSpuriously(w) \/ NotifyOne(w, "run")
    PROVE  IInv'
<1> USE DEF IInv, TypeOK, PcInv, MutexInv, TasksInv, QueueInv, DrainInv,
            NoPopFromEmpty, RunOnce, Holds, Executes
<1>1. CASE Lock(w)
  BY <1>1 DEF Lock, MutexFree
<1>2. CASE Test(w)
  BY <1>2 DEF Test
<1>3. CASE Block(w)
  BY <1>3 DEF Block
<1>4. CASE Decide(w)
  BY <1>4 DEF Decide
<1>5. CASE WakeSpuriously(w)
  BY <1>5 DEF WakeSpuriously
<1>6. CASE NotifyOne(w, "run")
  <2>1. PICK n \in Workers :
              /\ pc[w] = "notify"
              /\ \/ pc' = [pc EXCEPT ![w] = "run"]
                 \/ /\ pc[n] = "waiting"
                    /\ pc' = [pc EXCEPT ![w] = "run", ![n] = "lock"]
              /\ UNCHANGED <<tasks, stopping, task, submitted, done>>
    BY <1>6 DEF NotifyOne
  <2>2. QED BY <2>1
<1>7. QED BY <1>1, <1>2, <1>3, <1>4, <1>5, <1>6

\* A worker that takes the first task or ends the one it runs.
LEMMA TaskIInv ==
    ASSUME IInv, NEW w \in Workers, Take(w) \/ Finish(w)
    PROVE  IInv'
<1>1. CASE Take(w)
  <2>1. Head(tasks) = tasks[1] /\ tasks[1] \in Tasks
    BY <1>1, TailFacts DEF Take, IInv, TypeOK
  <2>2. QED
    BY <1>1, <2>1
       DEF Take, IInv, TypeOK, PcInv, MutexInv, TasksInv, QueueInv, DrainInv,
           NoPopFromEmpty, RunOnce, Holds, Executes
<1>2. CASE Finish(w)
  BY <1>2
     DEF Finish, IInv, TypeOK, PcInv, MutexInv, TasksInv, QueueInv, DrainInv,
         NoPopFromEmpty, RunOnce, Holds, Executes
<1>3. QED BY <1>1, <1>2

\* The owner's steps: its notifications, and the destructor.
LEMMA OwnerIInv ==
    ASSUME IInv, OwnerSteps \/ StoreStopping
    PROVE  IInv'
<1> USE DEF IInv, TypeOK, PcInv, MutexInv, TasksInv, QueueInv, DrainInv,
            NoPopFromEmpty, RunOnce, Holds, Executes
<1>1. CASE NotifyOne(Owner, "use")
  <2>1. PICK n \in Workers :
              /\ pc[Owner] = "notify"
              /\ \/ pc' = [pc EXCEPT ![Owner] = "use"]
                 \/ /\ pc[n] = "waiting"
                    /\ pc' = [pc EXCEPT ![Owner] = "use", ![n] = "lock"]
              /\ UNCHANGED <<tasks, stopping, task, submitted, done>>
    BY <1>1 DEF NotifyOne
  <2>2. QED BY <2>1
<1>2. CASE NotifyAll
  <2>1. /\ pc[Owner] = "stopped" /\ pc'[Owner] = "joining"
        /\ \A w \in Workers : pc'[w] = IF pc[w] = "waiting" THEN "lock" ELSE pc[w]
        /\ UNCHANGED <<tasks, stopping, task, submitted, done>>
    BY <1>2 DEF NotifyAll
  <2>2. TypeOK'
    BY <1>2, <2>1 DEF NotifyAll
  <2>3. /\ \A w \in Workers : Holds(w)' <=> Holds(w)
        /\ \A w \in Workers : Executes(w)' <=> Executes(w)
    BY <2>1
  <2>4. PcInv' /\ MutexInv' /\ NoPopFromEmpty' /\ DrainInv'
    BY <2>1, <2>3
  <2>5. TasksInv' /\ QueueInv' /\ RunOnce'
    <3> HIDE DEF Executes
    <3> QED BY <2>1, <2>3
  <2>6. QED BY <2>2, <2>4, <2>5
<1>3. CASE Join
  BY <1>3 DEF Join
<1>4. CASE StoreStopping
  BY <1>4 DEF StoreStopping
<1>5. QED BY <1>1, <1>2, <1>3, <1>4 DEF OwnerSteps

LEMMA NextIInv == IInv /\ [Next]_vars => IInv'
<1> SUFFICES ASSUME IInv, [Next]_vars PROVE IInv'
  OBVIOUS
<1>1. CASE OwnerSteps \/ StoreStopping
  BY <1>1, OwnerIInv
<1>2. ASSUME NEW k \in Tasks,
             \/ Push(Owner, "use", k)
             \/ \E w \in Workers : Push(w, "run", k)
      PROVE  IInv'
  BY <1>2, PushIInv
<1>3. ASSUME NEW w \in Workers, WorkerSteps(w) \/ WakeSpuriously(w)
      PROVE  IInv'
  BY <1>3, ControlIInv, TaskIInv, PopIInv DEF WorkerSteps
<1>4. CASE UNCHANGED vars
  BY <1>4 DEF vars, IInv, TypeOK, PcInv, MutexInv, TasksInv, QueueInv, DrainInv,
              NoPopFromEmpty, RunOnce, Holds, Executes
<1>5. QED BY <1>1, <1>2, <1>3, <1>4 DEF Next

LEMMA Invariance == Spec => []IInv
BY InitIInv, NextIInv, PTL DEF Spec

\* Every behaviour of the pool is well typed.
THEOREM TypeCorrect == Spec => []TypeOK
<1>1. IInv => TypeOK  BY DEF IInv
<1>2. QED BY <1>1, Invariance, PTL

\* No worker ever pops an empty queue, however many contend for it.
THEOREM NeverPopsEmpty == Spec => []NoPopFromEmpty
<1>1. IInv => NoPopFromEmpty  BY DEF IInv
<1>2. QED BY <1>1, Invariance, PTL

\* No task runs twice.
THEOREM RunsOnce == Spec => []RunOnce
<1>1. IInv => RunOnce  BY DEF IInv
<1>2. QED BY <1>1, Invariance, PTL

\* If the destructor returns, every task ever submitted has run.
THEOREM Drained == Spec => []JoinedMeansDrained
<1>1. IInv => JoinedMeansDrained
  <2> SUFFICES ASSUME IInv, pc[Owner] = "joined" PROVE done = submitted
    BY DEF JoinedMeansDrained
  <2>1. /\ tasks = <<>> /\ Len(tasks) = 0
        /\ \A w \in Workers : ~Executes(w)
    BY DEF IInv, DrainInv, Executes
  <2>2. submitted \subseteq done
    BY <2>1 DEF IInv, TasksInv
  <2>3. done \subseteq submitted
    BY DEF IInv, TasksInv
  <2>4. QED BY <2>2, <2>3
<1>2. QED BY <1>1, Invariance, PTL
-----------------------------------------------------------------------------
(* The pool implements TaskQueue.                                           *)

\* The tasks the workers are at have been submitted and are neither done nor
\* queued.
LEMMA AtWorkFacts ==
    ASSUME IInv
    PROVE  /\ AtWork \subseteq submitted \ done
           /\ \A i \in 1 .. Len(tasks) : tasks[i] \notin AtWork
<1>1. AtWork \subseteq submitted \ done
  BY DEF IInv, TasksInv, RunOnce, AtWork
<1>2. \A i \in 1 .. Len(tasks) : tasks[i] \notin AtWork
  BY DEF IInv, RunOnce, AtWork
<1>3. QED BY <1>1, <1>2

\* A step after which the same workers execute the same tasks, and which leaves
\* queue and counts alone, is a stutter of the abstract queue.
LEMMA SilentStep ==
    ASSUME UNCHANGED <<tasks, task, done>>,
           \A w \in Workers : Executes(w)' <=> Executes(w),
           pc'[Owner] = "joined" <=> pc[Owner] = "joined"
    PROVE  UNCHANGED TaskQueue!queueVars
<1>1. AtWork' = AtWork
  BY DEF AtWork
<1>2. QED BY <1>1 DEF TaskQueue!queueVars

LEMMA InitTaskQueue == Init => TaskQueue!QueueInit
<1> SUFFICES ASSUME Init PROVE TaskQueue!QueueInit
  OBVIOUS
<1>1. AtWork = {}
  BY DEF Init, AtWork, Executes
<1>2. QED BY <1>1 DEF Init, TaskQueue!QueueInit

LEMMA PushSubmits ==
    ASSUME IInv, NEW k \in Tasks,
           \/ Push(Owner, "use", k)
           \/ \E w \in Workers : Push(w, "run", k)
    PROVE  TaskQueue!Submit(k)
<1> PICK t \in Workers \cup {Owner} :
        Push(t, IF t = Owner THEN "use" ELSE "run", k)
  OBVIOUS
<1>1. /\ tasks' = Append(tasks, k)
      /\ k \notin submitted
      /\ pc' = [pc EXCEPT ![t] = "notify"]
      /\ pc[t] = IF t = Owner THEN "use" ELSE "run"
      /\ UNCHANGED <<task, done>>
  BY DEF Push
<1>2. \A w \in Workers : Executes(w)' <=> Executes(w)
  BY <1>1 DEF IInv, TypeOK, PcInv, Executes
<1>3. AtWork' = AtWork
  BY <1>1, <1>2 DEF AtWork
<1>4. pc[Owner] # "joined" /\ pc'[Owner] # "joined"
  BY <1>1 DEF IInv, TypeOK, DrainInv
<1>5. k \notin AtWork \cup done /\ \A i \in 1 .. Len(tasks) : tasks[i] # k
  BY <1>1, AtWorkFacts DEF IInv, TasksInv
<1>6. QED BY <1>1, <1>3, <1>4, <1>5 DEF TaskQueue!Submit

LEMMA PopBegins ==
    ASSUME IInv, NEW w \in Workers, Pop(w)
    PROVE  TaskQueue!Begin
<1>1. /\ tasks # <<>> /\ tasks' = Tail(tasks) /\ task[w] = Head(tasks)
      /\ pc[w] = "pop" /\ pc' = [pc EXCEPT ![w] = "run"]
      /\ UNCHANGED <<task, done>>
  BY TailFacts DEF Pop, IInv, TypeOK, MutexInv
<1>2. \A v \in Workers : Executes(v)' <=> (Executes(v) \/ v = w)
  BY <1>1 DEF IInv, TypeOK, Executes
<1>3. AtWork' = AtWork \cup {Head(tasks)}
  BY <1>1, <1>2 DEF AtWork
<1>4. (pc'[Owner] = "joined") = (pc[Owner] = "joined")
  BY <1>1 DEF IInv, TypeOK
<1>5. QED BY <1>1, <1>3, <1>4 DEF TaskQueue!Begin

LEMMA FinishEnds ==
    ASSUME IInv, NEW w \in Workers, Finish(w)
    PROVE  TaskQueue!End(task[w])
<1>1. /\ pc[w] = "run" /\ pc' = [pc EXCEPT ![w] = "lock"]
      /\ done' = done \cup {task[w]}
      /\ UNCHANGED <<task, tasks>>
  BY DEF Finish
<1>2. \A v \in Workers : Executes(v)' <=> (Executes(v) /\ v # w)
  BY <1>1 DEF IInv, TypeOK, Executes
<1>3. /\ Executes(w)
      /\ \A v \in Workers : Executes(v) /\ v # w => task[v] # task[w]
  BY <1>1 DEF IInv, RunOnce, Executes
<1>4. task[w] \in AtWork /\ AtWork' = AtWork \ {task[w]}
  BY <1>1, <1>2, <1>3 DEF AtWork
<1>5. (pc'[Owner] = "joined") = (pc[Owner] = "joined")
  BY <1>1 DEF IInv, TypeOK
<1>6. QED BY <1>1, <1>4, <1>5 DEF TaskQueue!End

LEMMA JoinCloses ==
    ASSUME IInv, Join
    PROVE  TaskQueue!CloseWhenIdle
<1>1. /\ \A w \in Workers : pc[w] = "returned"
      /\ pc' = [pc EXCEPT ![Owner] = "joined"]
      /\ UNCHANGED <<task, tasks, done>>
  BY DEF Join
<1>2. tasks = <<>> /\ AtWork = {}
  BY <1>1 DEF IInv, DrainInv, AtWork, Executes
<1>3. AtWork' = {} /\ pc'[Owner] = "joined"
  BY <1>1 DEF IInv, TypeOK, AtWork, Executes
<1>4. QED BY <1>1, <1>2, <1>3 DEF TaskQueue!CloseWhenIdle

\* Every other step is silent.
LEMMA OtherStepsAreSilent ==
    ASSUME IInv,
           \/ \E w \in Workers : \/ Lock(w) \/ Test(w) \/ Block(w) \/ Decide(w)
                                 \/ WakeSpuriously(w) \/ NotifyOne(w, "run")
                                 \/ Take(w)
           \/ NotifyOne(Owner, "use") \/ NotifyAll \/ StoreStopping
           \/ UNCHANGED vars
    PROVE  UNCHANGED TaskQueue!queueVars
<1> USE DEF IInv, TypeOK, PcInv
<1>1. ASSUME NEW w \in Workers,
             Lock(w) \/ Test(w) \/ Block(w) \/ Decide(w) \/ WakeSpuriously(w)
      PROVE  UNCHANGED TaskQueue!queueVars
  BY <1>1, SilentStep DEF Lock, Test, Block, Decide, WakeSpuriously, Executes
<1>2. ASSUME NEW w \in Workers, Take(w)
      PROVE  UNCHANGED TaskQueue!queueVars
  <2>1. /\ UNCHANGED <<tasks, done>> /\ pc[w] = "take"
        /\ pc' = [pc EXCEPT ![w] = "pop"]
        /\ \A v \in Workers : v # w => task'[v] = task[v]
    BY <1>2 DEF Take
  <2>2. \A v \in Workers : /\ Executes(v)' <=> Executes(v)
                           /\ Executes(v) => task'[v] = task[v]
    BY <2>1 DEF Executes
  <2>3. AtWork' = AtWork
    BY <2>2 DEF AtWork
  <2>4. QED BY <2>1, <2>3 DEF TaskQueue!queueVars
<1>3. ASSUME NEW t \in Workers \cup {Owner},
             NotifyOne(t, IF t = Owner THEN "use" ELSE "run")
      PROVE  UNCHANGED TaskQueue!queueVars
  <2>1. PICK n \in Workers :
              /\ pc[t] = "notify"
              /\ \/ pc' = [pc EXCEPT ![t] = IF t = Owner THEN "use" ELSE "run"]
                 \/ /\ pc[n] = "waiting"
                    /\ pc' = [pc EXCEPT ![t] = IF t = Owner THEN "use" ELSE "run",
                                        ![n] = "lock"]
              /\ UNCHANGED <<tasks, stopping, task, submitted, done>>
    BY <1>3 DEF NotifyOne
  <2>2. QED BY <2>1, SilentStep DEF Executes
<1>4. CASE NotifyAll
  BY <1>4, SilentStep DEF NotifyAll, Executes
<1>5. CASE StoreStopping
  BY <1>5, SilentStep DEF StoreStopping, Executes
<1>6. CASE UNCHANGED vars
  BY <1>6, SilentStep DEF vars, Executes
<1>7. QED BY <1>1, <1>2, <1>3, <1>4, <1>5, <1>6

LEMMA NextTaskQueue ==
    IInv /\ [Next]_vars => [TaskQueue!QueueNext]_TaskQueue!queueVars
<1> SUFFICES ASSUME IInv, [Next]_vars
             PROVE  [TaskQueue!QueueNext]_TaskQueue!queueVars
  OBVIOUS
<1>1. ASSUME NEW k \in Tasks,
             \/ Push(Owner, "use", k)
             \/ \E w \in Workers : Push(w, "run", k)
      PROVE  TaskQueue!QueueNext
  BY <1>1, PushSubmits DEF TaskQueue!QueueNext
<1>2. ASSUME NEW w \in Workers, Pop(w)
      PROVE  TaskQueue!QueueNext
  BY <1>2, PopBegins DEF TaskQueue!QueueNext
<1>3. ASSUME NEW w \in Workers, Finish(w)
      PROVE  TaskQueue!QueueNext
  <2>1. task[w] \in Tasks
    BY <1>3 DEF Finish, IInv, TypeOK
  <2>2. QED BY <1>3, <2>1, FinishEnds DEF TaskQueue!QueueNext
<1>4. CASE Join
  BY <1>4, JoinCloses DEF TaskQueue!QueueNext
<1>5. QED
  BY <1>1, <1>2, <1>3, <1>4, OtherStepsAreSilent DEF Next, OwnerSteps, WorkerSteps

\* For its users the pool is a queue that begins tasks in the order of their
\* submission, runs each one once and closes when none is left.
THEOREM Refinement == Spec => ImplementsTaskQueue
BY InitTaskQueue, NextTaskQueue, Invariance, PTL
   DEF Spec, ImplementsTaskQueue, TaskQueue!QueueSpec
=============================================================================
